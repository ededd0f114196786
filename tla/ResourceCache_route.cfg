SPECIFICATION Spec
CONSTANTS
    lRoute = lRoute  lPolicy = lPolicy  rcA = rcA
    cKube = cKube  cDns = cDns  eKube = eKube
    good = good  other = other  bad = bad
    Listener = {lRoute, lPolicy}
    RouteConfiguration = {rcA}
    Cluster = {cKube}
    ClusterLoadAssignment = {eKube}
    Dns = {}
    LbListener <- KubeLb
    Eds <- KubeEds
    Action = {good, other, bad}
    BadAction = {bad}
    Wanted = {lRoute}
    Deletes = {lPolicy, cKube}
    Sends <- RouteSends
    None = None
    Absent = Absent
INVARIANTS
    TypeOK
    DataHasSubscription
    AddedHasNoData
    LinkedWhenClean
    InlinePolicyApplied
PROPERTIES
    CollectKeepsWhatIsUsed
    RejectionKeepsContent
