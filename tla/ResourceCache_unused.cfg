SPECIFICATION Spec
CONSTANTS
    lRoute = lRoute  lPolicy = lPolicy  rcA = rcA
    cKube = cKube  cDns = cDns  eKube = eKube
    good = good  other = other  bad = bad
    Listener = {lRoute, lPolicy}
    RouteConfiguration = {rcA}
    Cluster = {cKube}
    ClusterLoadAssignment = {eKube}
    Dns = {}
    LbListener <- KubeLb
    Eds <- KubeEds
    Action = {good, other, bad}
    BadAction = {bad}
    Wanted = {lRoute}
    Deletes = {}
    Sends <- UnusedSends
    None = None
    Absent = Absent
PROPERTIES
    UnusedAreCollected
