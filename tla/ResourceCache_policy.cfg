SPECIFICATION Spec
CONSTANTS
    lRoute = lRoute  lPolicy = lPolicy  rcA = rcA
    cKube = cKube  cDns = cDns  eKube = eKube
    good = good  other = other  bad = bad
    Listener = {lRoute, lPolicy}
    RouteConfiguration = {rcA}
    Cluster = {cDns}
    ClusterLoadAssignment = {eKube}
    Dns = {cDns}
    LbListener <- DnsLb
    Eds <- DnsEds
    Action = {good, other, bad}
    BadAction = {bad}
    Wanted = {lRoute, cDns}
    Deletes = {lPolicy, cDns}
    Sends <- PolicySends
    None = None
    Absent = Absent
INVARIANTS
    LinkedWhenClean
PROPERTIES
    RejectionKeepsContent
