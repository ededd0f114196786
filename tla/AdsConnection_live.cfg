SPECIFICATION FairSpec
CONSTANTS
    lRoute = lRoute  lPolicy = lPolicy  rcA = rcA
    cKube = cKube  cDns = cDns  eKube = eKube  good = good
    Listener = {lRoute, lPolicy}
    RouteConfiguration = {rcA}
    Cluster = {cKube}
    ClusterLoadAssignment = {eKube}
    Dns = {}
    LbListener <- KubeLb
    Eds <- KubeEds
    Action = {good}
    BadAction = {}
    Wanted = {}
    Deletes = {}
    Sends <- ListenerSends
    None = None
    Absent = Absent
    Updates <- AskOnAndOff
    Garbled = {}
    Unreliable = TRUE
    Nonce = {n1, n2}
    MaxInFlight = 1
PROPERTIES
    SubscriptionsAreSent
