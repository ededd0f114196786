SPECIFICATION Spec
SYMMETRY Nonces
CONSTANTS
    lRoute = lRoute  lPolicy = lPolicy  rcA = rcA
    cKube = cKube  cDns = cDns  eKube = eKube  good = good
    Listener = {lRoute, lPolicy}
    RouteConfiguration = {rcA}
    Cluster = {cKube, cDns}
    ClusterLoadAssignment = {eKube}
    Dns = {cDns}
    LbListener <- BothLb
    Eds <- BothEds
    Action = {good}
    BadAction = {}
    Wanted = {}
    Deletes = {lRoute}
    Sends <- AllSends
    None = None
    Absent = Absent
    Updates <- AskOnAndOff
    Garbled = {"unknown"}
    Unreliable = TRUE
    Nonce = {n1, n2, n3}
    MaxInFlight = 2
INVARIANTS
    TypeOK
    MissingAreAskedFor
    NothingLeaked
    AnsweredUnlessOvertaken
    DnsClustersResolved
