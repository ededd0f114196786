SPECIFICATION Spec
CHECK_DEADLOCK FALSE
CONSTANTS
    None = None
    Failed = Failed
    Label <- MCLabel
    Spelling <- MCSpelling
    NameMax = 63
    HostnameMax = 253
    MaxPort = 65535
    MaxU32 = 100000
    Word <- MCWord
    Recognises <- MCRecognises
    AnyText <- ANY
    DefaultRing = 1024
    GatewayDuration = {1, 2, 3, 4, 5}
    AuthoredRoute <- MCAuthoredRoute
    WireRoute <- MCWireRoute
    GatewayRoute <- MCGatewayRoute
    AuthoredBackend <- MCAuthoredBackend
    WireBackend <- MCWireBackend
    ExistingService <- MCExistingService
    Namespace = {"prod"}
    Requests <- MCRequests
    MaxTrips = 4
    MaxRules = 3
INVARIANTS TypeOK MeaningKept RankDecides BackendsAlike
PROPERTIES TripsSettle
