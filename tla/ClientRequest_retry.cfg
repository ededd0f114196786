SPECIFICATION FairSpec
CONSTANTS
    None = None
    Failed = Failed
    Absent = Absent
    Failure = Failure
    Label <- MCLabel
    Spelling <- MCSpelling
    NameMax = 63
    HostnameMax = 253
    MaxPort = 65535
    Recognises <- MCRecognises
    AnyText = AnyText
    DefaultRing = 1024
    Ndots = 4
    Search <- MCSearch
    Url <- RetryUrl
    Config <- MCConfig
    Key <- RetryKey
    Content <- RetryContent
    SubsRoom = 1
    Code = {503, 500}
    PhaseMod = 256
INVARIANTS TypeOK HistoryIsWhole
PROPERTIES RequestsEnd
