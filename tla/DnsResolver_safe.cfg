SPECIFICATION Spec
CONSTANTS
    Hostname = {1, 2}
    Port = {80, 443}
    Worker = {w1, w2}
    Caller = {a1}
    Addrs = {x, y}
    Failed = Failed
    Targets <- TwoNames
    Removable <- TwoNames
    NameSets <- TwoNameSets
    Interval = 1
    MaxAge = 1
    MaxHandles = 2
    Never = Never
    Absent = Absent
    None = None
    Idle = Idle
SYMMETRY Symmetric
INVARIANTS
    TypeOK
    ClaimsAreHeld
    EndpointsAreCurrent
    NewNamesAreNoticed
    SomeoneKeepsTime
    NoLostWakeup
PROPERTIES
    PinnedSurvive
