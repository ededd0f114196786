SPECIFICATION FairSpec
CONSTANTS
    Hostname = {1, 2, 3}
    Port = {80}
    Worker = {w1, w2}
    Caller = {}
    Addrs = {x}
    Failed = Failed
    Targets <- ThreeNames
    Removable <- NoPairs
    NameSets <- NoNameSets
    Interval = 1
    MaxAge = 2
    MaxHandles = 3
    Never = Never
    Absent = Absent
    None = None
    Idle = Idle
PROPERTIES
    NewNamesResolve
    NamesAreRefreshed
