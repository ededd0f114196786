SPECIFICATION Spec
CONSTANTS
    None = None
    Waiting = Waiting
    NoHash = NoHash
    Caller = {t1, t2}
    t1 = t1
    t2 = t2
    Address = {"a", "b", "c"}
    Group <- MCGroup
    HashValue <- MCHashValue
    GroupHash <- MCGroupHash
    PointHash <- MCPointHash
    MinRingSize = 4
    HashBits = 3
    Request <- MCRequest
    Policies <- MCPolicies
    Digest <- MCDigest
    BitXor <- MCBitXor
INVARIANTS TypeOK OnlyItsOwnMove Affinity
PROPERTIES Implements
