---------------------------- MODULE RequestHash ----------------------------
(***************************************************************************)
(* The hash of a request (load_balancer.rs, hash_request): what the        *)
(* policies of a ring hash balancer pick out of its headers and its query, *)
(* each digested, turned by one bit and combined.                          *)
(***************************************************************************)
EXTENDS Indices, Integers, SequencesExt

CONSTANTS
    HashBits,        \* 64
    Digest(_),       \* hash_iter of a sequence of values
    BitXor(_, _),
    NoHash

\* u64::rotate_left(1)
RotateLeft(hash) ==
    ((2 * hash) % (2 ^ HashBits)) + (hash \div (2 ^ (HashBits - 1)))

ValuesOf(name, pairs) ==
    LET named == {i \in DOMAIN pairs : pairs[i].name = name}
    IN  [k \in 1..Cardinality(named) |-> pairs[Smallest(named, k)].value]

\* Values in order, so that the order they were sent in does not matter.
Sorted(values) ==
    [k \in DOMAIN values |->
        CHOOSE v \in Range(values) :
           /\ Cardinality({i \in DOMAIN values : values[i] < v}) < k
           /\ k <= Cardinality({i \in DOMAIN values : values[i] <= v})]

\* Mutated: as they were sent.
HeaderHash_Unsorted(name, headers) ==
    LET values == ValuesOf(name, headers)
    IN  IF values = <<>> THEN NoHash ELSE Digest(values)

HeaderHash(name, headers) ==
    LET values == ValuesOf(name, headers)
    IN  IF values = <<>> THEN NoHash ELSE Digest(Sorted(values))

\* A query without the parameter has a hash, that of no values.
QueryHash(name, query) ==
    IF query = NoHash THEN NoHash ELSE Digest(ValuesOf(name, query))

\* hash_component
HashComponent(policy, request) ==
    IF policy.hasher = "Header" THEN HeaderHash(policy.name, request.headers)
    ELSE QueryHash(policy.name, request.query)

Combine(hash, new) ==
    IF new = NoHash THEN hash
    ELSE IF hash = NoHash THEN new
    ELSE BitXor(RotateLeft(hash), new)

\* The loop breaks after the first terminal policy that has a hash.
Settles(policy, request) ==
    policy.terminal /\ HashComponent(policy, request) # NoHash
Counted(policies, request) ==
    {i \in DOMAIN policies : \A j \in 1..(i - 1) : ~Settles(policies[j], request)}

\* hash_request
HashRequest(policies, request) ==
    FoldLeft(Combine, NoHash,
             [i \in Counted(policies, request) |-> HashComponent(policies[i], request)])
=============================================================================
