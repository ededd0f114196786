------------------------------ MODULE HashRing ------------------------------
(***************************************************************************)
(* Endpoint groups (endpoints.rs) and the ring of hashes that spreads      *)
(* requests over one (load_balancer.rs, Ring).  A group is the sequence of *)
(* the address lists of its localities, in their order.  xxhash is a       *)
(* constant operator; a hash is a number.                                  *)
(***************************************************************************)
EXTENDS Naturals, Sequences, FiniteSets, SequencesExt

CONSTANTS
    Address,
    Group,              \* the endpoint groups there may be
    HashValue,          \* u64
    GroupHash(_),       \* EndpointGroup::hash
    PointHash(_, _),    \* hash(&(endpoint, i))
    MinRingSize,        \* RingHashParams::min_ring_size
    None

\* EndpointGroup::iter, len and nth, which counts from zero.
Endpoints == [group \in Group |-> FlattenSeq(group)]
Nth(group, n) ==
    IF n \in 0..(Len(Endpoints[group]) - 1) THEN Endpoints[group][n + 1] ELSE None

\* The default group has hash 0 and nobody in it.
ASSUME HashConstants ==
    /\ \A group \in Group : Endpoints[group] \in Seq(Address)
    /\ HashValue \subseteq Nat /\ 0 \in HashValue
    /\ \A group \in Group : GroupHash(group) \in HashValue
    /\ MinRingSize \in Nat
    /\ None \notin Nat /\ None \notin Address

\* Groups are told apart by their hashes.
ASSUME HashesTellGroups ==
    /\ \A g, h \in Group : GroupHash(g) = GroupHash(h) => g = h
    /\ \A g \in Group : GroupHash(g) = 0 => Endpoints[g] = <<>>

\* The points of each of so many endpoints, enough to fill the ring.
Repeats(count) ==
    IF count = 0 \/ MinRingSize = 0 THEN 1
    ELSE (MinRingSize + count - 1) \div count

\* The points of the endpoints, in the order they are pushed: by endpoint, then
\* by number.
Points(group) ==
    [idx : 0..(Len(Endpoints[group]) - 1), i : 0..(Repeats(Len(Endpoints[group])) - 1)]
PointOf(group, p) == PointHash(Endpoints[group][p.idx + 1], p.i)
Pushed(p, q) == p.idx < q.idx \/ (p.idx = q.idx /\ p.i <= q.i)

ASSUME PointConstants ==
    \A group \in Group : \A p \in Points(group) : PointOf(group, p) \in HashValue

\* sort_by_key of the hash, which is stable.
NotAfter(group, p, q) ==
    \/ PointOf(group, p) < PointOf(group, q)
    \/ PointOf(group, p) = PointOf(group, q) /\ Pushed(p, q)
Place(group, p) == Cardinality({q \in Points(group) : NotAfter(group, q, p)})

\* Ring::rebuild
RingOf[group \in Group] ==
    [k \in 1..Cardinality(Points(group)) |->
        LET p == CHOOSE q \in Points(group) : Place(group, q) = k
        IN  [hash |-> PointOf(group, p), idx |-> p.idx]]

\* Mutated: the hash as an index.
PickIn_Modulo(entries, hash) ==
    IF entries = <<>> THEN None ELSE entries[(hash % Len(entries)) + 1].idx

\* Ring::pick: past the last entry comes the first.
PickIn(entries, hash) ==
    IF entries = <<>> THEN None
    ELSE LET point == Cardinality({i \in DOMAIN entries : entries[i].hash < hash})
         IN  entries[(point % Len(entries)) + 1].idx
=============================================================================
