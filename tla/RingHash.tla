------------------------------ MODULE RingHash ------------------------------
(***************************************************************************)
(* RingHashLb (load_balancer.rs): one ring behind a read-write lock, built *)
(* for whichever endpoint group was asked about last.  A caller looks at   *)
(* it under the read lock, and when it is not for its group, lets go of it *)
(* and rebuilds it under the write lock; others run in between, with older *)
(* and newer groups.                                                       *)
(***************************************************************************)
EXTENDS HashRing, RequestHash

CONSTANTS
    Caller,          \* threads that pick endpoints
    Request,
    Policies,        \* how requests are hashed
    Waiting

VARIABLES
    ring,      \* eg_hash, the hash of the group it is for, and its entries
    call, answer,
    pc         \* caller -> "idle", "read", "write" or "done"

vars == <<ring, call, answer, pc>>

\* A request that has nothing to hash gets a random one.
Call == [group : Group, request : Request, hash : HashValue]
HashOf == [r \in Request |-> HashRequest(Policies, r)]
Asks == {c \in Call : HashOf[c.request] \in {NoHash, c.hash}}

\* The headers and the parameters of a request are finitely many.
ASSUME RequestConstants ==
    /\ Len(Policies) \in Nat /\ DOMAIN Policies = 1..Len(Policies)
    /\ \A r \in Request :
          /\ IsFiniteSet(DOMAIN r.headers)
          /\ r.query # NoHash => IsFiniteSet(DOMAIN r.query)

ASSUME CallConstants ==
    Waiting # None /\ Waiting \notin Address /\ None \notin Call

\* The pick of a ring that is built for the caller's own group.
OwnPick(c) == Nth(c.group, PickIn(RingOf[c.group], c.hash))

Stateless == INSTANCE StatelessPick WITH Answer <- OwnPick

\* RingHashLb::new
Init ==
    /\ ring = [eg_hash |-> 0, entries |-> <<>>]
    /\ call = [c \in Caller |-> None]
    /\ answer = [c \in Caller |-> Waiting]
    /\ pc = [c \in Caller |-> "idle"]

PickEndpoint(c) ==
    /\ pc[c] = "idle"
    /\ \E a \in Asks : call' = [call EXCEPT ![c] = a]
    /\ pc' = [pc EXCEPT ![c] = "read"]
    /\ UNCHANGED <<ring, answer>>

\* The callback of with_ring, and what becomes of its index.
Picked(c, entries) == Nth(call[c].group, PickIn(entries, call[c].hash))

\* Mutated: any ring will do that is not empty.
UseRing_Any(c) ==
    /\ pc[c] = "read"
    /\ ring.entries # <<>> \/ ring.eg_hash = GroupHash(call[c].group)
    /\ answer' = [answer EXCEPT ![c] = Picked(c, ring.entries)]
    /\ pc' = [pc EXCEPT ![c] = "done"]
    /\ UNCHANGED <<ring, call>>

\* Mutated: goes on to rebuild, for want of a return.
UseRing_Falls(c) ==
    /\ pc[c] = "read"
    /\ ring.eg_hash = GroupHash(call[c].group)
    /\ answer' = [answer EXCEPT ![c] = Picked(c, ring.entries)]
    /\ pc' = [pc EXCEPT ![c] = "write"]
    /\ UNCHANGED <<ring, call>>

UseRing(c) ==
    /\ pc[c] = "read"
    /\ ring.eg_hash = GroupHash(call[c].group)
    /\ answer' = [answer EXCEPT ![c] = Picked(c, ring.entries)]
    /\ pc' = [pc EXCEPT ![c] = "done"]
    /\ UNCHANGED <<ring, call>>

Miss(c) ==
    /\ pc[c] = "read"
    /\ ring.eg_hash # GroupHash(call[c].group)
    /\ pc' = [pc EXCEPT ![c] = "write"]
    /\ UNCHANGED <<ring, call, answer>>

Rebuild(c) ==
    /\ pc[c] = "write"
    /\ ring' = [eg_hash |-> GroupHash(call[c].group),
                entries |-> RingOf[call[c].group]]
    /\ answer' = [answer EXCEPT ![c] = Picked(c, ring'.entries)]
    /\ pc' = [pc EXCEPT ![c] = "done"]
    /\ UNCHANGED call

Return(c) ==
    /\ pc[c] = "done"
    /\ call' = [call EXCEPT ![c] = None]
    /\ answer' = [answer EXCEPT ![c] = Waiting]
    /\ pc' = [pc EXCEPT ![c] = "idle"]
    /\ UNCHANGED ring

Next ==
    \E c \in Caller :
       PickEndpoint(c) \/ UseRing(c) \/ Miss(c) \/ Rebuild(c) \/ Return(c)

Spec == Init /\ [][Next]_vars

----------------------------------------------------------------------------

TypeOK ==
    /\ DOMAIN ring = {"eg_hash", "entries"} /\ ring.eg_hash \in HashValue
    /\ pc \in [Caller -> {"idle", "read", "write", "done"}]
    /\ call \in [Caller -> Call \cup {None}]
    /\ answer \in [Caller -> Address \cup {None, Waiting}]
    /\ \A c \in Caller :
          /\ (pc[c] = "idle") <=> (call[c] = None)
          /\ (pc[c] = "done") <=> (answer[c] # Waiting)

\* Callers that race with others get what they would get alone
\* (RingHashLb::pick_endpoint implements StatelessPick).
Implements == Stateless!Spec

Answered == {c \in Caller : pc[c] = "done"}

\* What is left of some endpoints without the ones at an address.
IsWithout(now, before, gone) ==
    \E kept \in [DOMAIN now -> DOMAIN before] :
       /\ \A i, j \in DOMAIN now : i < j => kept[i] < kept[j]
       /\ Range(kept) = {i \in DOMAIN before : before[i] # gone}
       /\ \A i \in DOMAIN now : now[i] = before[kept[i]]

\* The addresses without which one group's endpoints are the other's.
Gone ==
    [g \in Group |-> [h \in Group |->
        {a \in Address : IsWithout(Endpoints[h], Endpoints[g], a)}]]

\* While the endpoints have as many points as before, taking an address away
\* moves only the requests it served (Ring::rebuild, Ring::pick).
OnlyItsOwnMove ==
    \A c, d \in Answered :
       LET g == call[c].group
           h == call[d].group
       IN  /\ call[c].hash = call[d].hash
           /\ Repeats(Len(Endpoints[g])) = Repeats(Len(Endpoints[h]))
           => \A gone \in Gone[g][h] : answer[c] # gone => answer[d] = answer[c]

\* Two requests as a policy sees them: the values of a header in any order,
\* those of a parameter in theirs.
SameValues(u, v) ==
    \E f \in Bijection(DOMAIN u, DOMAIN v) : \A i \in DOMAIN u : u[i] = v[f[i]]
ReadsAlike(policy, q, r) ==
    IF policy.hasher = "Header"
    THEN SameValues(ValuesOf(policy.name, q.headers), ValuesOf(policy.name, r.headers))
    ELSE /\ (q.query = NoHash) <=> (r.query = NoHash)
         /\ q.query # NoHash =>
               ValuesOf(policy.name, q.query) = ValuesOf(policy.name, r.query)

Alike ==
    [q \in Request |-> [r \in Request |->
        \A i \in Counted(Policies, q) : ReadsAlike(Policies[i], q, r)]]

\* Requests that agree on what the policies look at, up to a terminal one
\* that finds something, go to the same endpoint of a group, however their
\* headers are ordered, whatever else they carry, and whatever the ring was
\* built for in between (hash_request, RingHashLb::pick_endpoint).
Affinity ==
    \A c, d \in Answered :
       LET q == call[c].request
           r == call[d].request
       IN  /\ call[c].group = call[d].group
           /\ HashOf[q] # NoHash /\ Alike[q][r]
           => answer[c] = answer[d]
=============================================================================
