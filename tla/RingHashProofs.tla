--------------------------- MODULE RingHashProofs ---------------------------
(***************************************************************************)
(* For any groups, callers and hashes: the ring is the one of the group    *)
(* whose hash it bears, and callers that share it get what each would get  *)
(* from a ring of its own.  Taking an address away moves no request of the *)
(* others, while they keep their points; requests that the policies see    *)
(* alike go to the same endpoint.                                          *)
(***************************************************************************)
EXTENDS RingHash, FiniteSetTheorems, TLAPS

\* A caller that finds the hash of its group on the ring finds a ring that
\* picks for its group as a new one would.  (The hash 0 of the ring that was
\* never built can only be that of a group without endpoints.)
RingIsBuilt ==
    \A g \in Group :
       ring.eg_hash = GroupHash(g) =>
          ring.entries = RingOf[g] \/ (ring.entries = <<>> /\ Endpoints[g] = <<>>)

AnswersAreOwn ==
    \A c \in Caller : pc[c] = "done" => answer[c] = OwnPick(call[c])

IInv == TypeOK /\ RingIsBuilt /\ AnswersAreOwn

----------------------------------------------------------------------------

\* A group with nobody in it has no n-th endpoint (EndpointGroup::nth).
LEMMA NthOfNobody ==
    ASSUME NEW g \in Group, Endpoints[g] = <<>>, NEW n
    PROVE  Nth(g, n) = None
BY DEF Nth

\* Whatever index a pick comes up with, nth gives an address of the group or
\* None, and never takes the caller for one that still waits.
LEMMA NthIsAnAnswer ==
    ASSUME NEW g \in Group, NEW n
    PROVE  Nth(g, n) \in Address \cup {None} /\ Nth(g, n) # Waiting
<1>1. Endpoints[g] \in Seq(Address)
  BY HashConstants
<1>2. CASE n \in 0..(Len(Endpoints[g]) - 1)
  <2>1. Endpoints[g][n + 1] \in Address
    BY <1>1, <1>2
  <2> QED  BY <1>2, <2>1, CallConstants DEF Nth
<1>3. CASE n \notin 0..(Len(Endpoints[g]) - 1)
  BY <1>3, CallConstants DEF Nth
<1> QED  BY <1>2, <1>3

\* On a ring that bears the hash of the caller's group, a pick is its own.
LEMMA PickedIsOwn ==
    ASSUME RingIsBuilt, NEW c \in Caller, call[c] \in Call,
           ring.eg_hash = GroupHash(call[c].group)
    PROVE  Picked(c, ring.entries) = OwnPick(call[c])
<1>1. call[c].group \in Group
  BY DEF Call
<1>2. CASE ring.entries = RingOf[call[c].group]
  BY <1>2 DEF Picked, OwnPick
<1>3. CASE Endpoints[call[c].group] = <<>>
  BY <1>1, <1>3, NthOfNobody DEF Picked, OwnPick
<1> QED  BY <1>1, <1>2, <1>3 DEF RingIsBuilt

LEMMA PickedIsAnAnswer ==
    ASSUME NEW c \in Caller, call[c] \in Call, NEW entries
    PROVE  Picked(c, entries) \in Address \cup {None} /\ Picked(c, entries) # Waiting
BY NthIsAnAnswer DEF Picked, Call

LEMMA InitIInv == Init => IInv
<1> SUFFICES ASSUME Init PROVE IInv
  OBVIOUS
<1>1. TypeOK
  BY HashConstants, CallConstants DEF Init, TypeOK
<1>2. RingIsBuilt
  BY HashesTellGroups DEF Init, RingIsBuilt
<1>3. AnswersAreOwn
  BY DEF Init, AnswersAreOwn
<1> QED  BY <1>1, <1>2, <1>3 DEF IInv

LEMMA StepIInv == IInv /\ [Next]_vars => IInv'
<1> SUFFICES ASSUME IInv, [Next]_vars PROVE IInv'
  OBVIOUS
<1> USE DEF IInv
<1>1. ASSUME NEW c \in Caller, PickEndpoint(c) PROVE IInv'
  <2>1. PICK a \in Asks : call' = [call EXCEPT ![c] = a]
    BY <1>1 DEF PickEndpoint
  <2>2. a \in Call /\ a # None
    BY <2>1, CallConstants DEF Asks
  <2>3. TypeOK'
    BY <1>1, <2>1, <2>2 DEF PickEndpoint, TypeOK
  <2>4. RingIsBuilt'
    BY <1>1 DEF PickEndpoint, RingIsBuilt
  <2>5. AnswersAreOwn'
    BY <1>1, <2>1 DEF PickEndpoint, AnswersAreOwn, TypeOK
  <2> QED  BY <2>3, <2>4, <2>5
<1>2. ASSUME NEW c \in Caller, UseRing(c) PROVE IInv'
  <2>1. call[c] \in Call
    BY <1>2 DEF UseRing, TypeOK
  <2>2. TypeOK'
    BY <1>2, <2>1, PickedIsAnAnswer DEF UseRing, TypeOK
  <2>3. RingIsBuilt'
    BY <1>2 DEF UseRing, RingIsBuilt
  <2>4. AnswersAreOwn'
    BY <1>2, <2>1, PickedIsOwn DEF UseRing, AnswersAreOwn, TypeOK
  <2> QED  BY <2>2, <2>3, <2>4
<1>3. ASSUME NEW c \in Caller, Miss(c) PROVE IInv'
  <2>1. TypeOK'
    BY <1>3 DEF Miss, TypeOK
  <2>2. RingIsBuilt' /\ AnswersAreOwn'
    BY <1>3 DEF Miss, RingIsBuilt, AnswersAreOwn, TypeOK
  <2> QED  BY <2>1, <2>2
<1>4. ASSUME NEW c \in Caller, Rebuild(c) PROVE IInv'
  <2>1. call[c] \in Call /\ call[c].group \in Group
    BY <1>4 DEF Rebuild, TypeOK, Call
  <2>2. ring'.eg_hash = GroupHash(call[c].group) /\ ring'.entries = RingOf[call[c].group]
    BY <1>4 DEF Rebuild
  <2>3. TypeOK'
    BY <1>4, <2>1, <2>2, PickedIsAnAnswer, HashConstants DEF Rebuild, TypeOK
  <2>4. RingIsBuilt'
    BY <2>1, <2>2, HashesTellGroups DEF RingIsBuilt
  <2>5. AnswersAreOwn'
    BY <1>4, <2>2 DEF Rebuild, AnswersAreOwn, Picked, OwnPick, TypeOK
  <2> QED  BY <2>3, <2>4, <2>5
<1>5. ASSUME NEW c \in Caller, Return(c) PROVE IInv'
  <2>1. TypeOK'
    BY <1>5, CallConstants DEF Return, TypeOK
  <2>2. RingIsBuilt'
    BY <1>5 DEF Return, RingIsBuilt
  <2>3. AnswersAreOwn'
    BY <1>5 DEF Return, AnswersAreOwn, TypeOK
  <2> QED  BY <2>1, <2>2, <2>3
<1>6. CASE UNCHANGED vars
  BY <1>6 DEF vars, TypeOK, RingIsBuilt, AnswersAreOwn, OwnPick
<1> QED  BY <1>1, <1>2, <1>3, <1>4, <1>5, <1>6 DEF Next

\* Each caller is at one step of its call, and has an address or None when it
\* is through (RingHashLb::pick_endpoint).
THEOREM TypeCorrect == Spec => []TypeOK
<1>1. IInv => TypeOK
  BY DEF IInv
<1> QED  BY <1>1, InitIInv, StepIInv, PTL DEF Spec

\* Between a look under the read lock and the rebuild under the write lock
\* others may rebuild the ring for other groups; no caller ever uses one of
\* another group (RingHashLb::with_ring).
THEOREM BuiltForItsHash == Spec => []RingIsBuilt
<1>1. IInv => RingIsBuilt
  BY DEF IInv
<1> QED  BY <1>1, InitIInv, StepIInv, PTL DEF Spec

----------------------------------------------------------------------------

LEMMA InitMaps == Init => Stateless!Init
BY DEF Init, Stateless!Init

LEMMA StepMaps == IInv /\ [Next]_vars => [Stateless!Next]_<<call, answer>>
<1> SUFFICES ASSUME IInv, [Next]_vars PROVE [Stateless!Next]_<<call, answer>>
  OBVIOUS
<1>1. ASSUME NEW c \in Caller, PickEndpoint(c) PROVE Stateless!Next
  <2>1. Stateless!Ask(c)
    BY <1>1 DEF PickEndpoint, Stateless!Ask, IInv, TypeOK
  <2> QED  BY <2>1 DEF Stateless!Next
<1>2. ASSUME NEW c \in Caller, UseRing(c) PROVE Stateless!Next
  <2>1. call[c] \in Call /\ call[c] # None /\ answer[c] = Waiting
    BY <1>2 DEF UseRing, IInv, TypeOK
  <2>2. Picked(c, ring.entries) = OwnPick(call[c])
    BY <1>2, <2>1, PickedIsOwn DEF UseRing, IInv
  <2>3. Stateless!Reply(c)
    BY <1>2, <2>1, <2>2 DEF UseRing, Stateless!Reply
  <2> QED  BY <2>3 DEF Stateless!Next
<1>3. ASSUME NEW c \in Caller, Miss(c) PROVE UNCHANGED <<call, answer>>
  BY <1>3 DEF Miss
<1>4. ASSUME NEW c \in Caller, Rebuild(c) PROVE Stateless!Next
  <2>1. call[c] # None /\ answer[c] = Waiting
    BY <1>4 DEF Rebuild, IInv, TypeOK
  <2>2. Picked(c, ring'.entries) = OwnPick(call[c])
    BY <1>4 DEF Rebuild, Picked, OwnPick
  <2>3. Stateless!Reply(c)
    BY <1>4, <2>1, <2>2 DEF Rebuild, Stateless!Reply
  <2> QED  BY <2>3 DEF Stateless!Next
<1>5. ASSUME NEW c \in Caller, Return(c) PROVE Stateless!Next
  <2>1. Stateless!Return(c)
    BY <1>5 DEF Return, Stateless!Return, IInv, TypeOK
  <2> QED  BY <2>1 DEF Stateless!Next
<1>6. CASE UNCHANGED vars
  BY <1>6 DEF vars
<1> QED  BY <1>1, <1>2, <1>3, <1>4, <1>5, <1>6 DEF Next

\* Callers that share one ring, and rebuild it under each other's feet as
\* endpoints change, get what they would get from a ring built for their own
\* group: RingHashLb refines a balancer without memory.
THEOREM Refinement == Spec => Implements
<1> QED
  BY InitIInv, StepIInv, InitMaps, StepMaps, PTL DEF Spec, Implements, Stateless!Spec
----------------------------------------------------------------------------

\* A request that hashes to something is asked about with its own hash.
AsksItsHash ==
    \A c \in Caller : pc[c] # "idle" => HashOf[call[c].request] \in {NoHash, call[c].hash}

\* What the ring adds to Affinity: requests with one hash go to one endpoint of
\* a group, whoever asks and whatever the ring was built for in between.
SameHashSameEndpoint ==
    \A c, d \in Answered :
       /\ call[c].group = call[d].group
       /\ HashOf[call[c].request] # NoHash
       /\ HashOf[call[c].request] = HashOf[call[d].request]
       => answer[c] = answer[d]

LEMMA StepAsks == IInv /\ AsksItsHash /\ [Next]_vars => AsksItsHash'
<1> SUFFICES ASSUME IInv, AsksItsHash, [Next]_vars, NEW c \in Caller, pc'[c] # "idle"
             PROVE  HashOf[call'[c].request] \in {NoHash, call'[c].hash}
  BY DEF AsksItsHash
<1> USE DEF IInv, TypeOK
<1>1. ASSUME NEW d \in Caller, PickEndpoint(d)
      PROVE  HashOf[call'[c].request] \in {NoHash, call'[c].hash}
  <2>1. PICK a \in Asks : call' = [call EXCEPT ![d] = a]
    BY <1>1 DEF PickEndpoint
  <2>2. HashOf[a.request] \in {NoHash, a.hash}
    BY DEF Asks
  <2>3. CASE c = d
    BY <2>1, <2>2, <2>3
  <2>4. CASE c # d
    BY <1>1, <2>1, <2>4 DEF PickEndpoint, AsksItsHash
  <2> QED  BY <2>3, <2>4
<1>2. ASSUME NEW d \in Caller, UseRing(d) \/ Miss(d) \/ Rebuild(d)
      PROVE  HashOf[call'[c].request] \in {NoHash, call'[c].hash}
  BY <1>2 DEF UseRing, Miss, Rebuild, AsksItsHash
<1>3. ASSUME NEW d \in Caller, Return(d)
      PROVE  HashOf[call'[c].request] \in {NoHash, call'[c].hash}
  BY <1>3 DEF Return, AsksItsHash
<1>4. CASE UNCHANGED vars
  BY <1>4 DEF vars, AsksItsHash
<1> QED  BY <1>1, <1>2, <1>3, <1>4 DEF Next

\* Requests that hash alike reach the same endpoint of a group, through races
\* for the ring and rebuilds of it (RingHashLb::pick_endpoint).
THEOREM LikeRequestsMeet == Spec => []SameHashSameEndpoint
<1>1. Init => AsksItsHash
  BY DEF Init, AsksItsHash
<1>2. IInv /\ AsksItsHash => SameHashSameEndpoint
  <2> SUFFICES ASSUME IInv, AsksItsHash, NEW c \in Answered, NEW d \in Answered,
                      call[c].group = call[d].group,
                      HashOf[call[c].request] # NoHash,
                      HashOf[call[c].request] = HashOf[call[d].request]
               PROVE  answer[c] = answer[d]
    BY DEF SameHashSameEndpoint
  <2>1. call[c].hash = call[d].hash
    BY DEF AsksItsHash, Answered
  <2>2. answer[c] = OwnPick(call[c]) /\ answer[d] = OwnPick(call[d])
    BY DEF IInv, AnswersAreOwn, Answered
  <2> QED  BY <2>1, <2>2 DEF OwnPick
<1> QED  BY <1>1, <1>2, InitIInv, StepIInv, StepAsks, PTL DEF Spec

----------------------------------------------------------------------------
(* The points of a ring, in order. *)

LEMMA RepeatsType ==
    ASSUME NEW n \in Nat
    PROVE  Repeats(n) \in Int
BY HashConstants DEF Repeats

LEMMA GroupSizes ==
    ASSUME NEW g \in Group
    PROVE  /\ Len(Endpoints[g]) \in Nat
           /\ Repeats(Len(Endpoints[g])) \in Int
           /\ DOMAIN Endpoints[g] = 1..Len(Endpoints[g])
<1>1. Endpoints[g] \in Seq(Address)
  BY HashConstants
<1> QED  BY <1>1, RepeatsType

LEMMA PointsFinite ==
    ASSUME NEW g \in Group
    PROVE  IsFiniteSet(Points(g)) /\ Cardinality(Points(g)) \in Nat
<1> DEFINE A == 0..(Len(Endpoints[g]) - 1)
           B == 0..(Repeats(Len(Endpoints[g])) - 1)
           f == [x \in A \X B |-> [idx |-> x[1], i |-> x[2]]]
<1>1. IsFiniteSet(A) /\ IsFiniteSet(B)
  <2>1. 0 \in Int /\ Len(Endpoints[g]) - 1 \in Int /\ Repeats(Len(Endpoints[g])) - 1 \in Int
    BY GroupSizes
  <2> QED  BY <2>1, FS_Interval
<1>2. Points(g) = [idx : A, i : B]
  BY DEF Points
<1> HIDE DEF A, B
<1>3. IsFiniteSet(A \X B)
  BY <1>1, FS_Product
<1>4. f \in Surjection(A \X B, Points(g))
  <2>1. f \in [A \X B -> Points(g)]
    BY <1>2
  <2>2. ASSUME NEW p \in Points(g) PROVE \E x \in A \X B : f[x] = p
    <3>1. <<p.idx, p.i>> \in A \X B /\ p = [idx |-> p.idx, i |-> p.i]
      BY <1>2
    <3> QED  BY <3>1
  <2> QED  BY <2>1, <2>2 DEF Surjection
<1>5. IsFiniteSet(Points(g))
  BY <1>3, <1>4, FS_Surjection
<1> QED  BY <1>5, FS_CardinalityType

LEMMA PointTypes ==
    ASSUME NEW g \in Group, NEW p \in Points(g)
    PROVE  /\ p.idx \in 0..(Len(Endpoints[g]) - 1)
           /\ p.i \in 0..(Repeats(Len(Endpoints[g])) - 1)
           /\ p.idx \in Nat /\ p.i \in Nat
           /\ p = [idx |-> p.idx, i |-> p.i]
           /\ PointOf(g, p) \in Nat
<1>1. p.idx \in 0..(Len(Endpoints[g]) - 1) /\ p.i \in 0..(Repeats(Len(Endpoints[g])) - 1)
      /\ p = [idx |-> p.idx, i |-> p.i]
  BY DEF Points
<1>2. PointOf(g, p) \in Nat
  BY PointConstants, HashConstants
<1> QED  BY <1>1, <1>2, GroupSizes

LEMMA NotAfterIsAnOrder ==
    ASSUME NEW g \in Group, NEW p \in Points(g), NEW q \in Points(g)
    PROVE  /\ NotAfter(g, p, q) \/ NotAfter(g, q, p)
           /\ NotAfter(g, p, q) /\ NotAfter(g, q, p) => p = q
           /\ \A r \in Points(g) : NotAfter(g, p, q) /\ NotAfter(g, q, r) => NotAfter(g, p, r)
<1>1. NotAfter(g, p, q) \/ NotAfter(g, q, p)
  BY PointTypes DEF NotAfter, Pushed
<1>2. ASSUME NotAfter(g, p, q), NotAfter(g, q, p) PROVE p = q
  <2>1. p.idx = q.idx /\ p.i = q.i
    BY <1>2, PointTypes DEF NotAfter, Pushed
  <2> QED  BY <2>1, PointTypes
<1>3. ASSUME NEW r \in Points(g), NotAfter(g, p, q), NotAfter(g, q, r)
      PROVE  NotAfter(g, p, r)
  BY <1>3, PointTypes DEF NotAfter, Pushed
<1> QED  BY <1>1, <1>2, <1>3

LEMMA PlaceType ==
    ASSUME NEW g \in Group, NEW p \in Points(g)
    PROVE  Place(g, p) \in 1..Cardinality(Points(g))
<1> DEFINE upto == {q \in Points(g) : NotAfter(g, q, p)}
<1>1. upto \in SUBSET Points(g) /\ p \in upto
  BY NotAfterIsAnOrder
<1>2. IsFiniteSet(upto) /\ Cardinality(upto) <= Cardinality(Points(g))
  BY <1>1, PointsFinite, FS_Subset
<1>3. Cardinality(upto) \in Nat /\ Cardinality(upto) # 0
  <2> HIDE DEF upto
  <2> QED  BY <1>1, <1>2, FS_CardinalityType, FS_EmptySet
<1> QED  BY <1>2, <1>3, PointsFinite DEF Place

LEMMA PlaceIsMonotone ==
    ASSUME NEW g \in Group, NEW p \in Points(g), NEW q \in Points(g),
           NotAfter(g, p, q), p # q
    PROVE  Place(g, p) < Place(g, q)
<1> DEFINE uptop == {r \in Points(g) : NotAfter(g, r, p)}
           uptoq == {r \in Points(g) : NotAfter(g, r, q)}
<1>1. uptop \in SUBSET uptoq /\ q \in uptoq /\ q \notin uptop
  BY NotAfterIsAnOrder
<1>2. uptoq \in SUBSET Points(g)
  OBVIOUS
<1> HIDE DEF uptop, uptoq
<1>3. IsFiniteSet(uptoq)
  BY <1>2, PointsFinite, FS_Subset
<1>4. IsFiniteSet(uptop) /\ Cardinality(uptop) <= Cardinality(uptoq)
      /\ Cardinality(uptop) # Cardinality(uptoq)
  BY <1>1, <1>3, FS_Subset
<1>5. Cardinality(uptop) \in Nat /\ Cardinality(uptoq) \in Nat
  BY <1>3, <1>4, FS_CardinalityType
<1>6. Place(g, p) = Cardinality(uptop) /\ Place(g, q) = Cardinality(uptoq)
  BY DEF Place, uptop, uptoq
<1> QED  BY <1>4, <1>5, <1>6

LEMMA PlacesAreOne ==
    ASSUME NEW g \in Group
    PROVE  [p \in Points(g) |-> Place(g, p)] \in Bijection(Points(g), 1..Cardinality(Points(g)))
<1> DEFINE f == [p \in Points(g) |-> Place(g, p)]
           n == Cardinality(Points(g))
<1>1. f \in [Points(g) -> 1..n]
  BY PlaceType
<1>2. ASSUME NEW p \in Points(g), NEW q \in Points(g), f[p] = f[q] PROVE p = q
  <2>1. SUFFICES ASSUME p # q PROVE FALSE
    OBVIOUS
  <2>2. Place(g, p) = Place(g, q) /\ Place(g, p) \in 1..n
    BY <1>2, PlaceType
  <2>3. NotAfter(g, p, q) \/ NotAfter(g, q, p)
    BY NotAfterIsAnOrder
  <2>4. Place(g, p) < Place(g, q) \/ Place(g, q) < Place(g, p)
    BY <2>1, <2>3, PlaceIsMonotone
  <2> QED  BY <2>2, <2>4
<1>3. f \in Injection(Points(g), 1..n)
  BY <1>1, <1>2, Zenon DEF Injection, IsInjective
<1>4. IsFiniteSet(1..n) /\ Cardinality(1..n) = n
  <2>1. n \in Nat
    BY PointsFinite
  <2> QED  BY <2>1, FS_Interval
<1>5. f \in Surjection(Points(g), 1..n)
  BY <1>3, <1>4, FS_Injection
<1> QED  BY <1>3, <1>5 DEF Bijection

LEMMA RingHolds ==
    ASSUME NEW g \in Group
    PROVE  /\ DOMAIN RingOf[g] = 1..Cardinality(Points(g))
           /\ \A p \in Points(g) :
                 /\ RingOf[g][Place(g, p)].hash = PointOf(g, p)
                 /\ RingOf[g][Place(g, p)].idx = p.idx
<1>1. ASSUME NEW p \in Points(g)
      PROVE  (CHOOSE q \in Points(g) : Place(g, q) = Place(g, p)) = p
  <2>1. \A q \in Points(g) : Place(g, q) = Place(g, p) => q = p
    BY PlacesAreOne DEF Bijection, Injection, IsInjective
  <2> QED  BY <2>1
<1>2. RingOf[g] =
        [k \in 1..Cardinality(Points(g)) |->
           LET p == CHOOSE q \in Points(g) : Place(g, q) = k
           IN  [hash |-> PointOf(g, p), idx |-> p.idx]]
  BY DEF RingOf
<1>3. ASSUME NEW p \in Points(g)
      PROVE  RingOf[g][Place(g, p)] = [hash |-> PointOf(g, p), idx |-> p.idx]
  <2>1. Place(g, p) \in 1..Cardinality(Points(g))
    BY PlaceType
  <2> QED  BY <1>1, <1>2, <2>1, Zenon
<1> QED
  <2>1. DOMAIN RingOf[g] = 1..Cardinality(Points(g))
    BY <1>2
  <2>2. ASSUME NEW p \in Points(g)
        PROVE  RingOf[g][Place(g, p)].hash = PointOf(g, p) /\ RingOf[g][Place(g, p)].idx = p.idx
    <3> DEFINE e == RingOf[g][Place(g, p)]
    <3>1. e = [hash |-> PointOf(g, p), idx |-> p.idx]
      BY <1>3
    <3> HIDE DEF e
    <3>2. e.hash = PointOf(g, p) /\ e.idx = p.idx
      BY <3>1
    <3> QED  BY <3>2 DEF e
  <2> QED  BY <2>1, <2>2

LEMMA EveryPlaceIsTaken ==
    ASSUME NEW g \in Group, NEW k \in 1..Cardinality(Points(g))
    PROVE  \E p \in Points(g) : Place(g, p) = k
BY PlacesAreOne DEF Bijection, Surjection

\* As many entries come before a hash as points do.
LEMMA EntriesBefore ==
    ASSUME NEW g \in Group, NEW h
    PROVE  Cardinality({k \in DOMAIN RingOf[g] : RingOf[g][k].hash < h})
              = Cardinality({p \in Points(g) : PointOf(g, p) < h})
<1> DEFINE S == {p \in Points(g) : PointOf(g, p) < h}
           T == {k \in DOMAIN RingOf[g] : RingOf[g][k].hash < h}
           f == [p \in S |-> Place(g, p)]
<1>1. \A p \in S : f[p] \in T
  <2> TAKE p \in S
  <2>1. Place(g, p) \in DOMAIN RingOf[g]
    BY RingHolds, PlaceType
  <2>2. RingOf[g][Place(g, p)].hash = PointOf(g, p)
    BY RingHolds
  <2> QED  BY <2>1, <2>2
<1>2. \A p, q \in S : f[p] = f[q] => p = q
  BY PlacesAreOne DEF Bijection, Injection, IsInjective
<1>3. \A k \in T : \E p \in S : f[p] = k
  <2> TAKE k \in T
  <2>1. k \in 1..Cardinality(Points(g))
    BY RingHolds
  <2>2. PICK p \in Points(g) : Place(g, p) = k
    BY <2>1, EveryPlaceIsTaken
  <2>3. RingOf[g][k].hash = PointOf(g, p)
    BY <2>2, RingHolds
  <2> QED  BY <2>2, <2>3
<1>4. f \in [S -> T]
  BY <1>1
<1> HIDE DEF f
<1>5. f \in Bijection(S, T)
  <2>1. f \in Injection(S, T)
    BY <1>2, <1>4, Zenon DEF Injection, IsInjective
  <2>2. f \in Surjection(S, T)
    BY <1>3, <1>4, Zenon DEF Surjection
  <2> QED  BY <2>1, <2>2 DEF Bijection
<1>6. IsFiniteSet(S)
  BY PointsFinite, FS_Subset
<1> QED  BY <1>5, <1>6, FS_Bijection DEF ExistsBijection

\* The point that serves a hash: the first one that is not before it, or the
\* first of all where there is none.
Serves(g, h, p) ==
    /\ p \in Points(g)
    /\ \A q \in Points(g) :
          PointOf(g, p) < h \/ ~(PointOf(g, q) < h) => NotAfter(g, p, q)
    /\ PointOf(g, p) < h => \A q \in Points(g) : PointOf(g, q) < h

LEMMA OneServes ==
    ASSUME NEW g \in Group, NEW h, NEW p, NEW q, Serves(g, h, p), Serves(g, h, q)
    PROVE  p = q
<1>1. NotAfter(g, p, q) /\ NotAfter(g, q, p)
  BY DEF Serves
<1> QED  BY <1>1, NotAfterIsAnOrder DEF Serves

\* Ring::pick finds it.
LEMMA PickFindsIt ==
    ASSUME NEW g \in Group, NEW h \in Nat, Points(g) # {}
    PROVE  \E p \in Points(g) : Serves(g, h, p) /\ PickIn(RingOf[g], h) = p.idx
<1> DEFINE n == Cardinality(Points(g))
           before == {p \in Points(g) : PointOf(g, p) < h}
           m == Cardinality(before)
<1>1. n \in Nat /\ n # 0
  BY PointsFinite, FS_EmptySet
<1>2. before \in SUBSET Points(g)
  OBVIOUS
<1>3. IsFiniteSet(before) /\ m \in Nat /\ m <= n /\ (m = n => before = Points(g))
  <2> HIDE DEF before
  <2> QED  BY <1>2, PointsFinite, FS_Subset, FS_CardinalityType
<1>4. DOMAIN RingOf[g] = 1..n /\ RingOf[g] # <<>> /\ Len(RingOf[g]) = n
  <2>1. DOMAIN RingOf[g] = 1..n
    BY RingHolds
  <2>2. RingOf[g] # <<>>
    BY <1>1, <2>1
  <2>3. Len(RingOf[g]) = n
    <3>1. \E f : RingOf[g] = [k \in 1..n |-> f[k]]
      <4>1. RingOf[g] = [k \in 1..n |-> RingOf[g][k]]
        BY <2>1 DEF RingOf
      <4> QED  BY <4>1
    <3> QED  BY <1>1, <3>1
  <2> QED  BY <2>1, <2>2, <2>3
<1>5. PickIn(RingOf[g], h) = RingOf[g][(m % n) + 1].idx
  BY <1>4, EntriesBefore DEF PickIn
<1>6. (m % n) + 1 \in 1..n
  BY <1>1, <1>3
<1>7. PICK p \in Points(g) : Place(g, p) = (m % n) + 1
  BY <1>6, EveryPlaceIsTaken
<1>8. PickIn(RingOf[g], h) = p.idx
  BY <1>5, <1>7, RingHolds
<1> DEFINE upto(q) == {r \in Points(g) : NotAfter(g, r, q)}
<1>9. \A q \in Points(g) : /\ upto(q) \in SUBSET Points(g)
                           /\ IsFiniteSet(upto(q))
                           /\ Place(g, q) = Cardinality(upto(q))
                           /\ Place(g, q) \in Nat
  <2> TAKE q \in Points(g)
  <2>1. upto(q) \in SUBSET Points(g)
    OBVIOUS
  <2>2. Place(g, q) = Cardinality(upto(q))
    BY DEF Place
  <2>3. IsFiniteSet(upto(q))
    BY <2>1, PointsFinite, FS_Subset
  <2> QED  BY <2>1, <2>2, <2>3, FS_CardinalityType
<1>10. CASE m = n
  <2>1. m % n = 0
    BY <1>1, <1>10
  <2>2. Place(g, p) = 1
    BY <1>7, <2>1
  <2>3. \A q \in Points(g) : NotAfter(g, p, q)
    <3> TAKE q \in Points(g)
    <3>1. SUFFICES ASSUME ~NotAfter(g, p, q) PROVE FALSE
      OBVIOUS
    <3>2. NotAfter(g, q, p) /\ q # p
      BY <3>1, NotAfterIsAnOrder
    <3>3. Place(g, q) < 1 /\ Place(g, q) \in 1..n
      BY <2>2, <3>2, PlaceIsMonotone, PlaceType
    <3> QED  BY <3>3
  <2>4. Serves(g, h, p)
    BY <1>3, <1>10, <2>3 DEF Serves
  <2> QED  BY <1>8, <2>4
<1>11. CASE m # n
  <2>1. m % n = m
    BY <1>1, <1>3, <1>11
  <2>2. Place(g, p) = m + 1
    BY <1>7, <2>1
  <2>3. ~(PointOf(g, p) < h)
    <3>1. SUFFICES ASSUME PointOf(g, p) < h PROVE FALSE
      OBVIOUS
    <3>2. upto(p) \in SUBSET before
      BY <3>1, PointTypes DEF NotAfter
    <3>3. Cardinality(upto(p)) <= m
      <4> HIDE DEF before, upto
      <4> QED  BY <1>3, <3>2, FS_Subset
    <3> QED  BY <1>3, <1>9, <2>2, <3>3
  <2>4. ASSUME NEW q \in Points(g), ~(PointOf(g, q) < h) PROVE NotAfter(g, p, q)
    <3>1. SUFFICES ASSUME ~NotAfter(g, p, q) PROVE FALSE
      OBVIOUS
    <3>2. NotAfter(g, q, p) /\ q # p
      BY <3>1, NotAfterIsAnOrder
    <3>3. Place(g, q) < m + 1
      BY <2>2, <3>2, PlaceIsMonotone
    <3>4. before \cup {q} \in SUBSET upto(q) /\ q \notin before
      BY <2>4, PointTypes, NotAfterIsAnOrder DEF NotAfter
    <3>5. Cardinality(before \cup {q}) = m + 1
      BY <1>3, <3>4, FS_AddElement
    <3>6. Cardinality(before \cup {q}) <= Cardinality(upto(q))
      <4> HIDE DEF before, upto
      <4> QED  BY <1>9, <3>4, FS_Subset
    <3> QED  BY <1>3, <1>9, <3>3, <3>5, <3>6
  <2>5. Serves(g, h, p)
    BY <2>3, <2>4 DEF Serves
  <2> QED  BY <1>8, <2>5
<1> QED  BY <1>10, <1>11

LEMMA NobodyToPick ==
    ASSUME NEW g \in Group, NEW h, Points(g) = {}
    PROVE  Nth(g, PickIn(RingOf[g], h)) = None
<1>1. Cardinality(Points(g)) = 0
  BY FS_EmptySet
<1>2. DOMAIN RingOf[g] = {}
  <2>1. DOMAIN RingOf[g] = 1..0
    BY <1>1, RingHolds
  <2> QED  BY <2>1
<1>3. RingOf[g] = <<>>
  <2>1. RingOf[g] = [k \in DOMAIN RingOf[g] |-> RingOf[g][k]]
    BY DEF RingOf
  <2> QED  BY <1>2, <2>1
<1> QED  BY <1>3, HashConstants, GroupSizes DEF PickIn, Nth

\* Points of the endpoints that are left, among those of all.
LEMMA OthersStay ==
    ASSUME NEW g \in Group, NEW h \in Group, NEW hash \in Nat, NEW gone,
           IsWithout(Endpoints[h], Endpoints[g], gone),
           Repeats(Len(Endpoints[g])) = Repeats(Len(Endpoints[h])),
           Nth(g, PickIn(RingOf[g], hash)) # gone
    PROVE  Nth(h, PickIn(RingOf[h], hash)) = Nth(g, PickIn(RingOf[g], hash))
<1> DEFINE before == Endpoints[g]
           now == Endpoints[h]
<1>2. PICK kept \in [DOMAIN now -> DOMAIN before] :
         /\ \A i, j \in DOMAIN now : i < j => kept[i] < kept[j]
         /\ Range(kept) = {i \in DOMAIN before : before[i] # gone}
         /\ \A i \in DOMAIN now : now[i] = before[kept[i]]
  BY DEF IsWithout
<1>3. /\ Len(before) \in Nat /\ DOMAIN before = 1..Len(before)
      /\ Len(now) \in Nat /\ DOMAIN now = 1..Len(now)
  BY GroupSizes
<1> HIDE DEF before, now
<1> DEFINE lift(q) == [idx |-> kept[q.idx + 1] - 1, i |-> q.i]
<1>4. ASSUME NEW q \in Points(h)
      PROVE  /\ lift(q) \in Points(g)
             /\ PointOf(g, lift(q)) = PointOf(h, q)
  <2>1. q.idx \in 0..(Len(now) - 1) /\ q.i \in 0..(Repeats(Len(now)) - 1)
    BY PointTypes DEF now
  <2>2. q.idx + 1 \in DOMAIN now
    BY <1>3, <2>1
  <2>3. kept[q.idx + 1] \in 1..Len(before)
    BY <1>2, <1>3, <2>2
  <2>4. kept[q.idx + 1] - 1 \in 0..(Len(before) - 1) /\ (kept[q.idx + 1] - 1) + 1 = kept[q.idx + 1]
    BY <1>3, <2>3
  <2>5. lift(q) \in Points(g)
    BY <2>1, <2>4 DEF Points, before, now
  <2>6. now[q.idx + 1] = before[kept[q.idx + 1]]
    BY <1>2, <2>2
  <2>7. PointOf(g, lift(q)) = PointHash(before[kept[q.idx + 1]], q.i)
    BY <2>4 DEF PointOf, before
  <2>8. PointOf(h, q) = PointHash(now[q.idx + 1], q.i)
    BY DEF PointOf, now
  <2> QED  BY <2>5, <2>6, <2>7, <2>8
<1>5. ASSUME NEW p \in Points(h), NEW q \in Points(h), NotAfter(g, lift(p), lift(q))
      PROVE  NotAfter(h, p, q)
  <2>1. PointOf(g, lift(p)) = PointOf(h, p) /\ PointOf(g, lift(q)) = PointOf(h, q)
    BY <1>4
  <2>2. ASSUME Pushed(lift(p), lift(q)) PROVE Pushed(p, q)
    <3>1. /\ p.idx \in Nat /\ q.idx \in Nat
          /\ p.idx + 1 \in DOMAIN now /\ q.idx + 1 \in DOMAIN now
      <4>1. p.idx \in 0..(Len(now) - 1) /\ q.idx \in 0..(Len(now) - 1)
        BY PointTypes DEF now
      <4> QED  BY <1>3, <4>1
    <3>2. kept[p.idx + 1] \in Nat /\ kept[q.idx + 1] \in Nat
      BY <1>2, <1>3, <3>1, SMTT(30)
    <3>3. q.idx < p.idx => kept[q.idx + 1] < kept[p.idx + 1]
      BY <1>2, <3>1
    <3>4. \/ kept[p.idx + 1] - 1 < kept[q.idx + 1] - 1
          \/ kept[p.idx + 1] - 1 = kept[q.idx + 1] - 1 /\ p.i <= q.i
      BY <2>2 DEF Pushed
    <3>5. p.idx < q.idx => kept[p.idx + 1] < kept[q.idx + 1]
      BY <1>2, <3>1
    <3>6. ~(q.idx < p.idx)
      BY <3>2, <3>3, <3>4
    <3>7. p.idx = q.idx => p.i <= q.i
      BY <3>2, <3>4
    <3> QED  BY <3>1, <3>6, <3>7 DEF Pushed
  <2> QED  BY <1>5, <2>1, <2>2 DEF NotAfter
<1>6. CASE Points(g) = {}
  <2>1. Points(h) = {}
    BY <1>4, <1>6
  <2> QED  BY <1>6, <2>1, NobodyToPick
<1>7. CASE Points(g) # {}
  <2>1. PICK p \in Points(g) : Serves(g, hash, p) /\ PickIn(RingOf[g], hash) = p.idx
    BY <1>7, PickFindsIt
  <2>2. /\ p.idx \in 0..(Len(before) - 1) /\ p.i \in 0..(Repeats(Len(before)) - 1)
        /\ p = [idx |-> p.idx, i |-> p.i]
    BY PointTypes DEF before
  <2>3. Nth(g, p.idx) = before[p.idx + 1]
    BY <2>2 DEF Nth, before
  <2>4. p.idx + 1 \in DOMAIN before /\ before[p.idx + 1] # gone
    BY <1>3, <2>1, <2>2, <2>3
  <2>5. PICK j \in DOMAIN now : kept[j] = p.idx + 1
    BY <1>2, <2>4 DEF Range
  <2> DEFINE p2 == [idx |-> j - 1, i |-> p.i]
  <2>6. j \in Nat /\ p2.idx + 1 = j /\ p2.idx \in 0..(Len(now) - 1)
    BY <1>3
  <2>7. p2 \in Points(h)
    BY <2>2, <2>6 DEF Points, before, now
  <2>8. lift(p2) = p
    BY <2>2, <2>5, <2>6
  <2>9. PointOf(h, p2) = PointOf(g, p)
    BY <1>4, <2>7, <2>8
  <2>10. Serves(h, hash, p2)
    <3>1. ASSUME NEW q \in Points(h), PointOf(h, p2) < hash \/ ~(PointOf(h, q) < hash)
          PROVE  NotAfter(h, p2, q)
      <4>1. lift(q) \in Points(g) /\ PointOf(g, lift(q)) = PointOf(h, q)
        BY <1>4
      <4> HIDE DEF lift, p2
      <4>2. NotAfter(g, p, lift(q))
        BY <2>1, <2>9, <3>1, <4>1 DEF Serves
      <4> QED  BY <1>5, <2>7, <2>8, <4>2
    <3>2. ASSUME NEW q \in Points(h), PointOf(h, p2) < hash PROVE PointOf(h, q) < hash
      <4>1. lift(q) \in Points(g) /\ PointOf(g, lift(q)) = PointOf(h, q)
        BY <1>4
      <4> HIDE DEF lift, p2
      <4> QED  BY <2>1, <2>9, <3>2, <4>1 DEF Serves
    <3> HIDE DEF p2
    <3> QED  BY <2>7, <3>1, <3>2 DEF Serves
  <2>11. PickIn(RingOf[h], hash) = p2.idx
    <3>1. PICK r \in Points(h) : Serves(h, hash, r) /\ PickIn(RingOf[h], hash) = r.idx
      BY <2>7, PickFindsIt
    <3>2. r = p2
      BY <2>10, <3>1, OneServes
    <3> QED  BY <3>1, <3>2
  <2>12. Nth(h, p2.idx) = now[j]
    BY <2>6 DEF Nth, now
  <2>13. now[j] = before[p.idx + 1]
    BY <1>2, <2>5
  <2> QED  BY <2>1, <2>3, <2>11, <2>12, <2>13
<1> QED  BY <1>6, <1>7

\* Taking an address away moves the requests that it served and no others,
\* while the rest have as many points as before: consistent hashing, for any
\* groups and hashes (Ring::rebuild, Ring::pick).
THEOREM OthersKeepTheirs == Spec => []OnlyItsOwnMove
<1>1. IInv => OnlyItsOwnMove
  <2> SUFFICES ASSUME IInv, NEW c \in Answered, NEW d \in Answered,
                      call[c].hash = call[d].hash,
                      Repeats(Len(Endpoints[call[c].group])) = Repeats(Len(Endpoints[call[d].group])),
                      NEW gone \in Gone[call[c].group][call[d].group], answer[c] # gone
               PROVE  answer[d] = answer[c]
    BY DEF OnlyItsOwnMove
  <2>1. c \in Caller /\ d \in Caller /\ call[c] \in Call /\ call[d] \in Call
    BY DEF Answered, IInv, TypeOK
  <2>2. /\ call[c].group \in Group /\ call[d].group \in Group /\ call[c].hash \in Nat
    BY <2>1, HashConstants DEF Call
  <2>3. answer[c] = OwnPick(call[c]) /\ answer[d] = OwnPick(call[d])
    BY <2>1 DEF IInv, AnswersAreOwn, Answered
  <2>4. IsWithout(Endpoints[call[d].group], Endpoints[call[c].group], gone)
    BY <2>2 DEF Gone
  <2> QED  BY <2>2, <2>3, <2>4, OthersStay DEF OwnPick
<1> QED  BY <1>1, InitIInv, StepIInv, PTL DEF Spec

----------------------------------------------------------------------------
(* The hash of a request. *)

\* Counting through a bijection.
LEMMA CountsAlike ==
    ASSUME NEW S, NEW T, NEW f \in Bijection(S, T), IsFiniteSet(S),
           NEW A \in SUBSET S, NEW B \in SUBSET T,
           \A i \in S : i \in A <=> f[i] \in B
    PROVE  Cardinality(A) = Cardinality(B)
<1> DEFINE g == [i \in A |-> f[i]]
<1>1. f \in [S -> T] /\ (\A i, j \in S : f[i] = f[j] => i = j)
      /\ (\A t \in T : \E i \in S : f[i] = t)
  BY DEF Bijection, Injection, Surjection, IsInjective
<1>2. g \in [A -> B]
  BY <1>1
<1>3. \A i, j \in A : g[i] = g[j] => i = j
  BY <1>1
<1>4. \A t \in B : \E i \in A : g[i] = t
  BY <1>1
<1> HIDE DEF g
<1>5. g \in Injection(A, B) /\ g \in Surjection(A, B)
  BY <1>2, <1>3, <1>4, Zenon DEF Injection, Surjection, IsInjective
<1>6. IsFiniteSet(A)
  BY FS_Subset
<1> QED  BY <1>5, <1>6, FS_Bijection DEF Bijection, ExistsBijection

\* What the hash of a header sees does not depend on the order of its values.
LEMMA SortedAlike ==
    ASSUME NEW m \in Nat, NEW n \in Nat, NEW u, NEW v,
           DOMAIN u = 1..m, DOMAIN v = 1..n, SameValues(u, v)
    PROVE  Sorted(u) = Sorted(v) /\ m = n
<1>1. PICK f \in Bijection(1..m, 1..n) : \A i \in 1..m : u[i] = v[f[i]]
  BY DEF SameValues
<1>2. f \in [1..m -> 1..n] /\ \A k \in 1..n : \E i \in 1..m : f[i] = k
  BY DEF Bijection, Surjection
<1>3. IsFiniteSet(1..m) /\ Cardinality(1..m) = m /\ Cardinality(1..n) = n
  BY FS_Interval
<1>4. m = n
  BY <1>3, FS_Bijection DEF ExistsBijection
<1>5. Range(u) = Range(v)
  <2>1. ASSUME NEW i \in 1..m PROVE u[i] \in Range(v)
    <3>1. f[i] \in 1..n /\ u[i] = v[f[i]]
      BY <1>1, <1>2
    <3> QED  BY <3>1 DEF Range
  <2>2. ASSUME NEW j \in 1..n PROVE v[j] \in Range(u)
    <3>1. PICK i \in 1..m : f[i] = j
      BY <1>2
    <3>2. v[j] = u[i]
      BY <1>1, <3>1
    <3> QED  BY <3>2 DEF Range
  <2>3. Range(u) = {u[i] : i \in 1..m} /\ Range(v) = {v[i] : i \in 1..n}
    BY DEF Range
  <2> QED  BY <2>1, <2>2, <2>3
<1>6. ASSUME NEW x
      PROVE  /\ Cardinality({i \in 1..m : u[i] < x}) = Cardinality({i \in 1..n : v[i] < x})
             /\ Cardinality({i \in 1..m : u[i] <= x}) = Cardinality({i \in 1..n : v[i] <= x})
  <2>1. \A i \in 1..m : i \in {j \in 1..m : u[j] < x} <=> f[i] \in {j \in 1..n : v[j] < x}
    BY <1>1, <1>2
  <2>2. \A i \in 1..m : i \in {j \in 1..m : u[j] <= x} <=> f[i] \in {j \in 1..n : v[j] <= x}
    BY <1>1, <1>2
  <2>3. /\ {j \in 1..m : u[j] < x} \in SUBSET (1..m) /\ {j \in 1..n : v[j] < x} \in SUBSET (1..n)
        /\ {j \in 1..m : u[j] <= x} \in SUBSET (1..m) /\ {j \in 1..n : v[j] <= x} \in SUBSET (1..n)
    OBVIOUS
  <2>4. Cardinality({i \in 1..m : u[i] < x}) = Cardinality({i \in 1..n : v[i] < x})
    BY <1>3, <2>1, <2>3, CountsAlike, SMTT(30)
  <2>5. Cardinality({i \in 1..m : u[i] <= x}) = Cardinality({i \in 1..n : v[i] <= x})
    BY <1>3, <2>2, <2>3, CountsAlike, SMTT(30)
  <2> QED  BY <2>4, <2>5
<1>7. ASSUME NEW k \in 1..m
      PROVE  Sorted(u)[k] = Sorted(v)[k]
  <2>1. Sorted(u)[k] = CHOOSE x \in Range(u) :
                          /\ Cardinality({i \in 1..m : u[i] < x}) < k
                          /\ k <= Cardinality({i \in 1..m : u[i] <= x})
    BY Zenon DEF Sorted
  <2>2. Sorted(v)[k] = CHOOSE x \in Range(v) :
                          /\ Cardinality({i \in 1..n : v[i] < x}) < k
                          /\ k <= Cardinality({i \in 1..n : v[i] <= x})
    BY <1>4, Zenon DEF Sorted
  <2>3. \A x : (/\ Cardinality({i \in 1..m : u[i] < x}) < k
                /\ k <= Cardinality({i \in 1..m : u[i] <= x}))
               <=> (/\ Cardinality({i \in 1..n : v[i] < x}) < k
                    /\ k <= Cardinality({i \in 1..n : v[i] <= x}))
    BY <1>6
  <2> QED  BY <1>5, <2>1, <2>2, <2>3, Zenon
<1> QED  BY <1>4, <1>7 DEF Sorted

LEMMA ValuesAreASequence ==
    ASSUME NEW name, NEW pairs, IsFiniteSet(DOMAIN pairs)
    PROVE  \E n \in Nat : DOMAIN ValuesOf(name, pairs) = 1..n
<1> DEFINE named == {i \in DOMAIN pairs : pairs[i].name = name}
<1>1. Cardinality(named) \in Nat
  BY FS_Subset, FS_CardinalityType
<1>2. DOMAIN ValuesOf(name, pairs) = 1..Cardinality(named)
  BY DEF ValuesOf
<1> QED  BY <1>1, <1>2

\* What a policy makes of two requests that it reads alike.
LEMMA HashedAlike ==
    ASSUME NEW policy, NEW q \in Request, NEW r \in Request, ReadsAlike(policy, q, r)
    PROVE  HashComponent(policy, q) = HashComponent(policy, r)
<1>1. CASE policy.hasher = "Header"
  <2> DEFINE u == ValuesOf(policy.name, q.headers)
             v == ValuesOf(policy.name, r.headers)
  <2>1. SameValues(u, v)
    BY <1>1 DEF ReadsAlike
  <2>2. PICK m \in Nat : DOMAIN u = 1..m
    BY RequestConstants, ValuesAreASequence
  <2>3. PICK n \in Nat : DOMAIN v = 1..n
    BY RequestConstants, ValuesAreASequence
  <2>4. u = [i \in DOMAIN u |-> u[i]] /\ v = [i \in DOMAIN v |-> v[i]]
    BY DEF ValuesOf
  <2> HIDE DEF u, v
  <2>5. Sorted(u) = Sorted(v) /\ m = n
    BY <2>1, <2>2, <2>3, SortedAlike
  <2>6. u = <<>> <=> v = <<>>
    BY <2>2, <2>3, <2>4, <2>5
  <2>7. HeaderHash(policy.name, q.headers) = IF u = <<>> THEN NoHash ELSE Digest(Sorted(u))
    BY DEF HeaderHash, u
  <2>8. HeaderHash(policy.name, r.headers) = IF v = <<>> THEN NoHash ELSE Digest(Sorted(v))
    BY DEF HeaderHash, v
  <2>9. HeaderHash(policy.name, q.headers) = HeaderHash(policy.name, r.headers)
    BY <2>5, <2>6, <2>7, <2>8
  <2> QED  BY <1>1, <2>9 DEF HashComponent
<1>2. CASE policy.hasher # "Header"
  <2>1. QueryHash(policy.name, q.query) = QueryHash(policy.name, r.query)
    BY <1>2 DEF ReadsAlike, QueryHash
  <2> QED  BY <1>2, <2>1 DEF HashComponent
<1> QED  BY <1>1, <1>2

\* Of numbers one is the least: intervals below them are ordered by inclusion.
LEMMA LeastNumber ==
    ASSUME NEW S, S \subseteq Nat, S # {}
    PROVE  \E m \in S : \A n \in S : m <= n
<1> DEFINE below == {0..(i - 1) : i \in S}
<1>1. below \subseteq FiniteSubsetsOf(Nat) /\ below # {}
  <2>1. \A i \in S : 0..(i - 1) \in SUBSET Nat /\ IsFiniteSet(0..(i - 1))
    <3> TAKE i \in S
    <3>1. i - 1 \in Int /\ 0 \in Int
      OBVIOUS
    <3>2. IsFiniteSet(0..(i - 1))
      BY <3>1, FS_Interval
    <3> QED  BY <3>2
  <2> QED  BY <2>1 DEF FiniteSubsetsOf
<1>2. \E b \in below : \A c \in below : <<c, b>> \notin StrictSubsetOrdering(Nat)
  <2> HIDE DEF below
  <2> QED  BY <1>1, FS_StrictSubsetOrderingWellFounded, WFMin
<1>3. PICK m \in S : \A n \in S : <<0..(n - 1), 0..(m - 1)>> \notin StrictSubsetOrdering(Nat)
  BY <1>2
<1>4. ASSUME NEW n \in S, n < m
      PROVE  FALSE
  <2>1. /\ 0..(n - 1) \subseteq 0..(m - 1) /\ n \in 0..(m - 1) /\ n \notin 0..(n - 1)
        /\ 0..(n - 1) \in SUBSET Nat /\ 0..(m - 1) \in SUBSET Nat
    BY <1>4
  <2>2. <<0..(n - 1), 0..(m - 1)>> \in StrictSubsetOrdering(Nat)
    BY <2>1 DEF StrictSubsetOrdering
  <2> QED  BY <1>3, <2>2
<1> QED  BY <1>4

LEMMA HashesAlike ==
    ASSUME NEW q \in Request, NEW r \in Request, Alike[q][r]
    PROVE  HashOf[q] = HashOf[r]
<1>1. \A i \in Counted(Policies, q) : ReadsAlike(Policies[i], q, r)
  BY DEF Alike
<1>2. \A i \in Counted(Policies, q) :
         HashComponent(Policies[i], q) = HashComponent(Policies[i], r)
  BY <1>1, HashedAlike
<1>3. \A i \in DOMAIN Policies : i \in Nat /\ \A j \in 1..(i - 1) : j \in DOMAIN Policies
  BY RequestConstants
<1>4. \A i \in Counted(Policies, q) : Settles(Policies[i], q) <=> Settles(Policies[i], r)
  BY <1>2 DEF Settles
<1>5. ASSUME NEW i \in Counted(Policies, q) PROVE i \in Counted(Policies, r)
  <2>1. i \in DOMAIN Policies /\ \A j \in 1..(i - 1) : ~Settles(Policies[j], q)
    BY DEF Counted
  <2>2. ASSUME NEW j \in 1..(i - 1) PROVE ~Settles(Policies[j], r)
    <3>1. j \in DOMAIN Policies /\ \A l \in 1..(j - 1) : l \in 1..(i - 1)
      BY <1>3, <2>1
    <3>2. j \in Counted(Policies, q)
      BY <2>1, <3>1 DEF Counted
    <3> QED  BY <1>4, <2>1, <3>2
  <2> QED  BY <2>1, <2>2 DEF Counted
<1>6. ASSUME NEW i \in Counted(Policies, r) PROVE i \in Counted(Policies, q)
  <2>1. i \in DOMAIN Policies /\ \A j \in 1..(i - 1) : ~Settles(Policies[j], r)
    BY DEF Counted
  <2> DEFINE settled == {j \in 1..(i - 1) : Settles(Policies[j], q)}
  <2>2. ASSUME settled # {} PROVE FALSE
    <3>1. settled \subseteq Nat
      OBVIOUS
    <3>2. PICK j \in settled : \A l \in settled : j <= l
      <4> HIDE DEF settled
      <4> QED  BY <2>2, <3>1, LeastNumber
    <3>3. j \in DOMAIN Policies /\ \A l \in 1..(j - 1) : l \in 1..(i - 1) /\ ~(j <= l)
      BY <1>3, <2>1
    <3>4. j \in Counted(Policies, q)
      BY <3>2, <3>3 DEF Counted
    <3> QED  BY <1>4, <2>1, <3>4
  <2> QED  BY <2>1, <2>2 DEF Counted
<1> QED
  <2>1. Counted(Policies, q) = Counted(Policies, r)
    BY <1>5, <1>6
  <2> DEFINE hashes(x) == [i \in Counted(Policies, x) |-> HashComponent(Policies[i], x)]
  <2>2. hashes(q) = hashes(r)
    BY <1>2, <2>1
  <2>3. /\ HashOf[q] = FoldLeft(Combine, NoHash, hashes(q))
        /\ HashOf[r] = FoldLeft(Combine, NoHash, hashes(r))
    BY DEF HashOf, HashRequest
  <2> HIDE DEF hashes
  <2> QED  BY <2>2, <2>3

\* Requests that agree on what the policies look at reach the same endpoint of
\* a group: the order of headers, what else they carry, the callers that
\* rebuild the ring in between change nothing (hash_request).
THEOREM AlikeMeet == Spec => []Affinity
<1>1. IInv /\ SameHashSameEndpoint => Affinity
  <2> SUFFICES ASSUME IInv, SameHashSameEndpoint, NEW c \in Answered, NEW d \in Answered,
                      call[c].group = call[d].group,
                      HashOf[call[c].request] # NoHash,
                      Alike[call[c].request][call[d].request]
               PROVE  answer[c] = answer[d]
    BY DEF Affinity
  <2>1. call[c].request \in Request /\ call[d].request \in Request
    BY DEF Answered, IInv, TypeOK, Call
  <2>2. HashOf[call[c].request] = HashOf[call[d].request]
    BY <2>1, HashesAlike
  <2> QED  BY <2>2 DEF SameHashSameEndpoint
<1> QED  BY <1>1, LikeRequestsMeet, InitIInv, StepIInv, PTL DEF Spec
=============================================================================
