------------------------ MODULE AdsConnectionProofs ------------------------
(***************************************************************************)
(* Proofs about AdsConnection, for every choice of resources, contents,    *)
(* updates and delays.                                                     *)
(***************************************************************************)
EXTENDS AdsConnection, CacheStateProofs

-----------------------------------------------------------------------------
(* The elements of a sequence *)

LEMMA EmptyElements ==
    ASSUME NEW S
    PROVE  <<>> \in Seq(S) /\ ToSet(<<>>) = {}
  BY DEF ToSet

LEMMA Elements ==
    ASSUME NEW S, NEW s \in Seq(S)
    PROVE  /\ \A i \in 1..Len(s) : s[i] \in ToSet(s)
           /\ \A x \in ToSet(s) : \E i \in 1..Len(s) : x = s[i]
<1>1. DOMAIN s = 1..Len(s)
  OBVIOUS
<1> QED
  BY <1>1 DEF ToSet

LEMMA AppendElements ==
    ASSUME NEW S, NEW s \in Seq(S), NEW e \in S
    PROVE  /\ Append(s, e) \in Seq(S)
           /\ ToSet(Append(s, e)) = ToSet(s) \cup {e}
           /\ Len(Append(s, e)) = Len(s) + 1
<1>1. /\ Append(s, e) \in Seq(S) /\ Len(Append(s, e)) = Len(s) + 1
      /\ \A i \in 1..Len(s) : Append(s, e)[i] = s[i]
      /\ Append(s, e)[Len(s) + 1] = e
  OBVIOUS
<1>2. 1..(Len(s) + 1) = 1..Len(s) \cup {Len(s) + 1}
  OBVIOUS
<1> QED
  BY <1>1, <1>2 DEF ToSet

LEMMA ConcatElements ==
    ASSUME NEW S, NEW s \in Seq(S), NEW t \in Seq(S)
    PROVE  s \o t \in Seq(S) /\ ToSet(s \o t) = ToSet(s) \cup ToSet(t)
<1>1. /\ s \o t \in Seq(S) /\ Len(s \o t) = Len(s) + Len(t)
      /\ \A i \in 1..Len(s) : (s \o t)[i] = s[i]
      /\ \A i \in 1..Len(t) : (s \o t)[Len(s) + i] = t[i]
  OBVIOUS
<1>2. ASSUME NEW i \in 1..(Len(s) + Len(t))
      PROVE  (s \o t)[i] \in ToSet(s) \cup ToSet(t)
  <2>1. CASE i \in 1..Len(s)
    BY <1>1, <2>1 DEF ToSet
  <2>2. CASE i \notin 1..Len(s)
    <3>1. i - Len(s) \in 1..Len(t) /\ i = Len(s) + (i - Len(s))
      BY <2>2
    <3> QED
      BY <1>1, <3>1 DEF ToSet
  <2> QED
    BY <2>1, <2>2
<1>3. ToSet(s \o t) \subseteq ToSet(s) \cup ToSet(t)
  BY <1>1, <1>2 DEF ToSet
<1>4. ASSUME NEW i \in 1..Len(s) PROVE s[i] \in ToSet(s \o t)
  <2>1. i \in 1..Len(s \o t) /\ (s \o t)[i] = s[i]
    BY <1>1
  <2> QED
    BY <1>1, <2>1, Elements
<1>5. ASSUME NEW i \in 1..Len(t) PROVE t[i] \in ToSet(s \o t)
  <2>1. Len(s) + i \in 1..Len(s \o t) /\ (s \o t)[Len(s) + i] = t[i]
    BY <1>1
  <2> QED
    BY <1>1, <2>1, Elements
<1>6. ToSet(s) \subseteq ToSet(s \o t) /\ ToSet(t) \subseteq ToSet(s \o t)
  BY <1>4, <1>5, Elements
<1> QED
  BY <1>1, <1>3, <1>6

LEMMA HeadTailElements ==
    ASSUME NEW S, NEW s \in Seq(S), s # <<>>
    PROVE  /\ Head(s) \in S /\ Tail(s) \in Seq(S)
           /\ ToSet(s) = {Head(s)} \cup ToSet(Tail(s))
           /\ Len(Tail(s)) = Len(s) - 1
<1>1. /\ Len(s) \in Nat \ {0}
      /\ Head(s) = s[1] /\ Head(s) \in S /\ Tail(s) \in Seq(S)
      /\ Len(Tail(s)) = Len(s) - 1
      /\ \A i \in 1..(Len(s) - 1) : Tail(s)[i] = s[i + 1]
  OBVIOUS
<1>2. ToSet(Tail(s)) \subseteq ToSet(s)
  <2>1. \A i \in 1..(Len(s) - 1) : i + 1 \in 1..Len(s)
    BY <1>1
  <2> QED
    BY <1>1, <2>1 DEF ToSet
<1>3. Head(s) \in ToSet(s)
  BY <1>1 DEF ToSet
<1>4. ASSUME NEW i \in 1..Len(s)
      PROVE  s[i] \in {Head(s)} \cup ToSet(Tail(s))
  <2>1. CASE i = 1
    BY <1>1, <2>1
  <2>2. CASE i # 1
    <3>1. i - 1 \in 1..Len(Tail(s)) /\ Tail(s)[i - 1] = s[i]
      BY <1>1, <2>2
    <3> QED
      BY <1>1, <3>1, Elements
  <2> QED
    BY <2>1, <2>2
<1>5. ToSet(s) \subseteq {Head(s)} \cup ToSet(Tail(s))
  BY <1>4 DEF ToSet
<1> QED
  BY <1>1, <1>2, <1>3, <1>5

LEMMA OptionalElements ==
    ASSUME NEW S, NEW q \in S, NEW needed \in BOOLEAN
    PROVE  /\ Optional(q, needed) \in Seq(S)
           /\ ToSet(Optional(q, needed)) = IF needed THEN {q} ELSE {}
<1>1. <<q>> \in Seq(S) /\ ToSet(<<q>>) = {q}
  BY DEF ToSet
<1> QED
  BY <1>1, EmptyElements DEF Optional

LEMMA TypeFacts ==
    /\ Type = {"Cluster", "ClusterLoadAssignment", "Listener", "RouteConfiguration"}
    /\ OfType("Cluster") = Cluster
    /\ OfType("ClusterLoadAssignment") = ClusterLoadAssignment
    /\ OfType("Listener") = Listener
    /\ OfType("RouteConfiguration") = RouteConfiguration
<1>1. Type = {Types[1], Types[2], Types[3], Types[4]}
  <2>1. DOMAIN Types = {1, 2, 3, 4}
    BY DEF Types
  <2> QED
    BY <2>1 DEF Type, ToSet
<1> QED
  BY <1>1 DEF Types, OfType

LEMMA InEveryTypeElements ==
    ASSUME NEW S, NEW requests \in [Type -> Seq(S)]
    PROVE  /\ InEveryType(requests) \in Seq(S)
           /\ ToSet(InEveryType(requests)) = UNION {ToSet(requests[t]) : t \in Type}
<1> DEFINE a == requests["Cluster"]
           b == requests["ClusterLoadAssignment"]
           c == requests["Listener"]
           d == requests["RouteConfiguration"]
           ab == a \o b
           abc == ab \o c
<1>1. a \in Seq(S) /\ b \in Seq(S) /\ c \in Seq(S) /\ d \in Seq(S)
  BY TypeFacts
<1>2. InEveryType(requests) = abc \o d
  BY DEF InEveryType, Types
<1>3. UNION {ToSet(requests[t]) : t \in Type} = ToSet(a) \cup ToSet(b) \cup ToSet(c) \cup ToSet(d)
  BY TypeFacts
<1> HIDE DEF a, b, c, d
<1>4. ab \in Seq(S) /\ ToSet(ab) = ToSet(a) \cup ToSet(b)
  BY <1>1, ConcatElements
<1> HIDE DEF ab
<1>5. abc \in Seq(S) /\ ToSet(abc) = ToSet(ab) \cup ToSet(c)
  BY <1>1, <1>4, ConcatElements
<1> HIDE DEF abc
<1>6. abc \o d \in Seq(S) /\ ToSet(abc \o d) = ToSet(abc) \cup ToSet(d)
  BY <1>1, <1>5, ConcatElements
<1> QED
  BY <1>2, <1>3, <1>4, <1>5, <1>6

LEMMA TypeOfFacts ==
    ASSUME NEW r \in Resource
    PROVE  TypeOf(r) \in Type /\ r \in OfType(TypeOf(r))
<1>1. \E t \in Type : r \in OfType(t)
  BY TypeFacts DEF Resource
<1> QED
  BY <1>1 DEF TypeOf

LEMMA OfTypeFacts ==
    ASSUME NEW t \in Type
    PROVE  /\ OfType(t) \subseteq Resource
           /\ OfType(t) \cap Wildcard # {} => OfType(t) \subseteq Wildcard
  BY TypeFacts, DisjointTypes DEF Resource, Wildcard

LEMMA RequestsInEveryType ==
    ASSUME NEW S, NEW request \in [Type -> S], NEW needed \in [Type -> BOOLEAN]
    PROVE  LET q == InEveryType([t \in Type |-> Optional(request[t], needed[t])])
           IN  /\ q \in Seq(S)
               /\ ToSet(q) = {request[t] : t \in {u \in Type : needed[u]}}
<1> DEFINE requests == [t \in Type |-> Optional(request[t], needed[t])]
<1>1. ASSUME NEW t \in Type
      PROVE  /\ requests[t] \in Seq(S)
             /\ ToSet(requests[t]) = IF needed[t] THEN {request[t]} ELSE {}
  BY OptionalElements
<1>2. requests \in [Type -> Seq(S)]
  BY <1>1
<1> HIDE DEF requests
<1>3. /\ InEveryType(requests) \in Seq(S)
      /\ ToSet(InEveryType(requests)) = UNION {ToSet(requests[t]) : t \in Type}
  BY <1>2, InEveryTypeElements
<1>4. UNION {ToSet(requests[t]) : t \in Type} = {request[t] : t \in {u \in Type : needed[u]}}
  BY <1>1
<1> QED
  BY <1>3, <1>4 DEF requests

-----------------------------------------------------------------------------
(* The inductive invariant *)

\* Only types in wildcard mode have wildcard subscriptions.
WildcardNodes == subs.wildcard \subseteq Wildcard

\* A connection that is down has nothing, and acks wait for a flush.
DownIsEmpty ==
    /\ phase = "down" => incoming = <<>> /\ tracked = {} /\ unanswered = {}
    /\ batch => phase = "reading"
    /\ (unknown # <<>> \/ \E t \in Type : acks[t] # None) => batch

\* Responses are ones the server can send.
IncomingFits ==
    \A resp \in ToSet(incoming) :
        /\ resp.kind \in {"resource", "removed"} =>
              resp.name \in Resource /\ resp.type \in Type
        /\ resp.kind = "resource" => resp.xds \in Sends[resp.name]
        /\ resp.kind = "removed" => resp.name \in Deletes

\* Requests ask for what is wanted and give up what is not.
RequestsFit ==
    \A q \in ToSet(out) :
        /\ q.remove \cap subs.nodes = {}
        /\ (q.add \cup q.versions) \cap Named \subseteq subs.nodes \cup q.remove
        /\ q.wild => OfType(q.type) \subseteq Wildcard

\* What MissingAreAskedFor allows.
Settled(r) ==
    HasData(data, r) \/ r \in tracked \/ (r \in Deletes /\ HasEntry(data, r))

\* What is wanted is settled, or the next flush or a request asks for it.
AskedOrPending ==
    phase # "down" =>
        \A r \in Named \cap subs.nodes :
            \/ Settled(r)
            \/ batch /\ r \in subs.added
            \/ \E q \in ToSet(out) : r \in q.add \cup q.versions

\* What the server sends is wanted, or a request gives it up.
TrackedOrLeaving ==
    \A r \in tracked \cap Named : r \in subs.nodes \/ \E q \in ToSet(out) : r \in q.remove

\* A response without an answer was overtaken, or is on its way, or is the one
\* whose verdict its type has, or one of unknown type, or a request answers it.
AnswerPending ==
    \A u \in unanswered :
        \/ u \in overtaken
        \/ \E resp \in ToSet(incoming) : resp.type = u.type /\ resp.nonce = u.nonce
        \/ u \in HandledLast(u.type)
        \/ u.type = "unknown" /\ u.nonce \in ToSet(unknown)
        \/ \E q \in ToSet(out) : u \in AnsweredBy(q)

IInv ==
    /\ TypeOK
    /\ Sound(cache, {})
    /\ WildcardNodes
    /\ DownIsEmpty
    /\ IncomingFits
    /\ RequestsFit
    /\ AskedOrPending
    /\ TrackedOrLeaving
    /\ AnswerPending

LEMMA EmptyTypes ==
    /\ NoAcks \in [Type -> Ack \cup {None}]
    /\ <<>> \in Seq(Nonce)
    /\ NoDns \in DnsUpdates
    /\ <<>> \in Seq(Request)
    /\ <<>> \in Seq(Response) /\ Len(<<>>) <= MaxInFlight
<1>1. NoAcks \in [Type -> Ack \cup {None}] /\ NoDns \in DnsUpdates
  BY DEF NoAcks, NoDns, DnsUpdates
<1>2. Len(<<>>) <= MaxInFlight
  BY ConnectionConstants
<1> QED
  BY <1>1, <1>2, EmptyElements

LEMMA InitIInv == Init => IInv
<1> SUFFICES ASSUME Init PROVE IInv
  OBVIOUS
<1>1. cache = EmptyCache
  BY DEF Init, cache, EmptyCache
<1>2. Sound(cache, {})
  BY <1>1, EmptySound
<1>3. TypeOK
  BY <1>2, EmptyTypes DEF Sound, Good, Init, TypeOK
<1>4. ToSet(out) = {}
  BY EmptyElements DEF Init
<1>5. WildcardNodes /\ DownIsEmpty /\ AskedOrPending /\ TrackedOrLeaving /\ AnswerPending
  BY DEF Init, WildcardNodes, EmptyCache, EmptyGraph, DownIsEmpty, NoAcks, AskedOrPending,
         TrackedOrLeaving, AnswerPending
<1>6. IncomingFits /\ RequestsFit
  BY <1>4, EmptyElements DEF Init, IncomingFits, RequestsFit
<1> QED
  BY <1>2, <1>3, <1>5, <1>6 DEF IInv

-----------------------------------------------------------------------------
(* Connecting and breaking *)

LEMMA InitialRequestsFacts ==
    ASSUME IInv
    PROVE  /\ InitialRequests \in Seq(Request)
           /\ \A q \in ToSet(InitialRequests) : \E t \in Type : q = InitialRequest(t)
           /\ \A t \in Type : InitialRequest(t).add # {} \/ InitialRequest(t).versions # {}
                => InitialRequest(t) \in ToSet(InitialRequests)
<1> DEFINE request == [t \in Type |-> InitialRequest(t)]
           needed == [t \in Type |-> InitialRequest(t).wild \/ InitialRequest(t).add # {}
                                       \/ InitialRequest(t).versions # {}]
<1>1. ASSUME NEW t \in Type
      PROVE  InitialRequest(t) \in Request
  <2>1. OfType(t) \subseteq Resource
    BY OfTypeFacts
  <2> QED
    BY <2>1 DEF InitialRequest, InitialSubscriptions, WithData, Request
<1>2. request \in [Type -> Request] /\ needed \in [Type -> BOOLEAN]
  BY <1>1 DEF Request
<1>3. InitialRequests = InEveryType([t \in Type |-> Optional(request[t], needed[t])])
  BY DEF InitialRequests
<1>4. /\ InitialRequests \in Seq(Request)
      /\ ToSet(InitialRequests) = {request[t] : t \in {u \in Type : needed[u]}}
  <2> HIDE DEF request, needed
  <2> QED
    BY <1>2, <1>3, RequestsInEveryType
<1> QED
  BY <1>4

LEMMA ConnectIInv == IInv /\ Connect => IInv'
<1> SUFFICES ASSUME IInv, Connect PROVE IInv'
  OBVIOUS
<1>1. /\ phase = "down" /\ phase' = "sending" /\ incoming = <<>>
      /\ tracked = {} /\ unanswered = {} /\ ~batch
      /\ out' = InitialRequests
      /\ UNCHANGED <<subs, data, dns, batch, incoming, pinned, tracked, unanswered, overtaken>>
      /\ cache' = cache
  BY DEF IInv, Connect, cacheVars, serverVars, cache, DownIsEmpty
<1>2. Sound(cache', {})
  BY <1>1 DEF IInv
<1>3. TypeOK'
  BY <1>1, InitialRequestsFacts, EmptyTypes DEF IInv, TypeOK, Connect
<1>4. DownIsEmpty'
  BY <1>1 DEF Connect, NoAcks, DownIsEmpty
<1>5. WildcardNodes' /\ IncomingFits' /\ TrackedOrLeaving' /\ AnswerPending'
  BY <1>1 DEF IInv, WildcardNodes, IncomingFits, TrackedOrLeaving, AnswerPending
<1>6. ASSUME NEW r \in Resource, HasData(data, r)
      PROVE  r \in subs.nodes
  BY <1>6 DEF IInv, Sound, Good, cache
<1>7. RequestsFit'
  <2>1. ASSUME NEW t \in Type
        PROVE  LET q == InitialRequest(t) IN
               /\ q.remove = {}
               /\ q.add \cup q.versions \subseteq subs.nodes
               /\ q.wild => OfType(q.type) \subseteq Wildcard
    BY <1>6, OfTypeFacts DEF InitialRequest, InitialSubscriptions, WithData
  <2> QED
    BY <1>1, <2>1, InitialRequestsFacts DEF RequestsFit
<1>8. AskedOrPending'
  <2>1. ASSUME NEW r \in Named \cap subs.nodes, ~HasData(data, r)
        PROVE  \E q \in ToSet(InitialRequests) : r \in q.add \cup q.versions
    <3> DEFINE q == InitialRequest(TypeOf(r))
    <3>1. r \in Resource /\ TypeOf(r) \in Type /\ r \in OfType(TypeOf(r))
      BY TypeOfFacts DEF Named
    <3>2. r \notin subs.wildcard
      BY DEF IInv, WildcardNodes, Named
    <3>3. r \in q.add
      BY <2>1, <3>1, <3>2 DEF InitialRequest, InitialSubscriptions, WithData
    <3> QED
      BY <3>1, <3>3, InitialRequestsFacts
  <2> QED
    BY <1>1, <2>1 DEF AskedOrPending, Settled
<1> QED
  BY <1>2, <1>3, <1>4, <1>5, <1>7, <1>8 DEF IInv

LEMMA DisconnectIInv == IInv /\ Disconnect => IInv'
<1> SUFFICES ASSUME IInv, Disconnect PROVE IInv'
  OBVIOUS
<1>1. /\ phase' = "down" /\ batch' = FALSE /\ out' = <<>> /\ dnsOut' = NoDns
      /\ incoming' = <<>> /\ acks' = NoAcks /\ unknown' = <<>>
      /\ tracked' = {} /\ unanswered' = {} /\ overtaken' = {}
      /\ UNCHANGED <<subs, data, dns, pinned, listed>>
      /\ cache' = cache
  BY DEF Disconnect, cacheVars, resolverVars, cache
<1>2. Sound(cache', {})
  BY <1>1 DEF IInv
<1>3. TypeOK'
  BY <1>1, EmptyTypes DEF IInv, TypeOK
<1>4. DownIsEmpty'
  BY <1>1 DEF NoAcks, DownIsEmpty
<1>5. WildcardNodes' /\ TrackedOrLeaving' /\ AnswerPending' /\ AskedOrPending'
  BY <1>1 DEF IInv, WildcardNodes, TrackedOrLeaving, AnswerPending, AskedOrPending
<1>6. IncomingFits' /\ RequestsFit'
  BY <1>1, EmptyElements DEF IncomingFits, RequestsFit
<1> QED
  BY <1>2, <1>3, <1>4, <1>5, <1>6 DEF IInv

-----------------------------------------------------------------------------
(* Updates: what a batch does to the cache *)

\* Of all calls of a batch, only the removal of a resource takes content away.
BatchStep ==
    /\ phase = "reading" /\ batch'
    /\ UNCHANGED <<phase, out, dnsOut, pinned, listed, tracked, unanswered>>
    /\ Sound(cache', {})
    /\ \/ Keeps(cache, cache')
       \/ \E stays : \E r \in Deletes : cache' = RemoveResource(cache, r, stays)

LEMMA BatchKeeps ==
    ASSUME IInv, BatchStep
    PROVE  WildcardNodes' /\ RequestsFit' /\ AskedOrPending' /\ TrackedOrLeaving'
<1>1. /\ cache.subs = subs /\ cache.data = data /\ cache.dns = dns
      /\ cache'.subs = subs' /\ cache'.data = data' /\ cache'.dns = dns'
  BY DEF cache
<1>2. /\ out = <<>> /\ out' = <<>> /\ ToSet(out) = {} /\ ToSet(out') = {}
      /\ phase = "reading" /\ phase' = "reading" /\ batch' /\ tracked' = tracked
  BY EmptyElements DEF IInv, TypeOK, BatchStep
<1>3. RequestsFit'
  BY <1>2 DEF RequestsFit
<1>4. /\ subs.wildcard \subseteq Wildcard
      /\ \A r \in Named \cap subs.nodes : Settled(r) \/ r \in subs.added
      /\ \A r \in tracked \cap Named : r \in subs.nodes
  BY <1>2 DEF IInv, WildcardNodes, AskedOrPending, TrackedOrLeaving
<1>5. CASE Keeps(cache, cache')
  <2>1. /\ subs.nodes \subseteq subs'.nodes
        /\ subs'.wildcard \subseteq subs.wildcard \cup Wildcard
        /\ \A r \in Resource :
              /\ r \in subs.added \cup (subs'.nodes \ (subs.nodes \cup Wildcard))
                   => r \in subs'.added \/ HasData(data', r)
              /\ HasEntry(data, r) => HasEntry(data', r)
              /\ HasData(data, r) => HasData(data', r)
    BY <1>1, <1>5 DEF Keeps
  <2>2. \A r \in Resource : Settled(r) => Settled(r)'
    BY <1>2, <2>1 DEF Settled
  <2>3. \A r \in Named \cap subs'.nodes : Settled(r)' \/ r \in subs'.added
    BY <1>4, <2>1, <2>2 DEF Named, Settled
  <2> QED
    BY <1>2, <1>3, <1>4, <2>1, <2>3 DEF WildcardNodes, AskedOrPending, TrackedOrLeaving
<1>6. ASSUME NEW stays, NEW d \in Deletes, cache' = RemoveResource(cache, d, stays)
      PROVE  WildcardNodes' /\ AskedOrPending' /\ TrackedOrLeaving'
  <2>1. /\ subs'.nodes = subs.nodes
        /\ subs'.wildcard = subs.wildcard
        /\ subs'.added = subs.added
        /\ HasEntry(data', d)
        /\ \A q \in Resource \ {d} : data'[q] = data[q]
    BY <1>1, <1>6, CacheConstants, RemoveFacts DEF IInv
  <2>2. \A r \in Resource : Settled(r) => Settled(r)'
    BY <1>2, <2>1 DEF Settled, HasData, HasEntry
  <2> QED
    BY <1>2, <1>4, <2>1, <2>2 DEF WildcardNodes, AskedOrPending, TrackedOrLeaving, Named
<1> QED
  BY <1>3, <1>5, <1>6 DEF BatchStep

LEMMA BecomeFacts ==
    ASSUME NEW c, Sound(c, {}), Become(c)
    PROVE  cache' = c
<1>1. c = [subs |-> c.subs, data |-> c.data, dns |-> c.dns]
  BY DEF Sound, Good, Cache
<1> QED
  BY <1>1 DEF Become, cache

LEMMA InsertFailsType ==
    ASSUME NEW r \in Resource, NEW xds
    PROVE  InsertFails(r, xds) \in BOOLEAN
  BY DEF InsertFails

LEMMA HandleAdsMessageStep ==
    ASSUME IInv, HandleAdsMessage
    PROVE  /\ BatchStep
           /\ dns'.remove = dns.remove
           /\ incoming' = Tail(incoming) /\ incoming # <<>>
           /\ LET resp == Head(incoming) IN
              /\ \/ /\ resp.type = "unknown"
                    /\ unknown' = Append(unknown, resp.nonce) /\ UNCHANGED acks
                 \/ /\ resp.type \in Type
                    /\ UNCHANGED unknown
                    /\ \E e \in BOOLEAN : acks' = SetAck(resp, e)
              /\ overtaken' = overtaken \cup HandledLast(resp.type)
<1> DEFINE resp == Head(incoming)
<1>1. /\ resp \in Response /\ resp \in ToSet(incoming)
  BY HeadTailElements DEF IInv, TypeOK, HandleAdsMessage
<1>2. /\ phase = "reading" /\ batch'
      /\ UNCHANGED <<phase, out, dnsOut, pinned, listed, tracked, unanswered>>
  BY DEF HandleAdsMessage, resolverVars
<1>3. /\ resp.kind \in {"resource", "removed"} => resp.name \in Resource /\ resp.type \in Type
      /\ resp.kind = "resource" => resp.xds \in Sends[resp.name]
      /\ resp.kind = "removed" => resp.name \in Deletes
  BY <1>1 DEF IInv, IncomingFits
<1>4. Sound(cache, {}) /\ Grows(cache, cache)
  BY GrowsReflexive DEF IInv
<1>5. /\ incoming' = Tail(incoming) /\ incoming # <<>>
      /\ overtaken' = overtaken \cup HandledLast(resp.type)
      /\ cache.dns = dns /\ cache'.dns = dns'
  BY DEF HandleAdsMessage, cache
<1>6. \/ /\ resp.type = "unknown" /\ unknown' = Append(unknown, resp.nonce)
         /\ UNCHANGED <<cacheVars, acks>>
      \/ /\ resp.type # "unknown" /\ UNCHANGED <<cacheVars, unknown>>
         /\ acks' = SetAck(resp, TRUE)
      \/ /\ resp.kind = "resource"
         /\ \E stays : Become(Inserted(cache, resp.name, resp.xds, stays))
         /\ UNCHANGED unknown
         /\ acks' = SetAck(resp, InsertFails(resp.name, resp.xds))
      \/ /\ resp.kind = "removed"
         /\ \E stays : Become(RemoveResource(cache, resp.name, stays))
         /\ UNCHANGED unknown
         /\ acks' = SetAck(resp, FALSE)
  BY DEF HandleAdsMessage
<1> HIDE DEF resp
<1>7. CASE /\ resp.type = "unknown" /\ unknown' = Append(unknown, resp.nonce)
           /\ UNCHANGED <<cacheVars, acks>>
  <2>1. cache' = cache
    BY <1>7 DEF cacheVars, cache
  <2> QED
    BY <1>2, <1>4, <1>5, <1>7, <2>1 DEF BatchStep, Grows, resp
<1>8. CASE /\ resp.type # "unknown" /\ UNCHANGED <<cacheVars, unknown>>
           /\ acks' = SetAck(resp, TRUE)
  <2>1. cache' = cache
    BY <1>8 DEF cacheVars, cache
  <2>2. resp.type \in Type
    BY <1>1, <1>8 DEF Response
  <2> QED
    BY <1>2, <1>4, <1>5, <1>8, <2>1, <2>2 DEF BatchStep, Grows, resp
<1>9. CASE /\ resp.kind = "resource"
           /\ \E stays : Become(Inserted(cache, resp.name, resp.xds, stays))
           /\ UNCHANGED unknown
           /\ acks' = SetAck(resp, InsertFails(resp.name, resp.xds))
  <2>1. PICK stays : Become(Inserted(cache, resp.name, resp.xds, stays))
    BY <1>9
  <2> DEFINE t == Inserted(cache, resp.name, resp.xds, stays)
  <2>2. Sound(t, {}) /\ Grows(cache, t) /\ resp.type \in Type
    BY <1>3, <1>4, <1>9, InsertedSound
  <2>3. cache' = t
    BY <2>1, <2>2, BecomeFacts
  <2>4. InsertFails(resp.name, resp.xds) \in BOOLEAN
    BY <1>3, <1>9, InsertFailsType
  <2> HIDE DEF t
  <2> QED
    BY <1>2, <1>5, <1>9, <2>2, <2>3, <2>4 DEF BatchStep, Grows, resp
<1>10. CASE /\ resp.kind = "removed"
            /\ \E stays : Become(RemoveResource(cache, resp.name, stays))
            /\ UNCHANGED unknown
            /\ acks' = SetAck(resp, FALSE)
  <2>1. PICK stays : Become(RemoveResource(cache, resp.name, stays))
    BY <1>10
  <2> DEFINE t == RemoveResource(cache, resp.name, stays)
  <2>2. /\ Sound(t, {}) /\ resp.type \in Type /\ resp.name \in Deletes
        /\ t.dns = cache.dns
    BY <1>3, <1>4, <1>10, RemoveSound, RemoveFacts
  <2>3. cache' = t
    BY <2>1, <2>2, BecomeFacts
  <2>4. BatchStep
    BY <1>2, <2>2, <2>3 DEF BatchStep
  <2> QED
    BY <1>5, <1>10, <2>2, <2>3, <2>4 DEF resp
<1> QED
  BY <1>6, <1>7, <1>8, <1>9, <1>10

LEMMA HandleAdsMessageIInv == IInv /\ HandleAdsMessage => IInv'
<1> SUFFICES ASSUME IInv, HandleAdsMessage PROVE IInv'
  OBVIOUS
<1> DEFINE resp == Head(incoming)
<1>1. /\ BatchStep
      /\ incoming' = Tail(incoming) /\ incoming # <<>>
      /\ \/ /\ resp.type = "unknown"
            /\ unknown' = Append(unknown, resp.nonce) /\ UNCHANGED acks
         \/ /\ resp.type \in Type
            /\ UNCHANGED unknown
            /\ \E e \in BOOLEAN : acks' = SetAck(resp, e)
      /\ overtaken' = overtaken \cup HandledLast(resp.type)
  BY HandleAdsMessageStep
<1>2. /\ resp \in Response
      /\ ToSet(incoming) = {resp} \cup ToSet(incoming')
      /\ incoming' \in Seq(Response) /\ Len(incoming') <= MaxInFlight
  <2>1. incoming \in Seq(Response) /\ Len(incoming) <= MaxInFlight /\ Len(incoming) \in Nat
    BY DEF IInv, TypeOK
  <2>2. /\ resp \in Response /\ Tail(incoming) \in Seq(Response)
        /\ ToSet(incoming) = {resp} \cup ToSet(Tail(incoming))
        /\ Len(Tail(incoming)) = Len(incoming) - 1
    BY <1>1, <2>1, HeadTailElements
  <2>3. Len(Tail(incoming)) <= MaxInFlight
    BY <2>1, <2>2, ConnectionConstants
  <2> QED
    BY <1>1, <2>2, <2>3
<1> HIDE DEF resp
<1>3. /\ phase = "reading" /\ phase' = "reading" /\ batch'
      /\ UNCHANGED <<out, dnsOut, pinned, listed, tracked, unanswered>>
      /\ Sound(cache', {})
  BY <1>1 DEF BatchStep
<1>4. WildcardNodes' /\ RequestsFit' /\ AskedOrPending' /\ TrackedOrLeaving'
  BY <1>1, BatchKeeps
<1>5. /\ acks' \in [Type -> Ack \cup {None}] /\ unknown' \in Seq(Nonce) /\ batch' \in BOOLEAN
      /\ overtaken' \subseteq {u \in Sent : u.type # "unknown"}
      /\ resp.type = "unknown" => ToSet(unknown') = ToSet(unknown) \cup {resp.nonce}
  <2>1. /\ acks \in [Type -> Ack \cup {None}] /\ unknown \in Seq(Nonce)
        /\ overtaken \subseteq {u \in Sent : u.type # "unknown"}
        /\ resp.nonce \in Nonce
    BY <1>2 DEF IInv, TypeOK, Response
  <2>2. batch' \in BOOLEAN
    BY DEF HandleAdsMessage
  <2>3. /\ Append(unknown, resp.nonce) \in Seq(Nonce)
        /\ ToSet(Append(unknown, resp.nonce)) = ToSet(unknown) \cup {resp.nonce}
    BY <2>1, AppendElements
  <2>4. \A e \in BOOLEAN : SetAck(resp, e) \in [Type -> Ack \cup {None}]
    BY <2>1 DEF SetAck, Ack
  <2>5. HandledLast(resp.type) \subseteq {u \in Sent : u.type # "unknown"}
    BY TypeFacts DEF HandledLast
  <2>6. resp.type = "unknown" => resp.type \notin Type
    BY TypeFacts
  <2> QED
    BY <1>1, <2>1, <2>2, <2>3, <2>4, <2>5, <2>6
<1>6. TypeOK'
  BY <1>2, <1>3, <1>5 DEF IInv, TypeOK, Sound, Good
<1>7. DownIsEmpty' /\ IncomingFits'
  BY <1>2, <1>3 DEF IInv, DownIsEmpty, IncomingFits
<1>8. AnswerPending'
  <2>1. ASSUME NEW u \in unanswered
        PROVE  \/ u \in overtaken'
               \/ \E p \in ToSet(incoming') : p.type = u.type /\ p.nonce = u.nonce
               \/ u \in HandledLast(u.type)'
               \/ u.type = "unknown" /\ u.nonce \in ToSet(unknown')
               \/ \E q \in ToSet(out) : u \in AnsweredBy(q)
    <3>1. /\ u \in Sent /\ u.type \in Type \cup {"unknown"}
          /\ acks \in [Type -> Ack \cup {None}] /\ resp.nonce \in Nonce
      BY <1>2 DEF IInv, TypeOK, Sent, Response
    <3>2. CASE resp.type = u.type /\ resp.nonce = u.nonce
      <4>1. CASE u.type = "unknown"
        BY <1>5, <3>2, <4>1
      <4>2. CASE u.type \in Type
        <5>1. PICK e \in BOOLEAN : acks' = SetAck(resp, e)
          BY <1>1, <3>2, <4>2, TypeFacts
        <5>2. acks'[u.type] = [nonce |-> u.nonce, error |-> e]
          BY <3>1, <3>2, <4>2, <5>1 DEF SetAck
        <5>3. acks'[u.type] # None /\ acks'[u.type].nonce = u.nonce
          BY <3>1, <3>2, <5>2, ConnectionConstants DEF Ack
        <5> QED
          BY <3>1, <4>2, <5>3 DEF HandledLast
      <4> QED
        BY <3>1, <4>1, <4>2
    <3>3. CASE u \in HandledLast(u.type)
      <4>1. CASE u.type = resp.type
        BY <1>1, <3>3, <4>1
      <4>2. CASE u.type # resp.type
        <5>1. u.type \in Type => acks'[u.type] = acks[u.type]
          BY <1>1, <3>1, <4>2 DEF SetAck
        <5> QED
          BY <3>3, <5>1 DEF HandledLast
      <4> QED
        BY <4>1, <4>2
    <3>4. CASE u.type = "unknown" /\ u.nonce \in ToSet(unknown)
      <4>1. ToSet(unknown) \subseteq ToSet(unknown')
        BY <1>1, <1>5
      <4> QED
        BY <3>4, <4>1
    <3> QED
      BY <1>1, <1>2, <3>2, <3>3, <3>4 DEF IInv, AnswerPending
  <2> QED
    BY <1>3, <2>1 DEF AnswerPending
<1> QED
  BY <1>3, <1>4, <1>6, <1>7, <1>8 DEF IInv

LEMMA UpdateSound ==
    ASSUME NEW c, Sound(c, {}), NEW x \in Resource,
           NEW s \in {c.subs, SubscribeTo(c.subs, x), UnsubscribeFrom(c.subs, x)},
           NEW dn \in DnsUpdates, c.dns.add \subseteq dn.add
    PROVE  LET t == [subs |-> s, data |-> c.data, dns |-> dn]
           IN  Sound(t, {}) /\ Keeps(c, t)
<1> DEFINE u == [subs |-> s, data |-> c.data, dns |-> c.dns]
           t == [subs |-> s, data |-> c.data, dns |-> dn]
<1>1. c \in Cache /\ GoodGraph(c.subs)
  BY DEF Sound, Good
<1>2. /\ c = [subs |-> c.subs, data |-> c.data, dns |-> c.dns]
      /\ u = [c EXCEPT !.subs = s]
      /\ t = [u EXCEPT !.dns = dn]
  BY <1>1 DEF Cache
<1>3. Sound(u, {})
  <2>1. CASE s = c.subs
    BY <1>2, <2>1
  <2>2. CASE s = SubscribeTo(c.subs, x)
    BY <1>2, <2>2, SubscribeSound
  <2>3. CASE s = UnsubscribeFrom(c.subs, x)
    BY <1>2, <2>3, UnsubscribeSound
  <2> QED
    BY <2>1, <2>2, <2>3
<1>4. Sound(t, {})
  BY <1>2, <1>3, DnsSound DEF DnsUpdates
<1>5. GrownGraph(c.subs, s)
  <2>1. GrownGraph(c.subs, c.subs)
    BY DEF GrownGraph
  <2> QED
    BY <1>1, <2>1, SubscribeToGrows, AddRefsGrows
<1>6. Keeps(c, t)
  <2>1. t.subs = s /\ t.data = c.data /\ t.dns = dn
    OBVIOUS
  <2> HIDE DEF t
  <2> QED
    BY <1>5, <2>1 DEF GrownGraph, Keeps
<1> QED
  BY <1>4, <1>6

LEMMA UpdatedForm ==
    ASSUME IInv, NEW u \in Updates
    PROVE  \E x \in Resource, dn \in DnsUpdates :
             \E s \in {subs, SubscribeTo(subs, x), UnsubscribeFrom(subs, x)} :
               /\ Updated(u.op, u.name) = [subs |-> s, data |-> data, dns |-> dn]
               /\ dns.add \subseteq dn.add
               /\ ~(u.op \in {"RemoveBackends", "RemoveEndpoints"} /\ u.name \in Dns)
                    => dn.remove = dns.remove
<1> DEFINE n == u.name
           more == [add |-> dns.add \cup DnsName(n), remove |-> dns.remove]
           fewer == [add |-> dns.add, remove |-> dns.remove \cup DnsName(n)]
<1>1. /\ u.op \in {"AddHosts", "RemoveHosts", "AddBackends", "RemoveBackends",
                   "AddEndpoints", "RemoveEndpoints"}
      /\ n \in Resource
      /\ u.op \in {"AddEndpoints", "RemoveEndpoints"} => n \in Cluster /\ Eds[n] \in Resource
  BY ConnectionConstants, CacheConstants DEF Resource
<1>2. /\ cache = [subs |-> subs, data |-> data, dns |-> dns]
      /\ dns = [add |-> dns.add, remove |-> dns.remove]
      /\ dns \in DnsUpdates
  <2>1. dns \in DnsUpdates
    BY DEF IInv, TypeOK, Cache, cache
  <2> QED
    BY <2>1 DEF cache, DnsUpdates
<1>3. /\ more \in DnsUpdates /\ fewer \in DnsUpdates
      /\ dns.add \subseteq more.add /\ dns.add \subseteq fewer.add
      /\ more.remove = dns.remove
      /\ n \notin Dns => fewer.remove = dns.remove
  BY <1>2 DEF DnsUpdates, DnsName
<1>4. CASE u.op = "AddHosts"
  <2>1. Updated(u.op, n) = [subs |-> SubscribeTo(subs, n), data |-> data, dns |-> dns]
    BY <1>2, <1>4 DEF Updated
  <2> QED
    BY <1>1, <1>2, <2>1
<1>5. CASE u.op = "RemoveHosts"
  <2>1. Updated(u.op, n) = [subs |-> UnsubscribeFrom(subs, n), data |-> data, dns |-> dns]
    BY <1>2, <1>5 DEF Updated
  <2> QED
    BY <1>1, <1>2, <2>1
<1>6. CASE u.op = "AddBackends"
  <2>1. Updated(u.op, n) = [subs |-> SubscribeTo(subs, n), data |-> data, dns |-> more]
    BY <1>2, <1>6 DEF Updated
  <2> QED
    BY <1>1, <1>3, <2>1
<1>7. CASE u.op = "RemoveBackends"
  <2>1. Updated(u.op, n) = [subs |-> UnsubscribeFrom(subs, n), data |-> data, dns |-> fewer]
    BY <1>2, <1>7 DEF Updated
  <2> QED
    BY <1>1, <1>3, <1>7, <2>1
<1>8. CASE u.op = "AddEndpoints"
  <2>1. CASE n \in Dns
    <3>1. Updated(u.op, n) = [subs |-> subs, data |-> data, dns |-> more]
      BY <1>2, <1>8, <2>1 DEF Updated, DnsName
    <3> QED
      BY <1>1, <1>3, <3>1
  <2>2. CASE n \notin Dns
    <3>1. Updated(u.op, n) = [subs |-> SubscribeTo(subs, Eds[n]), data |-> data, dns |-> dns]
      BY <1>2, <1>8, <2>2 DEF Updated
    <3> QED
      BY <1>1, <1>2, <1>8, <3>1
  <2> QED
    BY <2>1, <2>2
<1>9. CASE u.op = "RemoveEndpoints"
  <2>1. CASE n \in Dns
    <3>1. Updated(u.op, n) = [subs |-> subs, data |-> data, dns |-> fewer]
      BY <1>2, <1>9, <2>1 DEF Updated, DnsName
    <3> QED
      BY <1>1, <1>3, <1>9, <2>1, <3>1
  <2>2. CASE n \notin Dns
    <3>1. Updated(u.op, n) = [subs |-> UnsubscribeFrom(subs, Eds[n]), data |-> data, dns |-> dns]
      BY <1>2, <1>9, <2>2 DEF Updated
    <3> QED
      BY <1>1, <1>2, <1>9, <3>1
  <2> QED
    BY <2>1, <2>2
<1> QED
  BY <1>1, <1>4, <1>5, <1>6, <1>7, <1>8, <1>9

LEMMA UpdateStep ==
    ASSUME IInv, NEW u \in Updates, HandleSubscriptionUpdate(u)
    PROVE  /\ BatchStep
           /\ ~(u.op \in {"RemoveBackends", "RemoveEndpoints"} /\ u.name \in Dns)
                => dns'.remove = dns.remove
<1> DEFINE t == Updated(u.op, u.name)
<1>1. PICK x \in Resource, dn \in DnsUpdates :
        \E s \in {subs, SubscribeTo(subs, x), UnsubscribeFrom(subs, x)} :
          /\ t = [subs |-> s, data |-> data, dns |-> dn]
          /\ dns.add \subseteq dn.add
          /\ ~(u.op \in {"RemoveBackends", "RemoveEndpoints"} /\ u.name \in Dns)
               => dn.remove = dns.remove
  BY UpdatedForm
<1>2. PICK s \in {subs, SubscribeTo(subs, x), UnsubscribeFrom(subs, x)} :
        t = [subs |-> s, data |-> data, dns |-> dn]
  BY <1>1
<1>3. Become(t)
  BY DEF HandleSubscriptionUpdate
<1> HIDE DEF t
<1>4. Sound(cache, {}) /\ cache.subs = subs /\ cache.data = data /\ cache.dns = dns
  BY DEF IInv, cache
<1>5. Sound(t, {}) /\ Keeps(cache, t)
  BY <1>1, <1>2, <1>4, UpdateSound
<1>6. cache' = t
  BY <1>3, <1>5, BecomeFacts
<1>7. dns' = dn
  BY <1>2, <1>3 DEF Become
<1> QED
  BY <1>1, <1>5, <1>6, <1>7 DEF BatchStep, HandleSubscriptionUpdate, resolverVars, serverVars

LEMMA UpdateIInv == \A u \in Updates : IInv /\ HandleSubscriptionUpdate(u) => IInv'
<1> SUFFICES ASSUME NEW u \in Updates, IInv, HandleSubscriptionUpdate(u) PROVE IInv'
  OBVIOUS
<1>1. BatchStep
  BY UpdateStep
<1>2. /\ phase = "reading" /\ phase' = "reading" /\ batch' = TRUE
      /\ UNCHANGED <<out, dnsOut, pinned, listed, tracked, unanswered, overtaken, incoming,
                     acks, unknown>>
      /\ Sound(cache', {})
  BY <1>1 DEF BatchStep, HandleSubscriptionUpdate, serverVars
<1>3. WildcardNodes' /\ RequestsFit' /\ AskedOrPending' /\ TrackedOrLeaving'
  BY <1>1, BatchKeeps
<1>4. TypeOK'
  BY <1>2 DEF IInv, TypeOK, Sound, Good
<1>5. DownIsEmpty' /\ IncomingFits' /\ AnswerPending'
  BY <1>2 DEF IInv, DownIsEmpty, IncomingFits, AnswerPending, HandledLast, AnsweredBy
<1> QED
  BY <1>2, <1>3, <1>4, <1>5 DEF IInv

-----------------------------------------------------------------------------
(* The flush and the sends *)

LEMMA ChangeRequestsFacts ==
    ASSUME IInv, NEW added \in SUBSET Resource, NEW removed \in SUBSET Resource
    PROVE  LET requests == ChangeRequests(added, removed) IN
           /\ requests \in Seq(Request)
           /\ \A q \in ToSet(requests) : \E t \in Type : q = ChangeRequest(t, added, removed)
           /\ \A t \in Type : LET q == ChangeRequest(t, added, removed) IN
                q.ack # None \/ q.add # {} \/ q.remove # {} => q \in ToSet(requests)
<1> DEFINE request == [t \in Type |-> ChangeRequest(t, added, removed)]
           needed == [t \in Type |-> \/ ChangeRequest(t, added, removed).ack # None
                                     \/ ChangeRequest(t, added, removed).add # {}
                                     \/ ChangeRequest(t, added, removed).remove # {}]
           requests == ChangeRequests(added, removed)
<1>1. ASSUME NEW t \in Type
      PROVE  ChangeRequest(t, added, removed) \in Request
  BY DEF IInv, TypeOK, ChangeRequest, Request
<1>2. request \in [Type -> Request] /\ needed \in [Type -> BOOLEAN]
  BY <1>1
<1>3. requests = InEveryType([t \in Type |-> Optional(request[t], needed[t])])
  BY DEF ChangeRequests
<1>4. /\ requests \in Seq(Request)
      /\ ToSet(requests) = {request[t] : t \in {u \in Type : needed[u]}}
  <2> HIDE DEF request, needed, requests
  <2> QED
    BY <1>2, <1>3, RequestsInEveryType
<1> HIDE DEF requests
<1> QED
  BY <1>4 DEF requests

LEMMA UnknownTypeRequestsFacts ==
    ASSUME IInv
    PROVE  /\ UnknownTypeRequests \in Seq(Request)
           /\ ToSet(UnknownTypeRequests) = {UnknownTypeRequest(n) : n \in ToSet(unknown)}
<1>1. unknown \in Seq(Nonce) /\ DOMAIN unknown = 1..Len(unknown) /\ Len(unknown) \in Nat
  BY DEF IInv, TypeOK
<1>2. \A n \in Nonce : UnknownTypeRequest(n) \in Request
  BY DEF UnknownTypeRequest, Request, Ack
<1>3. /\ DOMAIN UnknownTypeRequests = 1..Len(unknown)
      /\ \A i \in 1..Len(unknown) :
            UnknownTypeRequests[i] = UnknownTypeRequest(unknown[i]) /\ unknown[i] \in Nonce
  BY <1>1 DEF UnknownTypeRequests
<1>4. UnknownTypeRequests \in [1..Len(unknown) -> Request]
  BY <1>1, <1>2, <1>3 DEF UnknownTypeRequests
<1>5. UnknownTypeRequests \in Seq(Request)
  BY <1>1, <1>4
<1> QED
  BY <1>1, <1>3, <1>5 DEF ToSet

\* What a flush leaves: the cache is collected, and there is a request for
\* every change, and for every verdict.
LEMMA OutgoingFacts ==
    ASSUME IInv, Outgoing
    PROVE  LET collected == CollectCache(cache) IN
           /\ cache' = collected.cache /\ Sound(cache', {})
           /\ out' \in Seq(Request)
           /\ \A q \in ToSet(out') : ~q.wild /\ q.versions = {}
           /\ \A q \in ToSet(out') : q.add \subseteq collected.added
                                     /\ q.remove \subseteq collected.removed
                                     /\ q.add \cap collected.removed \subseteq q.remove
           /\ \A r \in collected.added : \E q \in ToSet(out') : r \in q.add
           /\ \A r \in collected.removed : \E q \in ToSet(out') : r \in q.remove
           /\ \A u \in unanswered :
                u \in HandledLast(u.type) \/ (u.type = "unknown" /\ u.nonce \in ToSet(unknown))
                  => \E q \in ToSet(out') : u \in AnsweredBy(q)
<1> DEFINE collected == CollectCache(cache)
           added == collected.added
           removed == collected.removed
           first == UnknownTypeRequests
           rest == ChangeRequests(added, removed)
<1>1. Sound(collected.cache, {})
  BY CollectSound DEF IInv
<1>2. Become(collected.cache) /\ out' = first \o rest
  BY DEF Outgoing
<1>3. cache' = collected.cache
  BY <1>1, <1>2, BecomeFacts
<1>4. added \subseteq Resource /\ removed \subseteq Resource
  <2>1. /\ added = cache.subs.added
        /\ removed = cache.subs.nodes \ collected.cache.subs.nodes
        /\ cache.subs \in Graph
    BY CollectFacts DEF IInv, Sound, Good, GoodGraph
  <2> HIDE DEF collected
  <2> QED
    BY <2>1 DEF Graph
<1> HIDE DEF collected
<1>5. /\ rest \in Seq(Request)
      /\ \A q \in ToSet(rest) : \E t \in Type : q = ChangeRequest(t, added, removed)
      /\ \A t \in Type : LET q == ChangeRequest(t, added, removed) IN
           q.ack # None \/ q.add # {} \/ q.remove # {} => q \in ToSet(rest)
  BY <1>4, ChangeRequestsFacts
<1>6. /\ first \in Seq(Request)
      /\ ToSet(first) = {UnknownTypeRequest(n) : n \in ToSet(unknown)}
  BY UnknownTypeRequestsFacts
<1> HIDE DEF first, rest
<1>7. out' \in Seq(Request) /\ ToSet(out') = ToSet(first) \cup ToSet(rest)
  BY <1>2, <1>5, <1>6, ConcatElements
<1>8. ASSUME NEW t \in Type
      PROVE  LET q == ChangeRequest(t, added, removed) IN
             /\ ~q.wild /\ q.versions = {} /\ q.type = t /\ q.ack = acks[t]
             /\ q.add = added \cap OfType(t) /\ q.remove = removed \cap OfType(t)
  BY DEF ChangeRequest
<1>9. ASSUME NEW q \in ToSet(out')
      PROVE  /\ ~q.wild /\ q.versions = {}
             /\ q.add \subseteq added /\ q.remove \subseteq removed
             /\ q.add \cap removed \subseteq q.remove
  <2>1. CASE q \in ToSet(first)
    BY <1>6, <2>1 DEF UnknownTypeRequest
  <2>2. CASE q \in ToSet(rest)
    BY <1>5, <1>8, <2>2
  <2> QED
    BY <1>7, <2>1, <2>2
<1>10. ASSUME NEW r \in added
       PROVE  \E q \in ToSet(out') : r \in q.add
  <2>1. r \in Resource /\ TypeOf(r) \in Type /\ r \in OfType(TypeOf(r))
    BY <1>4, TypeOfFacts
  <2> DEFINE q == ChangeRequest(TypeOf(r), added, removed)
  <2>2. r \in q.add
    BY <1>8, <2>1
  <2>3. q \in ToSet(rest)
    BY <1>5, <2>1, <2>2
  <2> QED
    BY <1>7, <2>2, <2>3
<1>11. ASSUME NEW r \in removed
       PROVE  \E q \in ToSet(out') : r \in q.remove
  <2>1. r \in Resource /\ TypeOf(r) \in Type /\ r \in OfType(TypeOf(r))
    BY <1>4, TypeOfFacts
  <2> DEFINE q == ChangeRequest(TypeOf(r), added, removed)
  <2>2. r \in q.remove
    BY <1>8, <2>1
  <2>3. q \in ToSet(rest)
    BY <1>5, <2>1, <2>2
  <2> QED
    BY <1>7, <2>2, <2>3
<1>12. ASSUME NEW u \in unanswered, u \in HandledLast(u.type)
       PROVE  \E q \in ToSet(out') : u \in AnsweredBy(q)
  <2> DEFINE q == ChangeRequest(u.type, added, removed)
  <2>1. /\ u \in Sent /\ u = [type |-> u.type, nonce |-> u.nonce]
        /\ u.type \in Type /\ acks[u.type] # None /\ acks[u.type].nonce = u.nonce
    BY <1>12 DEF HandledLast, Sent
  <2>2. q.type = u.type /\ q.ack = acks[u.type]
    BY <1>8, <2>1
  <2>3. q \in ToSet(rest)
    BY <1>5, <2>1, <2>2
  <2> HIDE DEF q
  <2>4. u \in AnsweredBy(q)
    BY <2>1, <2>2 DEF AnsweredBy
  <2> QED
    BY <1>7, <2>3, <2>4
<1>13. ASSUME NEW u \in unanswered, u.type = "unknown" /\ u.nonce \in ToSet(unknown)
       PROVE  \E q \in ToSet(out') : u \in AnsweredBy(q)
  <2> DEFINE q == UnknownTypeRequest(u.nonce)
  <2>1. u \in Sent /\ u = [type |-> "unknown", nonce |-> u.nonce] /\ u.nonce \in Nonce
    BY <1>13 DEF IInv, TypeOK, Sent
  <2>2. q.type = "unknown" /\ q.ack = [nonce |-> u.nonce, error |-> TRUE]
    BY DEF UnknownTypeRequest
  <2>3. q \in ToSet(out')
    BY <1>6, <1>7, <1>13
  <2> HIDE DEF q
  <2>4. q.ack # None /\ q.ack.nonce = u.nonce
    <3>1. q.ack \in Ack
      BY <2>1, <2>2 DEF Ack
    <3>2. None \notin Ack
      BY ConnectionConstants
    <3>3. q.ack.nonce = u.nonce
      BY <2>2
    <3> QED
      BY <3>1, <3>2, <3>3
  <2>5. u \in AnsweredBy(q)
    BY <2>1, <2>2, <2>4 DEF AnsweredBy
  <2> QED
    BY <2>3, <2>5
<1> QED
  BY <1>1, <1>3, <1>7, <1>9, <1>10, <1>11, <1>12, <1>13 DEF collected

LEMMA OutgoingIInv == IInv /\ Outgoing => IInv'
<1> SUFFICES ASSUME IInv, Outgoing PROVE IInv'
  OBVIOUS
<1> DEFINE collected == CollectCache(cache)
           t == collected.cache
<1>1. /\ phase = "reading" /\ phase' = "sending" /\ batch /\ batch' = FALSE
      /\ acks' = NoAcks /\ unknown' = <<>>
      /\ dnsOut' = collected.dns
      /\ UNCHANGED <<incoming, pinned, listed, tracked, unanswered, overtaken>>
  BY DEF Outgoing, resolverVars, serverVars
<1>2. /\ cache.subs = subs /\ cache.data = data
      /\ cache'.subs = subs' /\ cache'.data = data'
  BY DEF cache
<1>3. /\ cache' = t /\ Sound(cache', {})
      /\ out' \in Seq(Request)
      /\ \A q \in ToSet(out') : ~q.wild /\ q.versions = {}
      /\ \A q \in ToSet(out') : q.add \subseteq collected.added
                                /\ q.remove \subseteq collected.removed
                                /\ q.add \cap collected.removed \subseteq q.remove
      /\ \A r \in collected.added : \E q \in ToSet(out') : r \in q.add
      /\ \A r \in collected.removed : \E q \in ToSet(out') : r \in q.remove
      /\ \A u \in unanswered :
           u \in HandledLast(u.type) \/ (u.type = "unknown" /\ u.nonce \in ToSet(unknown))
             => \E q \in ToSet(out') : u \in AnsweredBy(q)
  BY OutgoingFacts
<1>4. /\ t.subs.nodes \subseteq subs.nodes
      /\ t.subs.wildcard \subseteq subs.wildcard
      /\ collected.added = subs.added
      /\ collected.removed = subs.nodes \ t.subs.nodes
      /\ \A r \in Resource \ collected.removed : t.data[r] = data[r]
      /\ collected.dns \in DnsUpdates
      /\ subs.added \subseteq subs.nodes
  BY <1>2, CollectFacts DEF IInv, Sound, Good, GoodGraph
<1> HIDE DEF collected
<1>5. subs' = t.subs /\ data' = t.data
  BY <1>2, <1>3
<1>6. TypeOK'
  BY <1>1, <1>3, <1>4, EmptyTypes DEF IInv, TypeOK, Sound, Good
<1>7. WildcardNodes' /\ DownIsEmpty' /\ IncomingFits'
  BY <1>1, <1>4, <1>5 DEF IInv, WildcardNodes, DownIsEmpty, IncomingFits, NoAcks
<1>8. RequestsFit'
  <2>1. ASSUME NEW q \in ToSet(out')
        PROVE  /\ q.remove \cap subs'.nodes = {}
               /\ q.add \cup q.versions \subseteq subs'.nodes \cup q.remove
               /\ ~q.wild
    BY <1>3, <1>4, <1>5
  <2> QED
    BY <2>1 DEF RequestsFit
<1>9. AskedOrPending'
  <2>1. ASSUME NEW r \in Named \cap subs'.nodes
        PROVE  Settled(r)' \/ \E q \in ToSet(out') : r \in q.add
    <3>1. r \in subs.nodes /\ r \in Resource \ collected.removed
      BY <1>4, <1>5 DEF Named
    <3>2. Settled(r) \/ r \in subs.added
      <4>1. \A q \in ToSet(out) : FALSE
        BY <1>1, EmptyElements DEF IInv, TypeOK
      <4> QED
        BY <1>1, <3>1, <4>1 DEF IInv, AskedOrPending
    <3>3. data'[r] = data[r]
      BY <1>4, <1>5, <3>1
    <3>4. Settled(r) => Settled(r)'
      BY <1>1, <3>3 DEF Settled, HasData, HasEntry
    <3> QED
      BY <1>3, <1>4, <3>2, <3>4
  <2> QED
    BY <1>1, <2>1 DEF AskedOrPending
<1>10. TrackedOrLeaving'
  <2>1. ASSUME NEW r \in tracked \cap Named
        PROVE  r \in subs'.nodes \/ \E q \in ToSet(out') : r \in q.remove
    <3>1. r \in subs.nodes
      BY <1>1, EmptyElements DEF IInv, TypeOK, TrackedOrLeaving
    <3> QED
      BY <1>3, <1>4, <1>5, <3>1
  <2> QED
    BY <1>1, <2>1 DEF TrackedOrLeaving
<1>11. AnswerPending'
  <2>1. ASSUME NEW u \in unanswered
        PROVE  \/ u \in overtaken
               \/ \E resp \in ToSet(incoming) : resp.type = u.type /\ resp.nonce = u.nonce
               \/ \E q \in ToSet(out') : u \in AnsweredBy(q)
    <3>1. \A q \in ToSet(out) : FALSE
      BY <1>1, EmptyElements DEF IInv, TypeOK
    <3> QED
      BY <1>3, <3>1 DEF IInv, AnswerPending
  <2> QED
    BY <1>1, <2>1 DEF AnswerPending
<1> QED
  BY <1>3, <1>6, <1>7, <1>8, <1>9, <1>10, <1>11 DEF IInv

LEMMA SendIInv == IInv /\ Send => IInv'
<1> SUFFICES ASSUME IInv, Send PROVE IInv'
  OBVIOUS
<1> DEFINE q == Head(out)
<1>1. /\ phase = "sending" /\ out # <<>> /\ out' = Tail(out)
      /\ UNCHANGED <<subs, data, dns, phase, batch, acks, unknown, dnsOut, incoming,
                     pinned, listed>>
      /\ cache' = cache
  BY DEF Send, cacheVars, resolverVars, cache
<1>2. /\ tracked' = (tracked \cup q.add \cup q.versions
                       \cup (IF q.wild THEN OfType(q.type) ELSE {}))
                    \ (q.remove \cap Named)
      /\ unanswered' = unanswered \ AnsweredBy(q)
      /\ overtaken' = overtaken \ AnsweredBy(q)
  BY DEF Send
<1>3. /\ q \in Request /\ out' \in Seq(Request)
      /\ ToSet(out) = {q} \cup ToSet(out')
  BY <1>1, HeadTailElements DEF IInv, TypeOK
<1> HIDE DEF q
<1>4. /\ q.remove \cap subs.nodes = {}
      /\ (q.add \cup q.versions) \cap Named \subseteq subs.nodes \cup q.remove
      /\ q.wild => OfType(q.type) \subseteq Wildcard
  BY <1>3 DEF IInv, RequestsFit
<1>5. Sound(cache', {})
  BY <1>1 DEF IInv
<1>6. TypeOK'
  <2>1. tracked' \subseteq Resource
    <3>1. Wildcard \subseteq Resource /\ tracked \subseteq Resource
          /\ q.add \subseteq Resource /\ q.versions \subseteq Resource
      BY <1>3 DEF IInv, TypeOK, Wildcard, Resource, Request
    <3> QED
      BY <1>2, <1>4, <3>1
  <2>2. unanswered' \subseteq Sent /\ overtaken' \subseteq {u \in Sent : u.type # "unknown"}
    BY <1>2 DEF IInv, TypeOK
  <2> QED
    BY <1>1, <1>3, <2>1, <2>2 DEF IInv, TypeOK
<1>7. WildcardNodes' /\ DownIsEmpty' /\ IncomingFits'
  BY <1>1 DEF IInv, WildcardNodes, DownIsEmpty, IncomingFits
<1>8. RequestsFit'
  BY <1>1, <1>3 DEF IInv, RequestsFit
<1>9. AskedOrPending'
  <2>1. ASSUME NEW r \in Named \cap subs.nodes
        PROVE  Settled(r)' \/ (\E p \in ToSet(out') : r \in p.add \cup p.versions)
    <3>1. r \notin q.remove
      BY <1>4
    <3>2. Settled(r) \/ \E p \in ToSet(out) : r \in p.add \cup p.versions
      BY <1>1 DEF IInv, AskedOrPending, DownIsEmpty
    <3> QED
      BY <1>1, <1>2, <1>3, <3>1, <3>2 DEF Settled
  <2> QED
    BY <1>1, <2>1 DEF AskedOrPending
<1>10. TrackedOrLeaving'
  <2>1. ASSUME NEW r \in tracked' \cap Named
        PROVE  r \in subs.nodes \/ \E p \in ToSet(out') : r \in p.remove
    <3>1. r \notin q.remove /\ r \notin Wildcard
      BY <1>2 DEF Named
    <3>2. r \in tracked \/ r \in q.add \cup q.versions
      BY <1>2, <1>4, <3>1
    <3> QED
      BY <1>3, <1>4, <3>1, <3>2 DEF IInv, TrackedOrLeaving
  <2> QED
    BY <1>1, <2>1 DEF TrackedOrLeaving
<1>11. AnswerPending'
  <2>1. ASSUME NEW u \in unanswered'
        PROVE  \/ u \in overtaken'
               \/ \E resp \in ToSet(incoming) : resp.type = u.type /\ resp.nonce = u.nonce
               \/ u \in HandledLast(u.type)
               \/ u.type = "unknown" /\ u.nonce \in ToSet(unknown)
               \/ \E p \in ToSet(out') : u \in AnsweredBy(p)
    <3>1. u \in unanswered /\ u \notin AnsweredBy(q)
      BY <1>2
    <3> QED
      BY <1>2, <1>3, <3>1 DEF IInv, AnswerPending
  <2> QED
    BY <1>1, <2>1 DEF AnswerPending, HandledLast, AnsweredBy
<1> QED
  BY <1>5, <1>6, <1>7, <1>8, <1>9, <1>10, <1>11 DEF IInv

LEMMA UpdateDnsIInv == IInv /\ UpdateDns => IInv'
<1> SUFFICES ASSUME IInv, UpdateDns PROVE IInv'
  OBVIOUS
<1>1. /\ phase = "sending" /\ phase' = "reading" /\ out = <<>> /\ out' = <<>>
      /\ dnsOut' = NoDns
      /\ pinned' = (pinned \cup dnsOut.add) \ dnsOut.remove
      /\ listed' = listed \ dnsOut.remove
      /\ UNCHANGED <<subs, data, dns, batch, acks, unknown, incoming, tracked, unanswered,
                     overtaken>>
      /\ cache' = cache
  BY DEF UpdateDns, cacheVars, serverVars, cache
<1>2. Sound(cache', {})
  BY <1>1 DEF IInv
<1>3. TypeOK'
  <2>1. pinned' \subseteq Dns /\ listed' \subseteq Dns
    BY <1>1 DEF IInv, TypeOK, DnsUpdates
  <2> QED
    BY <1>1, <2>1, EmptyTypes DEF IInv, TypeOK
<1>4. WildcardNodes' /\ DownIsEmpty' /\ IncomingFits' /\ RequestsFit'
  BY <1>1 DEF IInv, WildcardNodes, DownIsEmpty, IncomingFits, RequestsFit
<1>5. AskedOrPending' /\ TrackedOrLeaving' /\ AnswerPending'
  BY <1>1 DEF IInv, AskedOrPending, Settled, TrackedOrLeaving, AnswerPending, HandledLast,
              AnsweredBy
<1> QED
  BY <1>2, <1>3, <1>4, <1>5 DEF IInv

-----------------------------------------------------------------------------
(* The server *)

LEMMA DeliverIInv ==
    ASSUME IInv, NEW t \in Type \cup {"unknown"},
           NEW kind \in {"resource", "removed", "undecodable"},
           NEW name \in Resource \cup {None}, NEW xds \in Xds \cup {None},
           Deliver(t, kind, name, xds),
           kind \in {"resource", "removed"} => name \in Resource /\ t \in Type,
           kind = "resource" => xds \in Sends[name],
           kind = "removed" => name \in Deletes
    PROVE  IInv'
<1> DEFINE Resp(n) == [type |-> t, nonce |-> n, kind |-> kind, name |-> name, xds |-> xds]
<1>1. PICK n \in Nonce : /\ incoming' = Append(incoming, Resp(n))
                         /\ unanswered' = unanswered \cup {[type |-> t, nonce |-> n]}
  BY DEF Deliver
<1> DEFINE resp == Resp(n)
           new == [type |-> t, nonce |-> n]
<1>2. /\ phase # "down" /\ Len(incoming) < MaxInFlight
      /\ incoming' = Append(incoming, resp)
      /\ unanswered' = unanswered \cup {new}
      /\ UNCHANGED <<subs, data, dns, phase, batch, acks, unknown, out, dnsOut,
                     pinned, listed, tracked, overtaken>>
      /\ cache' = cache
  BY <1>1 DEF Deliver, cacheVars, connVars, resolverVars, cache
<1>3. /\ resp \in Response /\ new \in Sent
      /\ resp.type = new.type /\ resp.nonce = new.nonce
      /\ resp.kind = kind /\ resp.name = name /\ resp.xds = xds /\ resp.type = t
  BY DEF Response, Sent
<1> HIDE DEF resp, new
<1>4. /\ incoming' \in Seq(Response) /\ Len(incoming') <= MaxInFlight
      /\ ToSet(incoming') = ToSet(incoming) \cup {resp}
  <2>1. incoming \in Seq(Response) /\ Len(incoming) \in Nat
    BY DEF IInv, TypeOK
  <2>2. /\ Append(incoming, resp) \in Seq(Response)
        /\ ToSet(Append(incoming, resp)) = ToSet(incoming) \cup {resp}
        /\ Len(Append(incoming, resp)) = Len(incoming) + 1
    BY <1>3, <2>1, AppendElements
  <2>3. Len(incoming) + 1 <= MaxInFlight
    BY <1>2, <2>1, ConnectionConstants
  <2> QED
    BY <1>2, <2>2, <2>3
<1>5. Sound(cache', {})
  BY <1>2 DEF IInv
<1>6. TypeOK'
  BY <1>2, <1>4, <1>3 DEF IInv, TypeOK
<1>7. WildcardNodes' /\ DownIsEmpty' /\ RequestsFit'
  BY <1>2 DEF IInv, WildcardNodes, DownIsEmpty, RequestsFit
<1>8. IncomingFits'
  BY <1>4, <1>3 DEF IInv, IncomingFits
<1>9. AskedOrPending' /\ TrackedOrLeaving'
  BY <1>2 DEF IInv, AskedOrPending, Settled, TrackedOrLeaving
<1>10. AnswerPending'
  <2>1. ASSUME NEW u \in unanswered
        PROVE  \/ u \in overtaken
               \/ \E p \in ToSet(incoming) : p.type = u.type /\ p.nonce = u.nonce
               \/ u \in HandledLast(u.type)
               \/ u.type = "unknown" /\ u.nonce \in ToSet(unknown)
               \/ \E q \in ToSet(out) : u \in AnsweredBy(q)
    BY DEF IInv, AnswerPending
  <2> QED
    BY <1>2, <1>4, <1>3, <2>1 DEF AnswerPending, HandledLast, AnsweredBy
<1> QED
  BY <1>5, <1>6, <1>7, <1>8, <1>9, <1>10 DEF IInv

LEMMA ServerIInv ==
    /\ \A r \in Resource : IInv /\ (Respond(r) \/ RespondRemoved(r)) => IInv'
    /\ \A t \in Garbled : IInv /\ RespondGarbled(t) => IInv'
<1>1. ASSUME NEW r \in Resource, IInv, Respond(r) PROVE IInv'
  <2>1. PICK xds \in Sends[r] : Deliver(TypeOf(r), "resource", r, xds)
    BY <1>1 DEF Respond
  <2>2. TypeOf(r) \in Type /\ xds \in Xds
    BY TypeOfFacts, CacheConstants DEF Resource, Xds, ListenerForms
  <2> QED
    BY <1>1, <2>1, <2>2, DeliverIInv
<1>2. ASSUME NEW r \in Resource, IInv, RespondRemoved(r) PROVE IInv'
  <2>1. r \in Deletes /\ Deliver(TypeOf(r), "removed", r, None) /\ TypeOf(r) \in Type
    BY <1>2, TypeOfFacts DEF RespondRemoved
  <2> QED
    BY <1>2, <2>1, DeliverIInv
<1>3. ASSUME NEW t \in Garbled, IInv, RespondGarbled(t) PROVE IInv'
  <2>1. Deliver(t, "undecodable", None, None) /\ t \in Type \cup {"unknown"}
    BY <1>3, ConnectionConstants DEF RespondGarbled
  <2> QED
    BY <1>3, <2>1, DeliverIInv
<1> QED
  BY <1>1, <1>2, <1>3

-----------------------------------------------------------------------------
(* The invariants of the connection *)

LEMMA NextIInv == IInv /\ [Next]_vars => IInv'
<1> SUFFICES ASSUME IInv, [Next]_vars PROVE IInv'
  OBVIOUS
<1>1. CASE UNCHANGED vars
  BY <1>1 DEF vars, cacheVars, connVars, resolverVars, serverVars, cache, IInv, TypeOK,
              WildcardNodes, DownIsEmpty, IncomingFits, RequestsFit, AskedOrPending,
              Settled, TrackedOrLeaving, AnswerPending, HandledLast, AnsweredBy
<1> QED
  BY <1>1, ConnectIInv, HandleAdsMessageIInv, OutgoingIInv, SendIInv, UpdateDnsIInv,
     DisconnectIInv, UpdateIInv, ServerIInv DEF Next

\* The inductive invariant holds in every reachable state.
THEOREM ConnectionInvariant == Spec => []IInv
  BY InitIInv, NextIInv, PTL DEF Spec

LEMMA IInvProps ==
    IInv => TypeOK /\ MissingAreAskedFor /\ NothingLeaked /\ AnsweredUnlessOvertaken
<1> SUFFICES ASSUME IInv
             PROVE  TypeOK /\ MissingAreAskedFor /\ NothingLeaked /\ AnsweredUnlessOvertaken
  OBVIOUS
<1>1. ASSUME Quiet
      PROVE  /\ \A q \in ToSet(out) : FALSE
             /\ \A resp \in ToSet(incoming) : FALSE
             /\ phase # "down" /\ ~batch
             /\ unknown = <<>> /\ ToSet(unknown) = {} /\ \A t \in Type : acks[t] = None
  BY <1>1, EmptyElements DEF IInv, TypeOK, Quiet, DownIsEmpty
<1>2. TypeOK
  BY DEF IInv
<1>3. MissingAreAskedFor
  BY <1>1 DEF IInv, AskedOrPending, Settled, MissingAreAskedFor
<1>4. NothingLeaked
  BY <1>1 DEF IInv, TrackedOrLeaving, NothingLeaked
<1>5. AnsweredUnlessOvertaken
  <2> SUFFICES ASSUME Quiet, NEW u \in unanswered
               PROVE  u \in overtaken /\ u.type # "unknown"
    BY DEF AnsweredUnlessOvertaken
  <2>1. u \notin HandledLast(u.type)
    BY <1>1 DEF HandledLast
  <2>2. u \in overtaken
    BY <1>1, <2>1 DEF IInv, AnswerPending
  <2> QED
    BY <2>2 DEF IInv, TypeOK
<1> QED
  BY <1>2, <1>3, <1>4, <1>5

\* Every variable keeps its type, and nothing waits to be sent but while the
\* task sends.
THEOREM TypesKept == Spec => []TypeOK
  BY ConnectionInvariant, IInvProps, PTL

\* What the client wants by name and does not have, the server was asked for,
\* or has said it is gone: for any number of responses under way, through
\* broken streams, late responses, rejected contents and collections.
THEOREM MissingAsked == Spec => []MissingAreAskedFor
  BY ConnectionInvariant, IInvProps, PTL

\* The server sends nothing by name that the client does not want any more.
THEOREM NothingLeaks == Spec => []NothingLeaked
  BY ConnectionInvariant, IInvProps, PTL

\* Every response gets an ack or a nack of its own, the ones that do not decode
\* and each one of an unknown type too, but for those that another response of
\* their type followed in the batch that handled them: for any number of
\* responses under way, batches of any length, and broken streams.
THEOREM ResponsesAnswered == Spec => []AnsweredUnlessOvertaken
  BY ConnectionInvariant, IInvProps, PTL

-----------------------------------------------------------------------------
(* The names the resolver resolves *)

\* No client takes back the interest in a DNS name.  There is an update for it
\* (xds.rs:88-90) and nothing in the crate that sends it.
NoDnsTakenBack ==
    \A u \in Updates : u.op \in {"RemoveBackends", "RemoveEndpoints"} => u.name \notin Dns

\* A DNS cluster with content is resolved, or the resolver is about to be told
\* of it and of nothing that undoes it.
DnsPending ==
    /\ dns.remove = {}
    /\ phase # "down" =>
          \A c \in Dns : HasData(data, c) =>
              /\ c \in pinned \cup listed \cup dnsOut.add \/ (batch /\ c \in dns.add)
              /\ c \notin dnsOut.remove

LEMMA BatchKeepsDns ==
    ASSUME IInv, DnsPending, BatchStep, dns'.remove = dns.remove
    PROVE  DnsPending'
<1>1. /\ cache.data = data /\ cache.dns = dns
      /\ cache'.data = data' /\ cache'.dns = dns'
  BY DEF cache
<1>2. /\ phase = "reading" /\ phase' = "reading" /\ batch'
      /\ dnsOut = NoDns /\ dnsOut' = NoDns
      /\ UNCHANGED <<pinned, listed>>
  BY DEF BatchStep, IInv, TypeOK
<1>3. \A c \in Dns : HasData(data, c) => c \in pinned \cup listed \cup dns.add
  BY <1>2 DEF DnsPending, NoDns
<1>4. \A c \in Dns : HasData(data', c) => c \in pinned \cup listed \cup dns'.add
  <2>1. CASE Keeps(cache, cache')
    BY <1>1, <1>3, <2>1 DEF Keeps
  <2>2. ASSUME NEW stays, NEW d \in Deletes, cache' = RemoveResource(cache, d, stays)
        PROVE  \A c \in Dns : HasData(data', c) => c \in pinned \cup listed \cup dns'.add
    <3>1. /\ dns' = dns /\ ~HasData(data', d)
          /\ \A q \in Resource \ {d} : data'[q] = data[q]
      BY <1>1, <2>2, CacheConstants, RemoveFacts DEF IInv
    <3>2. \A c \in Dns : HasData(data', c) => HasData(data, c)
      BY <3>1, CacheConstants DEF Resource, HasData, HasEntry
    <3> QED
      BY <1>3, <3>1, <3>2
  <2> QED
    BY <2>1, <2>2 DEF BatchStep
<1> QED
  BY <1>2, <1>4 DEF DnsPending, NoDns

LEMMA NextDnsPending ==
    NoDnsTakenBack => (IInv /\ DnsPending /\ [Next]_vars => DnsPending')
<1> SUFFICES ASSUME NoDnsTakenBack, IInv, DnsPending, [Next]_vars PROVE DnsPending'
  OBVIOUS
<1>1. CASE Connect
  <2>1. /\ listed' = {c \in Dns : HasData(data, c)} /\ dnsOut' = NoDns
        /\ UNCHANGED <<data, dns>>
    BY <1>1 DEF Connect, cacheVars
  <2> QED
    BY <2>1 DEF DnsPending, NoDns
<1>2. CASE Disconnect
  BY <1>2 DEF Disconnect, cacheVars, DnsPending
<1>3. CASE HandleAdsMessage
  BY <1>3, HandleAdsMessageStep, BatchKeepsDns
<1>4. ASSUME NEW u \in Updates, HandleSubscriptionUpdate(u) PROVE DnsPending'
  BY <1>4, UpdateStep, BatchKeepsDns DEF NoDnsTakenBack
<1>5. CASE Outgoing
  <2> DEFINE collected == CollectCache(cache)
             t == collected.cache
  <2>1. /\ phase = "reading" /\ batch /\ dnsOut = NoDns /\ dnsOut' = collected.dns
        /\ UNCHANGED <<pinned, listed>>
        /\ cache' = t /\ cache'.data = data' /\ cache'.dns = dns'
        /\ cache.data = data /\ cache.dns = dns
        /\ Sound(t, {})
    BY <1>5, OutgoingFacts DEF Outgoing, resolverVars, IInv, TypeOK, cache
  <2>2. /\ \A r \in Resource : HasData(t.data, r) => HasData(data, r)
        /\ t.dns = NoDns
        /\ collected.dns.add = dns.add
        /\ collected.dns.remove =
             dns.remove \cup {d \in collected.removed \cap Dns : HasData(data, d)}
        /\ collected.removed = cache.subs.nodes \ t.subs.nodes
    BY <2>1, CollectFacts DEF IInv
  <2> HIDE DEF collected
  <2>3. ASSUME NEW c \in Dns, HasData(data', c)
        PROVE  c \in pinned \cup listed \cup dnsOut'.add /\ c \notin dnsOut'.remove
    <3>1. c \in Resource
      BY CacheConstants DEF Resource
    <3>2. HasData(data, c)
      BY <2>1, <2>2, <2>3, <3>1
    <3>3. c \in pinned \cup listed \cup dns.add
      BY <2>1, <3>2 DEF DnsPending, NoDns
    <3>4. c \in t.subs.nodes
      BY <2>1, <2>3, <3>1 DEF Sound, Good
    <3> QED
      BY <2>1, <2>2, <3>3, <3>4 DEF DnsPending
  <2> QED
    BY <2>1, <2>2, <2>3 DEF DnsPending, NoDns
<1>6. CASE Send
  BY <1>6 DEF Send, cacheVars, resolverVars, DnsPending
<1>7. CASE UpdateDns
  <2>1. /\ phase = "sending" /\ ~batch
        /\ pinned' = (pinned \cup dnsOut.add) \ dnsOut.remove
        /\ listed' = listed \ dnsOut.remove
        /\ dnsOut' = NoDns
        /\ UNCHANGED <<data, dns>>
    BY <1>7 DEF UpdateDns, cacheVars, IInv, DownIsEmpty
  <2> QED
    BY <2>1 DEF DnsPending, NoDns
<1>8. ASSUME NEW t, NEW kind, NEW name, NEW xds, Deliver(t, kind, name, xds)
      PROVE  DnsPending'
  BY <1>8 DEF Deliver, cacheVars, connVars, resolverVars, DnsPending
<1>9. CASE UNCHANGED vars
  BY <1>9 DEF vars, cacheVars, connVars, resolverVars, DnsPending
<1> QED
  BY <1>1, <1>2, <1>3, <1>4, <1>5, <1>6, <1>7, <1>8, <1>9
     DEF Next, Respond, RespondRemoved, RespondGarbled

\* While no client takes DNS names back, the resolver resolves every DNS cluster
\* in cache: what the resolver was not told when a stream broke it is told when
\* the next one is up, and a collection in the same batch undoes nothing.
THEOREM DnsResolved ==
    ASSUME NoDnsTakenBack
    PROVE  Spec => []DnsClustersResolved
<1>1. Init => DnsPending
  BY DEF Init, EmptyCache, NoDns, DnsPending
<1>2. IInv /\ DnsPending /\ [Next]_vars => DnsPending'
  BY NextDnsPending
<1>3. IInv /\ DnsPending => DnsClustersResolved
  <2> SUFFICES ASSUME IInv, DnsPending, Quiet
               PROVE  {c \in Dns : HasData(data, c)} \subseteq pinned \cup listed
    BY DEF DnsClustersResolved
  <2>1. phase = "reading" /\ ~batch /\ dnsOut = NoDns
    BY DEF Quiet, IInv, TypeOK
  <2> QED
    BY <2>1 DEF DnsPending, NoDns
<1> QED
  BY <1>1, <1>2, <1>3, ConnectionInvariant, PTL DEF Spec

=============================================================================
