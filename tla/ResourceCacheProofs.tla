------------------------ MODULE ResourceCacheProofs ------------------------
(***************************************************************************)
(* Proofs about ResourceCache, for every choice of resources and contents. *)
(***************************************************************************)
EXTENDS ResourceCache, CacheStateProofs

-----------------------------------------------------------------------------
(* The state machine *)

IInv == Sound(cache, {})

LEMMA InitSound == Init => IInv
<1> SUFFICES ASSUME Init PROVE IInv
  OBVIOUS
<1>1. cache = EmptyCache
  BY DEF Init, cache, EmptyCache
<1> QED
  BY <1>1, EmptySound DEF IInv

LEMMA BecomeSound ==
    ASSUME NEW c, Sound(c, {}), Become(c)
    PROVE  IInv' /\ cache' = c
<1>1. c = [subs |-> c.subs, data |-> c.data, dns |-> c.dns]
  BY DEF Sound, Good, Cache
<1>2. cache' = c
  BY <1>1 DEF Become, cache
<1> QED
  BY <1>2 DEF IInv

LEMMA NextSound == IInv /\ [Next]_vars => IInv'
<1> SUFFICES ASSUME IInv, [Next]_vars PROVE IInv'
  OBVIOUS
<1>1. Sound(cache, {}) /\ cache \in Cache
  BY DEF IInv, Sound, Good
<1>2. ASSUME NEW r \in Resource, Subscribe(r) PROVE IInv'
  BY <1>1, <1>2, SubscribeSound, BecomeSound DEF Subscribe
<1>3. ASSUME NEW r \in Resource, Unsubscribe(r) PROVE IInv'
  BY <1>1, <1>3, UnsubscribeSound, BecomeSound DEF Unsubscribe
<1>4. ASSUME NEW r \in Resource, SubscribeDns(r) PROVE IInv'
  <2> DEFINE dn == [cache.dns EXCEPT !.add = @ \cup {r}]
  <2>1. dn \in [add : SUBSET Dns, remove : SUBSET Dns]
    BY <1>1, <1>4 DEF Cache, DnsUpdates, SubscribeDns
  <2>2. Become([cache EXCEPT !.dns = dn])
    BY <1>4 DEF SubscribeDns
  <2> QED
    BY <1>1, <2>1, <2>2, DnsSound, BecomeSound
<1>5. ASSUME NEW r \in Resource, UnsubscribeDns(r) PROVE IInv'
  <2> DEFINE dn == [cache.dns EXCEPT !.remove = @ \cup {r}]
  <2>1. dn \in [add : SUBSET Dns, remove : SUBSET Dns]
    BY <1>1, <1>5 DEF Cache, DnsUpdates, UnsubscribeDns
  <2>2. Become([cache EXCEPT !.dns = dn])
    BY <1>5 DEF UnsubscribeDns
  <2> QED
    BY <1>1, <2>1, <2>2, DnsSound, BecomeSound
<1>6. ASSUME NEW r \in Resource, NEW xds \in Sends[r], Insert(r, xds) PROVE IInv'
  <2>1. PICK stays : Become(Inserted(cache, r, xds, stays))
    BY <1>6 DEF Insert
  <2> QED
    BY <1>1, <2>1, InsertedSound, BecomeSound
<1>7. ASSUME NEW r \in Resource, Remove(r) PROVE IInv'
  <2>1. PICK stays : Become(RemoveResource(cache, r, stays))
    BY <1>7 DEF Remove
  <2> QED
    BY <1>1, <2>1, RemoveSound, BecomeSound
<1>8. CASE Collect
  BY <1>1, <1>8, CollectSound, BecomeSound DEF Collect
<1>9. CASE UNCHANGED vars
  <2>1. cache' = cache
    BY <1>9 DEF vars, cache
  <2> QED
    BY <2>1, <1>1 DEF IInv
<1> QED
  BY <1>2, <1>3, <1>4, <1>5, <1>6, <1>7, <1>8, <1>9 DEF Next

\* The inductive invariant holds in every reachable state.
THEOREM InductiveInvariant == Spec => []IInv
  BY InitSound, NextSound, PTL DEF Spec

LEMMA IInvProps ==
    IInv => TypeOK /\ DataHasSubscription /\ AddedHasNoData /\ LinkedWhenClean
<1> SUFFICES ASSUME IInv
             PROVE  TypeOK /\ DataHasSubscription /\ AddedHasNoData /\ LinkedWhenClean
  OBVIOUS
<1>1. /\ cache.subs = subs /\ cache.data = data
      /\ Good(cache)
      /\ \A r \in Resource : CleanLinked(cache, r)
  BY DEF IInv, Sound, cache
<1>2. TypeOK
  BY <1>1 DEF Good, GoodGraph, TypeOK
<1>3. DataHasSubscription /\ AddedHasNoData
  BY <1>1, <1>2 DEF Good, DataHasSubscription, AddedHasNoData, TypeOK, Cache, Graph
<1>4. LinkedWhenClean
  BY <1>1 DEF CleanLinked, LinkedWhenClean
<1> QED
  BY <1>2, <1>3, <1>4

\* Whatever calls the owner of the cache makes, in whatever order and for
\* whatever resources, the cache keeps its types and its graph is closed.
THEOREM TypeCorrect == Spec => []TypeOK
  BY InductiveInvariant, IInvProps, PTL

\* No content is cached that the collector could not find.
THEOREM NothingUntracked == Spec => []DataHasSubscription
  BY InductiveInvariant, IInvProps, PTL

\* A subscription is reported as new only while it has no content.
THEOREM AddedAreMissing == Spec => []AddedHasNoData
  BY InductiveInvariant, IInvProps, PTL

\* The graph has every reference of an entry whose last update was good.
THEOREM CleanEntriesLinked == Spec => []LinkedWhenClean
  BY InductiveInvariant, IInvProps, PTL

LEMMA CollectStep ==
    ASSUME IInv, Collect, NEW r \in Resource, HasData(data, r), ~HasData(data', r)
    PROVE  /\ r \notin Roots(subs)
           /\ \A p \in Resource :
                HasData(data', p) /\ ~data[p].error => r \notin Refs(data, p)
<1> DEFINE live == Reachable(subs)
           gone == Collected(subs).removed
<1>1. /\ cache.subs = subs /\ cache.data = data
      /\ Good(cache) /\ GoodGraph(subs) /\ data \in DataSet /\ subs \in Graph
      /\ \A p \in Resource : CleanLinked(cache, p)
  BY DEF IInv, Sound, Good, cache, Cache, DataSet, GoodGraph
<1>2. data' = RemoveAll(data, gone)
  BY <1>1 DEF Collect, Become, CollectCache
<1>3. gone = subs.nodes \ live
  BY <1>1 DEF Collected, Graph, GoodGraph
<1>4. Roots(subs) \subseteq live /\ Closed(subs, live)
  BY <1>1, ReachableFacts
<1>5. \A p \in Resource : HasData(data', p) => p \in live /\ HasData(data, p)
  <2>1. ASSUME NEW p \in Resource, HasData(data', p)
        PROVE  p \in live /\ HasData(data, p)
    <3>1. p \notin gone /\ data'[p] = data[p]
      BY <1>1, <1>2, <2>1, RemoveAllFacts
    <3>2. HasData(data, p)
      BY <2>1, <3>1 DEF HasData, HasEntry
    <3> QED
      BY <1>1, <1>3, <3>1, <3>2 DEF Good
  <2> QED
    BY <2>1
<1>6. r \notin live
  <2>1. r \in gone
    <3>1. CASE r \notin gone
      <4>1. data'[r] = data[r]
        BY <1>1, <1>2, <3>1, RemoveAllFacts
      <4> QED
        BY <4>1 DEF HasData, HasEntry
    <3> QED
      BY <3>1
  <2> QED
    BY <1>3, <2>1
<1>7. ASSUME NEW p \in Resource, HasData(data', p), ~data[p].error, r \in Refs(data, p)
      PROVE  FALSE
  <2>1. p \in live /\ HasData(data, p)
    BY <1>5, <1>7
  <2>2. <<p, r>> \in subs.edges
    BY <1>1, <1>7, <2>1 DEF CleanLinked
  <2> QED
    BY <1>4, <1>6, <2>1, <2>2 DEF Closed
<1> QED
  BY <1>4, <1>6, <1>7

\* A collection takes content from no resource that is subscribed to or that
\* a surviving clean entry refers to.
THEOREM CollectionIsSafe == Spec => CollectKeepsWhatIsUsed
<1>1. IInv /\ [Next]_vars =>
        [Collect =>
           \A r \in Resource : HasData(data, r) /\ ~HasData(data', r) =>
              /\ r \notin Roots(subs)
              /\ \A p \in Resource :
                   HasData(data', p) /\ ~data[p].error => r \notin Refs(data, p)]_vars
  BY CollectStep
<1> QED
  BY <1>1, InductiveInvariant, PTL DEF Spec, CollectKeepsWhatIsUsed

-----------------------------------------------------------------------------
(* What an update that is rejected leaves alone *)

\* From data d to data e: no resource has an error it did not have, or no
\* content is touched.
NoNewError(d, e) ==
    \A r \in Resource : HasEntry(e, r) /\ e[r].error => HasEntry(d, r) /\ d[r].error

ContentKept(d, e) ==
    \A r \in Resource :
        HasData(d, r) => HasData(e, r) /\ e[r].xds = d[r].xds /\ e[r].policy = d[r].policy

LEMMA WritesFlag ==
    ASSUME NEW d \in DataSet, NEW r \in Resource
    PROVE  /\ \A xds \in Xds, policy \in Action \cup {None} :
                NoNewError(d, InsertOk(d, r, xds, policy))
           /\ NoNewError(d, InsertTombstone(d, r))
           /\ ContentKept(d, InsertError(d, r))
<1>1. ASSUME NEW xds \in Xds, NEW policy \in Action \cup {None}
      PROVE  NoNewError(d, InsertOk(d, r, xds, policy))
  BY DEF NoNewError, InsertOk, HasEntry, DataSet
<1>2. NoNewError(d, InsertTombstone(d, r))
  BY DEF NoNewError, InsertTombstone, HasEntry, DataSet
<1>3. ContentKept(d, InsertError(d, r))
  BY InsertErrorFacts DEF ContentKept
<1> QED
  BY <1>1, <1>2, <1>3

LEMMA InsertClusterFlag ==
    ASSUME NEW X, NEW c, Sound(c, X), NEW cl \in Cluster, NEW xds \in Xds,
           NEW action \in Action \cup {None}, NEW stays
    PROVE  LET t == InsertCluster(c, cl, xds, action, stays) IN
           /\ ClusterParses(xds, action) => NoNewError(c.data, t.data)
           /\ ~ClusterParses(xds, action) => ContentKept(c.data, t.data)
<1>1. c \in Cache /\ c.data \in DataSet /\ cl \in Resource
  BY DEF Sound, Good, Cache, DataSet, Resource
<1>2. PolicyOf(xds, action) \in Action \cup {None}
  BY DEF PolicyOf
<1>3. ASSUME ClusterParses(xds, action)
      PROVE  NoNewError(c.data, InsertCluster(c, cl, xds, action, stays).data)
  <2>1. InsertCluster(c, cl, xds, action, stays).data
          = InsertOk(c.data, cl, xds, PolicyOf(xds, action))
    BY <1>3 DEF InsertCluster
  <2> QED
    BY <1>1, <1>2, <2>1, WritesFlag
<1>4. ASSUME ~ClusterParses(xds, action)
      PROVE  ContentKept(c.data, InsertCluster(c, cl, xds, action, stays).data)
  <2>1. InsertCluster(c, cl, xds, action, stays).data = InsertError(c.data, cl)
    BY <1>1, <1>4 DEF InsertCluster, Cache
  <2> QED
    BY <1>1, <2>1, WritesFlag
<1> QED
  BY <1>3, <1>4

LEMMA RejectedFlag ==
    ASSUME NEW X, NEW c, Sound(c, X), NEW r \in Resource
    PROVE  ContentKept(c.data, Rejected(c, r).data)
<1>1. c \in Cache /\ c.data \in DataSet
  BY DEF Sound, Good, Cache, DataSet
<1>2. Rejected(c, r).data = InsertError(c.data, r)
  BY <1>1 DEF Rejected, Cache
<1> QED
  BY <1>1, <1>2, WritesFlag

LEMMA AcceptedFlag ==
    ASSUME NEW r \in Listener \cup RouteConfiguration, NEW xds \in Xds,
           NEW c, Sound(c, {r}), r \in c.subs.nodes, NEW stays
    PROVE  LET t == Accepted(c, r, xds, stays)
           IN  NoNewError(c.data, t.data) \/ ContentKept(c.data, t.data)
<1> DEFINE t == Linked(c, r, xds, stays)
<1>1. /\ Sound(t, {r})
      /\ r \in Resource
  BY LinkedSound, DisjointTypes DEF Resource
<1>2. /\ t.data \in DataSet
      /\ c \in Cache /\ c.data \in DataSet
  BY <1>1 DEF Sound, Good, Cache, DataSet
<1>3. /\ RebuildFails(c.data, xds) => ContentKept(c.data, t.data)
      /\ ~RebuildFails(c.data, xds) => NoNewError(c.data, t.data)
  <2>1. CASE xds.kind # "LbPolicy"
    <3>1. t.data = c.data
      BY <1>2, <2>1 DEF Linked, Cache
    <3> QED
      BY <3>1 DEF ContentKept, NoNewError
  <2>2. CASE xds.kind = "LbPolicy" /\ ~HasData(c.data, xds.cluster)
    <3>1. t.data = c.data
      BY <2>2 DEF Linked, Rebuild
    <3> QED
      BY <3>1 DEF ContentKept, NoNewError
  <2>3. CASE xds.kind = "LbPolicy" /\ HasData(c.data, xds.cluster)
    <3>1. xds.cluster \in Cluster /\ xds.action \in Action
      BY <2>3, PolicyShape
    <3>2. c.data[xds.cluster].xds \in Xds
      BY <1>2, <2>3, <3>1 DEF DataSet, Resource, Entry, HasData, HasEntry
    <3>3. t = InsertCluster(c, xds.cluster, c.data[xds.cluster].xds, xds.action, stays)
      BY <2>3 DEF Linked, Rebuild
    <3> HIDE DEF t
    <3> QED
      BY <2>3, <3>1, <3>2, <3>3, InsertClusterFlag DEF RebuildFails
  <2> QED
    BY <2>1, <2>2, <2>3
<1> HIDE DEF t
<1>4. CASE RebuildFails(c.data, xds)
  <2>1. ContentKept(t.data, Rejected(t, r).data)
    BY <1>1, RejectedFlag
  <2>2. Accepted(c, r, xds, stays) = Rejected(t, r)
    BY <1>4 DEF Accepted, t
  <2> QED
    BY <1>3, <1>4, <2>1, <2>2 DEF ContentKept
<1>5. CASE ~RebuildFails(c.data, xds)
  <2>1. Accepted(c, r, xds, stays).data = InsertOk(t.data, r, xds, None)
    BY <1>5 DEF Accepted, Committed, t
  <2>2. NoNewError(t.data, InsertOk(t.data, r, xds, None))
    BY <1>1, <1>2, WritesFlag
  <2> QED
    BY <1>3, <1>5, <2>1, <2>2 DEF NoNewError
<1> QED
  BY <1>4, <1>5

LEMMA InsertedFlag ==
    ASSUME NEW c, Sound(c, {}), NEW r \in Resource, NEW xds \in Sends[r], NEW stays
    PROVE  LET t == Inserted(c, r, xds, stays)
           IN  NoNewError(c.data, t.data) \/ ContentKept(c.data, t.data)
<1>1. xds \in Xds /\ Sound(c, {r}) /\ c \in Cache /\ c.data \in DataSet
  BY CacheConstants, Weaken DEF Sound, Good, Cache, DataSet
<1>2. NoNewError(c.data, c.data)
  BY DEF NoNewError
<1>3. ContentKept(c.data, Rejected(c, r).data)
  BY RejectedFlag
<1>4. CASE r \in Listener
  <2> DEFINE found == [c EXCEPT !.subs = FindOrSubscribe(@, r)]
             reset == [found EXCEPT !.subs = ResetRefs(@, r, stays)]
  <2>1. /\ Sound(found, {}) /\ Sound(reset, {r}) /\ r \in reset.subs.nodes
    BY <1>4, ListenerFound
  <2>2. found.data = c.data /\ reset.data = c.data
    BY <1>1 DEF Cache
  <2>3. Inserted(c, r, xds, stays) \in {c, Rejected(found, r), Accepted(reset, r, xds, stays)}
    BY <1>4, DisjointTypes DEF Inserted, InsertListener
  <2> HIDE DEF found, reset
  <2>4. ContentKept(c.data, Rejected(found, r).data)
    BY <2>1, <2>2, RejectedFlag
  <2>5. LET t == Accepted(reset, r, xds, stays)
        IN  NoNewError(c.data, t.data) \/ ContentKept(c.data, t.data)
    BY <1>1, <1>4, <2>1, <2>2, AcceptedFlag
  <2> QED
    BY <1>2, <2>3, <2>4, <2>5
<1>5. CASE r \in RouteConfiguration
  <2>1. Inserted(c, r, xds, stays) = InsertRoute(c, r, xds, stays)
    BY <1>5, DisjointTypes DEF Inserted
  <2>2. CASE r \in c.subs.nodes
    <3>1. InsertRoute(c, r, xds, stays) \in {Rejected(c, r), Accepted(c, r, xds, stays)}
      BY <2>2 DEF InsertRoute
    <3>2. LET t == Accepted(c, r, xds, stays)
          IN  NoNewError(c.data, t.data) \/ ContentKept(c.data, t.data)
      BY <1>1, <1>5, <2>2, AcceptedFlag
    <3> QED
      BY <1>3, <2>1, <3>1, <3>2
  <2>3. CASE r \notin c.subs.nodes
    BY <1>2, <2>1, <2>3 DEF InsertRoute
  <2> QED
    BY <2>2, <2>3
<1>6. CASE r \in Cluster
  <2>1. Inserted(c, r, xds, stays) = UpsertCluster(c, r, xds, stays)
    BY <1>6, DisjointTypes DEF Inserted
  <2>2. UpsertCluster(c, r, xds, stays) \in {c, InsertCluster(c, r, xds, FindLbAction(c.data, r), stays)}
    BY DEF UpsertCluster
  <2>3. FindLbAction(c.data, r) \in Action \cup {None}
    BY <1>6, FindLbActionType
  <2> QED
    BY <1>1, <1>2, <1>6, <2>1, <2>2, <2>3, InsertClusterFlag
<1>7. CASE r \in ClusterLoadAssignment
  <2>1. Inserted(c, r, xds, stays) = InsertAssignment(c, r, xds)
    BY <1>7, DisjointTypes DEF Inserted
  <2>2. NoNewError(c.data, Committed(c, r, xds).data)
    <3>1. Committed(c, r, xds).data = InsertOk(c.data, r, xds, None)
      BY DEF Committed
    <3> QED
      BY <1>1, <3>1, WritesFlag
  <2>3. InsertAssignment(c, r, xds) \in {c, Rejected(c, r), Committed(c, r, xds)}
    BY DEF InsertAssignment
  <2> QED
    BY <1>2, <1>3, <2>1, <2>2, <2>3
<1> QED
  BY <1>4, <1>5, <1>6, <1>7 DEF Resource

LEMMA NextFlag ==
    ASSUME IInv, Next
    PROVE  NoNewError(data, data') \/ ContentKept(data, data')
<1>1. /\ Sound(cache, {}) /\ cache.data = data /\ data \in DataSet
      /\ cache.subs = subs /\ cache \in Cache
  BY DEF IInv, Sound, Good, cache, Cache, DataSet
<1>2. NoNewError(data, data)
  BY DEF NoNewError
<1>3. ASSUME NEW r \in Resource,
             Subscribe(r) \/ Unsubscribe(r) \/ SubscribeDns(r) \/ UnsubscribeDns(r)
      PROVE  data' = data
  BY <1>3 DEF Subscribe, Unsubscribe, SubscribeDns, UnsubscribeDns, Become, cache
<1>4. ASSUME NEW r \in Resource, NEW xds \in Sends[r], Insert(r, xds)
      PROVE  NoNewError(data, data') \/ ContentKept(data, data')
  <2>1. PICK stays : data' = Inserted(cache, r, xds, stays).data
    BY <1>4 DEF Insert, Become
  <2> QED
    BY <1>1, <2>1, InsertedFlag
<1>5. ASSUME NEW r \in Resource, Remove(r)
      PROVE  NoNewError(data, data')
  <2>1. data' = InsertTombstone(data, r)
    BY <1>1, <1>5 DEF Remove, Become, RemoveResource
  <2> QED
    BY <1>1, <2>1, WritesFlag
<1>6. CASE Collect
  <2>1. data' = RemoveAll(data, Collected(subs).removed)
    BY <1>1, <1>6 DEF Collect, Become, CollectCache
  <2> QED
    BY <1>1, <2>1 DEF NoNewError, RemoveAll, HasEntry, DataSet
<1> QED
  BY <1>2, <1>3, <1>4, <1>5, <1>6 DEF Next

\* A step that reports an update as rejected takes or changes no content, of
\* the resource itself or of the cluster its policy would have rebuilt.
THEOREM RejectionsChangeNothing == Spec => RejectionKeepsContent
<1>1. IInv /\ [Next]_vars =>
        [\A r \in Resource :
           (HasEntry(data', r) /\ data'[r].error) /\ ~(HasEntry(data, r) /\ data[r].error)
           => \A q \in Resource :
                HasData(data, q) => HasData(data', q) /\ data'[q].xds = data[q].xds
                                    /\ data'[q].policy = data[q].policy]_vars
  BY NextFlag DEF NoNewError, ContentKept
<1> QED
  BY <1>1, InductiveInvariant, PTL DEF Spec, RejectionKeepsContent

-----------------------------------------------------------------------------
(* The policy of a cluster *)

\* What the publisher of policies does (Backend::to_xds_lb_route_config): a
\* Listener that carries a policy inline carries the one of the cluster it is
\* named for, and then no other resource carries a policy of that cluster.
\* The cache checks neither.
InlineConvention ==
    /\ \A l \in Listener : \A x \in Sends[l] :
          x.kind = "LbPolicy" => \A c \in Cluster : LbListener[c] = l => x.cluster = c
    /\ \A r \in Listener \cup RouteConfiguration : \A x \in Sends[r] :
          x.kind = "LbPolicy" =>
             \/ LbListener[x.cluster] = r
             \/ \A y \in Sends[LbListener[x.cluster]] : y.kind # "LbPolicy"

\* All content came from the control plane.
Sent(d) == \A r \in Resource : HasData(d, r) => d[r].xds \in Sends[r]

Inline(d, l) == HasData(d, l) /\ d[l].xds.kind = "LbPolicy"

AppliedTo(d, c) ==
    LET l == LbListener[c]
    IN  HasData(d, c) /\ Inline(d, l) => d[c].policy = PolicyOf(d[c].xds, d[l].xds.action)

\* Every cluster has the policy its Listener carries, but for those of the
\* Listeners in L, whose content is about to be replaced.
Applied(d, L) ==
    /\ d \in DataSet
    /\ Sent(d)
    /\ \A c \in Cluster : LbListener[c] \notin L => AppliedTo(d, c)

LEMMA ErrorApplied ==
    ASSUME NEW L, NEW d, Applied(d, L), NEW r \in Resource
    PROVE  Applied(InsertError(d, r), L)
<1> DEFINE e == InsertError(d, r)
<1>1. /\ e \in DataSet
      /\ \A q \in Resource :
           /\ HasData(e, q) <=> HasData(d, q)
           /\ HasData(d, q) => e[q].xds = d[q].xds /\ e[q].policy = d[q].policy
  BY InsertErrorFacts DEF Applied
<1>2. Cluster \subseteq Resource /\ \A c \in Cluster : LbListener[c] \in Resource
  BY CacheConstants DEF Resource
<1> HIDE DEF e
<1>3. Sent(e)
  BY <1>1 DEF Applied, Sent
<1>4. ASSUME NEW c \in Cluster, AppliedTo(d, c)
      PROVE  AppliedTo(e, c)
  BY <1>1, <1>2, <1>4 DEF AppliedTo, Inline
<1> QED
  BY <1>1, <1>3, <1>4 DEF Applied, e

\* A cluster gets content and the policy its Listener carries, if it does.
LEMMA ClusterApplied ==
    ASSUME NEW L, NEW d, Applied(d, L), NEW c \in Cluster, NEW xds \in Sends[c],
           NEW action \in Action \cup {None},
           LbListener[c] \notin L /\ Inline(d, LbListener[c])
             => action = d[LbListener[c]].xds.action
    PROVE  LET e == InsertOk(d, c, xds, PolicyOf(xds, action)) IN
           /\ Applied(e, L)
           /\ e[c].xds = xds /\ e[c].policy = PolicyOf(xds, action)
<1> DEFINE policy == PolicyOf(xds, action)
           e == InsertOk(d, c, xds, policy)
<1>1. policy \in Action \cup {None}
  BY DEF PolicyOf
<1>2. d \in DataSet /\ c \in Resource /\ xds \in Xds
  BY CacheConstants DEF Applied, Resource
<1> HIDE DEF policy
<1>3. /\ e \in DataSet /\ HasData(e, c) /\ e[c].xds = xds
      /\ \A q \in Resource \ {c} : e[q] = d[q]
  BY <1>1, <1>2, InsertOkFacts
<1>4. e[c].policy = policy
  BY <1>2 DEF InsertOk, DataSet
<1> HIDE DEF e
<1>5. Sent(e)
  BY <1>3 DEF Applied, Sent, HasData, HasEntry
<1>6. \A b \in Cluster : /\ LbListener[b] \in Resource \ {c}
                         /\ b # c => b \in Resource \ {c}
  BY CacheConstants, DisjointTypes DEF Resource
<1>7. \A b \in Cluster : /\ Inline(e, LbListener[b]) <=> Inline(d, LbListener[b])
                         /\ e[LbListener[b]] = d[LbListener[b]]
  BY <1>3, <1>6 DEF Inline, HasData, HasEntry
<1>8. ASSUME NEW b \in Cluster, LbListener[b] \notin L
      PROVE  AppliedTo(e, b)
  <2>1. CASE b = c
    BY <1>3, <1>4, <1>7, <1>8, <2>1 DEF AppliedTo, policy
  <2>2. CASE b # c
    BY <1>3, <1>6, <1>7, <1>8, <2>2 DEF Applied, AppliedTo, HasData, HasEntry
  <2> QED
    BY <2>1, <2>2
<1> QED
  BY <1>3, <1>4, <1>5, <1>8 DEF Applied, e, policy

\* A resource that is no cluster gets content: what it carries inline is
\* applied to its clusters.
LEMMA OtherApplied ==
    ASSUME NEW r \in Resource \ Cluster, NEW d, Applied(d, {r}), NEW xds \in Sends[r],
           xds.kind = "LbPolicy" =>
             \A c \in Cluster :
               LbListener[c] = r /\ HasData(d, c)
                 => d[c].policy = PolicyOf(d[c].xds, xds.action)
    PROVE  Applied(InsertOk(d, r, xds, None), {})
<1> DEFINE e == InsertOk(d, r, xds, None)
<1>1. /\ e \in DataSet /\ HasData(e, r) /\ e[r].xds = xds
      /\ \A q \in Resource \ {r} : e[q] = d[q]
  BY InsertOkFacts, CacheConstants DEF Applied
<1> HIDE DEF e
<1>2. Sent(e)
  BY <1>1 DEF Applied, Sent, HasData, HasEntry
<1>3. \A c \in Cluster : c \in Resource \ {r} /\ LbListener[c] \in Resource
  BY CacheConstants DEF Resource
<1>4. ASSUME NEW c \in Cluster
      PROVE  AppliedTo(e, c)
  <2>1. e[c] = d[c] /\ (HasData(e, c) <=> HasData(d, c))
    BY <1>1, <1>3 DEF HasData, HasEntry
  <2>2. CASE LbListener[c] = r
    BY <1>1, <2>1, <2>2 DEF AppliedTo, Inline
  <2>3. CASE LbListener[c] # r
    <3>1. e[LbListener[c]] = d[LbListener[c]]
      BY <1>1, <1>3, <2>3
    <3> QED
      BY <2>1, <2>3, <3>1 DEF Applied, AppliedTo, Inline, HasData, HasEntry
  <2> QED
    BY <2>2, <2>3
<1> QED
  BY <1>1, <1>2, <1>4 DEF Applied, e

LEMMA RejectedApplied ==
    ASSUME NEW X, NEW c, Sound(c, X), NEW L, Applied(c.data, L), NEW r \in Resource
    PROVE  Applied(Rejected(c, r).data, L)
<1>1. Rejected(c, r).data = InsertError(c.data, r)
  BY DEF Rejected, Sound, Good, Cache
<1> QED
  BY <1>1, ErrorApplied

LEMMA InsertClusterApplied ==
    ASSUME NEW X, NEW c, Sound(c, X), NEW L, Applied(c.data, L),
           NEW cl \in Cluster, NEW xds \in Sends[cl], NEW action \in Action \cup {None},
           LbListener[cl] \notin L /\ Inline(c.data, LbListener[cl])
             => action = c.data[LbListener[cl]].xds.action, NEW stays
    PROVE  LET e == InsertCluster(c, cl, xds, action, stays).data IN
           /\ Applied(e, L)
           /\ ClusterParses(xds, action) =>
                e[cl].xds = xds /\ e[cl].policy = PolicyOf(xds, action)
<1>1. CASE ClusterParses(xds, action)
  <2>1. InsertCluster(c, cl, xds, action, stays).data
          = InsertOk(c.data, cl, xds, PolicyOf(xds, action))
    BY <1>1 DEF InsertCluster
  <2> QED
    BY <1>1, <2>1, ClusterApplied
<1>2. CASE ~ClusterParses(xds, action)
  <2>1. InsertCluster(c, cl, xds, action, stays).data = InsertError(c.data, cl)
    BY <1>2 DEF InsertCluster, Sound, Good, Cache
  <2>2. cl \in Resource
    BY DEF Resource
  <2> QED
    BY <1>2, <2>1, <2>2, ErrorApplied
<1> QED
  BY <1>1, <1>2

\* e is what following the new content xds of r makes of the content d: when the
\* cluster could be rebuilt it has the policy that xds carries.
Follows(d, r, xds, e) ==
    /\ RebuildFails(d, xds) => Applied(e, {})
    /\ ~RebuildFails(d, xds) =>
         /\ Applied(e, {r})
         /\ xds.kind = "LbPolicy" =>
              \A b \in Cluster :
                LbListener[b] = r /\ HasData(e, b)
                  => e[b].policy = PolicyOf(e[b].xds, xds.action)

\* Following new content of r applies the policy it carries.
LEMMA LinkedApplied ==
    ASSUME InlineConvention, NEW r \in Listener \cup RouteConfiguration, NEW xds \in Sends[r],
           NEW c, NEW stays, Sound(c, {r}), Applied(c.data, {})
    PROVE  Follows(c.data, r, xds, Linked(c, r, xds, stays).data)
<1> DEFINE e == Linked(c, r, xds, stays).data
           cl == xds.cluster
           old == c.data[cl].xds
<1>1. /\ c \in Cache /\ xds \in Xds /\ r \in Resource
      /\ Applied(c.data, {r})
  BY CacheConstants DEF Sound, Good, Applied, Resource
<1>2. CASE xds.kind # "LbPolicy"
  <2>1. e = c.data
    BY <1>1, <1>2 DEF Linked, Cache
  <2> QED
    BY <1>1, <1>2, <2>1 DEF RebuildFails, Follows
<1>3. CASE xds.kind = "LbPolicy"
  <2>1. cl \in Cluster /\ xds.action \in Action
    BY <1>1, <1>3, PolicyShape
  <2>2. r \in Listener => \A b \in Cluster : LbListener[b] = r => b = cl
    BY <1>3 DEF InlineConvention
  <2>3. \A b \in Cluster : LbListener[b] = r => b = cl
    BY <2>2, CacheConstants, DisjointTypes
  <2>4. CASE ~HasData(c.data, cl)
    <3>1. e = c.data
      BY <1>3, <2>4 DEF Linked, Rebuild
    <3> QED
      BY <1>1, <2>3, <2>4, <3>1 DEF RebuildFails, Follows
  <2>5. CASE HasData(c.data, cl)
    <3>1. old \in Sends[cl] /\ cl \in Resource
      BY <2>1, <2>5 DEF Applied, Sent, Resource
    <3>2. e = InsertCluster(c, cl, old, xds.action, stays).data
      BY <1>3, <2>5 DEF Linked, Rebuild
    <3>3. ~RebuildFails(c.data, xds) <=> ClusterParses(old, xds.action)
      BY <1>3, <2>5 DEF RebuildFails
    <3>4. LbListener[cl] # r => ~Inline(c.data, LbListener[cl])
      <4>1. LbListener[cl] \in Resource
        BY <2>1, CacheConstants DEF Resource
      <4>2. LbListener[cl] # r => \A y \in Sends[LbListener[cl]] : y.kind # "LbPolicy"
        BY <1>3 DEF InlineConvention
      <4> QED
        BY <4>1, <4>2 DEF Applied, Sent, Inline
    <3> HIDE DEF e, cl, old
    <3>5. /\ Applied(e, {r})
          /\ ClusterParses(old, xds.action) =>
               e[cl].xds = old /\ e[cl].policy = PolicyOf(old, xds.action)
      BY <1>1, <2>1, <3>1, <3>2, <3>4, InsertClusterApplied
    <3>6. CASE ClusterParses(old, xds.action)
      BY <2>3, <3>3, <3>5, <3>6 DEF e, Follows
    <3>7. CASE ~ClusterParses(old, xds.action)
      <4>1. e = InsertError(c.data, cl)
        BY <1>1, <3>2, <3>7 DEF InsertCluster, Cache
      <4>2. Applied(e, {})
        BY <3>1, <4>1, ErrorApplied
      <4> QED
        BY <3>3, <3>7, <4>2 DEF e, Follows
    <3> QED
      BY <3>6, <3>7
  <2> QED
    BY <2>4, <2>5
<1> QED
  BY <1>2, <1>3

LEMMA AcceptedApplied ==
    ASSUME InlineConvention, NEW r \in Listener \cup RouteConfiguration, NEW xds \in Sends[r],
           NEW c, Sound(c, {r}), r \in c.subs.nodes, Applied(c.data, {}), NEW stays
    PROVE  Applied(Accepted(c, r, xds, stays).data, {})
<1> DEFINE t == Linked(c, r, xds, stays)
<1>1. r \in Resource \ Cluster /\ xds \in Xds
  BY CacheConstants, DisjointTypes DEF Resource
<1>2. Sound(t, {r})
  BY <1>1, LinkedSound
<1>3. Follows(c.data, r, xds, t.data)
  BY LinkedApplied
<1> HIDE DEF t
<1>4. CASE RebuildFails(c.data, xds)
  <2>1. Accepted(c, r, xds, stays) = Rejected(t, r)
    BY <1>4 DEF Accepted, t
  <2> QED
    BY <1>1, <1>2, <1>3, <1>4, <2>1, RejectedApplied DEF Follows
<1>5. CASE ~RebuildFails(c.data, xds)
  <2>1. Accepted(c, r, xds, stays).data = InsertOk(t.data, r, xds, None)
    BY <1>5 DEF Accepted, Committed, t
  <2> QED
    BY <1>1, <1>3, <1>5, <2>1, OtherApplied DEF Follows
<1> QED
  BY <1>4, <1>5

LEMMA FindsInline ==
    ASSUME NEW c, Sound(c, {}), NEW cl \in Cluster, Inline(c.data, LbListener[cl])
    PROVE  FindLbAction(c.data, cl) = c.data[LbListener[cl]].xds.action
<1>1. c.data[LbListener[cl]].xds.kind # "Rds"
  BY DEF Inline
<1> QED
  BY <1>1 DEF FindLbAction, PolicyIn, Inline

LEMMA InsertedApplied ==
    ASSUME InlineConvention, NEW c, Sound(c, {}), Applied(c.data, {}),
           NEW r \in Resource, NEW xds \in Sends[r], NEW stays
    PROVE  Applied(Inserted(c, r, xds, stays).data, {})
<1>1. xds \in Xds /\ Sound(c, {r}) /\ c \in Cache
  BY CacheConstants, Weaken DEF Sound, Good
<1>2. Applied(Rejected(c, r).data, {})
  BY RejectedApplied
<1>3. CASE r \in Listener
  <2> DEFINE found == [c EXCEPT !.subs = FindOrSubscribe(@, r)]
             reset == [found EXCEPT !.subs = ResetRefs(@, r, stays)]
  <2>1. /\ Sound(found, {}) /\ Sound(reset, {r}) /\ r \in reset.subs.nodes
    BY <1>3, ListenerFound
  <2>2. found.data = c.data /\ reset.data = c.data
    BY <1>1 DEF Cache
  <2>3. Inserted(c, r, xds, stays) \in {c, Rejected(found, r), Accepted(reset, r, xds, stays)}
    BY <1>3, DisjointTypes DEF Inserted, InsertListener
  <2> HIDE DEF found, reset
  <2>4. Applied(Rejected(found, r).data, {})
    BY <2>1, <2>2, RejectedApplied
  <2>5. Applied(Accepted(reset, r, xds, stays).data, {})
    BY <1>3, <2>1, <2>2, AcceptedApplied
  <2> QED
    BY <2>3, <2>4, <2>5
<1>4. CASE r \in RouteConfiguration
  <2>1. Inserted(c, r, xds, stays) = InsertRoute(c, r, xds, stays)
    BY <1>4, DisjointTypes DEF Inserted
  <2>2. CASE r \in c.subs.nodes
    <3>1. InsertRoute(c, r, xds, stays) \in {Rejected(c, r), Accepted(c, r, xds, stays)}
      BY <2>2 DEF InsertRoute
    <3>2. Applied(Accepted(c, r, xds, stays).data, {})
      BY <1>1, <1>4, <2>2, AcceptedApplied
    <3> QED
      BY <1>2, <2>1, <3>1, <3>2
  <2>3. CASE r \notin c.subs.nodes
    BY <2>1, <2>3 DEF InsertRoute
  <2> QED
    BY <2>2, <2>3
<1>5. CASE r \in Cluster
  <2>1. Inserted(c, r, xds, stays) = UpsertCluster(c, r, xds, stays)
    BY <1>5, DisjointTypes DEF Inserted
  <2>2. UpsertCluster(c, r, xds, stays) \in {c, InsertCluster(c, r, xds, FindLbAction(c.data, r), stays)}
    BY DEF UpsertCluster
  <2>3. FindLbAction(c.data, r) \in Action \cup {None}
    BY <1>5, FindLbActionType
  <2> QED
    BY <1>5, <2>1, <2>2, <2>3, FindsInline, InsertClusterApplied
<1>6. CASE r \in ClusterLoadAssignment
  <2>1. Inserted(c, r, xds, stays) = InsertAssignment(c, r, xds)
    BY <1>6, DisjointTypes DEF Inserted
  <2>2. Applied(Committed(c, r, xds).data, {})
    <3>1. Committed(c, r, xds).data = InsertOk(c.data, r, xds, None)
      BY DEF Committed
    <3>2. r \in Resource \ Cluster /\ Applied(c.data, {r})
      BY <1>6, DisjointTypes DEF Applied
    <3>3. xds.kind # "LbPolicy"
      BY <1>6, CacheConstants DEF AssignmentForms, Invalid
    <3> QED
      BY <3>1, <3>2, <3>3, OtherApplied
  <2>3. InsertAssignment(c, r, xds) \in {c, Rejected(c, r), Committed(c, r, xds)}
    BY DEF InsertAssignment
  <2> QED
    BY <1>2, <2>1, <2>2, <2>3
<1> QED
  BY <1>3, <1>4, <1>5, <1>6 DEF Resource

\* A write that leaves every resource as it is or without content.
LEMMA LossApplied ==
    ASSUME NEW d, Applied(d, {}), NEW e \in DataSet,
           \A r \in Resource : e[r] = d[r] \/ ~HasData(e, r)
    PROVE  Applied(e, {})
<1>1. \A r \in Resource : HasData(e, r) => e[r] = d[r] /\ HasData(d, r)
  BY DEF HasData, HasEntry
<1>2. \A c \in Cluster : c \in Resource /\ LbListener[c] \in Resource
  BY CacheConstants DEF Resource
<1> QED
  BY <1>1, <1>2 DEF Applied, Sent, AppliedTo, Inline

LEMMA NextApplied ==
    InlineConvention => (IInv /\ Applied(data, {}) /\ [Next]_vars => Applied(data', {}))
<1> SUFFICES ASSUME InlineConvention, IInv, Applied(data, {}), [Next]_vars
             PROVE  Applied(data', {})
  OBVIOUS
<1>1. /\ Sound(cache, {}) /\ cache.data = data /\ data \in DataSet
      /\ cache.subs = subs /\ cache \in Cache
  BY DEF IInv, Sound, Good, cache, Cache, DataSet
<1>2. ASSUME NEW r \in Resource,
             Subscribe(r) \/ Unsubscribe(r) \/ SubscribeDns(r) \/ UnsubscribeDns(r)
      PROVE  data' = data
  BY <1>2 DEF Subscribe, Unsubscribe, SubscribeDns, UnsubscribeDns, Become, cache
<1>3. ASSUME NEW r \in Resource, NEW xds \in Sends[r], Insert(r, xds)
      PROVE  Applied(data', {})
  <2>1. PICK stays : data' = Inserted(cache, r, xds, stays).data
    BY <1>3 DEF Insert, Become
  <2> QED
    BY <1>1, <2>1, InsertedApplied
<1>4. ASSUME NEW r \in Resource, Remove(r)
      PROVE  Applied(data', {})
  <2>1. data' = InsertTombstone(data, r)
    BY <1>1, <1>4 DEF Remove, Become, RemoveResource
  <2>2. /\ data' \in DataSet /\ ~HasData(data', r)
        /\ \A q \in Resource \ {r} : data'[q] = data[q]
    BY <1>1, <2>1, InsertTombstoneFacts
  <2> QED
    BY <2>2, LossApplied
<1>5. CASE Collect
  <2> DEFINE gone == Collected(subs).removed
  <2>1. data' = RemoveAll(data, gone)
    BY <1>1, <1>5 DEF Collect, Become, CollectCache
  <2> HIDE DEF gone
  <2>2. /\ data' \in DataSet
        /\ \A q \in Resource : q \in gone => ~HasData(data', q)
        /\ \A q \in Resource : q \notin gone => data'[q] = data[q]
    BY <1>1, <2>1, RemoveAllFacts
  <2> QED
    BY <2>2, LossApplied
<1>6. CASE UNCHANGED vars
  BY <1>6 DEF vars
<1> QED
  BY <1>2, <1>3, <1>4, <1>5, <1>6 DEF Next

\* With the publisher's convention a cluster has the policy its Listener
\* carries inline, whichever of them arrived first, and through rejected
\* updates, removals and collections of either.
THEOREM PoliciesApplied ==
    ASSUME InlineConvention
    PROVE  Spec => []InlinePolicyApplied
<1>1. Init => Applied(data, {})
  <2> SUFFICES ASSUME Init PROVE Applied(data, {})
    OBVIOUS
  <2>1. data \in DataSet /\ \A r \in Resource : ~HasData(data, r)
    BY DEF Init, EmptyCache, DataSet, HasData, HasEntry
  <2> QED
    BY <2>1 DEF Applied, Sent, AppliedTo, Resource
<1>2. IInv /\ Applied(data, {}) /\ [Next]_vars => Applied(data', {})
  BY NextApplied
<1>3. Applied(data, {}) => InlinePolicyApplied
  BY DEF Applied, AppliedTo, Inline, InlinePolicyApplied
<1> DEFINE Holds == Applied(data, {})
<1>4. Init => Holds
  BY <1>1
<1>5. IInv /\ Holds /\ [Next]_vars => Holds'
  BY <1>2
<1>6. Holds => InlinePolicyApplied
  BY <1>3
<1> HIDE DEF Holds
<1> QED
  BY <1>4, <1>5, <1>6, InductiveInvariant, PTL DEF Spec

=============================================================================
