-------------------------- MODULE CacheStateProofs --------------------------
(***************************************************************************)
(* What the calls of CacheState keep, for every choice of resources and    *)
(* contents: lemmas for whatever state machine makes the calls.            *)
(***************************************************************************)
EXTENDS CacheState, TLAPS

GoodGraph(s) ==
    /\ s \in Graph
    /\ s.explicit \cup s.wildcard \cup s.added \subseteq s.nodes
    /\ s.edges \subseteq s.nodes \X s.nodes
    /\ s.removed = {}

-----------------------------------------------------------------------------
(* The graph operators *)

LEMMA FindOrCreateGood ==
    ASSUME NEW s, GoodGraph(s), NEW r \in Resource, NEW wild \in BOOLEAN
    PROVE  LET t == FindOrCreate(s, r, wild) IN
           /\ GoodGraph(t)
           /\ t.nodes = s.nodes \cup {r}
           /\ t.edges = s.edges
           /\ t.added \subseteq s.added \cup ({r} \ s.nodes)
<1> DEFINE t == FindOrCreate(s, r, wild)
<1>1. CASE r \in s.nodes
  BY <1>1 DEF FindOrCreate
<1>2. CASE r \notin s.nodes
  <2>1. t = [s EXCEPT !.nodes    = @ \cup {r},
                      !.wildcard = IF wild THEN @ \cup {r} ELSE @,
                      !.added    = IF wild THEN @ ELSE @ \cup {r}]
    BY <1>2 DEF FindOrCreate
  <2> HIDE DEF t
  <2>2. /\ t \in Graph
        /\ t.nodes = s.nodes \cup {r}
        /\ t.explicit = s.explicit
        /\ t.edges = s.edges
        /\ t.removed = s.removed
    BY <2>1 DEF GoodGraph, Graph
  <2>3. /\ t.wildcard \subseteq s.wildcard \cup {r}
        /\ t.added \subseteq s.added \cup {r}
    BY <2>1 DEF GoodGraph, Graph
  <2>4. GoodGraph(t)
    BY <2>2, <2>3 DEF GoodGraph
  <2>5. t.added \subseteq s.added \cup ({r} \ s.nodes)
    BY <1>2, <2>3
  <2> QED
    BY <2>2, <2>4, <2>5 DEF t
<1> QED
  BY <1>1, <1>2

LEMMA FindOrSubscribeGood ==
    ASSUME NEW s, GoodGraph(s), NEW r \in Resource
    PROVE  LET t == FindOrSubscribe(s, r) IN
           /\ GoodGraph(t)
           /\ s.nodes \subseteq t.nodes
           /\ r \in Wildcard => r \in t.nodes
           /\ t.edges = s.edges
           /\ t.added \subseteq s.added \cup ({r} \ s.nodes)
<1>1. CASE r \in Wildcard
  <2>1. FindOrSubscribe(s, r) = FindOrCreate(s, r, TRUE)
    BY <1>1 DEF FindOrSubscribe
  <2>2. LET t == FindOrCreate(s, r, TRUE) IN
        /\ GoodGraph(t)
        /\ t.nodes = s.nodes \cup {r}
        /\ t.edges = s.edges
        /\ t.added \subseteq s.added \cup ({r} \ s.nodes)
    BY FindOrCreateGood, Zenon
  <2> QED
    BY <1>1, <2>1, <2>2
<1>2. CASE r \notin Wildcard
  BY <1>2 DEF FindOrSubscribe
<1> QED
  BY <1>1, <1>2

LEMMA ResetRefsGood ==
    ASSUME NEW s, GoodGraph(s), NEW r \in Resource, NEW stays
    PROVE  LET t == ResetRefs(s, r, stays) IN
           /\ GoodGraph(t)
           /\ t.nodes = s.nodes
           /\ t.edges = {e \in s.edges : e[1] # r \/ e \in stays}
           /\ t.added = s.added
  BY DEF GoodGraph, ResetRefs, Graph

LEMMA AddRefsGood ==
    ASSUME NEW s, GoodGraph(s), NEW r \in s.nodes, NEW T \in SUBSET Resource
    PROVE  LET t == AddRefs(s, r, T) IN
           /\ GoodGraph(t)
           /\ t.nodes = s.nodes \cup T
           /\ t.edges = s.edges \cup ({r} \X T)
           /\ t.added = s.added \cup (T \ s.nodes)
<1> DEFINE t == AddRefs(s, r, T)
<1>1. /\ s \in Graph
      /\ s.edges \subseteq s.nodes \X s.nodes
      /\ s.nodes \subseteq Resource
  BY DEF GoodGraph, Graph
<1>2. /\ t.nodes = s.nodes \cup T
      /\ t.edges = s.edges \cup ({r} \X T)
      /\ t.added = s.added \cup (T \ s.nodes)
      /\ t.explicit = s.explicit
      /\ t.wildcard = s.wildcard
      /\ t.removed = s.removed
  BY <1>1 DEF AddRefs, Graph
<1>3. /\ {r} \X T \subseteq t.nodes \X t.nodes
      /\ s.edges \subseteq t.nodes \X t.nodes
  BY <1>1, <1>2
<1>4. t \in Graph
  <2>1. t.edges \subseteq Resource \X Resource
    BY <1>1, <1>2, <1>3
  <2>2. t.nodes \subseteq Resource /\ t.added \subseteq Resource
    BY <1>1, <1>2 DEF Graph
  <2> QED
    BY <1>1, <2>1, <2>2, <1>2 DEF AddRefs, Graph
<1> QED
  BY <1>2, <1>3, <1>4 DEF GoodGraph

LEMMA ClearChangesGood ==
    ASSUME NEW s, GoodGraph(s), NEW r \in Resource
    PROVE  LET t == ClearChanges(s, r) IN
           /\ GoodGraph(t)
           /\ t.nodes = s.nodes
           /\ t.edges = s.edges
           /\ t.added = s.added \ {r}
  BY DEF GoodGraph, ClearChanges, Graph

-----------------------------------------------------------------------------
(* The contents and the writes to the data *)

DataSet == [Resource -> Entry \cup {Absent}]

LEMMA PolicyShape ==
    ASSUME NEW xds \in Xds
    PROVE  /\ RouteRefs(xds) \subseteq Resource
           /\ xds.kind = "LbPolicy" =>
                /\ xds.cluster \in Cluster
                /\ xds.action \in Action
                /\ RouteRefs(xds) = {}
  BY DEF Xds, ListenerForms, RouteForms, ClusterForms, AssignmentForms,
         Invalid, Rds, Route, LbPolicy, RouteRefs, Resource

LEMMA InsertOkFacts ==
    ASSUME NEW dat \in DataSet, NEW r \in Resource, NEW xds \in Xds,
           NEW policy \in Action \cup {None}
    PROVE  LET new == InsertOk(dat, r, xds, policy) IN
           /\ new \in DataSet
           /\ HasData(new, r) /\ new[r].xds = xds
           /\ \A q \in Resource \ {r} : new[q] = dat[q]
<1> DEFINE entry == [xds |-> xds, policy |-> policy, error |-> FALSE]
<1>1. entry \in Entry
  BY DEF Entry
<1>2. entry # Absent /\ entry.xds # None
  BY <1>1, CacheConstants
<1> HIDE DEF entry
<1>3. InsertOk(dat, r, xds, policy) = [dat EXCEPT ![r] = entry]
  BY DEF InsertOk, entry
<1>4. entry.xds = xds
  BY DEF entry
<1> QED
  BY <1>1, <1>2, <1>3, <1>4 DEF DataSet, HasData, HasEntry

LEMMA InsertErrorFacts ==
    ASSUME NEW dat \in DataSet, NEW r \in Resource
    PROVE  LET new == InsertError(dat, r) IN
           /\ new \in DataSet
           /\ new[r].error
           /\ \A q \in Resource :
                /\ q # r => new[q] = dat[q]
                /\ HasData(new, q) <=> HasData(dat, q)
                /\ HasData(dat, q) => new[q].xds = dat[q].xds
                                      /\ new[q].policy = dat[q].policy
                /\ Refs(new, q) = Refs(dat, q)
<1> DEFINE new == InsertError(dat, r)
<1>1. /\ new \in DataSet
      /\ new[r].error
      /\ \A q \in Resource : q # r => new[q] = dat[q]
  BY CacheConstants DEF DataSet, InsertError, HasEntry, Entry
<1>2. ASSUME NEW q \in Resource
      PROVE  /\ HasData(new, q) <=> HasData(dat, q)
             /\ HasData(dat, q) => new[q].xds = dat[q].xds
                                   /\ new[q].policy = dat[q].policy
  BY CacheConstants DEF DataSet, InsertError, HasData, HasEntry, Entry
<1>3. \A q \in Resource : Refs(new, q) = Refs(dat, q)
  BY <1>2 DEF Refs
<1> QED
  BY <1>1, <1>2, <1>3

LEMMA InsertTombstoneFacts ==
    ASSUME NEW dat \in DataSet, NEW r \in Resource
    PROVE  LET new == InsertTombstone(dat, r) IN
           /\ new \in DataSet
           /\ HasEntry(new, r) /\ ~HasData(new, r)
           /\ \A q \in Resource \ {r} : new[q] = dat[q]
<1> DEFINE entry == [xds |-> None, policy |-> None, error |-> FALSE]
<1>1. entry \in Entry /\ entry.xds = None
  BY DEF Entry
<1>2. entry # Absent
  BY <1>1, CacheConstants
<1>3. InsertTombstone(dat, r) = [dat EXCEPT ![r] = entry]
  BY DEF InsertTombstone
<1> HIDE DEF entry
<1> QED
  BY <1>1, <1>2, <1>3 DEF DataSet, HasData, HasEntry

LEMMA RemoveAllFacts ==
    ASSUME NEW dat \in DataSet, NEW names
    PROVE  LET new == RemoveAll(dat, names) IN
           /\ new \in DataSet
           /\ \A q \in Resource : q \in names => ~HasData(new, q)
           /\ \A q \in Resource : q \notin names => new[q] = dat[q]
  BY DEF DataSet, RemoveAll, HasData, HasEntry

-----------------------------------------------------------------------------
(* The invariant, as a predicate on cache records *)

Good(c) ==
    /\ c \in Cache
    /\ GoodGraph(c.subs)
    /\ \A r \in Resource :
          HasData(c.data, r) => r \in c.subs.nodes /\ r \notin c.subs.added

CleanLinked(c, r) ==
    HasData(c.data, r) /\ ~c.data[r].error => {r} \X Refs(c.data, r) \subseteq c.subs.edges

\* Sound, but for the references of the resources in X, whose content is
\* about to be replaced.
Sound(c, X) ==
    /\ Good(c)
    /\ \A r \in Resource \ X : CleanLinked(c, r)

\* Nothing but the references of r changed, and no node was lost.
OnlyRefsOf(s, t, r) ==
    /\ s.nodes \subseteq t.nodes
    /\ \A e \in Resource \X Resource : e[1] # r => (e \in t.edges <=> e \in s.edges)

LEMMA ClusterRefsType ==
    ASSUME NEW c \in Cluster
    PROVE  ClusterRefs(c) \subseteq Resource
  BY CacheConstants DEF ClusterRefs, Resource

LEMMA InsertClusterRejected ==
    ASSUME NEW X, NEW c, Sound(c, X), NEW cl \in Cluster, NEW xds \in Xds,
           NEW action \in Action \cup {None}, ~ClusterParses(xds, action), NEW stays
    PROVE  LET t == InsertCluster(c, cl, xds, action, stays) IN
           /\ Sound(t, X)
           /\ OnlyRefsOf(c.subs, t.subs, cl)
           /\ \A q \in Resource \ {cl} : t.data[q] = c.data[q]
<1> DEFINE t == InsertCluster(c, cl, xds, action, stays)
           found == FindOrSubscribe(c.subs, cl)
           new == InsertError(c.data, cl)
<1>1. /\ c \in Cache /\ GoodGraph(c.subs) /\ c.data \in DataSet /\ cl \in Resource
  BY DEF Sound, Good, Cache, DataSet, Resource
<1>2. /\ t.subs = found /\ t.data = new /\ t.dns = c.dns
      /\ t = [subs |-> t.subs, data |-> t.data, dns |-> t.dns]
  BY <1>1 DEF InsertCluster, Cache
<1>3. /\ GoodGraph(found)
      /\ c.subs.nodes \subseteq found.nodes
      /\ found.edges = c.subs.edges
      /\ found.added \subseteq c.subs.added \cup ({cl} \ c.subs.nodes)
  BY <1>1, FindOrSubscribeGood
<1>4. /\ new \in DataSet
      /\ new[cl].error
      /\ \A q \in Resource :
           /\ q # cl => new[q] = c.data[q]
           /\ HasData(new, q) <=> HasData(c.data, q)
           /\ Refs(new, q) = Refs(c.data, q)
  BY <1>1, InsertErrorFacts
<1>5. t \in Cache
  BY <1>1, <1>2, <1>3, <1>4 DEF Cache, GoodGraph, DataSet
<1>6. Good(t)
  <2>1. ASSUME NEW r \in Resource, HasData(new, r)
        PROVE  r \in found.nodes /\ r \notin found.added
    <3>1. r \in c.subs.nodes /\ r \notin c.subs.added
      BY <1>4, <2>1 DEF Sound, Good
    <3> QED
      BY <1>3, <3>1
  <2> QED
    BY <1>2, <1>3, <1>5, <2>1 DEF Good
<1>7. ASSUME NEW r \in Resource \ X
      PROVE  CleanLinked(t, r)
  <2>1. CleanLinked(c, r)
    BY DEF Sound
  <2> QED
    BY <2>1, <1>2, <1>3, <1>4 DEF CleanLinked
<1> QED
  BY <1>2, <1>3, <1>4, <1>6, <1>7 DEF Sound, OnlyRefsOf

LEMMA InsertClusterAccepted ==
    ASSUME NEW X, NEW c, Sound(c, X), NEW cl \in Cluster, NEW xds \in Xds,
           NEW action \in Action \cup {None}, ClusterParses(xds, action), NEW stays
    PROVE  LET t == InsertCluster(c, cl, xds, action, stays) IN
           /\ Sound(t, X)
           /\ OnlyRefsOf(c.subs, t.subs, cl)
           /\ \A q \in Resource \ {cl} : t.data[q] = c.data[q]
<1> DEFINE t == InsertCluster(c, cl, xds, action, stays)
           found == FindOrSubscribe(c.subs, cl)
           reset == ResetRefs(found, cl, stays)
           linked == AddRefs(reset, cl, ClusterRefs(cl))
           clear == ClearChanges(linked, cl)
           new == InsertOk(c.data, cl, xds, PolicyOf(xds, action))
<1>1. /\ c \in Cache /\ GoodGraph(c.subs) /\ c.data \in DataSet /\ cl \in Resource
  BY DEF Sound, Good, Cache, DataSet, Resource
<1>2. /\ t.subs = clear /\ t.data = new
      /\ t = [subs |-> t.subs, data |-> t.data, dns |-> t.dns]
      /\ t.dns = IF cl \in Dns THEN [c.dns EXCEPT !.add = @ \cup {cl}] ELSE c.dns
  BY <1>1 DEF InsertCluster, Cache
<1>3. /\ GoodGraph(found)
      /\ c.subs.nodes \subseteq found.nodes
      /\ cl \in found.nodes
      /\ found.edges = c.subs.edges
      /\ found.added \subseteq c.subs.added \cup ({cl} \ c.subs.nodes)
  BY <1>1, FindOrSubscribeGood DEF Wildcard
<1>4. /\ GoodGraph(reset)
      /\ reset.nodes = found.nodes
      /\ reset.edges = {e \in found.edges : e[1] # cl \/ e \in stays}
      /\ reset.added = found.added
  BY <1>1, <1>3, ResetRefsGood
<1>5. /\ GoodGraph(linked)
      /\ linked.nodes = reset.nodes \cup ClusterRefs(cl)
      /\ linked.edges = reset.edges \cup ({cl} \X ClusterRefs(cl))
      /\ linked.added = reset.added \cup (ClusterRefs(cl) \ reset.nodes)
  <2>1. cl \in reset.nodes
    BY <1>3, <1>4
  <2> QED
    BY <1>4, <2>1, ClusterRefsType, AddRefsGood
<1>6. /\ GoodGraph(clear)
      /\ clear.nodes = linked.nodes
      /\ clear.edges = linked.edges
      /\ clear.added = linked.added \ {cl}
  BY <1>1, <1>5, ClearChangesGood
<1>7. /\ new \in DataSet
      /\ HasData(new, cl) /\ new[cl].xds = xds
      /\ \A q \in Resource \ {cl} : new[q] = c.data[q]
  <2>1. PolicyOf(xds, action) \in Action \cup {None}
    BY DEF PolicyOf
  <2> QED
    BY <1>1, <2>1, InsertOkFacts
<1> HIDE DEF t, found, reset, linked, clear, new
<1>8. t \in Cache
  <2>1. t.dns \in [add : SUBSET Dns, remove : SUBSET Dns]
    BY <1>1, <1>2 DEF Cache, DnsUpdates
  <2> QED
    BY <1>2, <1>6, <1>7, <2>1 DEF Cache, DnsUpdates, GoodGraph, DataSet
<1>9. Good(t)
  <2>1. ASSUME NEW r \in Resource, HasData(new, r)
        PROVE  r \in clear.nodes /\ r \notin clear.added
    <3>1. CASE r = cl
      BY <3>1, <1>3, <1>4, <1>5, <1>6
    <3>2. CASE r # cl
      <4>1. r \in c.subs.nodes /\ r \notin c.subs.added
        BY <1>7, <2>1, <3>2 DEF Sound, Good, HasData, HasEntry
      <4> QED
        BY <4>1, <1>3, <1>4, <1>5, <1>6, <3>2
    <3> QED
      BY <3>1, <3>2
  <2> QED
    BY <1>2, <1>6, <1>8, <2>1 DEF Good
<1>10. \A e \in Resource \X Resource :
         e[1] # cl => (e \in clear.edges <=> e \in c.subs.edges)
  BY <1>3, <1>4, <1>5, <1>6
<1>11. ASSUME NEW r \in Resource \ X
       PROVE  CleanLinked(t, r)
  <2>1. CASE r = cl
    <3>1. Refs(new, r) = ClusterRefs(cl)
      BY <1>7, <2>1 DEF Refs
    <3> QED
      BY <1>2, <1>5, <1>6, <2>1, <3>1 DEF CleanLinked
  <2>2. CASE r # cl
    <3>1. CleanLinked(c, r)
      BY DEF Sound
    <3>2. new[r] = c.data[r] /\ Refs(new, r) = Refs(c.data, r)
      BY <1>7, <2>2 DEF Refs, HasData, HasEntry
    <3>3. HasData(new, r) <=> HasData(c.data, r)
      BY <3>2 DEF HasData, HasEntry
    <3> QED
      BY <1>2, <1>3, <1>4, <1>5, <1>6, <2>2, <3>1, <3>2, <3>3 DEF CleanLinked
  <2> QED
    BY <2>1, <2>2
<1>12. c.subs.nodes \subseteq clear.nodes
  BY <1>3, <1>4, <1>5, <1>6
<1> QED
  BY <1>2, <1>7, <1>9, <1>10, <1>11, <1>12 DEF Sound, OnlyRefsOf, t

LEMMA InsertClusterSound ==
    ASSUME NEW X, NEW c, Sound(c, X), NEW cl \in Cluster, NEW xds \in Xds,
           NEW action \in Action \cup {None}, NEW stays
    PROVE  LET t == InsertCluster(c, cl, xds, action, stays) IN
           /\ Sound(t, X)
           /\ OnlyRefsOf(c.subs, t.subs, cl)
           /\ \A q \in Resource \ {cl} : t.data[q] = c.data[q]
  BY InsertClusterRejected, InsertClusterAccepted

-----------------------------------------------------------------------------
(* Listeners, RouteConfigurations and ClusterLoadAssignments *)

LEMMA RebuildSound ==
    ASSUME NEW X, NEW c, Sound(c, X), NEW xds \in Xds, xds.kind = "LbPolicy", NEW stays
    PROVE  LET t == Rebuild(c, xds, stays) IN
           /\ Sound(t, X)
           /\ OnlyRefsOf(c.subs, t.subs, xds.cluster)
<1> DEFINE cl == xds.cluster
<1>1. cl \in Cluster /\ xds.action \in Action
  BY PolicyShape
<1>2. CASE HasData(c.data, cl)
  <2>1. c.data[cl].xds \in Xds
    <3>1. c.data[cl] \in Entry
      BY <1>1, <1>2 DEF Sound, Good, Cache, Resource, HasData, HasEntry
    <3> QED
      BY <1>2, <3>1 DEF Entry, HasData
  <2> QED
    BY <1>1, <1>2, <2>1, InsertClusterSound DEF Rebuild
<1>3. CASE ~HasData(c.data, cl)
  BY <1>3 DEF Rebuild, OnlyRefsOf
<1> QED
  BY <1>2, <1>3

LEMMA LinkedSound ==
    ASSUME NEW r \in Listener \cup RouteConfiguration, NEW xds \in Xds,
           NEW c, Sound(c, {r}), r \in c.subs.nodes, NEW stays
    PROVE  LET t == Linked(c, r, xds, stays) IN
           /\ Sound(t, {r})
           /\ r \in t.subs.nodes
           /\ {r} \X RouteRefs(xds) \subseteq t.subs.edges
<1> DEFINE t == Linked(c, r, xds, stays)
           T == RouteRefs(xds)
<1>1. /\ c \in Cache /\ GoodGraph(c.subs) /\ r \in Resource /\ r \notin Cluster
      /\ T \subseteq Resource
  BY DisjointTypes, PolicyShape DEF Sound, Good, Resource
<1>2. CASE xds.kind = "LbPolicy"
  <2>1. xds.cluster \in Cluster /\ T = {}
    BY <1>2, PolicyShape
  <2>2. Sound(t, {r}) /\ OnlyRefsOf(c.subs, t.subs, xds.cluster)
    BY <1>2, RebuildSound DEF Linked
  <2>3. t.subs.edges \subseteq Resource \X Resource
    BY <2>2 DEF Sound, Good, GoodGraph, Graph
  <2> QED
    BY <1>1, <2>1, <2>2, <2>3 DEF OnlyRefsOf
<1>3. CASE xds.kind # "LbPolicy"
  <2> DEFINE s == AddRefs(c.subs, r, T)
  <2>1. /\ t.subs = s /\ t.data = c.data /\ t.dns = c.dns
        /\ t = [subs |-> t.subs, data |-> t.data, dns |-> t.dns]
    BY <1>1, <1>3 DEF Linked, Cache
  <2>2. /\ GoodGraph(s)
        /\ s.nodes = c.subs.nodes \cup T
        /\ s.edges = c.subs.edges \cup ({r} \X T)
        /\ s.added = c.subs.added \cup (T \ c.subs.nodes)
    BY <1>1, AddRefsGood
  <2> HIDE DEF s, t, T
  <2>3. t \in Cache
    BY <1>1, <2>1, <2>2 DEF Cache, GoodGraph
  <2>4. Good(t)
    BY <2>1, <2>2, <2>3 DEF Sound, Good
  <2>5. \A q \in Resource \ {r} : CleanLinked(t, q)
    BY <2>1, <2>2 DEF Sound, CleanLinked
  <2> QED
    BY <2>1, <2>2, <2>4, <2>5 DEF Sound, t, T
<1> QED
  BY <1>2, <1>3

LEMMA CommittedSound ==
    ASSUME NEW r \in Resource \ Cluster, NEW xds \in Xds,
           NEW c, Sound(c, {r}), r \in c.subs.nodes,
           {r} \X RouteRefs(xds) \subseteq c.subs.edges
    PROVE  Sound(Committed(c, r, xds), {})
<1> DEFINE t == Committed(c, r, xds)
           s == ClearChanges(c.subs, r)
           new == InsertOk(c.data, r, xds, None)
<1>1. /\ c \in Cache /\ GoodGraph(c.subs) /\ c.data \in DataSet
  BY DEF Sound, Good, Cache, DataSet
<1>2. /\ t.subs = s /\ t.data = new /\ t.dns = c.dns
      /\ t = [subs |-> t.subs, data |-> t.data, dns |-> t.dns]
  BY <1>1 DEF Committed, Cache
<1>3. /\ GoodGraph(s)
      /\ s.nodes = c.subs.nodes
      /\ s.edges = c.subs.edges
      /\ s.added = c.subs.added \ {r}
  BY <1>1, ClearChangesGood
<1>4. /\ new \in DataSet
      /\ HasData(new, r) /\ new[r].xds = xds
      /\ \A q \in Resource \ {r} : new[q] = c.data[q]
  BY <1>1, InsertOkFacts
<1> HIDE DEF t, s, new
<1>5. t \in Cache
  BY <1>1, <1>2, <1>3, <1>4 DEF Cache, GoodGraph, DataSet
<1>6. Good(t)
  BY <1>2, <1>3, <1>4, <1>5 DEF Sound, Good, HasData, HasEntry
<1>7. ASSUME NEW q \in Resource
      PROVE  CleanLinked(t, q)
  <2>1. CASE q = r
    <3>1. Refs(new, q) = RouteRefs(xds)
      BY <1>4, <2>1 DEF Refs
    <3> QED
      BY <1>2, <1>3, <2>1, <3>1 DEF CleanLinked
  <2>2. CASE q # r
    <3>1. /\ CleanLinked(c, q)
          /\ new[q] = c.data[q] /\ Refs(new, q) = Refs(c.data, q)
          /\ HasData(new, q) <=> HasData(c.data, q)
      BY <1>4, <2>2 DEF Sound, Refs, HasData, HasEntry
    <3> QED
      BY <1>2, <1>3, <3>1 DEF CleanLinked
  <2> QED
    BY <2>1, <2>2
<1> QED
  BY <1>6, <1>7 DEF Sound, t

LEMMA RejectedSound ==
    ASSUME NEW r \in Resource, NEW c, Sound(c, {r})
    PROVE  Sound(Rejected(c, r), {})
<1> DEFINE t == Rejected(c, r)
           new == InsertError(c.data, r)
<1>1. /\ c \in Cache /\ GoodGraph(c.subs) /\ c.data \in DataSet
  BY DEF Sound, Good, Cache, DataSet
<1>2. /\ t.subs = c.subs /\ t.data = new /\ t.dns = c.dns
      /\ t = [subs |-> t.subs, data |-> t.data, dns |-> t.dns]
  BY <1>1 DEF Rejected, Cache
<1>3. /\ new \in DataSet
      /\ new[r].error
      /\ \A q \in Resource :
           /\ q # r => new[q] = c.data[q]
           /\ HasData(new, q) <=> HasData(c.data, q)
           /\ Refs(new, q) = Refs(c.data, q)
  BY <1>1, InsertErrorFacts
<1> HIDE DEF t, new
<1>4. t \in Cache
  BY <1>1, <1>2, <1>3 DEF Cache, DataSet
<1>5. Good(t)
  BY <1>2, <1>3, <1>4 DEF Sound, Good
<1>6. \A q \in Resource : CleanLinked(t, q)
  BY <1>2, <1>3 DEF Sound, CleanLinked
<1> QED
  BY <1>5, <1>6 DEF Sound, t

LEMMA AcceptedSound ==
    ASSUME NEW r \in Listener \cup RouteConfiguration, NEW xds \in Xds,
           NEW c, Sound(c, {r}), r \in c.subs.nodes, NEW stays
    PROVE  Sound(Accepted(c, r, xds, stays), {})
<1> DEFINE t == Linked(c, r, xds, stays)
<1>1. r \in Resource \ Cluster
  BY DisjointTypes DEF Resource
<1>2. /\ Sound(t, {r})
      /\ r \in t.subs.nodes
      /\ {r} \X RouteRefs(xds) \subseteq t.subs.edges
  BY LinkedSound
<1> HIDE DEF t
<1>3. Sound(Rejected(t, r), {}) /\ Sound(Committed(t, r, xds), {})
  BY <1>1, <1>2, RejectedSound, CommittedSound
<1> QED
  BY <1>3 DEF Accepted, t

LEMMA Weaken ==
    ASSUME NEW c, Sound(c, {}), NEW r \in Resource
    PROVE  Sound(c, {r})
  BY DEF Sound

-----------------------------------------------------------------------------
(* What a call that takes nothing away does to a cache: interest, entries    *)
(* and content only grow, and what is new will be asked for.                 *)

GrownGraph(s, t) ==
    /\ s.nodes \subseteq t.nodes
    /\ t.wildcard \subseteq s.wildcard \cup Wildcard
    /\ s.added \subseteq t.added
    /\ t.nodes \subseteq s.nodes \cup t.added \cup Wildcard

Keeps(c, t) ==
    /\ c.subs.nodes \subseteq t.subs.nodes
    /\ t.subs.wildcard \subseteq c.subs.wildcard \cup Wildcard
    /\ \A r \in Resource :
          /\ r \in c.subs.added \cup (t.subs.nodes \ (c.subs.nodes \cup Wildcard))
               => r \in t.subs.added \/ HasData(t.data, r)
          /\ HasEntry(c.data, r) => HasEntry(t.data, r)
          /\ HasData(c.data, r) => HasData(t.data, r)
    /\ c.dns.add \subseteq t.dns.add
    /\ \A d \in Dns : HasData(t.data, d) => HasData(c.data, d) \/ d \in t.dns.add

\* And it takes no name from the resolver.
Grows(c, t) == Keeps(c, t) /\ t.dns.remove = c.dns.remove

LEMMA GrowsTransitive ==
    ASSUME NEW c, NEW t, NEW u, Grows(c, t), Grows(t, u)
    PROVE  Grows(c, u)
<1>1. ASSUME NEW r \in Resource,
             r \in c.subs.added \cup (u.subs.nodes \ (c.subs.nodes \cup Wildcard))
      PROVE  r \in u.subs.added \/ HasData(u.data, r)
  <2>1. CASE r \in c.subs.added \cup (t.subs.nodes \ (c.subs.nodes \cup Wildcard))
    <3>1. r \in t.subs.added \/ HasData(t.data, r)
      BY <2>1 DEF Grows, Keeps
    <3> QED
      BY <3>1 DEF Grows, Keeps
  <2>2. CASE r \in u.subs.nodes \ (t.subs.nodes \cup Wildcard)
    BY <2>2 DEF Grows, Keeps
  <2> QED
    BY <1>1, <2>1, <2>2
<1>2. Dns \subseteq Resource
  BY CacheConstants DEF Resource
<1>3. \A d \in Dns : HasData(u.data, d) => HasData(c.data, d) \/ d \in u.dns.add
  BY DEF Grows, Keeps
<1> QED
  BY <1>1, <1>3 DEF Grows, Keeps

LEMMA GrownGraphGrows ==
    ASSUME NEW c, NEW t, GrownGraph(c.subs, t.subs), t.data = c.data, t.dns = c.dns
    PROVE  Grows(c, t)
  BY DEF GrownGraph, Grows, Keeps

LEMMA FindOrSubscribeGrows ==
    ASSUME NEW s, GoodGraph(s), NEW r \in Resource
    PROVE  GrownGraph(s, FindOrSubscribe(s, r))
<1>1. CASE r \in Wildcard \ s.nodes
  <2>1. FindOrSubscribe(s, r) = [s EXCEPT !.nodes    = @ \cup {r},
                                          !.wildcard = @ \cup {r},
                                          !.added    = @]
    BY <1>1 DEF FindOrSubscribe, FindOrCreate
  <2> QED
    BY <1>1, <2>1 DEF GrownGraph, GoodGraph, Graph
<1>2. CASE r \notin Wildcard \ s.nodes
  <2>1. FindOrSubscribe(s, r) = s
    BY <1>2 DEF FindOrSubscribe, FindOrCreate
  <2> QED
    BY <2>1 DEF GrownGraph
<1> QED
  BY <1>1, <1>2

LEMMA SubscribeToGrows ==
    ASSUME NEW s, GoodGraph(s), NEW r \in Resource
    PROVE  GrownGraph(s, SubscribeTo(s, r))
<1>1. CASE r \notin s.nodes
  <2>1. SubscribeTo(s, r) =
          [[s EXCEPT !.nodes    = @ \cup {r},
                     !.wildcard = @,
                     !.added    = @ \cup {r}] EXCEPT !.explicit = @ \cup {r}]
    BY <1>1 DEF SubscribeTo, FindOrCreate
  <2> QED
    BY <1>1, <2>1 DEF GrownGraph, GoodGraph, Graph
<1>2. CASE r \in s.nodes
  <2>1. SubscribeTo(s, r) = [s EXCEPT !.explicit = @ \cup {r}]
    BY <1>2 DEF SubscribeTo, FindOrCreate
  <2> QED
    BY <2>1 DEF GrownGraph, GoodGraph, Graph
<1> QED
  BY <1>1, <1>2

LEMMA AddRefsGrows ==
    ASSUME NEW s, GoodGraph(s), NEW r, NEW T, NEW stays
    PROVE  /\ GrownGraph(s, AddRefs(s, r, T))
           /\ GrownGraph(s, ResetRefs(s, r, stays))
           /\ GrownGraph(s, UnsubscribeFrom(s, r))
  BY DEF GrownGraph, AddRefs, ResetRefs, UnsubscribeFrom, GoodGraph, Graph

\* Content is accepted for r: the one write that takes something off the
\* list of what to ask for.
LEMMA AcceptGrows ==
    ASSUME NEW c, NEW s, NEW r \in Resource, NEW xds \in Xds,
           NEW policy \in Action \cup {None}, NEW t,
           c.data \in DataSet, GoodGraph(s), GrownGraph(c.subs, s),
           t.subs = ClearChanges(s, r), t.data = InsertOk(c.data, r, xds, policy),
           t.dns.remove = c.dns.remove, c.dns.add \subseteq t.dns.add,
           r \in Dns => r \in t.dns.add
    PROVE  Grows(c, t)
<1> DEFINE u == ClearChanges(s, r)
           new == InsertOk(c.data, r, xds, policy)
<1>1. /\ u.nodes = s.nodes
      /\ u.wildcard = s.wildcard
      /\ u.added = s.added \ {r}
  BY DEF ClearChanges, GoodGraph, Graph
<1>2. /\ HasData(new, r)
      /\ \A q \in Resource \ {r} : new[q] = c.data[q]
  BY InsertOkFacts
<1> HIDE DEF u, new
<1>3. \A q \in Resource : /\ HasEntry(c.data, q) => HasEntry(new, q)
                          /\ HasData(c.data, q) => HasData(new, q)
  BY <1>2 DEF HasData, HasEntry
<1>4. ASSUME NEW q \in Resource,
             q \in c.subs.added \cup (u.nodes \ (c.subs.nodes \cup Wildcard))
      PROVE  q \in u.added \/ HasData(new, q)
  BY <1>1, <1>2, <1>4 DEF GrownGraph
<1>5. ASSUME NEW d \in Dns, HasData(new, d)
      PROVE  HasData(c.data, d) \/ d \in t.dns.add
  <2>1. d \in Resource
    BY CacheConstants DEF Resource
  <2> QED
    BY <1>2, <1>5, <2>1 DEF HasData, HasEntry
<1>6. t.subs = u /\ t.data = new
  BY DEF u, new
<1> QED
  BY <1>1, <1>3, <1>4, <1>5, <1>6 DEF Grows, Keeps, GrownGraph

LEMMA ErrorGrows ==
    ASSUME NEW c, NEW t, NEW r \in Resource, c.data \in DataSet,
           GrownGraph(c.subs, t.subs), t.data = InsertError(c.data, r), t.dns = c.dns
    PROVE  Grows(c, t)
<1> DEFINE new == InsertError(c.data, r)
<1>1. \A q \in Resource : /\ HasEntry(c.data, q) => HasEntry(new, q)
                          /\ HasData(new, q) <=> HasData(c.data, q)
  BY CacheConstants DEF DataSet, InsertError, HasData, HasEntry, Entry
<1>2. Dns \subseteq Resource
  BY CacheConstants DEF Resource
<1> HIDE DEF new
<1>3. t.data = new
  BY DEF new
<1> QED
  BY <1>1, <1>2, <1>3 DEF Grows, Keeps, GrownGraph

LEMMA InsertClusterGrows ==
    ASSUME NEW X, NEW c, Sound(c, X), NEW cl \in Cluster, NEW xds \in Xds,
           NEW action \in Action \cup {None}, NEW stays
    PROVE  Grows(c, InsertCluster(c, cl, xds, action, stays))
<1> DEFINE t == InsertCluster(c, cl, xds, action, stays)
           found == FindOrSubscribe(c.subs, cl)
           linked == AddRefs(ResetRefs(found, cl, stays), cl, ClusterRefs(cl))
<1>1. /\ c \in Cache /\ GoodGraph(c.subs) /\ c.data \in DataSet /\ cl \in Resource
  BY DEF Sound, Good, Cache, DataSet, Resource
<1>2. /\ GoodGraph(found)
      /\ cl \in found.nodes
      /\ GrownGraph(c.subs, found)
  BY <1>1, FindOrSubscribeGood, FindOrSubscribeGrows DEF Wildcard
<1>3. CASE ClusterParses(xds, action)
  <2>1. /\ GoodGraph(ResetRefs(found, cl, stays))
        /\ ResetRefs(found, cl, stays).nodes = found.nodes
        /\ GrownGraph(found, ResetRefs(found, cl, stays))
    BY <1>1, <1>2, ResetRefsGood, AddRefsGrows
  <2>2. /\ GoodGraph(linked)
        /\ GrownGraph(ResetRefs(found, cl, stays), linked)
    BY <1>2, <2>1, ClusterRefsType, AddRefsGood, AddRefsGrows
  <2>3. GrownGraph(c.subs, linked)
    BY <1>2, <2>1, <2>2 DEF GrownGraph
  <2>4. PolicyOf(xds, action) \in Action \cup {None}
    BY DEF PolicyOf
  <2>5. /\ t.subs = ClearChanges(linked, cl)
        /\ t.data = InsertOk(c.data, cl, xds, PolicyOf(xds, action))
        /\ t.dns = IF cl \in Dns THEN [c.dns EXCEPT !.add = @ \cup {cl}] ELSE c.dns
    BY <1>3 DEF InsertCluster
  <2>6. /\ t.dns.remove = c.dns.remove /\ c.dns.add \subseteq t.dns.add
        /\ cl \in Dns => cl \in t.dns.add
    BY <1>1, <2>5 DEF Cache, DnsUpdates
  <2> HIDE DEF t, linked
  <2> QED
    BY <1>1, <2>2, <2>3, <2>4, <2>5, <2>6, AcceptGrows DEF t
<1>4. CASE ~ClusterParses(xds, action)
  <2>1. t.subs = found /\ t.data = InsertError(c.data, cl) /\ t.dns = c.dns
    BY <1>1, <1>4 DEF InsertCluster, Cache
  <2> HIDE DEF t, found
  <2> QED
    BY <1>1, <1>2, <2>1, ErrorGrows DEF t
<1> QED
  BY <1>3, <1>4

LEMMA GrowsReflexive == ASSUME NEW c PROVE Grows(c, c)
  BY DEF Grows, Keeps

LEMMA RebuildGrows ==
    ASSUME NEW X, NEW c, Sound(c, X), NEW xds \in Xds, xds.kind = "LbPolicy", NEW stays
    PROVE  Grows(c, Rebuild(c, xds, stays))
<1> DEFINE cl == xds.cluster
<1>1. cl \in Cluster /\ xds.action \in Action
  BY PolicyShape
<1>2. CASE HasData(c.data, cl)
  <2>1. c.data[cl].xds \in Xds
    <3>1. c.data[cl] \in Entry
      BY <1>1, <1>2 DEF Sound, Good, Cache, Resource, HasData, HasEntry
    <3> QED
      BY <1>2, <3>1 DEF Entry, HasData
  <2> QED
    BY <1>1, <1>2, <2>1, InsertClusterGrows DEF Rebuild
<1>3. CASE ~HasData(c.data, cl)
  BY <1>3, GrowsReflexive DEF Rebuild
<1> QED
  BY <1>2, <1>3

LEMMA RejectedGrows ==
    ASSUME NEW X, NEW c, Sound(c, X), NEW r \in Resource
    PROVE  Grows(c, Rejected(c, r))
<1> DEFINE t == Rejected(c, r)
<1>1. c \in Cache /\ c.data \in DataSet
  BY DEF Sound, Good, Cache, DataSet
<1>2. t.subs = c.subs /\ t.data = InsertError(c.data, r) /\ t.dns = c.dns
  BY <1>1 DEF Rejected, Cache
<1>3. GrownGraph(c.subs, t.subs)
  BY <1>2 DEF GrownGraph
<1> HIDE DEF t
<1> QED
  BY <1>1, <1>2, <1>3, ErrorGrows DEF t

LEMMA CommittedGrows ==
    ASSUME NEW X, NEW c, Sound(c, X), NEW r \in Resource \ Dns, NEW xds \in Xds
    PROVE  Grows(c, Committed(c, r, xds))
<1> DEFINE t == Committed(c, r, xds)
<1>1. GoodGraph(c.subs) /\ c.data \in DataSet /\ GrownGraph(c.subs, c.subs)
  BY DEF Sound, Good, Cache, DataSet, GrownGraph
<1>2. /\ t.subs = ClearChanges(c.subs, r)
      /\ t.data = InsertOk(c.data, r, xds, None)
      /\ t.dns = c.dns
  BY DEF Committed
<1> HIDE DEF t
<1>3. None \in Action \cup {None}
  OBVIOUS
<1> QED
  BY <1>1, <1>2, <1>3, AcceptGrows DEF t

LEMMA AcceptedGrows ==
    ASSUME NEW r \in Listener \cup RouteConfiguration, NEW xds \in Xds,
           NEW c, Sound(c, {r}), r \in c.subs.nodes, NEW stays
    PROVE  Grows(c, Accepted(c, r, xds, stays))
<1> DEFINE t == Linked(c, r, xds, stays)
<1>1. /\ Sound(t, {r}) /\ r \in t.subs.nodes
      /\ r \in Resource /\ r \notin Dns
  BY LinkedSound, DisjointTypes, CacheConstants DEF Resource
<1>2. Grows(c, t)
  <2>1. CASE xds.kind = "LbPolicy"
    BY <2>1, RebuildGrows DEF Linked
  <2>2. CASE xds.kind # "LbPolicy"
    <3>1. c \in Cache /\ GoodGraph(c.subs)
      BY DEF Sound, Good
    <3>2. /\ t.subs = AddRefs(c.subs, r, RouteRefs(xds))
          /\ t.data = c.data /\ t.dns = c.dns
      BY <2>2, <3>1 DEF Linked, Cache
    <3> QED
      BY <3>1, <3>2, AddRefsGrows, GrownGraphGrows
  <2> QED
    BY <2>1, <2>2
<1> HIDE DEF t
<1>3. Grows(t, Rejected(t, r)) /\ Grows(t, Committed(t, r, xds))
  BY <1>1, RejectedGrows, CommittedGrows
<1>4. Accepted(c, r, xds, stays) \in {Rejected(t, r), Committed(t, r, xds)}
  BY DEF Accepted, t
<1> QED
  BY <1>2, <1>3, <1>4, GrowsTransitive

-----------------------------------------------------------------------------
(* The calls that insert, one per type *)

\* A Listener that is about to get new content: subscribed, its references reset.
LEMMA ListenerFound ==
    ASSUME NEW c, Sound(c, {}), NEW r \in Listener, NEW stays
    PROVE  LET found == [c EXCEPT !.subs = FindOrSubscribe(@, r)]
               reset == [found EXCEPT !.subs = ResetRefs(@, r, stays)]
           IN  /\ Sound(found, {}) /\ Grows(c, found)
               /\ Sound(reset, {r}) /\ Grows(found, reset)
               /\ r \in reset.subs.nodes
<1> DEFINE found == [c EXCEPT !.subs = FindOrSubscribe(@, r)]
           reset == [found EXCEPT !.subs = ResetRefs(@, r, stays)]
           s == FindOrSubscribe(c.subs, r)
<1>1. /\ c \in Cache /\ GoodGraph(c.subs) /\ r \in Resource
  BY DEF Sound, Good, Resource
<1>2. /\ GoodGraph(s)
      /\ c.subs.nodes \subseteq s.nodes
      /\ r \in s.nodes
      /\ s.edges = c.subs.edges
      /\ s.added \subseteq c.subs.added \cup ({r} \ c.subs.nodes)
  BY <1>1, FindOrSubscribeGood DEF Wildcard
<1>3. /\ found.subs = s /\ found.data = c.data /\ found.dns = c.dns
      /\ found = [subs |-> found.subs, data |-> found.data, dns |-> found.dns]
  BY <1>1 DEF Cache
<1>4. Sound(found, {})
  <2>1. found \in Cache
    BY <1>1, <1>2, <1>3 DEF Cache, GoodGraph
  <2>2. Good(found)
    BY <1>2, <1>3, <2>1 DEF Sound, Good
  <2>3. \A q \in Resource : CleanLinked(found, q)
    BY <1>2, <1>3 DEF Sound, CleanLinked
  <2> QED
    BY <2>2, <2>3 DEF Sound
<1>5. Grows(c, found)
  BY <1>1, <1>3, FindOrSubscribeGrows, GrownGraphGrows
<1> HIDE DEF found, s
<1>6. /\ Sound(reset, {r})
      /\ Grows(found, reset)
      /\ r \in reset.subs.nodes
  <2> DEFINE u == ResetRefs(found.subs, r, stays)
  <2>1. /\ GoodGraph(u)
        /\ u.nodes = found.subs.nodes
        /\ u.edges = {e \in found.subs.edges : e[1] # r \/ e \in stays}
        /\ u.added = found.subs.added
    BY <1>1, <1>2, <1>3, ResetRefsGood
  <2>2. found \in Cache
    BY <1>4 DEF Sound, Good
  <2>3. /\ reset.subs = u /\ reset.data = found.data /\ reset.dns = found.dns
        /\ reset = [subs |-> reset.subs, data |-> reset.data, dns |-> reset.dns]
    BY <2>2 DEF Cache
  <2>8. Grows(found, reset)
    BY <1>2, <1>3, <2>3, AddRefsGrows, GrownGraphGrows
  <2> HIDE DEF u, reset
  <2>4. reset \in Cache
    BY <2>1, <2>2, <2>3 DEF Cache, GoodGraph
  <2>5. Good(reset)
    BY <1>4, <2>1, <2>3, <2>4 DEF Sound, Good
  <2>6. \A q \in Resource \ {r} : CleanLinked(reset, q)
    BY <1>4, <2>1, <2>3 DEF Sound, CleanLinked
  <2>7. r \in reset.subs.nodes
    BY <1>2, <1>3, <2>1, <2>3
  <2> QED
    BY <2>5, <2>6, <2>7, <2>8 DEF Sound
<1> QED
  BY <1>4, <1>5, <1>6 DEF found

LEMMA InsertListenerSound ==
    ASSUME NEW c, Sound(c, {}), NEW r \in Listener, NEW xds \in Xds, NEW stays
    PROVE  LET t == InsertListener(c, r, xds, stays)
           IN  Sound(t, {}) /\ Grows(c, t)
<1> DEFINE found == [c EXCEPT !.subs = FindOrSubscribe(@, r)]
           reset == [found EXCEPT !.subs = ResetRefs(@, r, stays)]
<1>1. r \in Resource
  BY DEF Resource
<1>2. /\ Sound(found, {}) /\ Grows(c, found)
      /\ Sound(reset, {r}) /\ Grows(found, reset)
      /\ r \in reset.subs.nodes
  BY ListenerFound
<1> HIDE DEF found, reset
<1>3. Sound(Rejected(found, r), {}) /\ Grows(c, Rejected(found, r))
  BY <1>1, <1>2, Weaken, RejectedSound, RejectedGrows, GrowsTransitive
<1>4. Sound(Accepted(reset, r, xds, stays), {}) /\ Grows(c, Accepted(reset, r, xds, stays))
  BY <1>2, AcceptedSound, AcceptedGrows, GrowsTransitive
<1>5. InsertListener(c, r, xds, stays) \in {c, Rejected(found, r), Accepted(reset, r, xds, stays)}
  BY DEF InsertListener, found, reset
<1> QED
  BY <1>3, <1>4, <1>5, GrowsReflexive

LEMMA InsertRouteSound ==
    ASSUME NEW c, Sound(c, {}), NEW r \in RouteConfiguration, NEW xds \in Xds, NEW stays
    PROVE  LET t == InsertRoute(c, r, xds, stays)
           IN  Sound(t, {}) /\ Grows(c, t)
<1>1. r \in Resource /\ r \notin Listener
  BY DisjointTypes DEF Resource
<1>2. CASE r \notin c.subs.nodes
  BY <1>2, GrowsReflexive DEF InsertRoute
<1>3. CASE r \in c.subs.nodes
  <2>1. Sound(Rejected(c, r), {}) /\ Grows(c, Rejected(c, r))
    BY <1>1, Weaken, RejectedSound, RejectedGrows
  <2>2. Sound(Accepted(c, r, xds, stays), {}) /\ Grows(c, Accepted(c, r, xds, stays))
    BY <1>1, <1>3, Weaken, AcceptedSound, AcceptedGrows
  <2> QED
    BY <1>3, <2>1, <2>2 DEF InsertRoute
<1> QED
  BY <1>2, <1>3

LEMMA InsertAssignmentSound ==
    ASSUME NEW c, Sound(c, {}), NEW r \in ClusterLoadAssignment,
           NEW xds \in AssignmentForms
    PROVE  LET t == InsertAssignment(c, r, xds)
           IN  Sound(t, {}) /\ Grows(c, t)
<1>1. /\ r \in Resource \ Cluster /\ r \notin Listener
      /\ xds \in Xds /\ RouteRefs(xds) = {}
  BY DisjointTypes DEF Resource, Xds, AssignmentForms, Invalid, RouteRefs
<1>2. CASE r \notin c.subs.nodes
  BY <1>2, GrowsReflexive DEF InsertAssignment
<1>3. CASE r \in c.subs.nodes
  <2>1. Sound(Rejected(c, r), {}) /\ Grows(c, Rejected(c, r))
    BY <1>1, Weaken, RejectedSound, RejectedGrows
  <2>2. Sound(Committed(c, r, xds), {}) /\ Grows(c, Committed(c, r, xds))
    <3>1. {r} \X RouteRefs(xds) \subseteq c.subs.edges
      BY <1>1
    <3>2. r \in Resource \ Dns
      BY <1>1, CacheConstants
    <3>3. Grows(c, Committed(c, r, xds))
      BY <1>1, <3>2, CommittedGrows
    <3> QED
      BY <1>1, <1>3, <3>1, <3>3, Weaken, CommittedSound
  <2> QED
    BY <1>3, <2>1, <2>2 DEF InsertAssignment
<1> QED
  BY <1>2, <1>3

LEMMA FindLbActionType ==
    ASSUME NEW c, Sound(c, {}), NEW r \in Cluster
    PROVE  FindLbAction(c.data, r) \in Action \cup {None}
<1>1. c.data \in DataSet
  BY DEF Sound, Good, Cache, DataSet
<1>2. \A q \in Resource : PolicyIn(c.data, q) \in Action \cup {None}
  <2>1. ASSUME NEW q \in Resource, HasData(c.data, q), c.data[q].xds.kind = "LbPolicy"
        PROVE  c.data[q].xds.action \in Action
    <3>1. c.data[q].xds \in Xds
      BY <1>1, <2>1 DEF DataSet, HasData, HasEntry, Entry
    <3> QED
      BY <2>1, <3>1, PolicyShape
  <2> QED
    BY <2>1 DEF PolicyIn
<1>3. FindLbAction(c.data, r) \in Action \cup {None}
  <2> DEFINE l == LbListener[r]
  <2>1. l \in Resource
    BY CacheConstants DEF Resource
  <2>2. ASSUME HasData(c.data, l), c.data[l].xds.kind = "Rds"
        PROVE  c.data[l].xds.route \in Resource
    <3>1. c.data[l].xds \in Xds
      BY <1>1, <2>1, <2>2 DEF DataSet, HasData, HasEntry, Entry
    <3>2. RouteRefs(c.data[l].xds) = {c.data[l].xds.route}
      BY <2>2 DEF RouteRefs
    <3> QED
      BY <3>1, <3>2, PolicyShape
  <2> QED
    BY <1>2, <2>1, <2>2 DEF FindLbAction
<1> QED
  BY <1>3

LEMMA UpsertClusterSound ==
    ASSUME NEW c, Sound(c, {}), NEW r \in Cluster, NEW xds \in Xds, NEW stays
    PROVE  LET t == UpsertCluster(c, r, xds, stays)
           IN  Sound(t, {}) /\ Grows(c, t)
  BY FindLbActionType, InsertClusterSound, InsertClusterGrows, GrowsReflexive
     DEF UpsertCluster

-----------------------------------------------------------------------------
(* Calls that insert nothing *)

LEMMA SubscribeSound ==
    ASSUME NEW c, Sound(c, {}), NEW r \in Resource
    PROVE  Sound([c EXCEPT !.subs = SubscribeTo(@, r)], {})
<1> DEFINE s == FindOrCreate(c.subs, r, FALSE)
           t == [c EXCEPT !.subs = SubscribeTo(@, r)]
<1>1. c \in Cache /\ GoodGraph(c.subs)
  BY DEF Sound, Good
<1>2. /\ GoodGraph(s)
      /\ s.nodes = c.subs.nodes \cup {r}
      /\ s.edges = c.subs.edges
      /\ s.added \subseteq c.subs.added \cup ({r} \ c.subs.nodes)
  <2>1. FALSE \in BOOLEAN
    OBVIOUS
  <2> QED
    BY <1>1, <2>1, FindOrCreateGood, Zenon
<1>3. /\ t.subs = [s EXCEPT !.explicit = @ \cup {r}]
      /\ t.data = c.data /\ t.dns = c.dns
      /\ t = [subs |-> t.subs, data |-> t.data, dns |-> t.dns]
  <2>1. SubscribeTo(c.subs, r) = [s EXCEPT !.explicit = @ \cup {r}]
    BY DEF SubscribeTo
  <2> HIDE DEF s
  <2> QED
    BY <1>1, <2>1 DEF Cache
<1> HIDE DEF s, t
<1>4. /\ GoodGraph(t.subs)
      /\ t.subs.nodes = s.nodes /\ t.subs.edges = s.edges /\ t.subs.added = s.added
  BY <1>2, <1>3 DEF GoodGraph, Graph
<1>5. t \in Cache
  BY <1>1, <1>3, <1>4 DEF Cache, GoodGraph
<1>6. Good(t)
  BY <1>2, <1>3, <1>4, <1>5 DEF Sound, Good
<1>7. \A q \in Resource : CleanLinked(t, q)
  BY <1>2, <1>3, <1>4 DEF Sound, CleanLinked
<1> QED
  BY <1>6, <1>7 DEF Sound, t

LEMMA UnsubscribeSound ==
    ASSUME NEW c, Sound(c, {}), NEW r \in Resource
    PROVE  Sound([c EXCEPT !.subs = UnsubscribeFrom(@, r)], {})
<1> DEFINE t == [c EXCEPT !.subs = UnsubscribeFrom(@, r)]
<1>1. c \in Cache /\ GoodGraph(c.subs)
  BY DEF Sound, Good
<1>2. /\ t.subs = [c.subs EXCEPT !.explicit = @ \ {r}]
      /\ t.data = c.data /\ t.dns = c.dns
      /\ t = [subs |-> t.subs, data |-> t.data, dns |-> t.dns]
  BY <1>1 DEF Cache, UnsubscribeFrom
<1> HIDE DEF t
<1>3. /\ GoodGraph(t.subs)
      /\ t.subs.nodes = c.subs.nodes /\ t.subs.edges = c.subs.edges
      /\ t.subs.added = c.subs.added
  BY <1>1, <1>2 DEF GoodGraph, Graph
<1>4. t \in Cache
  BY <1>1, <1>2, <1>3 DEF Cache, GoodGraph
<1>5. Good(t)
  BY <1>2, <1>3, <1>4 DEF Sound, Good
<1>6. \A q \in Resource : CleanLinked(t, q)
  BY <1>2, <1>3 DEF Sound, CleanLinked
<1> QED
  BY <1>5, <1>6 DEF Sound, t

LEMMA DnsSound ==
    ASSUME NEW c, Sound(c, {}), NEW dn \in [add : SUBSET Dns, remove : SUBSET Dns]
    PROVE  Sound([c EXCEPT !.dns = dn], {})
<1> DEFINE t == [c EXCEPT !.dns = dn]
<1>1. c \in Cache
  BY DEF Sound, Good
<1>2. t.subs = c.subs /\ t.data = c.data /\ t \in Cache
  BY <1>1 DEF Cache, DnsUpdates
<1> HIDE DEF t
<1>3. Good(t) /\ \A q \in Resource : CleanLinked(t, q)
  BY <1>2 DEF Sound, Good, CleanLinked
<1> QED
  BY <1>3 DEF Sound, t

LEMMA RemoveSound ==
    ASSUME NEW c, Sound(c, {}), NEW r \in Resource, NEW stays
    PROVE  Sound(RemoveResource(c, r, stays), {})
<1> DEFINE t == RemoveResource(c, r, stays)
           s == ResetRefs(c.subs, r, stays)
           new == InsertTombstone(c.data, r)
<1>1. /\ c \in Cache /\ GoodGraph(c.subs) /\ c.data \in DataSet
  BY DEF Sound, Good, Cache, DataSet
<1>2. /\ t.subs = s /\ t.data = new /\ t.dns = c.dns
      /\ t = [subs |-> t.subs, data |-> t.data, dns |-> t.dns]
  BY <1>1 DEF RemoveResource, Cache
<1>3. /\ GoodGraph(s)
      /\ s.nodes = c.subs.nodes
      /\ s.edges = {e \in c.subs.edges : e[1] # r \/ e \in stays}
      /\ s.added = c.subs.added
  BY <1>1, ResetRefsGood
<1>4. /\ new \in DataSet
      /\ ~HasData(new, r)
      /\ \A q \in Resource \ {r} : new[q] = c.data[q]
  BY <1>1, InsertTombstoneFacts
<1> HIDE DEF t, s, new
<1>5. t \in Cache
  BY <1>1, <1>2, <1>3, <1>4 DEF Cache, GoodGraph, DataSet
<1>6. Good(t)
  BY <1>2, <1>3, <1>4, <1>5 DEF Sound, Good, HasData, HasEntry
<1>7. ASSUME NEW q \in Resource
      PROVE  CleanLinked(t, q)
  <2>1. CASE q = r
    BY <1>2, <1>3, <1>4, <2>1 DEF CleanLinked
  <2>2. CASE q # r
    <3>1. /\ CleanLinked(c, q)
          /\ new[q] = c.data[q] /\ Refs(new, q) = Refs(c.data, q)
          /\ HasData(new, q) <=> HasData(c.data, q)
      BY <1>4, <2>2 DEF Sound, Refs, HasData, HasEntry
    <3>2. \A e \in c.subs.edges : e[1] = q => e \in s.edges
      BY <1>3, <2>2
    <3> QED
      BY <1>2, <3>1, <3>2 DEF CleanLinked
  <2> QED
    BY <2>1, <2>2
<1> QED
  BY <1>6, <1>7 DEF Sound, t

LEMMA RemoveFacts ==
    ASSUME NEW c, Sound(c, {}), NEW r \in Resource, NEW stays
    PROVE  LET t == RemoveResource(c, r, stays) IN
           /\ t.subs.nodes = c.subs.nodes
           /\ t.subs.wildcard = c.subs.wildcard
           /\ t.subs.added = c.subs.added
           /\ t.dns = c.dns
           /\ HasEntry(t.data, r) /\ ~HasData(t.data, r)
           /\ \A q \in Resource \ {r} : t.data[q] = c.data[q]
<1>1. c \in Cache /\ GoodGraph(c.subs) /\ c.subs \in Graph /\ c.data \in DataSet
  BY DEF Sound, Good, Cache, DataSet, GoodGraph
<1> DEFINE s == ResetRefs(c.subs, r, stays)
           new == InsertTombstone(c.data, r)
<1>2. s.nodes = c.subs.nodes /\ s.wildcard = c.subs.wildcard /\ s.added = c.subs.added
  BY <1>1 DEF ResetRefs, Graph
<1>3. /\ HasEntry(new, r) /\ ~HasData(new, r)
      /\ \A q \in Resource \ {r} : new[q] = c.data[q]
  BY <1>1, InsertTombstoneFacts
<1> HIDE DEF s, new
<1> QED
  BY <1>2, <1>3 DEF RemoveResource, s, new

-----------------------------------------------------------------------------
(* Collection *)

LEMMA ReachableFacts ==
    ASSUME NEW s, GoodGraph(s)
    PROVE  /\ Reachable(s) \subseteq s.nodes
           /\ Roots(s) \subseteq Reachable(s)
           /\ Closed(s, Reachable(s))
<1>1. Reachable(s) \subseteq s.nodes
  BY DEF Reachable
<1>2. Roots(s) \subseteq Reachable(s)
  BY DEF Reachable, GoodGraph, Roots
<1>3. ASSUME NEW e \in s.edges, e[1] \in Reachable(s)
      PROVE  e[2] \in Reachable(s)
  <2>1. e[2] \in s.nodes
    BY DEF GoodGraph
  <2>2. ASSUME NEW extra \in SUBSET (s.nodes \ Roots(s)), Closed(s, Roots(s) \cup extra)
        PROVE  e[2] \in Roots(s) \cup extra
    <3>1. e[1] \in Roots(s) \cup extra
      BY <1>3, <2>2 DEF Reachable
    <3> QED
      BY <2>2, <3>1 DEF Closed
  <2> QED
    BY <2>1, <2>2 DEF Reachable
<1> QED
  BY <1>1, <1>2, <1>3 DEF Closed

LEMMA CollectSound ==
    ASSUME NEW c, Sound(c, {})
    PROVE  Sound(CollectCache(c).cache, {})
<1> DEFINE t == CollectCache(c).cache
           live == Reachable(c.subs)
           gone == Collected(c.subs).removed
           new == RemoveAll(c.data, gone)
<1>1. /\ c \in Cache /\ GoodGraph(c.subs) /\ c.data \in DataSet
      /\ c.subs \in Graph /\ c.subs.removed = {}
  BY DEF Sound, Good, Cache, DataSet, GoodGraph
<1>2. /\ live \subseteq c.subs.nodes
      /\ Closed(c.subs, live)
  BY <1>1, ReachableFacts
<1>3. gone = c.subs.nodes \ live
  BY <1>1 DEF Collected, Graph
<1>4. /\ t.subs.nodes = live
      /\ t.subs.explicit = c.subs.explicit \cap live
      /\ t.subs.wildcard = c.subs.wildcard \cap live
      /\ t.subs.edges = {e \in c.subs.edges : e[1] \in live /\ e[2] \in live}
      /\ t.subs.added = {} /\ t.subs.removed = {}
      /\ t.subs \in Graph
      /\ t.data = new /\ t.dns = NoDns
      /\ t = [subs |-> t.subs, data |-> t.data, dns |-> t.dns]
  <2>1. live \subseteq Resource
    BY <1>1, <1>2 DEF Graph
  <2> QED
    BY <1>1, <2>1 DEF CollectCache, Collected, Graph
<1>5. /\ new \in DataSet
      /\ \A q \in Resource : q \in gone => ~HasData(new, q)
      /\ \A q \in Resource : q \notin gone => new[q] = c.data[q]
  BY <1>1, RemoveAllFacts
<1> HIDE DEF t, live, gone, new
<1>6. GoodGraph(t.subs)
  <2>1. t.subs.edges \subseteq live \X live
    BY <1>1, <1>4 DEF GoodGraph
  <2> QED
    BY <1>4, <2>1 DEF GoodGraph
<1>7. t \in Cache
  BY <1>4, <1>5 DEF Cache, DnsUpdates, DataSet, NoDns
<1>8. Good(t)
  <2>1. ASSUME NEW r \in Resource, HasData(new, r)
        PROVE  r \in live
    BY <1>3, <1>5, <2>1 DEF Sound, Good, HasData, HasEntry
  <2> QED
    BY <1>4, <1>6, <1>7, <2>1 DEF Good
<1>9. ASSUME NEW r \in Resource
      PROVE  CleanLinked(t, r)
  <2>1. CleanLinked(c, r)
    BY DEF Sound
  <2>2. CASE r \in live
    <3>1. /\ new[r] = c.data[r] /\ Refs(new, r) = Refs(c.data, r)
          /\ HasData(new, r) <=> HasData(c.data, r)
      BY <1>3, <1>5, <2>2 DEF Refs, HasData, HasEntry
    <3>2. \A e \in c.subs.edges : e[1] = r => e \in t.subs.edges
      BY <1>2, <1>4, <2>2 DEF Closed
    <3> QED
      BY <1>4, <2>1, <3>1, <3>2 DEF CleanLinked
  <2>3. CASE r \notin live
    <3>1. ~HasData(new, r)
      BY <1>3, <1>5, <2>3 DEF Sound, Good, HasData, HasEntry
    <3>2. \A e \in t.subs.edges : e[1] # r
      BY <1>4, <2>3
    <3> QED
      BY <1>4, <3>1, <3>2 DEF CleanLinked
  <2> QED
    BY <2>2, <2>3
<1> QED
  BY <1>8, <1>9 DEF Sound, t

\* A collection takes entries with their interest and nothing else, and tells
\* what it takes.
LEMMA CollectFacts ==
    ASSUME NEW c, Sound(c, {})
    PROVE  LET collected == CollectCache(c)
               t == collected.cache
           IN  /\ t.subs.nodes \subseteq c.subs.nodes
               /\ t.subs.wildcard \subseteq c.subs.wildcard
               /\ collected.added = c.subs.added
               /\ collected.removed = c.subs.nodes \ t.subs.nodes
               /\ \A r \in Resource \ collected.removed : t.data[r] = c.data[r]
               /\ \A r \in Resource : HasData(t.data, r) => HasData(c.data, r)
               /\ t.dns = NoDns
               /\ collected.dns.add = c.dns.add
               /\ collected.dns.remove =
                    c.dns.remove \cup {d \in collected.removed \cap Dns : HasData(c.data, d)}
               /\ collected.dns \in DnsUpdates
<1> DEFINE collected == CollectCache(c)
           t == collected.cache
           live == Reachable(c.subs)
           gone == Collected(c.subs).removed
<1>1. /\ c \in Cache /\ GoodGraph(c.subs) /\ c.data \in DataSet
      /\ c.subs \in Graph /\ c.subs.removed = {}
  BY DEF Sound, Good, Cache, DataSet, GoodGraph
<1>2. live \subseteq c.subs.nodes
  BY <1>1, ReachableFacts
<1>3. gone = c.subs.nodes \ live
  BY <1>1 DEF Collected, Graph
<1>4. /\ t.subs.nodes = live
      /\ t.subs.wildcard = c.subs.wildcard \cap live
      /\ collected.added = c.subs.added
      /\ collected.removed = gone
      /\ t.data = RemoveAll(c.data, gone)
      /\ t.dns = NoDns
  BY <1>1 DEF CollectCache, Collected, Graph
<1>5. /\ \A q \in Resource : q \in gone => ~HasData(RemoveAll(c.data, gone), q)
      /\ \A q \in Resource : q \notin gone => RemoveAll(c.data, gone)[q] = c.data[q]
  BY <1>1, RemoveAllFacts
<1>6. \A q \in Resource : HasData(RemoveAll(c.data, gone), q) => HasData(c.data, q)
  BY <1>5 DEF HasData, HasEntry
<1>7. collected.dns = [c.dns EXCEPT !.remove = @ \cup {d \in gone \cap Dns : HasData(c.data, d)}]
  BY DEF CollectCache
<1> HIDE DEF collected, live, gone
<1>8. /\ collected.dns.add = c.dns.add
      /\ collected.dns.remove = c.dns.remove \cup {d \in gone \cap Dns : HasData(c.data, d)}
      /\ collected.dns \in DnsUpdates
  BY <1>1, <1>7 DEF Cache, DnsUpdates
<1>9. t.subs.nodes \subseteq c.subs.nodes /\ t.subs.wildcard \subseteq c.subs.wildcard
  BY <1>2, <1>4
<1>10. collected.removed = c.subs.nodes \ t.subs.nodes
  BY <1>3, <1>4
<1>11. /\ \A r \in Resource \ collected.removed : t.data[r] = c.data[r]
       /\ \A r \in Resource : HasData(t.data, r) => HasData(c.data, r)
  BY <1>4, <1>5, <1>6
<1> QED
  BY <1>4, <1>8, <1>9, <1>10, <1>11 DEF collected

-----------------------------------------------------------------------------
(* The whole of insert, and the cache at the start *)

LEMMA InsertedSound ==
    ASSUME NEW c, Sound(c, {}), NEW r \in Resource, NEW xds \in Sends[r], NEW stays
    PROVE  LET t == Inserted(c, r, xds, stays)
           IN  Sound(t, {}) /\ Grows(c, t)
<1>1. xds \in Xds
  BY CacheConstants
<1>2. CASE r \in Listener
  <2>1. Inserted(c, r, xds, stays) = InsertListener(c, r, xds, stays)
    BY <1>2, DisjointTypes DEF Inserted
  <2> QED
    BY <1>1, <1>2, <2>1, InsertListenerSound
<1>3. CASE r \in RouteConfiguration
  <2>1. Inserted(c, r, xds, stays) = InsertRoute(c, r, xds, stays)
    BY <1>3, DisjointTypes DEF Inserted
  <2> QED
    BY <1>1, <1>3, <2>1, InsertRouteSound
<1>4. CASE r \in Cluster
  <2>1. Inserted(c, r, xds, stays) = UpsertCluster(c, r, xds, stays)
    BY <1>4, DisjointTypes DEF Inserted
  <2> QED
    BY <1>1, <1>4, <2>1, UpsertClusterSound
<1>5. CASE r \in ClusterLoadAssignment
  <2>1. xds \in AssignmentForms
    BY <1>5, CacheConstants
  <2>2. Inserted(c, r, xds, stays) = InsertAssignment(c, r, xds)
    BY <1>5, DisjointTypes DEF Inserted
  <2> QED
    BY <1>5, <2>1, <2>2, InsertAssignmentSound
<1> QED
  BY <1>2, <1>3, <1>4, <1>5 DEF Resource

LEMMA EmptySound == Sound(EmptyCache, {})
<1>1. /\ EmptyCache.subs = EmptyGraph
      /\ EmptyCache \in Cache
  BY DEF EmptyCache, Cache, DnsUpdates, Graph, EmptyGraph, NoDns
<1>2. GoodGraph(EmptyGraph) /\ EmptyGraph.edges = {}
  BY DEF GoodGraph, EmptyGraph, Graph
<1>3. \A r \in Resource : ~HasData(EmptyCache.data, r)
  BY DEF HasData, HasEntry, EmptyCache
<1> HIDE DEF EmptyCache
<1>4. Good(EmptyCache)
  BY <1>1, <1>2, <1>3 DEF Good
<1>5. \A r \in Resource : CleanLinked(EmptyCache, r)
  BY <1>1, <1>2, <1>3 DEF CleanLinked
<1> QED
  BY <1>4, <1>5 DEF Sound

=============================================================================
