----------------------------- MODULE CacheState -----------------------------
(***************************************************************************)
(* What the writer half of the xDS cache holds (xds/cache.rs, struct       *)
(* Cache) and what one call does to it.  A cache is a record               *)
(*   subs  the subscription graph (module Subscriptions)                   *)
(*   data  what readers see: an entry per resource, or Absent              *)
(*   dns   DNS names to start and to stop resolving, since the last        *)
(*         collection; a DNS name stands for its cluster, whose name it is *)
(* and an operator per method, from caches to caches, so that a batch of   *)
(* calls is a composition.  The content of a resource is a record with a   *)
(* "kind": what the control flow branches on and the names it refers to.   *)
(* Versions are left out: an entry has one exactly when it has content.    *)
(***************************************************************************)
EXTENDS Subscriptions

CONSTANTS
    Dns,           \* clusters whose backend is a DNS service
    LbListener,    \* cluster -> the Listener that configures its load balancer
    Eds,           \* cluster -> the ClusterLoadAssignment of the same name
    Action,        \* route actions a load balancer policy can carry
    BadAction,     \* those whose hash policies do not parse
    Wanted,        \* resources clients may subscribe to
    Sends,         \* resource -> contents the control plane may send for it
    Deletes,       \* resources the control plane may say are gone
    None,          \* no content, no policy
    Absent         \* no entry

\* The forms a content can take.
Invalid  == [kind |-> "Invalid"]
Rds(rc)  == [kind |-> "Rds", route |-> rc]
Route(S) == [kind |-> "Route", clusters |-> S]
LbPolicy(c, a) == [kind |-> "LbPolicy", cluster |-> c, action |-> a]

RouteForms == {Invalid} \cup {Route(S) : S \in SUBSET Cluster}
                        \cup {LbPolicy(c, a) : c \in Cluster, a \in Action}
ListenerForms == RouteForms \cup {Rds(rc) : rc \in RouteConfiguration}
ClusterForms == {Invalid, [kind |-> "RoundRobin"], [kind |-> "RingHash"]}
AssignmentForms == {Invalid, [kind |-> "Endpoints"]}
Xds == ListenerForms \cup ClusterForms \cup AssignmentForms

\* Content that does not parse or never came is None; policy is the action a
\* cluster's load balancer was built with; error is last_error.is_some().
Entry == [xds : Xds \cup {None}, policy : Action \cup {None}, error : BOOLEAN]

ASSUME CacheConstants ==
    /\ Dns \subseteq Cluster
    /\ LbListener \in [Cluster -> Listener]
    /\ Eds \in [Cluster -> ClusterLoadAssignment]
    /\ BadAction \subseteq Action
    \* a RouteConfiguration is only ever subscribed to by reference
    /\ Wanted \subseteq Resource \ RouteConfiguration
    /\ Deletes \subseteq Resource
    /\ Sends \in [Resource -> SUBSET Xds]
    /\ \A l \in Listener : Sends[l] \subseteq ListenerForms
    /\ \A rc \in RouteConfiguration : Sends[rc] \subseteq RouteForms
    /\ \A c \in Cluster : Sends[c] \subseteq ClusterForms
    /\ \A e \in ClusterLoadAssignment : Sends[e] \subseteq AssignmentForms
    \* the name of a RouteConfiguration says whether it is a policy
    /\ \A rc \in RouteConfiguration : \A x, y \in Sends[rc] :
          x.kind = "Route" => y.kind # "LbPolicy"
    /\ None \notin Xds
    /\ Absent \notin Entry

DnsUpdates == [add : SUBSET Dns, remove : SUBSET Dns]

Cache == [subs : Graph,
          data : [Resource -> Entry \cup {Absent}],
          dns  : DnsUpdates]

NoDns == [add |-> {}, remove |-> {}]

EmptyCache == [subs |-> EmptyGraph,
               data |-> [r \in Resource |-> Absent],
               dns  |-> NoDns]

HasEntry(data, r) == data[r] # Absent
HasData(data, r)  == HasEntry(data, r) /\ data[r].xds # None

\* The four writes of a ResourceMap.
InsertOk(data, r, xds, policy) ==
    [data EXCEPT ![r] = [xds |-> xds, policy |-> policy, error |-> FALSE]]

InsertTombstone(data, r) ==
    [data EXCEPT ![r] = [xds |-> None, policy |-> None, error |-> FALSE]]

\* Mutated: an error replaces the entry.
InsertError_DropsData(data, r) ==
    [data EXCEPT ![r] = [xds |-> None, policy |-> None, error |-> TRUE]]

\* Mutated: the error is not recorded.
InsertError_Silent(data, r) ==
    IF HasEntry(data, r)
      THEN data
      ELSE [data EXCEPT ![r] = [xds |-> None, policy |-> None, error |-> TRUE]]

\* A rejected update keeps what was there.
InsertError(data, r) ==
    [data EXCEPT ![r] = IF HasEntry(data, r)
                          THEN [data[r] EXCEPT !.error = TRUE]
                          ELSE [xds |-> None, policy |-> None, error |-> TRUE]]

\* Mutated: only the interest is collected.
RemoveAll_Nothing(data, names) == data

RemoveAll(data, names) == [r \in Resource |-> IF r \in names THEN Absent ELSE data[r]]

IsChanged(data, r, xds) == HasData(data, r) => data[r].xds # xds

-----------------------------------------------------------------------------
(* Clusters *)

\* Only a ring hash reads the action, and only it can choke on one.
PolicyParses(xds, action) == ~(xds.kind = "RingHash" /\ action \in BadAction)

PolicyOf(xds, action) == IF xds.kind = "RingHash" THEN action ELSE None

ClusterParses(xds, action) == xds # Invalid /\ PolicyParses(xds, action)

\* A cluster refers to its load balancer's Listener and, unless DNS resolves
\* it, to its endpoints.
ClusterRefs(c) == {LbListener[c]} \cup (IF c \in Dns THEN {} ELSE {Eds[c]})

InsertCluster(cache, c, xds, action, stays) ==
    LET found == FindOrSubscribe(cache.subs, c)
    IN  IF ClusterParses(xds, action)
          THEN [subs |-> ClearChanges(AddRefs(ResetRefs(found, c, stays), c, ClusterRefs(c)), c),
                data |-> InsertOk(cache.data, c, xds, PolicyOf(xds, action)),
                dns  |-> IF c \in Dns THEN [cache.dns EXCEPT !.add = @ \cup {c}]
                                      ELSE cache.dns]
          ELSE [cache EXCEPT !.subs = found, !.data = InsertError(@, c)]

\* The policy the content of another resource in the cache already holds for c.
PolicyIn(data, r) ==
    IF HasData(data, r) /\ data[r].xds.kind = "LbPolicy" THEN data[r].xds.action ELSE None

\* Mutated: a cluster that arrives last never finds its policy.
FindLbAction_Never(data, c) == None

FindLbAction(data, c) ==
    LET l == LbListener[c]
    IN  IF HasData(data, l) /\ data[l].xds.kind = "Rds"
          THEN PolicyIn(data, data[l].xds.route)
          ELSE PolicyIn(data, l)

\* insert_clusters, for one cluster of the batch.
UpsertCluster(cache, c, xds, stays) ==
    IF IsChanged(cache.data, c, xds)
      THEN InsertCluster(cache, c, xds, FindLbAction(cache.data, c), stays)
      ELSE cache

\* A new policy rebuilds the cluster it names, when that one is in cache.
RebuildFails(data, xds) ==
    /\ xds.kind = "LbPolicy"
    /\ HasData(data, xds.cluster)
    /\ ~ClusterParses(data[xds.cluster].xds, xds.action)

Rebuild(cache, xds, stays) ==
    IF HasData(cache.data, xds.cluster)
      THEN InsertCluster(cache, xds.cluster, cache.data[xds.cluster].xds, xds.action, stays)
      ELSE cache

-----------------------------------------------------------------------------
(* Listeners and RouteConfigurations *)

\* What the content of a Listener or a RouteConfiguration refers to.
RouteRefs(xds) ==
    CASE xds.kind = "Rds"   -> {xds.route}
      [] xds.kind = "Route" -> xds.clusters
      [] OTHER              -> {}

\* Follow the content of r: refer to what it names, or rebuild the cluster
\* whose policy it is.
Linked(cache, r, xds, stays) ==
    IF xds.kind = "LbPolicy"
      THEN Rebuild(cache, xds, stays)
      ELSE [cache EXCEPT !.subs = AddRefs(@, r, RouteRefs(xds))]

Committed(cache, r, xds) ==
    [subs |-> ClearChanges(cache.subs, r),
     data |-> InsertOk(cache.data, r, xds, None),
     dns  |-> cache.dns]

Rejected(cache, r) == [cache EXCEPT !.data = InsertError(@, r)]

\* What the content in cache for r refers to.
Refs(data, r) ==
    IF ~HasData(data, r) THEN {}
    ELSE IF r \in Cluster THEN ClusterRefs(r)
    ELSE RouteRefs(data[r].xds)

Accepted(cache, r, xds, stays) ==
    IF RebuildFails(cache.data, xds)
      THEN Rejected(Linked(cache, r, xds, stays), r)
      ELSE Committed(Linked(cache, r, xds, stays), r, xds)

InsertListener(cache, l, xds, stays) ==
    LET found == [cache EXCEPT !.subs = FindOrSubscribe(@, l)]
    IN  CASE ~IsChanged(cache.data, l, xds) -> cache
          [] IsChanged(cache.data, l, xds) /\ xds = Invalid -> Rejected(found, l)
          [] OTHER -> Accepted([found EXCEPT !.subs = ResetRefs(@, l, stays)], l, xds, stays)

\* Outside wildcard mode: dropped unless subscribed.  The references of the
\* content it replaces stay, insert_route_configs never resets them.
InsertRoute(cache, rc, xds, stays) ==
    CASE rc \notin cache.subs.nodes -> cache
      [] rc \in cache.subs.nodes /\ xds = Invalid -> Rejected(cache, rc)
      [] OTHER -> Accepted(cache, rc, xds, stays)

InsertAssignment(cache, e, xds) ==
    CASE e \notin cache.subs.nodes -> cache
      [] e \in cache.subs.nodes /\ xds = Invalid -> Rejected(cache, e)
      [] OTHER -> Committed(cache, e, xds)

\* Cache::insert, for one resource.
Inserted(st, r, xds, stays) ==
    CASE r \in Listener           -> InsertListener(st, r, xds, stays)
      [] r \in RouteConfiguration -> InsertRoute(st, r, xds, stays)
      [] r \in Cluster            -> UpsertCluster(st, r, xds, stays)
      [] OTHER                    -> InsertAssignment(st, r, xds)

\* References that a reset may leave when r gets xds: its own, and those of
\* the cluster whose policy xds is.
MayStay(s, r, xds) ==
    RefsFrom(s, {r} \cup {c \in Cluster : xds.kind = "LbPolicy" /\ xds.cluster = c})

\* The control plane says r is gone: readers see that, the interest stays.
RemoveResource(cache, r, stays) ==
    [subs |-> ResetRefs(cache.subs, r, stays),
     data |-> InsertTombstone(cache.data, r),
     dns  |-> cache.dns]

-----------------------------------------------------------------------------
(* Collection *)

\* Mutated: the changes are read and not taken.
CollectCache_Untaken(cache) ==
    LET subs == Collected(cache.subs)
    IN  [cache   |-> [subs |-> subs,
                      data |-> RemoveAll(cache.data, subs.removed),
                      dns  |-> NoDns],
         added   |-> subs.added,
         removed |-> subs.removed,
         dns     |-> cache.dns]

\* The data goes with the subscription, and a cluster that had data takes its
\* DNS name along.  Changes and DNS updates are handed to the caller.
CollectCache(cache) ==
    LET subs == Collected(cache.subs)
        gone == subs.removed
    IN  [cache   |-> [subs |-> [subs EXCEPT !.added = {}, !.removed = {}],
                      data |-> RemoveAll(cache.data, gone),
                      dns  |-> NoDns],
         added   |-> subs.added,
         removed |-> gone,
         dns     |-> [cache.dns EXCEPT
                        !.remove = @ \cup {c \in gone \cap Dns : HasData(cache.data, c)}]]

=============================================================================
