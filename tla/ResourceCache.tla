--------------------------- MODULE ResourceCache ---------------------------
(***************************************************************************)
(* The writer half of the xDS cache as a state machine: its owner inserts, *)
(* removes, subscribes and unsubscribes in any order and collects whenever *)
(* it likes.  One action is one call for one resource; a call with a batch *)
(* is a run of them, and readers do see the states in between.             *)
(***************************************************************************)
EXTENDS CacheState

VARIABLES subs, data, dns

vars == <<subs, data, dns>>

cache == [subs |-> subs, data |-> data, dns |-> dns]

Become(new) == subs' = new.subs /\ data' = new.data /\ dns' = new.dns

Init == subs = EmptyCache.subs /\ data = EmptyCache.data /\ dns = EmptyCache.dns

Subscribe(r) ==
    /\ r \in Wanted
    /\ Become([cache EXCEPT !.subs = SubscribeTo(@, r)])

Unsubscribe(r) ==
    /\ r \in Wanted
    /\ Become([cache EXCEPT !.subs = UnsubscribeFrom(@, r)])

SubscribeDns(c) ==
    /\ c \in Dns
    /\ Become([cache EXCEPT !.dns.add = @ \cup {c}])

UnsubscribeDns(c) ==
    /\ c \in Dns
    /\ Become([cache EXCEPT !.dns.remove = @ \cup {c}])

Insert(r, xds) ==
    /\ xds \in Sends[r]
    /\ \E new \in {Inserted(cache, r, xds, stays) : stays \in SUBSET MayStay(subs, r, xds)} :
          Become(new)

Remove(r) ==
    /\ r \in Deletes
    /\ \E stays \in SUBSET RefsFrom(subs, {r}) : Become(RemoveResource(cache, r, stays))

Collect == Become(CollectCache(cache).cache)

Next ==
    \/ \E r \in Resource :
         \/ Subscribe(r)
         \/ Unsubscribe(r)
         \/ SubscribeDns(r)
         \/ UnsubscribeDns(r)
         \/ \E xds \in Sends[r] : Insert(r, xds)
         \/ Remove(r)
    \/ Collect

Spec == Init /\ [][Next]_vars

-----------------------------------------------------------------------------
(* Properties *)

\* Every field of the cache stays in the set the code's types give it, the
\* graph mentions no resource but its nodes, and no removal waits for the
\* next collection: removals are made and handed out by the same call.
TypeOK ==
    /\ cache \in Cache
    /\ subs.explicit \cup subs.wildcard \cup subs.added \subseteq subs.nodes
    /\ subs.edges \subseteq subs.nodes \X subs.nodes
    /\ subs.removed = {}

\* Content a reader can see belongs to a subscription the collector sees:
\* whatever order inserts, removals and collections come in, nothing is
\* cached that could not be collected (insert_* against Cache::collect).
DataHasSubscription ==
    \A r \in Resource : HasData(data, r) => r \in subs.nodes

\* A subscription reported as new has no content yet: the inserts that bring
\* content clear the report, and a collection forgets both together.
AddedHasNoData == \A r \in subs.added : ~HasData(data, r)

\* Nothing in use is collected under a reader: what the last good update of a
\* resource refers to is an edge of the graph, so the collector keeps it.
\* (An entry whose update was rejected may lose them: see RejectionKeepsRefs.)
LinkedWhenClean ==
    \A r \in Resource :
        HasData(data, r) /\ ~data[r].error => {r} \X Refs(data, r) \subseteq subs.edges

\* A ring hash cluster balances with the policy its load balancer's Listener
\* carries inline, whichever of the two arrived first, and through rejected
\* updates of either.
InlinePolicyApplied ==
    \A c \in Cluster :
        LET l == LbListener[c] IN
        /\ HasData(data, c)
        /\ HasData(data, l)
        /\ data[l].xds.kind = "LbPolicy"
        => data[c].policy = PolicyOf(data[c].xds, data[l].xds.action)

\* Collecting never takes the content of a resource that is subscribed to,
\* or that a surviving clean entry refers to.
CollectKeepsWhatIsUsed ==
    [][Collect =>
         \A r \in Resource : HasData(data, r) /\ ~HasData(data', r) =>
            /\ r \notin Roots(subs)
            /\ \A p \in Resource :
                 HasData(data', p) /\ ~data[p].error => r \notin Refs(data, p)]_vars

\* An update that is rejected leaves the content readers see alone, of the
\* resource itself and of the cluster it would have rebuilt.
RejectionKeepsContent ==
    [][\A r \in Resource :
         (HasEntry(data', r) /\ data'[r].error) /\ ~(HasEntry(data, r) /\ data[r].error)
         => \A q \in Resource :
              HasData(data, q) => HasData(data', q) /\ data'[q].xds = data[q].xds
                                  /\ data'[q].policy = data[q].policy]_vars

-----------------------------------------------------------------------------
(* What the repository says and the code does not do *)

\* cache.rs:514: reset_refs is to remove all of "a subscription node's outgoing
\* edges".  The graph keeps no reference the content of a Listener or a Cluster
\* has dropped.
NoStaleRefs ==
    \A e \in subs.edges : e[1] \in Listener \cup Cluster => e[2] \in Refs(data, e[1])

\* cache.rs:33-36: the owner calls collect "to remove unused resources".
\* After a collection every subscription is a root or is referred to by the
\* content of another one.
UnusedAreCollected ==
    [][Collect =>
         \A r \in subs'.nodes :
            r \in Roots(subs') \/ \E p \in subs'.nodes : r \in Refs(data', p)]_vars

\* cache.rs:1377: an invalid update "should not have changed the cache".  A
\* rejected update leaves the references of the resource alone too.
RejectionKeepsRefs ==
    [][\A r \in Resource :
         HasData(data, r) /\ HasEntry(data', r) /\ data'[r].error /\ ~data[r].error
         => {e \in subs.edges : e[1] = r} \subseteq subs'.edges]_vars

=============================================================================
