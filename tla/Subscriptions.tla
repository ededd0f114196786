--------------------------- MODULE Subscriptions ---------------------------
(***************************************************************************)
(* The subscription graph of the xDS cache (xds/cache.rs, struct           *)
(* Subscriptions): which resources the client is interested in, why, and   *)
(* which of them refer to which.  A graph is a record                      *)
(*   nodes     resources with a subscription                               *)
(*   explicit  nodes someone called subscribe() for                        *)
(*   wildcard  nodes created by inserting a resource nobody had asked for  *)
(*   edges     pairs <<from, to>>: the data of `from' refers to `to'       *)
(*   added, removed   the changes since the last collection                *)
(* and every method of the struct is an operator from graphs to graphs;    *)
(* `stays' are the edges that a reset leaves in the graph.                 *)
(* Parallel edges of the petgraph are one pair: reachability, the only     *)
(* thing edges are used for, does not tell them apart.                     *)
(***************************************************************************)
CONSTANTS
    Listener,               \* names of resources, one set per ResourceType
    RouteConfiguration,
    Cluster,
    ClusterLoadAssignment

Resource == Listener \cup RouteConfiguration \cup Cluster \cup ClusterLoadAssignment

\* A name is looked up with its type: the four name spaces do not overlap.
ASSUME DisjointTypes ==
    /\ Listener \cap (RouteConfiguration \cup Cluster \cup ClusterLoadAssignment) = {}
    /\ RouteConfiguration \cap (Cluster \cup ClusterLoadAssignment) = {}
    /\ Cluster \cap ClusterLoadAssignment = {}

\* Types in wildcard mode.  Only a test can switch a type out of it.
Wildcard == Listener \cup Cluster

Graph == [nodes    : SUBSET Resource,
          explicit : SUBSET Resource,
          wildcard : SUBSET Resource,
          edges    : SUBSET (Resource \X Resource),
          added    : SUBSET Resource,
          removed  : SUBSET Resource]

EmptyGraph == [nodes |-> {}, explicit |-> {}, wildcard |-> {},
               edges |-> {}, added |-> {}, removed |-> {}]

\* Only a subscription that asks for something new is reported as added.
FindOrCreate(s, r, wild) ==
    IF r \in s.nodes
      THEN s
      ELSE [s EXCEPT !.nodes    = @ \cup {r},
                     !.wildcard = IF wild THEN @ \cup {r} ELSE @,
                     !.added    = IF wild THEN @ ELSE @ \cup {r}]

\* Inserting a resource finds its subscription, or creates one in wildcard
\* mode; the resource is dropped when r is still not a node of the result.
FindOrSubscribe(s, r) ==
    IF r \in Wildcard THEN FindOrCreate(s, r, TRUE) ELSE s

SubscribeTo(s, r) ==
    [FindOrCreate(s, r, FALSE) EXCEPT !.explicit = @ \cup {r}]

UnsubscribeFrom(s, r) == [s EXCEPT !.explicit = @ \ {r}]

RefsFrom(s, R) == {e \in s.edges : e[1] \in R}

\* The edges of r are listed by index and removed one by one.  Each removal
\* moves the last edge of the graph to the free index, so that an index listed
\* for later may be past the end, and its edge stays.  Which ones do depends
\* on the order of the edges and on parallel ones, neither of which is in the
\* model: any may.
ResetRefs(s, r, stays) == [s EXCEPT !.edges = {e \in @ : e[1] # r \/ e \in stays}]

\* Mutated: an edge to what is there, no edge to what is created.
AddRefs_ExistingOnly(s, r, targets) ==
    [s EXCEPT !.nodes = @ \cup targets,
              !.added = @ \cup (targets \ s.nodes),
              !.edges = @ \cup ({r} \X (targets \cap s.nodes))]

\* One add_ref per target.  A target created here is no wildcard, so that it
\* can be collected once nothing refers to it.
AddRefs(s, r, targets) ==
    [s EXCEPT !.nodes = @ \cup targets,
              !.added = @ \cup (targets \ s.nodes),
              !.edges = @ \cup ({r} \X targets)]

\* Mutated: only a pending removal is forgotten.
ClearChanges_Removed(s, r) == [s EXCEPT !.removed = @ \ {r}]

\* Mutated: whatever else waits to be asked for is forgotten too.
ClearChanges_All(s, r) == [s EXCEPT !.added = {}, !.removed = {}]

ClearChanges(s, r) == [s EXCEPT !.added = @ \ {r}, !.removed = @ \ {r}]

Roots(s) == s.explicit \cup s.wildcard

Closed(s, S) == \A e \in s.edges : e[1] \in S => e[2] \in S

\* The nodes every set that holds the roots and is closed under edges holds:
\* the ones a depth first search from the roots discovers.
Reachable(s) ==
    {n \in s.nodes :
        \A extra \in SUBSET (s.nodes \ Roots(s)) :
            Closed(s, Roots(s) \cup extra) => n \in Roots(s) \cup extra}

\* Mutated: only what a root refers to directly is kept.
Collected_OneHop(s) ==
    LET live == Roots(s) \cup {e[2] : e \in {f \in s.edges : f[1] \in Roots(s)}}
    IN  [s EXCEPT !.nodes    = live,
                  !.edges    = {e \in @ : e[1] \in live /\ e[2] \in live},
                  !.removed  = @ \cup (s.nodes \ live)]

\* Collection drops every node that is not reachable, with its edges.
Collected(s) ==
    LET live == Reachable(s)
    IN  [s EXCEPT !.nodes    = live,
                  !.explicit = @ \cap live,
                  !.wildcard = @ \cap live,
                  !.edges    = {e \in @ : e[1] \in live /\ e[2] \in live},
                  !.removed  = @ \cup (s.nodes \ live)]

=============================================================================
