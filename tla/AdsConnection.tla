--------------------------- MODULE AdsConnection ---------------------------
(***************************************************************************)
(* The task that drives the cache (xds.rs, AdsTask::run_connection and     *)
(* AdsConnection) together with what it talks to: client handles that      *)
(* subscribe, the DNS resolver, and an ADS server behind a stream that     *)
(* delays responses and can break at any point.                            *)
(*                                                                         *)
(* A request takes effect at the server when it is sent.  Its delay is     *)
(* part of the delay of the responses: neither end can tell them apart.    *)
(* Of the resolver, only the names it resolves matter here; the module     *)
(* DnsResolver has the rest.                                               *)
(***************************************************************************)
EXTENDS CacheState, Sequences, SequencesExt

CONSTANTS
    Updates,       \* SubscriptionUpdates the clients can send
    Garbled,       \* types the server may send a response for that does not decode
    Unreliable,    \* whether the stream can break
    MaxInFlight,   \* bound on the responses that wait
    Nonce          \* of the responses without an answer, which it bounds

Types == <<"Cluster", "ClusterLoadAssignment", "Listener", "RouteConfiguration">>
Type  == ToSet(Types)

OfType(t) ==
    CASE t = "Cluster"               -> Cluster
      [] t = "ClusterLoadAssignment" -> ClusterLoadAssignment
      [] t = "Listener"              -> Listener
      [] OTHER                       -> RouteConfiguration

TypeOf(r) == CHOOSE t \in Type : r \in OfType(t)

\* Resources the server only sends when they were asked for by name.
Named == Resource \ Wildcard

\* AckState: which response was handled, and whether it was refused.
Ack == [nonce : Nonce, error : BOOLEAN]

Request == [type : Type \cup {"unknown"}, wild : BOOLEAN, ack : Ack \cup {None},
            add : SUBSET Resource, remove : SUBSET Resource, versions : SUBSET Resource]

Response == [type : Type \cup {"unknown"}, nonce : Nonce,
             kind : {"resource", "removed", "undecodable"},
             name : Resource \cup {None}, xds : Xds \cup {None}]

\* What the server knows a response by.
Sent == [type : Type \cup {"unknown"}, nonce : Nonce]

ASSUME ConnectionConstants ==
    /\ Updates \subseteq [op : {"AddHosts", "RemoveHosts"}, name : Listener]
                    \cup [op : {"AddBackends", "RemoveBackends", "AddEndpoints", "RemoveEndpoints"},
                          name : Cluster]
    /\ Garbled \subseteq Type \cup {"unknown"}
    /\ Unreliable \in BOOLEAN
    /\ MaxInFlight \in Nat \ {0}
    /\ None \notin Ack

VARIABLES
    subs, data, dns,   \* the cache
    phase,             \* "down", "reading" updates, or "sending" requests
    batch,             \* an update was handled since the last flush
    acks,              \* AdsConnection::acks
    unknown,           \* responses of unknown types that wait for their nack
    out, dnsOut,       \* what outgoing() returned and is not sent yet
    incoming,          \* responses on their way
    pinned, listed,    \* names the resolver was subscribed to, or given by set_names
    tracked,           \* what the server sends: the names asked for, the wildcard types
    unanswered,        \* responses the server has neither an ack nor a nack for
    overtaken          \* history: those another of their type followed in their batch

cacheVars    == <<subs, data, dns>>
connVars     == <<phase, batch, acks, unknown, out, dnsOut>>
resolverVars == <<pinned, listed>>
serverVars   == <<tracked, unanswered, overtaken>>
vars == <<cacheVars, connVars, incoming, resolverVars, serverVars>>

cache == [subs |-> subs, data |-> data, dns |-> dns]

Become(new) == subs' = new.subs /\ data' = new.data /\ dns' = new.dns

NoAcks == [t \in Type |-> None]

Init ==
    /\ subs = EmptyCache.subs /\ data = EmptyCache.data /\ dns = EmptyCache.dns
    /\ phase = "down" /\ batch = FALSE /\ acks = NoAcks /\ unknown = <<>>
    /\ out = <<>> /\ dnsOut = NoDns /\ incoming = <<>>
    /\ pinned = {} /\ listed = {}
    /\ tracked = {} /\ unanswered = {} /\ overtaken = {}

-----------------------------------------------------------------------------
(* Connecting *)

WithData(t) == {r \in OfType(t) : HasData(data, r)}

\* Mutated: what is only referred to is not asked for again.
InitialSubscriptions_Explicit(t) == (OfType(t) \cap subs.explicit) \ WithData(t)

\* Asked for by name and not in cache.
InitialSubscriptions(t) == ((OfType(t) \cap subs.nodes) \ subs.wildcard) \ WithData(t)

InitialRequest(t) ==
    [type |-> t, wild |-> OfType(t) \cap Wildcard # {}, ack |-> None,
     add |-> InitialSubscriptions(t), remove |-> {}, versions |-> WithData(t)]

\* A request, when it has something to say.
Optional(q, needed) == IF needed THEN <<q>> ELSE <<>>

InEveryType(requests) ==
    requests[Types[1]] \o requests[Types[2]] \o requests[Types[3]] \o requests[Types[4]]

InitialRequests ==
    InEveryType([t \in Type |->
        LET q == InitialRequest(t)
        IN  Optional(q, q.wild \/ q.add # {} \/ q.versions # {})])

\* Mutated: the resolver is left as it is.
Connect_KeepNames ==
    /\ phase = "down"
    /\ out' = InitialRequests
    /\ dnsOut' = NoDns
    /\ acks' = NoAcks /\ unknown' = <<>>
    /\ phase' = "sending"
    /\ UNCHANGED <<cacheVars, batch, incoming, resolverVars, serverVars>>

\* The stream is up: the resolver gets the names in cache, the server the
\* initial requests.
Connect ==
    /\ phase = "down"
    /\ listed' = {c \in Dns : HasData(data, c)}
    /\ out' = InitialRequests
    /\ dnsOut' = NoDns
    /\ acks' = NoAcks /\ unknown' = <<>>
    /\ phase' = "sending"
    /\ UNCHANGED <<cacheVars, batch, incoming, pinned, serverVars>>

\* The stream breaks, or a send finds it broken.  Both ends forget it; the
\* cache and the resolver stay as they are.
Disconnect ==
    /\ Unreliable
    /\ phase # "down"
    /\ phase' = "down" /\ batch' = FALSE
    /\ out' = <<>> /\ dnsOut' = NoDns /\ incoming' = <<>>
    /\ acks' = NoAcks /\ unknown' = <<>>
    /\ tracked' = {} /\ unanswered' = {} /\ overtaken' = {}
    /\ UNCHANGED <<cacheVars, resolverVars>>

-----------------------------------------------------------------------------
(* handle_update_batch: any number of updates, then the flush *)

\* Whether cache.insert returns an error.
InsertFails(r, xds) ==
    CASE r \in Cluster            -> IsChanged(data, r, xds)
                                        /\ ~ClusterParses(xds, FindLbAction(data, r))
      [] r \in Listener           -> IsChanged(data, r, xds)
                                        /\ (xds = Invalid \/ RebuildFails(data, xds))
      [] r \in RouteConfiguration -> r \in subs.nodes /\ (xds = Invalid \/ RebuildFails(data, xds))
      [] OTHER                    -> r \in subs.nodes /\ xds = Invalid

\* Mutated: the answer to an earlier response is not given up.
SetAck_First(resp, error) ==
    IF acks[resp.type] = None
      THEN [acks EXCEPT ![resp.type] = [nonce |-> resp.nonce, error |-> error]]
      ELSE acks

\* There is one ack for a type: the last response of a batch takes it.
SetAck(resp, error) ==
    [acks EXCEPT ![resp.type] = [nonce |-> resp.nonce, error |-> error]]

\* The response of type t that this batch handled last.
HandledLast(t) ==
    {u \in Sent : u.type = t /\ t \in Type /\ acks[t] # None /\ acks[t].nonce = u.nonce}

HandleAdsMessage ==
    /\ phase = "reading"
    /\ incoming # <<>>
    /\ incoming' = Tail(incoming)
    /\ batch' = TRUE
    /\ LET resp == Head(incoming)
       IN  \/ /\ resp.type = "unknown"
              /\ unknown' = Append(unknown, resp.nonce)
              /\ UNCHANGED <<cacheVars, acks>>
           \/ /\ resp.type # "unknown" /\ resp.kind = "undecodable"
              /\ acks' = SetAck(resp, TRUE)
              /\ UNCHANGED <<cacheVars, unknown>>
           \/ /\ resp.kind = "resource"
              /\ \E new \in {Inserted(cache, resp.name, resp.xds, stays) :
                                stays \in SUBSET MayStay(subs, resp.name, resp.xds)} :
                    Become(new)
              /\ acks' = SetAck(resp, InsertFails(resp.name, resp.xds))
              /\ UNCHANGED unknown
           \/ /\ resp.kind = "removed"
              /\ \E stays \in SUBSET RefsFrom(subs, {resp.name}) :
                    Become(RemoveResource(cache, resp.name, stays))
              /\ acks' = SetAck(resp, FALSE)
              /\ UNCHANGED unknown
    /\ overtaken' = overtaken \cup HandledLast(Head(incoming).type)
    /\ UNCHANGED <<phase, out, dnsOut, resolverVars, tracked, unanswered>>

DnsName(c) == {c} \cap Dns

Updated(op, n) ==
    CASE op = "AddHosts"        -> [cache EXCEPT !.subs = SubscribeTo(@, n)]
      [] op = "RemoveHosts"     -> [cache EXCEPT !.subs = UnsubscribeFrom(@, n)]
      [] op = "AddBackends"     -> [cache EXCEPT !.subs = SubscribeTo(@, n),
                                                 !.dns.add = @ \cup DnsName(n)]
      [] op = "RemoveBackends"  -> [cache EXCEPT !.subs = UnsubscribeFrom(@, n),
                                                 !.dns.remove = @ \cup DnsName(n)]
      [] op = "AddEndpoints"    -> IF n \in Dns THEN [cache EXCEPT !.dns.add = @ \cup {n}]
                                   ELSE [cache EXCEPT !.subs = SubscribeTo(@, Eds[n])]
      [] op = "RemoveEndpoints" -> IF n \in Dns THEN [cache EXCEPT !.dns.remove = @ \cup {n}]
                                   ELSE [cache EXCEPT !.subs = UnsubscribeFrom(@, Eds[n])]

HandleSubscriptionUpdate(u) ==
    /\ phase = "reading"
    /\ Become(Updated(u.op, u.name))
    /\ batch' = TRUE
    /\ UNCHANGED <<phase, acks, unknown, out, dnsOut, incoming, resolverVars, serverVars>>

-----------------------------------------------------------------------------
(* outgoing, and the sends that follow it *)

UnknownTypeRequest(n) ==
    [type |-> "unknown", wild |-> FALSE, ack |-> [nonce |-> n, error |-> TRUE],
     add |-> {}, remove |-> {}, versions |-> {}]

\* One for each response, unlike the acks.
UnknownTypeRequests == [i \in DOMAIN unknown |-> UnknownTypeRequest(unknown[i])]

ChangeRequest(t, added, removed) ==
    [type |-> t, wild |-> FALSE, ack |-> acks[t],
     add |-> added \cap OfType(t), remove |-> removed \cap OfType(t), versions |-> {}]

\* Mutated: nothing is ever unsubscribed.
ChangeRequests_AddOnly(added, removed) ==
    InEveryType([t \in Type |->
        LET q == ChangeRequest(t, added, {})
        IN  Optional(q, q.ack # None \/ q.add # {})])

\* A type with neither an ack nor a change has no request.
ChangeRequests(added, removed) ==
    InEveryType([t \in Type |->
        LET q == ChangeRequest(t, added, removed)
        IN  Optional(q, q.ack # None \/ q.add # {} \/ q.remove # {})])

Outgoing ==
    /\ phase = "reading"
    /\ batch
    /\ LET collected == CollectCache(cache) IN
       /\ Become(collected.cache)
       /\ out' = UnknownTypeRequests \o ChangeRequests(collected.added, collected.removed)
       /\ dnsOut' = collected.dns
    /\ phase' = "sending" /\ batch' = FALSE
    /\ acks' = NoAcks /\ unknown' = <<>>
    /\ UNCHANGED <<incoming, resolverVars, serverVars>>

\* The response that the ack or nack of q is for.
AnsweredBy(q) == {u \in Sent : q.ack # None /\ u = [type |-> q.type, nonce |-> q.ack.nonce]}

\* The server: a name has to be asked for, or its version be known; a
\* wildcard subscription outlives those of its names.  An answer is for the one
\* response whose nonce it has.
Send ==
    /\ phase = "sending"
    /\ out # <<>>
    /\ out' = Tail(out)
    /\ LET q == Head(out) IN
       /\ tracked' = (tracked \cup q.add \cup q.versions
                        \cup (IF q.wild THEN OfType(q.type) ELSE {}))
                     \ (q.remove \cap Named)
       /\ unanswered' = unanswered \ AnsweredBy(q)
       /\ overtaken' = overtaken \ AnsweredBy(q)
    /\ UNCHANGED <<cacheVars, phase, batch, acks, unknown, dnsOut, incoming, resolverVars>>

\* Mutated: the resolver first, while requests wait.
UpdateDns_Early ==
    /\ phase = "sending"
    /\ pinned' = (pinned \cup dnsOut.add) \ dnsOut.remove
    /\ listed' = listed \ dnsOut.remove
    /\ dnsOut' = NoDns
    /\ phase' = "reading"
    /\ UNCHANGED <<cacheVars, batch, acks, unknown, out, incoming, serverVars>>

\* Only once every request is sent: additions, then removals.
UpdateDns ==
    /\ phase = "sending"
    /\ out = <<>>
    /\ pinned' = (pinned \cup dnsOut.add) \ dnsOut.remove
    /\ listed' = listed \ dnsOut.remove
    /\ dnsOut' = NoDns
    /\ phase' = "reading"
    /\ UNCHANGED <<cacheVars, batch, acks, unknown, out, incoming, serverVars>>

-----------------------------------------------------------------------------
(* The server *)

\* A response has a nonce of its own, that no response without an answer has.
Deliver(t, kind, name, xds) ==
    /\ phase # "down"
    /\ Len(incoming) < MaxInFlight
    /\ \E n \in Nonce \ {u.nonce : u \in unanswered} :
         /\ incoming' = Append(incoming, [type |-> t, nonce |-> n, kind |-> kind,
                                          name |-> name, xds |-> xds])
         /\ unanswered' = unanswered \cup {[type |-> t, nonce |-> n]}
    /\ UNCHANGED <<cacheVars, connVars, resolverVars, tracked, overtaken>>

Respond(r) ==
    /\ r \in tracked
    /\ \E xds \in Sends[r] : Deliver(TypeOf(r), "resource", r, xds)

RespondRemoved(r) ==
    /\ r \in tracked \cap Deletes
    /\ Deliver(TypeOf(r), "removed", r, None)

RespondGarbled(t) == Deliver(t, "undecodable", None, None)

Next ==
    \/ Connect
    \/ HandleAdsMessage
    \/ Outgoing
    \/ Send
    \/ UpdateDns
    \/ Disconnect
    \/ \E u \in Updates : HandleSubscriptionUpdate(u)
    \/ \E r \in Resource : Respond(r) \/ RespondRemoved(r)
    \/ \E t \in Garbled : RespondGarbled(t)

Spec == Init /\ [][Next]_vars

\* The task runs and reconnects, and no batch goes on for ever: it ends when
\* nothing is ready, which nothing in the code enforces.
Fairness ==
    /\ WF_vars(Connect)
    /\ WF_vars(HandleAdsMessage)
    /\ WF_vars(Outgoing)
    /\ WF_vars(Send)
    /\ WF_vars(UpdateDns)

FairSpec == Spec /\ Fairness

-----------------------------------------------------------------------------
(* Properties *)

\* Every variable keeps its type, and nothing is left to send but while the
\* task sends.
TypeOK ==
    /\ cache \in Cache
    /\ phase \in {"down", "reading", "sending"}
    /\ batch \in BOOLEAN /\ unknown \in Seq(Nonce)
    /\ acks \in [Type -> Ack \cup {None}]
    /\ out \in Seq(Request)
    /\ dnsOut \in DnsUpdates
    /\ incoming \in Seq(Response) /\ Len(incoming) <= MaxInFlight
    /\ pinned \subseteq Dns /\ listed \subseteq Dns
    /\ tracked \subseteq Resource
    /\ unanswered \subseteq Sent
    /\ overtaken \subseteq {u \in Sent : u.type # "unknown"}
    /\ phase # "sending" => out = <<>> /\ dnsOut = NoDns

\* Nothing is under way between the client and the server.
Quiet == phase = "reading" /\ ~batch /\ incoming = <<>>

\* What the client wants by name and does not have, the server was asked for:
\* whatever came up while connecting, while sending, or in the batch that
\* brought an update, through responses that came late or were rejected.  Of
\* what the server may take back, the client has at least an entry that says
\* so, and no lookup waits: a removal may come when the server has been told to
\* forget the name, behind an update that cancels the request for it
\* (see NamedAreTracked).
MissingAreAskedFor ==
    Quiet => \A r \in Named \cap subs.nodes :
                \/ HasData(data, r) \/ r \in tracked
                \/ r \in Deletes /\ HasEntry(data, r)

\* What the client does not want any more, the server does not send: a
\* collection unsubscribes from all it takes, on this connection or by not
\* asking for it on the next one.
NothingLeaked == Quiet => tracked \cap Named \subseteq subs.nodes

\* A response gets an ack or a nack of its own, with or without changes to tell
\* the server of, unless another response of its type follows it in the batch
\* that handles it: there the last one takes the answer of all (see
\* EveryResponseIsAnswered).  Of an unknown type every response is answered.
AnsweredUnlessOvertaken ==
    Quiet => \A u \in unanswered : u \in overtaken /\ u.type # "unknown"

\* The resolver resolves the DNS clusters in cache: through broken streams
\* that lose what it was not told yet, and collections in the same batch.
\* (A client that also took DNS names back could undo this: a batch keeps no
\* order between additions and removals.)
DnsClustersResolved ==
    Quiet => {c \in Dns : HasData(data, c)} \subseteq pinned \cup listed

\* A subscription gets to the server, unless it is given up or the stream
\* breaks.
SubscriptionsAreSent ==
    \A r \in Named : r \in subs.nodes ~> r \in tracked \/ r \notin subs.nodes \/ phase = "down"

-----------------------------------------------------------------------------
(* What the comments say and the code does not do *)

\* cache.rs:375-376: added subscriptions "may or may not be in cache, and must
\* be requested from the xDS server".  What the client wants by name, the
\* server sends updates of.
NamedAreTracked == Quiet => Named \cap subs.nodes \subseteq tracked

\* xds.rs:1549: a response "should generate an ACK immediately".  No response
\* stays without an ack or a nack.
EveryResponseIsAnswered == Quiet => unanswered = {}

\* cache.rs:713-714: "when removing clusters based on changes, we also have to
\* remove any DNS names for removed clusters."
DnsFollowsCache == Quiet => pinned \cup listed \subseteq subs.nodes

=============================================================================
