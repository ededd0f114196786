---------------------------- MODULE ClientRequest ----------------------------
(***************************************************************************)
(* A request through the client (client.rs): the search for a route, its   *)
(* rule and backend, the backend's endpoints and one of them, and after a  *)
(* bad answer another, each under a deadline, over the cache that the ADS  *)
(* task fills while it is connected (xds.rs, AdsTask::run).  Other         *)
(* requests of the client show in the channel of subscriptions and in the  *)
(* turn of the balancers.                                                  *)
(***************************************************************************)
EXTENDS StaticConfig, CacheReader

CONSTANTS
    Url,           \* what may be asked for: requests of RouteApi and a scheme
    Config,        \* [kind |-> "Static", "DynamicEndpoints" or "Dynamic", static |-> _]
    Code,          \* status codes of errors
    Failure,       \* StatusFailed
    PhaseMod       \* the phase of a trace is a u8: 256

ASSUME NoneIsNoIndex == None \notin Nat

\* Endpoints of which the server or the resolver may know.
Addresses ==
    LET keys == {k \in Key : k.map \in {"load_assignments", "dns"}}
        groups == (UNION {Content[k] : k \in keys}) \ {None, Absent}
    IN  UNION {Range(g.group) : g \in groups}

ASSUME NoneIsNoAddress == None \notin Addresses
ASSUME Bounds ==
    /\ SubsRoom \in Nat
    /\ PhaseMod \in Nat \ {0}

VARIABLES
    conn,          \* AdsTask: "connecting", "streaming" or "backoff"
    late,          \* the deadline of the request has passed
    req,           \* the request under way
    since          \* (history) keys whose entry is what it was when req began

vars == <<data, subs, lookups, conn, late, req, since>>

\* step: "idle", "route", "backend", "endpoints", "ready" with an endpoint,
\* or "failed" with an error.
Idle == [step |-> "idle"]

Init == /\ ReaderInit
        /\ conn = "connecting" /\ late = FALSE
        /\ req = Idle /\ since = {}

----------------------------------------------------------------------------
(* The ADS task and the rest of the program. *)

Connected ==
    /\ conn = "connecting" /\ conn' = "streaming"
    /\ UNCHANGED <<data, subs, lookups, late, req, since>>

\* ConnectionError::Connect or a status: sleep; the end of a stream: again.
Disconnected ==
    /\ \/ conn \in {"connecting", "streaming"} /\ conn' = "backoff"
       \/ conn = "streaming" /\ conn' = "connecting"
    /\ UNCHANGED <<data, subs, lookups, late, req, since>>

BackoffOver ==
    /\ conn = "backoff" /\ conn' = "connecting"
    /\ UNCHANGED <<data, subs, lookups, late, req, since>>

\* handle_update_batch takes what is there of subscriptions, and responses
\* change the cache.
TakeSubs ==
    /\ conn = "streaming" /\ subs > 0
    /\ subs' = 0
    /\ UNCHANGED <<data, lookups, conn, late, req, since>>

Update ==
    /\ conn = "streaming"
    /\ \E k \in Key : \E entry \in Content[k] :
          /\ Write(k, entry)
          /\ since' = IF entry = data[k] THEN since ELSE since \ {k}
    /\ UNCHANGED <<conn, late, req>>

OthersSubscribe ==
    /\ subs < SubsRoom
    /\ subs' = subs + 1
    /\ UNCHANGED <<data, lookups, conn, late, req, since>>

Expire ==
    /\ req.step \in {"route", "backend", "endpoints"} /\ ~late
    /\ late' = TRUE
    /\ UNCHANGED <<data, subs, lookups, conn, req, since>>

----------------------------------------------------------------------------
(* Lookups, by the kind of configuration (impl ConfigCache for Config). *)

Id(backend) == [service |-> backend.service, port |-> backend.port]

GetRoutes(config, path) ==
    [i \in DOMAIN path |->
        IF config.kind = "Dynamic" THEN Lookup(In("listeners", Authority(path[i])))
        ELSE Answered(StaticRoute(config.static, Authority(path[i])))]

GetBackend(config, id) ==
    IF config.kind = "Dynamic" THEN Lookup(In("clusters", id))
    ELSE Answered(StaticBackend(config.static, id))

GetEndpoints(config, id) ==
    IF config.kind = "Static" THEN Answered(StaticEndpoints(config.static, id))
    ELSE Lookup(In(IF id.service.kind = "dns" THEN "dns" ELSE "load_assignments", id))

----------------------------------------------------------------------------
(* Traces (error.rs): the phase is None while the route is resolved and     *)
(* then counts the selections of an endpoint.                              *)

NewTrace == [phase |-> None, events |-> <<>>]
Event(phase, kind, what) == [phase |-> phase, kind |-> kind, what |-> what]
Log(trace, kind, what) ==
    [trace EXCEPT !.events = Append(@, Event(trace.phase, kind, what))]

\* Mutated: a retry stays in its phase.
StartEndpointSelection_Once(trace) == [trace EXCEPT !.phase = 0]

StartEndpointSelection(trace) ==
    [trace EXCEPT !.phase = IF @ = None THEN 0 ELSE (@ + 1) % PhaseMod]

Fail(error) ==
    /\ req' = [step |-> "failed", error |-> error, waited |-> None,
               url |-> req.url, config |-> req.config]
    /\ lookups' = <<>>
    /\ UNCHANGED <<data, subs, conn, late, since>>

\* Client::resolve_http, up to the first wait.
ResolveHttp ==
    /\ req.step = "idle"
    /\ \E url \in Url, config \in Config :
          /\ req' = [step |-> "route", url |-> url, config |-> config, trace |-> NewTrace]
          /\ lookups' = GetRoutes(config, SearchPath(url))
    /\ late' = FALSE
    /\ since' = Present
    /\ UNCHANGED <<data, subs, conn>>

Going == req.step \in {"route", "backend", "endpoints"}

\* What the request waits for: the first lookup that has not said None.
First ==
    LET open == {i \in DOMAIN lookups :
                    lookups[i].phase # "done" \/ lookups[i].answer # None}
    IN  IF open = {} THEN None ELSE CHOOSE i \in open : \A j \in open : i <= j

\* with_deadline: the future first, and only while it waits the clock.
Timeout ==
    /\ Going /\ late
    /\ First # None /\ IsPending(lookups[First])
    /\ req' = [step |-> "failed", error |-> "TimedOut", waited |-> lookups[First],
               url |-> req.url, config |-> req.config]
    /\ lookups' = <<>>
    /\ UNCHANGED <<data, subs, conn, late, since>>

NoRouteMatched ==
    /\ req.step = "route" /\ First = None
    /\ Fail("NoRouteMatched")

Rule(route) == route.rules[MatchingRule(route, req.url)]
Weighed(rule) == {i \in DOMAIN rule.backends : rule.backends[i].weight > 0}

\* Mutated: any answer is taken, whoever gives it.
Route_Any ==
    {i \in DOMAIN lookups : lookups[i].phase = "done" /\ lookups[i].answer # None}

\* The lookups that can give the route: FuturesOrdered, the head only.
Route == {i \in {First} \cap DOMAIN lookups : lookups[i].phase = "done"}

NoRuleMatched ==
    /\ req.step = "route"
    /\ \E i \in Route : MatchingRule(lookups[i].answer, req.url) = None
    /\ Fail("NoRuleMatched")

\* No backends, or none with a weight.
InvalidRoute ==
    /\ req.step = "route"
    /\ \E i \in Route : /\ MatchingRule(lookups[i].answer, req.url) # None
                        /\ Weighed(Rule(lookups[i].answer)) = {}
    /\ Fail("InvalidRoute")

\* select_endpoint begins.
SelectEndpoint(r) ==
    /\ req' = [r EXCEPT !.step = "backend",
                        !.trace = StartEndpointSelection(@)]
    /\ lookups' = <<GetBackend(r.config, r.backend)>>

ResolveRoute ==
    /\ req.step = "route"
    /\ \E i \in Route :
          LET route == lookups[i].answer
              rule == MatchingRule(route, req.url)
          IN  /\ rule # None
              /\ \E b \in Weighed(route.rules[rule]) :
                    LET id == IntoBackendId(route.rules[rule].backends[b], DefaultPort(req.url))
                        trace == Log(Log(Log(req.trace, "RouteLookup", route.id),
                                         "RouteRuleMatched", rule),
                                     "BackendSelected", id)
                    IN  SelectEndpoint(
                          [step |-> "route", url |-> req.url, config |-> req.config,
                           trace |-> trace, from |-> i, backend |-> id,
                           retry |-> route.rules[rule].retry, lb |-> None,
                           address |-> None, previous_addrs |-> <<>>])
    /\ UNCHANGED <<data, subs, conn, late, since>>

HasAnswer == lookups[1].phase = "done" /\ lookups[1].answer # None

HasBackend ==
    /\ req.step = "backend" /\ HasAnswer
    /\ req' = [req EXCEPT !.step = "endpoints", !.lb = lookups[1].answer.lb,
                          !.trace = Log(@, "BackendLookup", req.backend)]
    /\ lookups' = <<GetEndpoints(req.config, req.backend)>>
    /\ UNCHANGED <<data, subs, conn, late, since>>

NoBackend ==
    /\ req.step = "backend" /\ First = None
    /\ Fail("NoBackend")

NoReachableEndpoints ==
    /\ req.step = "endpoints"
    /\ \/ First = None
       \/ HasAnswer /\ lookups[1].answer.group = <<>> /\ req.lb = "RingHash"
    /\ Fail("NoReachableEndpoints")

\* RoundRobinLb takes the turn modulo the number of endpoints: with none of
\* them it panics.
Panic ==
    /\ req.step = "endpoints" /\ HasAnswer
    /\ lookups[1].answer.group = <<>> /\ req.lb # "RingHash"
    /\ Fail("Panic")

\* Mutated: the address that failed is forgotten.
Endpoint_Forgets(r, address) ==
    [r EXCEPT !.step = "ready", !.address = address]

\* The endpoint of resolve_http, or of report_status with its history.
Endpoint(r, address) ==
    [r EXCEPT !.step = "ready", !.address = address,
              !.previous_addrs = IF r.address = None THEN @ ELSE Append(@, r.address)]

LoadBalance ==
    /\ req.step = "endpoints" /\ HasAnswer
    /\ \E i \in DOMAIN lookups[1].answer.group :
          LET address == lookups[1].answer.group[i]
              trace == Log(Log(req.trace, "EndpointsLookup", req.backend),
                           "SelectAddr", address)
          IN  req' = Endpoint([req EXCEPT !.trace = trace], address)
    /\ lookups' = <<>>
    /\ UNCHANGED <<data, subs, conn, late, since>>

----------------------------------------------------------------------------
(* After a response. *)

\* Endpoint::should_retry
ShouldRetry(endpoint, response) ==
    /\ endpoint.retry # None /\ endpoint.retry.attempts # None
    /\ response \in Range(endpoint.retry.codes) \cup {Failure}
    /\ Len(endpoint.previous_addrs) + 1 < endpoint.retry.attempts

\* Client::report_status; with an answer that is fine, or not worth another
\* try, the endpoint comes back as it is.
ReportStatus ==
    /\ req.step = "ready"
    /\ \E response \in Code \cup {Failure} :
          /\ ShouldRetry(req, response)
          /\ SelectEndpoint(req)
    /\ late' = FALSE
    /\ UNCHANGED <<data, subs, conn, since>>

Finish ==
    /\ req.step \in {"ready", "failed"}
    /\ req' = Idle /\ since' = {} /\ late' = FALSE
    /\ UNCHANGED <<data, subs, lookups, conn>>

ReadOne(i) ==
    i \in DOMAIN lookups /\ Read(i) /\ UNCHANGED <<conn, late, req, since>>
MostLookups == Len(Search) + 1

Resolve ==
    \/ NoRouteMatched \/ NoRuleMatched \/ InvalidRoute \/ ResolveRoute
    \/ HasBackend \/ NoBackend \/ NoReachableEndpoints \/ Panic \/ LoadBalance

Next ==
    \/ Connected \/ Disconnected \/ BackoffOver \/ TakeSubs \/ Update
    \/ OthersSubscribe \/ Expire
    \/ ResolveHttp \/ (\E i \in 1..MostLookups : ReadOne(i))
    \/ Timeout \/ Resolve \/ ReportStatus \/ Finish

Spec == Init /\ [][Next]_vars

\* A poll of the request polls every lookup that is woken, and clocks run.
\* Every poll that leaves the request waiting looks at the clock, so that a
\* request that is woken again and again and still waits does time out.
\* Nothing is asked of the ADS task, the server or the caller.
FairSpec ==
    /\ Spec
    /\ \A i \in 1..MostLookups : WF_vars(ReadOne(i))
    /\ WF_vars(Resolve) /\ WF_vars(Expire) /\ SF_vars(Timeout)

----------------------------------------------------------------------------

\* How many addresses the request has been given.
Tries == IF req.address = None THEN 0 ELSE Len(req.previous_addrs) + 1

TypeOK ==
    /\ ReaderTypeOK
    /\ conn \in {"connecting", "streaming", "backoff"} /\ late \in BOOLEAN
    /\ since \subseteq Present
    /\ Len(lookups) <= MostLookups
    /\ CASE req.step = "idle" -> lookups = <<>> /\ ~late
         [] req.step = "route" -> req.trace = NewTrace /\ Len(lookups) >= 1
         [] req.step \in {"backend", "endpoints"} ->
               Len(lookups) = 1 /\ req.trace.phase = Tries % PhaseMod
         [] req.step = "ready" -> lookups = <<>> /\ req.address \in Addresses
         [] req.step = "failed" -> lookups = <<>>

\* The route a name has had ever since the request began, if it has.
HeldRoute(config, authority) ==
    LET listener == In("listeners", authority)
        entry == data[listener]
        rc == In("route_configs", entry.rds)
    IN  IF config.kind # "Dynamic" THEN StaticRoute(config.static, authority)
        ELSE IF listener \notin since \/ entry = None THEN None
        ELSE IF "rds" \notin DOMAIN entry THEN entry.route
        ELSE IF rc \notin since \/ data[rc] = None THEN None
        ELSE data[rc].route

\* The first name on the search path that has a route gives it: no name
\* before the one whose route is taken had a route all the while, and no
\* name had one if the request ends with none, in whatever order the answers
\* come and whatever changes meanwhile (client.rs, resolve_routes).
StableRouteWins ==
    LET path == SearchPath(req.url)
        passed == CASE req.step \in {"backend", "endpoints", "ready"} -> 1..(req.from - 1)
                    [] req.step = "failed" /\ req.error = "NoRouteMatched" -> DOMAIN path
                    [] OTHER -> {}
    IN  \A i \in passed : HeldRoute(req.config, Authority(path[i])) = None

\* An endpoint that went through retries lists every address before it, in
\* order, as its trace does: the backend, its endpoints and the address in
\* each phase, with nothing lost in between.  No more tries are made than the
\* route allows (client.rs, report_status; endpoints.rs, should_retry).
HistoryIsWhole ==
    req.step = "ready" =>
       LET tried == Append(req.previous_addrs, req.address)
           events == req.trace.events
       IN  /\ Len(events) = 3 + 3 * Len(tried)
           /\ \A n \in DOMAIN tried :
                 LET phase == (n - 1) % PhaseMod
                 IN  /\ events[1 + 3 * n] = Event(phase, "BackendLookup", req.backend)
                     /\ events[2 + 3 * n] = Event(phase, "EndpointsLookup", req.backend)
                     /\ events[3 + 3 * n] = Event(phase, "SelectAddr", tried[n])
           /\ \/ Len(tried) = 1
              \/ Len(req.previous_addrs) < req.retry.attempts

\* Every call of the client comes back, connected or not (with_deadline).
RequestsEnd == Going ~> ~Going

\* While the task has no connection, a request does not time out on what has
\* been in cache since it began ("a request never has to block on a remote
\* service", Client).
WarmNeverTimesOut ==
    /\ req.step = "failed" /\ req.error = "TimedOut"
    /\ conn # "streaming"
    => req.waited.key \notin since
=============================================================================
