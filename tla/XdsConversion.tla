--------------------------- MODULE XdsConversion ---------------------------
(***************************************************************************)
(* Routes and backends to and from xDS (junction-api xds/http.rs,          *)
(* xds/backend.rs, xds/shared.rs).  A oneof is a record with its type, an  *)
(* unset field is None, a map of metadata is a set of keys with values.    *)
(* On the wire a duration is an integer and may be negative.  The          *)
(* virtual hosts of a route configuration have domains, a set of hosts     *)
(* with ports, and routes, a sequence.                                     *)
(***************************************************************************)
EXTENDS RouteApi, Indices, Integers

CONSTANTS
    MaxU32,    \* u32::MAX
    Word       \* names of headers, parameters, tags and kinds; tokens of text

\* RequestHashPolicy, LbPolicy and Backend.
HashPolicy == [terminal : BOOLEAN, hasher : {"Header", "QueryParam"}, name : STRING]
LbPolicy == [type : {"RoundRobin", "Unspecified"}]
               \cup [type : {"RingHash"}, min : 0..MaxU32, hash : Seq(HashPolicy)]
Backend == [id : BackendId, lb : LbPolicy]

\* Route and its parts.
Name == {l \in Label : ValidName(l)}
Text == Seq(Word)
Tag == [key : Word, value : Word]
Regex == DOMAIN Recognises
PathMatch == [type : {"Prefix", "Exact"}, value : Text]
                \cup [type : {"Regex"}, value : Regex]
Matcher == [type : {"Exact"}, name : Word, value : Text]
              \cup [type : {"Regex"}, name : Word, value : Regex]
RouteMatch == [path : PathMatch \cup {None}, method : Text \cup {None},
               headers : Seq(Matcher), query : Seq(Matcher)]
RouteTimeouts == [request : Nat \cup {None}, backend_request : Nat \cup {None}]
RouteRetry == [codes : Seq(Port), attempts : 0..MaxU32 \cup {None},
               backoff : Nat \cup {None}]
RouteBackend == [service : Service, port : Port \cup {None}, weight : 0..MaxU32]
RouteRule == [name : Name \cup {None}, matches : Seq(RouteMatch),
              filters : Seq(Word), timeouts : RouteTimeouts \cup {None},
              retry : RouteRetry \cup {None}, backends : Seq(RouteBackend)]
Route == [id : Name, tags : SUBSET Tag, rules : Seq(RouteRule),
          hostnames : SUBSET {m \in HostnameMatch : ValidHostname(m.host)},
          ports : SUBSET Port]

\* RouteConfiguration and its parts, as control planes write them.
XdsName == [host : Hostname, port : Nat \cup {None}]
XdsPath == [type : {"Prefix", "Path", "SafeRegex", "Other"}, value : Text]
XdsMatcher == [type : {"Exact", "Prefix", "SafeRegex"}, name : Word, value : Text]
                 \cup [type : {None, "Present", "Absent"}, name : Word, value : {None}]
XdsRouteMatch == [path : XdsPath \cup {None},
                  headers : Seq(XdsMatcher), query : Seq(XdsMatcher)]
XdsDuration == Int \cup {None}
XdsRetryPolicy == [codes : Seq(Nat), retries : Nat \cup {None},
                   backoff : [base : XdsDuration] \cup {None}, perTry : XdsDuration]
XdsWeight == [name : XdsName, weight : 0..MaxU32 \cup {None}]
XdsCluster == [type : {"Cluster"}, name : XdsName]
                 \cup [type : {"Weighted"}, clusters : Seq(XdsWeight)]
                 \cup [type : {"ClusterHeader"}]
XdsHashPolicy == [type : {"Header", "QueryParameter", "Other"}, name : STRING]
XdsHash == [terminal : BOOLEAN, policy : XdsHashPolicy \cup {None}]
XdsAction == [type : {"Route"}, timeout : XdsDuration,
              policy : XdsRetryPolicy \cup {None},
              cluster : XdsCluster \cup {None}, hash : Seq(XdsHash)]
                \cup [type : {"Redirect"}]
XdsRouteOf == [name : Label \cup {None}, match : XdsRouteMatch \cup {None},
               action : XdsAction \cup {None}]
VirtualHost == [domains : SUBSET XdsName, routes : Seq(XdsRouteOf)]
XdsTag == [key : Word, value : Word \cup {Failed}]
RouteConfiguration == [name : Label, metadata : (SUBSET XdsTag) \cup {None},
                       vhosts : Seq(VirtualHost)]

U16(n) == n % (MaxPort + 1)
U32(n) == n % (MaxU32 + 1)

\* collect() into a Result: the first failure is the outcome.
Results(s) == IF Failed \in Range(s) THEN Failed ELSE s
Mapped(s, Op(_)) == [i \in DOMAIN s |-> Op(s[i])]
Parsed(s, Op(_)) == Results(Mapped(s, Op))

\* Mutated: a negative duration is taken as it is.
DurationFromXds_Signed(d) == d

DurationFromXds(d) == IF d # None /\ d < 0 THEN Failed ELSE d

TagsToXds(tags) == IF tags = {} THEN None ELSE tags
TagsFromXds(metadata) ==
    IF metadata = None THEN {}
    ELSE IF \E t \in metadata : t.value = Failed THEN Failed
    ELSE metadata

----------------------------------------------------------------------------
(* Matches. *)

PathToXds(p) ==
    Pattern(CASE p.type = "Prefix" -> "Prefix" [] p.type = "Exact" -> "Path"
              [] p.type = "Regex" -> "SafeRegex", p.value)

PathFromXds(x) ==
    CASE x.type = "Prefix" -> Pattern("Prefix", x.value)
      [] x.type = "Path" -> Pattern("Exact", x.value)
      [] x.type = "SafeRegex" /\ ParseRegex(x.value) # Failed ->
            Pattern("Regex", x.value)
      [] OTHER -> Failed

\* HeaderMatch::to_xds and QueryParamMatch::to_xds.
MatcherToXds(m) ==
    Named(IF m.type = "Exact" THEN "Exact" ELSE "SafeRegex", m.name, m.value)

\* HeaderMatch::from_xds and QueryParamMatch::from_xds: present, or nothing
\* said, is anything at all; absent, PresentMatch(false), is not supported.
MatcherFromXds(x) ==
    CASE x.type \in {None, "Present"} -> Named("Regex", x.name, AnyText)
      [] x.type = "Exact" -> Named("Exact", x.name, x.value)
      [] x.type = "SafeRegex" /\ ParseRegex(x.value) # Failed ->
            Named("Regex", x.name, x.value)
      [] OTHER -> Failed

XdsMatch(path, headers, query) ==
    [path |-> path, headers |-> headers, query |-> query]

\* The pseudo-header that stands for the method.
METHOD == ":method"
IsMethod(m) == m.type = "Exact" /\ m.name = METHOD

MatchToXds(m) ==
    XdsMatch(IF m.path = None THEN None ELSE PathToXds(m.path),
             (IF m.method = None THEN <<>>
              ELSE <<Named("Exact", METHOD, m.method)>>)
                 \o Mapped(m.headers, MatcherToXds),
             Mapped(m.query, MatcherToXds))

MatchFromXds(x) ==
    LET path == IF x.path = None THEN None ELSE PathFromXds(x.path)
        headers == Parsed(x.headers, MatcherFromXds)
        query == Parsed(x.query, MatcherFromXds)
        methods == {i \in DOMAIN headers : IsMethod(headers[i])}
    IN  IF Failed \in {path, headers, query} THEN Failed
        ELSE [path |-> path, query |-> query,
              headers |-> Those(headers, DOMAIN headers \ methods),
              method |-> IF methods = {} THEN None
                         ELSE Last(Those(headers, methods)).value]

----------------------------------------------------------------------------
(* Route actions. *)

\* RetryPolicy::default.
NoPolicy == [codes |-> <<>>, retries |-> None, backoff |-> None, perTry |-> None]

\* Mutated: as many retries as attempts.
RetryToXds_Attempts(retry) ==
    [NoPolicy EXCEPT
       !.codes = retry.codes, !.retries = retry.attempts,
       !.backoff = IF retry.backoff = None THEN None ELSE [base |-> retry.backoff]]

RetryToXds(retry) ==
    [NoPolicy EXCEPT
       !.codes = retry.codes,
       !.retries = IF retry.attempts \in {None, 0} THEN retry.attempts
                   ELSE retry.attempts - 1,
       !.backoff = IF retry.backoff = None THEN None ELSE [base |-> retry.backoff]]

\* A policy that only has the timeout of a try is no retry; one attempt more
\* than the retries, which wraps around in a release build.
RetryFromXds(p) ==
    IF p = None \/ (p.codes = <<>> /\ p.retries = None /\ p.backoff = None)
    THEN None
    ELSE [codes |-> Mapped(p.codes, U16),
          attempts |-> IF p.retries = None THEN None ELSE U32(p.retries + 1),
          backoff |-> IF p.backoff = None THEN None ELSE p.backoff.base]

\* x.try_into().unwrap() of the interval.
RetryPanics(p) ==
    p # None /\ p.backoff # None /\ DurationFromXds(p.backoff.base) = Failed

TimeoutsFromXds(action) ==
    LET request == DurationFromXds(action.timeout)
        try == IF action.policy = None THEN None
               ELSE DurationFromXds(action.policy.perTry)
    IN  IF Failed \in {request, try} THEN Failed
        ELSE IF request = None /\ try = None THEN None
        ELSE [request |-> request, backend_request |-> try]

BackendsToXds(backends) ==
    CASE Len(backends) = 0 -> None
      [] Len(backends) = 1 ->
            [type |-> "Cluster", name |-> BackendRefName(backends[1])]
      [] OTHER ->
            [type |-> "Weighted",
             clusters |-> Mapped(backends, LAMBDA b :
                             [name |-> BackendRefName(b), weight |-> b.weight])]

WeightedBackend(w) ==
    LET b == BackendRefFromStr(w.name)
    IN  IF b = Failed \/ w.weight = None THEN b ELSE [b EXCEPT !.weight = w.weight]

BackendsFromXds(spec) ==
    CASE spec = None -> <<>>
      [] spec # None /\ spec.type = "Cluster" ->
            Parsed(<<spec.name>>, BackendRefFromStr)
      [] spec # None /\ spec.type = "Weighted" ->
            Parsed(spec.clusters, WeightedBackend)
      [] OTHER -> Failed

ActionToXds(rule) ==
    LET timeouts == rule.timeouts
        try == IF timeouts = None THEN None ELSE timeouts.backend_request
        policy == IF rule.retry = None THEN None ELSE RetryToXds(rule.retry)
    IN  [type |-> "Route",
         timeout |-> IF timeouts = None THEN None ELSE timeouts.request,
         policy |-> IF try = None THEN policy
                    ELSE [(IF policy = None THEN NoPolicy ELSE policy)
                             EXCEPT !.perTry = try],
         cluster |-> BackendsToXds(rule.backends),
         hash |-> <<>>]

----------------------------------------------------------------------------
(* Rules: one xDS route per match. *)

XdsRoute(name, match, action) == [name |-> name, match |-> match, action |-> action]

RuleToXds(rule) ==
    LET matches == IF rule.matches = <<>>
                   THEN <<XdsMatch(EmptyPrefix, <<>>, <<>>)>>
                   ELSE Mapped(rule.matches, MatchToXds)
    IN  Mapped(matches, LAMBDA m : XdsRoute(rule.name, m, ActionToXds(rule)))

SameRule(x, y) == x.name = y.name /\ x.action = y.action

\* Mutated: routes that are apart are merged too.
Grouped_Apart(routes) ==
    FoldLeft(LAMBDA groups, x :
                IF \E i \in DOMAIN groups : SameRule(groups[i][1], x)
                THEN Mapped(groups, LAMBDA g : IF SameRule(g[1], x) THEN Append(g, x) ELSE g)
                ELSE Append(groups, <<x>>),
             <<>>, routes)

\* group_by: runs of routes with the same name and action, by where they
\* start.
Starts(routes) ==
    {i \in DOMAIN routes : i > 1 => ~SameRule(routes[i - 1], routes[i])}
RunOf(routes, i) == Cardinality({j \in Starts(routes) : j <= i})

Grouped(routes) ==
    [k \in 1..Cardinality(Starts(routes)) |->
        Those(routes, {i \in DOMAIN routes : RunOf(routes, i) = k})]

\* RouteRule::from_xds_grouped, of one such run.
RuleFromXds(group) ==
    LET name == group[1].name
        action == group[1].action
        matches == Parsed(Those(group, {i \in DOMAIN group : group[i].match # None}),
                          LAMBDA x : MatchFromXds(x.match))
        backends == BackendsFromXds(action.cluster)
    IN  IF \/ action = None \/ action.type # "Route"
           \/ name # None /\ ~ValidName(name)
           \/ Failed \in {matches, TimeoutsFromXds(action), backends}
        THEN Failed
        ELSE [AnyRule EXCEPT !.name = name, !.matches = matches,
                             !.timeouts = TimeoutsFromXds(action),
                             !.retry = RetryFromXds(action.policy),
                             !.backends = backends]

----------------------------------------------------------------------------
(* Route::to_xds and Route::from_xds. *)

Domains(route) ==
    [host : {HostnameMatchName(m) : m \in route.hostnames},
     port : IF route.ports = {} THEN {None} ELSE route.ports]

RouteToXds(route) ==
    [name |-> route.id, metadata |-> TagsToXds(route.tags),
     vhosts |-> <<[domains |-> Domains(route),
                   routes |-> FlattenSeq(Mapped(route.rules, RuleToXds))]>>]

RouteFromXds(x) ==
    LET tags == TagsFromXds(x.metadata)
        domains == x.vhosts[1].domains
        hostnames == {HostnameMatchFromStr(d.host) : d \in domains}
        rules == Parsed(Grouped(x.vhosts[1].routes), RuleFromXds)
    IN  IF \/ ~ValidName(x.name) \/ tags = Failed \/ Len(x.vhosts) # 1
           \/ \E d \in domains : BadPort(d)
           \/ Failed \in hostnames \/ rules = Failed
        THEN Failed
        ELSE [id |-> x.name, tags |-> tags, rules |-> rules,
              hostnames |-> hostnames,
              ports |-> {d.port : d \in domains} \ {None}]

----------------------------------------------------------------------------
(* Backends: a cluster, and the route that says how requests are hashed. *)

\* What a backend needs of them, as control planes write it.
XdsLbConfig == [type : {"RoundRobin"}]
                  \cup [type : {"RingHash"}, min : Nat \cup {None},
                   function : {"XxHash", "Murmur"}]
XdsLbAction == [type : {"Route"}, timeout : {None}, policy : {None},
                cluster : [type : {"Cluster"}, name : [host : Hostname, port : Port]],
                hash : Seq(XdsHash)]

HashToXds(p) ==
    [terminal |-> p.terminal,
     policy |-> [type |-> IF p.hasher = "Header" THEN "Header" ELSE "QueryParameter",
                 name |-> p.name]]

HashFromXds(x) ==
    IF x.policy = None \/ x.policy.type \notin {"Header", "QueryParameter"}
    THEN Failed
    ELSE [terminal |-> x.terminal, name |-> x.policy.name,
          hasher |-> IF x.policy.type = "Header" THEN "Header" ELSE "QueryParam"]

\* LbPolicy::to_xds; UNSPECIFIED is the default policy without a configuration.
LbToXds(lb) ==
    CASE lb.type = "RoundRobin" ->
            [policy |-> "RoundRobin", config |-> [type |-> "RoundRobin"]]
      [] lb.type = "RingHash" ->
            [policy |-> "RingHash",
             config |-> [type |-> "RingHash", min |-> lb.min, function |-> "XxHash"]]
      [] lb.type = "Unspecified" -> [policy |-> "RoundRobin", config |-> None]

RingConfig(cluster) ==
    IF cluster.config = None
    THEN [type |-> "RingHash", min |-> None, function |-> "XxHash"]
    ELSE cluster.config

RingFromXds(config, hashes) ==
    LET min == IF config.min = None THEN DefaultRing ELSE config.min
    IN  IF \/ config.type # "RingHash" \/ config.function # "XxHash"
           \/ min > MaxU32 \/ hashes = Failed
        THEN Failed
        ELSE [type |-> "RingHash", min |-> min, hash |-> hashes]

\* LbPolicy::from_xds, of a cluster and of the action that routes to it.
LbFromXds(cluster, action) ==
    CASE cluster.policy = "RoundRobin" /\ cluster.config = None ->
            [type |-> "Unspecified"]
      [] cluster.policy = "RoundRobin" /\ cluster.config # None ->
            IF cluster.config.type = "RoundRobin" THEN [type |-> "RoundRobin"]
            ELSE Failed
      [] cluster.policy = "RingHash" ->
            RingFromXds(RingConfig(cluster),
                        IF action = None THEN <<>> ELSE Parsed(action.hash, HashFromXds))
      [] OTHER -> Failed

BackendToXds(b) ==
    LET name == IdName(b.id)
        dns == b.id.service.kind = "dns"
        lb == LbToXds(b.lb)
    IN  [name |-> name, policy |-> lb.policy, config |-> lb.config,
         discovery |-> IF dns THEN "LogicalDns" ELSE "Eds",
         address |-> IF dns THEN name ELSE None,
         eds |-> IF dns THEN None ELSE [service |-> name, ads |-> TRUE]]

\* What a cluster has to say of where its endpoints come from.
DiscoveryMatches(x, id) ==
    IF id.service.kind = "dns"
    THEN /\ x.discovery = "LogicalDns"
         /\ x.address # None
         /\ x.address.host = id.service.hostname /\ x.address.port = id.port
    ELSE /\ x.discovery = "Eds"
         /\ x.eds # None /\ x.eds.service = IdName(id) /\ x.eds.ads

BackendFromXds(x, action) ==
    LET id == BackendIdFromStr(x.name)
        lb == LbFromXds(x, action)
    IN  IF Failed \in {id, lb} \/ ~DiscoveryMatches(x, id) THEN Failed
        ELSE [id |-> id, lb |-> lb]

\* Mutated: the route does not say how to hash.
LbRouteToXds_Unhashed(b) ==
    [name |-> IdLbConfigRouteName(b.id), metadata |-> None,
     vhosts |-> <<[domains |-> {[host |-> <<"*">>, port |-> None]},
                   routes |-> <<XdsRoute(None, XdsMatch(EmptyPrefix, <<>>, <<>>),
                      [type |-> "Route", timeout |-> None, policy |-> None,
                       cluster |-> [type |-> "Cluster", name |-> IdName(b.id)],
                       hash |-> <<>>])>>]>>]

\* to_xds_lb_route_config, whose one route says how to hash.
LbRouteToXds(b) ==
    [name |-> IdLbConfigRouteName(b.id), metadata |-> None,
     vhosts |-> <<[domains |-> {[host |-> <<"*">>, port |-> None]},
                   routes |-> <<XdsRoute(None, XdsMatch(EmptyPrefix, <<>>, <<>>),
                      [type |-> "Route", timeout |-> None, policy |-> None,
                       cluster |-> [type |-> "Cluster", name |-> IdName(b.id)],
                       hash |-> IF b.lb.type = "RingHash"
                                THEN Mapped(b.lb.hash, HashToXds) ELSE <<>>])>>]>>]
=============================================================================
