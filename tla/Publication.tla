---------------------------- MODULE Publication ----------------------------
(***************************************************************************)
(* A route or a backend on its way from who writes it to the clients:      *)
(* applied to Kubernetes and read back, turned into xDS, read by a client, *)
(* and published again.  Every step is a conversion of junction-api; one   *)
(* that fails or panics ends the way.  What a route means, on either side, *)
(* is what it decides for a request.                                       *)
(***************************************************************************)
EXTENDS KubeConversion

CONSTANTS
    AuthoredRoute,     \* routes as applications write them
    WireRoute,         \* route configurations of a control plane
    GatewayRoute,      \* HTTPRoutes that others write
    AuthoredBackend,
    WireBackend,       \* clusters of a control plane, each with a route action
    ExistingService,   \* what a patch is applied to
    Namespace,
    Requests,
    MaxTrips           \* bound on the times a route is published again

\* None is no value that a field of a backend, a cluster or a Service has;
\* what others write is of its type, Failed where it cannot be read.
ASSUME BackendConstants ==
    /\ None \notin Nat \cup Label \cup Hostname \cup Seq(Port)
    /\ None \notin XdsHashPolicy \cup XdsLbConfig \cup XdsLbAction
    /\ MaxU32 \in Nat \ {0} /\ DefaultRing \in 0..MaxU32
    /\ AuthoredBackend \subseteq Backend
    /\ Failed \notin AuthoredBackend \cup WireBackend
    /\ \A c \in WireBackend :
          /\ c.cluster.name.host \in Hostname
          /\ c.cluster.config \in XdsLbConfig \cup {None}
          /\ c.action # None => c.action.hash \in Seq(XdsHash)
    /\ \A svc \in ExistingService : \A port \in DOMAIN svc.annotations :
          svc.annotations[port] \in LbPolicy \cup {Failed}

\* A route has headers of HTTP only: a pseudo-header is none (HeaderName).
Plain(route) ==
    \A rule \in Range(route.rules) : \A m \in Range(rule.matches) :
        \A h \in Range(m.headers) : h.name # METHOD

\* What a route can say of what a route configuration says: every host with
\* the same ports, one method, a match of its own for every part of a rule,
\* codes and attempts that fit.
OneMethod(headers) ==
    /\ \A i \in DOMAIN headers : headers[i].name = METHOD => headers[i].type = "Exact"
    /\ \A i, j \in DOMAIN headers :
          headers[i].name = METHOD /\ headers[j].name = METHOD => i = j

InRange(p) ==
    p # None => /\ Range(p.codes) \subseteq Port
                /\ p.retries # None => p.retries < MaxU32

SamePorts(domains) ==
    /\ \A d, e \in domains : [host |-> d.host, port |-> e.port] \in domains
    /\ \A d, e \in domains : d.port = None => e.port = None

Expressible(x) ==
    \A v \in Range(x.vhosts) :
       /\ SamePorts(v.domains)
       /\ \A i \in DOMAIN v.routes :
             LET match == v.routes[i].match
                 action == v.routes[i].action
             IN  /\ match # None => OneMethod(match.headers)
                 /\ match = None =>
                       \A j \in DOMAIN v.routes :
                          j \in {i - 1, i + 1} => ~SameRule(v.routes[i], v.routes[j])
                 /\ action # None /\ action.type = "Route" => InRange(action.policy)

\* None is no value that a field of a route has, on either side.
ASSUME NoneIsApart ==
    /\ None \notin Word \cup Int \cup Text \cup PathMatch \cup RouteTimeouts \cup RouteRetry
    /\ None \notin XdsPath \cup XdsRouteMatch \cup XdsRetryPolicy \cup XdsCluster
    /\ None \notin [base : XdsDuration] \cup GatewayPath \cup GatewayRetry
    /\ None \notin {"Exact", "Prefix", "SafeRegex", "Path", "Present", "Absent",
                    "PathPrefix", "RegularExpression"}
    /\ Failed \notin Int \cup Text \cup Route \cup RouteConfiguration \cup HttpRoute

\* Names and regular expressions are text; the longest name of a Kubernetes
\* service is a hostname.
ASSUME TextConstants ==
    /\ {METHOD, "", "Service", "DNS", "junctionlabs.io"} \subseteq Word
    /\ Regex \subseteq Text /\ AnyText \in Regex
    /\ \A regex \in Regex : Recognises[regex] \subseteq Text
    /\ \A l, n \in Name : ValidHostname(<<l, n>> \o SUBDOMAIN)

\* What is written is of its type.
ASSUME RouteConstants ==
    /\ AuthoredRoute \subseteq Route /\ \A route \in AuthoredRoute : Plain(route)
    /\ WireRoute \subseteq RouteConfiguration /\ \A x \in WireRoute : Expressible(x)
    /\ GatewayRoute \subseteq HttpRoute /\ \A h \in GatewayRoute : Plain(h)
    /\ Namespace \subseteq Label
    /\ GatewayDuration \subseteq Nat /\ MaxTrips \in Nat \ {0}

\* A request of a client: its host is a valid one, its headers and parameters
\* are text.
Legible(r) ==
    /\ r.host \in Hostname /\ ValidHostname(r.host) /\ r.port \in Port
    /\ METHOD \notin DOMAIN r.headers
    /\ \A name \in DOMAIN r.headers : r.headers[name] \in Recognises[AnyText]
    /\ r.query # None =>
          r.query \in Seq([param : Word, value : Recognises[AnyText]])

ASSUME RequestConstants == \A r \in Requests : Legible(r)

VARIABLES
    form,      \* what is under way: "route", "xds", "httproute", "backend", ...
    value,
    origin,    \* where it began, or what was applied to Kubernetes
    ranked,    \* has the route been an HTTPRoute?
    trips,     \* how often was it read from xDS since?
    last       \* the last route or backend

vars == <<form, value, origin, ranked, trips, last>>

Forms == {"route", "httproute", "xds", "backend", "service", "cluster",
          "failed", "panicked"}

Begin(f, v) == form = f /\ value = v /\ origin = [form |-> f, value |-> v]

Init ==
    /\ \/ \E r \in AuthoredRoute : Begin("route", r)
       \/ \E x \in WireRoute : Begin("xds", x)
       \/ \E h \in GatewayRoute : Begin("httproute", h)
       \/ \E b \in AuthoredBackend : Begin("backend", b)
       \/ \E c \in WireBackend : Begin("cluster", c)
    /\ ranked = FALSE /\ trips = 0 /\ last = None

\* The outcome of a conversion.
Become(f, v) ==
    /\ form' = IF v = Failed THEN "failed" ELSE f
    /\ value' = v

ToXds ==
    /\ form = "route" /\ trips < MaxTrips
    /\ Become("xds", RouteToXds(value))
    /\ last' = value
    /\ UNCHANGED <<origin, ranked, trips>>

Policies(x) ==
    {x.vhosts[1].routes[i].action.policy :
        i \in {j \in DOMAIN x.vhosts[1].routes :
                 /\ x.vhosts[1].routes[j].action # None
                 /\ x.vhosts[1].routes[j].action.type = "Route"}}

FromXds ==
    /\ form = "xds"
    /\ IF Len(value.vhosts) = 1 /\ \E p \in Policies(value) : RetryPanics(p)
       THEN form' = "panicked" /\ value' = Failed
       ELSE Become("route", RouteFromXds(value))
    /\ trips' = trips + 1
    /\ UNCHANGED <<origin, ranked, last>>

ToGateway ==
    /\ form = "route" /\ ~ranked
    /\ \E namespace \in Namespace :
          Become("httproute", RouteToGateway(value, namespace))
    /\ last' = value /\ origin' = [form |-> "route", value |-> value]
    /\ UNCHANGED <<ranked, trips>>

\* A route that others wrote begins here.
FromGateway ==
    /\ form = "httproute"
    /\ IF RouteFromGatewayPanics(value)
       THEN form' = "panicked" /\ value' = Failed
       ELSE Become("route", RouteFromGateway(value))
    /\ origin' = IF origin.form = "httproute"
                 THEN [form |-> form', value |-> value'] ELSE origin
    /\ ranked' = TRUE /\ trips' = 0
    /\ UNCHANGED last

\* A backend goes as its cluster and the route that says how to hash.
BackendOnWire(b) ==
    [cluster |-> BackendToXds(b),
     action |-> LbRouteToXds(b).vhosts[1].routes[1].action]

BackendToCluster ==
    /\ form = "backend" /\ trips < MaxTrips
    /\ Become("cluster", BackendOnWire(value))
    /\ last' = value
    /\ UNCHANGED <<origin, ranked, trips>>

ClusterToBackend ==
    /\ form = "cluster"
    /\ Become("backend", BackendFromXds(value.cluster, value.action))
    /\ trips' = trips + 1
    /\ UNCHANGED <<origin, ranked, last>>

\* kubectl patch: annotations are merged, other fields replaced.
Patched(svc, patch) ==
    LET own == DOMAIN patch.annotations
    IN  [annotations |-> [port \in own \cup DOMAIN svc.annotations |->
                            IF port \in own THEN patch.annotations[port]
                            ELSE svc.annotations[port]],
         type |-> patch.type,
         external |-> OrElse(patch.external, svc.external),
         name |-> OrElse(patch.name, svc.name),
         namespace |-> OrElse(patch.namespace, svc.namespace),
         ports |-> OrElse(patch.ports, svc.ports)]

PatchService ==
    /\ form = "backend" /\ ~ranked
    /\ \E svc \in ExistingService :
          Become("service", Patched(svc, BackendToServicePatch(value)))
    /\ ranked' = TRUE
    /\ last' = value
    /\ UNCHANGED <<origin, trips>>

\* Every port of the Service is a backend; one of them goes on.
ReadService ==
    /\ form = "service"
    /\ LET backends == BackendsFromService(value)
       IN  IF backends = Failed THEN Become("backend", Failed)
           ELSE \E i \in DOMAIN backends :
                   /\ last.id.port \in {backends[j].id.port : j \in DOMAIN backends}
                         => backends[i].id.port = last.id.port
                   /\ Become("backend", backends[i])
    /\ UNCHANGED <<origin, ranked, trips, last>>

Next ==
    \/ ToXds \/ FromXds \/ ToGateway \/ FromGateway
    \/ BackendToCluster \/ ClusterToBackend \/ PatchService \/ ReadService

Spec == Init /\ [][Next]_vars

----------------------------------------------------------------------------
(* What a rule, or an action on the wire, decides.  One attempt is no      *)
(* retry, no policy is an empty one, the weight of an only backend is      *)
(* nothing.                                                                *)

Decision(request, try, codes, retries, backoff, backends) ==
    [request |-> request, try |-> try, codes |-> codes, retries |-> retries,
     backoff |-> backoff, backends |-> backends]

RuleDecision(rule) ==
    LET t == OrElse(rule.timeouts, [request |-> None, backend_request |-> None])
        r == OrElse(rule.retry, NoRetry)
        b == rule.backends
    IN  Decision(t.request, t.backend_request, r.codes,
                 IF r.attempts \in {None, 0} THEN r.attempts ELSE r.attempts - 1,
                 r.backoff,
                 [i \in DOMAIN b |->
                    <<BackendRefName(b[i]), IF Len(b) = 1 THEN 1 ELSE b[i].weight>>])

ActionDecision(action) ==
    LET p == OrElse(action.policy, NoPolicy)
        c == action.cluster
    IN  Decision(action.timeout, p.perTry, p.codes, p.retries,
                 IF p.backoff = None THEN None ELSE p.backoff.base,
                 IF c = None THEN <<>>
                 ELSE IF c.type = "Cluster" THEN <<<<c.name, 1>>>>
                 ELSE [i \in DOMAIN c.clusters |->
                         <<c.clusters[i].name,
                           IF Len(c.clusters) = 1 THEN 1
                           ELSE OrElse(c.clusters[i].weight, 1)>>])

RouteDecides(route, r) ==
    LET i == MatchingRule(route, r)
    IN  IF ~RouteMatches(route, r.host, r.port) \/ i = None THEN None
        ELSE RuleDecision(route.rules[i])

\* The order of an HTTPRoute's rules says nothing: the greatest that matches
\* decides, of equals the first.
RankedDecides(route, r) ==
    LET hits == {i \in DOMAIN route.rules : RuleMatches(route.rules[i], r)}
        best == {i \in hits : \A j \in hits :
                    /\ ~RuleLess(route.rules[i], route.rules[j])
                    /\ j < i => RuleLess(route.rules[j], route.rules[i])}
    IN  IF ~RouteMatches(route, r.host, r.port) \/ hits = {} THEN None
        ELSE RuleDecision(route.rules[CHOOSE i \in best : TRUE])

\* Matching as the xDS protocol defines it.
WireTextMatches(x, present, text) ==
    CASE x.type \in {None, "Present"} -> present
      [] x.type = "Absent" -> ~present
      [] x.type \in {"Exact", "Path"} -> present /\ text = x.value
      [] x.type = "Prefix" -> present /\ IsPrefix(x.value, text)
      [] x.type = "SafeRegex" -> present /\ text \in Recognises[x.value]
      [] OTHER -> FALSE

\* The pseudo-header of the method among the others.
WireHeaderMatches(x, r) ==
    LET present == x.name \in {METHOD} \cup DOMAIN r.headers
    IN  WireTextMatches(x, present,
                        CASE x.name = METHOD -> r.method
                          [] x.name # METHOD /\ present -> r.headers[x.name]
                          [] OTHER -> None)

WireParamMatches(x, r) ==
    LET query == OrElse(r.query, <<>>)
        named == {i \in DOMAIN query : query[i].param = x.name}
        present == named # {}
    IN  WireTextMatches(x, present,
                        IF present THEN query[Smallest(named, 1)].value ELSE None)

WireMatches(m, r) ==
    m # None =>
       /\ m.path # None => WireTextMatches(m.path, TRUE, r.path)
       /\ \A i \in DOMAIN m.headers : WireHeaderMatches(m.headers[i], r)
       /\ \A i \in DOMAIN m.query : WireParamMatches(m.query[i], r)

DomainMatches(d, r) ==
    /\ d.port \in {None, r.port}
    /\ \/ d.host = r.host
       \/ Len(d.host) > 1 /\ d.host[1] = "*" /\ EndsIn(r.host, Tail(d.host))

WireDecides(x, r) ==
    LET v == x.vhosts[1]
        hits == {i \in DOMAIN v.routes : WireMatches(v.routes[i].match, r)}
    IN  IF hits = {} \/ ~\E d \in v.domains : DomainMatches(d, r) THEN None
        ELSE ActionDecision(
                v.routes[CHOOSE i \in hits : \A j \in hits : i <= j].action)

OriginDecides(r) ==
    IF origin.form = "xds" THEN WireDecides(origin.value, r)
    ELSE RouteDecides(origin.value, r)

----------------------------------------------------------------------------

\* Every way is of its type, and a route is never on the wire with more than
\* it can say.
TypeOK ==
    /\ form \in Forms
    /\ origin.form \in Forms
    /\ ranked \in BOOLEAN
    /\ trips \in 0..MaxTrips
    /\ form \in {"failed", "panicked"} <=> value = Failed
    /\ form = "route" => value \in Route /\ Plain(value)
    /\ form = "xds" => value \in RouteConfiguration /\ Expressible(value)
    /\ form = "httproute" => value \in HttpRoute /\ Plain(value)
    /\ form = "backend" => value \in Backend

\* Whatever way a route has gone, it still decides every request the way it
\* did where it began: the same timeouts, retries, backends and shares
\* (Route::from_xds, Route::to_xds and what they call).
MeaningKept ==
    ~ranked =>
       /\ form = "route" =>
             \A r \in Requests : RouteDecides(value, r) = OriginDecides(r)
       /\ form = "xds" /\ last # None =>
             \A r \in Requests : WireDecides(value, r) = OriginDecides(r)

\* A route that has been an HTTPRoute decides by the rank of its rules and
\* never by their place: the most specific rule that matches is the one a
\* client finds first, and conversions from there keep it so
\* (Route::from_gateway_httproute, Ord for RouteRule).
RankDecides ==
    ranked /\ origin.form = "route" =>
       \A r \in Requests :
          /\ form = "route" =>
                RouteDecides(value, r) = RankedDecides(origin.value, r)
          /\ form = "xds" =>
                WireDecides(value, r) = RankedDecides(origin.value, r)

\* Publishing again what was read from xDS ends: the fourth trip gives the
\* route of the third.  (The first may read a retry that says nothing, of a
\* back-off without an interval; the second reads that as none; the third may
\* merge rules that are alike by then: RouteRetry::from_xds, group_by.)
TripsSettle ==
    [][form = "xds" /\ trips >= 3 => form' = "route" /\ value' = last]_vars

\* What a backend says of its service, its port and its policy survives
\* Kubernetes and xDS, hash policies and ring size included, and wherever it
\* ends up the policy is that of its own port.  Only the patch of a DNS
\* backend leaves the ports to the Service
\* (Backend::to_service_patch, from_service, to_xds, from_xds).
BackendsAlike ==
    form = "backend" /\ last # None =>
       /\ value.id.service = last.id.service
       /\ value.id.port = last.id.port \/ (ranked /\ value.id.service.kind = "dns")
       /\ value.id = last.id => value.lb = last.lb
=============================================================================
