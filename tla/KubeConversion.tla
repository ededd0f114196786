--------------------------- MODULE KubeConversion ---------------------------
(***************************************************************************)
(* Routes to and from Gateway API HTTPRoutes, and backends to and from     *)
(* Kubernetes Services (junction-api kube/http.rs, kube/backend.rs).  A    *)
(* list that may be absent is an empty one where the code flattens it.  A  *)
(* name in a reference is a sequence of labels; annotations of ours are    *)
(* kept apart from others by a field instead of a prefix.                  *)
(***************************************************************************)
EXTENDS XdsConversion

CONSTANT GatewayDuration    \* the durations that Gateway API can express

MaxI32 == MaxU32 \div 2

\* HTTPRoute and its parts, as others write them.
GatewayPath == [type : {"Exact", "PathPrefix", "RegularExpression", None},
                value : Text \cup {None}]
GatewayMatcher == [type : {"Exact", "RegularExpression", None},
                   name : Word, value : Text]
GatewayMatch == [path : GatewayPath \cup {None}, method : Text \cup {None},
                 headers : Seq(GatewayMatcher), query : Seq(GatewayMatcher)]
GatewayRetry == [codes : Seq(Int) \cup {None}, attempts : Int \cup {None},
                 backoff : Nat \cup {None}]
ParentRef == [group : Word \cup {None}, kind : Word \cup {None},
              name : Hostname, namespace : Label \cup {None},
              port : Int \cup {None}]
GatewayBackendRef == [group : Word \cup {None}, kind : Word \cup {None},
                      name : Hostname, namespace : Label \cup {None},
                      port : Int \cup {None},
                      weight : (0 - MaxI32 - 1)..MaxI32 \cup {None}]
GatewayRule == [name : Label \cup {None}, matches : Seq(GatewayMatch),
                filters : Seq(Word), timeouts : RouteTimeouts \cup {None},
                retry : GatewayRetry \cup {None}, backends : Seq(GatewayBackendRef)]
Annotation == [ours : BOOLEAN, key : Word, value : Word]
HttpRoute == [name : Label \cup {None}, namespace : Label \cup {None},
              annotations : SUBSET Annotation, parents : SUBSET ParentRef,
              rules : Seq(GatewayRule)]

\* method_matches!, each a text of one token.
GatewayMethod == {<<m>> : m \in {"GET", "HEAD", "POST", "PUT", "DELETE",
                                 "CONNECT", "OPTIONS", "TRACE", "PATCH"}}

SerializeDuration(d) == IF d = None \/ d \in GatewayDuration THEN d ELSE Failed
ParseDuration(d) == SerializeDuration(d)

OrElse(x, default) == IF x = None THEN default ELSE x

\* group_kind and name_and_namespace.
ServiceRef(s, port) ==
    IF s.kind = "dns"
    THEN [group |-> "junctionlabs.io", kind |-> "DNS",
          name |-> s.hostname, namespace |-> None, port |-> port]
    ELSE [group |-> "", kind |-> "Service",
          name |-> <<s.name>>, namespace |-> s.namespace, port |-> port]

KubeServiceOf(ref, namespace) ==
    IF Len(ref.name) # 1 THEN Failed
    ELSE KubeService(OrElse(ref.namespace, namespace), ref.name[1])

----------------------------------------------------------------------------
(* Parents: the hostnames of a route, each with all of its ports. *)

HostnameToParent(m, port) ==
    IF m.wild
    THEN [group |-> "junctionlabs.io", kind |-> "DNS",
          name |-> HostnameMatchName(m), namespace |-> None, port |-> port]
    ELSE LET s == ServiceFromStr(m.host)
         IN  IF s = Failed THEN Failed ELSE ServiceRef(s, port)

ToParentRefs(hostnames, ports) ==
    LET refs == {HostnameToParent(m, port) :
                    m \in hostnames, port \in IF ports = {} THEN {None} ELSE ports}
    IN  IF Failed \in refs THEN Failed ELSE refs

ParentHostname(ref, namespace) ==
    LET group == OrElse(ref.group, "gateway.networking.k8s.io")
        kind == OrElse(ref.kind, "")
        service == KubeServiceOf(ref, namespace)
    IN  CASE <<group, kind>> = <<"junctionlabs.io", "DNS">> ->
                HostnameMatchFromStr(ref.name)
          [] <<group, kind>> = <<"", "Service">> ->
                IF service = Failed THEN Failed ELSE Exactly(ServiceName(service))
          [] OTHER -> Failed

\* Every hostname has to come with the same ports.
FromParentRefs(refs, namespace) ==
    LET host(ref) == ParentHostname(ref, namespace)
        hostnames == {host(ref) : ref \in refs}
        ports(h) == {ref.port : ref \in {r \in refs : host(r) = h}} \ {None}
    IN  IF \/ Failed \in hostnames
           \/ \E ref \in refs : BadPort(ref)
           \/ \E g, h \in hostnames : ports(g) # ports(h)
        THEN Failed
        ELSE [hostnames |-> hostnames,
              ports |-> UNION {ports(h) : h \in hostnames}]

----------------------------------------------------------------------------
(* Rules. *)

GatewayType(type) ==
    CASE type = "Exact" -> "Exact" [] type = "Prefix" -> "PathPrefix"
      [] type = "Regex" -> "RegularExpression"

PathToGateway(p) == Pattern(GatewayType(p.type), p.value)
MatcherToGateway(m) == Named(GatewayType(m.type), m.name, m.value)

PathFromGateway(g) ==
    CASE g.value # None /\ g.type = "Exact" -> Pattern("Exact", g.value)
      [] g.value # None /\ g.type = "PathPrefix" -> Pattern("Prefix", g.value)
      [] g.value # None /\ g.type = "RegularExpression" ->
            IF ParseRegex(g.value) = Failed THEN Failed ELSE Pattern("Regex", g.value)
      [] OTHER -> Failed

\* HeaderMatch::from_gateway and QueryParamMatch::from_gateway.
MatcherFromGateway(g) ==
    CASE g.type = "Exact" -> Named("Exact", g.name, g.value)
      [] g.type = "RegularExpression" /\ ParseRegex(g.value) # Failed ->
            Named("Regex", g.name, g.value)
      [] OTHER -> Failed

MatchToGateway(m) ==
    IF m.method # None /\ m.method \notin GatewayMethod THEN Failed
    ELSE [method |-> m.method,
          path |-> IF m.path = None THEN None ELSE PathToGateway(m.path),
          headers |-> Mapped(m.headers, MatcherToGateway),
          query |-> Mapped(m.query, MatcherToGateway)]

MatchFromGateway(g) ==
    LET path == IF g.path = None THEN None ELSE PathFromGateway(g.path)
        headers == Parsed(g.headers, MatcherFromGateway)
        query == Parsed(g.query, MatcherFromGateway)
    IN  IF Failed \in {path, headers, query} THEN Failed
        ELSE [method |-> g.method, path |-> path,
              headers |-> headers, query |-> query]

TimeoutsToGateway(t) ==
    LET request == SerializeDuration(t.request)
        backend == SerializeDuration(t.backend_request)
    IN  IF Failed \in {request, backend} THEN Failed
        ELSE [request |-> request, backend_request |-> backend]
TimeoutsFromGateway(t) == TimeoutsToGateway(t)

RetryToGateway(r) ==
    IF SerializeDuration(r.backoff) = Failed THEN Failed
    ELSE [r EXCEPT !.codes = IF @ = <<>> THEN None ELSE @]

RetryFromGateway(g) ==
    LET codes == OrElse(g.codes, <<>>)
    IN  IF \/ ~(Range(codes) \subseteq Port)
           \/ g.attempts # None /\ g.attempts \notin 0..MaxU32
           \/ ParseDuration(g.backoff) = Failed
        THEN Failed
        ELSE [g EXCEPT !.codes = codes]

BackendRefToGateway(b) ==
    LET ref == ServiceRef(b.service, b.port)
    IN  IF b.weight > MaxI32 \/ b.port = None THEN Failed
        ELSE [group |-> ref.group, kind |-> ref.kind, name |-> ref.name,
              namespace |-> ref.namespace, port |-> ref.port, weight |-> b.weight]

BackendRefFromGateway(namespace, ref) ==
    LET group == OrElse(ref.group, "")
        kind == OrElse(ref.kind, "Service")
        weight == OrElse(ref.weight, 1)
        service == CASE <<group, kind>> = <<"junctionlabs.io", "DNS">> ->
                           DnsService(ref.name)
                     [] <<group, kind>> = <<"", "Service">> ->
                           KubeServiceOf(ref, namespace)
                     [] OTHER -> Failed
    IN  IF weight < 0 \/ ref.port = None \/ BadPort(ref) \/ service = Failed
        THEN Failed ELSE BackendRef(service, ref.port, weight)

Optional(x, Op(_)) == IF x = None THEN None ELSE Op(x)

\* A rule and an HTTPRoute's rule have the same fields; filters are dropped
\* both ways.
RuleOf(name, matches, timeouts, retry, backends) ==
    IF Failed \in {name, matches, timeouts, retry, backends} THEN Failed
    ELSE [AnyRule EXCEPT !.name = name, !.matches = matches,
                         !.timeouts = timeouts, !.retry = retry,
                         !.backends = backends]

RuleToGateway(rule) ==
    RuleOf(rule.name, Parsed(rule.matches, MatchToGateway),
           Optional(rule.timeouts, TimeoutsToGateway),
           Optional(rule.retry, RetryToGateway),
           Parsed(rule.backends, BackendRefToGateway))

RuleFromGateway(namespace, g) ==
    RuleOf(Optional(g.name, NameFromStr), Parsed(g.matches, MatchFromGateway),
           Optional(g.timeouts, TimeoutsFromGateway),
           Optional(g.retry, RetryFromGateway),
           Parsed(g.backends, LAMBDA ref : BackendRefFromGateway(namespace, ref)))

----------------------------------------------------------------------------
(* HTTPRoutes. *)

WriteTags(tags) == {[ours |-> TRUE, key |-> t.key, value |-> t.value] : t \in tags}
ReadTags(annotations) ==
    {[key |-> a.key, value |-> a.value] : a \in {b \in annotations : b.ours}}

RouteToGateway(route, namespace) ==
    LET parents == ToParentRefs(route.hostnames, route.ports)
        rules == Parsed(route.rules, RuleToGateway)
    IN  IF Failed \in {parents, rules} THEN Failed
        ELSE [name |-> route.id, namespace |-> namespace,
              annotations |-> WriteTags(route.tags),
              parents |-> parents, rules |-> rules]

\* Mutated: the rules stay as they were written.
RouteFromGateway_Unsorted(h) ==
    LET namespace == OrElse(h.namespace, "default")
        parents == FromParentRefs(h.parents, namespace)
        rules == Parsed(h.rules, LAMBDA g : RuleFromGateway(namespace, g))
    IN  IF Failed \in {parents, rules} THEN Failed
        ELSE [id |-> h.name, tags |-> ReadTags(h.annotations),
              hostnames |-> parents.hostnames, ports |-> parents.ports,
              rules |-> rules]

\* from_gateway_httproute, which sorts the rules.
RouteFromGateway(h) ==
    LET namespace == OrElse(h.namespace, "default")
        parents == FromParentRefs(h.parents, namespace)
        rules == Parsed(h.rules, LAMBDA g : RuleFromGateway(namespace, g))
    IN  IF Failed \in {parents, rules} THEN Failed
        ELSE [id |-> h.name, tags |-> ReadTags(h.annotations),
              hostnames |-> parents.hostnames, ports |-> parents.ports,
              rules |-> SortDescending(rules, RuleLess)]

\* The two unwrap() of its name.
RouteFromGatewayPanics(h) == h.name = None \/ ~ValidName(h.name)

----------------------------------------------------------------------------
(* Services.  The policies are JSON in an annotation per port, and Failed  *)
(* where that cannot be read.  A patch has None where it says nothing.     *)

BackendToServicePatch(b) ==
    LET s == b.id.service
        kube == s.kind = "kube"
    IN  [annotations |-> [port \in {b.id.port} |-> b.lb],
         type |-> IF kube THEN "ClusterIP" ELSE "ExternalName",
         external |-> IF kube THEN None ELSE s.hostname,
         name |-> IF kube THEN s.name ELSE None,
         namespace |-> IF kube THEN s.namespace ELSE None,
         ports |-> IF kube THEN <<b.id.port>> ELSE None]

GetLbPolicy(annotations, port) ==
    IF port \in DOMAIN annotations THEN annotations[port]
    ELSE [type |-> "Unspecified"]

\* The service a Service stands for, and the ports.
ServiceTarget(svc) ==
    CASE svc.type = "ClusterIP" -> KubeService(svc.namespace, svc.name)
      [] svc.type = "ExternalName" /\ svc.external # None -> DnsService(svc.external)
      [] OTHER -> Failed

ServicePorts(svc) ==
    IF svc.type = "ClusterIP" THEN OrElse(svc.ports, Failed)
    ELSE IF svc.ports \in {None, <<>>} THEN <<80, 443>>
    ELSE svc.ports

BackendsFromService(svc) ==
    LET target == ServiceTarget(svc)
        ports == ServicePorts(svc)
        lbs == Parsed(ports, LAMBDA port : GetLbPolicy(svc.annotations, port))
    IN  IF \/ None \in {svc.namespace, svc.name}
           \/ Failed \in {target, ports} \/ ~(Range(ports) \subseteq Port)
           \/ lbs = Failed
        THEN Failed
        ELSE [i \in DOMAIN ports |->
                [id |-> [service |-> target, port |-> ports[i]], lb |-> lbs[i]]]
=============================================================================
