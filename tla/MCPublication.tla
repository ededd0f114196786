--------------------------- MODULE MCPublication ---------------------------
(***************************************************************************)
(* Routes of up to three rules, with every kind of match, timeouts and     *)
(* retries set or not, one backend or two; malformed and unsupported input *)
(* from others; backends of both kinds with every policy.                  *)
(***************************************************************************)
EXTENDS Publication

CONSTANT MaxRules

MCLabel == {"", "*", "svc", "cluster", "local", "lb", "jct",
            "default", "web", "prod", "example", "com", "-x", "Bad"}
MCSpelling ==
    [l \in MCLabel |-> CASE l = "" -> <<>> [] l \in {"*", "Bad"} -> <<"other">>
                         [] l = "-x" -> <<"dash", "letter">>
                         [] OTHER -> <<"letter", "letter">>]

MCWord == {METHOD, "h", "q", "k", "v", "f", "/", "a", "b", "c", "1", "2", ".*", "^", "(",
           "GET", "PUT", "", "Service", "DNS", "junctionlabs.io", "other"}

ANY == <<".*">>
GET == <<"GET">>
A == <<"/", "a">>
AB == <<"/", "a", "b">>
C == <<"/", "c">>
MCRecognises == ANY :> {<<>>, <<"1">>, <<"2">>, A, AB, C} @@ <<"^", "a">> :> {A, AB}

Web == KubeService("prod", "web")
Example == DnsService(<<"example", "com">>)
Ref(port, weight) == BackendRef(Web, port, weight)
External(port, weight) == BackendRef(Example, port, weight)

Match(path, headers, query, method) ==
    [path |-> path, headers |-> headers, query |-> query, method |-> method]
PrefixA == Match(Pattern("Prefix", A), <<>>, <<>>, None)
ExactAB == Match(Pattern("Exact", AB), <<>>, <<>>, None)
ExactC == Match(Pattern("Exact", C), <<>>, <<>>, None)
RegexGet == Match(Pattern("Regex", <<"^", "a">>), <<>>, <<>>, GET)
Header1 == Match(None, <<Named("Exact", "h", <<"1">>)>>, <<>>, None)
Query2 == Match(EmptyPrefix, <<>>, <<Named("Regex", "q", ANY)>>, None)

Timeouts(request, try) == [request |-> request, backend_request |-> try]
Retry(codes, attempts, backoff) ==
    [codes |-> codes, attempts |-> attempts, backoff |-> backoff]

Rule(matches, timeouts, retry, backends) ==
    [AnyRule EXCEPT !.matches = matches, !.timeouts = timeouts,
                    !.retry = retry, !.backends = backends]

Rules ==
    { Rule(<<PrefixA>>, None, None, <<Ref(80, 1)>>),
      Rule(<<PrefixA>>, None, NoRetry, <<Ref(80, 1)>>),
      [Rule(<<ExactAB, Query2>>, Timeouts(5, 1), Retry(<<503>>, 3, 1),
            <<Ref(80, 1), External(443, 3)>>) EXCEPT !.name = "web"],
      Rule(<<ExactC>>, None, None, <<Ref(80, 1)>>),
      Rule(<<RegexGet>>, Timeouts(None, 1), None, <<External(443, 7)>>),
      Rule(<<Header1>>, Timeouts(5, None), Retry(<<>>, 0, None), <<>>),
      [Rule(<<>>, None, None, <<Ref(443, 2)>>) EXCEPT !.filters = <<"f">>] }

Exact == Exactly(<<"example", "com">>)
Wild == [wild |-> TRUE, host |-> <<"example", "com">>]
KubeHost == Exactly(ServiceName(Web))

Written(hostnames, ports, rules) ==
    [id |-> "web", hostnames |-> hostnames, ports |-> ports, rules |-> rules,
     tags |-> {[key |-> "k", value |-> "v"]}]

MCAuthoredRoute ==
    {Written({Exact}, {}, rules) : rules \in UNION {[1..n -> Rules] : n \in 0..MaxRules}}
       \cup {Written(h, p, <<rule>>) : h \in {{KubeHost}, {Exact, Wild}},
                                     p \in {{80}, {80, 443}}, rule \in Rules}
       \cup {PassthroughRoute("web", Web)}

Action(timeout, policy, cluster) ==
    [type |-> "Route", timeout |-> timeout, policy |-> policy,
     cluster |-> cluster, hash |-> <<>>]
ClusterName(port) == [host |-> ServiceName(Web), port |-> port]
ToCluster(port) == [type |-> "Cluster", name |-> ClusterName(port)]
ToClusters(weights) ==
    [type |-> "Weighted",
     clusters |-> Mapped(weights, LAMBDA w : [name |-> ClusterName(80), weight |-> w])]
Policy(codes, retries, backoff, try) ==
    [codes |-> codes, retries |-> retries, backoff |-> backoff, perTry |-> try]

WireActions ==
    { Action(None, None, ToCluster(80)),
      Action(None, NoPolicy, ToCluster(80)),
      Action(None, NoPolicy, ToCluster(None)),
      Action(None, Policy(<<>>, None, [base |-> None], None), ToCluster(80)),
      Action(4, Policy(<<503>>, 0, [base |-> None], None), ToClusters(<<None, 2>>)),
      Action(4, Policy(<<>>, None, [base |-> 3], 2), ToClusters(<<7>>)),
      Action(-1, None, None),
      Action(None, Policy(<<>>, 1, [base |-> -1], 2), None),
      Action(None, None, [type |-> "ClusterHeader"]),
      Action(None, None, [type |-> "Cluster",
                          name |-> [host |-> <<"-x">>, port |-> None]]),
      [type |-> "Redirect"], None }

WireMatchers ==
    { Named("Exact", "h", <<"1">>), Named(None, "h", None),
      Named("Present", "h", None), Named("Absent", "h", None),
      Named("SafeRegex", "h", <<"(">>), Named("Prefix", "h", <<"1">>),
      Named("Exact", METHOD, GET) }
WireParams == {[x EXCEPT !.name = "q"] : x \in WireMatchers}

WireMatch ==
    {XdsMatch(None, <<>>, <<>>), XdsMatch(Pattern("Other", A), <<>>, <<>>)}
       \cup {XdsMatch(Pattern("Prefix", A), <<x>>, <<>>) : x \in WireMatchers}
       \cup {XdsMatch(Pattern("SafeRegex", <<"^", "a">>), <<>>, <<x>>) : x \in WireParams}

Wire(domains, routes) ==
    [name |-> "web", metadata |-> None,
     vhosts |-> <<[domains |-> domains, routes |-> routes]>>]
Domain(host, port) == [host |-> host, port |-> port]
Bare == {Domain(<<"example", "com">>, None)}
First == XdsRoute(None, XdsMatch(Pattern("Path", C), <<>>, <<>>),
                  Action(None, None, ToCluster(80)))

MCWireRoute ==
    {Wire(Bare, <<First, XdsRoute(None, m, a)>>) : m \in WireMatch, a \in WireActions}
       \* The protocol wants a match; alone in its group, none is any.
       \cup {Wire(Bare, <<First, XdsRoute(n, None, a), First>>) :
                n \in {"web", "-x"}, a \in WireActions}
       \cup {Wire({Domain(h, 80), Domain(h, 443)}, <<First>>) :
                h \in {<<"*", "example", "com">>, <<"*">>, <<"-x">>}}
       \cup { Wire({Domain(<<"com">>, 70000)}, <<First>>),
              [Wire(Bare, <<First>>) EXCEPT !.name = "Bad"],
              [Wire(Bare, <<First>>) EXCEPT !.vhosts = <<>>],
              [Wire(Bare, <<First>>) EXCEPT
                 !.metadata = {[key |-> "k", value |-> Failed]}] }

Parent(group, kind, name, port) ==
    [group |-> group, kind |-> kind, name |-> name, namespace |-> None,
     port |-> port]
Http(parents, rules) ==
    [name |-> "web", namespace |-> None, parents |-> parents, rules |-> rules,
     annotations |-> {[ours |-> FALSE, key |-> "k", value |-> "v"]}]
GatewayRef(group, port, weight) ==
    [group |-> group, kind |-> None, name |-> <<"web">>, namespace |-> None,
     port |-> port, weight |-> weight]
OneRule(path, codes, refs) ==
    [name |-> None, timeouts |-> None, backends |-> refs, filters |-> <<>>,
     retry |-> [codes |-> codes, attempts |-> 2, backoff |-> None],
     matches |-> <<[method |-> None, headers |-> <<>>, query |-> <<>>,
                    path |-> path]>>]

GatewayRules ==
    { OneRule(Pattern("PathPrefix", A), None, <<GatewayRef(None, 80, None)>>),
      OneRule(Pattern("Exact", AB), <<503>>, <<GatewayRef("", 443, 5)>>),
      OneRule(Pattern("RegularExpression", <<"(">>), None, <<>>),
      OneRule(Pattern(None, A), None, <<>>),
      OneRule(None, <<-1>>, <<>>),
      OneRule(None, None, <<GatewayRef(None, None, 1)>>),
      OneRule(None, None, <<GatewayRef(None, 80, -1)>>),
      OneRule(None, None, <<GatewayRef("other", 80, 1)>>) }

ServiceParent(port) == Parent("", "Service", <<"web">>, port)
DnsParent(port) == Parent("junctionlabs.io", "DNS", <<"*", "example", "com">>, port)

MCGatewayRoute ==
    {Http({ServiceParent(None)}, rules) : rules \in [1..2 -> GatewayRules]}
       \cup {Http(parents, <<>>) :
                parents \in SUBSET {ServiceParent(80), ServiceParent(443),
                                    DnsParent(80), DnsParent(443),
                                    Parent(None, None, <<"web">>, None)}}
       \cup { [Http({}, <<>>) EXCEPT !.name = None] }

Lbs == { [type |-> "RoundRobin"], [type |-> "Unspecified"],
         [type |-> "RingHash", min |-> 7, hash |-> <<>>],
         [type |-> "RingHash", min |-> 7,
          hash |-> <<[terminal |-> TRUE, hasher |-> "Header", name |-> "h"],
                     [terminal |-> FALSE, hasher |-> "QueryParam", name |-> "q"]>>] }

MCAuthoredBackend ==
    {[id |-> [service |-> s, port |-> 443], lb |-> lb] : s \in {Web, Example}, lb \in Lbs}

Configs == { None, [type |-> "RoundRobin"],
             [type |-> "RingHash", min |-> None, function |-> "XxHash"],
             [type |-> "RingHash", min |-> MaxU32 + 1, function |-> "XxHash"],
             [type |-> "RingHash", min |-> 3, function |-> "Murmur"] }
HashActions == { None, Action(None, None, None),
                 [Action(None, None, None) EXCEPT
                    !.hash = <<[terminal |-> TRUE,
                                policy |-> [type |-> "Header", name |-> "h"]]>>],
                 [Action(None, None, None) EXCEPT
                    !.hash = <<[terminal |-> TRUE, policy |-> None]>>] }

MCWireBackend ==
    {[cluster |-> [name |-> n, discovery |-> d, policy |-> p, config |-> c,
                   address |-> IF d = "Eds" THEN None ELSE n,
                   eds |-> IF d = "Eds" THEN [service |-> n, ads |-> ads] ELSE None],
      action |-> a] :
        n \in {ClusterName(80), [host |-> <<"example", "com">>, port |-> 80]},
        d \in {"Eds", "LogicalDns"}, p \in {"RoundRobin", "RingHash", "Maglev"},
        c \in Configs, ads \in BOOLEAN, a \in HashActions}

MCExistingService ==
    {[name |-> "web", namespace |-> "prod", type |-> "ClusterIP", external |-> None,
      ports |-> ports, annotations |-> annotations] :
        ports \in {None, <<443>>, <<80, 443>>},
        annotations \in {<<>>, 443 :> [type |-> "RoundRobin"], 80 :> Failed}}

Request(method, path, port, headers, query) ==
    [method |-> method, host |-> <<"example", "com">>, port |-> port,
     path |-> path, headers |-> headers, query |-> query]
MCRequests ==
    { Request(GET, AB, 80, <<>>, None),
      Request(<<"PUT">>, A, 80, <<>>, None),
      Request(<<"PUT">>, C, 443, "h" :> <<"1">>, None),
      Request(GET, C, 80, "h" :> <<"2">>, <<[param |-> "q", value |-> <<"1">>]>>),
      [Request(GET, AB, 80, <<>>, None) EXCEPT !.host = <<"web", "example", "com">>],
      [Request(GET, C, 8080, <<>>, None) EXCEPT !.host = ServiceName(Web)] }
=============================================================================
