---------------------------- MODULE StaticConfig ----------------------------
(***************************************************************************)
(* URLs (url.rs), the path of names a client searches for one (client.rs,  *)
(* search) and configuration that is given and not fetched (lib.rs,        *)
(* StaticConfig).  A URL is a request of RouteApi with its scheme; its     *)
(* port is None when it does not say.                                      *)
(***************************************************************************)
EXTENDS RouteApi

CONSTANTS
    Ndots, Search     \* SearchConfig: dots, and a sequence of hostnames

ASSUME SearchIsAPath == Search \in Seq(Hostname)

\* Url::default_port
DefaultPort(url) ==
    CASE url.port # None -> url.port
      [] url.scheme = "https" -> 443
      [] OTHER -> 80

\* Url::authority, Url::with_hostname
Authority(url) == [host |-> url.host, port |-> DefaultPort(url)]
WithHostname(url, host) == [url EXCEPT !.host = host]

\* The name as it is, and when it has few dots, with every suffix in order.
SearchPath(url) ==
    LET longer == [i \in DOMAIN Search |-> WithHostname(url, url.host \o Search[i])]
    IN  IF Len(url.host) - 1 < Ndots THEN <<url>> \o longer ELSE <<url>>

----------------------------------------------------------------------------

\* A backend is its id and its policy; BackendLb adds the balancer's state.
Backend(id, lb) == [id |-> id, lb |-> lb]
Static(routes, backends) == [routes |-> routes, backends |-> backends]

RefsOf(routes) ==
    UNION {Range(rule.backends) : rule \in UNION {Range(r.rules) : r \in Range(routes)}}

\* A reference to a port that no backend is given for has the default one.
InferredBackends(routes, backends) ==
    { Backend([service |-> ref.service, port |-> ref.port], "Unspecified") :
        ref \in {r \in RefsOf(routes) :
                    /\ r.port # None
                    /\ \A b \in backends : b.id # [service |-> r.service, port |-> r.port]} }

\* A given backend of a service that no route refers to has a route of its own.
InferredRoutes(routes, backends) ==
    LET services == {b.id.service : b \in backends} \ {r.service : r \in RefsOf(routes)}
    IN  {PassthroughRoute("inferred", s) : s \in services}

\* StaticConfig::with_inferred
WithInferred(routes, backends) ==
    Static(routes \o SetToSeq(InferredRoutes(routes, backends)),
           backends \cup InferredBackends(routes, backends))

\* StaticConfig::get_route, get_backend and get_endpoints.
StaticRoute(config, authority) ==
    LET hits == {i \in DOMAIN config.routes :
                    RouteMatches(config.routes[i], authority.host, authority.port)}
    IN  IF hits = {} THEN None
        ELSE config.routes[CHOOSE i \in hits : \A j \in hits : i <= j]

StaticBackend(config, id) ==
    LET hits == {b \in config.backends : b.id = id}
    IN  IF hits = {} THEN None ELSE [lb |-> (CHOOSE b \in hits : TRUE).lb]

StaticEndpoints(config, id) == None
=============================================================================
