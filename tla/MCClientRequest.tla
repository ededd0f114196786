--------------------------- MODULE MCClientRequest ---------------------------
(***************************************************************************)
(* A service that is asked for by its short name and found under its full  *)
(* one, routes that come inline and by reference, match or do not, with    *)
(* weights or without, and endpoints that come and go.                     *)
(***************************************************************************)
EXTENDS ClientRequest, TLC

MCLabel == {"", "*", "svc", "cluster", "local", "lb", "jct", "default", "web", "prod"}
MCSpelling == [l \in MCLabel |-> CASE l = "" -> <<>> [] l = "*" -> <<"other">>
                                   [] OTHER -> <<"letter", "letter">>]
MCRecognises == <<".*">> :> {}

Kube == KubeService("prod", "web")
Suffix == <<"prod">> \o SUBDOMAIN
MCSearch == <<Suffix>>

Short == [host |-> <<"web">>, port |-> 80]
Full == [host |-> <<"web">> \o Suffix, port |-> 80]
Web80 == [service |-> Kube, port |-> 80]

GetUrl(host) == [scheme |-> "http", host |-> host, port |-> None, method |-> <<"GET">>,
              path |-> <<"/", "a">>, headers |-> <<>>, query |-> None]
SearchUrl == {GetUrl(Short.host)}
RetryUrl == {GetUrl(Full.host)}

ThreeTries == [NoRetry EXCEPT !.codes = <<503>>, !.attempts = 3]
RouteTo(id, path, weight, retry) ==
    [id |-> id, hostnames |-> {Exactly(Full.host)}, ports |-> {80}, tags |-> {},
     rules |-> << [AnyRule EXCEPT
                     !.matches = <<[AnyMatch EXCEPT !.path = Pattern("Prefix", path)]>>,
                     !.retry = retry,
                     !.backends = <<BackendRef(Kube, None, weight)>>] >>]

\* The search: two names that come and go, one of them by reference.
SearchContent ==
    In("listeners", Short) :> {[rds |-> "rc"], None, Absent}
    @@ In("route_configs", "rc") :>
          {[route |-> RouteTo("short", <<"/">>, 1, None)], [route |-> None], Absent}
    @@ In("listeners", Full) :>
          {[route |-> RouteTo("full", <<"/", "a">>, 1, None)],
           [route |-> RouteTo("other", <<"/", "b">>, 1, None)],
           [route |-> RouteTo("idle", <<"/">>, 0, None)], None}
    @@ In("clusters", Web80) :> {None}

\* The retries: one name, whose backend and endpoints come and go.
RetryContent ==
    In("listeners", Full) :> {[route |-> RouteTo("full", <<"/">>, 1, ThreeTries)], Absent}
    @@ In("clusters", Web80) :> {[lb |-> "RoundRobin"], None}
    @@ In("load_assignments", Web80) :>
          {[group |-> <<>>], [group |-> <<"a", "b">>], Absent}

SearchKey == DOMAIN SearchContent
RetryKey == DOMAIN RetryContent

Dynamic == [kind |-> "Dynamic", static |-> None]
Given == RouteTo("given", <<"/">>, 1, ThreeTries)
SearchConfig == {Dynamic}
MCConfig ==
    { Dynamic,
      [kind |-> "DynamicEndpoints", static |-> WithInferred(<<Given>>, {Backend(Web80, "RingHash")})],
      [kind |-> "Static", static |-> WithInferred(<<>>, {Backend(Web80, "RingHash")})] }
=============================================================================
