------------------------------ MODULE RouteApi ------------------------------
(***************************************************************************)
(* Routes and backends as applications and control planes write them       *)
(* (junction-api http.rs, backend.rs), which requests they match           *)
(* (client.rs, lib.rs) and how rules are ordered.  Text is a sequence of   *)
(* tokens; the hostnames and ports of a route are sets, since their order  *)
(* tells nothing apart.  A request is a record of method, host, port,      *)
(* path, headers (a function from names to texts, or Failed for bytes that *)
(* are no text) and query (None or a sequence of parameters with values).  *)
(***************************************************************************)
EXTENDS Names

CONSTANTS
    Recognises,    \* regular expression that compiles -> texts it matches
    AnyText,       \* the one that matches all, ".*"
    DefaultRing    \* default_min_ring_size()

Pattern(type, value) == [type |-> type, value |-> value]
Named(type, name, value) == [type |-> type, name |-> name, value |-> value]

\* RouteMatch::default, RouteRule::default and RouteRetry::default.
AnyMatch == [path |-> None, headers |-> <<>>, query |-> <<>>, method |-> None]
AnyRule == [name |-> None, matches |-> <<>>, filters |-> <<>>,
            timeouts |-> None, retry |-> None, backends |-> <<>>]
NoRetry == [codes |-> <<>>, attempts |-> None, backoff |-> None]
EmptyPrefix == Pattern("Prefix", <<>>)

BackendRef(service, port, weight) ==
    [service |-> service, port |-> port, weight |-> weight]

\* BackendRef::from_str and BackendRef::name.
BackendRefFromStr(s) ==
    IF BadPort(s) \/ ServiceFromStr(s.host) = Failed THEN Failed
    ELSE BackendRef(ServiceFromStr(s.host), s.port, 1)
BackendRefName(b) == [host |-> ServiceName(b.service), port |-> b.port]

IntoBackendId(b, defaultPort) ==
    WithPort(b.service, IF b.port = None THEN defaultPort ELSE b.port)

\* Route::passthrough_route.
PassthroughRoute(id, service) ==
    [id |-> id, hostnames |-> {Exactly(ServiceName(service))},
     ports |-> {}, tags |-> {},
     rules |-> <<[AnyRule EXCEPT
                    !.matches = <<[AnyMatch EXCEPT !.path = EmptyPrefix]>>,
                    !.backends = <<BackendRef(service, None, 1)>>]>>]

ParseRegex(t) == IF t \in DOMAIN Recognises THEN t ELSE Failed

----------------------------------------------------------------------------
(* What matches. *)

TextMatches(type, value, text) ==
    CASE type = "Exact"  -> value = text
      [] type = "Prefix" -> IsPrefix(value, text)
      [] type = "Regex"  -> text \in Recognises[value]

\* Only the first parameter of that name counts.
ParamMatches(m, query) ==
    /\ query # None
    /\ \E i \in DOMAIN query :
          /\ query[i].param = m.name
          /\ \A j \in 1..(i - 1) : query[j].param # m.name
          /\ TextMatches(m.type, m.value, query[i].value)

HeaderMatches(m, headers) ==
    /\ m.name \in DOMAIN headers /\ headers[m.name] # Failed
    /\ TextMatches(m.type, m.value, headers[m.name])

MatchMatches(m, r) ==
    /\ m.method # None => m.method = r.method
    /\ m.path # None => TextMatches(m.path.type, m.path.value, r.path)
    /\ \A i \in DOMAIN m.headers : HeaderMatches(m.headers[i], r.headers)
    /\ \A i \in DOMAIN m.query : ParamMatches(m.query[i], r.query)

RuleMatches(rule, r) ==
    rule.matches = <<>> \/ \E i \in DOMAIN rule.matches :
                              MatchMatches(rule.matches[i], r)

\* route_matches of lib.rs.
RouteMatches(route, host, port) ==
    /\ \E m \in route.hostnames : MatchesStr(m, host)
    /\ route.ports = {} \/ port \in route.ports

\* find_matching_rule: the index of the first, or None.
MatchingRule(route, r) ==
    LET hits == {i \in DOMAIN route.rules : RuleMatches(route.rules[i], r)}
    IN  IF hits = {} THEN None ELSE CHOOSE i \in hits : \A j \in hits : i <= j

----------------------------------------------------------------------------
(* How rules are ordered (impl Ord for PathMatch, RouteMatch, RouteRule):  *)
(* a match by path, method, number of headers and of parameters, a rule by *)
(* its matches, greatest first.                                            *)

\* Lexicographic order on sequences, given one on their elements.
LexLess(s, t, Less(_, _)) ==
    \E i \in 1..(Len(s) + 1) :
       /\ \A j \in 1..(i - 1) : j <= Len(t) /\ ~Less(s[j], t[j]) /\ ~Less(t[j], s[j])
       /\ i <= Len(t) /\ (i <= Len(s) => Less(s[i], t[i]))

NatLess(m, n) == m < n

PathRank(p) ==
    IF p = None THEN <<0, 0>>
    ELSE <<CASE p.type = "Regex" -> 1 [] p.type = "Prefix" -> 2
             [] p.type = "Exact" -> 3, Len(p.value)>>

MatchRank(m) ==
    PathRank(m.path) \o <<IF m.method = None THEN 0 ELSE 1,
                          Len(m.headers), Len(m.query)>>

MatchLess(m, n) == LexLess(MatchRank(m), MatchRank(n), NatLess)

\* slice::sort_by with the greatest first: stable.
SortDescending(s, Less(_, _)) ==
    LET upTo(i) == {j \in DOMAIN s : \/ Less(s[i], s[j])
                                     \/ ~Less(s[j], s[i]) /\ j <= i}
    IN  [k \in DOMAIN s |-> s[CHOOSE i \in DOMAIN s : Cardinality(upTo(i)) = k]]

RuleLess(p, q) ==
    LexLess(SortDescending(p.matches, MatchLess),
            SortDescending(q.matches, MatchLess), MatchLess)
=============================================================================
