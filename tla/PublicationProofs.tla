------------------------- MODULE PublicationProofs -------------------------
(***************************************************************************)
(* What a route decides and what a backend says survive Kubernetes and     *)
(* xDS, for every pool of routes, route configurations, HTTPRoutes,        *)
(* backends, clusters and Services, and for every request.                 *)
(*                                                                         *)
(* A route that is turned into xDS decides there what it decided, and so   *)
(* does one that is read from xDS: matches one by one, then actions, then  *)
(* rules, whose first match on either side is the same rule: a rule is a   *)
(* run of routes with its name and action.  Rules and matches are ordered  *)
(* by rank in a weak order, and what is ordered is found by its place.     *)
(* What is written as an HTTPRoute is read back as it was, in that order,  *)
(* so that the first rule that matches is the one of highest rank.  A      *)
(* backend read back is the one that was written, or an error: reading is  *)
(* the inverse of writing where it succeeds, and the name of a DNS backend *)
(* that reads as a Kubernetes service is refused for its way of discovery. *)
(*                                                                         *)
(* Publishing again settles: rules are merged when they are read only      *)
(* where they are alike, so that reading what a route of distinct          *)
(* neighbours wrote gives that route back.                                 *)
(***************************************************************************)
EXTENDS Publication, IndicesProofs

----------------------------------------------------------------------------
(* Matches, to xDS. *)

\* A text that is matched has to be one.
LEMMA AnyTextIsText == Recognises[AnyText] \subseteq Text /\ Failed \notin Recognises[AnyText]
BY TextConstants, NoneIsApart

LEMMA MatcherWritten ==
    ASSUME NEW m \in Matcher
    PROVE  /\ MatcherToXds(m) \in XdsMatcher
           /\ MatcherToXds(m).name = m.name /\ MatcherToXds(m).value = m.value
           /\ MatcherToXds(m).type = IF m.type = "Exact" THEN "Exact" ELSE "SafeRegex"
           /\ m.type \in {"Exact", "Regex"}
BY TextConstants DEF Matcher, MatcherToXds, Named, XdsMatcher

LEMMA HeaderWritten ==
    ASSUME NEW m \in Matcher, m.name # METHOD, NEW r, Legible(r)
    PROVE  WireHeaderMatches(MatcherToXds(m), r) <=> HeaderMatches(m, r.headers)
<1> DEFINE x == MatcherToXds(m)
<1>1. /\ x.name = m.name /\ x.value = m.value /\ m.type \in {"Exact", "Regex"}
      /\ x.type = IF m.type = "Exact" THEN "Exact" ELSE "SafeRegex"
  BY MatcherWritten
<1>2. None # "Exact" /\ None # "SafeRegex"
  BY NoneIsApart
<1> HIDE DEF x
<1>3. CASE x.name \notin DOMAIN r.headers
  <2>1. ~HeaderMatches(m, r.headers)
    BY <1>1, <1>3 DEF HeaderMatches
  <2>2. x.name \notin {METHOD} \cup DOMAIN r.headers
    BY <1>1, <1>3
  <2>3. ~WireHeaderMatches(x, r)
    BY <1>1, <1>2, <2>2 DEF WireHeaderMatches, WireTextMatches
  <2> QED  BY <2>1, <2>3 DEF x
<1>4. CASE m.name \in DOMAIN r.headers
  <2>1. r.headers[m.name] # Failed
    BY <1>4, AnyTextIsText DEF Legible
  <2> DEFINE text == r.headers[m.name]
             present == x.name \in {METHOD} \cup DOMAIN r.headers
  <2>2. HeaderMatches(m, r.headers) <=> TextMatches(m.type, m.value, text)
    BY <1>4, <2>1 DEF HeaderMatches
  <2>3. present /\ x.name # METHOD
    BY <1>1, <1>4
  <2>4. WireHeaderMatches(x, r) <=> WireTextMatches(x, TRUE, text)
    <3>1. WireHeaderMatches(x, r)
            <=> WireTextMatches(x, present,
                        CASE x.name = METHOD -> r.method
                          [] x.name # METHOD /\ present -> r.headers[x.name]
                          [] OTHER -> None)
      BY DEF WireHeaderMatches
    <3>2. (CASE x.name = METHOD -> r.method
                          [] x.name # METHOD /\ present -> r.headers[x.name]
                          [] OTHER -> None) = text
      BY <1>1, <2>3
    <3>3. present = TRUE
      BY <2>3
    <3> HIDE DEF present
    <3> QED  BY <3>1, <3>2, <3>3
  <2>5. WireTextMatches(x, TRUE, text) <=> TextMatches(m.type, m.value, text)
    <3>1. CASE m.type = "Exact"
      BY <1>1, <1>2, <3>1 DEF WireTextMatches, TextMatches
    <3>2. CASE m.type = "Regex"
      BY <1>1, <1>2, <3>2 DEF WireTextMatches, TextMatches
    <3> QED  BY <1>1, <3>1, <3>2
  <2> QED  BY <2>2, <2>4, <2>5 DEF x
<1> QED  BY <1>1, <1>3, <1>4 DEF x

\* Only the first parameter of that name counts, here as there.
LEMMA ParamWritten ==
    ASSUME NEW m \in Matcher, NEW r, Legible(r)
    PROVE  WireParamMatches(MatcherToXds(m), r) <=> ParamMatches(m, r.query)
<1> DEFINE x == MatcherToXds(m)
           query == OrElse(r.query, <<>>)
           named == {i \in DOMAIN query : query[i].param = x.name}
           first == Smallest(named, 1)
<1>1. /\ x.name = m.name /\ x.value = m.value /\ m.type \in {"Exact", "Regex"}
      /\ x.type = IF m.type = "Exact" THEN "Exact" ELSE "SafeRegex"
  BY MatcherWritten
<1>2. None # "Exact" /\ None # "SafeRegex"
  BY NoneIsApart
<1> HIDE DEF x
<1>3. CASE named = {}
  <2>1. ~ParamMatches(m, r.query)
    BY <1>1, <1>3 DEF ParamMatches, OrElse
  <2>2. ~WireParamMatches(x, r)
    BY <1>1, <1>2, <1>3 DEF WireParamMatches, WireTextMatches
  <2> QED  BY <2>1, <2>2 DEF x
<1>4. CASE named # {}
  <2>1. r.query # None
    BY <1>4 DEF OrElse
  <2>2. query = r.query /\ query \in Seq([param : Word, value : Recognises[AnyText]])
    BY <2>1 DEF OrElse, Legible
  <2>3. DOMAIN query = 1..Len(query) /\ Len(query) \in Nat
    BY <2>2
  <2>4. first \in named /\ \A i \in named : first <= i
    <3>1. IsFiniteSet(named) /\ named \in SUBSET Nat
      <4> HIDE DEF query
      <4>1. named \in SUBSET (1..Len(query)) /\ IsFiniteSet(1..Len(query))
        BY <2>3, FS_Interval
      <4> HIDE DEF named
      <4>2. 1..Len(query) \in SUBSET Nat
          BY <2>3
        <4> QED  BY <4>1, <4>2, FS_Subset
    <3> HIDE DEF named
    <3> QED  BY <1>4, <3>1, SmallestIsLeast
  <2>5. ParamMatches(m, r.query) <=> TextMatches(m.type, m.value, query[first].value)
    <3>1. ASSUME NEW i \in DOMAIN query, query[i].param = m.name,
                 \A j \in 1..(i - 1) : query[j].param # m.name
          PROVE  i = first
      <4>1. first \in 1..Len(query) /\ query[first].param = m.name /\ first <= i
        BY <1>1, <2>3, <2>4, <3>1
      <4>2. first \notin 1..(i - 1)
        BY <3>1, <4>1
      <4> HIDE DEF first, query, named
      <4> QED  BY <2>3, <4>1, <4>2
    <3>2. \A j \in 1..(first - 1) : query[j].param # m.name
      <4>1. first \in 1..Len(query)
        BY <2>3, <2>4
      <4>2. ASSUME NEW j \in 1..(first - 1) PROVE j \in DOMAIN query /\ ~(first <= j)
        <5> HIDE DEF first, query, named
        <5> QED  BY <2>3, <4>1
      <4> QED  BY <1>1, <2>4, <4>2
    <3>3. first \in DOMAIN query /\ query[first].param = m.name
      BY <1>1, <2>4
    <3> HIDE DEF first, query, named
    <3> QED  BY <2>1, <2>2, <3>1, <3>2, <3>3 DEF ParamMatches
  <2>6. WireParamMatches(x, r) <=> WireTextMatches(x, TRUE, query[first].value)
    BY <1>4 DEF WireParamMatches
  <2>7. WireTextMatches(x, TRUE, query[first].value)
          <=> TextMatches(m.type, m.value, query[first].value)
    <3> HIDE DEF first, query
    <3>1. CASE m.type = "Exact"
      BY <1>1, <1>2, <3>1 DEF WireTextMatches, TextMatches
    <3>2. CASE m.type = "Regex"
      BY <1>1, <1>2, <3>2 DEF WireTextMatches, TextMatches
    <3> QED  BY <1>1, <3>1, <3>2
  <2> QED  BY <2>5, <2>6, <2>7 DEF x
<1> QED  BY <1>3, <1>4

LEMMA PathWritten ==
    ASSUME NEW p \in PathMatch, NEW text
    PROVE  /\ PathToXds(p) \in XdsPath /\ PathToXds(p) # None
           /\ WireTextMatches(PathToXds(p), TRUE, text) <=> TextMatches(p.type, p.value, text)
<1> DEFINE x == PathToXds(p)
<1>1. /\ p.type \in {"Exact", "Prefix", "Regex"} /\ p.value \in Text
      /\ x.value = p.value
      /\ p.type = "Exact" => x = [type |-> "Path", value |-> p.value]
      /\ p.type = "Prefix" => x = [type |-> "Prefix", value |-> p.value]
      /\ p.type = "Regex" => x = [type |-> "SafeRegex", value |-> p.value]
  BY TextConstants DEF PathMatch, PathToXds, Pattern
<1> HIDE DEF x
<1>2. x \in XdsPath
  BY <1>1 DEF XdsPath
<1>3. None \notin XdsPath /\ None # "Path" /\ None # "Prefix" /\ None # "SafeRegex"
  BY NoneIsApart
<1>7. x # None
  BY <1>2, <1>3
<1>8. WireTextMatches(x, TRUE, text) <=> TextMatches(p.type, p.value, text)
  <2>1. CASE p.type = "Exact"
    <3>1. x.type = "Path" /\ x.value = p.value
      BY <1>1, <2>1
    <3> QED  BY <1>3, <2>1, <3>1 DEF WireTextMatches, TextMatches
  <2>2. CASE p.type = "Prefix"
    <3>1. x.type = "Prefix" /\ x.value = p.value
      BY <1>1, <2>2
    <3> QED  BY <1>3, <2>2, <3>1 DEF WireTextMatches, TextMatches
  <2>3. CASE p.type = "Regex"
    <3>1. x.type = "SafeRegex" /\ x.value = p.value
      BY <1>1, <2>3
    <3> QED  BY <1>3, <2>3, <3>1 DEF WireTextMatches, TextMatches
  <2> QED  BY <1>1, <2>1, <2>2, <2>3
<1> QED  BY <1>2, <1>7, <1>8 DEF x

\* A list that is written item by item.
LEMMA MatchersWritten ==
    ASSUME NEW s \in Seq(Matcher)
    PROVE  /\ Mapped(s, MatcherToXds) \in Seq(XdsMatcher)
           /\ Len(Mapped(s, MatcherToXds)) = Len(s)
           /\ \A i \in DOMAIN s : Mapped(s, MatcherToXds)[i] = MatcherToXds(s[i])
<1> DEFINE xs == [i \in DOMAIN s |-> MatcherToXds(s[i])]
<1>1. DOMAIN s = 1..Len(s) /\ Len(s) \in Nat /\ \A i \in DOMAIN s : s[i] \in Matcher
  OBVIOUS
<1>2. \A i \in DOMAIN s : MatcherToXds(s[i]) \in XdsMatcher
  BY <1>1, MatcherWritten
<1>3. xs \in [1..Len(s) -> XdsMatcher]
  BY <1>1, <1>2
<1>4. xs \in Seq(XdsMatcher) /\ Len(xs) = Len(s)
  BY <1>1, <1>3
<1>5. Mapped(s, MatcherToXds) = xs
  BY DEF Mapped
<1> QED  BY <1>4, <1>5

PlainMatch(m) == \A h \in Range(m.headers) : h.name # METHOD

\* RouteMatch::to_xds
LEMMA MatchWritten ==
    ASSUME NEW m \in RouteMatch, PlainMatch(m)
    PROVE  LET x == MatchToXds(m)
           IN  /\ x \in XdsRouteMatch /\ OneMethod(x.headers)
               /\ \A r : Legible(r) => (WireMatches(x, r) <=> MatchMatches(m, r))
<1> DEFINE x == MatchToXds(m)
           method == IF m.method = None THEN <<>> ELSE <<Named("Exact", METHOD, m.method)>>
           headers == Mapped(m.headers, MatcherToXds)
           query == Mapped(m.query, MatcherToXds)
           path == IF m.path = None THEN None ELSE PathToXds(m.path)
<1>1. /\ m.path \in PathMatch \cup {None} /\ m.method \in Text \cup {None}
      /\ m.headers \in Seq(Matcher) /\ m.query \in Seq(Matcher)
  BY DEF RouteMatch
<1>2. x = [path |-> path, headers |-> method \o headers, query |-> query]
  BY DEF MatchToXds, XdsMatch
<1>3. method \in Seq(XdsMatcher) /\ Len(method) = IF m.method = None THEN 0 ELSE 1
  <2>1. Named("Exact", METHOD, m.method) \in XdsMatcher \/ m.method = None
    BY <1>1, TextConstants DEF Named, XdsMatcher
  <2> QED  BY <2>1
<1>4. /\ headers \in Seq(XdsMatcher) /\ Len(headers) = Len(m.headers)
      /\ \A i \in DOMAIN m.headers : headers[i] = MatcherToXds(m.headers[i])
      /\ query \in Seq(XdsMatcher) /\ Len(query) = Len(m.query)
      /\ \A i \in DOMAIN m.query : query[i] = MatcherToXds(m.query[i])
  BY <1>1, MatchersWritten
<1> DEFINE all == method \o headers
<1> HIDE DEF headers, query
<1>5. /\ all \in Seq(XdsMatcher) /\ Len(all) = Len(method) + Len(headers)
      /\ \A i \in 1..Len(all) : all[i] = IF i <= Len(method) THEN method[i]
                                        ELSE headers[i - Len(method)]
  <2>1. /\ all \in Seq(XdsMatcher) /\ Len(all) = Len(method) + Len(headers)
        /\ \A i \in 1..Len(method) + Len(headers) :
              all[i] = IF i <= Len(method) THEN method[i] ELSE headers[i - Len(method)]
    <3>1. method \in Seq(XdsMatcher) /\ headers \in Seq(XdsMatcher)
      BY <1>3, <1>4
    <3> HIDE DEF method
    <3> QED  BY <3>1, ConcatProperties
  <2> HIDE DEF method, all
  <2> QED  BY <2>1
<1>6. path \in XdsPath \cup {None}
  BY <1>1, PathWritten
<1>7. x \in XdsRouteMatch
  <2> HIDE DEF path, all
  <2> QED  BY <1>2, <1>4, <1>5, <1>6 DEF XdsRouteMatch, all
<1>8. DOMAIN m.headers = 1..Len(m.headers) /\ Len(m.headers) \in Nat
      /\ \A i \in DOMAIN m.headers : m.headers[i] \in Matcher /\ m.headers[i].name # METHOD
  BY <1>1 DEF PlainMatch, Range
\* Each header of the wire is the method or one of the match.
<1> DEFINE n == Len(method)
<1>9. /\ DOMAIN all = 1..(n + Len(m.headers)) /\ n \in Nat
      /\ n = 0 <=> m.method = None
      /\ n # 0 => n = 1 /\ all[1] = Named("Exact", METHOD, m.method)
      /\ \A i \in DOMAIN m.headers : n + i \in DOMAIN all /\ all[n + i] = MatcherToXds(m.headers[i])
      /\ \A i \in DOMAIN all : (i = 1 /\ n = 1) \/ i - n \in DOMAIN m.headers
  <2>1. n \in {0, 1} /\ (n = 0 <=> m.method = None)
    BY <1>3
  <2>2. n # 0 => method[1] = Named("Exact", METHOD, m.method)
    BY <2>1
  <2> HIDE DEF method, all, n
  <2>3. DOMAIN all = 1..(n + Len(m.headers)) /\ Len(all) = n + Len(m.headers)
    BY <1>4, <1>5 DEF n
  <2>4. n # 0 => all[1] = method[1]
    BY <1>5, <1>8, <2>1, <2>3 DEF n
  <2>5. ASSUME NEW i \in DOMAIN m.headers
        PROVE  n + i \in DOMAIN all /\ all[n + i] = MatcherToXds(m.headers[i])
    <3>1. i \in 1..Len(m.headers) /\ i \in Nat
      BY <1>8
    <3>2. n + i \in 1..(n + Len(m.headers)) /\ ~(n + i <= n) /\ (n + i) - n = i
      BY <1>8, <2>1, <3>1
    <3>3. all[n + i] = headers[i]
      BY <1>5, <2>3, <3>2 DEF n
    <3> QED  BY <1>4, <2>3, <3>2, <3>3
  <2>6. \A i \in DOMAIN all : (i = 1 /\ n = 1) \/ i - n \in DOMAIN m.headers
    BY <1>8, <2>1, <2>3
  <2> QED  BY <2>1, <2>2, <2>3, <2>4, <2>5, <2>6
<1> HIDE DEF method, all, path, n
<1>10. ASSUME NEW i \in DOMAIN all
       PROVE  \/ /\ i = 1 /\ n = 1 /\ m.method # None
                /\ all[i] = Named("Exact", METHOD, m.method)
              \/ \E j \in DOMAIN m.headers : i = n + j /\ all[i] = MatcherToXds(m.headers[j])
  <2>1. CASE i = 1 /\ n = 1
    BY <1>9, <2>1
  <2>2. CASE i - n \in DOMAIN m.headers
    <3>1. i = n + (i - n)
      BY <1>8, <1>9
    <3> QED  BY <1>9, <2>2, <3>1
  <2> QED  BY <1>9, <2>1, <2>2
<1>11. OneMethod(x.headers)
  <2>1. \A i \in DOMAIN m.headers : MatcherToXds(m.headers[i]).name # METHOD
    BY <1>8, MatcherWritten
  <2>2. Named("Exact", METHOD, m.method).type = "Exact"
    BY DEF Named
  <2>3. \A i \in DOMAIN all : all[i].name = METHOD => i = 1 /\ all[i].type = "Exact"
    BY <1>10, <2>1, <2>2
  <2>4. x.headers = all
    BY <1>2 DEF all
  <2> QED  BY <2>3, <2>4 DEF OneMethod
<1>12. ASSUME NEW r, Legible(r)
       PROVE  WireMatches(x, r) <=> MatchMatches(m, r)
  <2>1. (m.path # None => TextMatches(m.path.type, m.path.value, r.path))
          <=> (path # None => WireTextMatches(path, TRUE, r.path))
    BY <1>1, PathWritten DEF path
  <2>2. (\A i \in DOMAIN query : WireParamMatches(query[i], r))
          <=> \A i \in DOMAIN m.query : ParamMatches(m.query[i], r.query)
    <3>1. DOMAIN query = DOMAIN m.query /\ \A i \in DOMAIN m.query : m.query[i] \in Matcher
      BY <1>1, <1>4
    <3> QED  BY <1>4, <1>12, <3>1, ParamWritten
  <2>3. m.method # None =>
           (WireHeaderMatches(Named("Exact", METHOD, m.method), r) <=> m.method = r.method)
    BY NoneIsApart DEF WireHeaderMatches, WireTextMatches, Named
  <2>4. \A j \in DOMAIN m.headers :
           WireHeaderMatches(MatcherToXds(m.headers[j]), r) <=> HeaderMatches(m.headers[j], r.headers)
    BY <1>8, <1>12, HeaderWritten
  <2>5. (\A i \in DOMAIN all : WireHeaderMatches(all[i], r))
          <=> /\ m.method # None => m.method = r.method
              /\ \A j \in DOMAIN m.headers : HeaderMatches(m.headers[j], r.headers)
    <3>1. ASSUME \A i \in DOMAIN all : WireHeaderMatches(all[i], r)
          PROVE  /\ m.method # None => m.method = r.method
                 /\ \A j \in DOMAIN m.headers : HeaderMatches(m.headers[j], r.headers)
      <4>1. m.method # None => 1 \in DOMAIN all /\ all[1] = Named("Exact", METHOD, m.method)
        BY <1>8, <1>9
      <4> QED  BY <1>9, <2>3, <2>4, <3>1, <4>1
    <3>2. ASSUME m.method # None => m.method = r.method,
                 \A j \in DOMAIN m.headers : HeaderMatches(m.headers[j], r.headers),
                 NEW i \in DOMAIN all
          PROVE  WireHeaderMatches(all[i], r)
      BY <1>10, <2>3, <2>4, <3>2
    <3> QED  BY <3>1, <3>2
  <2>6. x # None
    BY <1>7, NoneIsApart
  <2>7. x.path = path /\ x.headers = all /\ x.query = query
    BY <1>2 DEF all
  <2>8. WireMatches(x, r)
          <=> /\ path # None => WireTextMatches(path, TRUE, r.path)
              /\ \A i \in DOMAIN all : WireHeaderMatches(all[i], r)
              /\ \A i \in DOMAIN query : WireParamMatches(query[i], r)
    <3> HIDE DEF x
    <3> QED  BY <2>6, <2>7 DEF WireMatches
  <2> QED  BY <2>1, <2>2, <2>5, <2>8 DEF MatchMatches
<1> QED  BY <1>7, <1>11, <1>12

----------------------------------------------------------------------------
(* Actions, to xDS. *)

LEMMA ServiceNameType ==
    ASSUME NEW s \in Service
    PROVE  ServiceName(s) \in Hostname
<1>1. Range(SUBDOMAIN) \subseteq Label
  BY NameConstants
<1>2. SUBDOMAIN \in Seq(Label)
  BY <1>1 DEF SUBDOMAIN, Range
<1> QED  BY <1>2 DEF Service, ServiceName, Hostname

LEMMA RefNameType ==
    ASSUME NEW b \in RouteBackend
    PROVE  BackendRefName(b) \in XdsName /\ b.weight \in 0..MaxU32
<1>1. b.service \in Service /\ b.port \in Port \cup {None} /\ b.weight \in 0..MaxU32
  BY DEF RouteBackend
<1>2. Port \subseteq Nat
  BY NameConstants DEF Port
<1> QED  BY <1>1, <1>2, ServiceNameType DEF BackendRefName, XdsName

\* What the backends of a rule are called, with their shares.
Shares(b) == [i \in DOMAIN b |-> <<BackendRefName(b[i]), IF Len(b) = 1 THEN 1 ELSE b[i].weight>>]
ClusterShares(c) ==
    IF c = None THEN <<>>
    ELSE IF c.type = "Cluster" THEN <<<<c.name, 1>>>>
    ELSE [i \in DOMAIN c.clusters |->
            <<c.clusters[i].name,
              IF Len(c.clusters) = 1 THEN 1 ELSE OrElse(c.clusters[i].weight, 1)>>]

LEMMA BackendsWritten ==
    ASSUME NEW b \in Seq(RouteBackend)
    PROVE  /\ BackendsToXds(b) \in XdsCluster \cup {None}
           /\ ClusterShares(BackendsToXds(b)) = Shares(b)
<1> DEFINE x == BackendsToXds(b)
<1>1. /\ DOMAIN b = 1..Len(b) /\ Len(b) \in Nat
      /\ \A i \in DOMAIN b : b[i] \in RouteBackend
  OBVIOUS
<1>2. \A i \in DOMAIN b : BackendRefName(b[i]) \in XdsName /\ b[i].weight \in 0..MaxU32
  BY <1>1, RefNameType
<1>3. CASE Len(b) = 0
  <2>1. x = None
    BY <1>3 DEF BackendsToXds, Mapped
  <2>2. Shares(b) = <<>>
    BY <1>1, <1>3 DEF Shares
  <2> QED  BY <2>1, <2>2 DEF ClusterShares
<1>4. CASE Len(b) = 1
  <2>1. x = [type |-> "Cluster", name |-> BackendRefName(b[1])]
    BY <1>4 DEF BackendsToXds, Mapped
  <2>2. x \in XdsCluster
    BY <1>1, <1>2, <1>4, <2>1 DEF XdsCluster
  <2>3. x # None
    BY <2>2, NoneIsApart
  <2>4. ClusterShares(x) = <<<<BackendRefName(b[1]), 1>>>>
    BY <2>1, <2>3 DEF ClusterShares
  <2>5. Shares(b) = <<<<BackendRefName(b[1]), 1>>>>
    <3>1. DOMAIN b = {1}
      BY <1>1, <1>4
    <3>2. Shares(b) = [i \in 1..1 |-> <<BackendRefName(b[1]), 1>>]
      BY <1>4, <3>1 DEF Shares
    <3> QED  BY <3>2
  <2> QED  BY <2>2, <2>4, <2>5
<1>5. CASE Len(b) > 1
  <2> DEFINE cs == [i \in DOMAIN b |-> [name |-> BackendRefName(b[i]), weight |-> b[i].weight]]
  <2>1. x = [type |-> "Weighted", clusters |-> cs]
    BY <1>1, <1>5 DEF BackendsToXds, Mapped
  <2>2. cs \in Seq(XdsWeight) /\ Len(cs) = Len(b)
    <3>1. MaxU32 \in Nat
      BY BackendConstants
    <3>2. \A i \in DOMAIN b : [name |-> BackendRefName(b[i]), weight |-> b[i].weight] \in XdsWeight
      BY <1>2, <3>1 DEF XdsWeight
    <3>3. cs \in [1..Len(b) -> XdsWeight]
      BY <1>1, <3>2
    <3> HIDE DEF cs
    <3> QED  BY <1>1, <3>3
  <2>3. x \in XdsCluster /\ x # None
    <3> HIDE DEF cs, x
    <3> QED  BY <2>1, <2>2, NoneIsApart DEF XdsCluster
  <2>4. \A i \in DOMAIN b : OrElse(cs[i].weight, 1) = b[i].weight /\ cs[i].name = BackendRefName(b[i])
    <3>1. MaxU32 \in Nat
      BY BackendConstants
    <3>2. \A i \in DOMAIN b : b[i].weight # None
      BY <1>2, <3>1, NoneIsApart
    <3> QED  BY <3>2 DEF OrElse
  <2>5. ClusterShares(x) = [i \in DOMAIN cs |->
            <<cs[i].name, IF Len(cs) = 1 THEN 1 ELSE OrElse(cs[i].weight, 1)>>]
    <3> HIDE DEF cs, x
    <3> QED  BY <2>1, <2>3 DEF ClusterShares
  <2>6. DOMAIN cs = DOMAIN b
    OBVIOUS
  <2> HIDE DEF cs
  <2>7. ClusterShares(x) = Shares(b)
    BY <2>2, <2>4, <2>5, <2>6 DEF Shares
  <2> QED  BY <2>3, <2>7
<1> QED  BY <1>1, <1>3, <1>4, <1>5

\* RouteRetry::to_xds.
LEMMA RetryWritten ==
    ASSUME NEW retry \in RouteRetry
    PROVE  LET p == RetryToXds(retry)
           IN  /\ p \in XdsRetryPolicy /\ InRange(p) /\ p.perTry = None
               /\ p.codes = retry.codes
               /\ p.retries = IF retry.attempts \in {None, 0} THEN retry.attempts
                              ELSE retry.attempts - 1
               /\ retry.backoff = IF p.backoff = None THEN None ELSE p.backoff.base
<1> DEFINE p == RetryToXds(retry)
           retries == IF retry.attempts \in {None, 0} THEN retry.attempts
                      ELSE retry.attempts - 1
           backoff == IF retry.backoff = None THEN None ELSE [base |-> retry.backoff]
<1>1. /\ retry.codes \in Seq(Port) /\ retry.attempts \in 0..MaxU32 \cup {None}
      /\ retry.backoff \in Nat \cup {None}
  BY DEF RouteRetry
<1>2. p = [codes |-> retry.codes, retries |-> retries, backoff |-> backoff, perTry |-> None]
  <2>1. p = [[codes |-> <<>>, retries |-> None, backoff |-> None, perTry |-> None]
               EXCEPT !.codes = retry.codes, !.retries = retries, !.backoff = backoff]
    BY DEF RetryToXds, NoPolicy
  <2> HIDE DEF p, retries, backoff
  <2> QED  BY <2>1
<1>3. MaxU32 \in Nat /\ MaxU32 > 0 /\ MaxPort \in Nat /\ None \notin Int /\ None \notin [base : XdsDuration]
  BY BackendConstants, NameConstants, NoneIsApart
<1>4. retries \in Nat \cup {None} /\ (retries # None => retries < MaxU32)
  BY <1>1, <1>3
<1>5. backoff \in [base : XdsDuration] \cup {None}
  BY <1>1 DEF XdsDuration
<1>6. retry.codes \in Seq(Nat) /\ Range(retry.codes) \subseteq Port
  <2>1. Port \subseteq Nat
    BY <1>3 DEF Port
  <2>2. \A i \in DOMAIN retry.codes : retry.codes[i] \in Port
    BY <1>1
  <2>3. retry.codes \in Seq(Nat)
    BY <1>1, <2>1, SequenceOfMore
  <2> QED  BY <2>2, <2>3 DEF Range
<1> HIDE DEF retries, backoff, p
<1>7. p \in XdsRetryPolicy
  BY <1>2, <1>4, <1>5, <1>6 DEF XdsRetryPolicy, XdsDuration
<1>8. retry.backoff = IF p.backoff = None THEN None ELSE p.backoff.base
  <2>1. CASE retry.backoff = None
    BY <1>2, <2>1 DEF backoff
  <2>2. CASE retry.backoff # None
    <3>1. backoff = [base |-> retry.backoff] /\ backoff # None
      BY <1>1, <1>3, <2>2 DEF backoff, XdsDuration
    <3> QED  BY <1>2, <3>1
  <2> QED  BY <2>1, <2>2
<1>9. InRange(p)
  BY <1>2, <1>4, <1>6 DEF InRange
<1> QED  BY <1>2, <1>7, <1>8, <1>9 DEF p, retries

\* The action of a rule: what is decided is what the rule says.
LEMMA ActionWritten ==
    ASSUME NEW rule \in RouteRule
    PROVE  LET a == ActionToXds(rule)
           IN  /\ a \in XdsAction /\ a.type = "Route" /\ InRange(a.policy)
               /\ ActionDecision(a) = RuleDecision(rule)
<1> DEFINE a == ActionToXds(rule)
           timeouts == rule.timeouts
           try == IF timeouts = None THEN None ELSE timeouts.backend_request
           request == IF timeouts = None THEN None ELSE timeouts.request
           retried == IF rule.retry = None THEN None ELSE RetryToXds(rule.retry)
           base == IF retried = None THEN NoPolicy ELSE retried
           policy == IF try = None THEN retried ELSE [base EXCEPT !.perTry = try]
           cluster == BackendsToXds(rule.backends)
<1>1. /\ timeouts \in RouteTimeouts \cup {None} /\ rule.retry \in RouteRetry \cup {None}
      /\ rule.backends \in Seq(RouteBackend)
  BY DEF RouteRule
<1>2. request \in Nat \cup {None} /\ try \in Nat \cup {None}
  BY <1>1 DEF RouteTimeouts
<1>3. a = [type |-> "Route", timeout |-> request, policy |-> policy,
           cluster |-> cluster, hash |-> <<>>]
  BY DEF ActionToXds
<1> DEFINE r == OrElse(rule.retry, NoRetry)
           retries == IF r.attempts \in {None, 0} THEN r.attempts ELSE r.attempts - 1
\* A policy for the retries alone, empty where there are none.
<1>4. /\ base \in XdsRetryPolicy /\ InRange(base) /\ base.perTry = None
      /\ base.codes = r.codes /\ base.retries = retries
      /\ r.backoff = IF base.backoff = None THEN None ELSE base.backoff.base
  <2>1. CASE rule.retry = None
    <3>1. base = [codes |-> <<>>, retries |-> None, backoff |-> None, perTry |-> None]
      BY <2>1 DEF NoPolicy
    <3>2. r = [codes |-> <<>>, attempts |-> None, backoff |-> None]
      BY <2>1 DEF OrElse, NoRetry
    <3>3. base \in XdsRetryPolicy
      <4>1. <<>> \in Seq(Nat)
        OBVIOUS
      <4> HIDE DEF base
      <4> QED  BY <3>1, <4>1 DEF XdsRetryPolicy, XdsDuration
    <3>4. InRange(base)
      BY <3>1 DEF InRange, Range
    <3> QED  BY <3>1, <3>2, <3>3, <3>4
  <2>2. CASE rule.retry # None
    <3>1. r = rule.retry /\ retried = RetryToXds(rule.retry)
      BY <2>2 DEF OrElse
    <3>2. retried \in XdsRetryPolicy
      BY <1>1, <2>2, RetryWritten
    <3>3. retried # None
      BY <3>2, NoneIsApart
    <3>4. base = RetryToXds(rule.retry)
      BY <3>1, <3>3
    <3> HIDE DEF base, retried
    <3> QED  BY <1>1, <2>2, <3>1, <3>4, RetryWritten
  <2> QED  BY <2>1, <2>2
<1>5. /\ policy \in XdsRetryPolicy \cup {None} /\ InRange(policy)
      /\ LET p == OrElse(policy, NoPolicy)
         IN  /\ p.perTry = try /\ p.codes = base.codes /\ p.retries = base.retries
             /\ p.backoff = base.backoff
  <2> HIDE DEF base
  <2>1. base = [codes |-> base.codes, retries |-> base.retries,
                backoff |-> base.backoff, perTry |-> base.perTry]
    BY <1>4 DEF XdsRetryPolicy
  <2>2. CASE try = None
    <3>1. policy = retried
      BY <2>2
    <3>2. OrElse(policy, NoPolicy) = base
      BY <3>1 DEF OrElse, base
    <3>3. policy \in {None, base}
      BY <3>1 DEF base
    <3> HIDE DEF policy, try
    <3> QED  BY <1>4, <2>2, <3>2, <3>3 DEF InRange
  <2>3. CASE try # None
    <3>1. policy = [base EXCEPT !.perTry = try]
      BY <2>3
    <3> HIDE DEF policy, try
    <3>2. policy = [codes |-> base.codes, retries |-> base.retries,
                    backoff |-> base.backoff, perTry |-> try]
      BY <2>1, <3>1
    <3>3. policy \in XdsRetryPolicy
      BY <1>2, <1>4, <3>2 DEF XdsRetryPolicy, XdsDuration
    <3>4. policy # None
      BY <3>3, NoneIsApart
    <3>5. InRange(policy)
      <4>1. base # None
        BY <1>4, NoneIsApart
      <4> QED  BY <1>4, <3>2, <4>1 DEF InRange
    <3>6. OrElse(policy, NoPolicy) = policy
      BY <3>4 DEF OrElse
    <3> QED  BY <3>2, <3>3, <3>5, <3>6
  <2> QED  BY <2>2, <2>3
<1>6. cluster \in XdsCluster \cup {None} /\ ClusterShares(cluster) = Shares(rule.backends)
  BY <1>1, BackendsWritten
<1>7. a \in XdsAction
  <2> HIDE DEF request, policy, cluster, a
  <2> QED  BY <1>2, <1>3, <1>5, <1>6 DEF XdsAction, XdsDuration
<1> DEFINE p == OrElse(policy, NoPolicy)
<1>8. ActionDecision(a)
        = Decision(request, p.perTry, p.codes, p.retries,
                   IF p.backoff = None THEN None ELSE p.backoff.base,
                   ClusterShares(cluster))
  <2> HIDE DEF request, policy, cluster, a
  <2> QED  BY <1>3 DEF ActionDecision, ClusterShares
<1> DEFINE t == OrElse(timeouts, [request |-> None, backend_request |-> None])
<1>9. t.request = request /\ t.backend_request = try
  BY DEF OrElse
<1>10. RuleDecision(rule)
        = Decision(t.request, t.backend_request, r.codes, retries, r.backoff,
                   Shares(rule.backends))
  BY DEF RuleDecision, Shares
<1>11. ActionDecision(a) = RuleDecision(rule)
  <2> HIDE DEF request, try, policy, cluster, a, p, t, r, retries, base
  <2> QED  BY <1>4, <1>5, <1>6, <1>8, <1>9, <1>10 DEF p
<1> QED  BY <1>3, <1>5, <1>7, <1>11

----------------------------------------------------------------------------
(* Rules, to xDS. *)

PlainRule(rule) == \A m \in Range(rule.matches) : PlainMatch(m)

\* RouteRule::to_xds: a route for every match, the same action on all.
LEMMA RuleWritten ==
    ASSUME NEW rule \in RouteRule, PlainRule(rule)
    PROVE  LET xs == RuleToXds(rule)
           IN  /\ xs \in Seq(XdsRouteOf) /\ Len(xs) > 0
               /\ \A i \in DOMAIN xs :
                     /\ xs[i].name = rule.name /\ xs[i].action = ActionToXds(rule)
                     /\ xs[i].match # None /\ OneMethod(xs[i].match.headers)
               /\ \A r : Legible(r) =>
                     ((\E i \in DOMAIN xs : WireMatches(xs[i].match, r))
                        <=> RuleMatches(rule, r))
<1> DEFINE xs == RuleToXds(rule)
           any == XdsMatch(EmptyPrefix, <<>>, <<>>)
           ms == IF rule.matches = <<>> THEN <<any>>
                 ELSE [i \in DOMAIN rule.matches |-> MatchToXds(rule.matches[i])]
           action == ActionToXds(rule)
<1>1. /\ rule.matches \in Seq(RouteMatch) /\ rule.name \in Name \cup {None}
      /\ action \in XdsAction
  BY ActionWritten DEF RouteRule
<1>2. xs = [i \in DOMAIN ms |-> XdsRoute(rule.name, ms[i], action)]
  BY DEF RuleToXds, Mapped
<1>3. any \in XdsRouteMatch /\ OneMethod(any.headers)
  <2>1. any = [path |-> [type |-> "Prefix", value |-> <<>>], headers |-> <<>>, query |-> <<>>]
    BY DEF XdsMatch, EmptyPrefix, Pattern
  <2>2. <<>> \in Text /\ <<>> \in Seq(XdsMatcher)
    BY DEF Text
  <2>3. any.headers = <<>> /\ DOMAIN any.headers = {}
    BY <2>1
  <2> HIDE DEF any
  <2> QED  BY <2>1, <2>2, <2>3 DEF XdsRouteMatch, XdsPath, OneMethod
<1>4. \A i \in DOMAIN rule.matches : rule.matches[i] \in RouteMatch /\ PlainMatch(rule.matches[i])
  BY <1>1 DEF PlainRule, Range
<1>5. /\ ms \in Seq(XdsRouteMatch) /\ Len(ms) > 0
      /\ \A i \in DOMAIN ms : OneMethod(ms[i].headers)
  <2>1. CASE rule.matches = <<>>
    <3>1. ms = <<any>>
      BY <2>1
    <3> HIDE DEF ms, any
    <3> QED  BY <1>3, <3>1
  <2>2. CASE rule.matches # <<>>
    <3>1. ms = [i \in DOMAIN rule.matches |-> MatchToXds(rule.matches[i])]
      BY <2>2
    <3>2. DOMAIN rule.matches = 1..Len(rule.matches) /\ Len(rule.matches) \in Nat
          /\ Len(rule.matches) > 0
      BY <1>1, <2>2
    <3>3. \A i \in DOMAIN rule.matches :
             MatchToXds(rule.matches[i]) \in XdsRouteMatch
             /\ OneMethod(MatchToXds(rule.matches[i]).headers)
      BY <1>4, MatchWritten
    <3> HIDE DEF ms
    <3>4. ms \in [1..Len(rule.matches) -> XdsRouteMatch]
      BY <3>1, <3>2, <3>3
    <3>5. ms \in Seq(XdsRouteMatch) /\ Len(ms) = Len(rule.matches)
      BY <3>2, <3>4
    <3> QED  BY <3>1, <3>2, <3>3, <3>5
  <2> QED  BY <2>1, <2>2
<1>6. /\ DOMAIN xs = DOMAIN ms
      /\ \A i \in DOMAIN ms : xs[i] = [name |-> rule.name, match |-> ms[i], action |-> action]
  BY <1>2 DEF XdsRoute
<1>7. xs \in Seq(XdsRouteOf) /\ Len(xs) = Len(ms)
  <2> HIDE DEF ms, action, xs
  <2>1. DOMAIN ms = 1..Len(ms) /\ Len(ms) \in Nat /\ \A i \in DOMAIN ms : ms[i] \in XdsRouteMatch
    BY <1>5
  <2>2. Name \subseteq Label
    BY DEF Name
  <2>3. \A i \in 1..Len(ms) : XdsRoute(rule.name, ms[i], action) \in XdsRouteOf
    BY <1>1, <2>1, <2>2 DEF XdsRouteOf, XdsRoute
  <2>4. xs \in [1..Len(ms) -> XdsRouteOf]
    BY <1>2, <2>1, <2>3
  <2> QED  BY <2>1, <2>4
<1>8. \A i \in DOMAIN ms : ms[i] # None
  <2> HIDE DEF ms
  <2>1. \A i \in DOMAIN ms : ms[i] \in XdsRouteMatch
    BY <1>5
  <2> QED  BY <2>1, NoneIsApart
<1>9. ASSUME NEW r, Legible(r)
      PROVE  (\E i \in DOMAIN ms : WireMatches(ms[i], r)) <=> RuleMatches(rule, r)
  <2>1. CASE rule.matches = <<>>
    <3>1. ms = <<any>>
      BY <2>1
    <3>2. WireMatches(any, r)
      <4>1. any = [path |-> [type |-> "Prefix", value |-> <<>>], headers |-> <<>>, query |-> <<>>]
        BY DEF XdsMatch, EmptyPrefix, Pattern
      <4>2. WireTextMatches([type |-> "Prefix", value |-> <<>>], TRUE, r.path)
        <5>1. IsPrefix(<<>>, r.path)
          BY DEF IsPrefix
        <5> QED  BY <5>1, NoneIsApart DEF WireTextMatches
      <4>3. /\ any.path = [type |-> "Prefix", value |-> <<>>]
            /\ DOMAIN any.headers = {} /\ DOMAIN any.query = {}
        BY <4>1
      <4> HIDE DEF any
      <4> QED  BY <4>2, <4>3 DEF WireMatches
    <3>3. 1 \in DOMAIN ms /\ ms[1] = any
      BY <3>1
    <3> HIDE DEF ms, any
    <3> QED  BY <2>1, <3>2, <3>3 DEF RuleMatches
  <2>2. CASE rule.matches # <<>>
    <3>1. /\ DOMAIN ms = DOMAIN rule.matches
          /\ \A i \in DOMAIN ms : ms[i] = MatchToXds(rule.matches[i])
      BY <2>2
    <3>2. \A i \in DOMAIN rule.matches :
             WireMatches(MatchToXds(rule.matches[i]), r) <=> MatchMatches(rule.matches[i], r)
      BY <1>4, <1>9, MatchWritten
    <3> HIDE DEF ms
    <3> QED  BY <2>2, <3>1, <3>2 DEF RuleMatches
  <2> QED  BY <2>1, <2>2
<1> HIDE DEF ms, xs, action
<1>10. ASSUME NEW r, Legible(r)
       PROVE  (\E i \in DOMAIN xs : WireMatches(xs[i].match, r)) <=> RuleMatches(rule, r)
  BY <1>6, <1>9, <1>10
<1>11. \A i \in DOMAIN xs :
          /\ xs[i].name = rule.name /\ xs[i].action = action
          /\ xs[i].match # None /\ OneMethod(xs[i].match.headers)
  BY <1>5, <1>6, <1>8
<1> QED  BY <1>5, <1>7, <1>10, <1>11 DEF xs, action

----------------------------------------------------------------------------
(* Hostnames and domains, both ways. *)

LEMMA NoStar ==
    ASSUME NEW h \in Hostname, ValidHostname(h)
    PROVE  h[1] # "*" /\ Len(h) > 0 /\ Len(h) \in Nat
<1>1. h \in Seq(Label) /\ h # <<>> /\ ~Foreign(h[1])
  BY DEF Hostname, ValidHostname
<1>2. Len(h) \in Nat /\ Len(h) > 0
  BY <1>1
<1>3. Foreign("*")
  BY NameConstants DEF Foreign, Range
<1> QED  BY <1>1, <1>2, <1>3

HostMatches(host, h) ==
    host = h \/ (Len(host) > 1 /\ host[1] = "*" /\ EndsIn(h, Tail(host)))

\* HostnameMatch::name, and what it stands for.
LEMMA HostWritten ==
    ASSUME NEW m \in HostnameMatch, ValidHostname(m.host),
           NEW h \in Hostname, ValidHostname(h)
    PROVE  HostMatches(HostnameMatchName(m), h) <=> MatchesStr(m, h)
<1> DEFINE name == HostnameMatchName(m)
<1>1. m.host \in Hostname /\ m.wild \in BOOLEAN
  BY DEF HostnameMatch
<1>2. m.host[1] # "*" /\ h[1] # "*" /\ Len(m.host) > 0 /\ Len(m.host) \in Nat
  BY <1>1, NoStar
<1>3. CASE m.wild
  <2>1. "*" \in Label
    BY NameConstants
  <2>2. name = <<"*">> \o m.host
    BY <1>3 DEF HostnameMatchName
  <2>3. Len(name) = Len(m.host) + 1 /\ name[1] = "*" /\ Tail(name) = m.host
    BY <1>1, <2>1, <2>2, ItemBefore DEF Hostname
  <2> HIDE DEF name
  <2>4. name # h /\ Len(name) > 1
    BY <1>2, <2>3
  <2> QED  BY <1>3, <2>3, <2>4 DEF HostMatches, MatchesStr, name
<1>4. CASE ~m.wild
  <2>1. name = m.host
    BY <1>4 DEF HostnameMatchName
  <2> QED  BY <1>2, <1>4, <2>1 DEF HostMatches, MatchesStr
<1> QED  BY <1>3, <1>4

LEMMA HostNameType ==
    ASSUME NEW m \in HostnameMatch
    PROVE  HostnameMatchName(m) \in Hostname
<1>1. "*" \in Label /\ m.host \in Seq(Label)
  BY NameConstants DEF HostnameMatch, Hostname
<1>2. <<"*">> \o m.host \in Seq(Label)
  BY <1>1, ItemBefore
<1> QED  BY <1>1, <1>2 DEF HostnameMatchName, Hostname

LEMMA DomainsWritten ==
    ASSUME NEW route \in Route
    PROVE  /\ Domains(route) \subseteq XdsName /\ SamePorts(Domains(route))
           /\ \A r : Legible(r) =>
                 ((\E d \in Domains(route) : DomainMatches(d, r))
                    <=> RouteMatches(route, r.host, r.port))
<1> DEFINE ports == IF route.ports = {} THEN {None} ELSE route.ports
           hosts == {HostnameMatchName(m) : m \in route.hostnames}
<1>1. /\ route.ports \subseteq Port
      /\ \A m \in route.hostnames : m \in HostnameMatch /\ ValidHostname(m.host)
  BY DEF Route
<1>2. Domains(route) = [host : hosts, port : ports]
  BY DEF Domains
<1>3. Port \subseteq Nat /\ None \notin Nat
  BY NameConstants, NoneIsApart DEF Port
<1>4. hosts \subseteq Hostname
  BY <1>1, HostNameType
<1>5. ports \subseteq Nat \cup {None} /\ (None \in ports => ports = {None})
  BY <1>1, <1>3
<1>6. Domains(route) \subseteq XdsName
  <2> HIDE DEF hosts, ports
  <2>1. ASSUME NEW d \in [host : hosts, port : ports] PROVE d \in XdsName
    <3>1. d = [host |-> d.host, port |-> d.port] /\ d.host \in hosts /\ d.port \in ports
      OBVIOUS
    <3>2. d.host \in Hostname /\ d.port \in Nat \cup {None}
      BY <1>4, <1>5, <3>1
    <3> QED  BY <3>1, <3>2 DEF XdsName
  <2> QED  BY <1>2, <2>1
<1>7. SamePorts(Domains(route))
  <2> HIDE DEF hosts, ports
  <2>1. \A d \in Domains(route) : d.host \in hosts /\ d.port \in ports
    BY <1>2
  <2>2. \A h \in hosts, p \in ports : [host |-> h, port |-> p] \in Domains(route)
    BY <1>2
  <2> QED  BY <1>5, <2>1, <2>2 DEF SamePorts
<1>8. ASSUME NEW r, Legible(r)
      PROVE  (\E d \in Domains(route) : DomainMatches(d, r))
                <=> RouteMatches(route, r.host, r.port)
  <2>1. /\ r.host \in Hostname /\ ValidHostname(r.host) /\ r.port \in Port
    BY <1>8 DEF Legible
  <2>2. \A m \in route.hostnames :
           HostMatches(HostnameMatchName(m), r.host) <=> MatchesStr(m, r.host)
    BY <1>1, <2>1, HostWritten
  <2>3. (\E p \in ports : p \in {None, r.port}) <=> (route.ports = {} \/ r.port \in route.ports)
    BY <1>1, <1>3, <2>1
  <2>4. \A d : DomainMatches(d, r) <=> d.port \in {None, r.port} /\ HostMatches(d.host, r.host)
    BY DEF DomainMatches, HostMatches
  <2>5. (\E d \in Domains(route) : DomainMatches(d, r))
           <=> (\E h \in hosts : HostMatches(h, r.host)) /\ (\E p \in ports : p \in {None, r.port})
    <3> HIDE DEF hosts, ports
    <3>1. ASSUME NEW d \in Domains(route), DomainMatches(d, r)
          PROVE  (\E h \in hosts : HostMatches(h, r.host)) /\ (\E p \in ports : p \in {None, r.port})
      <4>1. d.host \in hosts /\ d.port \in ports
        BY <1>2
      <4> QED  BY <2>4, <3>1, <4>1
    <3>2. ASSUME NEW h \in hosts, HostMatches(h, r.host), NEW p \in ports, p \in {None, r.port}
          PROVE  \E d \in Domains(route) : DomainMatches(d, r)
      <4> DEFINE d == [host |-> h, port |-> p]
      <4>1. d \in Domains(route) /\ d.host = h /\ d.port = p
        BY <1>2
      <4> QED  BY <2>4, <3>2, <4>1
    <3> QED  BY <3>1, <3>2
  <2>6. (\E h \in hosts : HostMatches(h, r.host)) <=> \E m \in route.hostnames : MatchesStr(m, r.host)
    BY <2>2
  <2> QED  BY <2>3, <2>5, <2>6 DEF RouteMatches
<1> QED  BY <1>6, <1>7, <1>8

----------------------------------------------------------------------------
(* Routes, to xDS. *)

\* The first of some places, as CHOOSE finds it.
LEMMA FirstIs ==
    ASSUME NEW S \in SUBSET Nat, S # {}
    PROVE  LET i == CHOOSE n \in S : \A m \in S : n <= m
           IN  i \in S /\ \A m \in S : i <= m
BY LeastNumber

WireHits(routes, r) == {i \in DOMAIN routes : WireMatches(routes[i].match, r)}
RuleHits(rules, r) == {k \in DOMAIN rules : RuleMatches(rules[k], r)}

\* The route that is found first is of the rule that is found first.
LEMMA RulesWritten ==
    ASSUME NEW rules \in Seq(RouteRule), \A k \in DOMAIN rules : PlainRule(rules[k])
    PROVE  LET all == FlattenSeq(Mapped(rules, RuleToXds))
           IN  /\ all \in Seq(XdsRouteOf)
               /\ \A i \in DOMAIN all :
                     \E k \in DOMAIN rules :
                        /\ all[i].action = ActionToXds(rules[k])
                        /\ all[i].match # None /\ OneMethod(all[i].match.headers)
               /\ \A r : Legible(r) =>
                     /\ WireHits(all, r) = {} <=> RuleHits(rules, r) = {}
                     /\ \A i \in WireHits(all, r), k \in RuleHits(rules, r) :
                           /\ \A j \in WireHits(all, r) : i <= j
                           /\ \A l \in RuleHits(rules, r) : k <= l
                           => all[i].action = ActionToXds(rules[k])
<1> DEFINE ss == Mapped(rules, RuleToXds)
           all == FlattenSeq(ss)
<1>1. /\ DOMAIN ss = DOMAIN rules /\ DOMAIN ss = 1..Len(rules) /\ Len(rules) \in Nat
      /\ \A k \in DOMAIN ss : ss[k] = RuleToXds(rules[k])
      /\ \A k \in DOMAIN ss : rules[k] \in RouteRule /\ PlainRule(rules[k])
  BY DEF Mapped
<1>2. ss \in Seq(Seq(XdsRouteOf))
  <2>1. ss = [k \in 1..Len(rules) |-> RuleToXds(rules[k])]
    BY DEF Mapped
  <2>2. ASSUME NEW k \in 1..Len(rules) PROVE ss[k] \in Seq(XdsRouteOf)
    <3>1. rules[k] \in RouteRule /\ PlainRule(rules[k]) /\ ss[k] = RuleToXds(rules[k])
      BY <1>1
    <3> HIDE DEF ss
    <3> QED  BY <3>1, RuleWritten
  <2>3. ss = [k \in 1..Len(rules) |-> ss[k]]
    BY <2>1
  <2> HIDE DEF ss
  <2> QED  BY <1>1, <2>2, <2>3, ListIsSequence
<1>3. \A k \in DOMAIN ss : \A j \in DOMAIN ss[k] :
         /\ ss[k][j].action = ActionToXds(rules[k])
         /\ ss[k][j].match # None /\ OneMethod(ss[k][j].match.headers)
  BY <1>1, RuleWritten
<1>4. ASSUME NEW r, Legible(r), NEW k \in DOMAIN ss
      PROVE  (\E j \in DOMAIN ss[k] : WireMatches(ss[k][j].match, r)) <=> RuleMatches(rules[k], r)
  BY <1>1, <1>4, RuleWritten
<1> HIDE DEF ss
<1>5. all \in Seq(XdsRouteOf)
  BY <1>2, FlattenLays
<1>6. \A i \in DOMAIN all : \E k \in DOMAIN ss : \E j \in DOMAIN ss[k] : all[i] = ss[k][j]
  BY <1>2, FlattenItems
<1>7. \A k \in DOMAIN ss : \A j \in DOMAIN ss[k] : \E i \in DOMAIN all : all[i] = ss[k][j]
  BY <1>2, FlattenKeeps
<1>8. ASSUME NEW i \in DOMAIN all
      PROVE  \E k \in DOMAIN rules :
                /\ all[i].action = ActionToXds(rules[k])
                /\ all[i].match # None /\ OneMethod(all[i].match.headers)
  <2>1. PICK k \in DOMAIN ss : \E j \in DOMAIN ss[k] : all[i] = ss[k][j]
    BY <1>6
  <2> HIDE DEF all
  <2> QED  BY <1>1, <1>3, <2>1
<1>9. ASSUME NEW r, Legible(r)
      PROVE  /\ WireHits(all, r) = {} <=> RuleHits(rules, r) = {}
             /\ \A i \in WireHits(all, r), k \in RuleHits(rules, r) :
                   /\ \A j \in WireHits(all, r) : i <= j
                   /\ \A l \in RuleHits(rules, r) : k <= l
                   => all[i].action = ActionToXds(rules[k])
  <2>1. WireHits(all, r) = {} <=> RuleHits(rules, r) = {}
    <3>1. \A k \in DOMAIN rules : RuleMatches(rules[k], r)
             <=> \E j \in DOMAIN ss[k] : WireMatches(ss[k][j].match, r)
      BY <1>1, <1>4, <1>9
    <3>2. \A i \in DOMAIN all : WireMatches(all[i].match, r) =>
             \E k \in DOMAIN ss : \E j \in DOMAIN ss[k] : WireMatches(ss[k][j].match, r)
      <4> HIDE DEF all
      <4> QED  BY <1>6
    <3>3. \A k \in DOMAIN ss : \A j \in DOMAIN ss[k] : WireMatches(ss[k][j].match, r) =>
             \E i \in DOMAIN all : WireMatches(all[i].match, r)
      <4> HIDE DEF all
      <4> QED  BY <1>7
    <3> HIDE DEF all
    <3> QED  BY <1>1, <3>1, <3>2, <3>3 DEF WireHits, RuleHits
  <2>2. ASSUME NEW i \in WireHits(all, r), NEW k \in RuleHits(rules, r),
               \A j \in WireHits(all, r) : i <= j, \A l \in RuleHits(rules, r) : k <= l
        PROVE  all[i].action = ActionToXds(rules[k])
    <3> DEFINE kind == {x \in XdsRouteOf : WireMatches(x.match, r)}
    <3>1. i \in DOMAIN all /\ WireMatches(all[i].match, r)
      BY DEF WireHits
    <3>2. all[i] \in kind /\ \A h \in DOMAIN all : all[h] \in kind => i <= h
      <4>1. \A h \in DOMAIN all : all[h] \in XdsRouteOf
        BY <1>5
      <4> HIDE DEF all
      <4> QED  BY <2>2, <3>1, <4>1 DEF WireHits
    <3>3. PICK m \in DOMAIN ss :
              /\ \E j \in DOMAIN ss[m] : ss[m][j] = all[i]
              /\ \A l \in DOMAIN ss : (\E j \in DOMAIN ss[l] : ss[l][j] \in kind) => m <= l
      <4> HIDE DEF kind
      <4> QED  BY <1>2, <3>1, <3>2, FirstOfAKind
    <3>4. PICK j \in DOMAIN ss[m] : ss[m][j] = all[i]
      BY <3>3
    <3>5. m \in RuleHits(rules, r)
      <4>1. WireMatches(ss[m][j].match, r)
        BY <3>1, <3>4
      <4>2. RuleMatches(rules[m], r)
        BY <1>4, <1>9, <4>1
      <4> QED  BY <1>1, <4>2 DEF RuleHits
    <3>6. k <= m
      BY <2>2, <3>5
    <3>7. m <= k
      <4>1. k \in DOMAIN ss /\ RuleMatches(rules[k], r)
        BY <1>1 DEF RuleHits
      <4>2. PICK g \in DOMAIN ss[k] : WireMatches(ss[k][g].match, r)
        BY <1>4, <1>9, <4>1
      <4>3. ss[k][g] \in XdsRouteOf
        <5>1. ss[k] \in Seq(XdsRouteOf)
          BY <1>2, <4>1
        <5> QED  BY <5>1
      <4>4. ss[k][g] \in kind
        BY <4>2, <4>3
      <4> HIDE DEF kind
      <4> QED  BY <3>3, <4>1, <4>4
    <3>8. m = k
      <4>1. m \in Nat /\ k \in Nat
        BY <1>1 DEF RuleHits
      <4> QED  BY <3>6, <3>7, <4>1
    <3> HIDE DEF all, kind
    <3> QED  BY <1>3, <3>4, <3>8
  <2> HIDE DEF all
  <2> QED  BY <2>1, <2>2
<1> HIDE DEF all
<1> QED  BY <1>5, <1>8, <1>9 DEF ss, all

\* Route::to_xds keeps what a route decides.
LEMMA RouteWritten ==
    ASSUME NEW route \in Route, Plain(route)
    PROVE  LET x == RouteToXds(route)
           IN  /\ x \in RouteConfiguration /\ Expressible(x)
               /\ \A r : Legible(r) => WireDecides(x, r) = RouteDecides(route, r)
<1> DEFINE x == RouteToXds(route)
           all == FlattenSeq(Mapped(route.rules, RuleToXds))
           host == [domains |-> Domains(route), routes |-> all]
<1>1. /\ route.rules \in Seq(RouteRule) /\ route.id \in Label /\ route.tags \in SUBSET Tag
  BY DEF Route, Name
<1>2. \A k \in DOMAIN route.rules : route.rules[k] \in RouteRule /\ PlainRule(route.rules[k])
  BY <1>1 DEF Plain, PlainRule, PlainMatch, Range
<1>3. /\ all \in Seq(XdsRouteOf)
      /\ \A i \in DOMAIN all :
            \E k \in DOMAIN route.rules :
               /\ all[i].action = ActionToXds(route.rules[k])
               /\ all[i].match # None /\ OneMethod(all[i].match.headers)
  BY <1>1, <1>2, RulesWritten
<1>4. \A r : Legible(r) =>
         /\ WireHits(all, r) = {} <=> RuleHits(route.rules, r) = {}
         /\ \A i \in WireHits(all, r), k \in RuleHits(route.rules, r) :
               /\ \A j \in WireHits(all, r) : i <= j
               /\ \A l \in RuleHits(route.rules, r) : k <= l
               => all[i].action = ActionToXds(route.rules[k])
  BY <1>1, <1>2, RulesWritten
<1>5. \A i \in DOMAIN all : InRange(all[i].action.policy)
  BY <1>2, <1>3, ActionWritten
<1>6. x = [name |-> route.id, metadata |-> TagsToXds(route.tags), vhosts |-> <<host>>]
  BY DEF RouteToXds
<1> HIDE DEF all
<1>7. host \in VirtualHost /\ SamePorts(host.domains)
  BY <1>3, DomainsWritten DEF VirtualHost
<1>8. TagsToXds(route.tags) \in (SUBSET XdsTag) \cup {None}
  <2>1. Tag \subseteq XdsTag
    BY DEF Tag, XdsTag
  <2>2. route.tags \in SUBSET XdsTag
    BY <1>1, <2>1
  <2> QED  BY <2>2 DEF TagsToXds
<1>9. x \in RouteConfiguration /\ x.vhosts = <<host>>
  <2> HIDE DEF host
  <2>1. <<host>> \in Seq(VirtualHost)
    BY <1>7
  <2> QED  BY <1>1, <1>6, <1>8, <2>1 DEF RouteConfiguration
<1>10. x.vhosts[1] = host /\ host.routes = all /\ host.domains = Domains(route)
  <2>1. x.vhosts[1] = host
    <3> HIDE DEF x, host
    <3> QED  BY <1>9
  <2> QED  BY <2>1
<1>11. Expressible(x)
  <2> HIDE DEF x, host
  <2>1. \A v \in Range(x.vhosts) : v = host
    BY <1>9 DEF Range
  <2> QED  BY <1>3, <1>5, <1>7, <1>10, <2>1 DEF Expressible
<1>12. ASSUME NEW r, Legible(r)
       PROVE  WireDecides(x, r) = RouteDecides(route, r)
  <2> DEFINE hits == WireHits(all, r)
             kept == RuleHits(route.rules, r)
             i == CHOOSE n \in hits : \A m \in hits : n <= m
             k == CHOOSE n \in kept : \A m \in kept : n <= m
             there == \E d \in Domains(route) : DomainMatches(d, r)
  <2>1. WireDecides(x, r) = IF hits = {} \/ ~there THEN None ELSE ActionDecision(all[i].action)
    <3> HIDE DEF x, host
    <3> QED  BY <1>10 DEF WireDecides, WireHits
  <2>2. RouteDecides(route, r) =
           IF ~RouteMatches(route, r.host, r.port) \/ MatchingRule(route, r) = None THEN None
           ELSE RuleDecision(route.rules[MatchingRule(route, r)])
    BY DEF RouteDecides
  <2>3. MatchingRule(route, r) = IF kept = {} THEN None ELSE k
    BY DEF MatchingRule, RuleHits
  <2>4. there <=> RouteMatches(route, r.host, r.port)
    BY <1>12, DomainsWritten
  <2>5. hits = {} <=> kept = {}
    BY <1>4, <1>12
  <2>6. CASE kept = {} \/ ~there
    <3> HIDE DEF there, hits, kept, i, k
    <3> QED  BY <2>1, <2>2, <2>3, <2>4, <2>5, <2>6
  <2>7. CASE kept # {} /\ there
    <3>1. kept \in SUBSET Nat /\ hits \in SUBSET Nat
      BY <1>1, <1>3 DEF RuleHits, WireHits
    <3>2. /\ i \in hits /\ \A m \in hits : i <= m
          /\ k \in kept /\ \A m \in kept : k <= m
      <4> HIDE DEF hits, kept
      <4>1. hits # {} /\ kept # {}
        BY <2>5, <2>7
      <4> QED  BY <3>1, <4>1, FirstIs
    <3>3. k \in Nat /\ k # None
      BY <3>1, <3>2, BackendConstants
    <3>4. all[i].action = ActionToXds(route.rules[k])
      <4> HIDE DEF i, k
      <4> QED  BY <1>4, <1>12, <3>2
    <3>5. route.rules[k] \in RouteRule
      BY <1>2, <3>2 DEF RuleHits
    <3>6. ActionDecision(all[i].action) = RuleDecision(route.rules[k])
      BY <3>4, <3>5, ActionWritten
    <3> HIDE DEF there, hits, kept, i, k
    <3> QED  BY <2>1, <2>2, <2>3, <2>4, <2>5, <2>7, <3>3, <3>6
  <2> HIDE DEF there, hits, kept, i, k
  <2> QED  BY <2>6, <2>7
<1> HIDE DEF x
<1> QED  BY <1>9, <1>11, <1>12 DEF x

----------------------------------------------------------------------------
(* Matches, from xDS. *)

LEMMA MatcherRead ==
    ASSUME NEW x \in XdsMatcher, MatcherFromXds(x) # Failed
    PROVE  LET m == MatcherFromXds(x)
           IN  /\ m \in Matcher /\ m.name = x.name
               /\ x.type = "Exact" => m.type = "Exact" /\ m.value = x.value
               /\ \/ x.type \in {"Exact", "SafeRegex"} /\ MatcherToXds(m) = x
                  \/ /\ x.type \in {None, "Present"}
                     /\ m = Named("Regex", x.name, AnyText)
<1> DEFINE m == MatcherFromXds(x)
<1>1. /\ None \notin {"Exact", "Prefix", "SafeRegex", "Path", "Present", "Absent"}
      /\ AnyText \in Regex
  BY NoneIsApart, TextConstants
<1>2. x.name \in Word
  BY DEF XdsMatcher
<1>3. CASE x.type \in {None, "Present"}
  <2>1. m = Named("Regex", x.name, AnyText)
    BY <1>1, <1>3 DEF MatcherFromXds
  <2> QED  BY <1>1, <1>2, <1>3, <2>1 DEF Matcher, Named
<1>4. CASE x.type = "Exact"
  <2>1. m = Named("Exact", x.name, x.value) /\ x.value \in Text
    BY <1>1, <1>4 DEF MatcherFromXds, XdsMatcher
  <2>2. m \in Matcher
    BY <1>2, <2>1 DEF Matcher, Named
  <2>3. x = [type |-> "Exact", name |-> x.name, value |-> x.value]
    BY <1>1, <1>4 DEF XdsMatcher
  <2>4. MatcherToXds(m) = x
    BY <2>1, <2>3 DEF MatcherToXds, Named
  <2> QED  BY <1>4, <2>1, <2>2, <2>4 DEF Named
<1>5. CASE x.type = "SafeRegex"
  <2>1. m = Named("Regex", x.name, x.value) /\ x.value \in Regex
    BY <1>1, <1>5 DEF MatcherFromXds, ParseRegex, Regex
  <2>2. m \in Matcher
    BY <1>2, <2>1 DEF Matcher, Named
  <2>3. x = [type |-> "SafeRegex", name |-> x.name, value |-> x.value]
    BY <1>1, <1>5 DEF XdsMatcher
  <2>4. MatcherToXds(m) = x
    BY <2>1, <2>3 DEF MatcherToXds, Named
  <2> QED  BY <1>5, <2>1, <2>2, <2>4 DEF Named
<1>6. CASE x.type \notin {None, "Present", "Exact", "SafeRegex"}
  BY <1>6 DEF MatcherFromXds
<1> QED  BY <1>3, <1>4, <1>5, <1>6

\* A text that any is, and none.
LEMMA AnyIsPresent ==
    ASSUME NEW x, NEW y, NEW present \in BOOLEAN, NEW text,
           x.type \in {None, "Present"}, y.type = "SafeRegex", y.value = AnyText,
           present => text \in Recognises[AnyText]
    PROVE  WireTextMatches(x, present, text) <=> WireTextMatches(y, present, text)
<1>1. None \notin {"Exact", "Prefix", "SafeRegex", "Path", "Present", "Absent"}
  BY NoneIsApart
<1>2. WireTextMatches(x, present, text) <=> present
  BY <1>1 DEF WireTextMatches
<1>3. WireTextMatches(y, present, text) <=> (present /\ text \in Recognises[y.value])
  BY <1>1 DEF WireTextMatches
<1> QED  BY <1>2, <1>3

LEMMA HeaderRead ==
    ASSUME NEW x \in XdsMatcher, MatcherFromXds(x) # Failed, x.name # METHOD,
           NEW r, Legible(r)
    PROVE  HeaderMatches(MatcherFromXds(x), r.headers) <=> WireHeaderMatches(x, r)
<1> DEFINE m == MatcherFromXds(x)
           y == MatcherToXds(m)
<1>1. m \in Matcher /\ m.name = x.name
  BY MatcherRead
<1>2. HeaderMatches(m, r.headers) <=> WireHeaderMatches(y, r)
  BY <1>1, HeaderWritten
<1>3. y = x \/ (x.type \in {None, "Present"} /\ m = Named("Regex", x.name, AnyText))
  BY MatcherRead
<1>4. CASE x.type \in {None, "Present"} /\ m = Named("Regex", x.name, AnyText)
  <2> DEFINE present == x.name \in {METHOD} \cup DOMAIN r.headers
             text == CASE x.name = METHOD -> r.method
                       [] x.name # METHOD /\ present -> r.headers[x.name]
                       [] OTHER -> None
  <2>1. y.type = "SafeRegex" /\ y.value = AnyText /\ y.name = x.name
    BY <1>4 DEF MatcherToXds, Named
  <2>2. present \in BOOLEAN /\ (present => text \in Recognises[AnyText])
    BY DEF Legible
  <2>3. WireHeaderMatches(x, r) <=> WireTextMatches(x, present, text)
    BY DEF WireHeaderMatches
  <2>4. WireHeaderMatches(y, r) <=> WireTextMatches(y, present, text)
    <3> HIDE DEF y
    <3> QED  BY <2>1 DEF WireHeaderMatches
  <2>5. WireTextMatches(x, present, text) <=> WireTextMatches(y, present, text)
    <3> HIDE DEF present, text, y
    <3> QED  BY <1>4, <2>1, <2>2, AnyIsPresent
  <2> QED  BY <1>2, <2>3, <2>4, <2>5
<1> HIDE DEF y, m
<1> QED  BY <1>2, <1>3, <1>4 DEF m

LEMMA ParamRead ==
    ASSUME NEW x \in XdsMatcher, MatcherFromXds(x) # Failed, NEW r, Legible(r)
    PROVE  ParamMatches(MatcherFromXds(x), r.query) <=> WireParamMatches(x, r)
<1> DEFINE m == MatcherFromXds(x)
           y == MatcherToXds(m)
<1>1. m \in Matcher /\ m.name = x.name
  BY MatcherRead
<1>2. ParamMatches(m, r.query) <=> WireParamMatches(y, r)
  BY <1>1, ParamWritten
<1>3. y = x \/ (x.type \in {None, "Present"} /\ m = Named("Regex", x.name, AnyText))
  BY MatcherRead
<1>4. CASE x.type \in {None, "Present"} /\ m = Named("Regex", x.name, AnyText)
  <2> DEFINE query == OrElse(r.query, <<>>)
             named == {i \in DOMAIN query : query[i].param = x.name}
             present == named # {}
             text == IF present THEN query[Smallest(named, 1)].value ELSE None
  <2>1. y.type = "SafeRegex" /\ y.value = AnyText /\ y.name = x.name
    BY <1>4 DEF MatcherToXds, Named
  <2>2. present \in BOOLEAN /\ (present => text \in Recognises[AnyText])
    <3>1. query \in Seq([param : Word, value : Recognises[AnyText]])
      BY DEF Legible, OrElse
    <3>2. \A i \in DOMAIN query : query[i].value \in Recognises[AnyText]
      <4> DEFINE Param == [param : Word, value : Recognises[AnyText]]
      <4> HIDE DEF query
      <4>2. query \in Seq(Param)
        BY <3>1
      <4> HIDE DEF Param
      <4>1. \A i \in DOMAIN query : query[i] \in Param
        BY <4>2
      <4> QED  BY <4>1 DEF Param
    <3>3. named \in SUBSET Nat /\ IsFiniteSet(named) /\ named \subseteq DOMAIN query
      <4> HIDE DEF query
      <4>1. IsFiniteSet(1..Len(query)) /\ DOMAIN query = 1..Len(query) /\ Len(query) \in Nat
        BY <3>1, FS_Interval
      <4> QED  BY <4>1, FS_Subset
    <3>4. present => Smallest(named, 1) \in named
      <4> HIDE DEF named
      <4> QED  BY <3>3, SmallestIsLeast
    <3> HIDE DEF named, query
    <3> QED  BY <3>2, <3>3, <3>4
  <2>3. WireParamMatches(x, r) <=> WireTextMatches(x, present, text)
    BY DEF WireParamMatches
  <2>4. WireParamMatches(y, r) <=> WireTextMatches(y, present, text)
    <3> HIDE DEF y
    <3> QED  BY <2>1 DEF WireParamMatches
  <2>5. WireTextMatches(x, present, text) <=> WireTextMatches(y, present, text)
    <3> HIDE DEF present, text, y
    <3> QED  BY <1>4, <2>1, <2>2, AnyIsPresent
  <2> QED  BY <1>2, <2>3, <2>4, <2>5
<1> HIDE DEF y, m
<1> QED  BY <1>2, <1>3, <1>4 DEF m

LEMMA PathRead ==
    ASSUME NEW x \in XdsPath, PathFromXds(x) # Failed, NEW text
    PROVE  /\ PathFromXds(x) \in PathMatch
           /\ LET p == PathFromXds(x)
              IN  TextMatches(p.type, p.value, text) <=> WireTextMatches(x, TRUE, text)
<1> DEFINE p == PathFromXds(x)
<1>1. x = [type |-> x.type, value |-> x.value] /\ x.value \in Text
      /\ x.type \in {"Prefix", "Path", "SafeRegex", "Other"}
  BY DEF XdsPath
<1>2. p \in PathMatch /\ PathToXds(p) = x
  <2>1. CASE x.type = "Prefix"
    <3>1. p = Pattern("Prefix", x.value)
      BY <2>1 DEF PathFromXds
    <3> QED  BY <1>1, <2>1, <3>1 DEF PathMatch, Pattern, PathToXds
  <2>2. CASE x.type = "Path"
    <3>1. p = Pattern("Exact", x.value)
      BY <2>2 DEF PathFromXds
    <3> QED  BY <1>1, <2>2, <3>1 DEF PathMatch, Pattern, PathToXds
  <2>3. CASE x.type = "SafeRegex"
    <3>1. p = Pattern("Regex", x.value) /\ x.value \in Regex
      BY <2>3 DEF PathFromXds, ParseRegex, Regex
    <3> QED  BY <1>1, <2>3, <3>1 DEF PathMatch, Pattern, PathToXds
  <2>4. CASE x.type = "Other"
    BY <2>4 DEF PathFromXds
  <2> QED  BY <1>1, <2>1, <2>2, <2>3, <2>4
<1> HIDE DEF p
<1> QED  BY <1>2, PathWritten DEF p

LEMMA MatchersRead ==
    ASSUME NEW s \in Seq(XdsMatcher), Parsed(s, MatcherFromXds) # Failed
    PROVE  LET ms == Parsed(s, MatcherFromXds)
           IN  /\ ms \in Seq(Matcher) /\ DOMAIN ms = DOMAIN s
               /\ \A i \in DOMAIN s :
                     /\ MatcherFromXds(s[i]) # Failed
                     /\ ms[i] = MatcherFromXds(s[i])
                     /\ s[i] \in XdsMatcher
<1> DEFINE ms == [i \in DOMAIN s |-> MatcherFromXds(s[i])]
<1>1. Parsed(s, MatcherFromXds) = IF Failed \in Range(ms) THEN Failed ELSE ms
  BY DEF Parsed, Results, Mapped
<1>2. Parsed(s, MatcherFromXds) = ms /\ Failed \notin Range(ms)
  <2> HIDE DEF ms
  <2> QED  BY <1>1
<1>3. \A i \in DOMAIN s : MatcherFromXds(s[i]) # Failed /\ s[i] \in XdsMatcher
  <2>1. \A i \in DOMAIN ms : ms[i] # Failed
    <3> HIDE DEF ms
    <3> QED  BY <1>2 DEF Range
  <2>2. \A i \in DOMAIN s : s[i] \in XdsMatcher
    OBVIOUS
  <2> QED  BY <2>1, <2>2
<1>4. \A i \in DOMAIN s : MatcherFromXds(s[i]) \in Matcher
  BY <1>3, MatcherRead
<1>5. ms \in Seq(Matcher)
  <2>1. Len(s) \in Nat /\ DOMAIN s = 1..Len(s)
    OBVIOUS
  <2>2. ms = [i \in 1..Len(s) |-> ms[i]] /\ \A i \in 1..Len(s) : ms[i] \in Matcher
    BY <1>4, <2>1
  <2> HIDE DEF ms
  <2> QED  BY <2>1, <2>2, ListIsSequence
<1>6. DOMAIN ms = DOMAIN s /\ \A i \in DOMAIN s : ms[i] = MatcherFromXds(s[i])
  OBVIOUS
<1> HIDE DEF ms
<1> QED  BY <1>2, <1>3, <1>5, <1>6

\* RouteMatch::from_xds.
LEMMA MatchRead ==
    ASSUME NEW x \in XdsRouteMatch, OneMethod(x.headers), MatchFromXds(x) # Failed
    PROVE  LET m == MatchFromXds(x)
           IN  /\ m \in RouteMatch /\ PlainMatch(m)
               /\ \A r : Legible(r) => (MatchMatches(m, r) <=> WireMatches(x, r))
<1> DEFINE m == MatchFromXds(x)
           path == IF x.path = None THEN None ELSE PathFromXds(x.path)
           headers == Parsed(x.headers, MatcherFromXds)
           query == Parsed(x.query, MatcherFromXds)
           methods == {i \in DOMAIN headers : IsMethod(headers[i])}
           rest == DOMAIN headers \ methods
           method == IF methods = {} THEN None ELSE Last(Those(headers, methods)).value
<1>1. /\ x.path \in XdsPath \cup {None} /\ x.headers \in Seq(XdsMatcher)
      /\ x.query \in Seq(XdsMatcher) /\ None \notin XdsRouteMatch
  BY NoneIsApart DEF XdsRouteMatch
<1>2. /\ Failed \notin {path, headers, query}
      /\ m = [path |-> path, query |-> query, headers |-> Those(headers, rest),
              method |-> method]
  BY DEF MatchFromXds
<1> HIDE DEF m
<1>3. /\ headers \in Seq(Matcher) /\ DOMAIN headers = DOMAIN x.headers
      /\ \A i \in DOMAIN x.headers :
            /\ MatcherFromXds(x.headers[i]) # Failed
            /\ headers[i] = MatcherFromXds(x.headers[i])
            /\ x.headers[i] \in XdsMatcher
  <2>1. headers # Failed
    BY <1>2
  <2> QED  BY <1>1, <2>1, MatchersRead
<1>4. /\ query \in Seq(Matcher) /\ DOMAIN query = DOMAIN x.query
      /\ \A i \in DOMAIN x.query :
            /\ MatcherFromXds(x.query[i]) # Failed
            /\ query[i] = MatcherFromXds(x.query[i])
            /\ x.query[i] \in XdsMatcher
  <2>1. query # Failed
    BY <1>2
  <2> QED  BY <1>1, <2>1, MatchersRead
<1>5. /\ path \in PathMatch \cup {None}
      /\ \A r : (path # None => TextMatches(path.type, path.value, r.path))
                   <=> (x.path # None => WireTextMatches(x.path, TRUE, r.path))
  <2>1. CASE x.path = None
    BY <2>1
  <2>2. CASE x.path # None
    <3>1. path = PathFromXds(x.path) /\ path # Failed /\ x.path \in XdsPath
      BY <1>1, <1>2, <2>2
    <3> HIDE DEF path
    <3>2. path \in PathMatch
      BY <3>1, PathRead
    <3>3. path # None
      BY <3>2, NoneIsApart
    <3>4. ASSUME NEW r
          PROVE  TextMatches(path.type, path.value, r.path) <=> WireTextMatches(x.path, TRUE, r.path)
      BY <3>1, PathRead
    <3> QED  BY <2>2, <3>2, <3>3, <3>4
  <2> QED  BY <2>1, <2>2
<1> HIDE DEF path, headers, query
<1>6. \A i \in DOMAIN headers :
         /\ headers[i].name = x.headers[i].name
         /\ i \in methods <=> x.headers[i].name = METHOD
         /\ i \in methods => /\ x.headers[i].type = "Exact"
                             /\ headers[i].value = x.headers[i].value
  <2> TAKE i \in DOMAIN headers
  <2>1. /\ headers[i] = MatcherFromXds(x.headers[i]) /\ MatcherFromXds(x.headers[i]) # Failed
        /\ x.headers[i] \in XdsMatcher /\ i \in DOMAIN x.headers
    BY <1>3
  <2>2. /\ headers[i].name = x.headers[i].name
        /\ x.headers[i].type = "Exact" =>
              headers[i].type = "Exact" /\ headers[i].value = x.headers[i].value
    BY <2>1, MatcherRead
  <2>3. x.headers[i].name = METHOD => x.headers[i].type = "Exact"
    BY <2>1 DEF OneMethod
  <2> QED  BY <2>2, <2>3 DEF IsMethod
<1>7. methods \subseteq DOMAIN headers /\ \A i, j \in methods : i = j
  BY <1>3, <1>6 DEF OneMethod
<1>8. /\ Those(headers, rest) \in Seq(Matcher)
      /\ Range(Those(headers, rest)) = {headers[i] : i \in rest}
  <2> HIDE DEF methods
  <2> QED  BY <1>3, ThoseAre
<1>9. ASSUME methods # {}
      PROVE  \E i \in methods : method = headers[i].value
  <2> DEFINE those == Those(headers, methods)
  <2>1. PICK i \in methods : TRUE
    BY <1>9
  <2>2. methods = {i} /\ Cardinality({i}) = 1
    <3>1. methods = {i}
      BY <1>7, <2>1
    <3> QED  BY <3>1, FS_Singleton
  <2>3. /\ those \in Seq(Matcher) /\ Len(those) = Cardinality(methods)
        /\ \A k \in 1..Cardinality(methods) :
              /\ Smallest(methods, k) \in methods /\ those[k] = headers[Smallest(methods, k)]
    <3> HIDE DEF methods
    <3> QED  BY <1>3, <1>7, ThoseAre
  <2>4. Len(those) = 1 /\ those[1] = headers[i]
    <3>1. Cardinality(methods) = 1 /\ 1 \in 1..1
      BY <2>2
    <3> HIDE DEF methods, those
    <3> QED  BY <2>2, <2>3, <3>1
  <2> HIDE DEF methods, those
  <2> QED  BY <1>9, <2>1, <2>4 DEF those, Last
<1>10. method \in Text \cup {None}
       /\ \A i \in methods : method = x.headers[i].value /\ method \in Text
  <2>1. CASE methods = {}
    BY <2>1
  <2>2. CASE methods # {}
    <3>1. PICK i \in methods : method = headers[i].value
      BY <1>9, <2>2
    <3> HIDE DEF method
    <3>2. i \in DOMAIN headers /\ \A j \in methods : i = j
      BY <1>7
    <3>3. /\ x.headers[i].type = "Exact" /\ headers[i].value = x.headers[i].value
          /\ x.headers[i] \in XdsMatcher
      BY <1>3, <1>6, <3>2
    <3>4. x.headers[i].value \in Text
      BY <3>3, NoneIsApart DEF XdsMatcher
    <3> HIDE DEF methods
    <3> QED  BY <3>1, <3>2, <3>3, <3>4
  <2> QED  BY <2>1, <2>2
<1> HIDE DEF method
<1>11. m \in RouteMatch
  <2> HIDE DEF methods
  <2> QED  BY <1>2, <1>4, <1>5, <1>8, <1>10 DEF RouteMatch
<1>12. PlainMatch(m)
  <2>1. \A h \in Range(m.headers) : \E i \in rest : h = headers[i]
    <3> HIDE DEF methods
    <3> QED  BY <1>2, <1>8
  <2>2. \A i \in rest : headers[i].name # METHOD
    BY <1>6
  <2> HIDE DEF methods
  <2> QED  BY <2>1, <2>2 DEF PlainMatch
<1>13. ASSUME NEW r, Legible(r) PROVE MatchMatches(m, r) <=> WireMatches(x, r)
  <2>1. MatchMatches(m, r) <=>
           /\ method # None => method = r.method
           /\ path # None => TextMatches(path.type, path.value, r.path)
           /\ \A h \in Range(m.headers) : HeaderMatches(h, r.headers)
           /\ \A i \in DOMAIN query : ParamMatches(query[i], r.query)
    <3> HIDE DEF methods
    <3>1. m.method = method /\ m.path = path /\ m.query = query
      BY <1>2
    <3>2. (\A h \in Range(m.headers) : HeaderMatches(h, r.headers))
            <=> \A i \in DOMAIN m.headers : HeaderMatches(m.headers[i], r.headers)
      BY DEF Range
    <3> QED  BY <3>1, <3>2 DEF MatchMatches
  <2>2. WireMatches(x, r) <=>
           /\ x.path # None => WireTextMatches(x.path, TRUE, r.path)
           /\ \A i \in DOMAIN headers : WireHeaderMatches(x.headers[i], r)
           /\ \A i \in DOMAIN query : WireParamMatches(x.query[i], r)
    <3> HIDE DEF methods
    <3>1. x # None
      BY <1>1
    <3> QED  BY <1>3, <1>4, <3>1 DEF WireMatches
  <2>3. \A i \in DOMAIN query : ParamMatches(query[i], r.query) <=> WireParamMatches(x.query[i], r)
    BY <1>4, <1>13, ParamRead
  <2>4. (\A h \in Range(m.headers) : HeaderMatches(h, r.headers))
           <=> \A i \in rest : WireHeaderMatches(x.headers[i], r)
    <3>1. ASSUME NEW i \in rest
          PROVE  HeaderMatches(headers[i], r.headers) <=> WireHeaderMatches(x.headers[i], r)
      <4>1. x.headers[i].name # METHOD /\ i \in DOMAIN x.headers
        BY <1>3, <1>6
      <4>2. /\ headers[i] = MatcherFromXds(x.headers[i]) /\ MatcherFromXds(x.headers[i]) # Failed
            /\ x.headers[i] \in XdsMatcher
        BY <1>3, <4>1
      <4> QED  BY <1>13, <4>1, <4>2, HeaderRead
    <3>2. Range(m.headers) = {headers[i] : i \in rest}
      <4> HIDE DEF methods
      <4> QED  BY <1>2, <1>8
    <3> HIDE DEF methods
    <3> QED  BY <3>1, <3>2
  <2>5. ASSUME NEW i \in methods
        PROVE  WireHeaderMatches(x.headers[i], r) <=> (method # None => method = r.method)
    <3>1. x.headers[i].name = METHOD /\ x.headers[i].type = "Exact"
      BY <1>6, <1>7
    <3>2. method = x.headers[i].value /\ method # None /\ None # "Exact"
      BY <1>10, NoneIsApart
    <3> DEFINE xh == x.headers[i]
               present == xh.name \in {METHOD} \cup DOMAIN r.headers
               text == CASE xh.name = METHOD -> r.method
                       [] xh.name # METHOD /\ present -> r.headers[xh.name]
                       [] OTHER -> None
    <3>3. present = TRUE /\ text = r.method
      BY <3>1
    <3>4. WireHeaderMatches(xh, r) <=> WireTextMatches(xh, present, text)
      BY DEF WireHeaderMatches
    <3> HIDE DEF present, text
    <3>5. WireHeaderMatches(xh, r) <=> WireTextMatches(xh, TRUE, r.method)
      BY <3>3, <3>4
    <3>6. WireTextMatches(xh, TRUE, r.method) <=> r.method = xh.value
      BY <3>1, <3>2 DEF WireTextMatches
    <3> HIDE DEF methods
    <3> QED  BY <3>2, <3>5, <3>6
  <2>6. methods = {} => method = None
    BY DEF method
  <2>7. DOMAIN headers = rest \cup methods
    BY <1>7
  <2>8. (\A i \in DOMAIN headers : WireHeaderMatches(x.headers[i], r))
           <=> /\ \A i \in rest : WireHeaderMatches(x.headers[i], r)
               /\ method # None => method = r.method
    <3>1. (\A i \in DOMAIN headers : WireHeaderMatches(x.headers[i], r))
             <=> /\ \A i \in rest : WireHeaderMatches(x.headers[i], r)
                 /\ \A i \in methods : WireHeaderMatches(x.headers[i], r)
      <4> HIDE DEF methods
      <4> QED  BY <2>7
    <3>2. (\A i \in methods : WireHeaderMatches(x.headers[i], r))
             <=> (method # None => method = r.method)
      <4> HIDE DEF methods
      <4> QED  BY <2>5, <2>6
    <3> HIDE DEF methods
    <3> QED  BY <3>1, <3>2
  <2> HIDE DEF methods
  <2> QED  BY <1>5, <2>1, <2>2, <2>3, <2>4, <2>8
<1> QED  BY <1>11, <1>12, <1>13 DEF m

LEMMA Joined ==
    ASSUME NEW S, NEW s \in Seq(S), NEW t \in Seq(S), Len(s) = 2, Len(t) = 3
    PROVE  s \o t = <<s[1], s[2], t[1], t[2], t[3]>>
<1> DEFINE st == s \o t
<1>1. /\ st \in Seq(S) /\ Len(st) = Len(s) + Len(t)
      /\ \A i \in 1..Len(s) + Len(t) :
            st[i] = IF i <= Len(s) THEN s[i] ELSE t[i - Len(s)]
  BY ConcatProperties
<1> HIDE DEF st
<1>2. Len(st) = 5 /\ \A i \in 1..5 : st[i] = IF i <= 2 THEN s[i] ELSE t[i - 2]
  BY <1>1
<1>3. st[1] = s[1] /\ st[2] = s[2] /\ st[3] = t[1] /\ st[4] = t[2] /\ st[5] = t[3]
  BY <1>2
<1>4. st = <<st[1], st[2], st[3], st[4], st[5]>>
  BY <1>1, <1>2
<1> QED BY <1>3, <1>4 DEF st

LEMMA SubdomainParts ==
    ASSUME NEW a, NEW b
    PROVE  /\ <<a, b>> \o SUBDOMAIN = <<a, b, "svc", "cluster", "local">>
           /\ Len(<<a, b>> \o SUBDOMAIN) = 5
<1> DEFINE S == {a, b, "svc", "cluster", "local"}
<1>1. <<a, b>> \in Seq(S) /\ SUBDOMAIN \in Seq(S)
  BY DEF SUBDOMAIN
<1>2. Len(<<a, b>>) = 2 /\ Len(SUBDOMAIN) = 3
  BY DEF SUBDOMAIN
<1>3. <<a, b>> \o SUBDOMAIN
         = <<(<<a, b>>)[1], (<<a, b>>)[2], SUBDOMAIN[1], SUBDOMAIN[2], SUBDOMAIN[3]>>
  BY <1>1, <1>2, Joined
<1> QED BY <1>3 DEF SUBDOMAIN

----------------------------------------------------------------------------
(* Actions, from xDS. *)

\* A hostname is the name of the service that is read from it.
LEMMA ServiceReadName ==
    ASSUME NEW h \in Hostname, ServiceFromStr(h) # Failed
    PROVE  ServiceFromStr(h) \in Service /\ ServiceName(ServiceFromStr(h)) = h
<1>1. ServiceFromStr(h) \in Service
  BY DEF ServiceFromStr, DnsService, KubeService, Service, Hostname
<1>2. CASE ~EndsIn(h, SUBDOMAIN)
  <2>1. ServiceFromStr(h) = [kind |-> "dns", hostname |-> h]
    BY <1>2 DEF ServiceFromStr, DnsService
  <2> QED  BY <1>1, <2>1 DEF ServiceName
<1>3. CASE EndsIn(h, SUBDOMAIN)
  <2>1. Len(h) = 5 /\ h \in Seq(Label)
    BY <1>3 DEF ServiceFromStr, Hostname
  <2>2. ServiceFromStr(h) = [kind |-> "kube", name |-> h[1], namespace |-> h[2]]
    BY <1>3, <2>1 DEF ServiceFromStr, KubeService
  <2>3. ServiceName(ServiceFromStr(h)) = <<h[1], h[2], "svc", "cluster", "local">>
    <3>1. ServiceName(ServiceFromStr(h)) = <<h[1], h[2]>> \o SUBDOMAIN
      BY <2>2 DEF ServiceName
    <3> QED  BY <3>1, SubdomainParts
  <2>4. h[3] = "svc" /\ h[4] = "cluster" /\ h[5] = "local"
    <3> DEFINE back == [i \in 1..5 |-> h[(5 - i) + 1]]
               end == <<"local", "cluster", "svc">>
    <3>1. Reverse(h) = back /\ Reverse(SUBDOMAIN) = end
      BY <2>1 DEF Reverse, SUBDOMAIN
    <3>2. Len(end) = 3
      OBVIOUS
    <3>3. SubSeq(end, 1, 3) = SubSeq(back, 1, 3)
      <4> HIDE DEF back, end
      <4> QED  BY <1>3, <3>1, <3>2 DEF EndsIn, IsSuffix, IsPrefix
    <3>4. back \in Seq(Label) /\ Len(back) = 5 /\ end \in Seq({"local", "cluster", "svc"})
      <4>1. \A i \in 1..5 : (5 - i) + 1 \in 1..5
        OBVIOUS
      <4>2. \A i \in 1..5 : h[(5 - i) + 1] \in Label
        <5>1. \A k \in 1..5 : h[k] \in Label
          BY <2>1, SMTT(30)
        <5> QED  BY <4>1, <5>1
      <4>3. back \in [1..5 -> Label]
        BY <4>2
      <4>4. back \in Seq(Label) /\ Len(back) = 5
        <5>1. back = [i \in 1..5 |-> back[i]] /\ \A i \in 1..5 : back[i] \in Label
          BY <4>2
        <5>2. 5 \in Nat
          OBVIOUS
        <5> HIDE DEF back
        <5> QED  BY <5>1, <5>2, ListIsSequence
      <4>5. end \in Seq({"local", "cluster", "svc"})
        OBVIOUS
      <4> QED  BY <4>4, <4>5
    <3>5. \A i \in 1..3 : SubSeq(end, 1, 3)[i] = end[i] /\ SubSeq(back, 1, 3)[i] = back[i]
      <4> HIDE DEF back, end
      <4> QED  BY <3>2, <3>4
    <3>6. end[1] = back[1] /\ end[2] = back[2] /\ end[3] = back[3]
      <4> HIDE DEF back, end
      <4> QED  BY <3>3, <3>5
    <3> QED  BY <3>6
  <2>5. h = <<h[1], h[2], h[3], h[4], h[5]>>
    BY <2>1
  <2> QED  BY <1>1, <2>3, <2>4, <2>5
<1> QED  BY <1>1, <1>2, <1>3

LEMMA RefRead ==
    ASSUME NEW s \in XdsName, BackendRefFromStr(s) # Failed
    PROVE  LET b == BackendRefFromStr(s)
           IN  /\ b.service \in Service /\ b.port \in Port \cup {None} /\ b.weight = 1
               /\ b = [service |-> b.service, port |-> b.port, weight |-> b.weight]
               /\ BackendRefName(b) = s
<1> DEFINE service == ServiceFromStr(s.host)
<1>1. s.host \in Hostname /\ s = [host |-> s.host, port |-> s.port]
  BY DEF XdsName
<1>2. /\ ~BadPort(s) /\ service # Failed
      /\ BackendRefFromStr(s) = BackendRef(service, s.port, 1)
  BY DEF BackendRefFromStr
<1>3. service \in Service /\ ServiceName(service) = s.host
  BY <1>1, <1>2, ServiceReadName
<1> HIDE DEF service
<1> QED  BY <1>1, <1>2, <1>3 DEF BackendRef, BackendRefName, BadPort

LEMMA WeightedRead ==
    ASSUME NEW w \in XdsWeight, WeightedBackend(w) # Failed
    PROVE  LET b == WeightedBackend(w)
           IN  /\ b \in RouteBackend /\ BackendRefName(b) = w.name
               /\ b.weight = OrElse(w.weight, 1)
<1> DEFINE b == BackendRefFromStr(w.name)
<1>1. w.name \in XdsName /\ w.weight \in 0..MaxU32 \cup {None} /\ 1 \in 0..MaxU32
  BY BackendConstants DEF XdsWeight
<1>2. /\ b # Failed
      /\ WeightedBackend(w) = IF w.weight = None THEN b ELSE [b EXCEPT !.weight = w.weight]
  BY DEF WeightedBackend
<1>3. /\ b.service \in Service /\ b.port \in Port \cup {None} /\ b.weight = 1
      /\ b = [service |-> b.service, port |-> b.port, weight |-> b.weight]
      /\ BackendRefName(b) = w.name
  BY <1>1, <1>2, RefRead
<1> HIDE DEF b
<1>4. WeightedBackend(w) = [service |-> b.service, port |-> b.port, weight |-> OrElse(w.weight, 1)]
  <2>1. CASE w.weight = None
    BY <1>2, <1>3, <2>1 DEF OrElse
  <2>2. CASE w.weight # None
    <3>1. [b EXCEPT !.weight = w.weight]
             = [service |-> b.service, port |-> b.port, weight |-> w.weight]
      BY <1>3
    <3> QED  BY <1>2, <2>2, <3>1 DEF OrElse
  <2> QED  BY <2>1, <2>2
<1>5. OrElse(w.weight, 1) \in 0..MaxU32
  BY <1>1 DEF OrElse
<1>6. BackendRefName(WeightedBackend(w)) = BackendRefName(b)
  BY <1>4 DEF BackendRefName
<1> QED  BY <1>3, <1>4, <1>5, <1>6 DEF RouteBackend

LEMMA BackendsRead ==
    ASSUME NEW c \in XdsCluster \cup {None}, BackendsFromXds(c) # Failed
    PROVE  LET b == BackendsFromXds(c)
           IN  b \in Seq(RouteBackend) /\ Shares(b) = ClusterShares(c)
<1> DEFINE b == BackendsFromXds(c)
<1>1. CASE c = None
  BY <1>1 DEF BackendsFromXds, Shares, ClusterShares
<1>2. CASE c # None /\ c.type = "Cluster"
  <2>1. c.name \in XdsName
    BY <1>2 DEF XdsCluster
  <2>2. b = Parsed(<<c.name>>, BackendRefFromStr)
    BY <1>2 DEF BackendsFromXds
  <2> DEFINE ref == BackendRefFromStr(c.name)
             refs == [i \in DOMAIN <<c.name>> |-> BackendRefFromStr((<<c.name>>)[i])]
  <2>3. refs = <<ref>>
    OBVIOUS
  <2>4. Parsed(<<c.name>>, BackendRefFromStr) = IF Failed \in Range(refs) THEN Failed ELSE refs
    BY DEF Parsed, Results, Mapped
  <2>5. b = <<ref>> /\ ref # Failed
    <3> HIDE DEF refs, ref, b
    <3>1. b = refs /\ Failed \notin Range(refs)
      BY <2>2, <2>4 DEF b
    <3> QED  BY <2>3, <3>1 DEF Range
  <2>6. ref \in RouteBackend /\ BackendRefName(ref) = c.name
    <3>1. 1 \in 0..MaxU32
      BY BackendConstants
    <3>2. /\ ref.service \in Service /\ ref.port \in Port \cup {None} /\ ref.weight = 1
          /\ ref = [service |-> ref.service, port |-> ref.port, weight |-> ref.weight]
          /\ BackendRefName(ref) = c.name
      BY <2>1, <2>5, RefRead
    <3> HIDE DEF ref
    <3> QED  BY <3>1, <3>2 DEF RouteBackend
  <2> HIDE DEF ref, b
  <2>7. Shares(b) = <<<<c.name, 1>>>>
    <3>1. DOMAIN b = 1..1 /\ Len(b) = 1 /\ b[1] = ref
      BY <2>5
    <3>2. Shares(b) = [i \in 1..1 |-> <<BackendRefName(b[i]), 1>>]
      BY <3>1 DEF Shares
    <3>3. Shares(b) = [i \in 1..1 |-> <<c.name, 1>>]
      BY <2>6, <3>1, <3>2
    <3> QED  BY <3>3
  <2>8. ClusterShares(c) = <<<<c.name, 1>>>>
    BY <1>2 DEF ClusterShares
  <2>9. b \in Seq(RouteBackend)
    BY <2>5, <2>6
  <2> QED  BY <2>7, <2>8, <2>9 DEF b
<1>3. CASE c # None /\ c.type = "Weighted"
  <2> DEFINE ws == c.clusters
             bs == [i \in DOMAIN ws |-> WeightedBackend(ws[i])]
  <2>1. ws \in Seq(XdsWeight)
    BY <1>3 DEF XdsCluster
  <2>2. b = Parsed(ws, WeightedBackend)
    BY <1>3 DEF BackendsFromXds
  <2>3. Parsed(ws, WeightedBackend) = IF Failed \in Range(bs) THEN Failed ELSE bs
    BY DEF Parsed, Results, Mapped
  <2>4. b = bs /\ \A i \in DOMAIN ws : WeightedBackend(ws[i]) # Failed
    <3>1. b = bs /\ Failed \notin Range(bs)
      <4> HIDE DEF bs
      <4> QED  BY <2>2, <2>3
    <3> QED  BY <3>1 DEF Range
  <2>5. DOMAIN ws = 1..Len(ws) /\ Len(ws) \in Nat /\ \A i \in DOMAIN ws : ws[i] \in XdsWeight
    BY <2>1
  <2> HIDE DEF b
  <2>6. \A i \in DOMAIN ws : /\ b[i] \in RouteBackend /\ BackendRefName(b[i]) = ws[i].name
                             /\ b[i].weight = OrElse(ws[i].weight, 1)
    BY <2>4, <2>5, WeightedRead
  <2>7. b \in Seq(RouteBackend) /\ Len(b) = Len(ws) /\ DOMAIN b = DOMAIN ws
    <3>1. b = [i \in 1..Len(ws) |-> b[i]]
      BY <2>4, <2>5
    <3> HIDE DEF ws
    <3> QED  BY <2>5, <2>6, <3>1, ListIsSequence
  <2>8. ClusterShares(c) = [i \in DOMAIN ws |->
            <<ws[i].name, IF Len(ws) = 1 THEN 1 ELSE OrElse(ws[i].weight, 1)>>]
    BY <1>3 DEF ClusterShares
  <2>9. Shares(b) = ClusterShares(c)
    <3> HIDE DEF ws
    <3> QED  BY <2>6, <2>7, <2>8 DEF Shares
  <2> QED  BY <2>7, <2>9 DEF b
<1>4. CASE c # None /\ c.type \notin {"Cluster", "Weighted"}
  BY <1>4 DEF BackendsFromXds
<1> QED  BY <1>1, <1>2, <1>3, <1>4

\* RouteRetry::from_xds.
LEMMA RetryRead ==
    ASSUME NEW p \in XdsRetryPolicy \cup {None}, InRange(p), ~RetryPanics(p)
    PROVE  LET retry == RetryFromXds(p)
               s == OrElse(retry, NoRetry)
               q == OrElse(p, NoPolicy)
           IN  /\ retry \in RouteRetry \cup {None}
               /\ s.codes = q.codes
               /\ (IF s.attempts \in {None, 0} THEN s.attempts ELSE s.attempts - 1) = q.retries
               /\ s.backoff = IF q.backoff = None THEN None ELSE q.backoff.base
               /\ p # None /\ ~(p.codes = <<>> /\ p.retries = None /\ p.backoff = None)
                    => retry # None
<1> DEFINE retry == RetryFromXds(p)
           s == OrElse(retry, NoRetry)
           q == OrElse(p, NoPolicy)
<1>1. CASE p = None
  BY <1>1 DEF RetryFromXds, OrElse, NoRetry, NoPolicy
<1>2. CASE p # None /\ p.codes = <<>> /\ p.retries = None /\ p.backoff = None
  <2>1. retry = None
    BY <1>2 DEF RetryFromXds
  <2>2. s = NoRetry /\ q = p
    BY <1>2, <2>1 DEF OrElse
  <2> HIDE DEF retry, s, q
  <2>3. /\ retry \in RouteRetry \cup {None} /\ s.codes = q.codes /\ s.attempts = None
        /\ s.backoff = None /\ q.retries = None /\ q.backoff = None
    BY <1>2, <2>1, <2>2 DEF NoRetry
  <2> QED  BY <1>2, <2>3 DEF retry, s, q
<1>3. CASE p # None /\ ~(p.codes = <<>> /\ p.retries = None /\ p.backoff = None)
  <2>1. /\ p.codes \in Seq(Nat) /\ p.retries \in Nat \cup {None}
        /\ p.backoff \in [base : XdsDuration] \cup {None}
        /\ Range(p.codes) \subseteq Port /\ (p.retries # None => p.retries < MaxU32)
    BY <1>3 DEF XdsRetryPolicy, InRange
  <2>2. MaxU32 \in Nat /\ MaxPort \in Nat /\ None \notin Nat /\ None \notin RouteRetry
    BY BackendConstants, NameConstants, NoneIsApart
  <2> DEFINE codes == Mapped(p.codes, U16)
             attempts == IF p.retries = None THEN None ELSE U32(p.retries + 1)
             backoff == IF p.backoff = None THEN None ELSE p.backoff.base
  <2>3. retry = [codes |-> codes, attempts |-> attempts, backoff |-> backoff]
    BY <1>3 DEF RetryFromXds
  <2>4. codes = p.codes /\ codes \in Seq(Port)
    <3>1. DOMAIN p.codes = 1..Len(p.codes) /\ Len(p.codes) \in Nat
      BY <2>1
    <3>2. \A i \in DOMAIN p.codes : p.codes[i] \in Port
      BY <2>1 DEF Range
    <3>3. \A n \in Port : U16(n) = n
      BY <2>2 DEF Port, U16
    <3>4. codes = [i \in DOMAIN p.codes |-> p.codes[i]]
      BY <3>2, <3>3 DEF Mapped
    <3>5. p.codes = [i \in 1..Len(p.codes) |-> p.codes[i]]
      BY <2>1
    <3>6. codes = p.codes
      <4> HIDE DEF codes
      <4> QED  BY <3>1, <3>4, <3>5
    <3>7. p.codes \in Seq(Port)
      BY <3>1, <3>2, <3>5, ListIsSequence
    <3> HIDE DEF codes
    <3> QED  BY <3>6, <3>7
  <2>5. /\ attempts \in 0..MaxU32 \cup {None}
        /\ (IF attempts \in {None, 0} THEN attempts ELSE attempts - 1) = p.retries
    <3>1. CASE p.retries = None
      BY <3>1
    <3>2. CASE p.retries # None
      <4>1. p.retries \in Nat /\ p.retries < MaxU32
        BY <2>1, <3>2
      <4>2. U32(p.retries + 1) = p.retries + 1
        BY <2>2, <4>1 DEF U32
      <4>3. attempts = p.retries + 1
        BY <3>2, <4>2
      <4>4. attempts \in 0..MaxU32 /\ attempts \in Nat /\ attempts # 0
        BY <2>2, <4>1, <4>3
      <4>5. attempts # None
        BY <2>2, <4>4
      <4> HIDE DEF attempts
      <4> QED  BY <2>2, <4>1, <4>3, <4>4, <4>5
    <3> QED  BY <3>1, <3>2
  <2>6. backoff \in Nat \cup {None}
    <3>1. CASE p.backoff = None
      BY <3>1
    <3>2. CASE p.backoff # None
      <4>1. p.backoff.base \in Int \cup {None}
        BY <2>1, <3>2 DEF XdsDuration
      <4>2. DurationFromXds(p.backoff.base) # Failed
        BY <1>3, <3>2 DEF RetryPanics
      <4>3. p.backoff.base # None => ~(p.backoff.base < 0)
        BY <4>2 DEF DurationFromXds
      <4> QED  BY <3>2, <4>1, <4>3
    <3> QED  BY <3>1, <3>2
  <2> HIDE DEF codes, attempts, backoff
  <2>7. retry \in RouteRetry
    <3> HIDE DEF retry
    <3> QED  BY <2>3, <2>4, <2>5, <2>6 DEF RouteRetry
  <2>8. s = retry /\ q = p
    <3> HIDE DEF retry
    <3> QED  BY <1>3, <2>2, <2>7 DEF OrElse
  <2> HIDE DEF retry, s, q
  <2>9. s.codes = q.codes /\ s.attempts = attempts /\ s.backoff = backoff
    BY <2>3, <2>4, <2>8
  <2>10. (IF s.attempts \in {None, 0} THEN s.attempts ELSE s.attempts - 1) = q.retries
    BY <2>5, <2>8, <2>9
  <2>11. s.backoff = IF q.backoff = None THEN None ELSE q.backoff.base
    BY <2>8, <2>9 DEF backoff
  <2>12. retry # None
    BY <2>2, <2>7
  <2> QED  BY <2>7, <2>9, <2>10, <2>11, <2>12 DEF retry, s, q
<1> QED  BY <1>1, <1>2, <1>3

\* Durations that are read are no negative ones.
LEMMA DurationRead ==
    ASSUME NEW d \in XdsDuration, DurationFromXds(d) # Failed
    PROVE  DurationFromXds(d) = d /\ d \in Nat \cup {None}
BY DEF XdsDuration, DurationFromXds

LEMMA TimeoutsRead ==
    ASSUME NEW a \in XdsAction, a.type = "Route", TimeoutsFromXds(a) # Failed
    PROVE  LET t == OrElse(TimeoutsFromXds(a), [request |-> None, backend_request |-> None])
               p == OrElse(a.policy, NoPolicy)
           IN  /\ TimeoutsFromXds(a) \in RouteTimeouts \cup {None}
               /\ t.request = a.timeout /\ t.backend_request = p.perTry
<1> DEFINE request == DurationFromXds(a.timeout)
           try == IF a.policy = None THEN None ELSE DurationFromXds(a.policy.perTry)
           read == TimeoutsFromXds(a)
           p == OrElse(a.policy, NoPolicy)
<1>1. a.timeout \in XdsDuration /\ a.policy \in XdsRetryPolicy \cup {None}
  BY DEF XdsAction
<1>2. /\ Failed \notin {request, try}
      /\ read = IF request = None /\ try = None THEN None
                ELSE [request |-> request, backend_request |-> try]
  BY DEF TimeoutsFromXds
<1>3. request = a.timeout /\ a.timeout \in Nat \cup {None}
  BY <1>1, <1>2, DurationRead
<1>4. try = p.perTry /\ try \in Nat \cup {None}
  <2>1. CASE a.policy = None
    BY <2>1 DEF OrElse, NoPolicy
  <2>2. CASE a.policy # None
    <3>1. a.policy.perTry \in XdsDuration
      BY <1>1, <2>2 DEF XdsRetryPolicy
    <3>2. try = DurationFromXds(a.policy.perTry) /\ try # Failed /\ p = a.policy
      BY <1>2, <2>2 DEF OrElse
    <3> HIDE DEF try, p
    <3> QED  BY <3>1, <3>2, DurationRead
  <2> QED  BY <2>1, <2>2
<1> HIDE DEF request, try, read, p
<1>5. CASE request = None /\ try = None
  <2>1. read = None
    BY <1>2, <1>5
  <2> QED  BY <1>3, <1>4, <1>5, <2>1 DEF OrElse, read, p
<1>6. CASE ~(request = None /\ try = None)
  <2> DEFINE t == [request |-> request, backend_request |-> try]
  <2>1. read = t /\ t \in RouteTimeouts
    BY <1>2, <1>3, <1>4, <1>6 DEF RouteTimeouts
  <2>2. t # None
    <3> HIDE DEF t
    <3> QED  BY <2>1, NoneIsApart
  <2>3. OrElse(read, [request |-> None, backend_request |-> None]) = t
    <3> HIDE DEF t
    <3> QED  BY <2>1, <2>2 DEF OrElse
  <2>4. t.request = a.timeout /\ t.backend_request = p.perTry
    BY <1>3, <1>4
  <2> HIDE DEF t
  <2> QED  BY <2>1, <2>3, <2>4 DEF read, p
<1> QED  BY <1>5, <1>6

\* What the fields of a rule that is read say.
LEMMA ActionRead ==
    ASSUME NEW a \in XdsAction, a.type = "Route", InRange(a.policy), ~RetryPanics(a.policy),
           TimeoutsFromXds(a) # Failed, BackendsFromXds(a.cluster) # Failed,
           NEW rule, rule.timeouts = TimeoutsFromXds(a), rule.retry = RetryFromXds(a.policy),
           rule.backends = BackendsFromXds(a.cluster)
    PROVE  /\ rule.timeouts \in RouteTimeouts \cup {None}
           /\ rule.retry \in RouteRetry \cup {None}
           /\ rule.backends \in Seq(RouteBackend)
           /\ RuleDecision(rule) = ActionDecision(a)
<1> DEFINE p == OrElse(a.policy, NoPolicy)
           t == OrElse(rule.timeouts, [request |-> None, backend_request |-> None])
           r == OrElse(rule.retry, NoRetry)
           retries == IF r.attempts \in {None, 0} THEN r.attempts ELSE r.attempts - 1
           backoff == IF p.backoff = None THEN None ELSE p.backoff.base
<1>1. a.policy \in XdsRetryPolicy \cup {None} /\ a.cluster \in XdsCluster \cup {None}
  BY DEF XdsAction
<1>2. /\ rule.timeouts \in RouteTimeouts \cup {None}
      /\ t.request = a.timeout /\ t.backend_request = p.perTry
  BY TimeoutsRead
<1>3. /\ rule.retry \in RouteRetry \cup {None}
      /\ r.codes = p.codes /\ retries = p.retries /\ r.backoff = backoff
  BY <1>1, RetryRead
<1>4. rule.backends \in Seq(RouteBackend) /\ Shares(rule.backends) = ClusterShares(a.cluster)
  BY <1>1, BackendsRead
<1>5. RuleDecision(rule) = Decision(t.request, t.backend_request, r.codes, retries, r.backoff,
                                    Shares(rule.backends))
  BY DEF RuleDecision, Shares
<1>6. ActionDecision(a) = Decision(a.timeout, p.perTry, p.codes, p.retries, backoff,
                                   ClusterShares(a.cluster))
  BY DEF ActionDecision, ClusterShares
<1> HIDE DEF p, t, r, retries, backoff
<1> QED  BY <1>2, <1>3, <1>4, <1>5, <1>6

\* RouteRule::from_xds_grouped, of routes with one name and one action: it
\* matches what one of them matches.
LEMMA RuleRead ==
    ASSUME NEW group \in Seq(XdsRouteOf), group # <<>>, RuleFromXds(group) # Failed,
           \A i \in DOMAIN group : group[i].match # None => OneMethod(group[i].match.headers),
           (\E i \in DOMAIN group : group[i].match = None) => Len(group) = 1,
           InRange(group[1].action.policy), ~RetryPanics(group[1].action.policy)
    PROVE  LET rule == RuleFromXds(group)
           IN  /\ rule \in RouteRule /\ PlainRule(rule)
               /\ RuleDecision(rule) = ActionDecision(group[1].action)
               /\ \A r : Legible(r) =>
                     (RuleMatches(rule, r)
                        <=> \E i \in DOMAIN group : WireMatches(group[i].match, r))
<1> DEFINE rule == RuleFromXds(group)
           action == group[1].action
           name == group[1].name
           some == {i \in DOMAIN group : group[i].match # None}
           kept == Those(group, some)
           ms == [k \in DOMAIN kept |-> MatchFromXds(kept[k].match)]
<1>1. /\ DOMAIN group = 1..Len(group) /\ Len(group) \in Nat /\ 1 \in DOMAIN group
      /\ \A i \in DOMAIN group : group[i] \in XdsRouteOf
  OBVIOUS
<1>2. Parsed(kept, LAMBDA x : MatchFromXds(x.match)) = IF Failed \in Range(ms) THEN Failed ELSE ms
  BY DEF Parsed, Results, Mapped
<1>3. /\ ~(action = None \/ action.type # "Route") /\ (name # None => ValidName(name))
      /\ TimeoutsFromXds(action) # Failed /\ BackendsFromXds(action.cluster) # Failed
      /\ Parsed(kept, LAMBDA x : MatchFromXds(x.match)) # Failed
      /\ rule = [AnyRule EXCEPT !.name = name,
                                !.matches = Parsed(kept, LAMBDA x : MatchFromXds(x.match)),
                                !.timeouts = TimeoutsFromXds(action),
                                !.retry = RetryFromXds(action.policy),
                                !.backends = BackendsFromXds(action.cluster)]
  BY DEF RuleFromXds
<1>4. Failed \notin Range(ms) /\ Parsed(kept, LAMBDA x : MatchFromXds(x.match)) = ms
  <2> HIDE DEF ms, kept
  <2> QED  BY <1>2, <1>3
<1>5. /\ rule.name = name /\ rule.matches = ms /\ rule.filters = <<>>
      /\ rule.timeouts = TimeoutsFromXds(action) /\ rule.retry = RetryFromXds(action.policy)
      /\ rule.backends = BackendsFromXds(action.cluster)
      /\ rule = [name |-> rule.name, matches |-> rule.matches, filters |-> rule.filters,
                 timeouts |-> rule.timeouts, retry |-> rule.retry, backends |-> rule.backends]
  <2> HIDE DEF ms, kept, rule
  <2> QED  BY <1>3, <1>4 DEF AnyRule
<1>6. action \in XdsAction /\ name \in Label \cup {None}
  BY <1>1, <1>3 DEF XdsRouteOf
<1> HIDE DEF rule
<1>7. /\ rule.timeouts \in RouteTimeouts \cup {None} /\ rule.retry \in RouteRetry \cup {None}
      /\ rule.backends \in Seq(RouteBackend) /\ RuleDecision(rule) = ActionDecision(action)
  BY <1>3, <1>5, <1>6, ActionRead
<1>8. rule.name \in Name \cup {None}
  BY <1>3, <1>5, <1>6 DEF Name
<1>9. /\ kept \in Seq(XdsRouteOf) /\ Len(kept) = Cardinality(some)
      /\ Range(kept) = {group[i] : i \in some}
      /\ IsFiniteSet(some) /\ Cardinality(some) \in Nat
  <2> HIDE DEF some
  <2>1. some \in SUBSET DOMAIN group
    BY DEF some
  <2> QED  BY <2>1, ThoseAre
<1>10. /\ DOMAIN kept = 1..Len(kept) /\ Len(kept) \in Nat
       /\ \A k \in DOMAIN kept : kept[k] \in XdsRouteOf /\ \E i \in some : kept[k] = group[i]
  <2>1. \A k \in DOMAIN kept : kept[k] \in Range(kept)
    BY DEF Range
  <2> HIDE DEF some, kept
  <2> QED  BY <1>9, <2>1
<1>11. \A k \in DOMAIN kept :
          /\ kept[k].match \in XdsRouteMatch /\ OneMethod(kept[k].match.headers)
          /\ MatchFromXds(kept[k].match) # Failed /\ ms[k] = MatchFromXds(kept[k].match)
  <2> TAKE k \in DOMAIN kept
  <2>1. ms[k] = MatchFromXds(kept[k].match) /\ ms[k] # Failed
    <3>1. ms[k] = MatchFromXds(kept[k].match) /\ k \in DOMAIN ms
      OBVIOUS
    <3> HIDE DEF ms, kept
    <3> QED  BY <1>4, <3>1 DEF Range
  <2>2. PICK i \in DOMAIN group : group[i].match # None /\ kept[k] = group[i]
    BY <1>10
  <2> HIDE DEF some, kept, ms
  <2> QED  BY <1>1, <2>1, <2>2 DEF XdsRouteOf
<1>12. \A k \in DOMAIN kept : ms[k] \in RouteMatch /\ PlainMatch(ms[k])
  <2> HIDE DEF some, kept, ms
  <2> QED  BY <1>11, MatchRead
<1>13. ms \in Seq(RouteMatch) /\ Len(ms) = Len(kept) /\ DOMAIN ms = DOMAIN kept
  <2>1. ms = [k \in 1..Len(kept) |-> ms[k]]
    BY <1>10
  <2> HIDE DEF some, kept, ms
  <2> QED  BY <1>10, <1>12, <2>1, ListIsSequence
<1>14. rule \in RouteRule
  <2> HIDE DEF some, kept, ms, name, action
  <2>1. rule.filters \in Seq(Word) /\ rule.matches \in Seq(RouteMatch)
    BY <1>5, <1>13
  <2>2. rule = [name |-> rule.name, matches |-> rule.matches, filters |-> rule.filters,
                timeouts |-> rule.timeouts, retry |-> rule.retry, backends |-> rule.backends]
    BY <1>5
  <2> QED  BY <1>7, <1>8, <2>1, <2>2 DEF RouteRule
<1>15. PlainRule(rule)
  <2> HIDE DEF some, kept, ms, name, action
  <2> QED  BY <1>5, <1>12, <1>13 DEF PlainRule, Range
<1>16. ASSUME NEW r, Legible(r)
       PROVE  RuleMatches(rule, r) <=> \E i \in DOMAIN group : WireMatches(group[i].match, r)
  <2>1. \A k \in DOMAIN kept : MatchMatches(ms[k], r) <=> WireMatches(kept[k].match, r)
    <3> HIDE DEF some, kept, ms
    <3> QED  BY <1>11, <1>16, MatchRead
  <2>2. CASE some = DOMAIN group
    <3>1. (\E k \in DOMAIN kept : WireMatches(kept[k].match, r))
             <=> \E i \in DOMAIN group : WireMatches(group[i].match, r)
      <4>1. \A i \in DOMAIN group : \E k \in DOMAIN kept : kept[k] = group[i]
        <5>1. Range(kept) = {kept[k] : k \in DOMAIN kept}
          BY DEF Range
        <5> HIDE DEF some, kept
        <5> QED  BY <1>9, <2>2, <5>1
      <4> HIDE DEF some, kept
      <4> QED  BY <1>10, <2>2, <4>1
    <3>2. ms # <<>>
      <4>1. \E k \in DOMAIN kept : TRUE
        <5>1. group[1] \in Range(kept)
          <6> HIDE DEF kept, some
          <6> QED  BY <1>1, <1>9, <2>2
        <5> QED  BY <5>1 DEF Range
      <4> HIDE DEF some, kept, ms
      <4> QED  BY <1>13, <4>1
    <3>3. RuleMatches(rule, r) <=> \E k \in DOMAIN kept : MatchMatches(ms[k], r)
      <4> HIDE DEF some, kept, ms, name, action
      <4> QED  BY <1>5, <1>13, <3>2 DEF RuleMatches
    <3> HIDE DEF some, kept, ms, name, action
    <3> QED  BY <2>1, <3>1, <3>3
  <2>3. CASE some # DOMAIN group
    <3>1. PICK i \in DOMAIN group : group[i].match = None
      BY <2>3
    <3>2. Len(group) = 1
      BY <3>1
    <3>3. some = {}
      BY <1>1, <3>1, <3>2
    <3>4. ms = <<>>
      <4>1. Cardinality(some) = 0
        BY <3>3, FS_EmptySet
      <4>2. Len(ms) = 0
        <5> HIDE DEF some, kept, ms
        <5> QED  BY <1>9, <1>13, <4>1
      <4> HIDE DEF some, kept, ms
      <4> QED  BY <1>13, <4>2
    <3>5. RuleMatches(rule, r)
      BY <1>5, <3>4 DEF RuleMatches
    <3>6. WireMatches(group[i].match, r)
      BY <3>1 DEF WireMatches
    <3> QED  BY <3>5, <3>6
  <2> QED  BY <2>2, <2>3
<1> HIDE DEF some, kept, ms, name
<1> QED  BY <1>7, <1>14, <1>15, <1>16 DEF rule

----------------------------------------------------------------------------
(* Runs of routes with the same name and action. *)

Run(routes, k) == {i \in DOMAIN routes : RunOf(routes, i) = k}

LEMMA RunsAre ==
    ASSUME NEW T, NEW routes \in Seq(T)
    PROVE  /\ Cardinality(Starts(routes)) \in Nat
           /\ \A i \in DOMAIN routes : RunOf(routes, i) \in 1..Cardinality(Starts(routes))
           /\ \A i, j \in DOMAIN routes : i <= j => RunOf(routes, i) <= RunOf(routes, j)
           /\ \A k \in 1..Cardinality(Starts(routes)) : Run(routes, k) # {}
           /\ \A i, j \in DOMAIN routes :
                 i < j /\ RunOf(routes, i) = RunOf(routes, j) =>
                    \A m \in (i + 1)..j : SameRule(routes[m - 1], routes[m])
<1> DEFINE S == Starts(routes)
           n == Cardinality(S)
           upTo(i) == {j \in S : j <= i}
<1>1. DOMAIN routes = 1..Len(routes) /\ Len(routes) \in Nat
  OBVIOUS
<1>2. S \subseteq DOMAIN routes /\ S \in SUBSET Nat
  BY <1>1 DEF Starts
<1>3. IsFiniteSet(S) /\ n \in Nat
  <2>1. IsFiniteSet(1..Len(routes))
    BY <1>1, FS_Interval
  <2> HIDE DEF S
  <2> QED  BY <1>1, <1>2, <2>1, FS_Subset, FS_CardinalityType
<1>4. \A i : RunOf(routes, i) = Cardinality(upTo(i))
  BY DEF RunOf
<1>5. \A i : IsFiniteSet(upTo(i)) /\ Cardinality(upTo(i)) \in Nat /\ Cardinality(upTo(i)) <= n
  <2> TAKE i
  <2>1. upTo(i) \subseteq S
    OBVIOUS
  <2> HIDE DEF upTo, S
  <2> QED  BY <1>3, <2>1, FS_Subset, FS_CardinalityType
<1> HIDE DEF S
<1>6. ASSUME NEW i \in DOMAIN routes PROVE RunOf(routes, i) \in 1..n
  <2>1. 1 \in upTo(i)
    <3>1. 1 \in S
      BY <1>1 DEF Starts, S
    <3> QED  BY <1>1, <3>1
  <2>2. Cardinality(upTo(i)) # 0
    <3> HIDE DEF upTo
    <3> QED  BY <1>5, <2>1, FS_EmptySet
  <2> HIDE DEF upTo, n
  <2> QED  BY <1>3, <1>4, <1>5, <2>2
<1>7. ASSUME NEW i \in DOMAIN routes, NEW j \in DOMAIN routes, i <= j
      PROVE  /\ RunOf(routes, i) <= RunOf(routes, j)
             /\ RunOf(routes, i) = RunOf(routes, j) => upTo(i) = upTo(j)
  <2>1. upTo(i) \subseteq upTo(j)
    BY <1>1, <1>2, <1>7
  <2> HIDE DEF upTo
  <2>2. /\ Cardinality(upTo(i)) <= Cardinality(upTo(j))
        /\ Cardinality(upTo(i)) = Cardinality(upTo(j)) => upTo(i) = upTo(j)
    BY <1>5, <2>1, FS_Subset
  <2> QED  BY <1>4, <2>2
<1>8. ASSUME NEW k \in 1..n PROVE Run(routes, k) # {}
  <2> DEFINE i == Smallest(S, k)
  <2>1. i \in S /\ Cardinality({m \in S : m <= i}) = k
    BY <1>2, <1>3, SmallestIs
  <2> HIDE DEF i
  <2>2. i \in DOMAIN routes /\ RunOf(routes, i) = k
    BY <1>2, <1>4, <2>1
  <2> QED  BY <2>2 DEF Run
<1>9. ASSUME NEW i \in DOMAIN routes, NEW j \in DOMAIN routes, i < j,
             RunOf(routes, i) = RunOf(routes, j), NEW m \in (i + 1)..j
      PROVE  SameRule(routes[m - 1], routes[m])
  <2>1. i \in Nat /\ j \in Nat /\ i <= j /\ m \in Nat /\ m \in DOMAIN routes /\ m > 1
        /\ ~(m <= i) /\ m <= j
    BY <1>1, <1>9
  <2>2. upTo(i) = upTo(j)
    BY <1>7, <1>9, <2>1
  <2>3. m \notin S
    BY <2>1, <2>2
  <2> QED  BY <2>1, <2>3 DEF S, Starts
<1> HIDE DEF n, upTo
<1> QED  BY <1>3, <1>6, <1>7, <1>8, <1>9 DEF n, S

LEMMA RunsAreAlike ==
    ASSUME NEW T, NEW routes \in Seq(T), NEW i \in DOMAIN routes, NEW j \in DOMAIN routes,
           RunOf(routes, i) = RunOf(routes, j)
    PROVE  SameRule(routes[i], routes[j])
<1> SUFFICES ASSUME NEW a \in DOMAIN routes, NEW b \in DOMAIN routes, a < b,
                    RunOf(routes, a) = RunOf(routes, b)
             PROVE  SameRule(routes[a], routes[b])
  <2>1. DOMAIN routes = 1..Len(routes) /\ Len(routes) \in Nat
    OBVIOUS
  <2>2. i = j \/ i < j \/ j < i
    BY <2>1
  <2> QED  BY <2>2 DEF SameRule
<1>1. DOMAIN routes = 1..Len(routes) /\ Len(routes) \in Nat
  OBVIOUS
<1>2. \A m \in (a + 1)..b : SameRule(routes[m - 1], routes[m])
  BY RunsAre
<1> DEFINE bad == {m \in a..b : ~SameRule(routes[a], routes[m])}
<1>3. SUFFICES ASSUME bad # {} PROVE FALSE
  <2>1. b \in a..b
    BY <1>1
  <2> QED  BY <2>1
<1>4. PICK m \in bad : \A l \in bad : m <= l
  <2>1. bad \in SUBSET Nat
    BY <1>1
  <2> HIDE DEF bad
  <2> QED  BY <1>3, <2>1, LeastNumber
<1>5. m # a
  BY DEF SameRule
<1>6. m \in (a + 1)..b /\ m - 1 \in a..b /\ ~(m <= m - 1)
  BY <1>1, <1>5
<1>7. SameRule(routes[a], routes[m - 1])
  <2>1. m - 1 \notin bad
    <3> HIDE DEF bad
    <3> QED  BY <1>4, <1>6
  <2> QED  BY <1>6, <2>1
<1>8. SameRule(routes[m - 1], routes[m])
  BY <1>2, <1>6
<1>9. ~SameRule(routes[a], routes[m])
  OBVIOUS
<1> HIDE DEF bad
<1> QED  BY <1>7, <1>8, <1>9 DEF SameRule

\* A route that has no like next to it is a run of its own.
LEMMA RunAlone ==
    ASSUME NEW T, NEW routes \in Seq(T), NEW i \in DOMAIN routes,
           \A j \in DOMAIN routes : j \in {i - 1, i + 1} => ~SameRule(routes[i], routes[j]),
           NEW j \in DOMAIN routes, RunOf(routes, i) = RunOf(routes, j)
    PROVE  i = j
<1>1. DOMAIN routes = 1..Len(routes) /\ Len(routes) \in Nat
  OBVIOUS
<1>2. ~(i < j)
  <2> SUFFICES ASSUME i < j PROVE FALSE
    OBVIOUS
  <2>1. i + 1 \in (i + 1)..j /\ i + 1 \in DOMAIN routes /\ (i + 1) - 1 = i
    BY <1>1
  <2>2. SameRule(routes[(i + 1) - 1], routes[i + 1])
    BY <2>1, RunsAre
  <2> QED  BY <2>1, <2>2
<1>3. ~(j < i)
  <2> SUFFICES ASSUME j < i PROVE FALSE
    OBVIOUS
  <2>1. i \in (j + 1)..i /\ i - 1 \in DOMAIN routes
    BY <1>1
  <2>2. SameRule(routes[i - 1], routes[i])
    BY <2>1, RunsAre
  <2> QED  BY <2>1, <2>2 DEF SameRule
<1> QED  BY <1>1, <1>2, <1>3

LEMMA GroupsAre ==
    ASSUME NEW T, NEW routes \in Seq(T)
    PROVE  LET gs == Grouped(routes)
           IN  /\ DOMAIN gs = 1..Cardinality(Starts(routes))
               /\ gs = [k \in 1..Cardinality(Starts(routes)) |-> gs[k]]
               /\ \A k \in DOMAIN gs :
                     /\ gs[k] \in Seq(T) /\ gs[k] # <<>>
                     /\ Range(gs[k]) = {routes[i] : i \in Run(routes, k)}
                     /\ Len(gs[k]) = Cardinality(Run(routes, k))
<1> DEFINE gs == Grouped(routes)
<1>1. gs = [k \in 1..Cardinality(Starts(routes)) |-> Those(routes, Run(routes, k))]
  BY DEF Grouped, Run
<1>2. ASSUME NEW k \in 1..Cardinality(Starts(routes))
      PROVE  /\ gs[k] \in Seq(T) /\ gs[k] # <<>>
             /\ Range(gs[k]) = {routes[i] : i \in Run(routes, k)}
             /\ Len(gs[k]) = Cardinality(Run(routes, k))
  <2>1. gs[k] = Those(routes, Run(routes, k))
    BY <1>1
  <2> HIDE DEF gs
  <2>2. Run(routes, k) \in SUBSET DOMAIN routes
    BY DEF Run
  <2>3. /\ gs[k] \in Seq(T) /\ Len(gs[k]) = Cardinality(Run(routes, k))
        /\ Range(gs[k]) = {routes[i] : i \in Run(routes, k)}
        /\ IsFiniteSet(Run(routes, k))
    BY <2>1, <2>2, ThoseAre
  <2>4. Cardinality(Run(routes, k)) # 0
    BY <2>3, RunsAre, FS_EmptySet
  <2>5. gs[k] # <<>>
    BY <2>3, <2>4
  <2> QED  BY <2>3, <2>5
<1>3. DOMAIN gs = 1..Cardinality(Starts(routes))
      /\ gs = [k \in 1..Cardinality(Starts(routes)) |-> gs[k]]
  BY <1>1
<1> HIDE DEF gs
<1> QED  BY <1>2, <1>3 DEF gs

\* What rules are read from, without a panic.
Legal(routes) ==
    \A i \in DOMAIN routes :
       LET match == routes[i].match
           action == routes[i].action
       IN  /\ match # None => OneMethod(match.headers)
           /\ match = None =>
                 \A j \in DOMAIN routes :
                    j \in {i - 1, i + 1} => ~SameRule(routes[i], routes[j])
           /\ action # None /\ action.type = "Route" =>
                 InRange(action.policy) /\ ~RetryPanics(action.policy)

LEMMA GroupRead ==
    ASSUME NEW routes \in Seq(XdsRouteOf), Legal(routes),
           NEW k \in DOMAIN Grouped(routes), RuleFromXds(Grouped(routes)[k]) # Failed
    PROVE  LET rule == RuleFromXds(Grouped(routes)[k])
           IN  /\ rule \in RouteRule /\ PlainRule(rule)
               /\ \A i \in Run(routes, k) : RuleDecision(rule) = ActionDecision(routes[i].action)
               /\ \A r : Legible(r) =>
                     (RuleMatches(rule, r)
                        <=> \E i \in Run(routes, k) : WireMatches(routes[i].match, r))
<1> DEFINE group == Grouped(routes)[k]
           run == Run(routes, k)
           rule == RuleFromXds(group)
<1>1. /\ group \in Seq(XdsRouteOf) /\ group # <<>>
      /\ Range(group) = {routes[i] : i \in run} /\ Len(group) = Cardinality(run)
  BY GroupsAre
<1>2. \A i \in run : i \in DOMAIN routes /\ RunOf(routes, i) = k
  BY DEF Run
<1>3. rule # Failed
  OBVIOUS
<1> HIDE DEF group, run
<1>4. \A g \in DOMAIN group : \E i \in run : group[g] = routes[i]
  BY <1>1 DEF Range
<1>5. \A i \in run : \E g \in DOMAIN group : group[g] = routes[i]
  BY <1>1 DEF Range
<1>6. 1 \in DOMAIN group
  BY <1>1
<1>7. PICK first \in run : group[1] = routes[first]
  BY <1>4, <1>6
<1>8. \A i \in run : routes[i].action = group[1].action
  <2> TAKE i \in run
  <2>1. SameRule(routes[first], routes[i])
    BY <1>2, RunsAreAlike
  <2> QED  BY <1>7, <2>1 DEF SameRule
<1>9. \A g \in DOMAIN group : group[g].match # None => OneMethod(group[g].match.headers)
  BY <1>2, <1>4 DEF Legal
<1>10. ASSUME NEW g \in DOMAIN group, group[g].match = None PROVE Len(group) = 1
  <2>1. PICK i \in run : group[g] = routes[i]
    BY <1>4
  <2>2. \A j \in DOMAIN routes : j \in {i - 1, i + 1} => ~SameRule(routes[i], routes[j])
    BY <1>2, <1>10, <2>1 DEF Legal
  <2>3. \A j \in run : i = j
    BY <1>2, <2>2, RunAlone
  <2>4. run = {i}
    BY <2>3
  <2> QED  BY <1>1, <2>4, FS_Singleton
<1>11. InRange(group[1].action.policy) /\ ~RetryPanics(group[1].action.policy)
  <2>1. ~(group[1].action = None \/ group[1].action.type # "Route")
    BY <1>3 DEF RuleFromXds
  <2> QED  BY <1>2, <1>7, <2>1 DEF Legal
<1>12. /\ rule \in RouteRule /\ PlainRule(rule)
       /\ RuleDecision(rule) = ActionDecision(group[1].action)
       /\ \A r : Legible(r) =>
             (RuleMatches(rule, r) <=> \E g \in DOMAIN group : WireMatches(group[g].match, r))
  <2>1. (\E g \in DOMAIN group : group[g].match = None) => Len(group) = 1
    BY <1>10
  <2> QED  BY <1>1, <1>3, <1>9, <1>11, <2>1, RuleRead
<1> HIDE DEF rule
<1>13. ASSUME NEW r, Legible(r)
       PROVE  RuleMatches(rule, r) <=> \E i \in run : WireMatches(routes[i].match, r)
  <2>1. RuleMatches(rule, r) <=> \E g \in DOMAIN group : WireMatches(group[g].match, r)
    BY <1>12, <1>13
  <2>2. (\E g \in DOMAIN group : WireMatches(group[g].match, r))
           <=> \E i \in run : WireMatches(routes[i].match, r)
    BY <1>4, <1>5
  <2> QED  BY <2>1, <2>2
<1>14. \A i \in run : RuleDecision(rule) = ActionDecision(routes[i].action)
  BY <1>8, <1>12
<1> QED  BY <1>12, <1>13, <1>14 DEF rule, group, run

LEMMA RulesRead ==
    ASSUME NEW routes \in Seq(XdsRouteOf), Legal(routes),
           Parsed(Grouped(routes), RuleFromXds) # Failed
    PROVE  LET rules == Parsed(Grouped(routes), RuleFromXds)
           IN  /\ rules \in Seq(RouteRule)
               /\ \A k \in DOMAIN rules : PlainRule(rules[k])
               /\ \A r : Legible(r) =>
                     /\ WireHits(routes, r) = {} <=> RuleHits(rules, r) = {}
                     /\ \A i \in WireHits(routes, r), k \in RuleHits(rules, r) :
                           /\ \A j \in WireHits(routes, r) : i <= j
                           /\ \A l \in RuleHits(rules, r) : k <= l
                           => RuleDecision(rules[k]) = ActionDecision(routes[i].action)
<1> DEFINE gs == Grouped(routes)
           n == Cardinality(Starts(routes))
           read == [k \in DOMAIN gs |-> RuleFromXds(gs[k])]
           rules == Parsed(gs, RuleFromXds)
<1>1. rules = IF Failed \in Range(read) THEN Failed ELSE read
  BY DEF Parsed, Results, Mapped
<1>2. rules = read /\ Failed \notin Range(read)
  <2> HIDE DEF read
  <2> QED  BY <1>1
<1>3. n \in Nat /\ DOMAIN gs = 1..n
  BY RunsAre, GroupsAre
<1>4. \A k \in 1..n : RuleFromXds(gs[k]) # Failed
  <2>1. \A k \in DOMAIN read : read[k] # Failed
    <3> HIDE DEF read
    <3> QED  BY <1>2 DEF Range
  <2> HIDE DEF gs, n
  <2> QED  BY <1>3, <2>1
<1>5. DOMAIN rules = 1..n /\ rules = [k \in 1..n |-> rules[k]]
      /\ \A k \in 1..n : rules[k] = RuleFromXds(gs[k])
  <2> HIDE DEF gs, n, rules
  <2> QED  BY <1>2, <1>3
<1>6. ASSUME NEW k \in 1..n
      PROVE  /\ rules[k] \in RouteRule /\ PlainRule(rules[k])
             /\ \A i \in Run(routes, k) : RuleDecision(rules[k]) = ActionDecision(routes[i].action)
             /\ \A r : Legible(r) =>
                   (RuleMatches(rules[k], r)
                      <=> \E i \in Run(routes, k) : WireMatches(routes[i].match, r))
  <2>1. k \in DOMAIN Grouped(routes) /\ RuleFromXds(Grouped(routes)[k]) # Failed
        /\ rules[k] = RuleFromXds(Grouped(routes)[k])
    BY <1>3, <1>4, <1>5
  <2> HIDE DEF rules
  <2> QED  BY <2>1, GroupRead
<1> HIDE DEF rules, gs
<1>7. rules \in Seq(RouteRule)
  <2> HIDE DEF n
  <2> QED  BY <1>3, <1>5, <1>6, ListIsSequence
<1>8. ASSUME NEW r, Legible(r)
      PROVE  /\ WireHits(routes, r) = {} <=> RuleHits(rules, r) = {}
             /\ \A i \in WireHits(routes, r), k \in RuleHits(rules, r) :
                   /\ \A j \in WireHits(routes, r) : i <= j
                   /\ \A l \in RuleHits(rules, r) : k <= l
                   => RuleDecision(rules[k]) = ActionDecision(routes[i].action)
  <2>1. \A i \in WireHits(routes, r) : RunOf(routes, i) \in RuleHits(rules, r)
    <3> TAKE i \in WireHits(routes, r)
    <3>1. i \in DOMAIN routes /\ WireMatches(routes[i].match, r)
      BY DEF WireHits
    <3>2. RunOf(routes, i) \in 1..n /\ i \in Run(routes, RunOf(routes, i))
      BY <3>1, RunsAre DEF Run
    <3> HIDE DEF n
    <3>3. RuleMatches(rules[RunOf(routes, i)], r)
      BY <1>6, <1>8, <3>1, <3>2
    <3> QED  BY <1>5, <3>2, <3>3 DEF RuleHits
  <2>2. \A k \in RuleHits(rules, r) : \E j \in WireHits(routes, r) : RunOf(routes, j) = k
    <3> TAKE k \in RuleHits(rules, r)
    <3>1. k \in 1..n /\ RuleMatches(rules[k], r)
      BY <1>5 DEF RuleHits
    <3> HIDE DEF n
    <3>2. PICK j \in Run(routes, k) : WireMatches(routes[j].match, r)
      BY <1>6, <1>8, <3>1
    <3> QED  BY <3>2 DEF Run, WireHits
  <2>3. ASSUME NEW i \in WireHits(routes, r), NEW k \in RuleHits(rules, r),
               \A j \in WireHits(routes, r) : i <= j, \A l \in RuleHits(rules, r) : k <= l
        PROVE  RuleDecision(rules[k]) = ActionDecision(routes[i].action)
    <3>1. k <= RunOf(routes, i)
      BY <2>1, <2>3
    <3>2. PICK j \in WireHits(routes, r) : RunOf(routes, j) = k
      BY <2>2
    <3>3. i \in DOMAIN routes /\ j \in DOMAIN routes /\ i <= j
      BY <2>3 DEF WireHits
    <3>4. RunOf(routes, i) <= RunOf(routes, j)
      BY <3>3, RunsAre
    <3>5. RunOf(routes, i) \in 1..n /\ RunOf(routes, j) \in 1..n
      BY <3>3, RunsAre
    <3>6. RunOf(routes, i) = k /\ k \in 1..n
      BY <1>3, <3>1, <3>2, <3>4, <3>5
    <3>7. i \in Run(routes, k)
      BY <3>3, <3>6 DEF Run
    <3> HIDE DEF n
    <3> QED  BY <1>6, <3>6, <3>7
  <2> QED  BY <2>1, <2>2, <2>3
<1>9. \A k \in DOMAIN rules : PlainRule(rules[k])
  BY <1>5, <1>6
<1> QED  BY <1>7, <1>8, <1>9 DEF rules, gs

\* HostnameMatch::from_str, and its name.
LEMMA HostnameReadName ==
    ASSUME NEW h \in Hostname, HostnameMatchFromStr(h) # Failed
    PROVE  LET m == HostnameMatchFromStr(h)
           IN  m \in HostnameMatch /\ ValidHostname(m.host) /\ HostnameMatchName(m) = h
<1> DEFINE m == HostnameMatchFromStr(h)
           wild == Len(h) > 1 /\ h[1] = "*"
           host == IF wild THEN Tail(h) ELSE h
<1>1. h \in Seq(Label) /\ Len(h) \in Nat
  BY DEF Hostname
<1>2. ValidHostname(host) /\ m = [wild |-> wild, host |-> host]
  BY DEF HostnameMatchFromStr
<1>3. wild \in BOOLEAN
  OBVIOUS
<1>4. host \in Hostname /\ (IF wild THEN <<"*">> \o host ELSE host) = h
  <2>1. CASE ~wild
    BY <2>1
  <2>2. CASE wild
    <3> DEFINE t == Tail(h)
               back == <<"*">> \o t
    <3>1. h # <<>> /\ h[1] = "*" /\ "*" \in Label
      BY <2>2, NameConstants
    <3>2. /\ t \in Seq(Label) /\ Len(t) = Len(h) - 1
          /\ \A i \in 1..Len(t) : t[i] = h[i + 1]
      BY <1>1, <3>1, HeadTailProperties
    <3>3. <<"*">> \in Seq(Label) /\ Len(<<"*">>) = 1
      BY <3>1
    <3> HIDE DEF t
    <3>4. /\ back \in Seq(Label) /\ Len(back) = 1 + Len(t)
          /\ \A i \in 1..(1 + Len(t)) : back[i] = IF i <= 1 THEN (<<"*">>)[i] ELSE t[i - 1]
      BY <3>2, <3>3, ConcatProperties
    <3>5. Len(back) = Len(h)
      BY <1>1, <3>2, <3>4
    <3>6. \A i \in 1..Len(h) : back[i] = h[i]
      <4> TAKE i \in 1..Len(h)
      <4>1. CASE i = 1
        <5>1. 1 \in 1..(1 + Len(t)) /\ 1 <= 1
          BY <1>1, <3>2
        <5> HIDE DEF back
        <5> QED  BY <3>1, <3>4, <4>1, <5>1
      <4>2. CASE i # 1
        <5>1. i - 1 \in 1..Len(t) /\ ~(i <= 1) /\ (i - 1) + 1 = i /\ i \in 1..(1 + Len(t))
          BY <1>1, <3>2, <4>2
        <5> HIDE DEF back
        <5> QED  BY <3>2, <3>4, <5>1
      <4> QED  BY <4>1, <4>2
    <3>7. back = h
      <4> HIDE DEF back
      <4> QED  BY <1>1, <3>4, <3>5, <3>6
    <3> QED  BY <2>2, <3>2, <3>7 DEF t, Hostname
  <2> QED  BY <2>1, <2>2
<1> HIDE DEF m, wild, host
<1> QED  BY <1>2, <1>3, <1>4 DEF m, HostnameMatch, HostnameMatchName

LEMMA DomainsRead ==
    ASSUME NEW domains, domains \subseteq XdsName, SamePorts(domains),
           \A d \in domains : ~BadPort(d) /\ HostnameMatchFromStr(d.host) # Failed,
           NEW route,
           route.hostnames = {HostnameMatchFromStr(d.host) : d \in domains},
           route.ports = {d.port : d \in domains} \ {None}
    PROVE  /\ route.hostnames \subseteq {m \in HostnameMatch : ValidHostname(m.host)}
           /\ route.ports \subseteq Port
           /\ \A r : Legible(r) =>
                 (RouteMatches(route, r.host, r.port)
                    <=> \E d \in domains : DomainMatches(d, r))
<1>1. \A d \in domains : /\ d.host \in Hostname /\ d.port \in Port \cup {None}
                         /\ d = [host |-> d.host, port |-> d.port]
  BY DEF XdsName, BadPort
<1>2. \A d \in domains : LET m == HostnameMatchFromStr(d.host)
                         IN  m \in HostnameMatch /\ ValidHostname(m.host)
                             /\ HostnameMatchName(m) = d.host
  BY <1>1, HostnameReadName
<1>3. route.hostnames \subseteq {m \in HostnameMatch : ValidHostname(m.host)}
      /\ route.ports \subseteq Port
  BY <1>1, <1>2
<1>4. ASSUME NEW r, Legible(r)
      PROVE  RouteMatches(route, r.host, r.port) <=> \E d \in domains : DomainMatches(d, r)
  <2>1. r.host \in Hostname /\ ValidHostname(r.host) /\ r.port \in Port /\ None \notin Port
    BY <1>4, NoneIsApart, NameConstants DEF Legible, Port
  <2>2. \A d \in domains : MatchesStr(HostnameMatchFromStr(d.host), r.host)
                              <=> HostMatches(d.host, r.host)
    <3> TAKE d \in domains
    <3> DEFINE m == HostnameMatchFromStr(d.host)
    <3>1. m \in HostnameMatch /\ ValidHostname(m.host) /\ HostnameMatchName(m) = d.host
      BY <1>2
    <3> HIDE DEF m
    <3>2. HostMatches(HostnameMatchName(m), r.host) <=> MatchesStr(m, r.host)
      BY <2>1, <3>1, HostWritten
    <3> QED  BY <3>1, <3>2 DEF m
  <2>3. \A d : DomainMatches(d, r) <=> d.port \in {None, r.port} /\ HostMatches(d.host, r.host)
    BY DEF DomainMatches, HostMatches
  <2>4. RouteMatches(route, r.host, r.port)
           <=> /\ \E d \in domains : HostMatches(d.host, r.host)
               /\ route.ports = {} \/ r.port \in route.ports
    <3>1. (\E m \in route.hostnames : MatchesStr(m, r.host))
             <=> \E d \in domains : HostMatches(d.host, r.host)
      BY <2>2
    <3> QED  BY <3>1 DEF RouteMatches
  <2>5. ASSUME NEW d \in domains, DomainMatches(d, r) PROVE RouteMatches(route, r.host, r.port)
    <3>1. HostMatches(d.host, r.host) /\ d.port \in {None, r.port}
      BY <2>3, <2>5
    <3>2. route.ports = {} \/ r.port \in route.ports
      <4>1. CASE d.port = r.port
        BY <2>1, <4>1
      <4>2. CASE d.port = None
        BY <4>2 DEF SamePorts
      <4> QED  BY <3>1, <4>1, <4>2
    <3> QED  BY <2>4, <3>1, <3>2
  <2>6. ASSUME NEW d \in domains, HostMatches(d.host, r.host),
               route.ports = {} \/ r.port \in route.ports
        PROVE  \E e \in domains : DomainMatches(e, r)
    <3>1. CASE route.ports = {}
      <4>1. d.port = None
        BY <3>1
      <4> QED  BY <2>3, <2>6, <4>1
    <3>2. CASE r.port \in route.ports
      <4>1. PICK e \in domains : e.port = r.port
        BY <3>2
      <4> DEFINE f == [host |-> d.host, port |-> e.port]
      <4>2. f \in domains
        BY DEF SamePorts
      <4>3. f.host = d.host /\ f.port = r.port
        BY <4>1
      <4> HIDE DEF f
      <4>4. DomainMatches(f, r)
        BY <2>3, <2>6, <4>3
      <4> QED  BY <4>2, <4>4
    <3> QED  BY <2>6, <3>1, <3>2
  <2> QED  BY <2>4, <2>5, <2>6
<1> QED  BY <1>3, <1>4

\* Route::from_xds keeps what a route decides.
LEMMA RouteRead ==
    ASSUME NEW x \in RouteConfiguration, Expressible(x), RouteFromXds(x) # Failed,
           Len(x.vhosts) = 1 => \A p \in Policies(x) : ~RetryPanics(p)
    PROVE  LET route == RouteFromXds(x)
           IN  /\ route \in Route /\ Plain(route)
               /\ \A r : Legible(r) => RouteDecides(route, r) = WireDecides(x, r)
<1> DEFINE route == RouteFromXds(x)
           v == x.vhosts[1]
           tags == TagsFromXds(x.metadata)
           hostnames == {HostnameMatchFromStr(d.host) : d \in v.domains}
           rules == Parsed(Grouped(v.routes), RuleFromXds)
           ports == {d.port : d \in v.domains} \ {None}
<1>1. /\ ValidName(x.name) /\ tags # Failed /\ Len(x.vhosts) = 1
      /\ \A d \in v.domains : ~BadPort(d)
      /\ Failed \notin hostnames /\ rules # Failed
      /\ route = [id |-> x.name, tags |-> tags, rules |-> rules,
                  hostnames |-> hostnames, ports |-> ports]
  BY DEF RouteFromXds
<1>2. /\ x.name \in Label /\ x.metadata \in (SUBSET XdsTag) \cup {None}
      /\ x.vhosts \in Seq(VirtualHost)
  BY DEF RouteConfiguration
<1>3. v \in VirtualHost /\ v \in Range(x.vhosts)
  BY <1>1, <1>2 DEF Range
<1>4. v.domains \subseteq XdsName /\ v.routes \in Seq(XdsRouteOf)
  BY <1>3 DEF VirtualHost
<1>5. SamePorts(v.domains)
  BY <1>3 DEF Expressible
<1>6. Legal(v.routes)
  <2>1. \A i \in DOMAIN v.routes :
           v.routes[i].action # None /\ v.routes[i].action.type = "Route" =>
              ~RetryPanics(v.routes[i].action.policy)
    BY <1>1 DEF Policies
  <2> HIDE DEF v
  <2> QED  BY <1>3, <2>1 DEF Expressible, Legal
<1>7. tags \in SUBSET Tag
  <2>1. CASE x.metadata = None
    BY <2>1 DEF TagsFromXds
  <2>2. CASE x.metadata # None
    <3>1. tags = x.metadata /\ \A t \in x.metadata : t.value # Failed
      BY <1>1, <2>2 DEF TagsFromXds
    <3>2. \A t \in x.metadata : t \in XdsTag
      BY <1>2, <2>2
    <3>3. \A t \in x.metadata : t \in Tag
      BY <3>1, <3>2 DEF XdsTag, Tag
    <3> QED  BY <3>1, <3>3
  <2> QED  BY <2>1, <2>2
<1> HIDE DEF route, v, tags, hostnames, rules, ports
<1>8. /\ rules \in Seq(RouteRule) /\ \A k \in DOMAIN rules : PlainRule(rules[k])
  BY <1>1, <1>4, <1>6, RulesRead DEF rules
<1>9. \A r : Legible(r) =>
         /\ WireHits(v.routes, r) = {} <=> RuleHits(rules, r) = {}
         /\ \A i \in WireHits(v.routes, r), k \in RuleHits(rules, r) :
               /\ \A j \in WireHits(v.routes, r) : i <= j
               /\ \A l \in RuleHits(rules, r) : k <= l
               => RuleDecision(rules[k]) = ActionDecision(v.routes[i].action)
  BY <1>1, <1>4, <1>6, RulesRead DEF rules
<1>10. /\ hostnames \subseteq {m \in HostnameMatch : ValidHostname(m.host)} /\ ports \subseteq Port
       /\ \A r : Legible(r) =>
             (RouteMatches(route, r.host, r.port) <=> \E d \in v.domains : DomainMatches(d, r))
  <2>1. route.hostnames = {HostnameMatchFromStr(d.host) : d \in v.domains}
        /\ route.ports = {d.port : d \in v.domains} \ {None}
    BY <1>1 DEF hostnames, ports
  <2>2. \A d \in v.domains : HostnameMatchFromStr(d.host) # Failed
    BY <1>1 DEF hostnames
  <2>3. route.hostnames = hostnames /\ route.ports = ports
    BY <1>1
  <2>4. /\ route.hostnames \subseteq {m \in HostnameMatch : ValidHostname(m.host)}
        /\ route.ports \subseteq Port
        /\ \A r : Legible(r) =>
              (RouteMatches(route, r.host, r.port) <=> \E d \in v.domains : DomainMatches(d, r))
    BY <1>1, <1>4, <1>5, <2>1, <2>2, DomainsRead
  <2> QED  BY <2>3, <2>4
<1>11. route \in Route
  <2>1. x.name \in Name
    BY <1>1, <1>2 DEF Name
  <2> QED  BY <1>1, <1>7, <1>8, <1>10, <2>1 DEF Route
<1>12. Plain(route)
  BY <1>1, <1>8 DEF Plain, PlainRule, PlainMatch, Range
<1>13. ASSUME NEW r, Legible(r)
       PROVE  RouteDecides(route, r) = WireDecides(x, r)
  <2> DEFINE hits == WireHits(v.routes, r)
             kept == RuleHits(rules, r)
             i == CHOOSE n \in hits : \A m \in hits : n <= m
             k == CHOOSE n \in kept : \A m \in kept : n <= m
             there == \E d \in v.domains : DomainMatches(d, r)
  <2>1. WireDecides(x, r) = IF hits = {} \/ ~there THEN None
                            ELSE ActionDecision(v.routes[i].action)
    BY DEF WireDecides, WireHits, v
  <2>2. RouteDecides(route, r) =
           IF ~RouteMatches(route, r.host, r.port) \/ MatchingRule(route, r) = None THEN None
           ELSE RuleDecision(rules[MatchingRule(route, r)])
    BY <1>1 DEF RouteDecides
  <2>3. MatchingRule(route, r) = IF kept = {} THEN None ELSE k
    BY <1>1 DEF MatchingRule, RuleHits
  <2>4. there <=> RouteMatches(route, r.host, r.port)
    BY <1>10, <1>13
  <2>5. hits = {} <=> kept = {}
    BY <1>9, <1>13
  <2>6. CASE kept = {} \/ ~there
    <3> HIDE DEF there, hits, kept, i, k
    <3> QED  BY <2>1, <2>2, <2>3, <2>4, <2>5, <2>6
  <2>7. CASE kept # {} /\ there
    <3>1. kept \in SUBSET Nat /\ hits \in SUBSET Nat
      BY <1>4, <1>8 DEF RuleHits, WireHits
    <3>2. /\ i \in hits /\ \A m \in hits : i <= m
          /\ k \in kept /\ \A m \in kept : k <= m
      <4> HIDE DEF hits, kept
      <4>1. hits # {} /\ kept # {}
        BY <2>5, <2>7
      <4> QED  BY <3>1, <4>1, FirstIs
    <3>3. k \in Nat /\ k # None
      BY <3>1, <3>2, BackendConstants
    <3>4. RuleDecision(rules[k]) = ActionDecision(v.routes[i].action)
      <4> HIDE DEF i, k
      <4> QED  BY <1>9, <1>13, <3>2
    <3> HIDE DEF there, hits, kept, i, k
    <3> QED  BY <2>1, <2>2, <2>3, <2>4, <2>5, <2>7, <3>3, <3>4
  <2> HIDE DEF there, hits, kept, i, k
  <2> QED  BY <2>6, <2>7
<1> QED  BY <1>11, <1>12, <1>13 DEF route

----------------------------------------------------------------------------
(* How matches and rules are ordered. *)

NatOrder == {p \in Nat \X Nat : p[1] < p[2]}
MatchOrder == {p \in RouteMatch \X RouteMatch : MatchLess(p[1], p[2])}
RuleOrder == {p \in RouteRule \X RouteRule : RuleLess(p[1], p[2])}

LEMMA MatchRankType ==
    ASSUME NEW m \in RouteMatch
    PROVE  MatchRank(m) \in Seq(Nat)
<1>1. /\ m.path \in PathMatch \cup {None} /\ Len(m.headers) \in Nat /\ Len(m.query) \in Nat
  <2>1. m.headers \in Seq(Matcher) /\ m.query \in Seq(Matcher) /\ m.path \in PathMatch \cup {None}
    BY DEF RouteMatch
  <2> QED  BY <2>1
<1>2. PathRank(m.path) \in Seq(Nat)
  <2>1. CASE m.path = None
    BY <2>1 DEF PathRank
  <2>2. CASE m.path # None
    <3> DEFINE p == m.path
               kind == CASE p.type = "Regex" -> 1 [] p.type = "Prefix" -> 2
                         [] p.type = "Exact" -> 3
    <3>1. p.value \in Text /\ p.type \in {"Regex", "Prefix", "Exact"}
      BY <1>1, <2>2, TextConstants DEF PathMatch
    <3>2. Len(p.value) \in Nat
      BY <3>1 DEF Text
    <3>3. kind \in Nat
      BY <3>1
    <3>4. PathRank(p) = <<kind, Len(p.value)>>
      BY <2>2 DEF PathRank
    <3> HIDE DEF p, kind
    <3>5. PathRank(p) \in Seq(Nat)
      BY <3>2, <3>3, <3>4
    <3> QED  BY <3>5 DEF p
  <2> QED  BY <2>1, <2>2
<1> DEFINE method == IF m.method = None THEN 0 ELSE 1
           more == <<method, Len(m.headers), Len(m.query)>>
<1>3. more \in Seq(Nat)
  <2>1. method \in Nat
    OBVIOUS
  <2> HIDE DEF method
  <2> QED  BY <1>1, <2>1
<1>4. MatchRank(m) = PathRank(m.path) \o more
  BY DEF MatchRank
<1> HIDE DEF more
<1> QED  BY <1>2, <1>3, <1>4, ConcatProperties

LEMMA NatOrderIsWeak == IsWeakOn(Nat, NatOrder)
BY DEF IsWeakOn, NatOrder

LEMMA MatchOrderIs ==
    ASSUME NEW m \in RouteMatch, NEW n \in RouteMatch
    PROVE  /\ <<m, n>> \in MatchOrder <=> MatchLess(m, n)
           /\ MatchLess(m, n) <=> <<MatchRank(m), MatchRank(n)>> \in LexPairs(Nat, NatOrder)
<1> DEFINE s == MatchRank(m)
           t == MatchRank(n)
<1>1. <<m, n>> \in MatchOrder <=> MatchLess(m, n)
  BY DEF MatchOrder
<1>2. MatchLess(m, n) <=> LexLess(s, t, NatLess)
  BY DEF MatchLess
<1>3. s \in Seq(Nat) /\ t \in Seq(Nat)
  BY MatchRankType
<1> HIDE DEF s, t
<1>4. /\ Len(s) \in Nat /\ Len(t) \in Nat
      /\ \A i \in 1..Len(s) : s[i] \in Nat
      /\ \A i \in 1..Len(t) : t[i] \in Nat
  BY <1>3
<1>5. ASSUME NEW i \in 1..(Len(s) + 1)
      PROVE  LexAt(s, t, NatOrder, i)
               <=> /\ \A j \in 1..(i - 1) : j <= Len(t) /\ ~(s[j] < t[j]) /\ ~(t[j] < s[j])
                   /\ i <= Len(t) /\ (i <= Len(s) => s[i] < t[i])
  <2>1. \A x, y \in Nat : <<x, y>> \in NatOrder <=> x < y
    BY DEF NatOrder
  <2>2. \A j \in 1..(i - 1) : j <= Len(t) =>
           (/\ <<s[j], t[j]>> \in NatOrder <=> s[j] < t[j]
            /\ <<t[j], s[j]>> \in NatOrder <=> t[j] < s[j])
    <3> TAKE j \in 1..(i - 1)
    <3> HAVE j <= Len(t)
    <3>1. j \in 1..Len(s) /\ j \in 1..Len(t)
      BY <1>4
    <3> QED  BY <1>4, <2>1, <3>1
  <2>3. i <= Len(t) /\ i <= Len(s) => (<<s[i], t[i]>> \in NatOrder <=> s[i] < t[i])
    <3> HAVE i <= Len(t) /\ i <= Len(s)
    <3>1. i \in 1..Len(s) /\ i \in 1..Len(t)
      BY <1>4
    <3> QED  BY <1>4, <2>1, <3>1
  <2> QED  BY <2>2, <2>3 DEF LexAt
<1>6. LexLess(s, t, NatLess) <=> \E i \in 1..(Len(s) + 1) : LexAt(s, t, NatOrder, i)
  BY <1>5 DEF LexLess, NatLess
<1>7. <<s, t>> \in LexPairs(Nat, NatOrder) <=> \E i \in 1..(Len(s) + 1) : LexAt(s, t, NatOrder, i)
  BY <1>3 DEF LexPairs
<1> QED  BY <1>1, <1>2, <1>6, <1>7 DEF s, t

LEMMA MatchOrderIsWeak == IsWeakOn(RouteMatch, MatchOrder)
<1>1. IsWeakOn(Seq(Nat), LexPairs(Nat, NatOrder))
  BY NatOrderIsWeak, LexIsWeak
<1>2. \A m, n \in RouteMatch :
         <<m, n>> \in MatchOrder <=> <<MatchRank(m), MatchRank(n)>> \in LexPairs(Nat, NatOrder)
  BY MatchOrderIs
<1>3. \A m \in RouteMatch : MatchRank(m) \in Seq(Nat)
  BY MatchRankType
<1> QED  BY <1>1, <1>2, <1>3 DEF IsWeakOn

\* sort() of matches, and of rules, is sorting by these pairs.
LEMMA MatchesSorted ==
    ASSUME NEW s \in Seq(RouteMatch)
    PROVE  SortDescending(s, MatchLess) = SortOf(s, MatchOrder)
<1>1. \A i, j \in DOMAIN s : /\ <<s[i], s[j]>> \in MatchOrder <=> MatchLess(s[i], s[j])
                             /\ s[i] \in RouteMatch /\ s[j] \in RouteMatch
  <2>1. \A i \in DOMAIN s : s[i] \in RouteMatch
    OBVIOUS
  <2> QED  BY <2>1, MatchOrderIs
<1> DEFINE upTo(i) == {j \in DOMAIN s : \/ MatchLess(s[i], s[j])
                                        \/ ~MatchLess(s[j], s[i]) /\ j <= i}
<1>2. \A i \in DOMAIN s : Ranks(s, MatchOrder)[i] = Cardinality(upTo(i))
  <2> TAKE i \in DOMAIN s
  <2>1. upTo(i) = {j \in DOMAIN s : Before(s, MatchOrder, j, i)}
    BY <1>1 DEF Before
  <2> QED  BY <2>1 DEF Ranks
<1>3. SortDescending(s, MatchLess)
        = [k \in DOMAIN s |-> s[CHOOSE i \in DOMAIN s : Cardinality(upTo(i)) = k]]
  BY DEF SortDescending
<1> HIDE DEF upTo
<1> DEFINE here(k) == CHOOSE i \in DOMAIN s : Cardinality(upTo(i)) = k
           there(k) == CHOOSE i \in DOMAIN s : Ranks(s, MatchOrder)[i] = k
<1>4. \A k : here(k) = there(k)
  BY <1>2
<1>5. SortOf(s, MatchOrder) = [k \in DOMAIN s |-> s[there(k)]]
  BY DEF SortOf
<1>6. SortDescending(s, MatchLess) = [k \in DOMAIN s |-> s[here(k)]]
  BY <1>3
<1> HIDE DEF here, there
<1> QED  BY <1>4, <1>5, <1>6

LEMMA SortedMatches ==
    ASSUME NEW rule \in RouteRule
    PROVE  SortDescending(rule.matches, MatchLess) \in Seq(RouteMatch)
<1>1. rule.matches \in Seq(RouteMatch)
  BY DEF RouteRule
<1> QED  BY <1>1, MatchesSorted, MatchOrderIsWeak, SortIs

LEMMA RuleOrderIs ==
    ASSUME NEW p \in RouteRule, NEW q \in RouteRule
    PROVE  /\ <<p, q>> \in RuleOrder <=> RuleLess(p, q)
           /\ RuleLess(p, q) <=>
                <<SortDescending(p.matches, MatchLess), SortDescending(q.matches, MatchLess)>>
                   \in LexPairs(RouteMatch, MatchOrder)
<1> DEFINE s == SortDescending(p.matches, MatchLess)
           t == SortDescending(q.matches, MatchLess)
<1>1. <<p, q>> \in RuleOrder <=> RuleLess(p, q)
  BY DEF RuleOrder
<1>2. RuleLess(p, q) <=> LexLess(s, t, MatchLess)
  BY DEF RuleLess
<1>3. s \in Seq(RouteMatch) /\ t \in Seq(RouteMatch)
  BY SortedMatches
<1> HIDE DEF s, t
<1>4. /\ Len(s) \in Nat /\ Len(t) \in Nat
      /\ \A i \in 1..Len(s) : s[i] \in RouteMatch
      /\ \A i \in 1..Len(t) : t[i] \in RouteMatch
  BY <1>3
<1>5. ASSUME NEW i \in 1..(Len(s) + 1)
      PROVE  LexAt(s, t, MatchOrder, i)
               <=> /\ \A j \in 1..(i - 1) : /\ j <= Len(t) /\ ~MatchLess(s[j], t[j])
                                            /\ ~MatchLess(t[j], s[j])
                   /\ i <= Len(t) /\ (i <= Len(s) => MatchLess(s[i], t[i]))
  <2>1. \A x, y \in RouteMatch : <<x, y>> \in MatchOrder <=> MatchLess(x, y)
    BY MatchOrderIs
  <2>2. \A j \in 1..(i - 1) : j <= Len(t) =>
           (/\ <<s[j], t[j]>> \in MatchOrder <=> MatchLess(s[j], t[j])
            /\ <<t[j], s[j]>> \in MatchOrder <=> MatchLess(t[j], s[j]))
    <3> TAKE j \in 1..(i - 1)
    <3> HAVE j <= Len(t)
    <3>1. j \in 1..Len(s) /\ j \in 1..Len(t)
      BY <1>4
    <3> QED  BY <1>4, <2>1, <3>1
  <2>3. i <= Len(t) /\ i <= Len(s) => (<<s[i], t[i]>> \in MatchOrder <=> MatchLess(s[i], t[i]))
    <3> HAVE i <= Len(t) /\ i <= Len(s)
    <3>1. i \in 1..Len(s) /\ i \in 1..Len(t)
      BY <1>4
    <3> QED  BY <1>4, <2>1, <3>1
  <2> QED  BY <2>2, <2>3 DEF LexAt
<1>6. LexLess(s, t, MatchLess) <=> \E i \in 1..(Len(s) + 1) : LexAt(s, t, MatchOrder, i)
  BY <1>5 DEF LexLess
<1>7. <<s, t>> \in LexPairs(RouteMatch, MatchOrder)
         <=> \E i \in 1..(Len(s) + 1) : LexAt(s, t, MatchOrder, i)
  BY <1>3 DEF LexPairs
<1> QED  BY <1>1, <1>2, <1>6, <1>7 DEF s, t

LEMMA RuleOrderIsWeak == IsWeakOn(RouteRule, RuleOrder)
<1> DEFINE L == LexPairs(RouteMatch, MatchOrder)
           sorted(p) == SortDescending(p.matches, MatchLess)
<1>1. IsWeakOn(Seq(RouteMatch), L)
  BY MatchOrderIsWeak, LexIsWeak
<1>2. \A p, q \in RouteRule : <<p, q>> \in RuleOrder <=> <<sorted(p), sorted(q)>> \in L
  BY RuleOrderIs
<1>3. \A p \in RouteRule : sorted(p) \in Seq(RouteMatch)
  BY SortedMatches
<1> HIDE DEF L, sorted
<1> QED  BY <1>1, <1>2, <1>3 DEF IsWeakOn

LEMMA RulesSorted ==
    ASSUME NEW s \in Seq(RouteRule)
    PROVE  SortDescending(s, RuleLess) = SortOf(s, RuleOrder)
<1>1. \A i, j \in DOMAIN s : <<s[i], s[j]>> \in RuleOrder <=> RuleLess(s[i], s[j])
  <2>1. \A i \in DOMAIN s : s[i] \in RouteRule
    OBVIOUS
  <2> QED  BY <2>1, RuleOrderIs
<1> DEFINE upTo(i) == {j \in DOMAIN s : \/ RuleLess(s[i], s[j])
                                        \/ ~RuleLess(s[j], s[i]) /\ j <= i}
<1>2. \A i \in DOMAIN s : Ranks(s, RuleOrder)[i] = Cardinality(upTo(i))
  <2> TAKE i \in DOMAIN s
  <2>1. upTo(i) = {j \in DOMAIN s : Before(s, RuleOrder, j, i)}
    BY <1>1 DEF Before
  <2> QED  BY <2>1 DEF Ranks
<1>3. SortDescending(s, RuleLess)
        = [k \in DOMAIN s |-> s[CHOOSE i \in DOMAIN s : Cardinality(upTo(i)) = k]]
  BY DEF SortDescending
<1> HIDE DEF upTo
<1> DEFINE here(k) == CHOOSE i \in DOMAIN s : Cardinality(upTo(i)) = k
           there(k) == CHOOSE i \in DOMAIN s : Ranks(s, RuleOrder)[i] = k
<1>4. \A k : here(k) = there(k)
  BY <1>2
<1>5. SortOf(s, RuleOrder) = [k \in DOMAIN s |-> s[there(k)]]
  BY DEF SortOf
<1>6. SortDescending(s, RuleLess) = [k \in DOMAIN s |-> s[here(k)]]
  BY <1>3
<1> HIDE DEF here, there
<1> QED  BY <1>4, <1>5, <1>6

\* The first rule that a request matches in a sorted route is the greatest of
\* those that it matches, of equals the first.
Best(rules, hits, i) ==
    /\ i \in hits
    /\ \A j \in hits : /\ ~RuleLess(rules[i], rules[j])
                       /\ j < i => RuleLess(rules[j], rules[i])

LEMMA SortedFirst ==
    ASSUME NEW s \in Seq(RouteRule), NEW r
    PROVE  LET t == SortDescending(s, RuleLess)
           IN  /\ t \in Seq(RouteRule) /\ Len(t) = Len(s)
               /\ \A k \in DOMAIN t : \E i \in DOMAIN s : t[k] = s[i]
               /\ \A k, l \in DOMAIN t : k < l => ~RuleLess(t[k], t[l])
               /\ RuleHits(t, r) = {} <=> RuleHits(s, r) = {}
               /\ \A k \in RuleHits(t, r) : (\A l \in RuleHits(t, r) : k <= l) =>
                     \E i \in RuleHits(s, r) : Best(s, RuleHits(s, r), i) /\ t[k] = s[i]
<1> DEFINE t == SortDescending(s, RuleLess)
           R == RuleOrder
<1>1. /\ DOMAIN s = 1..Len(s) /\ Len(s) \in Nat /\ \A i \in DOMAIN s : s[i] \in RouteRule
      /\ IsWeakOn(RouteRule, R)
  BY RuleOrderIsWeak
<1>2. t = SortOf(s, R)
  BY RulesSorted
<1>3. t \in Seq(RouteRule) /\ Len(t) = Len(s)
  <2> HIDE DEF t, R
  <2> QED  BY <1>1, <1>2, SortIs
<1>4. PICK place : Places(s, R, place)
  <2> HIDE DEF t, R
  <2> QED  BY <1>1, SortIs
<1>5. \A i, j \in DOMAIN s : <<s[i], s[j]>> \in R <=> RuleLess(s[i], s[j])
  BY <1>1, RuleOrderIs
<1> HIDE DEF t, R
<1>6. /\ DOMAIN t = DOMAIN s /\ \A k \in DOMAIN s : t[k] = s[place[k]] /\ place[k] \in DOMAIN s
      /\ \A i \in DOMAIN s : \E k \in DOMAIN s : place[k] = i
      /\ \A k, l \in DOMAIN s : k < l =>
            /\ place[k] # place[l]
            /\ \/ RuleLess(s[place[l]], s[place[k]])
               \/ ~RuleLess(s[place[k]], s[place[l]]) /\ place[k] <= place[l]
  BY <1>1, <1>2, <1>3, <1>4, <1>5 DEF Places, Before
<1>7. \A i, j \in DOMAIN s : ~(RuleLess(s[i], s[j]) /\ RuleLess(s[j], s[i]))
  BY <1>1, <1>5 DEF IsWeakOn
<1>8. \A k, l \in DOMAIN t : k < l => ~RuleLess(t[k], t[l])
  <2> TAKE k, l \in DOMAIN t
  <2> HAVE k < l
  <2>1. k \in DOMAIN s /\ l \in DOMAIN s
    BY <1>6
  <2> DEFINE i == place[k]
             j == place[l]
  <2>2. t[k] = s[i] /\ t[l] = s[j] /\ i \in DOMAIN s /\ j \in DOMAIN s
    BY <1>6, <2>1
  <2>3. RuleLess(s[j], s[i]) \/ ~RuleLess(s[i], s[j])
    BY <1>6, <2>1
  <2> HIDE DEF i, j
  <2> QED  BY <1>7, <2>2, <2>3
<1>9. \A k \in DOMAIN s : k \in RuleHits(t, r) <=> place[k] \in RuleHits(s, r)
  BY <1>6 DEF RuleHits
<1>10. RuleHits(t, r) = {} <=> RuleHits(s, r) = {}
  <2>1. \A k \in RuleHits(t, r) : k \in DOMAIN s
    BY <1>6 DEF RuleHits
  <2>2. \A i \in RuleHits(s, r) : i \in DOMAIN s
    BY DEF RuleHits
  <2>3. ASSUME NEW k \in RuleHits(t, r)  PROVE  RuleHits(s, r) # {}
    BY <1>9, <2>1
  <2>4. ASSUME NEW i \in RuleHits(s, r)  PROVE  RuleHits(t, r) # {}
    <3>1. PICK k \in DOMAIN s : place[k] = i
      BY <1>6, <2>2
    <3> QED  BY <1>9, <3>1
  <2> QED  BY <2>3, <2>4
<1>11. ASSUME NEW k \in RuleHits(t, r), \A l \in RuleHits(t, r) : k <= l
       PROVE  \E i \in RuleHits(s, r) : Best(s, RuleHits(s, r), i) /\ t[k] = s[i]
  <2>1. k \in DOMAIN s /\ t[k] = s[place[k]] /\ place[k] \in RuleHits(s, r) /\ place[k] \in DOMAIN s
    BY <1>6, <1>9 DEF RuleHits
  <2>2. ASSUME NEW j \in RuleHits(s, r)
        PROVE  /\ ~RuleLess(s[place[k]], s[j])
               /\ j < place[k] => RuleLess(s[j], s[place[k]])
    <3>1. j \in DOMAIN s
      BY DEF RuleHits
    <3>2. PICK l \in DOMAIN s : place[l] = j
      BY <1>6, <3>1
    <3>3. l \in RuleHits(t, r)
      BY <1>9, <3>2
    <3>4. k <= l /\ k \in Nat /\ l \in Nat /\ j \in Nat /\ place[k] \in Nat
      BY <1>1, <1>11, <2>1, <3>1, <3>3
    <3>5. CASE k = l
      BY <1>7, <2>1, <3>2, <3>4, <3>5
    <3>6. CASE k < l
      <4>1. \/ RuleLess(s[j], s[place[k]])
            \/ ~RuleLess(s[place[k]], s[j]) /\ place[k] <= j
        BY <1>6, <2>1, <3>2, <3>6
      <4> QED  BY <1>7, <2>1, <3>1, <3>4, <4>1
    <3> QED  BY <3>4, <3>5, <3>6
  <2> QED  BY <2>1, <2>2 DEF Best
<1>12. \A k \in DOMAIN t : \E i \in DOMAIN s : t[k] = s[i]
  BY <1>6
<1> QED  BY <1>3, <1>8, <1>10, <1>11, <1>12 DEF t

----------------------------------------------------------------------------
(* Gateway API and back: a part that is read again is the part that was    *)
(* written.                                                                *)

\* What Gateway API says of a part is of our type, and only names a header
\* that the other names.
LEMMA GatewayPathWritten ==
    ASSUME NEW p \in PathMatch
    PROVE  /\ PathToGateway(p) \in GatewayPath /\ PathToGateway(p) # None
           /\ PathFromGateway(PathToGateway(p)) = p
<1> DEFINE g == PathToGateway(p)
<1>0. p = [type |-> p.type, value |-> p.value]
  BY DEF PathMatch
<1>1. /\ p.type \in {"Exact", "Prefix", "Regex"}
      /\ p.value \in Text /\ (p.type = "Regex" => p.value \in Regex)
  BY TextConstants DEF PathMatch
<1> DEFINE type == GatewayType(p.type)
<1>2. /\ g = [type |-> type, value |-> p.value]
      /\ p.type = "Exact" => type = "Exact"
      /\ p.type = "Prefix" => type = "PathPrefix"
      /\ p.type = "Regex" => type = "RegularExpression"
  BY <1>1 DEF PathToGateway, Pattern, GatewayType
<1> HIDE DEF g, type
<1>3. g \in GatewayPath /\ g.value = p.value
  <2>1. type \in {"Exact", "PathPrefix", "RegularExpression"}
    BY <1>1, <1>2
  <2>2. g.value = p.value
    BY <1>2
  <2> QED  BY <1>1, <1>2, <2>1, <2>2 DEF GatewayPath
<1>4. p.value # None /\ p.value # Failed /\ (p.type = "Regex" => ParseRegex(p.value) = p.value)
  <2>1. None \notin Text /\ Failed \notin Text
    BY NoneIsApart
  <2> QED  BY <1>1, <2>1 DEF ParseRegex, Regex
<1>5. PathFromGateway(g) = [type |-> p.type, value |-> p.value]
  BY <1>1, <1>2, <1>3, <1>4 DEF PathFromGateway, Pattern
<1>6. g # None
  BY <1>3, NoneIsApart
<1> QED  BY <1>0, <1>3, <1>5, <1>6 DEF g

LEMMA GatewayPathRead ==
    ASSUME NEW g \in GatewayPath, PathFromGateway(g) # Failed
    PROVE  PathFromGateway(g) \in PathMatch
<1>1. g.value \in Text \cup {None}
  BY DEF GatewayPath
<1>2. ParseRegex(g.value) # Failed => g.value \in Regex
  BY DEF ParseRegex, Regex
<1> QED  BY <1>1, <1>2 DEF PathFromGateway, Pattern, PathMatch

LEMMA GatewayMatcherWritten ==
    ASSUME NEW m \in Matcher
    PROVE  /\ MatcherToGateway(m) \in GatewayMatcher /\ MatcherToGateway(m).name = m.name
           /\ MatcherFromGateway(MatcherToGateway(m)) = m
<1> DEFINE g == MatcherToGateway(m)
<1>0. m = [type |-> m.type, name |-> m.name, value |-> m.value]
  BY DEF Matcher
<1>1. /\ m.type \in {"Exact", "Regex"}
      /\ m.name \in Word /\ m.value \in Text /\ (m.type = "Regex" => m.value \in Regex)
  BY TextConstants DEF Matcher
<1> DEFINE type == GatewayType(m.type)
<1>2. /\ g = [type |-> type, name |-> m.name, value |-> m.value]
      /\ m.type = "Exact" => type = "Exact"
      /\ m.type = "Regex" => type = "RegularExpression"
  BY <1>1 DEF MatcherToGateway, Named, GatewayType
<1> HIDE DEF g, type
<1>3. g \in GatewayMatcher /\ g.value = m.value /\ g.name = m.name
  <2>1. type \in {"Exact", "RegularExpression"}
    BY <1>1, <1>2
  <2>2. g.value = m.value /\ g.name = m.name
    BY <1>2
  <2> QED  BY <1>1, <1>2, <2>1, <2>2 DEF GatewayMatcher
<1>4. m.value # Failed /\ (m.type = "Regex" => ParseRegex(m.value) = m.value)
  <2>1. Failed \notin Text
    BY NoneIsApart
  <2> QED  BY <1>1, <2>1 DEF ParseRegex, Regex
<1>5. MatcherFromGateway(g) = [type |-> m.type, name |-> m.name, value |-> m.value]
  BY <1>1, <1>2, <1>3, <1>4 DEF MatcherFromGateway, Named
<1> QED  BY <1>0, <1>3, <1>5 DEF g

LEMMA GatewayMatcherRead ==
    ASSUME NEW g \in GatewayMatcher, MatcherFromGateway(g) # Failed
    PROVE  MatcherFromGateway(g) \in Matcher /\ MatcherFromGateway(g).name = g.name
<1>1. g.value \in Text /\ g.name \in Word
  BY DEF GatewayMatcher
<1>2. ParseRegex(g.value) # Failed => g.value \in Regex
  BY DEF ParseRegex, Regex
<1> QED  BY <1>1, <1>2 DEF MatcherFromGateway, Named, Matcher

LEMMA GatewayMatchersRead ==
    ASSUME NEW s \in Seq(GatewayMatcher), Parsed(s, MatcherFromGateway) # Failed
    PROVE  LET ms == Parsed(s, MatcherFromGateway)
           IN  /\ ms \in Seq(Matcher) /\ DOMAIN ms = DOMAIN s
               /\ \A i \in DOMAIN s : ms[i].name = s[i].name
<1> DEFINE ms == [i \in DOMAIN s |-> MatcherFromGateway(s[i])]
<1>1. DOMAIN s = 1..Len(s) /\ Len(s) \in Nat /\ \A i \in DOMAIN s : s[i] \in GatewayMatcher
  OBVIOUS
<1>2. Parsed(s, MatcherFromGateway) = ms /\ Failed \notin Range(ms)
  BY DEF Parsed, Results, Mapped
<1>3. \A i \in DOMAIN s : ms[i] = MatcherFromGateway(s[i]) /\ ms[i] # Failed
  BY <1>2 DEF Range
<1>4. \A i \in DOMAIN s : ms[i] \in Matcher /\ ms[i].name = s[i].name
  BY <1>1, <1>3, GatewayMatcherRead
<1>5. ms = [i \in 1..Len(s) |-> ms[i]]
  BY <1>1
<1> HIDE DEF ms
<1>6. ms \in Seq(Matcher) /\ DOMAIN ms = DOMAIN s
  BY <1>1, <1>4, <1>5, ListIsSequence
<1> QED  BY <1>2, <1>4, <1>6

LEMMA GatewayMatchersWritten ==
    ASSUME NEW s \in Seq(Matcher)
    PROVE  LET gs == Mapped(s, MatcherToGateway)
           IN  /\ gs \in Seq(GatewayMatcher) /\ DOMAIN gs = DOMAIN s
               /\ Parsed(gs, MatcherFromGateway) \in {s, Failed}
<1> DEFINE gs == [i \in DOMAIN s |-> MatcherToGateway(s[i])]
           ms == [i \in DOMAIN gs |-> MatcherFromGateway(gs[i])]
<1>1. /\ DOMAIN s = 1..Len(s) /\ Len(s) \in Nat /\ \A i \in DOMAIN s : s[i] \in Matcher
      /\ s = [i \in DOMAIN s |-> s[i]]
  OBVIOUS
<1>2. Mapped(s, MatcherToGateway) = gs
  BY DEF Mapped
<1>3. Parsed(gs, MatcherFromGateway) \in {ms, Failed}
  BY DEF Parsed, Results, Mapped
<1>4. \A i \in DOMAIN s : /\ gs[i] \in GatewayMatcher
                          /\ MatcherFromGateway(gs[i]) = s[i]
  BY <1>1, GatewayMatcherWritten
<1>5. gs = [i \in 1..Len(s) |-> gs[i]] /\ DOMAIN gs = DOMAIN s
  BY <1>1
<1>6. ms = s
  BY <1>1, <1>4, <1>5
<1> HIDE DEF gs, ms
<1>7. gs \in Seq(GatewayMatcher) /\ DOMAIN gs = DOMAIN s
  BY <1>1, <1>4, <1>5, ListIsSequence
<1> QED  BY <1>2, <1>3, <1>6, <1>7

PlainGateway(g) == \A h \in Range(g.headers) : h.name # METHOD

\* RouteMatch::from_gateway.
LEMMA GatewayMatchRead ==
    ASSUME NEW g \in GatewayMatch, MatchFromGateway(g) # Failed
    PROVE  LET m == MatchFromGateway(g)
           IN  m \in RouteMatch /\ (PlainGateway(g) => PlainMatch(m))
<1> DEFINE path == IF g.path = None THEN None ELSE PathFromGateway(g.path)
           headers == Parsed(g.headers, MatcherFromGateway)
           query == Parsed(g.query, MatcherFromGateway)
           m == MatchFromGateway(g)
<1>1. /\ g.path \in GatewayPath \cup {None} /\ g.method \in Text \cup {None}
      /\ g.headers \in Seq(GatewayMatcher) /\ g.query \in Seq(GatewayMatcher)
  BY DEF GatewayMatch
<1>2. /\ path # Failed /\ headers # Failed /\ query # Failed
      /\ m = [method |-> g.method, path |-> path, headers |-> headers, query |-> query]
  BY DEF MatchFromGateway
<1>3. path \in PathMatch \cup {None}
  BY <1>1, <1>2, GatewayPathRead
<1>4. /\ headers \in Seq(Matcher) /\ query \in Seq(Matcher) /\ DOMAIN headers = DOMAIN g.headers
      /\ \A i \in DOMAIN g.headers : headers[i].name = g.headers[i].name
  BY <1>1, <1>2, GatewayMatchersRead
<1> HIDE DEF m, path, headers, query
<1>5. m \in RouteMatch /\ m.headers = headers
  BY <1>1, <1>2, <1>3, <1>4 DEF RouteMatch
<1>6. PlainGateway(g) => PlainMatch(m)
  BY <1>4, <1>5 DEF PlainGateway, PlainMatch, Range
<1> QED  BY <1>5, <1>6 DEF m

\* RouteMatch::to_gateway.
LEMMA GatewayMatchWritten ==
    ASSUME NEW m \in RouteMatch, MatchToGateway(m) # Failed
    PROVE  LET g == MatchToGateway(m)
           IN  /\ g \in GatewayMatch /\ (PlainMatch(m) => PlainGateway(g))
               /\ MatchFromGateway(g) \in {m, Failed}
<1> DEFINE path == IF m.path = None THEN None ELSE PathToGateway(m.path)
           headers == Mapped(m.headers, MatcherToGateway)
           query == Mapped(m.query, MatcherToGateway)
           g == MatchToGateway(m)
<1>1. /\ m.path \in PathMatch \cup {None} /\ m.method \in Text \cup {None}
      /\ m.headers \in Seq(Matcher) /\ m.query \in Seq(Matcher)
      /\ m = [path |-> m.path, method |-> m.method, headers |-> m.headers, query |-> m.query]
  BY DEF RouteMatch
<1>2. g = [method |-> m.method, path |-> path, headers |-> headers, query |-> query]
  BY DEF MatchToGateway
<1>3. /\ path \in GatewayPath \cup {None}
      /\ (IF path = None THEN None ELSE PathFromGateway(path)) = m.path
  BY <1>1, GatewayPathWritten
<1>4. /\ headers \in Seq(GatewayMatcher) /\ query \in Seq(GatewayMatcher)
      /\ DOMAIN headers = DOMAIN m.headers
      /\ Parsed(headers, MatcherFromGateway) \in {m.headers, Failed}
      /\ Parsed(query, MatcherFromGateway) \in {m.query, Failed}
  BY <1>1, GatewayMatchersWritten
<1>5. \A i \in DOMAIN m.headers : headers[i].name = m.headers[i].name
  <2> TAKE i \in DOMAIN m.headers
  <2>1. headers[i] = MatcherToGateway(m.headers[i])
    BY DEF Mapped
  <2>2. m.headers[i] \in Matcher
    BY <1>1
  <2> QED  BY <2>1, <2>2, GatewayMatcherWritten
<1> HIDE DEF g, path, headers, query
<1>6. /\ g \in GatewayMatch /\ g.headers = headers /\ g.query = query /\ g.path = path
      /\ g.method = m.method
  BY <1>1, <1>2, <1>3, <1>4 DEF GatewayMatch
<1>7. PlainMatch(m) => PlainGateway(g)
  BY <1>4, <1>5, <1>6 DEF PlainGateway, PlainMatch, Range
<1>8. MatchFromGateway(g) \in {m, Failed}
  <2> DEFINE back == MatchFromGateway(g)
  <2>1. SUFFICES ASSUME back # Failed  PROVE back = m
    OBVIOUS
  <2>2. /\ Parsed(headers, MatcherFromGateway) # Failed /\ Parsed(query, MatcherFromGateway) # Failed
        /\ back = [method |-> m.method, path |-> m.path,
                   headers |-> Parsed(headers, MatcherFromGateway),
                   query |-> Parsed(query, MatcherFromGateway)]
    BY <1>3, <1>6, <2>1 DEF MatchFromGateway
  <2> HIDE DEF back
  <2> QED  BY <1>1, <1>4, <2>2
<1> QED  BY <1>6, <1>7, <1>8 DEF g

LEMMA GatewayTimeouts ==
    ASSUME NEW t \in RouteTimeouts, TimeoutsToGateway(t) # Failed
    PROVE  TimeoutsToGateway(t) = t
BY DEF TimeoutsToGateway, SerializeDuration, RouteTimeouts

LEMMA GatewayRetryWritten ==
    ASSUME NEW r \in RouteRetry, RetryToGateway(r) # Failed
    PROVE  LET g == RetryToGateway(r)
           IN  g \in GatewayRetry /\ RetryFromGateway(g) \in {r, Failed}
<1> DEFINE codes == IF r.codes = <<>> THEN None ELSE r.codes
           g == RetryToGateway(r)
<1>1. /\ r.codes \in Seq(Port) /\ r.attempts \in 0..MaxU32 \cup {None} /\ r.backoff \in Nat \cup {None}
      /\ r = [codes |-> r.codes, attempts |-> r.attempts, backoff |-> r.backoff]
      /\ MaxU32 \in Nat /\ None \notin Seq(Port)
  BY BackendConstants DEF RouteRetry
<1>2. g = [codes |-> codes, attempts |-> r.attempts, backoff |-> r.backoff]
  BY <1>1 DEF RetryToGateway
<1>3. codes \in Seq(Int) \cup {None} /\ OrElse(codes, <<>>) = r.codes
  <2>1. Port \subseteq Int
    BY NameConstants DEF Port
  <2>2. r.codes \in Seq(Int)
    BY <1>1, <2>1, SequenceOfMore
  <2> QED  BY <1>1, <2>2 DEF OrElse
<1> HIDE DEF g, codes
<1>4. r.attempts \in Int \cup {None}
  BY <1>1
<1>5. g \in GatewayRetry
  BY <1>1, <1>2, <1>3, <1>4 DEF GatewayRetry
<1>6. RetryFromGateway(g) \in {[g EXCEPT !.codes = r.codes], Failed}
  BY <1>2, <1>3 DEF RetryFromGateway
<1>7. [g EXCEPT !.codes = r.codes] = r
  BY <1>1, <1>2
<1> QED  BY <1>5, <1>6, <1>7 DEF g

LEMMA GatewayRetryRead ==
    ASSUME NEW g \in GatewayRetry, RetryFromGateway(g) # Failed
    PROVE  RetryFromGateway(g) \in RouteRetry
<1> DEFINE codes == OrElse(g.codes, <<>>)
<1>1. /\ g.codes \in Seq(Int) \cup {None} /\ g.backoff \in Nat \cup {None}
      /\ g = [codes |-> g.codes, attempts |-> g.attempts, backoff |-> g.backoff]
  BY DEF GatewayRetry
<1>2. /\ Range(codes) \subseteq Port /\ g.attempts \in 0..MaxU32 \cup {None}
      /\ RetryFromGateway(g) = [g EXCEPT !.codes = codes]
  BY DEF RetryFromGateway
<1>3. codes \in Seq(Int)
  <2>1. <<>> \in Seq(Int)
    OBVIOUS
  <2> QED  BY <1>1, <2>1 DEF OrElse
<1> HIDE DEF codes
<1>4. codes \in Seq(Port)
  <2>1. /\ codes = [i \in 1..Len(codes) |-> codes[i]] /\ Len(codes) \in Nat
        /\ \A i \in 1..Len(codes) : codes[i] \in Port
    BY <1>2, <1>3 DEF Range
  <2> QED  BY <2>1, ListIsSequence
<1>5. RetryFromGateway(g) = [codes |-> codes, attempts |-> g.attempts, backoff |-> g.backoff]
  BY <1>1, <1>2
<1> QED  BY <1>1, <1>2, <1>4, <1>5 DEF RouteRetry

LEMMA KubeServiceIs ==
    ASSUME NEW namespace \in Label, NEW name \in Label, KubeService(namespace, name) # Failed
    PROVE  LET s == KubeService(namespace, name)
           IN  /\ s \in Service /\ s = [kind |-> "kube", name |-> name, namespace |-> namespace]
               /\ ValidHostname(ServiceName(s)) /\ ServiceName(s) \in Hostname
<1> DEFINE s == KubeService(namespace, name)
<1>1. /\ ValidName(namespace) /\ ValidName(name)
      /\ s = [kind |-> "kube", name |-> name, namespace |-> namespace]
  BY DEF KubeService
<1>2. s \in Service
  BY <1>1 DEF Service
<1>3. ServiceName(s) = <<name, namespace>> \o SUBDOMAIN
  BY <1>1 DEF ServiceName
<1>4. name \in Name /\ namespace \in Name
  BY <1>1 DEF Name
<1>5. ValidHostname(<<name, namespace>> \o SUBDOMAIN)
  BY <1>4, TextConstants
<1>6. ServiceName(s) \in Hostname
  BY <1>2, ServiceNameType
<1> QED  BY <1>1, <1>2, <1>3, <1>5, <1>6

LEMMA KindsAreWords ==
    /\ None # "" /\ None # "Service" /\ None # "DNS" /\ None # "junctionlabs.io"
BY TextConstants, NoneIsApart

LEMMA GatewayBackendWritten ==
    ASSUME NEW b \in RouteBackend, BackendRefToGateway(b) # Failed, NEW namespace
    PROVE  LET ref == BackendRefToGateway(b)
           IN  /\ ref \in GatewayBackendRef
               /\ BackendRefFromGateway(namespace, ref) \in {b, Failed}
<1> DEFINE ref == BackendRefToGateway(b)
           s == b.service
           to == ServiceRef(s, b.port)
<1>1. /\ s \in Service /\ b.port \in Port /\ b.weight \in 0..MaxU32 /\ b.weight <= MaxI32
      /\ b = [service |-> s, port |-> b.port, weight |-> b.weight]
      /\ ref = [group |-> to.group, kind |-> to.kind, name |-> to.name,
                namespace |-> to.namespace, port |-> b.port, weight |-> b.weight]
  <2>1. b.port # None /\ ~(b.weight > MaxI32)
    BY DEF BackendRefToGateway
  <2>2. to.port = b.port
    BY DEF ServiceRef
  <2>3. /\ b.service \in Service /\ b.port \in Port \cup {None} /\ b.weight \in 0..MaxU32
        /\ b = [service |-> s, port |-> b.port, weight |-> b.weight]
    BY DEF RouteBackend
  <2>4. MaxU32 \in Nat /\ MaxI32 \in Nat
    BY BackendConstants DEF MaxI32
  <2> QED  BY <2>1, <2>2, <2>3, <2>4 DEF BackendRefToGateway
<1>2. /\ b.weight \in (0 - MaxI32 - 1)..MaxI32 /\ b.weight >= 0 /\ b.port \in Int
      /\ MaxI32 \in Nat
  BY <1>1, BackendConstants, NameConstants DEF MaxI32, Port
<1>3. /\ None \notin Int /\ None \notin Port
  BY NoneIsApart, <1>1, <1>2, NameConstants DEF Port
<1> HIDE DEF ref, to
<1>4. OrElse(ref.weight, 1) = b.weight /\ ref.port = b.port /\ b.port # None /\ ~BadPort(ref)
  BY <1>1, <1>2, <1>3 DEF OrElse, BadPort
<1>5. CASE s.kind = "kube"
  <2>1. s = [kind |-> "kube", name |-> s.name, namespace |-> s.namespace]
        /\ s.name \in Label /\ s.namespace \in Label
    BY <1>1, <1>5 DEF Service
  <2>2. to = [group |-> "", kind |-> "Service", name |-> <<s.name>>,
              namespace |-> s.namespace, port |-> b.port]
    BY <1>5, <2>1 DEF ServiceRef, to
  <2>3. ref = [group |-> "", kind |-> "Service", name |-> <<s.name>>,
               namespace |-> s.namespace, port |-> b.port, weight |-> b.weight]
    BY <1>1, <2>2
  <2>4. /\ <<s.name>> \in Hostname /\ Len(<<s.name>>) = 1 /\ (<<s.name>>)[1] = s.name
        /\ "" \in Word /\ "Service" \in Word
    <3>1. "" \in Word /\ "Service" \in Word
      BY TextConstants
    <3>2. <<s.name>> \in Seq(Label)
      BY <2>1
    <3> QED  BY <3>1, <3>2 DEF Hostname
  <2>5. ref \in GatewayBackendRef
    BY <1>2, <2>1, <2>3, <2>4 DEF GatewayBackendRef
  <2>6. None \notin Label
    BY BackendConstants
  <2>7. KubeServiceOf(ref, namespace) = KubeService(s.namespace, s.name)
    BY <2>1, <2>3, <2>4, <2>6 DEF KubeServiceOf, OrElse
  <2>8. KubeService(s.namespace, s.name) \in {s, Failed}
    BY <2>1 DEF KubeService
  <2>9. OrElse(ref.group, "") = "" /\ OrElse(ref.kind, "Service") = "Service"
    BY <2>3 DEF OrElse
  <2>10. BackendRefFromGateway(namespace, ref) \in
             {BackendRef(KubeService(s.namespace, s.name), b.port, b.weight), Failed}
         /\ (KubeService(s.namespace, s.name) = Failed
               => BackendRefFromGateway(namespace, ref) = Failed)
    BY <1>4, <2>7, <2>9 DEF BackendRefFromGateway
  <2> QED  BY <1>1, <2>5, <2>8, <2>10 DEF BackendRef, ref
<1>6. CASE s.kind # "kube"
  <2>1. s = [kind |-> "dns", hostname |-> s.hostname] /\ s.hostname \in Hostname
    BY <1>1, <1>6 DEF Service
  <2>2. to = [group |-> "junctionlabs.io", kind |-> "DNS", name |-> s.hostname,
              namespace |-> None, port |-> b.port]
    <3>1. s.kind = "dns"
      BY <2>1
    <3> QED  BY <3>1 DEF ServiceRef, to
  <2>3. ref = [group |-> "junctionlabs.io", kind |-> "DNS", name |-> s.hostname,
               namespace |-> None, port |-> b.port, weight |-> b.weight]
    BY <1>1, <2>2
  <2>4. "junctionlabs.io" \in Word /\ "DNS" \in Word
    BY TextConstants
  <2>5. ref \in GatewayBackendRef
    BY <1>2, <2>1, <2>3, <2>4 DEF GatewayBackendRef
  <2>6. OrElse(ref.group, "") = "junctionlabs.io" /\ OrElse(ref.kind, "Service") = "DNS"
    BY <2>3, KindsAreWords DEF OrElse
  <2>7. DnsService(ref.name) \in {s, Failed}
    BY <2>1, <2>3 DEF DnsService
  <2>8. BackendRefFromGateway(namespace, ref) \in {BackendRef(DnsService(ref.name), b.port, b.weight), Failed}
        /\ (DnsService(ref.name) = Failed => BackendRefFromGateway(namespace, ref) = Failed)
    BY <1>4, <2>6 DEF BackendRefFromGateway
  <2> QED  BY <1>1, <2>5, <2>7, <2>8 DEF BackendRef, ref
<1> QED  BY <1>5, <1>6

LEMMA GatewayBackendRead ==
    ASSUME NEW ref \in GatewayBackendRef, NEW namespace \in Label,
           BackendRefFromGateway(namespace, ref) # Failed
    PROVE  BackendRefFromGateway(namespace, ref) \in RouteBackend
<1> DEFINE group == OrElse(ref.group, "")
           kind == OrElse(ref.kind, "Service")
           weight == OrElse(ref.weight, 1)
           service == CASE <<group, kind>> = <<"junctionlabs.io", "DNS">> ->
                              DnsService(ref.name)
                        [] <<group, kind>> = <<"", "Service">> ->
                              KubeServiceOf(ref, namespace)
                        [] OTHER -> Failed
<1>1. /\ ref.name \in Hostname /\ ref.namespace \in Label \cup {None}
      /\ ref.port \in Int \cup {None} /\ ref.weight \in (0 - MaxI32 - 1)..MaxI32 \cup {None}
  BY DEF GatewayBackendRef
<1>2. /\ ~(weight < 0) /\ ref.port # None /\ ~BadPort(ref) /\ service # Failed
      /\ BackendRefFromGateway(namespace, ref)
           = [service |-> service, port |-> ref.port, weight |-> weight]
  BY DEF BackendRefFromGateway, BackendRef
<1>0. /\ service \in {DnsService(ref.name), KubeServiceOf(ref, namespace), Failed}
      /\ weight = IF ref.weight = None THEN 1 ELSE ref.weight
  BY DEF OrElse
<1> HIDE DEF group, kind, weight, service
<1>3. service \in Service
  <2>1. CASE service = DnsService(ref.name)
    BY <1>1, <1>2, <2>1 DEF DnsService, Service
  <2>2. CASE service = KubeServiceOf(ref, namespace)
    <3>1. /\ Len(ref.name) = 1
          /\ service = KubeService(OrElse(ref.namespace, namespace), ref.name[1])
      BY <1>2, <2>2 DEF KubeServiceOf
    <3>2. OrElse(ref.namespace, namespace) \in Label
      BY <1>1 DEF OrElse
    <3>3. ref.name[1] \in Label
      <4>1. ref.name \in Seq(Label)
        BY <1>1 DEF Hostname
      <4> QED  BY <3>1, <4>1
    <3> QED  BY <1>2, <3>1, <3>2, <3>3, KubeServiceIs
  <2> QED  BY <1>0, <1>2, <2>1, <2>2
<1>4. weight \in 0..MaxU32
  <2>1. MaxU32 \in Nat /\ MaxU32 # 0
    BY BackendConstants
  <2>2. MaxI32 \in Nat /\ MaxI32 <= MaxU32
    BY <2>1 DEF MaxI32
  <2> QED  BY <1>0, <1>1, <1>2, <2>1, <2>2
<1>5. ref.port \in Port
  BY <1>2 DEF BadPort
<1> QED  BY <1>2, <1>3, <1>4, <1>5 DEF RouteBackend

LEMMA GatewayMatchesWritten ==
    ASSUME NEW s \in Seq(RouteMatch), Parsed(s, MatchToGateway) # Failed
    PROVE  LET gs == Parsed(s, MatchToGateway)
           IN  /\ gs \in Seq(GatewayMatch)
               /\ (\A m \in Range(s) : PlainMatch(m)) => \A g \in Range(gs) : PlainGateway(g)
               /\ Parsed(gs, MatchFromGateway) \in {s, Failed}
<1> DEFINE gs == [i \in DOMAIN s |-> MatchToGateway(s[i])]
           ms == [i \in DOMAIN gs |-> MatchFromGateway(gs[i])]
<1>1. /\ DOMAIN s = 1..Len(s) /\ Len(s) \in Nat /\ \A i \in DOMAIN s : s[i] \in RouteMatch
      /\ s = [i \in DOMAIN s |-> s[i]]
  OBVIOUS
<1>2. Parsed(s, MatchToGateway) = gs /\ Failed \notin Range(gs)
  BY DEF Parsed, Results, Mapped
<1>3. Parsed(gs, MatchFromGateway) \in {ms, Failed} /\ (Failed \in Range(ms) => Parsed(gs, MatchFromGateway) = Failed)
  BY DEF Parsed, Results, Mapped
<1>4. \A i \in DOMAIN s : gs[i] = MatchToGateway(s[i]) /\ gs[i] # Failed
  BY <1>2 DEF Range
<1>5. \A i \in DOMAIN s : /\ gs[i] \in GatewayMatch
                          /\ PlainMatch(s[i]) => PlainGateway(gs[i])
                          /\ MatchFromGateway(gs[i]) \in {s[i], Failed}
  BY <1>1, <1>4, GatewayMatchWritten
<1>6. gs = [i \in 1..Len(s) |-> gs[i]] /\ DOMAIN gs = DOMAIN s /\ DOMAIN ms = DOMAIN s
  BY <1>1
<1>7. \A i \in DOMAIN s : ms[i] \in {s[i], Failed}
  BY <1>5, <1>6
<1>8. ms = [i \in DOMAIN s |-> ms[i]]
  BY <1>6
<1> HIDE DEF gs, ms
<1>9. gs \in Seq(GatewayMatch)
  BY <1>1, <1>5, <1>6, ListIsSequence
<1>10. Failed \in Range(ms) \/ ms = s
  <2>1. SUFFICES ASSUME Failed \notin Range(ms)  PROVE ms = s
    OBVIOUS
  <2>2. \A i \in DOMAIN s : ms[i] = s[i]
    BY <1>6, <1>7, <2>1 DEF Range
  <2> QED  BY <1>1, <1>8, <2>2
<1>11. (\A m \in Range(s) : PlainMatch(m)) => \A g \in Range(gs) : PlainGateway(g)
  BY <1>5, <1>6 DEF Range
<1> QED  BY <1>2, <1>3, <1>9, <1>10, <1>11

LEMMA GatewayMatchesRead ==
    ASSUME NEW s \in Seq(GatewayMatch), Parsed(s, MatchFromGateway) # Failed
    PROVE  LET ms == Parsed(s, MatchFromGateway)
           IN  /\ ms \in Seq(RouteMatch)
               /\ (\A g \in Range(s) : PlainGateway(g)) => \A m \in Range(ms) : PlainMatch(m)
<1> DEFINE ms == [i \in DOMAIN s |-> MatchFromGateway(s[i])]
<1>1. DOMAIN s = 1..Len(s) /\ Len(s) \in Nat /\ \A i \in DOMAIN s : s[i] \in GatewayMatch
  OBVIOUS
<1>2. Parsed(s, MatchFromGateway) = ms /\ Failed \notin Range(ms)
  BY DEF Parsed, Results, Mapped
<1>3. \A i \in DOMAIN s : ms[i] = MatchFromGateway(s[i]) /\ ms[i] # Failed
  BY <1>2 DEF Range
<1>4. \A i \in DOMAIN s : ms[i] \in RouteMatch /\ (PlainGateway(s[i]) => PlainMatch(ms[i]))
  BY <1>1, <1>3, GatewayMatchRead
<1>5. ms = [i \in 1..Len(s) |-> ms[i]] /\ DOMAIN ms = DOMAIN s
  BY <1>1
<1> HIDE DEF ms
<1>6. ms \in Seq(RouteMatch)
  BY <1>1, <1>4, <1>5, ListIsSequence
<1>7. (\A g \in Range(s) : PlainGateway(g)) => \A m \in Range(ms) : PlainMatch(m)
  BY <1>4, <1>5 DEF Range
<1> QED  BY <1>2, <1>6, <1>7

LEMMA GatewayBackendsWritten ==
    ASSUME NEW s \in Seq(RouteBackend), Parsed(s, BackendRefToGateway) # Failed, NEW namespace
    PROVE  LET gs == Parsed(s, BackendRefToGateway)
           IN  /\ gs \in Seq(GatewayBackendRef)
               /\ LET bs == [i \in DOMAIN gs |-> BackendRefFromGateway(namespace, gs[i])]
                  IN  Failed \in Range(bs) \/ bs = s
<1> DEFINE gs == [i \in DOMAIN s |-> BackendRefToGateway(s[i])]
           bs == [i \in DOMAIN gs |-> BackendRefFromGateway(namespace, gs[i])]
<1>1. /\ DOMAIN s = 1..Len(s) /\ Len(s) \in Nat /\ \A i \in DOMAIN s : s[i] \in RouteBackend
      /\ s = [i \in DOMAIN s |-> s[i]]
  OBVIOUS
<1>2. Parsed(s, BackendRefToGateway) = gs /\ Failed \notin Range(gs)
  BY DEF Parsed, Results, Mapped
<1>4. \A i \in DOMAIN s : gs[i] = BackendRefToGateway(s[i]) /\ gs[i] # Failed
  BY <1>2 DEF Range
<1>5. \A i \in DOMAIN s : /\ gs[i] \in GatewayBackendRef
                          /\ BackendRefFromGateway(namespace, gs[i]) \in {s[i], Failed}
  BY <1>1, <1>4, GatewayBackendWritten
<1>6. gs = [i \in 1..Len(s) |-> gs[i]] /\ DOMAIN gs = DOMAIN s /\ DOMAIN bs = DOMAIN s
  BY <1>1
<1>7. \A i \in DOMAIN s : bs[i] \in {s[i], Failed}
  BY <1>5, <1>6
<1>8. bs = [i \in DOMAIN s |-> bs[i]]
  BY <1>6
<1> HIDE DEF bs
<1>10. Failed \in Range(bs) \/ bs = s
  <2>1. SUFFICES ASSUME Failed \notin Range(bs)  PROVE bs = s
    OBVIOUS
  <2>2. \A i \in DOMAIN s : bs[i] = s[i]
    BY <1>6, <1>7, <2>1 DEF Range
  <2> QED  BY <1>1, <1>8, <2>2
<1>11. gs \in Seq(GatewayBackendRef)
  <2> HIDE DEF gs
  <2> QED  BY <1>1, <1>5, <1>6, ListIsSequence
<1> QED  BY <1>2, <1>10, <1>11 DEF bs

LEMMA GatewayBackendsRead ==
    ASSUME NEW s \in Seq(GatewayBackendRef), NEW namespace \in Label,
           Parsed(s, LAMBDA ref : BackendRefFromGateway(namespace, ref)) # Failed
    PROVE  Parsed(s, LAMBDA ref : BackendRefFromGateway(namespace, ref)) \in Seq(RouteBackend)
<1> DEFINE bs == [i \in DOMAIN s |-> BackendRefFromGateway(namespace, s[i])]
           back == Parsed(s, LAMBDA ref : BackendRefFromGateway(namespace, ref))
<1>1. DOMAIN s = 1..Len(s) /\ Len(s) \in Nat /\ \A i \in DOMAIN s : s[i] \in GatewayBackendRef
  OBVIOUS
<1>2. back = bs /\ Failed \notin Range(bs)
  BY DEF Parsed, Results, Mapped
<1>3. \A i \in DOMAIN s : bs[i] = BackendRefFromGateway(namespace, s[i]) /\ bs[i] # Failed
  BY <1>2 DEF Range
<1>4. \A i \in DOMAIN s : bs[i] \in RouteBackend
  BY <1>1, <1>3, GatewayBackendRead
<1>5. bs = [i \in 1..Len(s) |-> bs[i]]
  BY <1>1
<1> HIDE DEF bs
<1>6. bs \in Seq(RouteBackend)
  BY <1>1, <1>4, <1>5, ListIsSequence
<1> QED  BY <1>2, <1>6

LEMMA RuleOfIs ==
    ASSUME NEW name, NEW matches, NEW timeouts, NEW retry, NEW backends
    PROVE  LET rule == [name |-> name, matches |-> matches, filters |-> <<>>,
                        timeouts |-> timeouts, retry |-> retry, backends |-> backends]
           IN  /\ RuleOf(name, matches, timeouts, retry, backends) \in {rule, Failed}
               /\ RuleOf(name, matches, timeouts, retry, backends) # Failed =>
                     /\ name # Failed /\ matches # Failed /\ timeouts # Failed
                     /\ retry # Failed /\ backends # Failed
BY DEF RuleOf, AnyRule

PlainGatewayRule(g) == \A m \in Range(g.matches) : PlainGateway(m)

\* A rule that was read has no filters.
Unfiltered(rule) == [rule EXCEPT !.filters = <<>>]

\* RouteRule::to_gateway.
LEMMA GatewayRuleWritten ==
    ASSUME NEW rule \in RouteRule, RuleToGateway(rule) # Failed, NEW namespace
    PROVE  LET g == RuleToGateway(rule)
           IN  /\ g \in GatewayRule /\ (PlainRule(rule) => PlainGatewayRule(g))
               /\ RuleFromGateway(namespace, g) \in {Unfiltered(rule), Failed}
<1> DEFINE matches == Parsed(rule.matches, MatchToGateway)
           timeouts == Optional(rule.timeouts, TimeoutsToGateway)
           retry == Optional(rule.retry, RetryToGateway)
           backends == Parsed(rule.backends, BackendRefToGateway)
           g == RuleToGateway(rule)
<1>1. /\ rule.name \in Name \cup {None} /\ rule.matches \in Seq(RouteMatch)
      /\ rule.timeouts \in RouteTimeouts \cup {None} /\ rule.retry \in RouteRetry \cup {None}
      /\ rule.backends \in Seq(RouteBackend)
      /\ rule = [name |-> rule.name, matches |-> rule.matches, filters |-> rule.filters,
                 timeouts |-> rule.timeouts, retry |-> rule.retry, backends |-> rule.backends]
  BY DEF RouteRule
<1>2. g = RuleOf(rule.name, matches, timeouts, retry, backends)
  BY DEF RuleToGateway
<1> HIDE DEF g, matches, timeouts, retry, backends
<1>3. /\ matches # Failed /\ timeouts # Failed /\ retry # Failed /\ backends # Failed
      /\ g = [name |-> rule.name, matches |-> matches, filters |-> <<>>,
              timeouts |-> timeouts, retry |-> retry, backends |-> backends]
  <2>1. g # Failed
    BY DEF g
  <2> QED  BY <1>2, <2>1, RuleOfIs
<1>4. /\ matches \in Seq(GatewayMatch)
      /\ (\A m \in Range(rule.matches) : PlainMatch(m)) => \A m \in Range(matches) : PlainGateway(m)
      /\ Parsed(matches, MatchFromGateway) \in {rule.matches, Failed}
  BY <1>1, <1>3, GatewayMatchesWritten DEF matches
<1>5. timeouts = rule.timeouts
  BY <1>1, <1>3, GatewayTimeouts DEF timeouts, Optional
<1>6. /\ retry \in GatewayRetry \cup {None}
      /\ Optional(retry, RetryFromGateway) \in {rule.retry, Failed}
  <2>1. CASE rule.retry = None
    BY <2>1 DEF retry, Optional
  <2>2. CASE rule.retry # None
    <3>1. rule.retry \in RouteRetry /\ retry = RetryToGateway(rule.retry)
      BY <1>1, <2>2 DEF retry, Optional
    <3>2. retry \in GatewayRetry /\ RetryFromGateway(retry) \in {rule.retry, Failed}
      BY <1>3, <3>1, GatewayRetryWritten
    <3>3. retry # None
      BY <3>2, NoneIsApart
    <3> QED  BY <3>2, <3>3 DEF Optional
  <2> QED  BY <2>1, <2>2
<1>7. /\ backends \in Seq(GatewayBackendRef)
      /\ Parsed(backends, LAMBDA ref : BackendRefFromGateway(namespace, ref))
            \in {rule.backends, Failed}
  <2>1. Parsed(rule.backends, BackendRefToGateway) # Failed
    BY <1>3 DEF backends
  <2>2. rule.backends \in Seq(RouteBackend)
    BY <1>1
  <2> DEFINE bs == [i \in DOMAIN backends |-> BackendRefFromGateway(namespace, backends[i])]
  <2>3. backends \in Seq(GatewayBackendRef) /\ (Failed \in Range(bs) \/ bs = rule.backends)
    BY <2>1, <2>2, GatewayBackendsWritten DEF backends
  <2>4. Parsed(backends, LAMBDA ref : BackendRefFromGateway(namespace, ref))
          = IF Failed \in Range(bs) THEN Failed ELSE bs
    BY DEF Parsed, Results, Mapped
  <2> HIDE DEF bs
  <2> QED  BY <2>3, <2>4
<1>8. rule.name \in Label \cup {None} /\ Optional(rule.name, NameFromStr) = rule.name
  BY <1>1 DEF Name, Optional, NameFromStr
<1>9. g \in GatewayRule
  <2>1. <<>> \in Seq(Word)
    OBVIOUS
  <2> QED  BY <1>1, <1>3, <1>4, <1>5, <1>6, <1>7, <1>8, <2>1 DEF GatewayRule
<1>10. /\ g.name = rule.name /\ g.matches = matches /\ g.timeouts = timeouts
       /\ g.retry = retry /\ g.backends = backends
  BY <1>3
<1>11. PlainRule(rule) => PlainGatewayRule(g)
  BY <1>4, <1>10 DEF PlainRule, PlainGatewayRule
<1>12. RuleFromGateway(namespace, g) \in {Unfiltered(rule), Failed}
  <2> DEFINE ms == Parsed(matches, MatchFromGateway)
             t == Optional(timeouts, TimeoutsFromGateway)
             r == Optional(retry, RetryFromGateway)
             b == Parsed(backends, LAMBDA ref : BackendRefFromGateway(namespace, ref))
             back == RuleFromGateway(namespace, g)
  <2>1. SUFFICES ASSUME back # Failed  PROVE back = Unfiltered(rule)
    OBVIOUS
  <2>2. back = RuleOf(rule.name, ms, t, r, b)
    BY <1>8, <1>10 DEF RuleFromGateway
  <2>3. t \in {rule.timeouts, Failed}
    BY <1>1, <1>5, GatewayTimeouts DEF Optional, TimeoutsFromGateway
  <2>4. ms \in {rule.matches, Failed} /\ r \in {rule.retry, Failed} /\ b \in {rule.backends, Failed}
    BY <1>4, <1>6, <1>7
  <2> HIDE DEF ms, t, r, b, back
  <2>5. /\ ms # Failed /\ t # Failed /\ r # Failed /\ b # Failed
        /\ back = [name |-> rule.name, matches |-> ms, filters |-> <<>>,
                   timeouts |-> t, retry |-> r, backends |-> b]
    BY <2>1, <2>2, RuleOfIs
  <2>6. back = [name |-> rule.name, matches |-> rule.matches, filters |-> <<>>,
                timeouts |-> rule.timeouts, retry |-> rule.retry, backends |-> rule.backends]
    BY <2>3, <2>4, <2>5
  <2> QED  BY <1>1, <2>6 DEF Unfiltered
<1> QED  BY <1>9, <1>11, <1>12 DEF g

\* RouteRule::from_gateway.
LEMMA GatewayRuleRead ==
    ASSUME NEW g \in GatewayRule, NEW namespace \in Label, RuleFromGateway(namespace, g) # Failed
    PROVE  LET rule == RuleFromGateway(namespace, g)
           IN  rule \in RouteRule /\ (PlainGatewayRule(g) => PlainRule(rule))
<1> DEFINE name == Optional(g.name, NameFromStr)
           matches == Parsed(g.matches, MatchFromGateway)
           timeouts == Optional(g.timeouts, TimeoutsFromGateway)
           retry == Optional(g.retry, RetryFromGateway)
           backends == Parsed(g.backends, LAMBDA ref : BackendRefFromGateway(namespace, ref))
           rule == RuleFromGateway(namespace, g)
<1>1. /\ g.name \in Label \cup {None} /\ g.matches \in Seq(GatewayMatch)
      /\ g.timeouts \in RouteTimeouts \cup {None} /\ g.retry \in GatewayRetry \cup {None}
      /\ g.backends \in Seq(GatewayBackendRef)
  BY DEF GatewayRule
<1>2. rule = RuleOf(name, matches, timeouts, retry, backends)
  BY DEF RuleFromGateway
<1> HIDE DEF rule, name, matches, timeouts, retry, backends
<1>3. /\ name # Failed /\ matches # Failed /\ timeouts # Failed /\ retry # Failed
      /\ backends # Failed
      /\ rule = [name |-> name, matches |-> matches, filters |-> <<>>,
                 timeouts |-> timeouts, retry |-> retry, backends |-> backends]
  <2>1. rule # Failed
    BY DEF rule
  <2> QED  BY <1>2, <2>1, RuleOfIs
<1>4. name \in Name \cup {None}
  BY <1>1, <1>3 DEF name, Optional, NameFromStr, Name
<1>5. /\ matches \in Seq(RouteMatch)
      /\ (\A m \in Range(g.matches) : PlainGateway(m)) => \A m \in Range(matches) : PlainMatch(m)
  BY <1>1, <1>3, GatewayMatchesRead DEF matches
<1>6. timeouts \in RouteTimeouts \cup {None}
  BY <1>1, <1>3, GatewayTimeouts DEF timeouts, Optional, TimeoutsFromGateway
<1>7. retry \in RouteRetry \cup {None}
  BY <1>1, <1>3, GatewayRetryRead DEF retry, Optional
<1>8. backends \in Seq(RouteBackend)
  BY <1>1, <1>3, GatewayBackendsRead DEF backends
<1>9. rule \in RouteRule
  <2>1. <<>> \in Seq(Word)
    OBVIOUS
  <2> QED  BY <1>3, <1>4, <1>5, <1>6, <1>7, <1>8, <2>1 DEF RouteRule
<1>10. PlainGatewayRule(g) => PlainRule(rule)
  <2>1. rule.matches = matches
    BY <1>3
  <2> QED  BY <1>5, <2>1 DEF PlainRule, PlainGatewayRule
<1> QED  BY <1>9, <1>10 DEF rule

LEMMA ParentWritten ==
    ASSUME NEW m \in HostnameMatch, ValidHostname(m.host), NEW port \in Port \cup {None},
           NEW namespace, HostnameToParent(m, port) # Failed
    PROVE  LET ref == HostnameToParent(m, port)
           IN  /\ ref \in ParentRef /\ ref.port = port
               /\ ParentHostname(ref, namespace) = m
<1> DEFINE ref == HostnameToParent(m, port)
           s == ServiceFromStr(m.host)
<1>1. /\ m.host \in Hostname /\ m.wild \in BOOLEAN /\ m = [wild |-> m.wild, host |-> m.host]
      /\ m.host \in Seq(Label) /\ Len(m.host) > 0 /\ Len(m.host) \in Nat /\ m.host[1] # "*"
  BY NoStar DEF HostnameMatch, Hostname
<1>2. /\ {"", "Service", "DNS", "junctionlabs.io"} \subseteq Word
      /\ port \in Int \cup {None} /\ None \notin Label
  <2>1. {"", "Service", "DNS", "junctionlabs.io"} \subseteq Word
    BY TextConstants
  <2>2. Port \subseteq Int
    BY NameConstants DEF Port
  <2>3. None \notin Label
    BY BackendConstants
  <2> QED  BY <2>1, <2>2, <2>3
<1>3. CASE m.wild
  <2> DEFINE name == <<"*">> \o m.host
  <2>1. ref = [group |-> "junctionlabs.io", kind |-> "DNS", name |-> name,
               namespace |-> None, port |-> port]
    BY <1>3 DEF HostnameToParent, HostnameMatchName
  <2>2. "*" \in Label
    BY NameConstants
  <2>3. name \in Seq(Label) /\ Len(name) = Len(m.host) + 1 /\ name[1] = "*" /\ Tail(name) = m.host
    BY <1>1, <2>2, ItemBefore
  <2> HIDE DEF name, ref
  <2>4. name \in Hostname
    BY <2>3 DEF Hostname
  <2>5. ref \in ParentRef
    BY <1>2, <2>1, <2>4 DEF ParentRef
  <2>6. HostnameMatchFromStr(name) = m
    <3> DEFINE wild == Len(name) > 1 /\ name[1] = "*"
               host == IF wild THEN Tail(name) ELSE name
    <3>1. wild = TRUE /\ host = m.host /\ m.wild = TRUE
      BY <1>1, <1>3, <2>3
    <3>2. HostnameMatchFromStr(name)
            = IF ValidHostname(host) THEN [wild |-> wild, host |-> host] ELSE Failed
      BY DEF HostnameMatchFromStr
    <3> HIDE DEF wild, host
    <3>3. HostnameMatchFromStr(name) = [wild |-> TRUE, host |-> m.host]
      BY <3>1, <3>2
    <3> QED  BY <1>1, <3>1, <3>3
  <2>7. ParentHostname(ref, namespace) = HostnameMatchFromStr(name)
    <3>1. /\ OrElse(ref.group, "gateway.networking.k8s.io") = "junctionlabs.io"
          /\ OrElse(ref.kind, "") = "DNS" /\ ref.name = name
      BY <2>1, KindsAreWords DEF OrElse
    <3> QED  BY <3>1 DEF ParentHostname
  <2>8. ref.port = port
    BY <2>1
  <2> QED  BY <2>5, <2>6, <2>7, <2>8 DEF ref
<1>4. CASE ~m.wild
  <2>1. /\ s # Failed /\ ref = ServiceRef(s, port)
    BY <1>4 DEF HostnameToParent
  <2>2. s \in Service /\ ServiceName(s) = m.host
    BY <1>1, <2>1, ServiceReadName
  <2>3. m = Exactly(m.host)
    BY <1>1, <1>4 DEF Exactly
  <2> HIDE DEF ref
  <2>4. CASE s.kind = "kube"
    <3>1. s = [kind |-> "kube", name |-> s.name, namespace |-> s.namespace]
          /\ s.name \in Label /\ s.namespace \in Label
      BY <2>2, <2>4 DEF Service
    <3>2. s = KubeService(s.namespace, s.name)
      <4>1. s = DnsService(m.host) \/ s = KubeService(m.host[2], m.host[1])
        BY <2>1 DEF ServiceFromStr
      <4>2. s = KubeService(m.host[2], m.host[1])
        <5>1. DnsService(m.host) \in {[kind |-> "dns", hostname |-> m.host], Failed}
          BY DEF DnsService
        <5> HIDE DEF s
        <5> QED  BY <2>1, <2>4, <4>1, <5>1 DEF s
      <4> DEFINE a == m.host[1]
                 b == m.host[2]
      <4> HIDE DEF s, a, b
      <4>3. s = [kind |-> "kube", name |-> a, namespace |-> b] /\ ValidName(a) /\ ValidName(b)
        BY <2>1, <4>2 DEF KubeService, s, a, b
      <4>4. s.name = a /\ s.namespace = b
        BY <4>3
      <4> QED  BY <4>3, <4>4 DEF KubeService
    <3> HIDE DEF s
    <3>3. ref = [group |-> "", kind |-> "Service", name |-> <<s.name>>,
                 namespace |-> s.namespace, port |-> port]
      BY <2>1, <2>4 DEF ServiceRef
    <3>4. <<s.name>> \in Hostname /\ Len(<<s.name>>) = 1 /\ (<<s.name>>)[1] = s.name
      <4>1. <<s.name>> \in Seq(Label)
        BY <3>1
      <4> QED  BY <4>1 DEF Hostname
    <3>5. ref \in ParentRef
      BY <1>2, <3>1, <3>3, <3>4 DEF ParentRef
    <3>6. KubeServiceOf(ref, namespace) = s
      BY <1>2, <3>1, <3>2, <3>3, <3>4 DEF KubeServiceOf, OrElse
    <3>7. /\ OrElse(ref.group, "gateway.networking.k8s.io") = ""
          /\ OrElse(ref.kind, "") = "Service"
      BY <3>3, KindsAreWords DEF OrElse
    <3>8. ParentHostname(ref, namespace) = Exactly(ServiceName(s))
      BY <2>1, <3>6, <3>7 DEF ParentHostname
    <3>9. ref.port = port
      BY <3>3
    <3> QED  BY <2>2, <2>3, <3>5, <3>8, <3>9 DEF ref
  <2>5. CASE s.kind # "kube"
    <3>1. s = [kind |-> "dns", hostname |-> s.hostname] /\ s.hostname \in Hostname
      BY <2>2, <2>5 DEF Service
    <3>2. s.kind = "dns" /\ s.hostname = m.host
      BY <2>2, <3>1 DEF ServiceName
    <3> HIDE DEF s
    <3>3. ref = [group |-> "junctionlabs.io", kind |-> "DNS", name |-> m.host,
                 namespace |-> None, port |-> port]
      BY <2>1, <3>2 DEF ServiceRef
    <3>4. ref \in ParentRef
      BY <1>1, <1>2, <3>3 DEF ParentRef
    <3>5. HostnameMatchFromStr(m.host) = m
      BY <1>1, <1>4 DEF HostnameMatchFromStr
    <3>6. /\ OrElse(ref.group, "gateway.networking.k8s.io") = "junctionlabs.io"
          /\ OrElse(ref.kind, "") = "DNS" /\ ref.name = m.host /\ ref.port = port
      BY <3>3, KindsAreWords DEF OrElse
    <3>7. ParentHostname(ref, namespace) = HostnameMatchFromStr(m.host)
      BY <3>6 DEF ParentHostname
    <3> QED  BY <3>4, <3>5, <3>6, <3>7 DEF ref
  <2> QED  BY <2>4, <2>5
<1> QED  BY <1>1, <1>3, <1>4

LEMMA ParentRead ==
    ASSUME NEW ref \in ParentRef, NEW namespace \in Label, ParentHostname(ref, namespace) # Failed
    PROVE  LET m == ParentHostname(ref, namespace)
           IN  m \in HostnameMatch /\ ValidHostname(m.host)
<1> DEFINE m == ParentHostname(ref, namespace)
           service == KubeServiceOf(ref, namespace)
<1>1. ref.name \in Hostname /\ ref.namespace \in Label \cup {None}
  BY DEF ParentRef
<1>2. m = HostnameMatchFromStr(ref.name) \/ (service # Failed /\ m = Exactly(ServiceName(service)))
  BY DEF ParentHostname
<1>3. CASE m = HostnameMatchFromStr(ref.name)
  BY <1>1, <1>3, HostnameReadName
<1>4. CASE service # Failed /\ m = Exactly(ServiceName(service))
  <2>1. /\ Len(ref.name) = 1
        /\ service = KubeService(OrElse(ref.namespace, namespace), ref.name[1])
    BY <1>4 DEF KubeServiceOf
  <2>2. OrElse(ref.namespace, namespace) \in Label
    BY <1>1 DEF OrElse
  <2>3. ref.name[1] \in Label
    <3>1. ref.name \in Seq(Label)
      BY <1>1 DEF Hostname
    <3> QED  BY <2>1, <3>1
  <2>4. ValidHostname(ServiceName(service)) /\ ServiceName(service) \in Hostname
    BY <1>4, <2>1, <2>2, <2>3, KubeServiceIs
  <2> HIDE DEF m, service
  <2>5. m = [wild |-> FALSE, host |-> ServiceName(service)]
    BY <1>4 DEF Exactly
  <2>6. m \in HostnameMatch /\ m.host = ServiceName(service)
    BY <2>4, <2>5 DEF HostnameMatch
  <2> QED  BY <2>4, <2>6 DEF m
<1> QED  BY <1>2, <1>3, <1>4

LEMMA ParentsWritten ==
    ASSUME NEW route \in Route, NEW namespace,
           ToParentRefs(route.hostnames, route.ports) # Failed
    PROVE  LET refs == ToParentRefs(route.hostnames, route.ports)
               ports == IF route.hostnames = {} THEN {} ELSE route.ports
           IN  /\ refs \subseteq ParentRef
               /\ FromParentRefs(refs, namespace)
                     \in {[hostnames |-> route.hostnames, ports |-> ports], Failed}
<1> DEFINE own == IF route.ports = {} THEN {None} ELSE route.ports
           refs == {HostnameToParent(m, port) : m \in route.hostnames, port \in own}
           host(ref) == ParentHostname(ref, namespace)
           ports(h) == {ref.port : ref \in {r \in refs : host(r) = h}} \ {None}
           hostnames == {host(ref) : ref \in refs}
<1>1. /\ \A m \in route.hostnames : m \in HostnameMatch /\ ValidHostname(m.host)
      /\ route.ports \subseteq Port
  BY DEF Route
<1>2. own \subseteq Port \cup {None} /\ own # {} /\ own \ {None} = route.ports
  <2>1. None \notin Port
    BY NoneIsApart, NameConstants DEF Port
  <2> QED  BY <1>1, <2>1
<1>3. refs = ToParentRefs(route.hostnames, route.ports) /\ Failed \notin refs
  BY DEF ToParentRefs
<1> HIDE DEF own
<1>4. \A m \in route.hostnames, port \in own :
         LET ref == HostnameToParent(m, port)
         IN  ref \in refs /\ ref \in ParentRef /\ ref.port = port /\ host(ref) = m
  <2> TAKE m \in route.hostnames, port \in own
  <2>1. HostnameToParent(m, port) \in refs /\ HostnameToParent(m, port) # Failed
    BY <1>3
  <2>2. port \in Port \cup {None}
    BY <1>2
  <2> QED  BY <1>1, <2>1, <2>2, ParentWritten
<1>5. \A ref \in refs : \E m \in route.hostnames, port \in own :
                          ref = HostnameToParent(m, port)
  OBVIOUS
<1> HIDE DEF refs, host
<1>6. refs \subseteq ParentRef
  BY <1>4, <1>5
<1>7. hostnames = route.hostnames
  <2>1. ASSUME NEW m \in route.hostnames  PROVE m \in hostnames
    <3>1. PICK port \in own : TRUE
      BY <1>2
    <3> QED  BY <1>4, <3>1
  <2>2. ASSUME NEW h \in hostnames  PROVE h \in route.hostnames
    BY <1>4, <1>5
  <2> QED  BY <2>1, <2>2
<1>8. ASSUME NEW h \in route.hostnames  PROVE ports(h) = route.ports
  <2>1. ASSUME NEW port \in own  PROVE port \in {ref.port : ref \in {r \in refs : host(r) = h}}
    BY <1>4
  <2>2. ASSUME NEW ref \in {r \in refs : host(r) = h}  PROVE ref.port \in own
    BY <1>4, <1>5
  <2> QED  BY <1>2, <2>1, <2>2
<1>9. UNION {ports(h) : h \in hostnames} = IF route.hostnames = {} THEN {} ELSE route.ports
  <2>1. {ports(h) : h \in hostnames} = IF route.hostnames = {} THEN {} ELSE {route.ports}
    <3> HIDE DEF ports, hostnames
    <3> QED  BY <1>7, <1>8
  <2> HIDE DEF ports
  <2> QED  BY <2>1
<1>10. FromParentRefs(refs, namespace)
          \in {[hostnames |-> hostnames, ports |-> UNION {ports(h) : h \in hostnames}], Failed}
  BY DEF FromParentRefs, host
<1> HIDE DEF ports, hostnames
<1> QED  BY <1>3, <1>6, <1>7, <1>9, <1>10

LEMMA ParentsRead ==
    ASSUME NEW refs, refs \subseteq ParentRef, NEW namespace \in Label,
           FromParentRefs(refs, namespace) # Failed
    PROVE  LET p == FromParentRefs(refs, namespace)
           IN  /\ p.hostnames \subseteq {m \in HostnameMatch : ValidHostname(m.host)}
               /\ p.ports \subseteq Port
<1> DEFINE host(ref) == ParentHostname(ref, namespace)
           hostnames == {host(ref) : ref \in refs}
           ports(h) == {ref.port : ref \in {r \in refs : host(r) = h}} \ {None}
           all == UNION {ports(h) : h \in hostnames}
<1>1. /\ Failed \notin hostnames /\ \A ref \in refs : ~BadPort(ref)
      /\ FromParentRefs(refs, namespace) = [hostnames |-> hostnames, ports |-> all]
  BY DEF FromParentRefs
<1>2. \A ref \in refs : host(ref) \in HostnameMatch /\ ValidHostname(host(ref).host)
  BY <1>1, ParentRead
<1>3. \A ref \in refs : ref.port \in Port \cup {None}
  BY <1>1 DEF BadPort
<1>4. all \subseteq Port
  <2>1. \A h : ports(h) \subseteq Port
    BY <1>3
  <2> HIDE DEF ports
  <2> QED  BY <2>1
<1>5. hostnames \subseteq {m \in HostnameMatch : ValidHostname(m.host)}
  BY <1>2
<1> HIDE DEF all, hostnames
<1> QED  BY <1>1, <1>4, <1>5

\* Route::to_gateway_httproute.
LEMMA GatewayRouteWritten ==
    ASSUME NEW route \in Route, Plain(route), NEW namespace \in Label,
           RouteToGateway(route, namespace) # Failed
    PROVE  RouteToGateway(route, namespace) \in HttpRoute /\ Plain(RouteToGateway(route, namespace))
<1> DEFINE parents == ToParentRefs(route.hostnames, route.ports)
           rules == Parsed(route.rules, RuleToGateway)
           gs == [i \in DOMAIN route.rules |-> RuleToGateway(route.rules[i])]
           h == RouteToGateway(route, namespace)
<1>1. /\ route.id \in Name /\ route.tags \subseteq Tag /\ route.rules \in Seq(RouteRule)
  BY DEF Route
<1>2. /\ parents # Failed /\ rules # Failed
      /\ h = [name |-> route.id, namespace |-> namespace, annotations |-> WriteTags(route.tags),
              parents |-> parents, rules |-> rules]
  BY DEF RouteToGateway
<1>3. rules = gs /\ \A i \in DOMAIN route.rules : gs[i] # Failed /\ gs[i] = RuleToGateway(route.rules[i])
  BY <1>2 DEF Parsed, Results, Mapped, Range
<1>4. /\ DOMAIN route.rules = 1..Len(route.rules) /\ Len(route.rules) \in Nat
      /\ \A i \in DOMAIN route.rules : route.rules[i] \in RouteRule /\ PlainRule(route.rules[i])
  BY <1>1 DEF Plain, PlainRule, PlainMatch, Range
<1>5. \A i \in DOMAIN route.rules : gs[i] \in GatewayRule /\ PlainGatewayRule(gs[i])
  BY <1>3, <1>4, GatewayRuleWritten
<1>6. gs = [i \in 1..Len(route.rules) |-> gs[i]] /\ DOMAIN gs = DOMAIN route.rules
  BY <1>4
<1>7. WriteTags(route.tags) \subseteq Annotation
  <2> SUFFICES ASSUME NEW t \in route.tags
               PROVE  [ours |-> TRUE, key |-> t.key, value |-> t.value] \in Annotation
    BY DEF WriteTags
  <2>1. t.key \in Word /\ t.value \in Word
    BY <1>1 DEF Tag
  <2>2. TRUE \in BOOLEAN
    OBVIOUS
  <2> QED  BY <2>1, <2>2 DEF Annotation
<1>8. parents \subseteq ParentRef
  BY <1>2, ParentsWritten
<1> HIDE DEF gs, rules, parents, h
<1>9. gs \in Seq(GatewayRule)
  BY <1>4, <1>5, <1>6, ListIsSequence
<1>10. h \in HttpRoute /\ h.rules = gs
  BY <1>1, <1>2, <1>3, <1>7, <1>8, <1>9 DEF HttpRoute, Name
<1>11. Plain(h)
  <2>1. \A rule \in Range(gs) : PlainGatewayRule(rule)
    BY <1>5, <1>6 DEF Range
  <2>2. \A rule \in Range(h.rules) : PlainGatewayRule(rule)
    BY <1>10, <2>1
  <2> QED  BY <2>2 DEF Plain, PlainGatewayRule, PlainGateway
<1> QED  BY <1>10, <1>11 DEF h

Sorted(rules) == \A k, l \in DOMAIN rules : k < l => ~RuleLess(rules[k], rules[l])

\* Route::from_gateway_httproute.
LEMMA GatewayRouteRead ==
    ASSUME NEW h \in HttpRoute, Plain(h), ~RouteFromGatewayPanics(h), RouteFromGateway(h) # Failed
    PROVE  LET route == RouteFromGateway(h)
           IN  route \in Route /\ Plain(route) /\ Sorted(route.rules)
<1> DEFINE namespace == OrElse(h.namespace, "default")
           parents == FromParentRefs(h.parents, namespace)
           rules == Parsed(h.rules, LAMBDA g : RuleFromGateway(namespace, g))
           rs == [i \in DOMAIN h.rules |-> RuleFromGateway(namespace, h.rules[i])]
           route == RouteFromGateway(h)
           sorted == SortDescending(rs, RuleLess)
<1>1. /\ h.name \in Label \cup {None} /\ h.annotations \subseteq Annotation
      /\ h.namespace \in Label \cup {None} /\ h.parents \subseteq ParentRef
      /\ h.rules \in Seq(GatewayRule)
  BY DEF HttpRoute
<1>2. /\ parents # Failed /\ rules # Failed
      /\ route = [id |-> h.name, tags |-> ReadTags(h.annotations),
                  hostnames |-> parents.hostnames, ports |-> parents.ports,
                  rules |-> SortDescending(rules, RuleLess)]
  BY DEF RouteFromGateway
<1>3. rules = rs /\ \A i \in DOMAIN h.rules :
                      rs[i] # Failed /\ rs[i] = RuleFromGateway(namespace, h.rules[i])
  BY <1>2 DEF Parsed, Results, Mapped, Range
<1>4. namespace \in Label
  <2>1. "default" \in Label
    BY NameConstants
  <2> QED  BY <1>1, <2>1 DEF OrElse
<1>5. /\ DOMAIN h.rules = 1..Len(h.rules) /\ Len(h.rules) \in Nat
      /\ \A i \in DOMAIN h.rules : h.rules[i] \in GatewayRule /\ PlainGatewayRule(h.rules[i])
  BY <1>1 DEF Plain, PlainGatewayRule, PlainGateway, Range
<1> HIDE DEF namespace
<1>6. \A i \in DOMAIN h.rules : rs[i] \in RouteRule /\ PlainRule(rs[i])
  BY <1>3, <1>4, <1>5, GatewayRuleRead
<1>7. rs = [i \in 1..Len(h.rules) |-> rs[i]] /\ DOMAIN rs = DOMAIN h.rules
  BY <1>5
<1>8. /\ parents.hostnames \subseteq {m \in HostnameMatch : ValidHostname(m.host)}
      /\ parents.ports \subseteq Port
  BY <1>1, <1>2, <1>4, ParentsRead
<1>9. h.name \in Name
  BY <1>1 DEF RouteFromGatewayPanics, Name
<1>10. ReadTags(h.annotations) \subseteq Tag
  BY <1>1 DEF ReadTags, Annotation, Tag
<1> HIDE DEF rs, rules, parents, route
<1>11. rs \in Seq(RouteRule)
  BY <1>5, <1>6, <1>7, ListIsSequence
<1>12. /\ sorted \in Seq(RouteRule) /\ Sorted(sorted)
       /\ \A k \in DOMAIN sorted : \E i \in DOMAIN rs : sorted[k] = rs[i]
  <2>1. /\ sorted \in Seq(RouteRule)
        /\ \A k \in DOMAIN sorted : \E i \in DOMAIN rs : sorted[k] = rs[i]
        /\ \A k, l \in DOMAIN sorted : k < l => ~RuleLess(sorted[k], sorted[l])
    <3> HIDE DEF sorted
    <3> QED  BY <1>11, SortedFirst DEF sorted
  <2> HIDE DEF sorted
  <2> QED  BY <2>1 DEF Sorted
<1>13. route = [id |-> h.name, tags |-> ReadTags(h.annotations),
                hostnames |-> parents.hostnames, ports |-> parents.ports, rules |-> sorted]
  BY <1>2, <1>3
<1> HIDE DEF sorted
<1>14. route \in Route /\ route.rules = sorted
  BY <1>8, <1>9, <1>10, <1>12, <1>13 DEF Route
<1>15. Plain(route)
  <2>1. \A k \in DOMAIN sorted : PlainRule(sorted[k])
    BY <1>6, <1>7, <1>12
  <2> QED  BY <1>14, <2>1 DEF Plain, PlainRule, PlainMatch, Range
<1> QED  BY <1>12, <1>14, <1>15 DEF route

\* Only one rule is the greatest of those that a request matches.
LEMMA BestIsOne ==
    ASSUME NEW rules \in Seq(RouteRule), NEW r, NEW i, Best(rules, RuleHits(rules, r), i)
    PROVE  LET hits == RuleHits(rules, r)
               best == {k \in hits : \A j \in hits :
                          /\ ~RuleLess(rules[k], rules[j])
                          /\ j < k => RuleLess(rules[j], rules[k])}
           IN  hits # {} /\ (CHOOSE k \in best : TRUE) = i
<1> DEFINE hits == RuleHits(rules, r)
           best == {k \in hits : \A j \in hits :
                      /\ ~RuleLess(rules[k], rules[j])
                      /\ j < k => RuleLess(rules[j], rules[k])}
<1>1. hits \subseteq Nat /\ i \in hits
  <2>1. DOMAIN rules = 1..Len(rules) /\ Len(rules) \in Nat
    OBVIOUS
  <2> QED  BY <2>1 DEF RuleHits, Best
<1> HIDE DEF hits
<1>2. i \in best
  BY DEF Best, hits
<1>3. ASSUME NEW k \in best  PROVE k = i
  <2>1. /\ k \in hits /\ ~RuleLess(rules[k], rules[i]) /\ ~RuleLess(rules[i], rules[k])
        /\ i < k => RuleLess(rules[i], rules[k])
        /\ k < i => RuleLess(rules[k], rules[i])
    BY <1>1, <1>2
  <2>2. k \in Nat /\ i \in Nat
    BY <1>1, <2>1
  <2> QED  BY <2>1, <2>2
<1>4. best = {i}
  BY <1>2, <1>3
<1> QED  BY <1>1, <1>4 DEF hits

\* What RouteDecides and RankedDecides say, of the rules that a request hits.
LEMMA DecidesByFirst ==
    ASSUME NEW route, route.rules \in Seq(RouteRule), NEW r
    PROVE  LET hits == RuleHits(route.rules, r)
           IN  /\ (~RouteMatches(route, r.host, r.port) \/ hits = {}) =>
                     RouteDecides(route, r) = None /\ RankedDecides(route, r) = None
               /\ RouteMatches(route, r.host, r.port) =>
                     /\ \A k \in hits : (\A l \in hits : k <= l) =>
                           RouteDecides(route, r) = RuleDecision(route.rules[k])
                     /\ \A i : Best(route.rules, hits, i) =>
                           RankedDecides(route, r) = RuleDecision(route.rules[i])
<1> DEFINE rules == route.rules
           hits == RuleHits(rules, r)
           least == CHOOSE i \in hits : \A j \in hits : i <= j
           best == {k \in hits : \A j \in hits :
                      /\ ~RuleLess(rules[k], rules[j])
                      /\ j < k => RuleLess(rules[j], rules[k])}
           matches == RouteMatches(route, r.host, r.port)
<1>1. rules \in Seq(RouteRule)
  OBVIOUS
<1>2. hits \in SUBSET Nat /\ None \notin Nat
  <2>1. DOMAIN rules = 1..Len(rules) /\ Len(rules) \in Nat
    BY <1>1
  <2>2. None \notin Nat
    BY BackendConstants
  <2> QED  BY <2>1, <2>2 DEF RuleHits
<1>3. MatchingRule(route, r) = IF hits = {} THEN None ELSE least
  BY DEF MatchingRule, RuleHits
<1>4. RouteDecides(route, r) = IF ~matches \/ MatchingRule(route, r) = None THEN None
                               ELSE RuleDecision(rules[MatchingRule(route, r)])
  BY DEF RouteDecides
<1>5. RankedDecides(route, r) = IF ~matches \/ hits = {} THEN None
                                ELSE RuleDecision(rules[CHOOSE i \in best : TRUE])
  BY DEF RankedDecides, RuleHits
<1> HIDE DEF matches, hits, rules
<1>6. ASSUME NEW k \in hits, \A l \in hits : k <= l
      PROVE  hits # {} /\ least = k
  <2>1. hits # {}
    OBVIOUS
  <2>2. least \in hits /\ \A j \in hits : least <= j
    BY <1>2, <2>1, FirstIs
  <2> HIDE DEF least
  <2> QED  BY <1>2, <1>6, <2>1, <2>2
<1>7. ASSUME NEW i, Best(rules, hits, i)
      PROVE  hits # {} /\ (CHOOSE k \in best : TRUE) = i
  BY <1>1, <1>7, BestIsOne DEF hits
<1> HIDE DEF least, best
<1>8. (~matches \/ hits = {}) => RouteDecides(route, r) = None /\ RankedDecides(route, r) = None
  BY <1>3, <1>4, <1>5
<1>9. ASSUME matches, NEW k \in hits, \A l \in hits : k <= l
      PROVE  RouteDecides(route, r) = RuleDecision(rules[k])
  <2>1. MatchingRule(route, r) = k /\ k # None
    BY <1>2, <1>3, <1>6, <1>9
  <2> QED  BY <1>4, <1>9, <2>1
<1>10. ASSUME matches, NEW i, Best(rules, hits, i)
       PROVE  RankedDecides(route, r) = RuleDecision(rules[i])
  <2>1. hits # {} /\ (CHOOSE k \in best : TRUE) = i
    BY <1>7, <1>10 DEF best
  <2> QED  BY <1>5, <1>10, <2>1 DEF best
<1> QED  BY <1>8, <1>9, <1>10 DEF matches, hits, rules

LEMMA SortedDecides ==
    ASSUME NEW route \in Route, Sorted(route.rules), NEW r
    PROVE  RouteDecides(route, r) = RankedDecides(route, r)
<1> DEFINE rules == route.rules
           hits == RuleHits(rules, r)
<1>1. rules \in Seq(RouteRule)
  BY DEF Route
<1>2. DOMAIN rules = 1..Len(rules) /\ Len(rules) \in Nat /\ \A i \in DOMAIN rules : rules[i] \in RouteRule
  BY <1>1
<1>3. hits \in SUBSET DOMAIN rules /\ hits \in SUBSET Nat
  BY <1>2 DEF RuleHits
<1>4. \A k \in DOMAIN rules : ~RuleLess(rules[k], rules[k])
  <2>1. \A x \in RouteRule : <<x, x>> \in RuleOrder <=> RuleLess(x, x)
    BY RuleOrderIs
  <2>2. \A x \in RouteRule : <<x, x>> \notin RuleOrder
    BY RuleOrderIsWeak DEF IsWeakOn
  <2> QED  BY <1>2, <2>1, <2>2
<1> HIDE DEF hits
<1>5. CASE hits = {} \/ ~RouteMatches(route, r.host, r.port)
  BY <1>1, <1>5, DecidesByFirst DEF hits
<1>6. CASE hits # {} /\ RouteMatches(route, r.host, r.port)
  <2>1. PICK k \in hits : \A l \in hits : k <= l
    BY <1>3, <1>6, LeastNumber
  <2>2. ASSUME NEW j \in hits
        PROVE  ~RuleLess(rules[k], rules[j]) /\ (j < k => RuleLess(rules[j], rules[k]))
    <3>1. k <= j /\ k \in Nat /\ j \in Nat /\ k \in DOMAIN rules /\ j \in DOMAIN rules
      BY <1>3, <2>1
    <3>2. k < j => ~RuleLess(rules[k], rules[j])
      BY <3>1 DEF Sorted
    <3> QED  BY <1>4, <3>1, <3>2
  <2>3. Best(rules, hits, k)
    BY <2>2 DEF Best
  <2> QED  BY <1>1, <1>6, <2>1, <2>3, DecidesByFirst DEF hits
<1> QED  BY <1>5, <1>6

\* By way of an HTTPRoute.
LEMMA RankedBack ==
    ASSUME NEW route \in Route, Plain(route), NEW namespace \in Label,
           RouteToGateway(route, namespace) # Failed,
           LET h == RouteToGateway(route, namespace)
           IN  RouteFromGateway(h) # Failed /\ ~RouteFromGatewayPanics(h),
           NEW r
    PROVE  RouteDecides(RouteFromGateway(RouteToGateway(route, namespace)), r)
             = RankedDecides(route, r)
<1> DEFINE h == RouteToGateway(route, namespace)
           back == RouteFromGateway(h)
           own == OrElse(h.namespace, "default")
           parents == ToParentRefs(route.hostnames, route.ports)
           gs == [i \in DOMAIN route.rules |-> RuleToGateway(route.rules[i])]
           read == Parsed(h.rules, LAMBDA g : RuleFromGateway(own, g))
           rs == [i \in DOMAIN h.rules |-> RuleFromGateway(own, h.rules[i])]
           us == [i \in DOMAIN route.rules |-> Unfiltered(route.rules[i])]
           sorted == SortDescending(us, RuleLess)
<1>1. /\ route.rules \in Seq(RouteRule) /\ DOMAIN route.rules = 1..Len(route.rules)
      /\ Len(route.rules) \in Nat /\ \A i \in DOMAIN route.rules : route.rules[i] \in RouteRule
  BY DEF Route
<1>2. /\ parents # Failed
      /\ h = [name |-> route.id, namespace |-> namespace, annotations |-> WriteTags(route.tags),
              parents |-> parents, rules |-> Parsed(route.rules, RuleToGateway)]
      /\ Parsed(route.rules, RuleToGateway) # Failed
  BY DEF RouteToGateway
<1>3. /\ Parsed(route.rules, RuleToGateway) = gs
      /\ \A i \in DOMAIN route.rules : gs[i] # Failed /\ gs[i] = RuleToGateway(route.rules[i])
  BY <1>2 DEF Parsed, Results, Mapped, Range
<1>4. h.parents = parents /\ h.rules = gs
  BY <1>2, <1>3
<1>5. back # Failed
  OBVIOUS
<1> HIDE DEF h, parents
<1>6. /\ FromParentRefs(h.parents, own) # Failed /\ read # Failed
      /\ back = [id |-> h.name, tags |-> ReadTags(h.annotations),
                 hostnames |-> FromParentRefs(h.parents, own).hostnames,
                 ports |-> FromParentRefs(h.parents, own).ports,
                 rules |-> SortDescending(read, RuleLess)]
  BY <1>5 DEF RouteFromGateway
<1>7. read = rs /\ \A i \in DOMAIN h.rules : rs[i] # Failed /\ rs[i] = RuleFromGateway(own, h.rules[i])
  BY <1>6 DEF Parsed, Results, Mapped, Range
<1>8. \A i \in DOMAIN route.rules : rs[i] = us[i]
  <2> TAKE i \in DOMAIN route.rules
  <2>1. RuleToGateway(route.rules[i]) # Failed /\ i \in DOMAIN h.rules
        /\ h.rules[i] = RuleToGateway(route.rules[i])
    BY <1>3, <1>4
  <2>2. RuleFromGateway(own, h.rules[i]) \in {Unfiltered(route.rules[i]), Failed}
    BY <1>1, <2>1, GatewayRuleWritten
  <2>3. RuleFromGateway(own, h.rules[i]) # Failed
    BY <1>7, <2>1
  <2> QED  BY <1>7, <2>1, <2>2, <2>3
<1>9. rs = us
  <2>1. DOMAIN h.rules = DOMAIN route.rules
    BY <1>4
  <2> QED  BY <1>8, <2>1
<1>10. /\ back.rules = sorted
       /\ back.hostnames = FromParentRefs(h.parents, own).hostnames
       /\ back.ports = FromParentRefs(h.parents, own).ports
  BY <1>6, <1>7, <1>9
<1>11. FromParentRefs(h.parents, own)
         = [hostnames |-> route.hostnames,
            ports |-> IF route.hostnames = {} THEN {} ELSE route.ports]
  BY <1>2, <1>4, <1>6, ParentsWritten DEF parents
<1>12. RouteMatches(back, r.host, r.port) <=> RouteMatches(route, r.host, r.port)
  <2>1. back.hostnames = route.hostnames
        /\ back.ports = (IF route.hostnames = {} THEN {} ELSE route.ports)
    BY <1>10, <1>11
  <2> HIDE DEF back
  <2> QED  BY <2>1 DEF RouteMatches
<1>13. \A i \in DOMAIN route.rules :
          /\ us[i] \in RouteRule /\ us[i].matches = route.rules[i].matches
          /\ us[i].timeouts = route.rules[i].timeouts /\ us[i].retry = route.rules[i].retry
          /\ us[i].backends = route.rules[i].backends
  <2> TAKE i \in DOMAIN route.rules
  <2> DEFINE rule == route.rules[i]
  <2>1. rule \in RouteRule /\ us[i] = [rule EXCEPT !.filters = <<>>]
    BY <1>1 DEF Unfiltered
  <2>2. <<>> \in Seq(Word)
    OBVIOUS
  <2> HIDE DEF rule, us
  <2> QED  BY <2>1, <2>2 DEF RouteRule, rule
<1>14. us \in Seq(RouteRule) /\ DOMAIN us = DOMAIN route.rules
  <2>1. us = [i \in 1..Len(route.rules) |-> us[i]] /\ DOMAIN us = DOMAIN route.rules
    BY <1>1
  <2> HIDE DEF us
  <2> QED  BY <1>1, <1>13, <2>1, ListIsSequence
<1> HIDE DEF us, back
<1>15. RuleHits(us, r) = RuleHits(route.rules, r)
  BY <1>13, <1>14 DEF RuleHits, RuleMatches
<1>16. \A i, j \in DOMAIN route.rules :
          RuleLess(us[i], us[j]) <=> RuleLess(route.rules[i], route.rules[j])
  BY <1>13 DEF RuleLess
<1>17. \A i : Best(us, RuleHits(us, r), i) => Best(route.rules, RuleHits(route.rules, r), i)
  <2>1. RuleHits(us, r) \subseteq DOMAIN route.rules
    BY <1>14 DEF RuleHits
  <2> QED  BY <1>15, <1>16, <2>1 DEF Best
<1>18. \A i \in DOMAIN route.rules : RuleDecision(us[i]) = RuleDecision(route.rules[i])
  BY <1>13 DEF RuleDecision
<1> DEFINE hits == RuleHits(sorted, r)
<1>19. /\ sorted \in Seq(RouteRule)
       /\ hits = {} <=> RuleHits(us, r) = {}
       /\ \A k \in hits : (\A l \in hits : k <= l) =>
             \E i \in RuleHits(us, r) : Best(us, RuleHits(us, r), i) /\ sorted[k] = us[i]
  BY <1>14, SortedFirst
<1>20. hits \in SUBSET Nat
  <2> HIDE DEF sorted
  <2>1. DOMAIN sorted = 1..Len(sorted) /\ Len(sorted) \in Nat
    BY <1>19
  <2> QED  BY <2>1 DEF RuleHits
<1> HIDE DEF sorted, hits
<1>21. RuleHits(back.rules, r) = hits /\ back.rules \in Seq(RouteRule)
  BY <1>10, <1>19 DEF hits
<1>22. CASE hits = {} \/ ~RouteMatches(route, r.host, r.port)
  <2>1. RouteDecides(back, r) = None
    BY <1>12, <1>21, <1>22, DecidesByFirst
  <2>2. RankedDecides(route, r) = None
    BY <1>1, <1>15, <1>19, <1>22, DecidesByFirst
  <2> QED  BY <2>1, <2>2 DEF back, h
<1>23. CASE hits # {} /\ RouteMatches(route, r.host, r.port)
  <2>1. PICK k \in hits : \A l \in hits : k <= l
    BY <1>20, <1>23, LeastNumber
  <2>2. PICK i \in RuleHits(us, r) : Best(us, RuleHits(us, r), i) /\ sorted[k] = us[i]
    BY <1>19, <2>1
  <2>3. RouteDecides(back, r) = RuleDecision(back.rules[k])
    BY <1>12, <1>21, <1>23, <2>1, DecidesByFirst
  <2>4. RankedDecides(route, r) = RuleDecision(route.rules[i])
    BY <1>1, <1>17, <1>23, <2>2, DecidesByFirst
  <2>5. i \in DOMAIN route.rules
    BY <1>14, <2>2 DEF RuleHits
  <2>6. back.rules[k] = us[i]
    BY <1>10, <2>2
  <2> QED  BY <1>18, <2>3, <2>4, <2>5, <2>6 DEF back, h
<1> QED  BY <1>22, <1>23

\* A Kubernetes service's name ends in the subdomain.
LEMMA KubeNameEnds ==
    ASSUME NEW a, NEW b
    PROVE  EndsIn(<<a, b>> \o SUBDOMAIN, SUBDOMAIN)
<1> DEFINE h == <<a, b>> \o SUBDOMAIN
<1>1. h = <<a, b, "svc", "cluster", "local">>
  BY SubdomainParts
<1>2. Len(h) = 5 /\ Len(SUBDOMAIN) = 3
  BY <1>1 DEF SUBDOMAIN
<1>3. IsSuffix(SUBDOMAIN, h)
  BY <1>1, <1>2 DEF IsSuffix, IsPrefix, Reverse, SUBDOMAIN
<1> QED BY <1>2, <1>3 DEF EndsIn

\* Service::name and Service::from_str.
LEMMA ServiceReadBack ==
    ASSUME NEW s \in Service
    PROVE  LET read == ServiceFromStr(ServiceName(s))
           IN  read # Failed => read = s \/ (s.kind = "dns" /\ read.kind = "kube")
<1> DEFINE read == ServiceFromStr(ServiceName(s))
<1> SUFFICES ASSUME read # Failed
             PROVE  read = s \/ (s.kind = "dns" /\ read.kind = "kube")
  OBVIOUS
<1>1. CASE s.kind = "dns"
  <2>1. ServiceName(s) = s.hostname
    BY <1>1 DEF ServiceName
  <2>2. s = [kind |-> "dns", hostname |-> s.hostname]
    BY <1>1 DEF Service
  <2> QED BY <1>1, <2>1, <2>2 DEF ServiceFromStr, DnsService, KubeService
<1>2. CASE s.kind # "dns"
  <2>1. s = [kind |-> "kube", name |-> s.name, namespace |-> s.namespace]
    BY <1>2 DEF Service
  <2>2. ServiceName(s) = <<s.name, s.namespace>> \o SUBDOMAIN
    BY <1>2 DEF ServiceName
  <2>3. /\ ServiceName(s)[1] = s.name /\ ServiceName(s)[2] = s.namespace
        /\ EndsIn(ServiceName(s), SUBDOMAIN)
    BY <2>2, SubdomainParts, KubeNameEnds
  <2> QED BY <2>1, <2>3 DEF ServiceFromStr, KubeService
<1> QED BY <1>1, <1>2

\* What is read from the labels of a hostname is a service.
LEMMA ServiceRead ==
    ASSUME NEW h \in Hostname, ServiceFromStr(h) # Failed
    PROVE  ServiceFromStr(h) \in Service
BY DEF ServiceFromStr, DnsService, KubeService, Service, Hostname

----------------------------------------------------------------------------
(* Policies. *)

LEMMA NoneHasNoFields ==
    /\ None \notin XdsHashPolicy
    /\ None \notin XdsLbConfig /\ None \notin XdsLbAction /\ None \notin Nat
BY BackendConstants

LEMMA HashReadBack ==
    ASSUME NEW p \in HashPolicy
    PROVE  HashToXds(p) \in XdsHash /\ HashFromXds(HashToXds(p)) = p
<1> DEFINE x == HashToXds(p)
           type == IF p.hasher = "Header" THEN "Header" ELSE "QueryParameter"
<1>1. /\ p = [terminal |-> p.terminal, hasher |-> p.hasher, name |-> p.name]
      /\ p.terminal \in BOOLEAN /\ p.hasher \in {"Header", "QueryParam"}
      /\ p.name \in STRING
  BY DEF HashPolicy
<1>2. x = [terminal |-> p.terminal, policy |-> [type |-> type, name |-> p.name]]
  BY DEF HashToXds
<1>3. x.policy \in XdsHashPolicy
  BY <1>1, <1>2 DEF XdsHashPolicy
<1>4. x \in XdsHash
  BY <1>1, <1>2, <1>3 DEF XdsHash
<1>5. x.policy # None
  BY <1>3, NoneHasNoFields
<1>6. HashFromXds(x) = [terminal |-> x.terminal, name |-> x.policy.name,
                        hasher |-> IF x.policy.type = "Header" THEN "Header"
                                   ELSE "QueryParam"]
  BY <1>2, <1>5 DEF HashFromXds
<1>7. HashFromXds(x) = [terminal |-> p.terminal, hasher |-> p.hasher, name |-> p.name]
  BY <1>1, <1>2, <1>6
<1> QED BY <1>1, <1>4, <1>7

LEMMA HashRead ==
    ASSUME NEW x \in XdsHash, HashFromXds(x) # Failed
    PROVE  HashFromXds(x) \in HashPolicy
<1>1. /\ x.policy # None
      /\ HashFromXds(x) = [terminal |-> x.terminal, name |-> x.policy.name,
                           hasher |-> IF x.policy.type = "Header" THEN "Header"
                                      ELSE "QueryParam"]
  BY DEF HashFromXds
<1>2. x.terminal \in BOOLEAN /\ x.policy \in XdsHashPolicy
  BY <1>1 DEF XdsHash
<1>3. x.policy.name \in STRING
  BY <1>2 DEF XdsHashPolicy
<1> QED BY <1>1, <1>2, <1>3 DEF HashPolicy

\* A list of hash policies comes back as it was.
LEMMA HashesReadBack ==
    ASSUME NEW hashes \in Seq(HashPolicy)
    PROVE  LET xs == Mapped(hashes, HashToXds)
           IN  /\ xs \in Seq(XdsHash)
               /\ Parsed(xs, HashFromXds) \in {hashes, Failed}
<1> DEFINE xs == [i \in DOMAIN hashes |-> HashToXds(hashes[i])]
           back == [i \in DOMAIN xs |-> HashFromXds(xs[i])]
<1>1. \A i \in DOMAIN hashes : hashes[i] \in HashPolicy
  OBVIOUS
<1>2. xs \in Seq(XdsHash)
  <2>1. \A i \in DOMAIN hashes : xs[i] \in XdsHash
    BY <1>1, HashReadBack
  <2> QED BY <2>1
<1>3. back = hashes
  <2>1. \A i \in DOMAIN hashes : back[i] = hashes[i]
    BY <1>1, HashReadBack
  <2>2. hashes = [i \in DOMAIN hashes |-> hashes[i]]
    OBVIOUS
  <2> QED BY <2>1, <2>2
<1> HIDE DEF xs, back
<1>4. Mapped(hashes, HashToXds) = xs
  BY DEF Mapped, xs
<1>5. Parsed(xs, HashFromXds) \in {back, Failed}
  BY DEF Parsed, Mapped, Results, back
<1> QED BY <1>2, <1>3, <1>4, <1>5

\* LbPolicy::to_xds and LbPolicy::from_xds: a policy read back is the one
\* that was written, whatever the cluster says otherwise.
LEMMA PolicyReadBack ==
    ASSUME NEW b \in Backend
    PROVE  LET w == BackendOnWire(b)
           IN  LbFromXds(w.cluster, w.action) \in {b.lb, Failed}
<1> DEFINE w == BackendOnWire(b)
           lb == b.lb
           hash == IF lb.type = "RingHash" THEN Mapped(lb.hash, HashToXds) ELSE <<>>
<1>1. w.cluster.policy = LbToXds(lb).policy /\ w.cluster.config = LbToXds(lb).config
  BY DEF BackendOnWire, BackendToXds
<1>2. w.action.hash = hash
  BY DEF BackendOnWire, LbRouteToXds, XdsRoute
<1>3. b.id \in BackendId /\ lb \in LbPolicy
  BY DEF Backend
<1>4. CASE lb = [type |-> "RoundRobin"]
  <2>1. LbToXds(lb) = [policy |-> "RoundRobin", config |-> [type |-> "RoundRobin"]]
    BY <1>4 DEF LbToXds
  <2>2. [type |-> "RoundRobin"] # None
    BY BackendConstants DEF XdsLbConfig
  <2> QED BY <1>1, <1>4, <2>1, <2>2 DEF LbFromXds
<1>5. CASE lb = [type |-> "Unspecified"]
  <2>1. LbToXds(lb) = [policy |-> "RoundRobin", config |-> None]
    BY <1>5 DEF LbToXds
  <2> QED BY <1>1, <1>5, <2>1 DEF LbFromXds
<1>6. CASE lb.type = "RingHash"
  <2> DEFINE config == [type |-> "RingHash", min |-> lb.min, function |-> "XxHash"]
  <2>1. /\ lb = [type |-> "RingHash", min |-> lb.min, hash |-> lb.hash]
        /\ lb.min \in 0..MaxU32 /\ lb.hash \in Seq(HashPolicy)
    BY <1>3, <1>6 DEF LbPolicy
  <2>2. LbToXds(lb) = [policy |-> "RingHash", config |-> config]
    BY <1>6 DEF LbToXds
  <2>3. lb.min # None /\ config # None
    <3>1. lb.min \in Nat
      BY <2>1, BackendConstants
    <3>2. config \in XdsLbConfig
      BY <3>1 DEF XdsLbConfig
    <3> QED BY <3>1, <3>2, NoneHasNoFields
  <2>4. hash \in Seq(XdsHash) /\ Parsed(hash, HashFromXds) \in {lb.hash, Failed}
    BY <1>6, <2>1, HashesReadBack
  <2>5. w.action \in XdsLbAction
    <3>1. /\ ServiceName(b.id.service) \in Hostname /\ b.id.port \in Port
      <4>1. b.id.service \in Service /\ b.id.port \in Port
        BY <1>3 DEF BackendId
      <4>2. Range(SUBDOMAIN) \subseteq Label
        BY NameConstants
      <4>3. SUBDOMAIN \in Seq(Label)
        BY <4>2 DEF SUBDOMAIN, Range
      <4> QED BY <4>1, <4>3 DEF Service, ServiceName, Hostname
    <3>2. w.action = [type |-> "Route", timeout |-> None, policy |-> None,
                      cluster |-> [type |-> "Cluster", name |-> IdName(b.id)],
                      hash |-> hash]
      BY DEF BackendOnWire, LbRouteToXds, XdsRoute
    <3> HIDE DEF hash
    <3> QED BY <2>4, <3>1, <3>2 DEF XdsLbAction, IdName
  <2>6. w.action # None
    BY <2>5, BackendConstants
  <2>7. RingConfig(w.cluster) = config
    BY <1>1, <2>2, <2>3 DEF RingConfig
  <2>8. LbFromXds(w.cluster, w.action)
            = RingFromXds(config, Parsed(hash, HashFromXds))
    BY <1>1, <1>2, <2>2, <2>6, <2>7 DEF LbFromXds
  <2> HIDE DEF hash
  <2> QED BY <2>1, <2>3, <2>4, <2>8 DEF RingFromXds
<1>7. \/ lb = [type |-> "RoundRobin"] \/ lb = [type |-> "Unspecified"]
      \/ lb.type = "RingHash"
  BY <1>3 DEF LbPolicy
<1> QED BY <1>4, <1>5, <1>6, <1>7

\* What is read from others is a policy.
LEMMA PolicyRead ==
    ASSUME NEW c \in WireBackend, LbFromXds(c.cluster, c.action) # Failed
    PROVE  LbFromXds(c.cluster, c.action) \in LbPolicy
<1> DEFINE config == c.cluster.config
           hashes == IF c.action = None THEN <<>> ELSE Parsed(c.action.hash, HashFromXds)
<1>1. /\ config \in XdsLbConfig \cup {None}
      /\ c.action # None => c.action.hash \in Seq(XdsHash)
      /\ MaxU32 \in Nat /\ DefaultRing \in 0..MaxU32 /\ None \notin Nat
  BY BackendConstants
<1>2. CASE c.cluster.policy # "RingHash"
  BY <1>2 DEF LbFromXds, LbPolicy
<1>3. CASE c.cluster.policy = "RingHash"
  <2> DEFINE ring == RingConfig(c.cluster)
  <2>1. LbFromXds(c.cluster, c.action) = RingFromXds(ring, hashes)
    BY <1>3 DEF LbFromXds
  <2>2. RingFromXds(ring, hashes) # Failed
    BY <2>1
  <2>3. ring.type = "RingHash" => ring.min \in Nat \cup {None}
    BY <1>1 DEF RingConfig, XdsLbConfig
  <2>4. hashes # Failed => hashes \in Seq(HashPolicy)
    <3>1. CASE c.action = None
      BY <3>1
    <3>2. ASSUME c.action # None, hashes # Failed
          PROVE  hashes \in Seq(HashPolicy)
      <4> DEFINE xs == c.action.hash
                 back == [i \in DOMAIN xs |-> HashFromXds(xs[i])]
      <4>1. xs \in Seq(XdsHash)
        BY <1>1, <3>2
      <4>2. hashes = back /\ Failed \notin Range(back)
        BY <3>2 DEF Parsed, Mapped, Results
      <4>3. \A i \in DOMAIN xs : xs[i] \in XdsHash /\ HashFromXds(xs[i]) # Failed
        BY <4>1, <4>2 DEF Range
      <4>4. \A i \in DOMAIN xs : back[i] \in HashPolicy
        BY <4>3, HashRead
      <4>5. back \in Seq(HashPolicy)
        <5>1. DOMAIN xs = 1..Len(xs) /\ Len(xs) \in Nat
          BY <4>1
        <5>2. back \in [1..Len(xs) -> HashPolicy]
          BY <4>4, <5>1
        <5> QED BY <5>1, <5>2
      <4> QED BY <4>2, <4>5
    <3> QED BY <3>1, <3>2
  <2> HIDE DEF ring, hashes
  <2>5. /\ ring.type = "RingHash" /\ hashes \in Seq(HashPolicy)
        /\ RingFromXds(ring, hashes)
              = [type |-> "RingHash", hash |-> hashes,
                 min |-> IF ring.min = None THEN DefaultRing ELSE ring.min]
        /\ (IF ring.min = None THEN DefaultRing ELSE ring.min) <= MaxU32
    BY <1>1, <2>2, <2>3, <2>4 DEF RingFromXds
  <2>6. (IF ring.min = None THEN DefaultRing ELSE ring.min) \in 0..MaxU32
    BY <1>1, <2>3, <2>5
  <2> QED BY <2>1, <2>5, <2>6 DEF LbPolicy
<1> QED BY <1>2, <1>3

----------------------------------------------------------------------------
(* Backends. *)

\* Backend::from_xds of what Backend::to_xds made.
LEMMA BackendReadBack ==
    ASSUME NEW b \in Backend
    PROVE  LET w == BackendOnWire(b)
           IN  BackendFromXds(w.cluster, w.action) \in {b, Failed}
<1> DEFINE w == BackendOnWire(b)
           x == w.cluster
           read == BackendFromXds(x, w.action)
           id == BackendIdFromStr(x.name)
           lb == LbFromXds(x, w.action)
           s == b.id.service
<1> SUFFICES ASSUME read # Failed
             PROVE  read = b
  OBVIOUS
<1>1. /\ b = [id |-> b.id, lb |-> b.lb] /\ s \in Service
      /\ b.id = [service |-> s, port |-> b.id.port]
  BY DEF Backend, BackendId
<1>2. /\ id # Failed /\ lb # Failed /\ DiscoveryMatches(x, id)
      /\ read = [id |-> id, lb |-> lb]
  BY DEF BackendFromXds
<1>3. lb = b.lb
  BY <1>2, PolicyReadBack
<1>4. /\ x.name = [host |-> ServiceName(s), port |-> b.id.port]
      /\ x.discovery = IF s.kind = "dns" THEN "LogicalDns" ELSE "Eds"
  BY DEF BackendOnWire, BackendToXds, IdName
<1>5. /\ ServiceFromStr(ServiceName(s)) # Failed
      /\ id = [service |-> ServiceFromStr(ServiceName(s)), port |-> b.id.port]
  BY <1>2, <1>4 DEF BackendIdFromStr, WithPort
<1>6. ServiceFromStr(ServiceName(s)) = s
  <2> SUFFICES ASSUME s.kind = "dns", ServiceFromStr(ServiceName(s)).kind = "kube"
               PROVE  FALSE
    BY <1>1, <1>5, ServiceReadBack
  <2> QED BY <1>2, <1>4, <1>5 DEF DiscoveryMatches
<1> QED BY <1>1, <1>2, <1>3, <1>5, <1>6

\* Backend::from_xds of what others wrote.
LEMMA BackendRead ==
    ASSUME NEW c \in WireBackend, BackendFromXds(c.cluster, c.action) # Failed
    PROVE  BackendFromXds(c.cluster, c.action) \in Backend
<1> DEFINE name == c.cluster.name
           id == BackendIdFromStr(name)
           lb == LbFromXds(c.cluster, c.action)
<1>1. /\ id # Failed /\ lb # Failed
      /\ BackendFromXds(c.cluster, c.action) = [id |-> id, lb |-> lb]
  BY DEF BackendFromXds
<1>2. lb \in LbPolicy
  BY <1>1, PolicyRead
<1>3. /\ name.port \in Port /\ ServiceFromStr(name.host) # Failed
      /\ id = [service |-> ServiceFromStr(name.host), port |-> name.port]
  BY <1>1 DEF BackendIdFromStr, BadPort, WithPort
<1>4. name.host \in Hostname
  BY BackendConstants
<1>5. ServiceFromStr(name.host) \in Service
  BY <1>3, <1>4, ServiceRead
<1>6. id \in BackendId
  BY <1>3, <1>5 DEF BackendId
<1> QED BY <1>1, <1>2, <1>6 DEF Backend

\* What a Service says that a backend was applied to: its service, and the
\* policy of its port, whatever the Service said before.
LEMMA PatchSays ==
    ASSUME NEW b \in Backend, NEW svc \in ExistingService
    PROVE  LET p == Patched(svc, BackendToServicePatch(b))
           IN  /\ ServiceTarget(p) \in {b.id.service, Failed}
               /\ b.id.service.kind = "kube" => ServicePorts(p) = <<b.id.port>>
               /\ GetLbPolicy(p.annotations, b.id.port) = b.lb
               /\ \A port : GetLbPolicy(p.annotations, port) \in LbPolicy \cup {Failed}
<1> DEFINE patch == BackendToServicePatch(b)
           p == Patched(svc, patch)
           s == b.id.service
           port == b.id.port
<1>1. s \in Service /\ port \in Port /\ b.lb \in LbPolicy
  BY DEF Backend, BackendId
<1>2. patch.annotations = [q \in {port} |-> b.lb]
  BY DEF BackendToServicePatch
<1>3. p.annotations = [q \in {port} \cup DOMAIN svc.annotations |->
                         IF q \in {port} THEN patch.annotations[q]
                         ELSE svc.annotations[q]]
  BY <1>2 DEF Patched
<1>4. GetLbPolicy(p.annotations, port) = b.lb
  BY <1>2, <1>3 DEF GetLbPolicy
<1>5. ASSUME NEW q
      PROVE  GetLbPolicy(p.annotations, q) \in LbPolicy \cup {Failed}
  <2>1. \A r \in DOMAIN svc.annotations : svc.annotations[r] \in LbPolicy \cup {Failed}
    BY BackendConstants
  <2>2. [type |-> "Unspecified"] \in LbPolicy
    BY DEF LbPolicy
  <2> QED BY <1>1, <1>2, <1>3, <2>1, <2>2 DEF GetLbPolicy
<1>6. CASE s.kind = "kube"
  <2>1. /\ s = [kind |-> "kube", name |-> s.name, namespace |-> s.namespace]
        /\ s.name \in Label /\ s.namespace \in Label
    BY <1>1, <1>6 DEF Service
  <2>2. s.name # None /\ s.namespace # None /\ <<port>> # None
    <3>1. <<port>> \in Seq(Port)
      BY <1>1
    <3>2. None \notin Label /\ None \notin Seq(Port)
      BY BackendConstants
    <3> QED BY <2>1, <3>1, <3>2
  <2>3. /\ p.type = "ClusterIP" /\ p.name = s.name
        /\ p.namespace = s.namespace /\ p.ports = <<port>>
    BY <1>6, <2>2 DEF Patched, BackendToServicePatch, OrElse
  <2> QED
    BY <1>4, <1>5, <2>1, <2>2, <2>3
    DEF ServiceTarget, ServicePorts, KubeService, OrElse
<1>7. CASE s.kind # "kube"
  <2>1. s = [kind |-> "dns", hostname |-> s.hostname] /\ s.hostname \in Hostname
    BY <1>1, <1>7 DEF Service
  <2>2. s.hostname # None
    BY <2>1, BackendConstants
  <2>3. p.type = "ExternalName" /\ p.external = s.hostname
    BY <1>7, <2>2 DEF Patched, BackendToServicePatch, OrElse
  <2> QED BY <1>4, <1>5, <1>7, <2>1, <2>2, <2>3 DEF ServiceTarget, DnsService
<1> QED BY <1>6, <1>7

\* Backend::from_service of such a Service.
LEMMA ServiceReadsBack ==
    ASSUME NEW b \in Backend, NEW svc \in ExistingService,
           NEW p, p = Patched(svc, BackendToServicePatch(b)),
           BackendsFromService(p) # Failed,
           NEW i \in DOMAIN BackendsFromService(p)
    PROVE  LET r == BackendsFromService(p)[i]
           IN  /\ r \in Backend
               /\ r.id.service = b.id.service
               /\ r.id.port = b.id.port \/ b.id.service.kind = "dns"
               /\ r.id = b.id => r.lb = b.lb
<1> DEFINE ports == ServicePorts(p)
           lbs == [j \in DOMAIN ports |-> GetLbPolicy(p.annotations, ports[j])]
           target == ServiceTarget(p)
           r == BackendsFromService(p)[i]
<1>1. /\ target # Failed /\ Range(ports) \subseteq Port
      /\ Parsed(ports, LAMBDA port : GetLbPolicy(p.annotations, port)) = lbs
      /\ Failed \notin Range(lbs)
  BY DEF BackendsFromService, Parsed, Results, Mapped
<1>2. BackendsFromService(p)
        = [j \in DOMAIN ports |->
             [id |-> [service |-> target, port |-> ports[j]], lb |-> lbs[j]]]
  BY <1>1 DEF BackendsFromService
<1>3. /\ i \in DOMAIN ports
      /\ r = [id |-> [service |-> target, port |-> ports[i]],
              lb |-> GetLbPolicy(p.annotations, ports[i])]
  BY <1>2
<1>4. ports[i] \in Port /\ GetLbPolicy(p.annotations, ports[i]) # Failed
  BY <1>1, <1>3 DEF Range
<1> HIDE DEF ports, lbs, target, r
<1>5. /\ b.id.service \in Service
      /\ b.id.service.kind \in {"kube", "dns"}
  BY DEF Backend, BackendId, Service
<1>6. /\ target = b.id.service
      /\ b.id.service.kind = "kube" => ports = <<b.id.port>>
      /\ GetLbPolicy(p.annotations, b.id.port) = b.lb
      /\ GetLbPolicy(p.annotations, ports[i]) \in LbPolicy
  BY <1>1, <1>4, PatchSays DEF target, ports
<1>7. r \in Backend
  BY <1>3, <1>4, <1>5, <1>6 DEF Backend, BackendId
<1>8. ports[i] = b.id.port \/ b.id.service.kind = "dns"
  BY <1>3, <1>5, <1>6
<1>9. r.id = b.id => r.lb = b.lb
  BY <1>3, <1>6
<1> QED BY <1>3, <1>6, <1>7, <1>8, <1>9 DEF r

----------------------------------------------------------------------------
(* The invariant: a backend on its way is what was last written, in the    *)
(* form it has reached, or it comes from others and nothing is known yet.  *)

BackendOnItsWay ==
    /\ form = "backend" => value \in Backend
    /\ form = "cluster" => \/ last = None /\ value \in WireBackend
                           \/ last \in Backend /\ value = BackendOnWire(last)
    /\ form = "service" =>
          /\ last \in Backend /\ ranked
          /\ \E svc \in ExistingService :
                value = Patched(svc, BackendToServicePatch(last))

BInv == BackendOnItsWay /\ BackendsAlike

LEMMA BInvInit == Init => BInv
<1> SUFFICES ASSUME Init PROVE BInv
  OBVIOUS
<1>1. AuthoredBackend \subseteq Backend
  BY BackendConstants
<1> QED BY <1>1 DEF Init, Begin, BInv, BackendOnItsWay, BackendsAlike

LEMMA BInvNext == BInv /\ [Next]_vars => BInv'
<1> SUFFICES ASSUME BInv, [Next]_vars PROVE BInv'
  OBVIOUS
<1> USE DEF BInv
<1>1. ASSUME form' \notin {"backend", "cluster", "service"}
      PROVE  BInv'
  BY <1>1 DEF BackendOnItsWay, BackendsAlike
<1>2. CASE ToXds
  BY <1>1, <1>2 DEF ToXds, Become
<1>3. CASE FromXds
  BY <1>1, <1>3 DEF FromXds, Become
<1>4. CASE ToGateway
  BY <1>1, <1>4 DEF ToGateway, Become
<1>5. CASE FromGateway
  BY <1>1, <1>5 DEF FromGateway, Become
<1>6. CASE BackendToCluster
  <2>1. /\ form = "backend" /\ last' = value /\ value' = BackendOnWire(value)
        /\ form' \in {"cluster", "failed"}
    BY <1>6 DEF BackendToCluster, Become
  <2>2. value \in Backend
    BY <2>1 DEF BackendOnItsWay
  <2> QED BY <2>1, <2>2 DEF BackendOnItsWay, BackendsAlike
<1>7. CASE ClusterToBackend
  <2> DEFINE read == BackendFromXds(value.cluster, value.action)
  <2>1. /\ form = "cluster" /\ last' = last /\ value' = read
        /\ form' = IF read = Failed THEN "failed" ELSE "backend"
    BY <1>7 DEF ClusterToBackend, Become
  <2>2. CASE read = Failed
    BY <1>1, <2>1, <2>2
  <2>3. CASE read # Failed /\ last = None
    <3>1. CASE value \in WireBackend
      <4>1. read \in Backend
        BY <2>3, <3>1, BackendRead
      <4> HIDE DEF read
      <4> QED BY <2>1, <2>3, <4>1 DEF BackendOnItsWay, BackendsAlike
    <3>2. CASE last \in Backend /\ value = BackendOnWire(last)
      <4>1. read = last
        BY <2>3, <3>2, BackendReadBack
      <4> HIDE DEF read
      <4> QED BY <2>1, <2>3, <3>2, <4>1 DEF BackendOnItsWay, BackendsAlike
    <3> QED BY <2>1, <3>1, <3>2 DEF BackendOnItsWay
  <2>4. CASE read # Failed /\ last # None
    <3>1. last \in Backend /\ value = BackendOnWire(last)
      BY <2>1, <2>4 DEF BackendOnItsWay
    <3>2. read = last
      BY <2>4, <3>1, BackendReadBack
    <3> HIDE DEF read
    <3> QED BY <2>1, <2>4, <3>1, <3>2 DEF BackendOnItsWay, BackendsAlike
  <2> QED BY <2>2, <2>3, <2>4
<1>8. CASE PatchService
  <2>1. PICK svc \in ExistingService :
            Become("service", Patched(svc, BackendToServicePatch(value)))
    BY <1>8 DEF PatchService
  <2>2. /\ form = "backend" /\ last' = value /\ ranked' = TRUE
        /\ value' = Patched(svc, BackendToServicePatch(value))
        /\ form' \in {"service", "failed"}
    BY <1>8, <2>1 DEF PatchService, Become
  <2>3. value \in Backend
    BY <2>2 DEF BackendOnItsWay
  <2> QED BY <2>2, <2>3 DEF BackendOnItsWay, BackendsAlike
<1>9. CASE ReadService
  <2> DEFINE backends == BackendsFromService(value)
  <2>1. /\ form = "service" /\ last' = last /\ ranked' = ranked
    BY <1>9 DEF ReadService
  <2>2. PICK svc \in ExistingService :
            value = Patched(svc, BackendToServicePatch(last))
    BY <2>1 DEF BackendOnItsWay
  <2>3. last \in Backend /\ ranked
    BY <2>1 DEF BackendOnItsWay
  <2>4. CASE backends = Failed
    BY <1>1, <1>9, <2>4 DEF ReadService, Become
  <2>5. CASE backends # Failed
    <3>1. PICK i \in DOMAIN backends : Become("backend", backends[i])
      BY <1>9, <2>5 DEF ReadService
    <3>2. value' = backends[i] /\ form' \in {"backend", "failed"}
      BY <3>1 DEF Become
    <3>3. /\ backends[i] \in Backend
          /\ backends[i].id.service = last.id.service
          /\ backends[i].id.port = last.id.port \/ last.id.service.kind = "dns"
          /\ backends[i].id = last.id => backends[i].lb = last.lb
      BY <2>2, <2>3, <2>5, ServiceReadsBack
    <3> HIDE DEF backends
    <3> QED BY <2>1, <2>3, <3>2, <3>3 DEF BackendOnItsWay, BackendsAlike
  <2> QED BY <2>4, <2>5
<1>10. CASE UNCHANGED vars
  BY <1>10 DEF vars, BackendOnItsWay, BackendsAlike
<1> QED
  BY <1>2, <1>3, <1>4, <1>5, <1>6, <1>7, <1>8, <1>9, <1>10 DEF Next

----------------------------------------------------------------------------
(* The invariant: a route on its way is of its type and decides what it    *)
(* decided where it began, or by rank once it has been an HTTPRoute; as an *)
(* HTTPRoute it is the one that was written, or it comes from others.      *)

RouteTyped ==
    /\ form = "route" => value \in Route /\ Plain(value)
    /\ form = "xds" => value \in RouteConfiguration /\ Expressible(value)
    /\ form = "httproute" => value \in HttpRoute /\ Plain(value)

Decides(f, v, r) == IF f = "xds" THEN WireDecides(v, r) ELSE RouteDecides(v, r)

RouteOnItsWay ==
    /\ form \in {"route", "xds"} /\ ~ranked =>
          /\ origin.form \in {"route", "xds"}
          /\ \A r \in Requests : Decides(form, value, r) = OriginDecides(r)
    /\ form = "httproute" =>
          \/ origin.form = "httproute"
          \/ /\ origin.form = "route" /\ origin.value \in Route /\ Plain(origin.value)
             /\ \E namespace \in Namespace : value = RouteToGateway(origin.value, namespace)

Counted ==
    /\ form \in Forms /\ origin.form \in Forms /\ ranked \in BOOLEAN
    /\ trips \in 0..MaxTrips /\ (form \in {"xds", "cluster"} => trips < MaxTrips)
    /\ form \in {"failed", "panicked"} <=> value = Failed

Inv == Counted /\ RouteTyped /\ RouteOnItsWay /\ RankDecides /\ BInv

LEMMA InvInit == Init => Inv
<1> SUFFICES ASSUME Init  PROVE Inv
  OBVIOUS
<1>1. /\ ranked = FALSE /\ trips = 0 /\ MaxTrips \in Nat \ {0}
      /\ origin.form = form /\ origin.value = value
      /\ \/ form = "route" /\ value \in Route /\ Plain(value)
         \/ form = "xds" /\ value \in RouteConfiguration /\ Expressible(value)
         \/ form = "httproute" /\ value \in HttpRoute /\ Plain(value)
         \/ form = "backend" /\ value \in AuthoredBackend
         \/ form = "cluster" /\ value \in WireBackend
  BY RouteConstants DEF Init, Begin
<1>2. value # Failed
  BY <1>1, NoneIsApart, BackendConstants
<1>3. Counted
  <2>1. form \in {"route", "xds", "httproute", "backend", "cluster"} /\ 0 \in 0..MaxTrips /\ 0 < MaxTrips
    BY <1>1
  <2>2. form \in Forms /\ form \notin {"failed", "panicked"}
    BY <2>1 DEF Forms
  <2> QED  BY <1>1, <1>2, <2>1, <2>2 DEF Counted
<1>4. RouteTyped
  BY <1>1 DEF RouteTyped
<1>5. RouteOnItsWay
  BY <1>1 DEF RouteOnItsWay, Decides, OriginDecides
<1>6. RankDecides
  BY <1>1 DEF RankDecides
<1> QED  BY <1>3, <1>4, <1>5, <1>6, BInvInit DEF Inv

LEMMA CountedNext == Inv /\ [Next]_vars => Counted'
<1> SUFFICES ASSUME Inv, [Next]_vars  PROVE Counted'
  OBVIOUS
<1>1. Counted /\ MaxTrips \in Nat \ {0}
  BY RouteConstants DEF Inv
<1>2. CASE ToXds
  BY <1>1, <1>2 DEF ToXds, Become, Counted, Forms
<1>3. CASE FromXds
  BY <1>1, <1>3 DEF FromXds, Become, Counted, Forms
<1>4. CASE ToGateway
  BY <1>1, <1>4 DEF ToGateway, Become, Counted, Forms
<1>5. CASE FromGateway
  <2>1. /\ form' \in Forms /\ (form' \in {"failed", "panicked"} <=> value' = Failed)
        /\ form' \notin {"xds", "cluster"} /\ origin'.form \in Forms
    BY <1>1, <1>5 DEF FromGateway, Become, Counted, Forms
  <2> QED  BY <1>1, <1>5, <2>1 DEF FromGateway, Counted
<1>6. CASE BackendToCluster
  BY <1>1, <1>6 DEF BackendToCluster, Become, Counted, Forms
<1>7. CASE ClusterToBackend
  BY <1>1, <1>7 DEF ClusterToBackend, Become, Counted, Forms
<1>8. CASE PatchService
  BY <1>1, <1>8 DEF PatchService, Become, Counted, Forms
<1>9. CASE ReadService
  BY <1>1, <1>9 DEF ReadService, Become, Counted, Forms
<1>10. CASE UNCHANGED vars
  BY <1>1, <1>10 DEF vars, Counted
<1> QED
  BY <1>2, <1>3, <1>4, <1>5, <1>6, <1>7, <1>8, <1>9, <1>10 DEF Next

\* What a step of a backend leaves alone.
LEMMA NoRoute ==
    ASSUME form' \notin {"route", "xds", "httproute"}
    PROVE  RouteTyped' /\ RouteOnItsWay' /\ RankDecides'
BY DEF RouteTyped, RouteOnItsWay, RankDecides

LEMMA RouteNext == Inv /\ [Next]_vars => RouteTyped' /\ RouteOnItsWay' /\ RankDecides'
<1> SUFFICES ASSUME Inv, [Next]_vars  PROVE RouteTyped' /\ RouteOnItsWay' /\ RankDecides'
  OBVIOUS
<1>1. RouteTyped /\ RouteOnItsWay /\ RankDecides
  BY DEF Inv
<1>2. \A r \in Requests : Legible(r)
  BY RequestConstants
<1>3. CASE ToXds
  <2> DEFINE x == RouteToXds(value)
  <2>1. /\ form = "route" /\ value' = x /\ origin' = origin /\ ranked' = ranked
        /\ form' \in {"xds", "failed"}
    BY <1>3 DEF ToXds, Become
  <2>2. value \in Route /\ Plain(value)
    BY <1>1, <2>1 DEF RouteTyped
  <2>3. /\ x \in RouteConfiguration /\ Expressible(x)
        /\ \A r \in Requests : WireDecides(x, r) = RouteDecides(value, r)
    BY <1>2, <2>2, RouteWritten
  <2> HIDE DEF x
  <2>4. CASE form' = "failed"
    BY <2>4, NoRoute
  <2>5. CASE form' = "xds"
    <3>1. RouteTyped'
      BY <2>1, <2>3, <2>5 DEF RouteTyped
    <3>2. RouteOnItsWay'
      BY <1>1, <2>1, <2>3, <2>5 DEF RouteOnItsWay, Decides, OriginDecides
    <3>3. RankDecides'
      BY <1>1, <2>1, <2>3, <2>5 DEF RankDecides
    <3> QED  BY <3>1, <3>2, <3>3
  <2> QED  BY <2>1, <2>4, <2>5
<1>4. CASE FromXds
  <2> DEFINE read == RouteFromXds(value)
             panics == Len(value.vhosts) = 1 /\ \E p \in Policies(value) : RetryPanics(p)
  <2>1. /\ form = "xds" /\ origin' = origin /\ ranked' = ranked
        /\ panics => form' = "panicked"
        /\ ~panics => value' = read /\ form' = IF read = Failed THEN "failed" ELSE "route"
    BY <1>4 DEF FromXds, Become
  <2>2. value \in RouteConfiguration /\ Expressible(value)
    BY <1>1, <2>1 DEF RouteTyped
  <2>3. CASE panics \/ read = Failed
    <3>1. form' \notin {"route", "xds", "httproute"}
      BY <2>1, <2>3
    <3> QED  BY <3>1, NoRoute
  <2>4. CASE ~panics /\ read # Failed
    <3>1. /\ read \in Route /\ Plain(read)
          /\ \A r \in Requests : RouteDecides(read, r) = WireDecides(value, r)
      BY <1>2, <2>2, <2>4, RouteRead
    <3>2. form' = "route" /\ value' = read
      BY <2>1, <2>4
    <3> HIDE DEF read, panics
    <3>3. RouteTyped'
      BY <3>1, <3>2 DEF RouteTyped
    <3>4. RouteOnItsWay'
      BY <1>1, <2>1, <3>1, <3>2 DEF RouteOnItsWay, Decides, OriginDecides
    <3>5. RankDecides'
      BY <1>1, <2>1, <3>1, <3>2 DEF RankDecides
    <3> QED  BY <3>3, <3>4, <3>5
  <2> QED  BY <2>3, <2>4
<1>5. CASE ToGateway
  <2>1. PICK namespace \in Namespace : Become("httproute", RouteToGateway(value, namespace))
    BY <1>5 DEF ToGateway
  <2> DEFINE h == RouteToGateway(value, namespace)
  <2>2. /\ form = "route" /\ ~ranked' /\ origin' = [form |-> "route", value |-> value]
        /\ value' = h /\ form' = IF h = Failed THEN "failed" ELSE "httproute"
    BY <1>5, <2>1 DEF ToGateway, Become
  <2>3. value \in Route /\ Plain(value) /\ namespace \in Label
    BY <1>1, <2>2, RouteConstants DEF RouteTyped
  <2>4. CASE h = Failed
    <3>1. form' = "failed"
      BY <2>2, <2>4
    <3> QED  BY <3>1, NoRoute
  <2>5. CASE h # Failed
    <3>1. h \in HttpRoute /\ Plain(h)
      BY <2>3, <2>5, GatewayRouteWritten
    <3>2. /\ form' = "httproute" /\ value' = RouteToGateway(value, namespace)
          /\ origin'.form = "route" /\ origin'.value = value
      BY <2>2, <2>5
    <3>3. RouteTyped'
      BY <2>2, <3>1, <3>2 DEF RouteTyped
    <3>4. RouteOnItsWay'
      BY <2>3, <3>2 DEF RouteOnItsWay
    <3>5. RankDecides'
      BY <2>2 DEF RankDecides
    <3> QED  BY <3>3, <3>4, <3>5
  <2> QED  BY <2>4, <2>5
<1>6. CASE FromGateway
  <2> DEFINE back == RouteFromGateway(value)
             panics == RouteFromGatewayPanics(value)
  <2>1. /\ form = "httproute" /\ ranked' = TRUE
        /\ panics => form' = "panicked"
        /\ ~panics => value' = back /\ form' = IF back = Failed THEN "failed" ELSE "route"
        /\ origin' = IF origin.form = "httproute" THEN [form |-> form', value |-> value']
                     ELSE origin
    BY <1>6 DEF FromGateway, Become
  <2>2. value \in HttpRoute /\ Plain(value)
    BY <1>1, <2>1 DEF RouteTyped
  <2>3. CASE panics \/ back = Failed
    <3>1. form' \notin {"route", "xds", "httproute"}
      BY <2>1, <2>3
    <3> QED  BY <3>1, NoRoute
  <2>4. CASE ~panics /\ back # Failed
    <3>1. back \in Route /\ Plain(back) /\ Sorted(back.rules)
      BY <2>2, <2>4, GatewayRouteRead
    <3>2. form' = "route" /\ value' = back
      BY <2>1, <2>4
    <3>3. CASE origin.form = "httproute"
      <4>1. origin'.value = back
        BY <2>1, <3>2, <3>3
      <4>2. \A r \in Requests : RouteDecides(back, r) = RankedDecides(back, r)
        BY <3>1, SortedDecides
      <4> HIDE DEF back, panics
      <4> QED  BY <2>1, <3>1, <3>2, <4>1, <4>2 DEF RouteTyped, RouteOnItsWay, RankDecides
    <3>4. CASE origin.form # "httproute"
      <4>1. PICK namespace \in Namespace :
               /\ origin.value \in Route /\ Plain(origin.value)
               /\ value = RouteToGateway(origin.value, namespace)
        BY <1>1, <2>1, <3>4 DEF RouteOnItsWay
      <4>2. value # Failed /\ namespace \in Label
        BY <2>2, NoneIsApart, RouteConstants
      <4>3. \A r \in Requests : RouteDecides(back, r) = RankedDecides(origin.value, r)
        BY <2>4, <4>1, <4>2, RankedBack
      <4>4. origin' = origin
        BY <2>1, <3>4
      <4> HIDE DEF back, panics
      <4> QED  BY <2>1, <3>1, <3>2, <4>3, <4>4 DEF RouteTyped, RouteOnItsWay, RankDecides
    <3> QED  BY <3>3, <3>4
  <2> QED  BY <2>3, <2>4
<1>7. CASE BackendToCluster
  BY <1>7, NoRoute DEF BackendToCluster, Become
<1>8. CASE ClusterToBackend
  BY <1>8, NoRoute DEF ClusterToBackend, Become
<1>9. CASE PatchService
  BY <1>9, NoRoute DEF PatchService, Become
<1>10. CASE ReadService
  BY <1>10, NoRoute DEF ReadService, Become
<1>11. CASE UNCHANGED vars
  BY <1>1, <1>11 DEF vars, RouteTyped, RouteOnItsWay, RankDecides, OriginDecides
<1> QED
  BY <1>3, <1>4, <1>5, <1>6, <1>7, <1>8, <1>9, <1>10, <1>11 DEF Next

LEMMA InvHolds == Spec => []Inv
<1>1. Inv /\ [Next]_vars => Inv'
  BY CountedNext, RouteNext, BInvNext DEF Inv
<1> QED  BY InvInit, <1>1, PTL DEF Spec

\* Whatever is on its way is a route, a route configuration, an HTTPRoute, a
\* backend, a Service or a cluster as its form says, or an error, through every
\* conversion (Route::to_xds, from_xds, to_gateway_httproute, ... of
\* junction-api).
THEOREM EveryWayIsTyped == Spec => []TypeOK
<1>1. Inv => TypeOK
  BY DEF Inv, Counted, RouteTyped, TypeOK, BInv, BackendOnItsWay
<1> QED  BY InvHolds, <1>1, PTL

\* However often a route is published as xDS and read by a client, it decides
\* for every request what it decided where it began: the same rule, with the
\* same backends, timeouts and retries (Route::to_xds, Route::from_xds).
THEOREM MeaningSurvives == Spec => []MeaningKept
<1>1. Inv => MeaningKept
  BY DEF Inv, RouteOnItsWay, MeaningKept, Decides
<1> QED  BY InvHolds, <1>1, PTL

\* A route that is read from the HTTPRoute it was written as decides by the
\* rules of highest rank among those that match
\* (Route::from_gateway_httproute, which sorts what it reads).
THEOREM RankSurvives == Spec => []RankDecides
<1>1. Inv => RankDecides
  BY DEF Inv
<1> QED  BY InvHolds, <1>1, PTL

\* What a backend says of its service, its port and its policy survives
\* Kubernetes and xDS: read back, it is the backend that was written, or the
\* reading fails (Backend::to_service_patch, from_service, to_xds, from_xds).
THEOREM BackendsSurvive == Spec => []BackendsAlike
<1>1. Inv => BackendsAlike
  BY DEF Inv, BInv
<1> QED  BY InvHolds, <1>1, PTL

----------------------------------------------------------------------------
(* Runs one after the other are the routes they were taken from.           *)

LEMMA SmallestOfInterval ==
    ASSUME NEW a \in Nat, NEW l \in Nat, NEW k \in 1..l
    PROVE  Smallest((a + 1)..(a + l), k) = a + k
<1> DEFINE S == (a + 1)..(a + l)
           n == a + k
<1>1. n \in S /\ n \in Nat /\ S \in SUBSET Nat
  OBVIOUS
<1>2. {m \in S : m <= n} = (a + 1)..n
  OBVIOUS
<1>3. IsFiniteSet(S) /\ Cardinality((a + 1)..n) = k
  BY FS_Interval
<1> HIDE DEF n, S
<1>4. Smallest(S, Cardinality({m \in S : m <= n})) = n
  BY <1>1, <1>3, CountedUpTo
<1> QED  BY <1>2, <1>3, <1>4 DEF n, S

LEMMA DownwardsIs ==
    ASSUME NEW N \in Nat, NEW S \in SUBSET (1..N), \A i \in S : \A j \in 1..i : j \in S
    PROVE  S = 1..Cardinality(S)
<1> DEFINE rest == (1..(N + 1)) \ S
<1>1. rest \subseteq Nat /\ N + 1 \in rest
  OBVIOUS
<1>2. PICK b \in rest : \A n \in rest : b <= n
  <2> HIDE DEF rest
  <2> QED  BY <1>1, LeastNumber
<1>3. b \in 1..(N + 1) /\ b \notin S
  OBVIOUS
<1>4. S \subseteq 1..(b - 1)
  <2> SUFFICES ASSUME NEW i \in S PROVE i \in 1..(b - 1)
    OBVIOUS
  <2>1. i \in 1..N /\ ~(b \in 1..i)
    BY <1>3
  <2> HIDE DEF rest
  <2> QED  BY <1>3, <2>1
<1>5. ASSUME NEW j \in 1..(b - 1) PROVE j \in S
  <2>1. j \in 1..(N + 1) /\ ~(b <= j)
    BY <1>3
  <2> QED  BY <1>2, <2>1
<1>6. S = 1..(b - 1)
  BY <1>4, <1>5
<1>7. Cardinality(1..(b - 1)) = b - 1
  <2>1. b - 1 \in Nat
    BY <1>3
  <2> HIDE DEF rest
  <2> QED  BY <2>1, FS_Interval
<1> QED  BY <1>6, <1>7

LEMMA GroupedFlat ==
    ASSUME NEW T, NEW routes \in Seq(T)
    PROVE  FlattenSeq(Grouped(routes)) = routes
<1> DEFINE gs == Grouped(routes)
           all == FlattenSeq(gs)
           N == Len(routes)
           upTo(k) == {i \in 1..N : RunOf(routes, i) <= k}
<1>1. DOMAIN routes = 1..N /\ N \in Nat
  OBVIOUS
<1>2. /\ gs = [k \in 1..Cardinality(Starts(routes)) |-> gs[k]]
      /\ \A k \in 1..Cardinality(Starts(routes)) :
            gs[k] \in Seq(T) /\ Len(gs[k]) = Cardinality(Run(routes, k))
  BY GroupsAre
<1>3. Cardinality(Starts(routes)) \in Nat
  BY RunsAre
<1>4. /\ gs \in Seq(Seq(T)) /\ Len(gs) = Cardinality(Starts(routes))
      /\ \A k \in 1..Len(gs) : /\ Len(gs[k]) = Cardinality(Run(routes, k))
                               /\ gs[k] = Those(routes, Run(routes, k))
  <2>1. \A k \in 1..Cardinality(Starts(routes)) : gs[k] = Those(routes, Run(routes, k))
    BY DEF Grouped, Run
  <2> HIDE DEF gs
  <2> QED  BY <1>2, <1>3, <2>1, ListIsSequence
<1>5. /\ \A i \in 1..N : RunOf(routes, i) \in 1..Len(gs)
      /\ \A i, j \in 1..N : i <= j => RunOf(routes, i) <= RunOf(routes, j)
  <2> HIDE DEF gs
  <2> QED  BY <1>1, <1>4, RunsAre
<1> HIDE DEF gs
<1>6. all \in Seq(T)
  BY <1>4, FlattenLays
<1>7. PICK at \in [0..Len(gs) -> Nat] : Laid(gs, all, at)
  BY <1>4, FlattenLays
<1>8. Len(gs) \in Nat
  BY <1>4
<1> HIDE DEF all
<1>9. \A k \in 1..Len(gs) : /\ at[k] = at[k - 1] + Cardinality(Run(routes, k))
                            /\ k - 1 \in 0..Len(gs) /\ k \in 0..Len(gs)
                            /\ at[k] \in Nat /\ at[k - 1] \in Nat
                            /\ Cardinality(Run(routes, k)) \in Nat
  <2> TAKE k \in 1..Len(gs)
  <2>1. k - 1 \in 0..Len(gs) /\ k \in 0..Len(gs)
    BY <1>8
  <2>2. at[k] \in Nat /\ at[k - 1] \in Nat
    BY <2>1
  <2>3. at[k] = at[k - 1] + Len(gs[k])
    BY <1>7 DEF Laid
  <2>4. Len(gs[k]) \in Nat
    BY <1>4
  <2> QED  BY <1>4, <2>1, <2>2, <2>3, <2>4
<1>10. ASSUME NEW k \in 0..Len(gs) PROVE upTo(k) = 1..Cardinality(upTo(k))
  <2>1. upTo(k) \in SUBSET (1..N)
    OBVIOUS
  <2>2. \A i \in upTo(k) : \A j \in 1..i : j \in upTo(k)
    <3> TAKE i \in upTo(k)
    <3> TAKE j \in 1..i
    <3>1. i \in 1..N /\ j \in 1..N /\ j <= i
      BY <1>1
    <3>2. /\ RunOf(routes, i) <= k /\ RunOf(routes, j) <= RunOf(routes, i)
          /\ RunOf(routes, i) \in Nat /\ RunOf(routes, j) \in Nat /\ k \in Nat
      BY <1>5, <1>8, <3>1
    <3>3. RunOf(routes, j) <= k
      BY <3>2
    <3> QED  BY <3>1, <3>3
  <2> HIDE DEF upTo
  <2> QED  BY <1>1, <2>1, <2>2, DownwardsIs
<1>11. \A k \in 0..Len(gs) : upTo(k) = 1..at[k]
  <2> DEFINE wrong == {k \in 0..Len(gs) : upTo(k) # 1..at[k]}
  <2> SUFFICES ASSUME wrong # {} PROVE FALSE
    OBVIOUS
  <2>1. PICK k \in wrong : \A l \in wrong : k <= l
    <3>1. wrong \subseteq Nat
      BY <1>8
    <3> HIDE DEF wrong
    <3> QED  BY <3>1, LeastNumber
  <2>2. k \in 0..Len(gs) /\ upTo(k) # 1..at[k]
    OBVIOUS
  <2>3. CASE k = 0
    <3>1. at[0] = 0
      BY <1>7 DEF Laid
    <3>2. upTo(0) = {}
      <4>1. \A i \in 1..N : ~(RunOf(routes, i) <= 0)
        BY <1>5, <1>8
      <4> QED  BY <4>1
    <3>3. 1..0 = {}
      OBVIOUS
    <3> HIDE DEF upTo, wrong
    <3> QED  BY <2>2, <2>3, <3>1, <3>2, <3>3
  <2>4. CASE k # 0
    <3>1. k \in 1..Len(gs) /\ k - 1 \in 0..Len(gs) /\ ~(k <= k - 1)
      BY <1>8, <2>2, <2>4
    <3>2. upTo(k - 1) = 1..at[k - 1]
      BY <2>1, <3>1
    <3>3. upTo(k) = upTo(k - 1) \cup Run(routes, k) /\ upTo(k - 1) \cap Run(routes, k) = {}
      <4>1. \A i \in 1..N : /\ RunOf(routes, i) <= k <=> RunOf(routes, i) <= k - 1 \/ RunOf(routes, i) = k
                            /\ ~(RunOf(routes, i) <= k - 1 /\ RunOf(routes, i) = k)
        <5> TAKE i \in 1..N
        <5>1. RunOf(routes, i) \in Nat /\ k \in Nat
          BY <1>5, <1>8, <3>1
        <5> QED  BY <5>1
      <4> QED  BY <1>1, <4>1 DEF Run
    <3>4. /\ IsFiniteSet(upTo(k - 1)) /\ IsFiniteSet(Run(routes, k))
          /\ Cardinality(upTo(k - 1)) = at[k - 1]
      <4>1. Run(routes, k) \subseteq 1..N /\ IsFiniteSet(1..N)
        BY <1>1, FS_Interval DEF Run
      <4>2. IsFiniteSet(1..at[k - 1]) /\ Cardinality(1..at[k - 1]) = at[k - 1]
        <5>1. \A a \in Nat : IsFiniteSet(1..a) /\ Cardinality(1..a) = a
          <6> TAKE a \in Nat
          <6>1. 1 \in Int /\ a \in Int
            OBVIOUS
          <6>2. IsFiniteSet(1..a) /\ Cardinality(1..a) = IF 1 > a THEN 0 ELSE a - 1 + 1
            <7> HIDE DEF upTo, wrong
            <7> QED  BY <6>1, FS_Interval
          <6>3. (IF 1 > a THEN 0 ELSE a - 1 + 1) = a
            OBVIOUS
          <6> QED  BY <6>2, <6>3
        <5> HIDE DEF upTo, wrong
        <5> QED  BY <1>9, <3>1, <5>1
      <4> HIDE DEF upTo, wrong
      <4> QED  BY <3>2, <4>1, <4>2, FS_Subset
    <3>5. Cardinality(upTo(k)) = at[k]
      <4>1. Cardinality({}) = 0
        BY FS_EmptySet
      <4>2. Cardinality(upTo(k)) = Cardinality(upTo(k - 1)) + Cardinality(Run(routes, k)) - 0
        <5> HIDE DEF upTo, wrong
        <5> QED  BY <3>3, <3>4, <4>1, FS_Union
      <4> HIDE DEF upTo, wrong
      <4> QED  BY <1>9, <3>1, <3>4, <4>2
    <3> HIDE DEF upTo, wrong
    <3> QED  BY <1>10, <2>2, <3>5
  <2> QED  BY <2>3, <2>4
<1>12. ASSUME NEW k \in 1..Len(gs)
       PROVE  /\ Run(routes, k) = (at[k - 1] + 1)..(at[k - 1] + Len(gs[k]))
              /\ \A j \in 1..Len(gs[k]) : /\ at[k - 1] + j \in 1..N
                                         /\ all[at[k - 1] + j] = routes[at[k - 1] + j]
  <2>1. /\ at[k] = at[k - 1] + Len(gs[k]) /\ at[k] \in Nat /\ at[k - 1] \in Nat
        /\ Len(gs[k]) \in Nat /\ k \in 0..Len(gs) /\ k - 1 \in 0..Len(gs)
    BY <1>4, <1>9
  <2>2. Run(routes, k) = upTo(k) \ upTo(k - 1)
    <3>1. \A i \in 1..N : RunOf(routes, i) = k <=> RunOf(routes, i) <= k /\ ~(RunOf(routes, i) <= k - 1)
      <4> TAKE i \in 1..N
      <4>1. RunOf(routes, i) \in Nat /\ k \in Nat
        BY <1>5, <1>8
      <4> QED  BY <4>1
    <3> QED  BY <1>1, <3>1 DEF Run
  <2>3. upTo(k) = 1..at[k] /\ upTo(k - 1) = 1..at[k - 1] /\ upTo(k) \subseteq 1..N
    <3>1. upTo(k) \subseteq 1..N
      OBVIOUS
    <3> HIDE DEF upTo
    <3> QED  BY <1>11, <2>1, <3>1
  <2> HIDE DEF upTo
  <2>4. Run(routes, k) = (1..at[k]) \ (1..at[k - 1])
    BY <2>2, <2>3
  <2>5. Run(routes, k) = (at[k - 1] + 1)..(at[k - 1] + Len(gs[k]))
    <3> DEFINE a == at[k - 1]
               l == Len(gs[k])
    <3>1. a \in Nat /\ l \in Nat /\ at[k] = a + l
      BY <2>1
    <3> HIDE DEF a, l
    <3>2. (1..(a + l)) \ (1..a) = (a + 1)..(a + l)
      BY <3>1
    <3> QED  BY <2>4, <3>1, <3>2 DEF a, l
  <2>6. ASSUME NEW j \in 1..Len(gs[k])
        PROVE  /\ at[k - 1] + j \in 1..N
               /\ all[at[k - 1] + j] = routes[at[k - 1] + j]
    <3>1. at[k - 1] + j \in 1..at[k]
      BY <2>1
    <3>2. all[at[k - 1] + j] = gs[k][j]
      BY <1>7 DEF Laid
    <3>3. gs[k][j] = routes[Smallest(Run(routes, k), j)]
      BY <1>4, <2>1 DEF Those
    <3>4. Smallest(Run(routes, k), j) = at[k - 1] + j
      BY <2>1, <2>5, SmallestOfInterval
    <3> QED  BY <2>3, <3>1, <3>2, <3>3, <3>4
  <2> QED  BY <2>5, <2>6
<1>13. Len(all) = N
  <2>1. upTo(Len(gs)) = 1..N
    <3>1. \A i \in 1..N : RunOf(routes, i) <= Len(gs)
      BY <1>5, <1>8
    <3> QED  BY <3>1
  <2>2. 1..N = 1..at[Len(gs)] /\ at[Len(gs)] \in Nat
    <3>1. Len(gs) \in 0..Len(gs)
      BY <1>8
    <3> HIDE DEF upTo
    <3> QED  BY <1>11, <2>1, <3>1
  <2>3. N = at[Len(gs)]
    <3>1. Cardinality(1..N) = N /\ Cardinality(1..at[Len(gs)]) = at[Len(gs)]
      <4>1. \A a \in Nat : Cardinality(1..a) = a
        BY FS_Interval
      <4> HIDE DEF upTo, N
      <4> QED  BY <1>1, <2>2, <4>1
    <3> QED  BY <2>2, <3>1
  <2> QED  BY <1>7, <2>3 DEF Laid
<1>14. \A i \in 1..N : all[i] = routes[i]
  <2> TAKE i \in 1..N
  <2>1. PICK k \in 1..Len(gs) : \E j \in 1..Len(gs[k]) : i = at[k - 1] + j
    <3>1. i \in 1..Len(all)
      BY <1>13
    <3>2. gs \in Seq(Seq(T)) /\ at \in [0..Len(gs) -> Nat] /\ Laid(gs, all, at)
      BY <1>4, <1>7
    <3> HIDE DEF N, upTo
    <3> QED  BY <3>1, <3>2, LaidCovers
  <2> QED  BY <1>12, <2>1
<1>15. all = [i \in 1..N |-> all[i]] /\ routes = [i \in 1..N |-> routes[i]]
  BY <1>6, <1>13
<1> HIDE DEF N
<1> QED  BY <1>14, <1>15 DEF all, gs

----------------------------------------------------------------------------
(* What is read of a match that a route wrote is written as it was.        *)

LEMMA ThoseOfInterval ==
    ASSUME NEW T, NEW s \in Seq(T), NEW a \in Nat, NEW l \in Nat, a + l <= Len(s)
    PROVE  /\ Those(s, (a + 1)..(a + l)) \in Seq(T)
           /\ Len(Those(s, (a + 1)..(a + l))) = l
           /\ \A k \in 1..l : Those(s, (a + 1)..(a + l))[k] = s[a + k]
<1> DEFINE S == (a + 1)..(a + l)
           those == Those(s, S)
<1>1. S \in SUBSET DOMAIN s
  OBVIOUS
<1>2. Cardinality(S) = l
  <2>1. a + 1 \in Int /\ a + l \in Int
    OBVIOUS
  <2>2. Cardinality(S) = IF a + 1 > a + l THEN 0 ELSE (a + l) - (a + 1) + 1
    BY <2>1, FS_Interval
  <2> QED  BY <2>2
<1>3. \A k \in 1..l : Smallest(S, k) = a + k
  BY SmallestOfInterval
<1> HIDE DEF S
<1>4. /\ those \in Seq(T) /\ Len(those) = Cardinality(S)
      /\ \A k \in 1..Cardinality(S) : those[k] = s[Smallest(S, k)]
  BY <1>1, ThoseAre
<1> HIDE DEF those
<1> QED  BY <1>2, <1>3, <1>4 DEF those, S

LEMMA ThoseOfAll ==
    ASSUME NEW T, NEW s \in Seq(T)
    PROVE  Those(s, DOMAIN s) = s
<1> DEFINE n == Len(s)
           those == Those(s, DOMAIN s)
<1>1. n \in Nat /\ DOMAIN s = (0 + 1)..(0 + n) /\ 0 \in Nat /\ 0 + n <= Len(s)
  OBVIOUS
<1>2. those \in Seq(T) /\ Len(those) = n /\ \A k \in 1..n : those[k] = s[0 + k]
  <2> HIDE DEF n
  <2> QED  BY <1>1, ThoseOfInterval
<1>3. \A k \in 1..n : those[k] = s[k]
  BY <1>1, <1>2
<1>4. those = [k \in 1..n |-> those[k]] /\ s = [k \in 1..n |-> s[k]]
  <2> HIDE DEF those
  <2> QED  BY <1>2
<1> HIDE DEF those, n
<1> QED  BY <1>3, <1>4 DEF those

\* Matchers as routes write them.
Told(x) == x.type \in {"Exact", "SafeRegex"}

LEMMA MatcherBack ==
    ASSUME NEW x \in XdsMatcher, Told(x), MatcherFromXds(x) # Failed
    PROVE  /\ MatcherToXds(MatcherFromXds(x)) = x
           /\ MatcherFromXds(x).value = x.value /\ MatcherFromXds(x).name = x.name
           /\ MatcherFromXds(x) \in Matcher
           /\ x.type = "Exact" => MatcherFromXds(x).type = "Exact"
<1>1. x.type \notin {None, "Present"}
  BY NoneIsApart DEF Told
<1>2. MatcherFromXds(x) \in Matcher /\ MatcherToXds(MatcherFromXds(x)) = x
  BY <1>1, MatcherRead
<1> QED  BY <1>2, MatcherRead, MatcherWritten

LEMMA ParamsBack ==
    ASSUME NEW s \in Seq(XdsMatcher), \A i \in DOMAIN s : Told(s[i]),
           Parsed(s, MatcherFromXds) # Failed
    PROVE  Mapped(Parsed(s, MatcherFromXds), MatcherToXds) = s
<1> DEFINE ms == Parsed(s, MatcherFromXds)
           back == [i \in DOMAIN ms |-> MatcherToXds(ms[i])]
<1>1. /\ DOMAIN ms = DOMAIN s
      /\ \A i \in DOMAIN s : MatcherFromXds(s[i]) # Failed /\ ms[i] = MatcherFromXds(s[i])
                             /\ s[i] \in XdsMatcher
  BY MatchersRead
<1> HIDE DEF ms
<1>2. \A i \in DOMAIN s : MatcherToXds(ms[i]) = s[i]
  BY <1>1, MatcherBack
<1>3. back = [i \in DOMAIN s |-> s[i]]
  BY <1>1, <1>2
<1>4. s = [i \in DOMAIN s |-> s[i]]
  OBVIOUS
<1>5. Mapped(ms, MatcherToXds) = back
  BY DEF Mapped
<1> HIDE DEF back
<1> QED  BY <1>3, <1>4, <1>5 DEF ms

LEMMA PathBack ==
    ASSUME NEW p \in PathMatch, PathFromXds(PathToXds(p)) # Failed
    PROVE  PathFromXds(PathToXds(p)) = p
<1>1. CASE p.type = "Exact"
  <2>1. p = [type |-> "Exact", value |-> p.value]
    BY <1>1 DEF PathMatch
  <2>2. PathToXds(p) = [type |-> "Path", value |-> p.value]
    BY <1>1 DEF PathToXds, Pattern
  <2> QED  BY <2>1, <2>2 DEF PathFromXds, Pattern
<1>2. CASE p.type = "Prefix"
  <2>1. p = [type |-> "Prefix", value |-> p.value]
    BY <1>2 DEF PathMatch
  <2>2. PathToXds(p) = [type |-> "Prefix", value |-> p.value]
    BY <1>2 DEF PathToXds, Pattern
  <2> QED  BY <2>1, <2>2 DEF PathFromXds, Pattern
<1>3. CASE p.type = "Regex"
  <2>1. p = [type |-> "Regex", value |-> p.value]
    BY <1>3 DEF PathMatch
  <2>2. PathToXds(p) = [type |-> "SafeRegex", value |-> p.value]
    BY <1>3 DEF PathToXds, Pattern
  <2> QED  BY <2>1, <2>2 DEF PathFromXds, Pattern
<1> QED  BY <1>1, <1>2, <1>3 DEF PathMatch

\* RouteMatch::from_xds, of what RouteMatch::to_xds wrote.
LEMMA MatchBack ==
    ASSUME NEW m \in RouteMatch, PlainMatch(m), MatchFromXds(MatchToXds(m)) # Failed
    PROVE  MatchToXds(MatchFromXds(MatchToXds(m))) = MatchToXds(m)
<1> DEFINE x == MatchToXds(m)
           own == IF m.method = None THEN <<>> ELSE <<Named("Exact", METHOD, m.method)>>
           hs == Mapped(m.headers, MatcherToXds)
           qs == Mapped(m.query, MatcherToXds)
           path == IF m.path = None THEN None ELSE PathToXds(m.path)
           all == own \o hs
           read == MatchFromXds(x)
           rpath == IF x.path = None THEN None ELSE PathFromXds(x.path)
           headers == Parsed(x.headers, MatcherFromXds)
           query == Parsed(x.query, MatcherFromXds)
           methods == {i \in DOMAIN headers : IsMethod(headers[i])}
           rest == DOMAIN headers \ methods
           method == IF methods = {} THEN None ELSE Last(Those(headers, methods)).value
<1>1. /\ m.path \in PathMatch \cup {None} /\ m.method \in Text \cup {None}
      /\ m.headers \in Seq(Matcher) /\ m.query \in Seq(Matcher)
  BY DEF RouteMatch
<1>0. read # Failed
  OBVIOUS
<1>2. /\ x = [path |-> path, headers |-> all, query |-> qs]
      /\ x.path = path /\ x.headers = all /\ x.query = qs
  <2> HIDE DEF path, all, qs
  <2>1. x = [path |-> path, headers |-> all, query |-> qs]
    BY DEF MatchToXds, XdsMatch, path, all, own, hs, qs
  <2> HIDE DEF x
  <2> QED  BY <2>1
<1> HIDE DEF x
<1>3. /\ hs \in Seq(XdsMatcher) /\ Len(hs) = Len(m.headers) /\ Len(hs) \in Nat
      /\ \A i \in DOMAIN hs : /\ i \in DOMAIN m.headers /\ m.headers[i] \in Matcher
                              /\ hs[i] = MatcherToXds(m.headers[i])
      /\ qs \in Seq(XdsMatcher) /\ Len(qs) = Len(m.query)
      /\ \A i \in DOMAIN qs : m.query[i] \in Matcher /\ qs[i] = MatcherToXds(m.query[i])
  <2>1. /\ hs \in Seq(XdsMatcher) /\ Len(hs) = Len(m.headers)
        /\ \A i \in DOMAIN m.headers : hs[i] = MatcherToXds(m.headers[i])
        /\ qs \in Seq(XdsMatcher) /\ Len(qs) = Len(m.query)
        /\ \A i \in DOMAIN m.query : qs[i] = MatcherToXds(m.query[i])
    BY <1>1, MatchersWritten
  <2> HIDE DEF hs, qs
  <2>2. DOMAIN hs = DOMAIN m.headers /\ DOMAIN qs = DOMAIN m.query /\ Len(hs) \in Nat
    BY <1>1, <2>1
  <2> QED  BY <1>1, <2>1, <2>2
<1> HIDE DEF hs, qs
<1>4. \A i \in DOMAIN hs : Told(hs[i]) /\ hs[i].name # METHOD
  <2> TAKE i \in DOMAIN hs
  <2>1. m.headers[i].name # METHOD
    BY <1>3 DEF PlainMatch, Range
  <2> QED  BY <1>3, <2>1, MatcherWritten DEF Told
<1>5. \A i \in DOMAIN qs : Told(qs[i])
  BY <1>3, MatcherWritten DEF Told
<1>6. /\ Failed \notin {rpath, headers, query}
      /\ read = [path |-> rpath, query |-> query, headers |-> Those(headers, rest),
                 method |-> method]
  BY <1>0 DEF MatchFromXds
<1>7. (IF rpath = None THEN None ELSE PathToXds(rpath)) = path
  <2>1. CASE m.path = None
    BY <1>2, <2>1
  <2>2. CASE m.path # None
    <3>1. path = PathToXds(m.path) /\ path # None /\ m.path \in PathMatch
      <4>1. m.path \in PathMatch
        BY <1>1, <2>2
      <4> QED  BY <2>2, <4>1, PathWritten
    <3>2. rpath = m.path
      <4>1. rpath = PathFromXds(path) /\ rpath # Failed
        BY <1>2, <1>6, <3>1
      <4> HIDE DEF rpath, path
      <4> QED  BY <3>1, <4>1, PathBack
    <3> QED  BY <2>2, <3>2
  <2> QED  BY <2>1, <2>2
<1> HIDE DEF rpath, path, read
<1>8. Mapped(query, MatcherToXds) = qs
  <2>1. query # Failed
    BY <1>6
  <2> QED  BY <1>2, <1>3, <1>5, <2>1, ParamsBack
<1> HIDE DEF query
<1>9. (IF method = None THEN <<>> ELSE <<Named("Exact", METHOD, method)>>)
         \o Mapped(Those(headers, rest), MatcherToXds) = all
  <2>1. headers # Failed
    BY <1>6
  <2>2. CASE m.method = None
    <3>1. all = hs /\ x.headers = hs
      BY <1>2, <1>3, <2>2, ConcatEmptySeq
    <3>2. /\ headers \in Seq(Matcher) /\ DOMAIN headers = DOMAIN hs
          /\ \A i \in DOMAIN hs : /\ MatcherFromXds(hs[i]) # Failed
                                  /\ headers[i] = MatcherFromXds(hs[i]) /\ hs[i] \in XdsMatcher
      BY <1>3, <2>1, <3>1, MatchersRead
    <3>3. Mapped(headers, MatcherToXds) = hs
      BY <1>3, <1>4, <2>1, <3>1, ParamsBack
    <3> HIDE DEF headers, all
    <3>4. methods = {}
      <4>1. \A i \in DOMAIN headers : headers[i].name # METHOD
        BY <1>4, <3>2, MatcherRead
      <4> QED  BY <4>1 DEF IsMethod
    <3>5. rest = DOMAIN headers /\ method = None
      <4> HIDE DEF methods
      <4> QED  BY <3>4
    <3>6. Those(headers, rest) = headers
      <4> HIDE DEF rest, method
      <4> QED  BY <3>2, <3>5, ThoseOfAll
    <3> HIDE DEF rest, method
    <3>7. <<>> \o hs = hs
      BY <1>3, ConcatEmptySeq
    <3> QED  BY <3>1, <3>3, <3>5, <3>6, <3>7
  <2>3. CASE m.method # None
    <3> DEFINE one == Named("Exact", METHOD, m.method)
               n == Len(hs)
    <3>1. one \in XdsMatcher /\ Told(one) /\ one.type = "Exact" /\ one.name = METHOD /\ one.value = m.method
      <4>1. m.method \in Text
        BY <1>1, <2>3
      <4> QED  BY <4>1, TextConstants DEF Named, XdsMatcher, Told
    <3>2. x.headers = <<one>> \o hs /\ all = x.headers
      BY <1>2, <2>3
    <3> HIDE DEF one, all
    <3>3. /\ x.headers \in Seq(XdsMatcher) /\ Len(x.headers) = 1 + n
          /\ x.headers[1] = one /\ \A i \in 1..n : x.headers[1 + i] = hs[i]
      <4>1. <<one>> \in Seq(XdsMatcher) /\ Len(<<one>>) = 1 /\ (<<one>>)[1] = one
        BY <3>1
      <4>2. /\ <<one>> \o hs \in Seq(XdsMatcher) /\ Len(<<one>> \o hs) = 1 + n
            /\ \A i \in 1..(1 + n) : (<<one>> \o hs)[i] = IF i <= 1 THEN (<<one>>)[i] ELSE hs[i - 1]
        BY <1>3, <4>1, ConcatProperties
      <4>3. n \in Nat
        BY <1>3
      <4> HIDE DEF n
      <4>4. 1 \in 1..(1 + n) /\ \A i \in 1..n : 1 + i \in 1..(1 + n) /\ ~(1 + i <= 1) /\ (1 + i) - 1 = i
        BY <4>3
      <4> QED  BY <3>2, <4>1, <4>2, <4>4
    <3>4. n \in Nat /\ DOMAIN hs = 1..n /\ DOMAIN x.headers = 1..(1 + n)
      BY <1>3, <3>3
    <3>5. /\ headers \in Seq(Matcher) /\ DOMAIN headers = DOMAIN x.headers
          /\ \A i \in DOMAIN x.headers : /\ MatcherFromXds(x.headers[i]) # Failed
                                         /\ headers[i] = MatcherFromXds(x.headers[i])
                                         /\ x.headers[i] \in XdsMatcher
      BY <2>1, <3>3, MatchersRead
    <3> HIDE DEF headers, n
    <3>6. \A i \in 1..n : /\ 1 + i \in DOMAIN headers /\ MatcherToXds(headers[1 + i]) = hs[i]
                          /\ headers[1 + i].name # METHOD
      <4> TAKE i \in 1..n
      <4>1. 1 + i \in DOMAIN x.headers /\ x.headers[1 + i] = hs[i] /\ Told(hs[i]) /\ hs[i].name # METHOD
        BY <1>4, <3>3, <3>4
      <4> QED  BY <3>5, <4>1, MatcherBack
    <3>7. /\ 1 \in DOMAIN headers /\ headers[1].type = "Exact" /\ headers[1].name = METHOD
          /\ headers[1].value = m.method
      <4>1. 1 \in DOMAIN x.headers
        BY <3>4
      <4> QED  BY <3>1, <3>3, <3>5, <4>1, MatcherBack
    <3>8. methods = (0 + 1)..(0 + 1) /\ rest = (1 + 1)..(1 + n)
      <4>1. \A i \in DOMAIN headers : i = 1 \/ (i - 1 \in 1..n /\ 1 + (i - 1) = i)
        BY <3>4, <3>5
      <4>2. \A i \in DOMAIN headers : IsMethod(headers[i]) <=> i = 1
        BY <3>6, <3>7, <4>1 DEF IsMethod
      <4>3. methods = {1}
        BY <3>7, <4>2
      <4> HIDE DEF methods
      <4>4. rest = (1..(1 + n)) \ {1}
        BY <3>4, <3>5, <4>3
      <4>5. (1..(1 + n)) \ {1} = (1 + 1)..(1 + n) /\ {1} = (0 + 1)..(0 + 1)
        BY <3>4
      <4> QED  BY <4>3, <4>4, <4>5
    <3>9. method = m.method
      <4> DEFINE those == Those(headers, (0 + 1)..(0 + 1))
      <4>1. Len(headers) = 1 + n /\ 0 \in Nat /\ 1 \in Nat /\ 0 + 1 <= Len(headers)
        BY <3>4, <3>5
      <4>2. those \in Seq(Matcher) /\ Len(those) = 1 /\ those[1] = headers[0 + 1]
        <5>1. /\ those \in Seq(Matcher) /\ Len(those) = 1
              /\ \A k \in 1..1 : those[k] = headers[0 + k]
          <6> DEFINE a == 0
                     l == 1
          <6>1. a \in Nat /\ l \in Nat /\ a + l <= Len(headers)
            BY <4>1
          <6> HIDE DEF a, l, those
          <6>2. /\ Those(headers, (a + 1)..(a + l)) \in Seq(Matcher)
                /\ Len(Those(headers, (a + 1)..(a + l))) = l
                /\ \A k \in 1..l : Those(headers, (a + 1)..(a + l))[k] = headers[a + k]
            BY <3>5, <6>1, ThoseOfInterval
          <6> QED  BY <6>2 DEF those, a, l
        <5> HIDE DEF those
        <5> QED  BY <5>1
      <4>3. Last(those) = headers[1]
        <5> HIDE DEF those
        <5> QED  BY <4>2 DEF Last
      <4>4. methods # {}
        <5> HIDE DEF methods
        <5> QED  BY <3>8
      <4>5. method = Last(those).value
        <5> HIDE DEF methods
        <5> QED  BY <3>8, <4>4
      <4> HIDE DEF method, those
      <4> QED  BY <3>7, <4>3, <4>5
    <3>10. Mapped(Those(headers, rest), MatcherToXds) = hs
      <4> DEFINE those == Those(headers, rest)
                 back == [i \in DOMAIN those |-> MatcherToXds(those[i])]
      <4>1. those \in Seq(Matcher) /\ Len(those) = n /\ \A k \in 1..n : those[k] = headers[1 + k]
        <5> DEFINE a == 1
        <5>1. a \in Nat /\ n \in Nat /\ a + n <= Len(headers)
          BY <3>4, <3>5
        <5>2. rest = (a + 1)..(a + n)
          <6> HIDE DEF rest
          <6> QED  BY <3>8
        <5> HIDE DEF a, rest
        <5>3. /\ Those(headers, (a + 1)..(a + n)) \in Seq(Matcher)
              /\ Len(Those(headers, (a + 1)..(a + n))) = n
              /\ \A k \in 1..n : Those(headers, (a + 1)..(a + n))[k] = headers[a + k]
          BY <3>5, <5>1, ThoseOfInterval
        <5> QED  BY <5>2, <5>3 DEF a
      <4>2. Mapped(those, MatcherToXds) = back
        BY DEF Mapped
      <4> HIDE DEF those
      <4>3. DOMAIN those = 1..n
        BY <4>1
      <4>4. back = [i \in 1..n |-> hs[i]]
        BY <3>6, <4>1, <4>3
      <4>5. hs = [i \in 1..n |-> hs[i]]
        BY <1>3, <3>4
      <4> HIDE DEF back
      <4> QED  BY <4>2, <4>4, <4>5 DEF those
    <3> HIDE DEF method, rest
    <3> QED  BY <2>3, <3>2, <3>9, <3>10 DEF one
  <2> QED  BY <2>2, <2>3
<1> HIDE DEF all, headers, methods, method, rest
<1>10. MatchToXds(read) = [path |-> path, headers |-> all, query |-> qs]
  BY <1>6, <1>7, <1>8, <1>9 DEF MatchToXds, XdsMatch
<1> QED  BY <1>2, <1>10 DEF read, x

----------------------------------------------------------------------------
(* What is read of an action that a rule wrote is written as it was.       *)

LEMMA BackendsBack ==
    ASSUME NEW b \in Seq(RouteBackend), BackendsFromXds(BackendsToXds(b)) # Failed
    PROVE  BackendsToXds(BackendsFromXds(BackendsToXds(b))) = BackendsToXds(b)
<1> DEFINE x == BackendsToXds(b)
           read == BackendsFromXds(x)
<1>1. /\ DOMAIN b = 1..Len(b) /\ Len(b) \in Nat
      /\ \A i \in DOMAIN b : b[i] \in RouteBackend
  OBVIOUS
<1>2. \A i \in DOMAIN b : BackendRefName(b[i]) \in XdsName /\ b[i].weight \in 0..MaxU32
  BY <1>1, RefNameType
<1>3. x \in XdsCluster \cup {None} /\ read # Failed
  BY BackendsWritten
<1>4. CASE Len(b) = 0
  <2>1. x = None
    BY <1>4 DEF BackendsToXds, Mapped
  <2>2. read = <<>>
    BY <2>1 DEF BackendsFromXds
  <2>3. BackendsToXds(<<>>) = None
    BY DEF BackendsToXds, Mapped
  <2> QED  BY <2>1, <2>2, <2>3
<1>5. CASE Len(b) = 1
  <2> DEFINE name == BackendRefName(b[1])
             ref == BackendRefFromStr(name)
             refs == [i \in DOMAIN <<name>> |-> BackendRefFromStr((<<name>>)[i])]
  <2>1. x = [type |-> "Cluster", name |-> name]
    BY <1>5 DEF BackendsToXds, Mapped
  <2>2. name \in XdsName
    BY <1>1, <1>2, <1>5
  <2>3. x # None
    <3>1. x \in XdsCluster
      <4> HIDE DEF name, x
      <4> QED  BY <2>1, <2>2 DEF XdsCluster
    <3> QED  BY <3>1, NoneIsApart
  <2>4. read = Parsed(<<name>>, BackendRefFromStr)
    <3> HIDE DEF x, name
    <3> QED  BY <2>1, <2>3 DEF BackendsFromXds
  <2>5. refs = <<ref>>
    OBVIOUS
  <2>6. Parsed(<<name>>, BackendRefFromStr) = IF Failed \in Range(refs) THEN Failed ELSE refs
    BY DEF Parsed, Results, Mapped
  <2>7. read = <<ref>> /\ ref # Failed
    <3> HIDE DEF refs, ref, read, name
    <3>1. read = refs /\ Failed \notin Range(refs)
      BY <1>3, <2>4, <2>6
    <3> QED  BY <2>5, <3>1 DEF Range
  <2>8. BackendRefName(ref) = name
    BY <2>2, <2>7, RefRead
  <2>9. BackendsToXds(<<ref>>) = [type |-> "Cluster", name |-> BackendRefName(ref)]
    <3> HIDE DEF ref
    <3> QED  BY DEF BackendsToXds, Mapped
  <2> HIDE DEF ref, name, read, x
  <2> QED  BY <2>1, <2>7, <2>8, <2>9 DEF read, x
<1>6. CASE Len(b) > 1
  <2> DEFINE cs == [i \in DOMAIN b |-> [name |-> BackendRefName(b[i]), weight |-> b[i].weight]]
             bs == [i \in DOMAIN cs |-> WeightedBackend(cs[i])]
             cs2 == [i \in DOMAIN read |-> [name |-> BackendRefName(read[i]), weight |-> read[i].weight]]
  <2>1. x = [type |-> "Weighted", clusters |-> cs]
    BY <1>1, <1>6 DEF BackendsToXds, Mapped
  <2>2. x # None
    <3>1. MaxU32 \in Nat
      BY BackendConstants
    <3>2. cs \in [1..Len(b) -> XdsWeight]
      <4>1. \A i \in DOMAIN b : [name |-> BackendRefName(b[i]), weight |-> b[i].weight] \in XdsWeight
        BY <1>2, <3>1 DEF XdsWeight
      <4> QED  BY <1>1, <4>1
    <3>3. x \in XdsCluster
      <4>1. cs \in Seq(XdsWeight)
        <5> HIDE DEF cs
        <5> QED  BY <1>1, <3>2
      <4> HIDE DEF cs, x
      <4> QED  BY <2>1, <4>1 DEF XdsCluster
    <3> QED  BY <3>3, NoneIsApart
  <2>3. \A i \in DOMAIN b : /\ cs[i] = [name |-> BackendRefName(b[i]), weight |-> b[i].weight]
                            /\ cs[i] \in XdsWeight /\ OrElse(cs[i].weight, 1) = cs[i].weight
    <3>1. MaxU32 \in Nat
      BY BackendConstants
    <3>2. \A i \in DOMAIN b : b[i].weight # None
      BY <1>2, <3>1, NoneIsApart
    <3> QED  BY <1>2, <3>1, <3>2 DEF XdsWeight, OrElse
  <2>4. DOMAIN cs = DOMAIN b
    OBVIOUS
  <2>5. read = Parsed(cs, WeightedBackend)
    <3> HIDE DEF x, cs
    <3> QED  BY <2>1, <2>2 DEF BackendsFromXds
  <2>6. Parsed(cs, WeightedBackend) = IF Failed \in Range(bs) THEN Failed ELSE bs
    BY DEF Parsed, Results, Mapped
  <2>7. read = bs /\ \A i \in DOMAIN cs : WeightedBackend(cs[i]) # Failed
    <3>1. read = bs /\ Failed \notin Range(bs)
      <4> HIDE DEF bs, read, cs
      <4> QED  BY <1>3, <2>5, <2>6
    <3>2. \A i \in DOMAIN cs : bs[i] # Failed
      <4>1. DOMAIN bs = DOMAIN cs
        OBVIOUS
      <4> HIDE DEF bs, cs, read
      <4> QED  BY <3>1, <4>1 DEF Range
    <3> HIDE DEF cs, read
    <3> QED  BY <3>1, <3>2
  <2>8. \A i \in DOMAIN b : /\ bs[i] \in RouteBackend /\ BackendRefName(bs[i]) = cs[i].name
                            /\ bs[i].weight = cs[i].weight
    <3>1. \A i \in DOMAIN b : bs[i] = WeightedBackend(cs[i])
      OBVIOUS
    <3> HIDE DEF bs, cs, read
    <3> QED  BY <2>3, <2>4, <2>7, <3>1, WeightedRead
  <2>9. DOMAIN bs = DOMAIN b
    OBVIOUS
  <2>10. Len(bs) = Len(b)
    <3>1. bs = [i \in 1..Len(b) |-> bs[i]]
      BY <1>1
    <3> HIDE DEF bs
    <3> QED  BY <1>1, <3>1
  <2> HIDE DEF bs, x
  <2>11. \A i \in DOMAIN b : [name |-> BackendRefName(bs[i]), weight |-> bs[i].weight] = cs[i]
    BY <2>3, <2>8
  <2>12. cs2 = cs
    <3>1. cs2 = [i \in DOMAIN b |-> [name |-> BackendRefName(bs[i]), weight |-> bs[i].weight]]
      <4> HIDE DEF cs, read
      <4> QED  BY <2>7, <2>9
    <3>2. cs = [i \in DOMAIN b |-> cs[i]]
      OBVIOUS
    <3> HIDE DEF cs, cs2
    <3> QED  BY <2>11, <3>1, <3>2
  <2>13. BackendsToXds(read) = [type |-> "Weighted", clusters |-> cs2]
    <3>1. Len(read) > 1 /\ Len(read) # 0 /\ Len(read) # 1
      <4>1. read = bs
        BY <2>7
      <4>2. Len(read) = Len(b) /\ Len(b) \in Nat
        BY <1>1, <2>10, <4>1
      <4> HIDE DEF read, cs, cs2
      <4> QED  BY <1>6, <4>2
    <3> HIDE DEF read
    <3> QED  BY <3>1 DEF BackendsToXds, Mapped
  <2> HIDE DEF cs, cs2, read
  <2> QED  BY <2>1, <2>12, <2>13 DEF read, x
<1> QED  BY <1>1, <1>4, <1>5, <1>6

\* A retry that says something; a policy whose back-off has an interval, and
\* that says something of retries unless it says how long a try may take.
TidyRetry(retry) ==
    retry # None => ~(retry.codes = <<>> /\ retry.attempts = None /\ retry.backoff = None)
Spaced(p) == p # None /\ p.backoff # None => p.backoff.base # None
Settled(p) ==
    /\ Spaced(p)
    /\ p # None /\ p.perTry = None =>
          ~(p.codes = <<>> /\ p.retries = None /\ p.backoff = None)

\* RouteRetry::to_xds.
LEMMA RetryIs ==
    ASSUME NEW retry \in RouteRetry
    PROVE  LET retries == IF retry.attempts \in {None, 0} THEN retry.attempts
                          ELSE retry.attempts - 1
               backoff == IF retry.backoff = None THEN None ELSE [base |-> retry.backoff]
           IN  RetryToXds(retry) = [codes |-> retry.codes, retries |-> retries,
                                    backoff |-> backoff, perTry |-> None]
<1> DEFINE p == RetryToXds(retry)
           retries == IF retry.attempts \in {None, 0} THEN retry.attempts
                      ELSE retry.attempts - 1
           backoff == IF retry.backoff = None THEN None ELSE [base |-> retry.backoff]
<1>1. p = [[codes |-> <<>>, retries |-> None, backoff |-> None, perTry |-> None]
             EXCEPT !.codes = retry.codes, !.retries = retries, !.backoff = backoff]
  BY DEF RetryToXds, NoPolicy
<1> HIDE DEF p, retries, backoff
<1>2. p = [codes |-> retry.codes, retries |-> retries, backoff |-> backoff, perTry |-> None]
  BY <1>1
<1> QED  BY <1>2 DEF p, retries, backoff

LEMMA RetrySettled ==
    ASSUME NEW retry \in RouteRetry
    PROVE  LET p == RetryToXds(retry)
           IN  Spaced(p) /\ (TidyRetry(retry) => Settled(p)) /\ ~RetryPanics(p)
<1> DEFINE p == RetryToXds(retry)
           retries == IF retry.attempts \in {None, 0} THEN retry.attempts
                      ELSE retry.attempts - 1
           backoff == IF retry.backoff = None THEN None ELSE [base |-> retry.backoff]
<1>1. /\ retry.attempts \in 0..MaxU32 \cup {None} /\ retry.backoff \in Nat \cup {None}
      /\ MaxU32 \in Nat /\ None \notin Int /\ None \notin [base : XdsDuration]
      /\ retry \in RouteRetry
  BY BackendConstants, NoneIsApart DEF RouteRetry
<1>2. p = [codes |-> retry.codes, retries |-> retries, backoff |-> backoff, perTry |-> None]
  BY RetryIs
<1>3. retries = None <=> retry.attempts = None
  BY <1>1
<1>4. /\ retry.backoff = None => backoff = None
      /\ retry.backoff # None =>
            /\ backoff # None /\ backoff.base = retry.backoff /\ retry.backoff \in Nat
  BY <1>1 DEF XdsDuration
<1>5. retry # None
  BY NoneIsApart
<1> HIDE DEF p, retries, backoff
<1>6. /\ p.codes = retry.codes /\ p.retries = retries /\ p.backoff = backoff
      /\ p.perTry = None
  BY <1>2
<1>7. Spaced(p)
  BY <1>4, <1>6 DEF Spaced
<1>8. TidyRetry(retry) => Settled(p)
  BY <1>3, <1>4, <1>5, <1>6, <1>7 DEF TidyRetry, Settled
<1>9. ~RetryPanics(p)
  <2> SUFFICES ASSUME p.backoff # None PROVE DurationFromXds(p.backoff.base) # Failed
    BY DEF RetryPanics
  <2>1. p.backoff.base \in Nat /\ p.backoff.base # Failed
    BY <1>4, <1>6, NoneIsApart
  <2> QED  BY <2>1 DEF DurationFromXds
<1> QED  BY <1>7, <1>8, <1>9 DEF p

\* The policy of an action that a rule writes.
PolicyOf(rule) ==
    LET try == IF rule.timeouts = None THEN None ELSE rule.timeouts.backend_request
        policy == IF rule.retry = None THEN None ELSE RetryToXds(rule.retry)
    IN  IF try = None THEN policy
        ELSE [(IF policy = None THEN NoPolicy ELSE policy) EXCEPT !.perTry = try]

LEMMA ActionIs ==
    ASSUME NEW rule
    PROVE  ActionToXds(rule) =
             [type |-> "Route",
              timeout |-> IF rule.timeouts = None THEN None ELSE rule.timeouts.request,
              policy |-> PolicyOf(rule),
              cluster |-> BackendsToXds(rule.backends),
              hash |-> <<>>]
BY DEF ActionToXds, PolicyOf

LEMMA PolicySettled ==
    ASSUME NEW rule \in RouteRule
    PROVE  LET p == PolicyOf(rule)
           IN  /\ Spaced(p) /\ ~RetryPanics(p)
               /\ TidyRetry(rule.retry) => Settled(p)
<1> DEFINE p == PolicyOf(rule)
           try == IF rule.timeouts = None THEN None ELSE rule.timeouts.backend_request
           retried == RetryToXds(rule.retry)
           policy == IF rule.retry = None THEN None ELSE retried
           base == IF policy = None THEN NoPolicy ELSE policy
<1>1. p = IF try = None THEN policy ELSE [base EXCEPT !.perTry = try]
  BY DEF PolicyOf
<1>2. rule.retry \in RouteRetry \cup {None}
  BY DEF RouteRule
<1> HIDE DEF p, try
<1>3. CASE rule.retry = None
  <2>1. base = [codes |-> <<>>, retries |-> None, backoff |-> None, perTry |-> None]
    BY <1>3 DEF NoPolicy
  <2>2. policy = None
    BY <1>3
  <2> HIDE DEF policy, base
  <2>3. CASE try = None
    <3>1. p = None
      BY <1>1, <2>2, <2>3
    <3> QED  BY <3>1 DEF Spaced, Settled, RetryPanics, p
  <2>4. CASE try # None
    <3>1. p = [codes |-> <<>>, retries |-> None, backoff |-> None, perTry |-> try]
      BY <1>1, <2>1, <2>4
    <3>2. p.backoff = None /\ p.perTry # None
      BY <2>4, <3>1
    <3> QED  BY <3>2 DEF Spaced, Settled, RetryPanics, p
  <2> QED  BY <2>3, <2>4
<1>4. CASE rule.retry # None
  <2>1. rule.retry \in RouteRetry
    BY <1>2, <1>4
  <2>2. /\ Spaced(retried) /\ (TidyRetry(rule.retry) => Settled(retried))
        /\ ~RetryPanics(retried) /\ retried \in XdsRetryPolicy
    BY <2>1, RetrySettled, RetryWritten
  <2>3. policy = retried /\ base = retried /\ retried # None
    <3>1. retried # None
      BY <2>2, NoneIsApart
    <3> HIDE DEF retried
    <3> QED  BY <1>4, <3>1
  <2> HIDE DEF policy, base, retried
  <2>4. CASE try = None
    <3>1. p = retried
      BY <1>1, <2>3, <2>4
    <3> QED  BY <2>2, <3>1 DEF p
  <2>5. CASE try # None
    <3>1. retried = [codes |-> retried.codes, retries |-> retried.retries,
                     backoff |-> retried.backoff, perTry |-> retried.perTry]
      BY <2>2 DEF XdsRetryPolicy
    <3>2. p = [codes |-> retried.codes, retries |-> retried.retries,
               backoff |-> retried.backoff, perTry |-> try]
      BY <1>1, <2>3, <2>5, <3>1
    <3>3. p.backoff = retried.backoff /\ p.perTry # None
      BY <2>5, <3>2
    <3>4. Spaced(p) /\ Settled(p)
      BY <2>2, <2>3, <3>3 DEF Spaced, Settled
    <3>5. ~RetryPanics(p)
      BY <2>2, <2>3, <3>3 DEF RetryPanics
    <3> QED  BY <3>4, <3>5 DEF p
  <2> QED  BY <2>4, <2>5
<1> QED  BY <1>3, <1>4

\* RouteRetry::from_xds: a retry that is read says something, if the back-off
\* has an interval.
LEMMA TidyRead ==
    ASSUME NEW p \in XdsRetryPolicy \cup {None}, InRange(p), ~RetryPanics(p), Spaced(p)
    PROVE  TidyRetry(RetryFromXds(p))
<1> DEFINE retry == RetryFromXds(p)
<1> SUFFICES ASSUME retry # None
             PROVE  ~(retry.codes = <<>> /\ retry.attempts = None /\ retry.backoff = None)
  BY DEF TidyRetry
<1>1. /\ p # None /\ ~(p.codes = <<>> /\ p.retries = None /\ p.backoff = None)
      /\ p \in XdsRetryPolicy
  BY DEF RetryFromXds
<1>2. /\ OrElse(retry, NoRetry) = retry /\ OrElse(p, NoPolicy) = p
  BY <1>1 DEF OrElse
<1>3. /\ retry.codes = p.codes
      /\ (IF retry.attempts \in {None, 0} THEN retry.attempts ELSE retry.attempts - 1) = p.retries
      /\ retry.backoff = IF p.backoff = None THEN None ELSE p.backoff.base
  BY <1>2, RetryRead
<1> HIDE DEF retry
<1>4. retry.attempts = None => p.retries = None
  BY <1>3
<1>5. retry.backoff = None => p.backoff = None
  BY <1>1, <1>3 DEF Spaced
<1> QED  BY <1>1, <1>3, <1>4, <1>5

LEMMA PolicyBack ==
    ASSUME NEW p \in XdsRetryPolicy \cup {None}, InRange(p), ~RetryPanics(p), Settled(p),
           NEW rule, rule.retry = RetryFromXds(p),
           (IF rule.timeouts = None THEN None ELSE rule.timeouts.backend_request)
              = OrElse(p, NoPolicy).perTry
    PROVE  PolicyOf(rule) = p
<1> DEFINE try == IF rule.timeouts = None THEN None ELSE rule.timeouts.backend_request
           policy == IF rule.retry = None THEN None ELSE RetryToXds(rule.retry)
           base == IF policy = None THEN NoPolicy ELSE policy
<1>1. PolicyOf(rule) = IF try = None THEN policy ELSE [base EXCEPT !.perTry = try]
  BY DEF PolicyOf
<1>2. try = OrElse(p, NoPolicy).perTry
  OBVIOUS
<1> HIDE DEF try
<1>3. CASE p = None
  <2>1. rule.retry = None /\ try = None
    BY <1>2, <1>3 DEF RetryFromXds, OrElse, NoPolicy
  <2>2. policy = None
    BY <2>1
  <2> HIDE DEF policy, base
  <2> QED  BY <1>1, <1>3, <2>1, <2>2
<1>4. CASE p # None
  <2>1. /\ p \in XdsRetryPolicy /\ try = p.perTry
        /\ p = [codes |-> p.codes, retries |-> p.retries, backoff |-> p.backoff,
                perTry |-> p.perTry]
    BY <1>2, <1>4 DEF OrElse, XdsRetryPolicy
  <2>2. CASE p.codes = <<>> /\ p.retries = None /\ p.backoff = None
    <3>1. rule.retry = None
      BY <1>4, <2>2 DEF RetryFromXds
    <3>2. base = [codes |-> <<>>, retries |-> None, backoff |-> None, perTry |-> None]
      BY <3>1 DEF NoPolicy
    <3>3. try # None
      BY <1>4, <2>1, <2>2 DEF Settled
    <3> HIDE DEF policy, base
    <3>4. [base EXCEPT !.perTry = try]
             = [codes |-> <<>>, retries |-> None, backoff |-> None, perTry |-> try]
      BY <3>2
    <3> QED  BY <1>1, <2>1, <2>2, <3>3, <3>4
  <2>3. CASE ~(p.codes = <<>> /\ p.retries = None /\ p.backoff = None)
    <3> DEFINE retry == RetryFromXds(p)
               retries == IF retry.attempts \in {None, 0} THEN retry.attempts
                          ELSE retry.attempts - 1
               backoff == IF retry.backoff = None THEN None ELSE [base |-> retry.backoff]
    <3>1. retry # None
      BY <1>4, <2>3, RetryRead
    <3>2. OrElse(retry, NoRetry) = retry /\ OrElse(p, NoPolicy) = p
      BY <1>4, <3>1 DEF OrElse
    <3>3. /\ retry \in RouteRetry /\ retry.codes = p.codes /\ retries = p.retries
          /\ retry.backoff = IF p.backoff = None THEN None ELSE p.backoff.base
      BY <3>1, <3>2, RetryRead
    <3>4. RetryToXds(retry) = [codes |-> retry.codes, retries |-> retries,
                               backoff |-> backoff, perTry |-> None]
      BY <3>3, RetryIs
    <3>5. rule.retry = retry
      OBVIOUS
    <3> HIDE DEF retry, retries
    <3>6. backoff = p.backoff
      <4>1. CASE p.backoff = None
        BY <3>3, <4>1
      <4>2. CASE p.backoff # None
        <5>1. retry.backoff = p.backoff.base /\ p.backoff.base # None
          BY <1>4, <3>3, <4>2 DEF Settled, Spaced
        <5>2. p.backoff = [base |-> p.backoff.base]
          BY <2>1, <4>2 DEF XdsRetryPolicy
        <5> QED  BY <5>1, <5>2
      <4> QED  BY <4>1, <4>2
    <3> HIDE DEF backoff
    <3>7. policy = [codes |-> p.codes, retries |-> p.retries, backoff |-> p.backoff,
                    perTry |-> None]
      <4>1. policy = RetryToXds(retry)
        BY <3>1, <3>5
      <4> HIDE DEF policy
      <4> QED  BY <3>3, <3>4, <3>6, <4>1
    <3>8. policy # None
      <4>1. policy = RetryToXds(retry) /\ RetryToXds(retry) \in XdsRetryPolicy
        BY <3>1, <3>3, <3>5, RetryWritten
      <4> HIDE DEF policy
      <4> QED  BY <4>1, NoneIsApart
    <3>9. base = policy
      <4> HIDE DEF policy
      <4> QED  BY <3>8
    <3> HIDE DEF policy, base
    <3>10. CASE try = None
      BY <1>1, <2>1, <3>7, <3>10
    <3>11. CASE try # None
      <4>1. [base EXCEPT !.perTry = try]
              = [codes |-> p.codes, retries |-> p.retries, backoff |-> p.backoff, perTry |-> try]
        BY <3>7, <3>9
      <4> QED  BY <1>1, <2>1, <3>11, <4>1
    <3> QED  BY <3>10, <3>11
  <2> QED  BY <2>2, <2>3
<1> QED  BY <1>3, <1>4

\* RouteRule::from_xds_grouped, of the action that a rule wrote.
LEMMA ActionBack ==
    ASSUME NEW one \in RouteRule, TidyRetry(one.retry),
           NEW a, a = ActionToXds(one),
           TimeoutsFromXds(a) # Failed, BackendsFromXds(a.cluster) # Failed,
           NEW rule, rule.timeouts = TimeoutsFromXds(a), rule.retry = RetryFromXds(a.policy),
           rule.backends = BackendsFromXds(a.cluster)
    PROVE  ActionToXds(rule) = a
<1> DEFINE request == IF one.timeouts = None THEN None ELSE one.timeouts.request
           p == PolicyOf(one)
           c == BackendsToXds(one.backends)
           t == OrElse(rule.timeouts, [request |-> None, backend_request |-> None])
<1>1. /\ a = [type |-> "Route", timeout |-> request, policy |-> p, cluster |-> c,
              hash |-> <<>>]
      /\ a.policy = p /\ a.cluster = c /\ a.timeout = request
  <2>1. a = [type |-> "Route", timeout |-> request, policy |-> p, cluster |-> c,
             hash |-> <<>>]
    BY ActionIs
  <2> HIDE DEF request, p, c
  <2> QED  BY <2>1
<1>2. a \in XdsAction /\ a.type = "Route" /\ InRange(p)
  BY <1>1, ActionWritten
<1>3. Settled(p) /\ ~RetryPanics(p)
  BY PolicySettled
<1>4. p \in XdsRetryPolicy \cup {None}
  <2> HIDE DEF p, request, c
  <2> QED  BY <1>1, <1>2 DEF XdsAction
<1>5. t.request = a.timeout /\ t.backend_request = OrElse(p, NoPolicy).perTry
  BY <1>1, <1>2, TimeoutsRead
<1>6. /\ (IF rule.timeouts = None THEN None ELSE rule.timeouts.request) = a.timeout
      /\ (IF rule.timeouts = None THEN None ELSE rule.timeouts.backend_request)
            = OrElse(p, NoPolicy).perTry
  <2> HIDE DEF p, request, c
  <2> QED  BY <1>5 DEF OrElse
<1>7. rule.retry = RetryFromXds(p)
  BY <1>1
<1>8. one.backends \in Seq(RouteBackend)
  BY DEF RouteRule
<1>9. BackendsToXds(rule.backends) = c
  <2>1. rule.backends = BackendsFromXds(c) /\ BackendsFromXds(c) # Failed
    BY <1>1
  <2> QED  BY <1>8, <2>1, BackendsBack
<1> HIDE DEF p, c
<1>10. PolicyOf(rule) = p
  BY <1>3, <1>2, <1>4, <1>6, <1>7, PolicyBack
<1>11. ActionToXds(rule) =
         [type |-> "Route",
          timeout |-> IF rule.timeouts = None THEN None ELSE rule.timeouts.request,
          policy |-> PolicyOf(rule), cluster |-> BackendsToXds(rule.backends), hash |-> <<>>]
  BY ActionIs
<1> HIDE DEF request, t
<1> QED  BY <1>1, <1>6, <1>9, <1>10, <1>11

----------------------------------------------------------------------------
(* What is read of the routes that rules wrote is written as it was.       *)

\* A route as a rule with a tidy retry writes it.
WrittenBy(x, rule) ==
    /\ x.name = rule.name /\ x.action = ActionToXds(rule)
    /\ \E m \in RouteMatch : PlainMatch(m) /\ x.match = MatchToXds(m)
Written(x) == \E rule \in RouteRule : TidyRetry(rule.retry) /\ WrittenBy(x, rule)

LEMMA AnyIsWritten ==
    \E m \in RouteMatch : PlainMatch(m) /\ XdsMatch(EmptyPrefix, <<>>, <<>>) = MatchToXds(m)
<1> DEFINE m == [path |-> EmptyPrefix, headers |-> <<>>, query |-> <<>>, method |-> None]
           own == [i \in DOMAIN <<>> |-> MatcherToXds((<<>>)[i])]
<1>1. EmptyPrefix = [type |-> "Prefix", value |-> <<>>] /\ EmptyPrefix \in PathMatch
  <2>1. <<>> \in Text
    BY DEF Text
  <2> QED  BY <2>1 DEF EmptyPrefix, Pattern, PathMatch
<1>2. m \in RouteMatch
  <2>1. <<>> \in Seq(Matcher)
    OBVIOUS
  <2> QED  BY <1>1, <2>1 DEF RouteMatch
<1>3. PlainMatch(m)
  BY DEF PlainMatch, Range
<1>4. Mapped(<<>>, MatcherToXds) = <<>>
  <2>1. own = <<>>
    OBVIOUS
  <2>2. Mapped(<<>>, MatcherToXds) = own
    BY DEF Mapped
  <2> QED  BY <2>1, <2>2
<1>5. EmptyPrefix # None /\ PathToXds(EmptyPrefix) = EmptyPrefix
  <2>1. EmptyPrefix # None
    BY <1>1, NoneIsApart
  <2>2. EmptyPrefix.type = "Prefix" /\ EmptyPrefix.value = <<>>
    BY <1>1
  <2> QED  BY <1>1, <2>1, <2>2 DEF PathToXds, Pattern
<1>6. m.path = EmptyPrefix /\ m.headers = <<>> /\ m.query = <<>> /\ m.method = None
  OBVIOUS
<1> HIDE DEF m
<1>7. MatchToXds(m) = XdsMatch(EmptyPrefix, <<>> \o <<>>, <<>>)
  BY <1>4, <1>5, <1>6 DEF MatchToXds
<1>8. <<>> \o <<>> = <<>>
  OBVIOUS
<1> QED  BY <1>2, <1>3, <1>7, <1>8

LEMMA RuleWrites ==
    ASSUME NEW rule \in RouteRule, PlainRule(rule)
    PROVE  \A i \in DOMAIN RuleToXds(rule) : WrittenBy(RuleToXds(rule)[i], rule)
<1> DEFINE xs == RuleToXds(rule)
           any == XdsMatch(EmptyPrefix, <<>>, <<>>)
           ms == IF rule.matches = <<>> THEN <<any>>
                 ELSE [i \in DOMAIN rule.matches |-> MatchToXds(rule.matches[i])]
           action == ActionToXds(rule)
<1>1. rule.matches \in Seq(RouteMatch)
  BY DEF RouteRule
<1>2. xs = [i \in DOMAIN ms |-> XdsRoute(rule.name, ms[i], action)]
  BY DEF RuleToXds, Mapped
<1>3. \A i \in DOMAIN ms : \E m \in RouteMatch : PlainMatch(m) /\ ms[i] = MatchToXds(m)
  <2>1. CASE rule.matches = <<>>
    <3>1. ms = <<any>>
      BY <2>1
    <3>2. \A i \in DOMAIN <<any>> : (<<any>>)[i] = any
      OBVIOUS
    <3> HIDE DEF ms, any
    <3>3. \A i \in DOMAIN ms : ms[i] = any
      BY <3>1, <3>2
    <3> QED  BY <3>3, AnyIsWritten DEF any
  <2>2. CASE rule.matches # <<>>
    <3>1. ms = [i \in DOMAIN rule.matches |-> MatchToXds(rule.matches[i])]
      BY <2>2
    <3>2. \A i \in DOMAIN rule.matches : rule.matches[i] \in RouteMatch /\ PlainMatch(rule.matches[i])
      BY <1>1 DEF PlainRule, Range
    <3> HIDE DEF ms
    <3> QED  BY <3>1, <3>2
  <2> QED  BY <2>1, <2>2
<1> HIDE DEF ms
<1>4. /\ DOMAIN xs = DOMAIN ms
      /\ \A i \in DOMAIN ms : xs[i] = [name |-> rule.name, match |-> ms[i], action |-> action]
  BY <1>2 DEF XdsRoute
<1> HIDE DEF xs, action
<1>5. \A i \in DOMAIN xs : xs[i].name = rule.name /\ xs[i].match = ms[i] /\ xs[i].action = action
  BY <1>4
<1>6. \A i \in DOMAIN xs : WrittenBy(xs[i], rule)
  BY <1>3, <1>4, <1>5 DEF WrittenBy, action
<1> QED  BY <1>6 DEF xs

LEMMA RulesWrite ==
    ASSUME NEW rules \in Seq(RouteRule),
           \A k \in DOMAIN rules : PlainRule(rules[k])
    PROVE  LET all == FlattenSeq(Mapped(rules, RuleToXds))
           IN  /\ all \in Seq(XdsRouteOf) /\ Mapped(rules, RuleToXds) \in Seq(Seq(XdsRouteOf))
               /\ \A i \in DOMAIN all : \E k \in DOMAIN rules : WrittenBy(all[i], rules[k])
<1> DEFINE ss == Mapped(rules, RuleToXds)
           all == FlattenSeq(ss)
<1>1. /\ DOMAIN ss = DOMAIN rules /\ DOMAIN ss = 1..Len(rules) /\ Len(rules) \in Nat
      /\ \A k \in DOMAIN ss : ss[k] = RuleToXds(rules[k])
      /\ \A k \in DOMAIN ss : rules[k] \in RouteRule /\ PlainRule(rules[k])
  BY DEF Mapped
<1>2. ss \in Seq(Seq(XdsRouteOf))
  <2>1. ss = [k \in 1..Len(rules) |-> RuleToXds(rules[k])]
    BY DEF Mapped
  <2>2. ASSUME NEW k \in 1..Len(rules) PROVE ss[k] \in Seq(XdsRouteOf)
    <3>1. rules[k] \in RouteRule /\ PlainRule(rules[k]) /\ ss[k] = RuleToXds(rules[k])
      BY <1>1
    <3> HIDE DEF ss
    <3> QED  BY <3>1, RuleWritten
  <2>3. ss = [k \in 1..Len(rules) |-> ss[k]]
    BY <2>1
  <2> HIDE DEF ss
  <2> QED  BY <1>1, <2>2, <2>3, ListIsSequence
<1>3. \A k \in DOMAIN ss : \A j \in DOMAIN ss[k] : WrittenBy(ss[k][j], rules[k])
  <2> HIDE DEF ss
  <2> TAKE k \in DOMAIN ss
  <2> QED  BY <1>1, RuleWrites
<1> HIDE DEF ss
<1>4. all \in Seq(XdsRouteOf)
  BY <1>2, FlattenLays
<1>5. \A i \in DOMAIN all : \E k \in DOMAIN ss : \E j \in DOMAIN ss[k] : all[i] = ss[k][j]
  BY <1>2, FlattenItems
<1> HIDE DEF all
<1>6. \A i \in DOMAIN all : \E k \in DOMAIN rules : WrittenBy(all[i], rules[k])
  BY <1>1, <1>3, <1>5
<1> QED  BY <1>2, <1>4, <1>6 DEF ss, all

\* RouteRule::from_xds_grouped, of a run of such routes.
LEMMA GroupBack ==
    ASSUME NEW group \in Seq(XdsRouteOf), group # <<>>, RuleFromXds(group) # Failed,
           \A i \in DOMAIN group : SameRule(group[1], group[i]),
           \A i \in DOMAIN group : Written(group[i])
    PROVE  RuleToXds(RuleFromXds(group)) = group
<1> DEFINE rule == RuleFromXds(group)
           action == group[1].action
           name == group[1].name
           some == {i \in DOMAIN group : group[i].match # None}
           kept == Those(group, some)
           ms == [k \in DOMAIN kept |-> MatchFromXds(kept[k].match)]
<1>1. /\ DOMAIN group = 1..Len(group) /\ Len(group) \in Nat /\ 1 \in DOMAIN group
      /\ \A i \in DOMAIN group : group[i] \in XdsRouteOf
  OBVIOUS
<1>2. Parsed(kept, LAMBDA x : MatchFromXds(x.match)) = IF Failed \in Range(ms) THEN Failed ELSE ms
  BY DEF Parsed, Results, Mapped
<1>3. /\ TimeoutsFromXds(action) # Failed /\ BackendsFromXds(action.cluster) # Failed
      /\ Parsed(kept, LAMBDA x : MatchFromXds(x.match)) # Failed
      /\ rule = [AnyRule EXCEPT !.name = name,
                                !.matches = Parsed(kept, LAMBDA x : MatchFromXds(x.match)),
                                !.timeouts = TimeoutsFromXds(action),
                                !.retry = RetryFromXds(action.policy),
                                !.backends = BackendsFromXds(action.cluster)]
  BY DEF RuleFromXds
<1>4. Failed \notin Range(ms) /\ Parsed(kept, LAMBDA x : MatchFromXds(x.match)) = ms
  <2> HIDE DEF ms, kept
  <2> QED  BY <1>2, <1>3
<1>5. /\ rule.name = name /\ rule.matches = ms
      /\ rule.timeouts = TimeoutsFromXds(action) /\ rule.retry = RetryFromXds(action.policy)
      /\ rule.backends = BackendsFromXds(action.cluster)
  <2> HIDE DEF ms, kept, rule
  <2> QED  BY <1>3, <1>4 DEF AnyRule
<1> HIDE DEF rule
<1>6. kept = group
  <2>1. ASSUME NEW i \in DOMAIN group PROVE group[i].match # None
    <3>1. PICK m \in RouteMatch : PlainMatch(m) /\ group[i].match = MatchToXds(m)
      BY DEF Written, WrittenBy
    <3>2. MatchToXds(m) \in XdsRouteMatch
      BY <3>1, MatchWritten
    <3> QED  BY <3>1, <3>2, NoneIsApart
  <2>2. some = DOMAIN group
    BY <2>1
  <2> HIDE DEF some
  <2> QED  BY <2>2, ThoseOfAll
<1>7. ms = [k \in DOMAIN group |-> MatchFromXds(group[k].match)]
  <2> HIDE DEF kept
  <2> QED  BY <1>6
<1>8. ActionToXds(rule) = action
  <2>1. PICK one \in RouteRule : TidyRetry(one.retry) /\ WrittenBy(group[1], one)
    BY <1>1 DEF Written
  <2>2. action = ActionToXds(one)
    BY <2>1 DEF WrittenBy
  <2> HIDE DEF action, ms
  <2> QED  BY <1>3, <1>5, <2>1, <2>2, ActionBack
<1> HIDE DEF kept, some, ms
<1>9. \A i \in DOMAIN group :
         /\ MatchToXds(ms[i]) = group[i].match
         /\ group[i] = [name |-> name, match |-> group[i].match, action |-> action]
  <2> TAKE i \in DOMAIN group
  <2>1. PICK m \in RouteMatch : PlainMatch(m) /\ group[i].match = MatchToXds(m)
    BY DEF Written, WrittenBy
  <2>2. ms[i] = MatchFromXds(MatchToXds(m)) /\ ms[i] # Failed
    <3>1. ms[i] = MatchFromXds(group[i].match)
      BY <1>7
    <3>2. ms[i] \in Range(ms)
      BY <1>7 DEF Range
    <3> QED  BY <1>4, <2>1, <3>1, <3>2
  <2>3. MatchToXds(ms[i]) = group[i].match
    BY <2>1, <2>2, MatchBack
  <2>4. group[i] = [name |-> group[i].name, match |-> group[i].match, action |-> group[i].action]
    <3>1. group[i] \in XdsRouteOf
      BY <1>1
    <3> QED  BY <3>1 DEF XdsRouteOf
  <2>5. group[i].name = name /\ group[i].action = action
    BY DEF SameRule
  <2> HIDE DEF name, action
  <2> QED  BY <2>3, <2>4, <2>5
<1>10. rule.matches # <<>>
  <2>1. 1 \in DOMAIN ms
    BY <1>1, <1>7
  <2> QED  BY <1>5, <2>1
<1> DEFINE written == [i \in DOMAIN rule.matches |-> MatchToXds(rule.matches[i])]
           out == [i \in DOMAIN written |-> XdsRoute(rule.name, written[i], ActionToXds(rule))]
<1>11. RuleToXds(rule) = out
  <2>1. Mapped(rule.matches, MatchToXds) = written
    BY DEF Mapped
  <2>2. RuleToXds(rule)
          = Mapped(IF rule.matches = <<>> THEN <<XdsMatch(EmptyPrefix, <<>>, <<>>)>>
                   ELSE written, LAMBDA m : XdsRoute(rule.name, m, ActionToXds(rule)))
    BY DEF RuleToXds, Mapped
  <2> HIDE DEF written
  <2>3. RuleToXds(rule)
          = Mapped(written, LAMBDA m : XdsRoute(rule.name, m, ActionToXds(rule)))
    BY <1>10, <2>2 DEF Mapped
  <2> QED  BY <2>3 DEF Mapped
<1>12. out = [i \in DOMAIN group |-> group[i]]
  <2>1. DOMAIN written = DOMAIN group
    BY <1>5, <1>7
  <2>2. \A i \in DOMAIN group : written[i] = group[i].match
    <3>1. \A i \in DOMAIN group : written[i] = MatchToXds(ms[i])
      BY <1>5, <1>7
    <3> QED  BY <1>9, <3>1
  <2> HIDE DEF written, name, action
  <2>3. \A i \in DOMAIN group : XdsRoute(rule.name, written[i], ActionToXds(rule)) = group[i]
    BY <1>5, <1>8, <1>9, <2>2 DEF XdsRoute
  <2> QED  BY <2>1, <2>3
<1>13. group = [i \in DOMAIN group |-> group[i]]
  OBVIOUS
<1> HIDE DEF out
<1> QED  BY <1>11, <1>12, <1>13 DEF rule

TidyRules(rules) == \A k \in DOMAIN rules : TidyRetry(rules[k].retry)

\* The runs of routes that are read, each as a rule.
ReadInRuns(T, routes) ==
    LET gs == Grouped(routes)
        read == Parsed(gs, RuleFromXds)
    IN  /\ gs \in Seq(Seq(T)) /\ DOMAIN read = DOMAIN gs /\ DOMAIN gs = 1..Len(gs)
        /\ \A k \in DOMAIN gs :
              /\ read[k] = RuleFromXds(gs[k]) /\ read[k] # Failed
              /\ gs[k] \in Seq(T) /\ gs[k] # <<>>
              /\ \A g \in DOMAIN gs[k] : SameRule(gs[k][1], gs[k][g])
              /\ \A g \in DOMAIN gs[k] : \E i \in DOMAIN routes : gs[k][g] = routes[i]

LEMMA RunsRead ==
    ASSUME NEW T, NEW routes \in Seq(T), Parsed(Grouped(routes), RuleFromXds) # Failed
    PROVE  ReadInRuns(T, routes)
<1> DEFINE gs == Grouped(routes)
           n == Cardinality(Starts(routes))
           read == Parsed(gs, RuleFromXds)
           each == [k \in DOMAIN gs |-> RuleFromXds(gs[k])]
<1>1. read = IF Failed \in Range(each) THEN Failed ELSE each
  BY DEF Parsed, Results, Mapped
<1>2. read = each /\ Failed \notin Range(each)
  <2> HIDE DEF each
  <2> QED  BY <1>1
<1>3. /\ n \in Nat /\ DOMAIN gs = 1..n /\ gs = [k \in 1..n |-> gs[k]]
      /\ \A k \in DOMAIN gs : /\ gs[k] \in Seq(T) /\ gs[k] # <<>>
                              /\ Range(gs[k]) = {routes[i] : i \in Run(routes, k)}
  BY RunsAre, GroupsAre
<1>4. \A k \in DOMAIN gs : read[k] = RuleFromXds(gs[k]) /\ read[k] # Failed
  <2>1. \A k \in DOMAIN gs : each[k] = RuleFromXds(gs[k]) /\ each[k] \in Range(each)
    BY DEF Range
  <2> HIDE DEF each, read, gs
  <2> QED  BY <1>2, <2>1
<1>5. DOMAIN read = DOMAIN gs
  <2>1. DOMAIN each = DOMAIN gs
    OBVIOUS
  <2> HIDE DEF each, read, gs
  <2> QED  BY <1>2, <2>1
<1> HIDE DEF gs, read, each, n
<1>6. gs \in Seq(Seq(T)) /\ DOMAIN gs = 1..Len(gs)
  BY <1>3, ListIsSequence
<1>7. ASSUME NEW k \in DOMAIN gs
      PROVE  /\ \A g \in DOMAIN gs[k] : SameRule(gs[k][1], gs[k][g])
             /\ \A g \in DOMAIN gs[k] : \E i \in DOMAIN routes : gs[k][g] = routes[i]
  <2>1. \A g \in DOMAIN gs[k] : \E i \in Run(routes, k) : gs[k][g] = routes[i]
    <3>1. Range(gs[k]) = {routes[i] : i \in Run(routes, k)}
      BY <1>3
    <3>2. \A g \in DOMAIN gs[k] : gs[k][g] \in Range(gs[k])
      BY DEF Range
    <3> QED  BY <3>1, <3>2
  <2>2. 1 \in DOMAIN gs[k]
    BY <1>3
  <2>3. PICK first \in Run(routes, k) : gs[k][1] = routes[first]
    BY <2>1, <2>2
  <2>4. \A i \in Run(routes, k) : i \in DOMAIN routes /\ RunOf(routes, i) = k
    BY DEF Run
  <2>5. \A i \in Run(routes, k) : SameRule(routes[first], routes[i])
    BY <2>4, RunsAreAlike
  <2> QED  BY <2>1, <2>3, <2>4, <2>5
<1> QED  BY <1>3, <1>4, <1>5, <1>6, <1>7 DEF ReadInRuns, gs, read

\* What is read of routes that rules wrote is tidy.
LEMMA RulesTidied ==
    ASSUME NEW rules \in Seq(RouteRule), \A k \in DOMAIN rules : PlainRule(rules[k]),
           Parsed(Grouped(FlattenSeq(Mapped(rules, RuleToXds))), RuleFromXds) # Failed
    PROVE  TidyRules(Parsed(Grouped(FlattenSeq(Mapped(rules, RuleToXds))), RuleFromXds))
<1> DEFINE all == FlattenSeq(Mapped(rules, RuleToXds))
           gs == Grouped(all)
           read == Parsed(gs, RuleFromXds)
<1>1. /\ all \in Seq(XdsRouteOf)
      /\ \A i \in DOMAIN all : \E k \in DOMAIN rules : WrittenBy(all[i], rules[k])
  BY RulesWrite
<1>2. read # Failed
  OBVIOUS
<1> HIDE DEF all
<1>3. /\ DOMAIN read = DOMAIN gs
      /\ \A k \in DOMAIN gs :
            /\ read[k] = RuleFromXds(gs[k]) /\ read[k] # Failed
            /\ gs[k] \in Seq(XdsRouteOf) /\ gs[k] # <<>>
            /\ \A g \in DOMAIN gs[k] : \E i \in DOMAIN all : gs[k][g] = all[i]
  <2>1. ReadInRuns(XdsRouteOf, all)
    BY <1>1, <1>2, RunsRead
  <2> QED  BY <2>1 DEF ReadInRuns
<1> HIDE DEF gs, read
<1>4. ASSUME NEW k \in DOMAIN gs PROVE TidyRetry(read[k].retry)
  <2> DEFINE group == gs[k]
             action == group[1].action
             matches == Parsed(Those(group, {i \in DOMAIN group : group[i].match # None}),
                               LAMBDA x : MatchFromXds(x.match))
  <2>1. 1 \in DOMAIN group
    BY <1>3
  <2>2. PICK i \in DOMAIN all : group[1] = all[i]
    BY <1>3, <2>1
  <2>3. PICK l \in DOMAIN rules : WrittenBy(all[i], rules[l])
    BY <1>1
  <2>4. rules[l] \in RouteRule /\ action = ActionToXds(rules[l])
    BY <2>2, <2>3 DEF WrittenBy
  <2>5. action.policy = PolicyOf(rules[l])
    <3> HIDE DEF action
    <3> QED  BY <2>4, ActionIs
  <2>6. action \in XdsAction /\ action.type = "Route" /\ InRange(action.policy)
    <3> HIDE DEF action
    <3> QED  BY <2>4, ActionWritten
  <2>7. action.policy \in XdsRetryPolicy \cup {None}
    <3> HIDE DEF action
    <3> QED  BY <2>6 DEF XdsAction
  <2>8. Spaced(action.policy) /\ ~RetryPanics(action.policy)
    <3> HIDE DEF action
    <3> QED  BY <2>4, <2>5, PolicySettled
  <2>9. read[k].retry = RetryFromXds(action.policy)
    <3>1. RuleFromXds(group) # Failed
      BY <1>3
    <3>2. RuleFromXds(group)
            = [AnyRule EXCEPT !.name = group[1].name, !.matches = matches,
                              !.timeouts = TimeoutsFromXds(action),
                              !.retry = RetryFromXds(action.policy),
                              !.backends = BackendsFromXds(action.cluster)]
      BY <3>1 DEF RuleFromXds
    <3> HIDE DEF matches, action
    <3>3. RuleFromXds(group).retry = RetryFromXds(action.policy)
      BY <3>2 DEF AnyRule
    <3> QED  BY <1>3, <3>3
  <2> HIDE DEF action
  <2> QED  BY <2>6, <2>7, <2>8, <2>9, TidyRead
<1> QED  BY <1>3, <1>4 DEF TidyRules, read, gs, all

\* What is read of routes that tidy rules wrote is written as it was.
LEMMA RulesBack ==
    ASSUME NEW rules \in Seq(RouteRule), \A k \in DOMAIN rules : PlainRule(rules[k]),
           TidyRules(rules),
           Parsed(Grouped(FlattenSeq(Mapped(rules, RuleToXds))), RuleFromXds) # Failed
    PROVE  LET all == FlattenSeq(Mapped(rules, RuleToXds))
           IN  FlattenSeq(Mapped(Parsed(Grouped(all), RuleFromXds), RuleToXds)) = all
<1> DEFINE all == FlattenSeq(Mapped(rules, RuleToXds))
           gs == Grouped(all)
           read == Parsed(gs, RuleFromXds)
           back == [k \in DOMAIN read |-> RuleToXds(read[k])]
<1>1. /\ all \in Seq(XdsRouteOf)
      /\ \A i \in DOMAIN all : \E k \in DOMAIN rules : WrittenBy(all[i], rules[k])
  BY RulesWrite
<1>2. read # Failed
  OBVIOUS
<1> HIDE DEF all
<1>3. \A i \in DOMAIN all : Written(all[i])
  <2> TAKE i \in DOMAIN all
  <2>1. PICK k \in DOMAIN rules : WrittenBy(all[i], rules[k])
    BY <1>1
  <2>2. rules[k] \in RouteRule /\ TidyRetry(rules[k].retry)
    BY DEF TidyRules
  <2> QED  BY <2>1, <2>2 DEF Written
<1>4. /\ gs \in Seq(Seq(XdsRouteOf)) /\ DOMAIN read = DOMAIN gs /\ DOMAIN gs = 1..Len(gs)
      /\ \A k \in DOMAIN gs :
            /\ read[k] = RuleFromXds(gs[k]) /\ read[k] # Failed
            /\ gs[k] \in Seq(XdsRouteOf) /\ gs[k] # <<>>
            /\ \A g \in DOMAIN gs[k] : SameRule(gs[k][1], gs[k][g])
            /\ \A g \in DOMAIN gs[k] : \E i \in DOMAIN all : gs[k][g] = all[i]
  <2>1. ReadInRuns(XdsRouteOf, all)
    BY <1>1, <1>2, RunsRead
  <2> QED  BY <2>1 DEF ReadInRuns
<1>5. FlattenSeq(gs) = all
  BY <1>1, GroupedFlat
<1>6. Mapped(read, RuleToXds) = back
  BY DEF Mapped
<1> HIDE DEF gs, read
<1>7. ASSUME NEW k \in DOMAIN gs PROVE RuleToXds(read[k]) = gs[k]
  <2>1. \A g \in DOMAIN gs[k] : Written(gs[k][g])
    BY <1>3, <1>4
  <2>2. RuleFromXds(gs[k]) # Failed
    BY <1>4
  <2> QED  BY <1>4, <2>1, <2>2, GroupBack
<1>8. back = [k \in DOMAIN gs |-> gs[k]]
  BY <1>4, <1>7
<1>9. gs = [k \in DOMAIN gs |-> gs[k]]
  BY <1>4
<1> HIDE DEF back
<1> QED  BY <1>5, <1>6, <1>8, <1>9 DEF read, gs, all

\* Domains, and metadata.
LEMMA DomainsBack ==
    ASSUME NEW route \in Route,
           \A d \in Domains(route) : ~BadPort(d) /\ HostnameMatchFromStr(d.host) # Failed,
           NEW read,
           read.hostnames = {HostnameMatchFromStr(d.host) : d \in Domains(route)},
           read.ports = {d.port : d \in Domains(route)} \ {None}
    PROVE  Domains(read) = Domains(route)
<1> DEFINE hosts == {HostnameMatchName(m) : m \in route.hostnames}
           ports == IF route.ports = {} THEN {None} ELSE route.ports
           names == {HostnameMatchName(m) : m \in read.hostnames}
           domains == Domains(route)
<1>1. domains = [host : hosts, port : ports]
  BY DEF Domains
<1>2. Domains(read) = [host : names, port : IF read.ports = {} THEN {None} ELSE read.ports]
  BY DEF Domains
<1>3. route.ports \subseteq Port /\ None \notin Port
  <2>1. Port \subseteq Int
    BY NameConstants DEF Port
  <2> QED  BY <2>1, NoneIsApart DEF Route
<1>4. domains \subseteq XdsName
  BY DomainsWritten
<1>5. /\ read.hostnames = {HostnameMatchFromStr(d.host) : d \in domains}
      /\ read.ports = {d.port : d \in domains} \ {None}
      /\ \A d \in domains : HostnameMatchFromStr(d.host) # Failed
  OBVIOUS
<1> HIDE DEF domains
<1>6. \A d \in domains : HostnameMatchName(HostnameMatchFromStr(d.host)) = d.host
  <2> TAKE d \in domains
  <2>1. d.host \in Hostname
    BY <1>4 DEF XdsName
  <2> QED  BY <1>5, <2>1, HostnameReadName
<1>7. names = {d.host : d \in domains}
  BY <1>5, <1>6
<1> HIDE DEF names
<1>8. CASE hosts = {}
  <2>1. domains = {} /\ names = {}
    BY <1>1, <1>7, <1>8
  <2> QED  BY <1>2, <2>1 DEF domains
<1>9. CASE hosts # {}
  <2> HIDE DEF hosts
  <2>1. ports # {}
    OBVIOUS
  <2> HIDE DEF ports
  <2>2. {d.host : d \in domains} = hosts
    <3>1. \A h \in hosts : \E d \in domains : d.host = h
      <4> TAKE h \in hosts
      <4>1. PICK p \in ports : TRUE
        BY <2>1
      <4>2. [host |-> h, port |-> p] \in domains
        BY <1>1
      <4> QED  BY <4>2
    <3>2. \A d \in domains : d.host \in hosts
      BY <1>1
    <3> QED  BY <3>1, <3>2
  <2>3. {d.port : d \in domains} = ports
    <3>1. \A p \in ports : \E d \in domains : d.port = p
      <4> TAKE p \in ports
      <4>1. PICK h \in hosts : TRUE
        BY <1>9
      <4>2. [host |-> h, port |-> p] \in domains
        BY <1>1
      <4> QED  BY <4>2
    <3>2. \A d \in domains : d.port \in ports
      BY <1>1
    <3> QED  BY <3>1, <3>2
  <2>4. (IF read.ports = {} THEN {None} ELSE read.ports) = ports
    BY <1>3, <1>5, <2>3 DEF ports
  <2> QED  BY <1>1, <1>2, <1>7, <2>2, <2>4 DEF domains
<1> QED  BY <1>8, <1>9

\* Route::to_xds and Route::from_xds, one after the other.
LEMMA WrittenIs ==
    ASSUME NEW route \in Route, Plain(route)
    PROVE  LET x == RouteToXds(route)
           IN  /\ x.name = route.id /\ x.metadata = TagsToXds(route.tags)
               /\ x = [name |-> x.name, metadata |-> x.metadata, vhosts |-> x.vhosts]
               /\ x.vhosts = <<[domains |-> Domains(route),
                                routes |-> FlattenSeq(Mapped(route.rules, RuleToXds))]>>
               /\ Len(x.vhosts) = 1
               /\ x.vhosts[1].domains = Domains(route)
               /\ x.vhosts[1].routes = FlattenSeq(Mapped(route.rules, RuleToXds))
               /\ route.rules \in Seq(RouteRule)
               /\ \A k \in DOMAIN route.rules : PlainRule(route.rules[k])
<1> DEFINE x == RouteToXds(route)
           all == FlattenSeq(Mapped(route.rules, RuleToXds))
           host == [domains |-> Domains(route), routes |-> all]
<1>1. x = [name |-> route.id, metadata |-> TagsToXds(route.tags), vhosts |-> <<host>>]
  BY DEF RouteToXds
<1>2. route.rules \in Seq(RouteRule)
  BY DEF Route
<1>3. \A k \in DOMAIN route.rules : PlainRule(route.rules[k])
  BY <1>2 DEF Plain, PlainRule, PlainMatch, Range
<1>4. host.domains = Domains(route) /\ host.routes = all
  OBVIOUS
<1> HIDE DEF x, all, host
<1>5. /\ x.name = route.id /\ x.metadata = TagsToXds(route.tags) /\ x.vhosts = <<host>>
      /\ x = [name |-> x.name, metadata |-> x.metadata, vhosts |-> x.vhosts]
  BY <1>1
<1>6. Len(x.vhosts) = 1 /\ x.vhosts[1] = host
  BY <1>5
<1> QED  BY <1>2, <1>3, <1>4, <1>5, <1>6 DEF x, all, host

LEMMA ReadIs ==
    ASSUME NEW x, RouteFromXds(x) # Failed
    PROVE  LET route == RouteFromXds(x)
               rules == Parsed(Grouped(x.vhosts[1].routes), RuleFromXds)
               tags == TagsFromXds(x.metadata)
               domains == x.vhosts[1].domains
           IN  /\ route.id = x.name /\ route.tags = tags /\ tags # Failed
               /\ route.rules = rules /\ rules # Failed
               /\ \A d \in domains : ~BadPort(d) /\ HostnameMatchFromStr(d.host) # Failed
               /\ route.hostnames = {HostnameMatchFromStr(d.host) : d \in domains}
               /\ route.ports = {d.port : d \in domains} \ {None}
<1> DEFINE route == RouteFromXds(x)
           rules == Parsed(Grouped(x.vhosts[1].routes), RuleFromXds)
           tags == TagsFromXds(x.metadata)
           domains == x.vhosts[1].domains
           hostnames == {HostnameMatchFromStr(d.host) : d \in domains}
           ports == {d.port : d \in domains} \ {None}
<1>1. /\ tags # Failed /\ \A d \in domains : ~BadPort(d)
      /\ Failed \notin hostnames /\ rules # Failed
      /\ route = [id |-> x.name, tags |-> tags, rules |-> rules,
                  hostnames |-> hostnames, ports |-> ports]
  BY DEF RouteFromXds
<1>2. \A d \in domains : HostnameMatchFromStr(d.host) # Failed
  BY <1>1
<1> HIDE DEF route, rules, tags, hostnames, ports
<1>3. /\ route.id = x.name /\ route.tags = tags /\ route.rules = rules
      /\ route.hostnames = hostnames /\ route.ports = ports
  BY <1>1
<1> QED  BY <1>1, <1>2, <1>3 DEF route, rules, tags, hostnames, ports

LEMMA TagsBack ==
    ASSUME NEW tags, TagsFromXds(TagsToXds(tags)) # Failed
    PROVE  TagsToXds(TagsFromXds(TagsToXds(tags))) = TagsToXds(tags)
BY DEF TagsToXds, TagsFromXds

LEMMA RouteTidied ==
    ASSUME NEW route \in Route, Plain(route), RouteFromXds(RouteToXds(route)) # Failed
    PROVE  TidyRules(RouteFromXds(RouteToXds(route)).rules)
<1> DEFINE x == RouteToXds(route)
           rules == route.rules
<1>1. /\ x.vhosts[1].routes = FlattenSeq(Mapped(rules, RuleToXds))
      /\ rules \in Seq(RouteRule) /\ \A k \in DOMAIN rules : PlainRule(rules[k])
  BY WrittenIs
<1>2. RouteFromXds(x) # Failed
  OBVIOUS
<1> HIDE DEF x, rules
<1>3. /\ RouteFromXds(x).rules = Parsed(Grouped(x.vhosts[1].routes), RuleFromXds)
      /\ Parsed(Grouped(x.vhosts[1].routes), RuleFromXds) # Failed
  BY <1>2, ReadIs
<1>4. Parsed(Grouped(FlattenSeq(Mapped(rules, RuleToXds))), RuleFromXds) # Failed
  BY <1>1, <1>3
<1>5. TidyRules(Parsed(Grouped(FlattenSeq(Mapped(rules, RuleToXds))), RuleFromXds))
  BY <1>1, <1>4, RulesTidied
<1> QED  BY <1>1, <1>3, <1>5 DEF x

LEMMA RouteBack ==
    ASSUME NEW route \in Route, Plain(route), TidyRules(route.rules),
           RouteFromXds(RouteToXds(route)) # Failed
    PROVE  RouteToXds(RouteFromXds(RouteToXds(route))) = RouteToXds(route)
<1> DEFINE x == RouteToXds(route)
           rules == route.rules
           all == FlattenSeq(Mapped(rules, RuleToXds))
           read == RouteFromXds(x)
           back == FlattenSeq(Mapped(read.rules, RuleToXds))
<1>1. /\ x.name = route.id /\ x.metadata = TagsToXds(route.tags)
      /\ x = [name |-> x.name, metadata |-> x.metadata, vhosts |-> x.vhosts]
      /\ x.vhosts = <<[domains |-> Domains(route), routes |-> all]>>
      /\ x.vhosts[1].domains = Domains(route) /\ x.vhosts[1].routes = all
      /\ rules \in Seq(RouteRule) /\ \A k \in DOMAIN rules : PlainRule(rules[k])
  BY WrittenIs
<1>2. read # Failed /\ TidyRules(rules)
  OBVIOUS
<1> HIDE DEF x, rules, all
<1>3. /\ read.id = x.name /\ read.tags = TagsFromXds(x.metadata)
      /\ TagsFromXds(x.metadata) # Failed
      /\ read.rules = Parsed(Grouped(all), RuleFromXds)
      /\ Parsed(Grouped(all), RuleFromXds) # Failed
      /\ \A d \in Domains(route) : ~BadPort(d) /\ HostnameMatchFromStr(d.host) # Failed
      /\ read.hostnames = {HostnameMatchFromStr(d.host) : d \in Domains(route)}
      /\ read.ports = {d.port : d \in Domains(route)} \ {None}
  <2>1. /\ read.id = x.name /\ read.tags = TagsFromXds(x.metadata)
        /\ TagsFromXds(x.metadata) # Failed
        /\ read.rules = Parsed(Grouped(x.vhosts[1].routes), RuleFromXds)
        /\ Parsed(Grouped(x.vhosts[1].routes), RuleFromXds) # Failed
        /\ \A d \in x.vhosts[1].domains : ~BadPort(d) /\ HostnameMatchFromStr(d.host) # Failed
        /\ read.hostnames = {HostnameMatchFromStr(d.host) : d \in x.vhosts[1].domains}
        /\ read.ports = {d.port : d \in x.vhosts[1].domains} \ {None}
    BY <1>2, ReadIs
  <2> HIDE DEF read
  <2> QED  BY <1>1, <2>1
<1> HIDE DEF read
<1>4. Domains(read) = Domains(route)
  BY <1>3, DomainsBack
<1>5. back = all
  <2>1. FlattenSeq(Mapped(Parsed(Grouped(all), RuleFromXds), RuleToXds)) = all
    <3>1. Parsed(Grouped(FlattenSeq(Mapped(rules, RuleToXds))), RuleFromXds) # Failed
      BY <1>3 DEF all
    <3> QED  BY <1>1, <1>2, <3>1, RulesBack DEF all
  <2> QED  BY <1>3, <2>1
<1>6. TagsToXds(read.tags) = x.metadata
  BY <1>1, <1>3, TagsBack
<1>7. RouteToXds(read) = [name |-> read.id, metadata |-> TagsToXds(read.tags),
                          vhosts |-> <<[domains |-> Domains(read), routes |-> back]>>]
  BY DEF RouteToXds
<1> HIDE DEF back
<1>8. RouteToXds(read) = [name |-> x.name, metadata |-> x.metadata, vhosts |-> x.vhosts]
  BY <1>1, <1>3, <1>4, <1>5, <1>6, <1>7
<1> QED  BY <1>1, <1>8 DEF x, read

LEMMA NoPanics ==
    ASSUME NEW route \in Route, Plain(route)
    PROVE  \A p \in Policies(RouteToXds(route)) : ~RetryPanics(p)
<1> DEFINE x == RouteToXds(route)
           rules == route.rules
           all == FlattenSeq(Mapped(rules, RuleToXds))
<1>1. /\ x.vhosts[1].routes = all
      /\ rules \in Seq(RouteRule) /\ \A k \in DOMAIN rules : PlainRule(rules[k])
  BY WrittenIs
<1>2. \A i \in DOMAIN all : \E k \in DOMAIN rules : WrittenBy(all[i], rules[k])
  <2> HIDE DEF rules
  <2> QED  BY <1>1, RulesWrite
<1> HIDE DEF x, rules, all
<1>3. ASSUME NEW p \in Policies(x) PROVE ~RetryPanics(p)
  <2>1. PICK i \in DOMAIN all : p = all[i].action.policy
    BY <1>1 DEF Policies
  <2>2. PICK k \in DOMAIN rules : WrittenBy(all[i], rules[k])
    BY <1>2
  <2>3. rules[k] \in RouteRule /\ p = PolicyOf(rules[k])
    <3>1. all[i].action = ActionToXds(rules[k])
      BY <2>2 DEF WrittenBy
    <3>2. ActionToXds(rules[k]).policy = PolicyOf(rules[k])
      BY ActionIs
    <3> QED  BY <1>1, <2>1, <3>1, <3>2
  <2> QED  BY <2>3, PolicySettled
<1> QED  BY <1>3 DEF x

----------------------------------------------------------------------------
(* Once a route was read twice, its retries say something; what is then    *)
(* written and read is written as it was.                                  *)

Settling ==
    /\ form = "xds" /\ trips >= 1 =>
          last \in Route /\ Plain(last) /\ value = RouteToXds(last)
    /\ form = "route" /\ trips >= 2 => TidyRules(value.rules)
    /\ form = "xds" /\ trips >= 2 => TidyRules(last.rules)
    /\ form = "route" /\ trips >= 3 => RouteFromXds(RouteToXds(value)) = value
    /\ form = "xds" /\ trips >= 3 => RouteFromXds(value) = last

LEMMA SettlingInit == Init => Settling
BY DEF Init, Settling

LEMMA SettlingNext == Inv /\ Settling /\ [Next]_vars => Settling'
<1> SUFFICES ASSUME Inv, Settling, [Next]_vars PROVE Settling'
  OBVIOUS
<1>1. RouteTyped /\ trips \in Nat
  BY RouteConstants DEF Inv, Counted
<1>2. CASE ToXds
  <2>1. /\ form = "route" /\ value' = RouteToXds(value) /\ last' = value
        /\ trips' = trips /\ form' # "route"
    BY <1>2 DEF ToXds, Become
  <2>2. value \in Route /\ Plain(value)
    BY <1>1, <2>1 DEF RouteTyped
  <2> QED  BY <1>1, <2>1, <2>2 DEF Settling
<1>3. CASE FromXds
  <2> DEFINE read == RouteFromXds(value)
             panics == Len(value.vhosts) = 1 /\ \E p \in Policies(value) : RetryPanics(p)
  <2>1. /\ form = "xds" /\ trips' = trips + 1 /\ form' # "xds"
        /\ form' = "route" => value' = read /\ read # Failed
    BY <1>3 DEF FromXds, Become
  <2> HIDE DEF read
  <2> SUFFICES ASSUME form' = "route"
               PROVE  /\ trips' >= 2 => TidyRules(value'.rules)
                      /\ trips' >= 3 => RouteFromXds(RouteToXds(value')) = value'
    BY <2>1 DEF Settling
  <2>2. value' = read /\ read # Failed
    BY <2>1
  <2>3. ASSUME trips >= 1 PROVE TidyRules(read.rules)
    <3>1. last \in Route /\ Plain(last) /\ value = RouteToXds(last)
      BY <2>1, <2>3 DEF Settling
    <3> QED  BY <2>2, <3>1, RouteTidied DEF read
  <2>4. ASSUME trips >= 2 PROVE RouteFromXds(RouteToXds(read)) = read
    <3>1. last \in Route /\ Plain(last) /\ value = RouteToXds(last) /\ TidyRules(last.rules)
      BY <1>1, <2>1, <2>4 DEF Settling
    <3>2. RouteToXds(read) = value
      BY <2>2, <3>1, RouteBack DEF read
    <3> QED  BY <3>2 DEF read
  <2> QED  BY <1>1, <2>1, <2>2, <2>3, <2>4
<1>4. CASE ToGateway
  BY <1>4 DEF ToGateway, Become, Settling
<1>5. CASE FromGateway
  <2>1. trips' = 0 /\ form' # "xds"
    BY <1>5 DEF FromGateway, Become
  <2> QED  BY <2>1 DEF Settling
<1>6. CASE BackendToCluster
  BY <1>6 DEF BackendToCluster, Become, Settling
<1>7. CASE ClusterToBackend
  BY <1>7 DEF ClusterToBackend, Become, Settling
<1>8. CASE PatchService
  BY <1>8 DEF PatchService, Become, Settling
<1>9. CASE ReadService
  BY <1>9 DEF ReadService, Become, Settling
<1>10. CASE UNCHANGED vars
  BY <1>10 DEF vars, Settling
<1> QED
  BY <1>2, <1>3, <1>4, <1>5, <1>6, <1>7, <1>8, <1>9, <1>10 DEF Next

\* Publishing again what was read from xDS ends, for every route and every
\* route configuration: the fourth trip gives the route of the third
\* (Route::to_xds, Route::from_xds, group_by, RouteRetry::from_xds).
THEOREM TripsEnd == Spec => TripsSettle
<1>1. Inv /\ Settling /\ [Next]_vars => [form = "xds" /\ trips >= 3 => form' = "route" /\ value' = last]_vars
  <2> SUFFICES ASSUME Inv, Settling, Next, form = "xds", trips >= 3
               PROVE  form' = "route" /\ value' = last
    OBVIOUS
  <2>1. FromXds
    BY DEF Next, ToXds, ToGateway, FromGateway, BackendToCluster, ClusterToBackend,
           PatchService, ReadService
  <2>2. trips \in Nat /\ trips >= 1
    BY RouteConstants DEF Inv, Counted
  <2>3. /\ last \in Route /\ Plain(last) /\ value = RouteToXds(last)
        /\ RouteFromXds(value) = last
    BY <2>2 DEF Settling
  <2>4. \A p \in Policies(value) : ~RetryPanics(p)
    BY <2>3, NoPanics
  <2>5. last # Failed
    BY <2>3, NoneIsApart
  <2> QED  BY <2>1, <2>3, <2>4, <2>5 DEF FromXds, Become
<1>2. Inv /\ Settling /\ [Next]_vars => Settling'
  BY SettlingNext
<1> QED  BY InvHolds, SettlingInit, <1>1, <1>2, PTL DEF Spec, TripsSettle
=============================================================================
