------------------------ MODULE ClientRequestProofs ------------------------
(***************************************************************************)
(* For any cache, configuration and search path: no lookup of a request    *)
(* sleeps through the arrival of what it waits for, and the first name on  *)
(* the path that has a route while a request runs gives it, in whatever    *)
(* order the lookups answer and whatever changes in between.  A request is *)
(* always in a state its handlers expect, and the history of an endpoint   *)
(* and its trace tell the same attempts, however often it is retried.      *)
(***************************************************************************)
EXTENDS ClientRequest, FiniteSetTheorems, TLAPS

Fields == {"key", "phase", "woken", "answer"}

\* The cache has an entry or none for every key, and lookups are lookups.
Shape ==
    /\ DOMAIN data = Key
    /\ \A i \in DOMAIN lookups : DOMAIN lookups[i] = Fields

IInv == Shape /\ NoMissedNotify

\* Lookups that have just begun or are answered: nobody sleeps.
Fresh(ls) ==
    \A i \in DOMAIN ls : DOMAIN ls[i] = Fields /\ ls[i].phase # "asleep"

----------------------------------------------------------------------------

LEMMA FreshIsIInv ==
    ASSUME IInv, data' = data, Fresh(lookups')
    PROVE  IInv'
BY DEF IInv, Shape, NoMissedNotify, Fresh, Present

LEMMA LookupIsFresh ==
    ASSUME NEW key
    PROVE  DOMAIN Lookup(key) = Fields /\ Lookup(key).phase # "asleep"
BY DEF Lookup, Fields

LEMMA AnsweredIsFresh ==
    ASSUME NEW answer
    PROVE  DOMAIN Answered(answer) = Fields /\ Answered(answer).phase # "asleep"
BY DEF Answered, Fields

\* What an entry says is an answer, or leads to another look (get_route).
LEMMA FoundIsFresh ==
    ASSUME NEW k, NEW entry
    PROVE  DOMAIN Found(k, entry) = Fields /\ Found(k, entry).phase # "asleep"
<1>1. Found(k, entry) = Answered(None)
      \/ Found(k, entry) = Answered(entry.route)
      \/ Found(k, entry) = Answered(entry)
      \/ Found(k, entry) = [Lookup(In("route_configs", entry.rds)) EXCEPT !.phase = "get"]
  BY DEF Found
<1>2. DOMAIN [Lookup(In("route_configs", entry.rds)) EXCEPT !.phase = "get"] = Fields
      /\ [Lookup(In("route_configs", entry.rds)) EXCEPT !.phase = "get"].phase # "asleep"
  BY DEF Lookup, Fields
<1> QED  BY <1>1, <1>2, AnsweredIsFresh

\* A lookup that becomes another one leaves the rest as they are.
LEMMA BecomeIsIInv ==
    ASSUME IInv, data' = data, NEW i \in DOMAIN lookups, NEW lookup,
           Become(i, lookup), DOMAIN lookup = Fields,
           /\ lookup.phase = "asleep"
           /\ lookup.key \in Present
           => lookup.woken
    PROVE  IInv'
<1>1. DOMAIN lookups' = DOMAIN lookups
  BY DEF Become
<1>2. \A j \in DOMAIN lookups : lookups'[j] = IF j = i THEN lookup ELSE lookups[j]
  BY DEF Become
<1>3. Shape'
  BY <1>1, <1>2 DEF IInv, Shape
<1>4. NoMissedNotify'
  BY <1>1, <1>2 DEF IInv, NoMissedNotify, Present
<1> QED  BY <1>3, <1>4 DEF IInv

\* A step of a lookup: it sees an entry, or stays on its way to one.
Moves(i, lookup) ==
    /\ Become(i, lookup) /\ data' = data
    /\ lookups[i].phase # "done"
    /\ \/ /\ lookups[i].key \in Present
          /\ lookup = Found(lookups[i].key, data[lookups[i].key])
       \/ /\ lookup.phase \in Phases \ {"done"} /\ lookup.key = lookups[i].key
          /\ lookup.woken \in {FALSE, lookups[i].woken}

LEMMA ReadMoves ==
    ASSUME IInv, NEW i \in DOMAIN lookups, Read(i)
    PROVE  \E lookup : Moves(i, lookup)
<1>1. DOMAIN lookups[i] = Fields
  BY DEF IInv, Shape
<1>2. \A p : /\ [lookups[i] EXCEPT !.phase = p].phase = p
             /\ [lookups[i] EXCEPT !.phase = p].key = lookups[i].key
             /\ [lookups[i] EXCEPT !.phase = p].woken = lookups[i].woken
             /\ [lookups[i] EXCEPT !.phase = p, !.woken = FALSE].phase = p
             /\ [lookups[i] EXCEPT !.phase = p, !.woken = FALSE].key = lookups[i].key
             /\ [lookups[i] EXCEPT !.phase = p, !.woken = FALSE].woken = FALSE
  BY <1>1 DEF Fields
<1>3. ASSUME NEW p \in Phases \ {"done"},
             NEW l \in {[lookups[i] EXCEPT !.phase = p],
                       [lookups[i] EXCEPT !.phase = p, !.woken = FALSE]},
             Become(i, l), data' = data, lookups[i].phase # "done"
      PROVE  \E lookup : Moves(i, lookup)
  <2>1. /\ l.phase = p /\ l.key = lookups[i].key
        /\ l.woken = FALSE \/ l.woken = lookups[i].woken
    <3>1. CASE l = [lookups[i] EXCEPT !.phase = p]
      BY <1>2, <3>1, Zenon
    <3>2. CASE l = [lookups[i] EXCEPT !.phase = p, !.woken = FALSE]
      BY <1>2, <3>2, Zenon
    <3> QED  BY <3>1, <3>2
  <2>2. Moves(i, l)
    BY <1>3, <2>1 DEF Moves
  <2> QED  BY <2>2
<1>4. {"get", "blocked", "register", "asleep", "look"} \subseteq Phases \ {"done"}
  BY DEF Phases
<1>5. CASE SendSub(i)
  BY <1>3, <1>4, <1>5 DEF SendSub
<1>6. CASE Blocks(i)
  BY <1>3, <1>4, <1>6 DEF Blocks
<1>7. CASE Get(i)
  <2>1. Moves(i, Found(lookups[i].key, data[lookups[i].key]))
    BY <1>7 DEF Get, Moves
  <2> QED  BY <2>1
<1>8. CASE GetNothing(i)
  <2> DEFINE next == IF lookups[i].phase = "get" THEN "register" ELSE "asleep"
  <2>1. /\ Become(i, [lookups[i] EXCEPT !.phase = next]) /\ data' = data
        /\ lookups[i].phase # "done"
    BY <1>8 DEF GetNothing
  <2>2. next \in Phases \ {"done"}
    BY DEF Phases
  <2> HIDE DEF next
  <2> QED  BY <1>3, <2>1, <2>2
<1>9. CASE Register(i) \/ Wake(i)
  BY <1>3, <1>4, <1>9 DEF Register, Wake
<1> QED  BY <1>5, <1>6, <1>7, <1>8, <1>9 DEF Read

\* What a notification leaves alone.
LEMMA WriteNotifies ==
    ASSUME IInv, NEW k, NEW entry, Write(k, entry)
    PROVE  /\ DOMAIN lookups' = DOMAIN lookups
           /\ \A i \in DOMAIN lookups :
                 /\ lookups'[i].phase = lookups[i].phase
                 /\ lookups'[i].key = lookups[i].key
                 /\ lookups'[i].answer = lookups[i].answer
                 /\ lookups'[i].woken \in {TRUE, lookups[i].woken}
<1>1. lookups' = NotifyWaiters(k.map)
  BY DEF Write
<1>2. \A i \in DOMAIN lookups : DOMAIN lookups[i] = Fields
  BY DEF IInv, Shape
<1>3. \A i \in DOMAIN lookups :
         /\ [lookups[i] EXCEPT !.woken = TRUE].phase = lookups[i].phase
         /\ [lookups[i] EXCEPT !.woken = TRUE].key = lookups[i].key
         /\ [lookups[i] EXCEPT !.woken = TRUE].answer = lookups[i].answer
         /\ [lookups[i] EXCEPT !.woken = TRUE].woken = TRUE
  BY <1>2 DEF Fields
<1> QED  BY <1>1, <1>3 DEF NotifyWaiters

\* Whoever reads, at whatever step of its lookup.
LEMMA ReadIsIInv ==
    ASSUME IInv, NEW i \in DOMAIN lookups, Read(i)
    PROVE  IInv'
<1>1. DOMAIN lookups[i] = Fields
  BY DEF IInv, Shape
<1>2. CASE SendSub(i)
  <2>1. DOMAIN [lookups[i] EXCEPT !.phase = "get"] = Fields
        /\ [lookups[i] EXCEPT !.phase = "get"].phase = "get"
    BY <1>1 DEF Fields
  <2> QED  BY <1>2, <2>1, BecomeIsIInv DEF SendSub
<1>3. CASE Blocks(i)
  <2>1. DOMAIN [lookups[i] EXCEPT !.phase = "blocked"] = Fields
        /\ [lookups[i] EXCEPT !.phase = "blocked"].phase = "blocked"
    BY <1>1 DEF Fields
  <2> QED  BY <1>3, <2>1, BecomeIsIInv DEF Blocks
<1>4. CASE Get(i)
  BY <1>4, FoundIsFresh, BecomeIsIInv DEF Get
<1>5. CASE GetNothing(i)
  <2> DEFINE next == IF lookups[i].phase = "get" THEN "register" ELSE "asleep"
             new == [lookups[i] EXCEPT !.phase = next]
  <2>1. DOMAIN new = Fields /\ new.key = lookups[i].key
    BY <1>1 DEF Fields
  <2>2. new.key \notin Present
    BY <1>5, <2>1 DEF GetNothing
  <2>3. Become(i, new) /\ data' = data
    BY <1>5 DEF GetNothing
  <2> HIDE DEF new
  <2> QED  BY <2>1, <2>2, <2>3, BecomeIsIInv
<1>6. CASE Register(i) \/ Wake(i)
  <2> DEFINE new == [lookups[i] EXCEPT !.phase = "look", !.woken = FALSE]
  <2>1. DOMAIN new = Fields /\ new.phase = "look"
    BY <1>1 DEF Fields
  <2>2. Become(i, new) /\ data' = data
    BY <1>6 DEF Register, Wake
  <2> HIDE DEF new
  <2> QED  BY <2>1, <2>2, BecomeIsIInv
<1> QED  BY <1>2, <1>3, <1>4, <1>5, <1>6 DEF Read

\* A writer changes one key and then notifies everyone registered with its
\* map, whatever they have got to.
LEMMA WriteIsIInv ==
    ASSUME IInv, NEW k \in Key, NEW entry, Write(k, entry)
    PROVE  IInv'
<1>1. DOMAIN lookups' = DOMAIN lookups
  BY DEF Write, NotifyWaiters
<1>2. \A i \in DOMAIN lookups :
         lookups'[i] = IF lookups[i].phase \in {"look", "asleep"} /\ lookups[i].key.map = k.map
                       THEN [lookups[i] EXCEPT !.woken = TRUE] ELSE lookups[i]
  BY DEF Write, NotifyWaiters
<1>3. DOMAIN data' = Key /\ \A l \in Key : l # k => data'[l] = data[l]
  BY DEF Write, IInv, Shape
<1>4. \A i \in DOMAIN lookups :
         /\ DOMAIN lookups'[i] = Fields
         /\ lookups'[i].phase = lookups[i].phase
         /\ lookups'[i].key = lookups[i].key
         /\ \/ lookups'[i].woken
            \/ /\ lookups'[i].woken = lookups[i].woken
               /\ lookups[i].phase = "asleep" => lookups[i].key.map # k.map
  <2> TAKE i \in DOMAIN lookups
  <2>1. DOMAIN lookups[i] = Fields
    BY DEF IInv, Shape
  <2>2. CASE lookups[i].phase \in {"look", "asleep"} /\ lookups[i].key.map = k.map
    BY <1>2, <2>1, <2>2 DEF Fields
  <2>3. CASE ~(lookups[i].phase \in {"look", "asleep"} /\ lookups[i].key.map = k.map)
    BY <1>2, <2>1, <2>3
  <2> QED  BY <2>2, <2>3
<1>5. Shape'
  BY <1>1, <1>3, <1>4 DEF Shape
<1>6. NoMissedNotify'
  BY <1>1, <1>3, <1>4 DEF IInv, NoMissedNotify, Present
<1> QED  BY <1>5, <1>6 DEF IInv

\* However the request goes on, its next lookups are new ones.
LEMMA RoutesAreFresh ==
    ASSUME NEW config, NEW path
    PROVE  Fresh(GetRoutes(config, path))
BY LookupIsFresh, AnsweredIsFresh DEF Fresh, GetRoutes

LEMMA BackendIsFresh ==
    ASSUME NEW config, NEW id
    PROVE  Fresh(<<GetBackend(config, id)>>)
<1>1. DOMAIN GetBackend(config, id) = Fields /\ GetBackend(config, id).phase # "asleep"
  BY LookupIsFresh, AnsweredIsFresh DEF GetBackend
<1> QED  BY <1>1 DEF Fresh

LEMMA EndpointsAreFresh ==
    ASSUME NEW config, NEW id
    PROVE  Fresh(<<GetEndpoints(config, id)>>)
<1>1. DOMAIN GetEndpoints(config, id) = Fields /\ GetEndpoints(config, id).phase # "asleep"
  BY LookupIsFresh, AnsweredIsFresh DEF GetEndpoints
<1> QED  BY <1>1 DEF Fresh

LEMMA ResolveIsIInv ==
    ASSUME IInv, Resolve \/ Timeout \/ ReportStatus \/ ResolveHttp
    PROVE  IInv'
<1>1. Fresh(<<>>)
  BY DEF Fresh
<1>2. CASE NoRouteMatched \/ NoRuleMatched \/ InvalidRoute \/ NoBackend
           \/ NoReachableEndpoints \/ Panic \/ Timeout \/ LoadBalance
  <2>1. data' = data /\ lookups' = <<>>
    BY <1>2 DEF NoRouteMatched, NoRuleMatched, InvalidRoute, NoBackend,
                NoReachableEndpoints, Panic, Timeout, LoadBalance, Fail
  <2> QED  BY <1>1, <2>1, FreshIsIInv
<1>3. CASE ResolveRoute
  <2>1. data' = data /\ \E c, id : lookups' = <<GetBackend(c, id)>>
    BY <1>3 DEF ResolveRoute, SelectEndpoint
  <2> QED  BY <2>1, BackendIsFresh, FreshIsIInv
<1>4. CASE ReportStatus
  <2>1. data' = data /\ \E c, id : lookups' = <<GetBackend(c, id)>>
    BY <1>4 DEF ReportStatus, SelectEndpoint
  <2> QED  BY <2>1, BackendIsFresh, FreshIsIInv
<1>5. CASE HasBackend
  BY <1>5, EndpointsAreFresh, FreshIsIInv DEF HasBackend
<1>6. CASE ResolveHttp
  <2>1. data' = data /\ \E config \in Config, url \in Url :
                           lookups' = GetRoutes(config, SearchPath(url))
    BY <1>6 DEF ResolveHttp
  <2> QED  BY <2>1, RoutesAreFresh, FreshIsIInv
<1> QED  BY <1>2, <1>3, <1>4, <1>5, <1>6 DEF Resolve

LEMMA InitIInv == Init => IInv
BY DEF Init, ReaderInit, IInv, Shape, NoMissedNotify

LEMMA StepIInv == IInv /\ [Next]_vars => IInv'
<1> SUFFICES ASSUME IInv, [Next]_vars PROVE IInv'
  OBVIOUS
<1>1. CASE UNCHANGED <<data, lookups>>
  BY <1>1 DEF IInv, Shape, NoMissedNotify, Present
<1>2. CASE Update
  <2>1. PICK k \in Key : \E entry \in Content[k] : Write(k, entry)
    BY <1>2 DEF Update
  <2> QED  BY <2>1, WriteIsIInv
<1>3. CASE \E i \in 1..MostLookups : ReadOne(i)
  BY <1>3, ReadIsIInv DEF ReadOne
<1>4. CASE Resolve \/ Timeout \/ ReportStatus \/ ResolveHttp
  BY <1>4, ResolveIsIInv
<1>5. ASSUME Connected \/ Disconnected \/ BackoffOver \/ TakeSubs
             \/ OthersSubscribe \/ Expire \/ Finish \/ UNCHANGED vars
      PROVE  UNCHANGED <<data, lookups>>
  BY <1>5 DEF Connected, Disconnected, BackoffOver, TakeSubs,
              OthersSubscribe, Expire, Finish, vars
<1> QED  BY <1>1, <1>2, <1>3, <1>4, <1>5 DEF Next

\* Between its looks a lookup of the cache is registered for notifications:
\* whatever the writer inserts, replaces or takes away meanwhile, none sleeps
\* on an entry that is there (ResourceMap::get_await).
THEOREM NothingIsMissed == Spec => []NoMissedNotify
<1>1. IInv => NoMissedNotify
  BY DEF IInv
<1> QED  BY <1>1, InitIInv, StepIInv, PTL DEF Spec

-----------------------------------------------------------------------------
(* The search for a route *)

\* HeldRoute, of any cache and any keys that have kept their entries.
Held(d, kept, config, authority) ==
    LET listener == In("listeners", authority)
        entry == d[listener]
        rc == In("route_configs", entry.rds)
    IN  IF config.kind # "Dynamic" THEN StaticRoute(config.static, authority)
        ELSE IF listener \notin kept \/ entry = None THEN None
        ELSE IF "rds" \notin DOMAIN entry THEN entry.route
        ELSE IF rc \notin kept \/ d[rc] = None THEN None
        ELSE d[rc].route

\* What a lookup on behalf of a name can have seen: nothing, if it says so,
\* and a RouteConfiguration that the Listener names, if that is still as it was.
Sees(d, kept, config, authority, lookup) ==
    LET listener == In("listeners", authority)
    IN  /\ lookup.phase = "done" /\ lookup.answer = None
              => Held(d, kept, config, authority) = None
        /\ lookup.phase # "done" =>
              /\ config.kind = "Dynamic"
              /\ \/ lookup.key = listener
                 \/ /\ lookup.key.map = "route_configs"
                    /\ listener \in kept =>
                          /\ d[listener] # None /\ "rds" \in DOMAIN d[listener]
                          /\ lookup.key = In("route_configs", d[listener].rds)

Path == SearchPath(req.url)

Searching ==
    req.step = "route" =>
       /\ DOMAIN lookups = DOMAIN Path
       /\ \A i \in DOMAIN lookups :
             Sees(data, since, req.config, Authority(Path[i]), lookups[i])

Selected == {"step", "url", "config", "trace", "from", "backend", "retry", "lb",
             "address", "previous_addrs"}

\* The names that the request has passed over, none of which has a route.
Passed ==
    CASE req.step \in {"backend", "endpoints", "ready"} -> 1..(req.from - 1)
      [] req.step = "failed" /\ req.error = "NoRouteMatched" -> DOMAIN Path
      [] OTHER -> {}

NobodyPassed ==
    \A i \in Passed : Held(data, since, req.config, Authority(Path[i])) = None

SInv ==
    /\ IInv
    /\ since \subseteq Key
    /\ req.step \in {"backend", "endpoints", "ready"} => DOMAIN req = Selected
    /\ Searching
    /\ NobodyPassed

----------------------------------------------------------------------------

LEMMA HeldIsHeldRoute ==
    ASSUME NEW config, NEW authority
    PROVE  HeldRoute(config, authority) = Held(data, since, config, authority)
BY DEF HeldRoute, Held

\* What is kept of a cache is as it was.
Keeps(e, still, d, kept) == \A l \in still : l \in kept /\ e[l] = d[l]

LEMMA WriteKeeps ==
    ASSUME IInv, since \subseteq Key, Update
    PROVE  Keeps(data', since', data, since) /\ since' \subseteq Key
<1>1. PICK k \in Key : \E entry \in Content[k] :
           /\ data' = [data EXCEPT ![k] = entry]
           /\ since' = IF entry = data[k] THEN since ELSE since \ {k}
  BY DEF Update, Write
<1>2. PICK entry \in Content[k] :
           /\ data' = [data EXCEPT ![k] = entry]
           /\ since' = IF entry = data[k] THEN since ELSE since \ {k}
  BY <1>1
<1>3. \A l \in Key : data'[l] = IF l = k THEN entry ELSE data[l]
  BY <1>2 DEF IInv, Shape
<1> QED  BY <1>2, <1>3 DEF Keeps

\* Time takes routes away from what has been held, and adds none.
LEMMA HeldFades ==
    ASSUME NEW d, NEW kept, NEW e, NEW still, Keeps(e, still, d, kept),
           NEW config, NEW authority, Held(d, kept, config, authority) = None
    PROVE  Held(e, still, config, authority) = None
BY DEF Held, Keeps

LEMMA SeesStill ==
    ASSUME NEW d, NEW kept, NEW e, NEW still, Keeps(e, still, d, kept),
           NEW config, NEW authority, NEW lookup, NEW later,
           Sees(d, kept, config, authority, lookup),
           later.phase = lookup.phase, later.key = lookup.key,
           later.answer = lookup.answer
    PROVE  Sees(e, still, config, authority, later)
<1>1. Held(d, kept, config, authority) = None
         => Held(e, still, config, authority) = None
  BY HeldFades
<1>2. In("listeners", authority) \in still =>
         In("listeners", authority) \in kept
         /\ e[In("listeners", authority)] = d[In("listeners", authority)]
  BY DEF Keeps
<1> QED  BY <1>1, <1>2 DEF Sees

\* A look at an entry that is there.
LEMMA SeesWhatIsFound ==
    ASSUME NEW d, NEW kept, NEW config, NEW authority, NEW lookup,
           Sees(d, kept, config, authority, lookup), lookup.phase # "done"
    PROVE  Sees(d, kept, config, authority, Found(lookup.key, d[lookup.key]))
<1> DEFINE k == lookup.key
           entry == d[k]
           listener == In("listeners", authority)
<1>1. config.kind = "Dynamic"
  BY DEF Sees
<1>2. CASE entry = None
  <2>1. Found(k, entry) = Answered(None)
    BY <1>2 DEF Found
  <2>2. Held(d, kept, config, authority) = None
    BY <1>1, <1>2 DEF Sees, Held
  <2> QED  BY <2>1, <2>2 DEF Sees, Answered
<1>3. CASE entry # None /\ k.map = "listeners" /\ "rds" \in DOMAIN entry
  <2>1. k = listener
    BY <1>3 DEF Sees, In
  <2>2. /\ Found(k, entry).phase = "get"
        /\ Found(k, entry).key = In("route_configs", entry.rds)
    BY <1>3 DEF Found, Lookup
  <2>3. Found(k, entry).key.map = "route_configs"
    BY <2>2 DEF In
  <2> QED  BY <1>1, <1>3, <2>1, <2>2, <2>3 DEF Sees
<1>4. CASE entry # None /\ k.map \in {"listeners", "route_configs"}
           /\ "rds" \notin DOMAIN entry
  <2>1. Found(k, entry) = Answered(entry.route)
    BY <1>4 DEF Found
  <2>2. entry.route = None => Held(d, kept, config, authority) = None
    BY <1>1, <1>4 DEF Sees, Held
  <2> QED  BY <2>1, <2>2 DEF Sees, Answered
<1>5. CASE entry # None /\ k.map = "route_configs" /\ "rds" \in DOMAIN entry
  <2>1. Found(k, entry) = Answered(entry)
    BY <1>5 DEF Found
  <2> QED  BY <1>5, <2>1 DEF Sees, Answered
<1>6. k.map \in {"listeners", "route_configs"}
  BY DEF Sees, In
<1> QED  BY <1>2, <1>3, <1>4, <1>5, <1>6

----------------------------------------------------------------------------

\* The path is a sequence: the name, and the name with every suffix.
LEMMA PathIsASequence ==
    ASSUME NEW url
    PROVE  \E n \in Nat \ {0} : n <= MostLookups /\ DOMAIN SearchPath(url) = 1..n
<1> DEFINE longer == [i \in DOMAIN Search |-> WithHostname(url, url.host \o Search[i])]
<1>1. Len(Search) \in Nat /\ DOMAIN Search = 1..Len(Search)
  BY SearchIsAPath
<1>2. longer \in Seq({longer[i] : i \in DOMAIN Search}) /\ Len(longer) = Len(Search)
  BY <1>1
<1> HIDE DEF longer
<1>3. DOMAIN (<<url>> \o longer) = 1..(1 + Len(Search)) /\ DOMAIN <<url>> = 1..1
  BY <1>1, <1>2
<1>4. SearchPath(url) = <<url>> \o longer \/ SearchPath(url) = <<url>>
  BY DEF SearchPath, longer
<1>5. MostLookups = 1 + Len(Search)
  BY <1>1 DEF MostLookups
<1> DEFINE n == 1 + Len(Search)
<1>6. CASE SearchPath(url) = <<url>>
  <2>1. 1 \in Nat \ {0} /\ 1 <= MostLookups
    BY <1>1, <1>5
  <2> QED  BY <1>3, <1>6, <2>1
<1>7. CASE SearchPath(url) = <<url>> \o longer
  <2>1. n \in Nat \ {0} /\ n <= MostLookups
    BY <1>1, <1>5
  <2> QED  BY <1>3, <1>7, <2>1
<1> QED  BY <1>4, <1>6, <1>7

\* Of numbers one is the least: intervals below them are ordered by inclusion.
LEMMA LeastNumber ==
    ASSUME NEW S, S \subseteq Nat, S # {}
    PROVE  \E m \in S : \A n \in S : m <= n
<1> DEFINE below == {0..(i - 1) : i \in S}
<1>1. below \subseteq FiniteSubsetsOf(Nat) /\ below # {}
  <2>1. \A i \in S : 0..(i - 1) \in SUBSET Nat /\ IsFiniteSet(0..(i - 1))
    <3> TAKE i \in S
    <3>1. i - 1 \in Int /\ 0 \in Int
      OBVIOUS
    <3>2. IsFiniteSet(0..(i - 1))
      BY <3>1, FS_Interval
    <3> QED  BY <3>2
  <2> QED  BY <2>1 DEF FiniteSubsetsOf
<1>2. \E b \in below : \A c \in below : <<c, b>> \notin StrictSubsetOrdering(Nat)
  <2> HIDE DEF below
  <2> QED  BY <1>1, FS_StrictSubsetOrderingWellFounded, WFMin
<1>3. PICK m \in S : \A n \in S : <<0..(n - 1), 0..(m - 1)>> \notin StrictSubsetOrdering(Nat)
  BY <1>2
<1>4. ASSUME NEW n \in S, n < m
      PROVE  FALSE
  <2>1. /\ 0..(n - 1) \subseteq 0..(m - 1) /\ n \in 0..(m - 1) /\ n \notin 0..(n - 1)
        /\ 0..(n - 1) \in SUBSET Nat /\ 0..(m - 1) \in SUBSET Nat
    BY <1>4
  <2>2. <<0..(n - 1), 0..(m - 1)>> \in StrictSubsetOrdering(Nat)
    BY <2>1 DEF StrictSubsetOrdering
  <2> QED  BY <1>3, <2>2
<1> QED  BY <1>4

\* What the request waits for is the first name that may have a route.
LEMMA FirstIsFirst ==
    ASSUME DOMAIN lookups \subseteq Nat
    PROVE  /\ First = None =>
                 \A i \in DOMAIN lookups : lookups[i].phase = "done" /\ lookups[i].answer = None
           /\ First # None =>
                 \A i \in DOMAIN lookups :
                    i < First => lookups[i].phase = "done" /\ lookups[i].answer = None
<1> DEFINE open == {i \in DOMAIN lookups :
                      lookups[i].phase # "done" \/ lookups[i].answer # None}
<1>1. CASE open = {}
  BY <1>1
<1>2. CASE open # {}
  <2>2. \E i \in open : \A j \in open : i <= j
    BY <1>2, LeastNumber
  <2>3. First = CHOOSE i \in open : \A j \in open : i <= j
    BY <1>2 DEF First
  <2> HIDE DEF open
  <2>4. First \in open /\ \A j \in open : First <= j
    BY <2>2, <2>3
  <2> USE DEF open
  <2>5. First \in Nat
    BY <2>4
  <2>6. \A i \in DOMAIN lookups : i < First => i \notin open
    <3>1. \A i \in DOMAIN lookups : i \in Nat
      OBVIOUS
    <3> HIDE DEF open
    <3> QED  BY <2>4, <2>5, <3>1
  <2> QED  BY <2>5, <2>6, NoneIsNoIndex
<1> QED  BY <1>1, <1>2

----------------------------------------------------------------------------

\* Steps that leave the request, the cache and what is kept of it alone.
LEMMA StandStill ==
    ASSUME SInv, UNCHANGED <<data, req, since>>,
           DOMAIN lookups' = DOMAIN lookups,
           \A i \in DOMAIN lookups :
              req.step = "route" =>
                 Sees(data, since, req.config, Authority(Path[i]), lookups'[i]),
           IInv'
    PROVE  SInv'
<1>1. Path' = Path /\ Passed' = Passed
  BY DEF Path, Passed
<1>2. Searching'
  BY <1>1 DEF SInv, Searching
<1>3. NobodyPassed'
  BY <1>1 DEF SInv, NobodyPassed
<1> QED  BY <1>2, <1>3 DEF SInv

LEMMA ReadIsSInv ==
    ASSUME SInv, NEW i \in DOMAIN lookups, ReadOne(i)
    PROVE  SInv'
<1>1. IInv'
  BY ReadIsIInv DEF SInv, ReadOne
<1>2. PICK lookup : Moves(i, lookup)
  BY ReadMoves DEF SInv, ReadOne
<1>3. /\ DOMAIN lookups' = DOMAIN lookups
      /\ \A j \in DOMAIN lookups : lookups'[j] = IF j = i THEN lookup ELSE lookups[j]
  BY <1>2 DEF Become, Moves
<1>4. UNCHANGED <<data, req, since>>
  BY DEF ReadOne, Read, SendSub, Blocks, Get, GetNothing, Register, Wake
<1>5. ASSUME req.step = "route", NEW j \in DOMAIN lookups
      PROVE  Sees(data, since, req.config, Authority(Path[j]), lookups'[j])
  <2>1. Sees(data, since, req.config, Authority(Path[j]), lookups[j])
    BY <1>5 DEF SInv, Searching
  <2>2. CASE j # i
    BY <1>3, <2>1, <2>2
  <2>3. CASE j = i /\ lookup = Found(lookups[i].key, data[lookups[i].key])
    BY <1>2, <1>3, <2>1, <2>3, SeesWhatIsFound DEF Moves
  <2>4. CASE j = i /\ lookup.phase # "done" /\ lookup.key = lookups[i].key
    <3>1. lookups'[j] = lookup
      BY <1>3, <2>4
    <3> QED  BY <1>2, <2>1, <2>4, <3>1 DEF Sees, Moves
  <2> QED  BY <1>2, <2>2, <2>3, <2>4 DEF Moves
<1> QED  BY <1>1, <1>3, <1>4, <1>5, StandStill

LEMMA UpdateIsSInv ==
    ASSUME SInv, Update
    PROVE  SInv'
<1>1. PICK k \in Key : \E entry \in Content[k] : Write(k, entry)
  BY DEF Update
<1>2. IInv'
  BY <1>1, WriteIsIInv DEF SInv
<1>3. Keeps(data', since', data, since) /\ since' \subseteq Key
  BY WriteKeeps DEF SInv
<1>4. req' = req /\ Path' = Path /\ Passed' = Passed
  BY DEF Update, Path, Passed
<1>5. /\ DOMAIN lookups' = DOMAIN lookups
      /\ \A i \in DOMAIN lookups :
            /\ lookups'[i].phase = lookups[i].phase
            /\ lookups'[i].key = lookups[i].key
            /\ lookups'[i].answer = lookups[i].answer
  BY <1>1, WriteNotifies DEF SInv
<1>6. Searching'
  BY <1>3, <1>4, <1>5, SeesStill DEF SInv, Searching
<1>7. NobodyPassed'
  BY <1>3, <1>4, HeldFades DEF SInv, NobodyPassed
<1> QED  BY <1>2, <1>3, <1>4, <1>6, <1>7 DEF SInv

\* A search that begins has looked at nothing.
LEMMA BeginIsSInv ==
    ASSUME SInv, ResolveHttp
    PROVE  SInv'
<1>1. IInv'
  BY ResolveIsIInv DEF SInv
<1>2. PICK url, config :
         /\ req' = [step |-> "route", url |-> url, config |-> config, trace |-> NewTrace]
         /\ lookups' = GetRoutes(config, SearchPath(url))
  BY DEF ResolveHttp
<1>3. since' \subseteq Key
  BY DEF ResolveHttp, Present
<1>4. req'.step = "route" /\ req'.config = config /\ Path' = SearchPath(url)
  BY <1>2 DEF Path
<1>5. Passed' = {}
  BY <1>4 DEF Passed
<1>6. ASSUME NEW i \in DOMAIN SearchPath(url)
      PROVE  Sees(data', since', config, Authority(SearchPath(url)[i]), lookups'[i])
  <2> DEFINE authority == Authority(SearchPath(url)[i])
  <2>1. CASE config.kind = "Dynamic"
    <3>1. lookups'[i] = Lookup(In("listeners", authority))
      BY <1>2, <2>1 DEF GetRoutes
    <3>2. lookups'[i].phase = "send" /\ lookups'[i].key = In("listeners", authority)
      BY <3>1 DEF Lookup
    <3> QED  BY <2>1, <3>2 DEF Sees
  <2>2. CASE config.kind # "Dynamic"
    <3>1. lookups'[i] = Answered(StaticRoute(config.static, authority))
      BY <1>2, <2>2 DEF GetRoutes
    <3>2. lookups'[i].phase = "done"
          /\ lookups'[i].answer = StaticRoute(config.static, authority)
      BY <3>1 DEF Answered
    <3>3. Held(data', since', config, authority) = StaticRoute(config.static, authority)
      BY <2>2 DEF Held
    <3> QED  BY <3>2, <3>3 DEF Sees
  <2> QED  BY <2>1, <2>2
<1>7. DOMAIN lookups' = DOMAIN SearchPath(url)
  BY <1>2 DEF GetRoutes
<1>8. Searching'
  BY <1>4, <1>6, <1>7 DEF Searching
<1> QED  BY <1>1, <1>3, <1>4, <1>5, <1>8 DEF SInv, NobodyPassed

\* A name that is passed over had a lookup that said None, and the route is
\* taken from the first name that has not.
LEMMA RouteIsSInv ==
    ASSUME SInv, ResolveRoute
    PROVE  SInv'
<1>1. IInv'
  BY ResolveIsIInv DEF SInv, Resolve
<1> DEFINE taken(i, trace, id, retry) ==
             [step |-> "route", url |-> req.url, config |-> req.config,
              trace |-> trace, from |-> i, backend |-> id, retry |-> retry,
              lb |-> None, address |-> None, previous_addrs |-> <<>>]
<1>2. PICK i \in Route : \E trace, id, retry : SelectEndpoint(taken(i, trace, id, retry))
  <2>1. PICK i \in Route :
           LET route == lookups[i].answer
               rule == MatchingRule(route, req.url)
           IN  \E b \in Weighed(route.rules[rule]) :
                 \E trace, id : SelectEndpoint(taken(i, trace, id, route.rules[rule].retry))
    BY Zenon DEF ResolveRoute
  <2> QED  BY <2>1
<1>3. /\ DOMAIN req' = Selected /\ req'.step = "backend"
      /\ req'.url = req.url /\ req'.config = req.config /\ req'.from = i
  BY <1>2 DEF SelectEndpoint, Selected
<1>4. /\ UNCHANGED <<data, since>> /\ req.step = "route"
      /\ i = First /\ i \in DOMAIN lookups
  BY <1>2 DEF ResolveRoute, Route
<1>5. PICK n \in Nat : DOMAIN Path = 1..n
  BY PathIsASequence DEF Path
<1>6. DOMAIN lookups = 1..n
  BY <1>4, <1>5 DEF SInv, Searching
<1>7. i \in Nat /\ i # None
  BY <1>4, <1>6, NoneIsNoIndex
<1>8. Path' = Path /\ Passed' = 1..(i - 1)
  BY <1>3 DEF Path, Passed
<1>9. ASSUME NEW j \in 1..(i - 1)
      PROVE  Held(data, since, req.config, Authority(Path[j])) = None
  <2>1. j \in DOMAIN lookups /\ j < i
    BY <1>4, <1>6, <1>7, <1>9
  <2>2. lookups[j].phase = "done" /\ lookups[j].answer = None
    BY <1>4, <1>6, <1>7, <2>1, FirstIsFirst
  <2> QED  BY <1>4, <2>1, <2>2 DEF SInv, Searching, Sees
<1>10. Searching'
  BY <1>3 DEF Searching
<1> QED  BY <1>1, <1>3, <1>4, <1>8, <1>9, <1>10 DEF SInv, NobodyPassed

\* Every name has said None.
LEMMA NoneMatchedIsSInv ==
    ASSUME SInv, NoRouteMatched
    PROVE  SInv'
<1>1. IInv'
  BY ResolveIsIInv DEF SInv, Resolve
<1>2. /\ req'.step = "failed" /\ req'.error = "NoRouteMatched"
      /\ req'.url = req.url /\ req'.config = req.config
      /\ UNCHANGED <<data, since>> /\ req.step = "route" /\ First = None
  BY DEF NoRouteMatched, Fail
<1>3. Path' = Path /\ Passed' = DOMAIN Path
  BY <1>2 DEF Path, Passed
<1>4. ASSUME NEW i \in DOMAIN Path
      PROVE  Held(data, since, req.config, Authority(Path[i])) = None
  <2>1. DOMAIN lookups = DOMAIN Path
    BY <1>2 DEF SInv, Searching
  <2>2. DOMAIN lookups \subseteq Nat
    BY <2>1, PathIsASequence DEF Path
  <2>3. lookups[i].phase = "done" /\ lookups[i].answer = None
    BY <1>2, <2>1, <2>2, FirstIsFirst
  <2> QED  BY <1>2, <2>1, <2>3 DEF SInv, Searching, Sees
<1>5. Searching'
  BY <1>2 DEF Searching
<1> QED  BY <1>1, <1>2, <1>3, <1>4, <1>5 DEF SInv, NobodyPassed

\* What follows keeps the name, the configuration and the place on the path.
LEMMA LaterIsSInv ==
    ASSUME SInv, HasBackend \/ LoadBalance \/ ReportStatus
    PROVE  SInv'
<1>1. IInv'
  BY ResolveIsIInv DEF SInv, Resolve
<1>2. req.step \in {"backend", "endpoints", "ready"} /\ DOMAIN req = Selected
  BY DEF SInv, HasBackend, LoadBalance, ReportStatus
<1>3. /\ DOMAIN req' = Selected /\ req'.step \in {"backend", "endpoints", "ready"}
      /\ req'.url = req.url /\ req'.config = req.config /\ req'.from = req.from
  <2>1. CASE HasBackend
    BY <1>2, <2>1 DEF HasBackend, Selected
  <2>2. CASE LoadBalance
    <3>1. PICK address, trace : req' = Endpoint([req EXCEPT !.trace = trace], address)
      BY <2>2 DEF LoadBalance
    <3> QED  BY <1>2, <3>1 DEF Endpoint, Selected
  <2>3. CASE ReportStatus
    BY <1>2, <2>3 DEF ReportStatus, SelectEndpoint, Selected
  <2> QED  BY <2>1, <2>2, <2>3
<1>4. UNCHANGED <<data, since>>
  BY DEF HasBackend, LoadBalance, ReportStatus
<1>5. Path' = Path /\ Passed' = Passed
  BY <1>2, <1>3 DEF Path, Passed
<1>6. Searching'
  BY <1>3 DEF Searching
<1>7. NobodyPassed'
  BY <1>3, <1>4, <1>5 DEF SInv, NobodyPassed
<1> QED  BY <1>1, <1>3, <1>4, <1>6, <1>7 DEF SInv

\* A request that ends for another reason, or is over, has nothing to say.
LEMMA EndIsSInv ==
    ASSUME SInv, IInv', since' \subseteq Key,
           req'.step \in {"idle", "failed"},
           req'.step = "failed" => req'.error # "NoRouteMatched"
    PROVE  SInv'
<1>1. Passed' = {}
  BY DEF Passed
<1> QED  BY <1>1 DEF SInv, Searching, NobodyPassed

LEMMA InitSInv == Init => SInv
<1> SUFFICES ASSUME Init PROVE SInv
  OBVIOUS
<1>1. req.step = "idle" /\ since = {}
  BY DEF Init, Idle
<1>2. Passed = {}
  BY <1>1 DEF Passed
<1> QED  BY <1>1, <1>2, InitIInv DEF SInv, Searching, NobodyPassed

LEMMA StepSInv == SInv /\ [Next]_vars => SInv'
<1> SUFFICES ASSUME SInv, [Next]_vars PROVE SInv'
  OBVIOUS
<1>1. IInv'
  BY StepIInv DEF SInv
<1>2. CASE UNCHANGED <<data, lookups, req, since>>
  <2>1. \A i \in DOMAIN lookups :
           req.step = "route" =>
             Sees(data, since, req.config, Authority(Path[i]), lookups[i])
    BY DEF SInv, Searching
  <2> QED  BY <1>1, <1>2, <2>1, StandStill
<1>3. CASE Update
  BY <1>3, UpdateIsSInv
<1>4. CASE \E i \in 1..MostLookups : ReadOne(i)
  BY <1>4, ReadIsSInv DEF ReadOne
<1>5. CASE ResolveHttp \/ ResolveRoute \/ NoRouteMatched
           \/ HasBackend \/ LoadBalance \/ ReportStatus
  BY <1>5, BeginIsSInv, RouteIsSInv, NoneMatchedIsSInv, LaterIsSInv
<1>6. CASE NoRuleMatched \/ InvalidRoute \/ NoBackend \/ NoReachableEndpoints
           \/ Panic \/ Timeout
  <2>1. req'.step = "failed" /\ req'.error # "NoRouteMatched" /\ since' = since
    BY <1>6 DEF NoRuleMatched, InvalidRoute, NoBackend, NoReachableEndpoints,
                Panic, Timeout, Fail
  <2> QED  BY <1>1, <2>1, EndIsSInv DEF SInv
<1>7. CASE Finish
  <2>1. req'.step = "idle" /\ since' = {}
    BY <1>7 DEF Finish, Idle
  <2>2. since' \subseteq Key
    BY <2>1
  <2> QED  BY <1>1, <2>1, <2>2, EndIsSInv
<1>8. ASSUME Connected \/ Disconnected \/ BackoffOver \/ TakeSubs
             \/ OthersSubscribe \/ Expire \/ UNCHANGED vars
      PROVE  UNCHANGED <<data, lookups, req, since>>
  BY <1>8 DEF Connected, Disconnected, BackoffOver, TakeSubs,
              OthersSubscribe, Expire, vars
<1> QED  BY <1>2, <1>3, <1>4, <1>5, <1>6, <1>7, <1>8 DEF Next, Resolve

\* No name before the one whose route is taken had a route all the while, and
\* none had one if the request ends without: however many names there are to
\* look up, whatever the order of the answers and whatever the server changes
\* (Client::resolve_routes).
THEOREM TheFirstRouteWins == Spec => []StableRouteWins
<1>1. (\A i \in Passed : HeldRoute(req.config, Authority(Path[i])) = None)
        => StableRouteWins
  BY DEF StableRouteWins, Passed, Path
<1>2. SInv => StableRouteWins
  BY <1>1, HeldIsHeldRoute DEF SInv, NobodyPassed
<1> QED  BY <1>2, InitSInv, StepSInv, PTL DEF Spec

\* A sequence, of whatever.
IsList(s) == \E S : s \in Seq(S)

Ongoing == {"backend", "endpoints", "ready"}

----------------------------------------------------------------------------
(* Remainders and sequences *)

LEMMA RemainderIsUnique ==
    ASSUME NEW m \in Nat \ {0}, NEW q \in Int, NEW r \in 0..(m - 1)
    PROVE  (m * q + r) % m = r
<1> DEFINE n == m * q + r
           p == n \div m
           t == n % m
<1>1. n \in Int /\ p \in Int /\ t \in 0..(m - 1) /\ n = m * p + t
  OBVIOUS
<1>2. m * (p - q) = r - t
  BY <1>1
<1>3. CASE p - q >= 1
  <2>1. m * (p - q) >= m
    BY <1>1, <1>3
  <2> QED  BY <1>1, <1>2, <2>1
<1>4. CASE p - q <= -1
  <2>1. m * (p - q) <= -m
    BY <1>1, <1>4
  <2> QED  BY <1>1, <1>2, <2>1
<1>5. CASE p = q
  BY <1>1, <1>2, <1>5
<1> QED  BY <1>1, <1>3, <1>4, <1>5

LEMMA RemainderIsNat ==
    ASSUME NEW n \in Nat
    PROVE  n % PhaseMod \in Nat
<1>1. PhaseMod \in Nat \ {0}
  BY Bounds
<1> QED BY <1>1

\* The phases of a trace count selections, and wrap around.
LEMMA NextPhase ==
    ASSUME NEW n \in Nat
    PROVE  ((n % PhaseMod) + 1) % PhaseMod = (n + 1) % PhaseMod
<1> DEFINE m == PhaseMod
           q == n \div m
           r == n % m
<1>1. m \in Nat \ {0} /\ q \in Int /\ r \in 0..(m - 1) /\ n = m * q + r
  BY Bounds
<1> HIDE DEF m, q, r
<1>2. CASE r + 1 < m
  <2>1. r + 1 \in 0..(m - 1) /\ 0 \in Int /\ m * 0 + (r + 1) = r + 1
    BY <1>1, <1>2
  <2>2. (r + 1) % m = r + 1
    BY <1>1, <2>1, RemainderIsUnique
  <2>3. (m * q + (r + 1)) % m = r + 1
    BY <1>1, <2>1, RemainderIsUnique
  <2>4. m * q + (r + 1) = n + 1
    BY <1>1
  <2> QED  BY <2>2, <2>3, <2>4 DEF m, r
<1>3. CASE r + 1 = m
  <2>1. 0 \in 0..(m - 1) /\ 1 \in Int /\ q + 1 \in Int
        /\ m * 1 + 0 = r + 1 /\ m * (q + 1) + 0 = n + 1
    BY <1>1, <1>3
  <2>2. (r + 1) % m = 0 /\ (n + 1) % m = 0
    BY <1>1, <2>1, RemainderIsUnique
  <2> QED  BY <2>2 DEF m, r
<1> QED  BY <1>1, <1>2, <1>3

LEMMA ListFacts ==
    ASSUME NEW s, IsList(s)
    PROVE  Len(s) \in Nat /\ DOMAIN s = 1..Len(s)
BY DEF IsList

LEMMA Appended ==
    ASSUME NEW s, IsList(s), NEW e
    PROVE  /\ IsList(Append(s, e))
           /\ Len(Append(s, e)) = Len(s) + 1
           /\ \A i \in 1..Len(s) : Append(s, e)[i] = s[i]
           /\ Append(s, e)[Len(s) + 1] = e
<1>1. PICK S : s \in Seq(S)
  BY DEF IsList
<1>2. s \in Seq(S \cup {e}) /\ e \in S \cup {e}
  BY <1>1
<1>3. Append(s, e) \in Seq(S \cup {e})
  BY <1>2
<1> QED  BY <1>2, <1>3 DEF IsList

LEMMA TabulatedIsList ==
    ASSUME NEW n \in Nat, NEW s, DOMAIN s = 1..n, s = [i \in 1..n |-> s[i]]
    PROVE  IsList(s) /\ Len(s) = n
<1> DEFINE S == {s[i] : i \in 1..n}
<1>1. s \in [1..n -> S]
  OBVIOUS
<1> HIDE DEF S
<1>2. s \in Seq(S)
  BY <1>1
<1> QED  BY <1>1, <1>2 DEF IsList

----------------------------------------------------------------------------
(* Answers *)

\* What is in cache came from the server.
DataFits == \A k \in Key : data[k] \in Content[k] \cup {Absent}

GroupMaps == {"load_assignments", "dns"}

\* A lookup of endpoints is on its way to a group or has one.
GroupLookup(lookup) ==
    /\ lookup.phase = "done" /\ lookup.answer # None =>
          \A i \in DOMAIN lookup.answer.group : lookup.answer.group[i] \in Addresses
    /\ lookup.phase # "done" => lookup.key.map \in GroupMaps

AInv ==
    /\ SInv
    /\ DataFits
    /\ req.step = "endpoints" => DOMAIN lookups = {1} /\ GroupLookup(lookups[1])

LEMMA SecondLookup ==
    ASSUME NEW config, NEW id
    PROVE  GroupLookup(GetEndpoints(config, id))
<1>1. CASE config.kind = "Static"
  BY <1>1 DEF GetEndpoints, StaticEndpoints, Answered, GroupLookup
<1>2. CASE config.kind # "Static"
  <2>1. PICK map \in GroupMaps : GetEndpoints(config, id) = Lookup(In(map, id))
    BY <1>2 DEF GetEndpoints, GroupMaps
  <2>2. /\ GetEndpoints(config, id).phase = "send"
        /\ GetEndpoints(config, id).key = In(map, id)
    BY <2>1 DEF Lookup
  <2> QED  BY <2>2 DEF GroupLookup, In
<1> QED  BY <1>1, <1>2

\* An entry of the map is a group.
LEMMA FoundIsAGroup ==
    ASSUME DataFits, NEW k \in Present, k.map \in GroupMaps
    PROVE  GroupLookup(Found(k, data[k]))
<1>1. data[k] \in Content[k] /\ data[k] # Absent /\ k \in Key
  BY DEF DataFits, Present
<1>2. CASE data[k] = None
  BY <1>2 DEF Found, Answered, GroupLookup
<1>3. CASE data[k] # None
  <2>1. Found(k, data[k]) = Answered(data[k])
    BY <1>3 DEF Found, GroupMaps
  <2>2. \A i \in DOMAIN data[k].group : data[k].group[i] \in Addresses
    <3> DEFINE groups == (UNION {Content[l] : l \in {m \in Key : m.map \in GroupMaps}})
                           \ {None, Absent}
    <3>1. data[k] \in groups
      <4>1. k \in {m \in Key : m.map \in GroupMaps}
        BY <1>1
      <4>2. Content[k] \in {Content[l] : l \in {m \in Key : m.map \in GroupMaps}}
        BY <4>1
      <4>3. data[k] \in UNION {Content[l] : l \in {m \in Key : m.map \in GroupMaps}}
        BY <1>1, <4>2, Zenon
      <4>4. data[k] \notin {None, Absent}
        BY <1>1, <1>3
      <4> QED  BY <4>3, <4>4 DEF groups
    <3>2. Addresses = UNION {Range(g.group) : g \in groups}
      BY DEF Addresses, GroupMaps
    <3> HIDE DEF groups
    <3>3. Range(data[k].group) \subseteq Addresses
      BY <3>1, <3>2
    <3> QED  BY <3>3 DEF Range
  <2> QED  BY <2>1, <2>2 DEF Answered, GroupLookup
<1> QED  BY <1>2, <1>3

\* A request whose route and backend have just been chosen.
Chosen(i, route, rule, id, retry) ==
    [step |-> "route", url |-> req.url, config |-> req.config,
     trace |-> Log(Log(Log(req.trace, "RouteLookup", route), "RouteRuleMatched", rule),
                   "BackendSelected", id),
     from |-> i, backend |-> id, retry |-> retry,
     lb |-> None, address |-> None, previous_addrs |-> <<>>]

LEMMA RouteIsChosen ==
    ASSUME ResolveRoute
    PROVE  \E i, rule, retry, route, id : SelectEndpoint(Chosen(i, route, rule, id, retry))
<1>1. PICK i \in Route :
         LET route == lookups[i].answer
             rule == MatchingRule(route, req.url)
         IN  \E b \in Weighed(route.rules[rule]) :
               \E id : SelectEndpoint(Chosen(i, route.id, rule, id, route.rules[rule].retry))
  BY Zenon DEF ResolveRoute, Chosen
<1> QED  BY <1>1

LEMMA InitAInv == Init => AInv
BY InitSInv DEF Init, Idle, ReaderInit, AInv, DataFits

LEMMA StepAInv == AInv /\ [Next]_vars => AInv'
<1> SUFFICES ASSUME AInv, [Next]_vars PROVE AInv'
  OBVIOUS
<1>1. SInv' /\ IInv
  BY StepSInv DEF AInv, SInv
<1>2. CASE UNCHANGED <<data, lookups, req>>
  BY <1>1, <1>2 DEF AInv, DataFits, GroupLookup
<1>3. CASE Update
  <2>1. PICK k \in Key : \E entry \in Content[k] : Write(k, entry)
    BY <1>3 DEF Update
  <2>2. PICK entry \in Content[k] : Write(k, entry)
    BY <2>1
  <2>3. DataFits'
    <3>1. \A l \in Key : data'[l] = IF l = k THEN entry ELSE data[l]
      BY <1>1, <2>2 DEF Write, IInv, Shape
    <3> QED  BY <3>1 DEF AInv, DataFits
  <2>4. /\ DOMAIN lookups' = DOMAIN lookups
        /\ \A i \in DOMAIN lookups :
              /\ lookups'[i].phase = lookups[i].phase
              /\ lookups'[i].key = lookups[i].key
              /\ lookups'[i].answer = lookups[i].answer
    BY <1>1, <2>2, WriteNotifies
  <2>5. req' = req
    BY <1>3 DEF Update
  <2> QED  BY <1>1, <2>3, <2>4, <2>5 DEF AInv, GroupLookup
<1>4. CASE \E i \in 1..MostLookups : ReadOne(i)
  <2>1. PICK i : ReadOne(i)
    BY <1>4
  <2>2. PICK lookup : Moves(i, lookup)
    BY <1>1, <2>1, ReadMoves DEF ReadOne
  <2>3. UNCHANGED <<data, req>> /\ i \in DOMAIN lookups
    BY <2>1, <2>2 DEF ReadOne, Moves
  <2>4. lookups' = [lookups EXCEPT ![i] = lookup]
    BY <2>2 DEF Moves, Become
  <2>5. ASSUME req.step = "endpoints"
        PROVE  DOMAIN lookups' = {1} /\ GroupLookup(lookups'[1])
    <3>1. i = 1 /\ DOMAIN lookups = {1} /\ lookups[1].key.map \in GroupMaps
      BY <2>2, <2>3, <2>5 DEF AInv, GroupLookup, Moves
    <3>2. DOMAIN lookups' = {1} /\ lookups'[1] = lookup
      BY <2>4, <3>1
    <3>3. GroupLookup(lookup)
      BY <2>2, <3>1, FoundIsAGroup DEF AInv, Moves, GroupLookup
    <3> QED  BY <3>2, <3>3
  <2> QED  BY <1>1, <2>3, <2>5 DEF AInv, DataFits
<1>5. CASE HasBackend
  <2>1. data' = data /\ lookups' = <<GetEndpoints(req.config, req.backend)>>
    BY <1>5 DEF HasBackend
  <2>2. DOMAIN lookups' = {1} /\ lookups'[1] = GetEndpoints(req.config, req.backend)
    BY <2>1
  <2> QED  BY <1>1, <2>1, <2>2, SecondLookup DEF AInv, DataFits
<1>6. ASSUME req'.step # "endpoints", data' = data
      PROVE  AInv'
  BY <1>1, <1>6 DEF AInv, DataFits
<1>7. CASE ResolveHttp \/ Finish
  <2>1. data' = data /\ req'.step \in {"route", "idle"}
    BY <1>7 DEF ResolveHttp, Finish, Idle
  <2> QED  BY <1>6, <2>1
<1>8. CASE NoRouteMatched \/ NoRuleMatched \/ InvalidRoute \/ NoBackend
           \/ NoReachableEndpoints \/ Panic \/ Timeout
  <2>1. data' = data /\ req'.step = "failed"
    BY <1>8 DEF NoRouteMatched, NoRuleMatched, InvalidRoute, NoBackend,
                NoReachableEndpoints, Panic, Timeout, Fail
  <2> QED  BY <1>6, <2>1
<1>9. CASE ResolveRoute \/ ReportStatus
  <2>1. data' = data /\ \E r : req' = [r EXCEPT !.step = "backend",
                                          !.trace = StartEndpointSelection(@)]
                               /\ "step" \in DOMAIN r
    <3>1. CASE ReportStatus
      <4>1. SelectEndpoint(req) /\ "step" \in DOMAIN req
        BY <3>1 DEF ReportStatus, AInv, SInv, Selected
      <4> QED  BY <3>1, <4>1 DEF ReportStatus, SelectEndpoint
    <3>2. CASE ResolveRoute
      <4>1. PICK i, rule, retry, route, id : SelectEndpoint(Chosen(i, route, rule, id, retry))
        BY <3>2, RouteIsChosen
      <4> QED  BY <3>2, <4>1 DEF ResolveRoute, SelectEndpoint, Chosen
    <3> QED  BY <1>9, <3>1, <3>2
  <2>2. req'.step = "backend"
    BY <2>1
  <2> QED  BY <1>6, <2>1, <2>2
<1>10. CASE LoadBalance
  <2>1. data' = data /\ DOMAIN req = Selected
    BY <1>10 DEF LoadBalance, AInv, SInv
  <2>2. PICK trace, address : req' = Endpoint([req EXCEPT !.trace = trace], address)
    BY <1>10 DEF LoadBalance
  <2>3. req'.step = "ready"
    BY <2>1, <2>2 DEF Endpoint, Selected
  <2> QED  BY <1>6, <2>1, <2>3
<1>11. ASSUME Connected \/ Disconnected \/ BackoffOver \/ TakeSubs
              \/ OthersSubscribe \/ Expire \/ UNCHANGED vars
       PROVE  UNCHANGED <<data, lookups, req>>
  BY <1>11 DEF Connected, Disconnected, BackoffOver, TakeSubs,
               OthersSubscribe, Expire, vars
<1> QED  BY <1>2, <1>3, <1>4, <1>5, <1>7, <1>8, <1>9, <1>10, <1>11 DEF Next, Resolve

----------------------------------------------------------------------------
(* The history *)

Phase(n) == n % PhaseMod

IsTrace(t) == DOMAIN t = {"phase", "events"} /\ IsList(t.events)

\* The address of the nth try.
Tried(r, n) == IF n <= Len(r.previous_addrs) THEN r.previous_addrs[n] ELSE r.address
TriesOf(r) == IF r.address = None THEN 0 ELSE Len(r.previous_addrs) + 1

\* The events of the first tries: the backend, its endpoints, the address.
Told(r, tries) ==
    \A n \in 1..tries :
       /\ r.trace.events[1 + 3 * n] = Event(Phase(n - 1), "BackendLookup", r.backend)
       /\ r.trace.events[2 + 3 * n] = Event(Phase(n - 1), "EndpointsLookup", r.backend)
       /\ r.trace.events[3 + 3 * n] = Event(Phase(n - 1), "SelectAddr", Tried(r, n))

\* What a request knows of itself between two waits.
Whole(r) ==
    LET tries == TriesOf(r)
    IN  /\ DOMAIN r = Selected
        /\ IsList(r.previous_addrs) /\ IsTrace(r.trace)
        /\ r.address = None => r.previous_addrs = <<>>
        /\ Told(r, tries)
        /\ CASE r.step = "ready" ->
                  /\ r.address \in Addresses
                  /\ Len(r.trace.events) = 3 + 3 * tries
                  /\ r.trace.phase = Phase(tries - 1)
                  /\ tries = 1 \/ Len(r.previous_addrs) < r.retry.attempts
             [] r.step = "backend" ->
                  /\ Len(r.trace.events) = 3 + 3 * tries
                  /\ r.trace.phase = Phase(tries)
                  /\ tries = 0 \/ tries < r.retry.attempts
             [] r.step = "endpoints" ->
                  /\ Len(r.trace.events) = 4 + 3 * tries
                  /\ r.trace.events[4 + 3 * tries] =
                        Event(Phase(tries), "BackendLookup", r.backend)
                  /\ r.trace.phase = Phase(tries)
                  /\ tries = 0 \/ tries < r.retry.attempts

HInv ==
    /\ AInv
    /\ req.step = "route" => req.trace = NewTrace
    /\ req.step \in Ongoing => Whole(req)

\* Logging an event: the trace with one more.
LEMMA Logged ==
    ASSUME NEW t, IsTrace(t), NEW kind, NEW what, NEW u, u = Log(t, kind, what)
    PROVE  /\ IsTrace(u) /\ u.phase = t.phase
           /\ Len(u.events) = Len(t.events) + 1
           /\ \A i \in 1..Len(t.events) : u.events[i] = t.events[i]
           /\ u.events[Len(t.events) + 1] = Event(t.phase, kind, what)
<1> DEFINE e == Event(t.phase, kind, what)
<1>1. u = [t EXCEPT !.events = Append(t.events, e)]
  BY DEF Log
<1> HIDE DEF e
<1>2. DOMAIN u = {"phase", "events"} /\ u.phase = t.phase /\ u.events = Append(t.events, e)
  BY <1>1 DEF IsTrace
<1>3. /\ IsList(u.events) /\ Len(u.events) = Len(t.events) + 1
      /\ \A i \in 1..Len(t.events) : u.events[i] = t.events[i]
      /\ u.events[Len(t.events) + 1] = e
  BY <1>2, Appended DEF IsTrace
<1> QED  BY <1>2, <1>3 DEF e, IsTrace

LEMMA EmptyIsList == IsList(<<>>) /\ Len(<<>>) = 0
<1>1. <<>> \in Seq({})
  OBVIOUS
<1> QED  BY <1>1 DEF IsList

\* select_endpoint begins, for the first time.
LEMMA ChosenIsWhole ==
    ASSUME NEW i, NEW route, NEW rule, NEW id, NEW retry,
           req.trace = NewTrace, SelectEndpoint(Chosen(i, route, rule, id, retry))
    PROVE  req'.step = "backend" /\ Whole(req')
<1>1. PICK n, a, b, c : /\ n = NewTrace
                        /\ a = Log(n, "RouteLookup", route)
                        /\ b = Log(a, "RouteRuleMatched", rule)
                        /\ c = Log(b, "BackendSelected", id)
  OBVIOUS
<1>2. IsTrace(n) /\ n.phase = None /\ Len(n.events) = 0
  BY <1>1, EmptyIsList DEF NewTrace, IsTrace
<1>3. IsTrace(a) /\ a.phase = n.phase /\ Len(a.events) = Len(n.events) + 1
  <2>1. IsTrace(n)
    BY <1>2
  <2> QED  BY <1>1, <2>1, Logged
<1>4. IsTrace(b) /\ b.phase = a.phase /\ Len(b.events) = Len(a.events) + 1
  BY <1>1, <1>3, Logged
<1>5. IsTrace(c) /\ c.phase = None /\ Len(c.events) = 3
  <2>1. IsTrace(c) /\ c.phase = b.phase /\ Len(c.events) = Len(b.events) + 1
    BY <1>1, <1>4, Logged
  <2> QED  BY <1>2, <1>3, <1>4, <2>1
<1>6. Chosen(i, route, rule, id, retry).trace = c
  BY <1>1 DEF Chosen
<1>7. /\ StartEndpointSelection(c).events = c.events
      /\ StartEndpointSelection(c).phase = 0
      /\ IsTrace(StartEndpointSelection(c))
  BY <1>5 DEF StartEndpointSelection, IsTrace
<1>8. /\ DOMAIN req' = Selected /\ req'.step = "backend"
      /\ req'.address = None /\ req'.previous_addrs = <<>>
      /\ req'.trace = StartEndpointSelection(c)
  BY <1>6 DEF SelectEndpoint, Chosen, Selected
<1>9. Phase(0) = 0
  BY Bounds DEF Phase
<1> QED  BY <1>5, <1>7, <1>8, <1>9, EmptyIsList DEF Whole, TriesOf, Told

\* The backend has been found.
LEMMA BackendIsWhole ==
    ASSUME Whole(req), HasBackend
    PROVE  req'.step = "endpoints" /\ Whole(req')
<1>0. PICK t, u : t = req.trace /\ u = Log(t, "BackendLookup", req.backend)
  OBVIOUS
<1>1. /\ req.step = "backend" /\ DOMAIN req = Selected
      /\ IsTrace(t)
  BY <1>0 DEF HasBackend, Whole
<1>2. /\ IsTrace(u) /\ u.phase = t.phase
      /\ Len(u.events) = Len(t.events) + 1
      /\ \A i \in 1..Len(t.events) : u.events[i] = t.events[i]
      /\ u.events[Len(t.events) + 1] = Event(t.phase, "BackendLookup", req.backend)
  BY <1>0, <1>1, Logged
<1>3. /\ DOMAIN req' = Selected /\ req'.step = "endpoints" /\ req'.trace = u
      /\ \A f \in Selected \ {"step", "trace", "lb"} : req'[f] = req[f]
  <2>1. req' = [req EXCEPT !.step = "endpoints", !.lb = lookups[1].answer.lb, !.trace = u]
    BY <1>0 DEF HasBackend
  <2> QED  BY <1>1, <2>1 DEF Selected
<1>4. /\ req'.address = req.address /\ req'.previous_addrs = req.previous_addrs
      /\ req'.backend = req.backend /\ req'.retry = req.retry
  BY <1>3 DEF Selected
<1>5. TriesOf(req') = TriesOf(req) /\ \A n : Tried(req', n) = Tried(req, n)
  BY <1>4 DEF TriesOf, Tried
<1>6. TriesOf(req) \in Nat
  BY ListFacts DEF Whole, TriesOf
<1>7. Len(t.events) = 3 + 3 * TriesOf(req) /\ t.phase = Phase(TriesOf(req))
  BY <1>0, <1>1 DEF Whole
<1>8. Told(req', TriesOf(req'))
  <2>1. \A n \in 1..TriesOf(req) : /\ 1 + 3 * n \in 1..Len(t.events)
                                  /\ 2 + 3 * n \in 1..Len(t.events)
                                  /\ 3 + 3 * n \in 1..Len(t.events)
    BY <1>6, <1>7
  <2>2. \A n \in 1..TriesOf(req) :
           /\ u.events[1 + 3 * n] = t.events[1 + 3 * n]
           /\ u.events[2 + 3 * n] = t.events[2 + 3 * n]
           /\ u.events[3 + 3 * n] = t.events[3 + 3 * n]
    BY <1>2, <2>1
  <2>3. Told(req, TriesOf(req))
    BY DEF Whole
  <2> QED  BY <1>0, <1>3, <1>4, <1>5, <2>2, <2>3 DEF Told
<1>9. Len(u.events) = 4 + 3 * TriesOf(req) /\ Len(t.events) + 1 = 4 + 3 * TriesOf(req)
  BY <1>2, <1>6, <1>7
<1>10. /\ req'.previous_addrs = req.previous_addrs /\ IsList(req.previous_addrs)
       /\ req.address = None => req.previous_addrs = <<>>
       /\ TriesOf(req) = 0 \/ TriesOf(req) < req.retry.attempts
  BY <1>1, <1>4 DEF Whole
<1> QED  BY <1>2, <1>3, <1>4, <1>5, <1>7, <1>8, <1>9, <1>10 DEF Whole

\* report_status: another try.
LEMMA RetryIsWhole ==
    ASSUME Whole(req), ReportStatus
    PROVE  req'.step = "backend" /\ Whole(req')
<1> DEFINE t == req.trace
           u == StartEndpointSelection(t)
<1>1. /\ req.step = "ready" /\ DOMAIN req = Selected
      /\ IsTrace(t)
      /\ req.address \in Addresses /\ IsList(req.previous_addrs)
  BY DEF ReportStatus, Whole
<1>2. TriesOf(req) = Len(req.previous_addrs) + 1 /\ Len(req.previous_addrs) \in Nat
      /\ req.address # None
  BY <1>1, ListFacts, NoneIsNoAddress DEF TriesOf
<1>3. u.events = t.events /\ IsTrace(u)
      /\ u.phase = (IF t.phase = None THEN 0 ELSE (t.phase + 1) % PhaseMod)
  BY <1>1 DEF StartEndpointSelection, IsTrace
<1>4. t.phase = Phase(TriesOf(req) - 1) /\ Len(t.events) = 3 + 3 * TriesOf(req)
  BY <1>1 DEF Whole
<1>5. u.phase = Phase(TriesOf(req))
  <2>1. TriesOf(req) - 1 = Len(req.previous_addrs)
    BY <1>2
  <2>2. t.phase = Len(req.previous_addrs) % PhaseMod
    BY <1>4, <2>1 DEF Phase
  <2>3. t.phase \in Nat
    BY <1>2, <2>2, RemainderIsNat
  <2>4. t.phase # None
    BY <2>3, NoneIsNoIndex
  <2>5. u.phase = ((Len(req.previous_addrs) % PhaseMod) + 1) % PhaseMod
    BY <1>3, <2>2, <2>4
  <2> QED  BY <1>2, <2>5, NextPhase DEF Phase
<1> HIDE DEF u
<1>6. /\ DOMAIN req' = Selected /\ req'.step = "backend" /\ req'.trace = u
      /\ \A f \in Selected \ {"step", "trace"} : req'[f] = req[f]
  <2>1. req' = [req EXCEPT !.step = "backend", !.trace = u]
    BY <1>1 DEF ReportStatus, SelectEndpoint, u, Selected
  <2> QED  BY <1>1, <2>1 DEF Selected
<1>7. /\ req'.address = req.address /\ req'.previous_addrs = req.previous_addrs
      /\ req'.backend = req.backend /\ req'.retry = req.retry
  BY <1>6 DEF Selected
<1>8. TriesOf(req') = TriesOf(req) /\ \A n : Tried(req', n) = Tried(req, n)
  BY <1>7 DEF TriesOf, Tried
<1>9. Told(req', TriesOf(req'))
  <2>1. Told(req, TriesOf(req))
    BY DEF Whole
  <2> QED  BY <1>3, <1>6, <1>7, <1>8, <2>1 DEF Told
<1>10. TriesOf(req) < req.retry.attempts
  BY <1>2 DEF ReportStatus, ShouldRetry
<1> QED  BY <1>1, <1>2, <1>3, <1>4, <1>5, <1>6, <1>7, <1>8, <1>9, <1>10 DEF Whole

\* An address is chosen: the one before it joins the history.
LEMMA AddressIsWhole ==
    ASSUME AInv, Whole(req), LoadBalance
    PROVE  req'.step = "ready" /\ req'.address \in Addresses /\ Whole(req')
<1>1. PICK i, address, t, v, u :
         /\ i \in DOMAIN lookups[1].answer.group
         /\ address = lookups[1].answer.group[i]
         /\ t = req.trace /\ v = Log(t, "EndpointsLookup", req.backend)
         /\ u = Log(v, "SelectAddr", address)
         /\ req' = Endpoint([req EXCEPT !.trace = u], address)
  BY DEF LoadBalance
<1>2. address \in Addresses /\ address # None
  BY <1>1, NoneIsNoAddress DEF AInv, GroupLookup, LoadBalance, HasAnswer
<1>3. /\ req.step = "endpoints" /\ DOMAIN req = Selected
      /\ IsTrace(t) /\ IsList(req.previous_addrs)
  BY <1>1 DEF LoadBalance, Whole
<1>4. /\ IsTrace(u) /\ u.phase = t.phase
      /\ Len(u.events) = Len(t.events) + 2
      /\ \A k \in 1..Len(t.events) : u.events[k] = t.events[k]
      /\ u.events[Len(t.events) + 1] = Event(t.phase, "EndpointsLookup", req.backend)
      /\ u.events[Len(t.events) + 2] = Event(t.phase, "SelectAddr", address)
  <2>1. IsTrace(t) /\ v = Log(t, "EndpointsLookup", req.backend)
    BY <1>1, <1>3
  <2>2. /\ IsTrace(v) /\ v.phase = t.phase
        /\ Len(v.events) = Len(t.events) + 1
        /\ \A k \in 1..Len(t.events) : v.events[k] = t.events[k]
        /\ v.events[Len(t.events) + 1] = Event(t.phase, "EndpointsLookup", req.backend)
    BY <2>1, Logged
  <2>3. IsTrace(v) /\ u = Log(v, "SelectAddr", address)
    BY <1>1, <2>2
  <2>4. /\ IsTrace(u) /\ u.phase = v.phase
        /\ Len(u.events) = Len(v.events) + 1
        /\ \A k \in 1..Len(v.events) : u.events[k] = v.events[k]
        /\ u.events[Len(v.events) + 1] = Event(v.phase, "SelectAddr", address)
    BY <2>3, Logged
  <2>5. /\ Len(t.events) \in Nat /\ Len(v.events) + 1 = Len(t.events) + 2
        /\ \A k \in 1..Len(t.events) : k \in 1..Len(v.events)
        /\ Len(t.events) + 1 \in 1..Len(v.events)
    BY <2>1, <2>2, ListFacts DEF IsTrace
  <2> QED  BY <2>2, <2>4, <2>5
<1> DEFINE before == IF req.address = None THEN req.previous_addrs
                     ELSE Append(req.previous_addrs, req.address)
           tries == TriesOf(req)
<1>5. /\ DOMAIN req' = Selected /\ req'.step = "ready" /\ req'.trace = u
      /\ req'.address = address /\ req'.previous_addrs = before
      /\ req'.backend = req.backend /\ req'.retry = req.retry
  <2>1. PICK r : r = [req EXCEPT !.trace = u]
    OBVIOUS
  <2>2. /\ DOMAIN r = Selected /\ r.trace = u /\ r.address = req.address
        /\ r.previous_addrs = req.previous_addrs
        /\ r.backend = req.backend /\ r.retry = req.retry
    BY <1>3, <2>1 DEF Selected
  <2>3. req' = [r EXCEPT !.step = "ready", !.address = address, !.previous_addrs = before]
    BY <1>1, <2>1, <2>2 DEF Endpoint, Selected
  <2> HIDE DEF before
  <2> QED  BY <2>2, <2>3 DEF Selected
<1>6. /\ tries \in Nat /\ IsList(before) /\ Len(before) = tries
      /\ \A n \in 1..tries : before[n] = Tried(req, n)
  <2>1. CASE req.address = None
    <3>1. req.previous_addrs = <<>>
      BY <2>1 DEF Whole
    <3> QED  BY <2>1, <3>1, EmptyIsList DEF TriesOf
  <2>2. CASE req.address # None
    <3>1. before = Append(req.previous_addrs, req.address) /\ tries = Len(req.previous_addrs) + 1
          /\ Len(req.previous_addrs) \in Nat
      BY <1>3, <2>2, ListFacts DEF TriesOf
    <3>2. /\ IsList(before) /\ Len(before) = tries
          /\ \A n \in 1..Len(req.previous_addrs) : before[n] = req.previous_addrs[n]
          /\ before[Len(req.previous_addrs) + 1] = req.address
      BY <1>3, <3>1, Appended
    <3> HIDE DEF before, tries
    <3> QED  BY <3>1, <3>2 DEF Tried
  <2> QED  BY <2>1, <2>2
<1>7. /\ Len(t.events) = 4 + 3 * tries
      /\ t.events[4 + 3 * tries] = Event(Phase(tries), "BackendLookup", req.backend)
      /\ t.phase = Phase(tries)
      /\ tries = 0 \/ tries < req.retry.attempts
      /\ Told(req, tries)
  BY <1>1, <1>3 DEF Whole
<1> HIDE DEF before, tries
<1>8. TriesOf(req') = tries + 1 /\ tries + 1 - 1 = tries
  BY <1>2, <1>5, <1>6 DEF TriesOf
<1>9. /\ \A n \in 1..tries : Tried(req', n) = Tried(req, n)
      /\ Tried(req', tries + 1) = address
  BY <1>5, <1>6 DEF Tried
<1>10. Told(req', tries + 1)
  <2>1. \A n \in 1..tries : /\ 1 + 3 * n \in 1..Len(t.events)
                           /\ 2 + 3 * n \in 1..Len(t.events)
                           /\ 3 + 3 * n \in 1..Len(t.events)
    BY <1>6, <1>7
  <2>2. \A n \in 1..tries : /\ u.events[1 + 3 * n] = t.events[1 + 3 * n]
                           /\ u.events[2 + 3 * n] = t.events[2 + 3 * n]
                           /\ u.events[3 + 3 * n] = t.events[3 + 3 * n]
    BY <1>4, <2>1
  <2>3. ASSUME NEW n \in 1..tries
        PROVE  /\ u.events[1 + 3 * n] = Event(Phase(n - 1), "BackendLookup", req.backend)
               /\ u.events[2 + 3 * n] = Event(Phase(n - 1), "EndpointsLookup", req.backend)
               /\ u.events[3 + 3 * n] = Event(Phase(n - 1), "SelectAddr", Tried(req, n))
    <3>1. /\ t.events[1 + 3 * n] = Event(Phase(n - 1), "BackendLookup", req.backend)
          /\ t.events[2 + 3 * n] = Event(Phase(n - 1), "EndpointsLookup", req.backend)
          /\ t.events[3 + 3 * n] = Event(Phase(n - 1), "SelectAddr", Tried(req, n))
      BY <1>1, <1>7 DEF Told
    <3> QED  BY <2>2, <3>1
  <2>4. /\ 1 + 3 * (tries + 1) = 4 + 3 * tries
        /\ 2 + 3 * (tries + 1) = Len(t.events) + 1
        /\ 3 + 3 * (tries + 1) = Len(t.events) + 2
        /\ 4 + 3 * tries \in 1..Len(t.events)
    <3>1. tries \in Nat /\ Len(t.events) = 4 + 3 * tries
      BY <1>6, <1>7
    <3> QED  BY <3>1
  <2>5. /\ u.events[1 + 3 * (tries + 1)] = Event(Phase(tries), "BackendLookup", req.backend)
        /\ u.events[2 + 3 * (tries + 1)] = Event(Phase(tries), "EndpointsLookup", req.backend)
        /\ u.events[3 + 3 * (tries + 1)] = Event(Phase(tries), "SelectAddr", address)
    BY <1>4, <1>7, <2>4
  <2>6. \A n \in 1..(tries + 1) : n \in 1..tries \/ n = tries + 1
    BY <1>6
  <2>7. SUFFICES ASSUME NEW n \in 1..(tries + 1)
                 PROVE  /\ req'.trace.events[1 + 3 * n] =
                             Event(Phase(n - 1), "BackendLookup", req'.backend)
                        /\ req'.trace.events[2 + 3 * n] =
                             Event(Phase(n - 1), "EndpointsLookup", req'.backend)
                        /\ req'.trace.events[3 + 3 * n] =
                             Event(Phase(n - 1), "SelectAddr", Tried(req', n))
    BY DEF Told
  <2>8. CASE n \in 1..tries
    <3>1. Tried(req', n) = Tried(req, n)
      BY <1>9, <2>8
    <3> QED  BY <1>5, <2>3, <2>8, <3>1
  <2>9. CASE n = tries + 1
    <3>1. n - 1 = tries /\ Tried(req', n) = address
      BY <1>6, <1>9, <2>9
    <3> QED  BY <1>5, <2>5, <2>9, <3>1
  <2> QED  BY <2>6, <2>8, <2>9
<1>11. Len(u.events) = 3 + 3 * (tries + 1)
  BY <1>4, <1>6, <1>7
<1>12. tries + 1 = 1 \/ Len(before) < req.retry.attempts
  BY <1>6, <1>7
<1> QED
  BY <1>2, <1>4, <1>5, <1>6, <1>7, <1>8, <1>10, <1>11, <1>12 DEF Whole

LEMMA InitHInv == Init => HInv
BY InitAInv DEF Init, Idle, HInv, Ongoing

LEMMA StepHInv == HInv /\ [Next]_vars => HInv'
<1> SUFFICES ASSUME HInv, [Next]_vars PROVE HInv'
  OBVIOUS
<1>1. AInv /\ AInv'
  BY StepAInv DEF HInv
<1>2. CASE req' = req
  BY <1>1, <1>2 DEF HInv, Whole, Told, Tried, TriesOf
<1>3. ASSUME req'.step \in Ongoing, Whole(req') PROVE HInv'
  BY <1>1, <1>3 DEF HInv, Ongoing
<1>4. CASE ResolveRoute
  <2>1. PICK i, rule, retry, route, id : SelectEndpoint(Chosen(i, route, rule, id, retry))
    BY <1>4, RouteIsChosen
  <2>2. req.trace = NewTrace
    BY <1>4 DEF ResolveRoute, HInv
  <2> QED  BY <1>3, <2>1, <2>2, ChosenIsWhole DEF Ongoing
<1>5. CASE HasBackend
  BY <1>3, <1>5, BackendIsWhole DEF HInv, Ongoing, HasBackend
<1>6. CASE LoadBalance
  BY <1>1, <1>3, <1>6, AddressIsWhole DEF HInv, Ongoing, LoadBalance
<1>7. CASE ReportStatus
  BY <1>3, <1>7, RetryIsWhole DEF HInv, Ongoing, ReportStatus
<1>8. CASE ResolveHttp
  <2>1. req'.step = "route" /\ req'.trace = NewTrace
    BY <1>8 DEF ResolveHttp
  <2> QED  BY <1>1, <2>1 DEF HInv, Ongoing
<1>9. CASE NoRouteMatched \/ NoRuleMatched \/ InvalidRoute \/ NoBackend
           \/ NoReachableEndpoints \/ Panic \/ Timeout \/ Finish
  <2>1. req'.step \in {"failed", "idle"}
    BY <1>9 DEF NoRouteMatched, NoRuleMatched, InvalidRoute, NoBackend,
                NoReachableEndpoints, Panic, Timeout, Fail, Finish, Idle
  <2> QED  BY <1>1, <2>1 DEF HInv, Ongoing
<1>10. ASSUME Connected \/ Disconnected \/ BackoffOver \/ TakeSubs \/ Update
              \/ OthersSubscribe \/ Expire \/ (\E i \in 1..MostLookups : ReadOne(i))
              \/ UNCHANGED vars
       PROVE  req' = req
  BY <1>10 DEF Connected, Disconnected, BackoffOver, TakeSubs, Update,
               OthersSubscribe, Expire, ReadOne, vars
<1> QED  BY <1>2, <1>4, <1>5, <1>6, <1>7, <1>8, <1>9, <1>10 DEF Next, Resolve

\* However often a request is retried, its endpoint lists every address in
\* order, its trace tells of each attempt the backend, its endpoints and the
\* address, in the phase of that attempt, and no more are made than the route
\* allows (Client::report_status, Endpoint::should_retry).
THEOREM HistoriesAreWhole == Spec => []HistoryIsWhole
<1>1. HInv => HistoryIsWhole
  <2> SUFFICES ASSUME HInv, req.step = "ready" PROVE HistoryIsWhole
    BY DEF HistoryIsWhole
  <2> DEFINE tried == Append(req.previous_addrs, req.address)
  <2>1. Whole(req) /\ req.address # None /\ Len(req.previous_addrs) \in Nat
    BY ListFacts, NoneIsNoAddress DEF HInv, Ongoing, Whole
  <2>2. /\ IsList(tried) /\ Len(tried) = TriesOf(req) /\ TriesOf(req) \in Nat
        /\ \A n \in 1..Len(req.previous_addrs) : tried[n] = req.previous_addrs[n]
        /\ tried[Len(req.previous_addrs) + 1] = req.address
    BY <2>1, Appended DEF Whole, TriesOf
  <2> HIDE DEF tried
  <2>3. DOMAIN tried = 1..TriesOf(req)
    BY <2>2, ListFacts
  <2>4. \A n \in 1..TriesOf(req) : tried[n] = Tried(req, n)
    BY <2>1, <2>2 DEF Tried, TriesOf
  <2>5. /\ Len(req.trace.events) = 3 + 3 * Len(tried)
        /\ Len(tried) = 1 \/ Len(req.previous_addrs) < req.retry.attempts
    BY <2>1, <2>2 DEF Whole
  <2>6. \A n \in DOMAIN tried :
           /\ req.trace.events[1 + 3 * n] =
                 Event((n - 1) % PhaseMod, "BackendLookup", req.backend)
           /\ req.trace.events[2 + 3 * n] =
                 Event((n - 1) % PhaseMod, "EndpointsLookup", req.backend)
           /\ req.trace.events[3 + 3 * n] =
                 Event((n - 1) % PhaseMod, "SelectAddr", tried[n])
    BY <2>1, <2>3, <2>4 DEF Whole, Told, Phase
  <2> QED  BY <2>5, <2>6 DEF HistoryIsWhole, tried
<1> QED  BY <1>1, InitHInv, StepHInv, PTL DEF Spec

----------------------------------------------------------------------------
(* Types *)

Steps == {"idle", "route", "backend", "endpoints", "ready", "failed"}

\* Lookups are there while the request waits for them, and only then.
Settled ==
    /\ IsList(lookups)
    /\ req.step \in {"idle", "ready", "failed"} => lookups = <<>>
    /\ req.step = "route" => Len(lookups) \in 1..MostLookups
    /\ req.step \in {"backend", "endpoints"} => Len(lookups) = 1

LookupTypes ==
    \A i \in DOMAIN lookups : lookups[i].phase \in Phases /\ lookups[i].woken \in BOOLEAN

TInv ==
    /\ HInv
    /\ subs \in 0..SubsRoom /\ LookupTypes
    /\ conn \in {"connecting", "streaming", "backoff"} /\ late \in BOOLEAN
    /\ since \subseteq Present
    /\ req.step \in Steps /\ (req.step = "idle" => ~late)
    /\ Settled

LEMMA InitTInv == Init => TInv
<1> SUFFICES ASSUME Init PROVE TInv
  OBVIOUS
<1>1. /\ lookups = <<>> /\ subs = 0 /\ conn = "connecting" /\ late = FALSE
      /\ since = {} /\ req.step = "idle"
  BY DEF Init, ReaderInit, Idle
<1>2. 0 \in 0..SubsRoom
  BY Bounds
<1>3. Settled
  BY <1>1, EmptyIsList DEF Settled
<1>4. LookupTypes
  BY <1>1 DEF LookupTypes
<1> QED  BY <1>1, <1>2, <1>3, <1>4, InitHInv DEF TInv, Steps

\* A list has its shape whatever is written into it.
LEMMA StillAList ==
    ASSUME IsList(lookups), DOMAIN lookups' = DOMAIN lookups,
           lookups' = [i \in DOMAIN lookups |-> lookups'[i]]
    PROVE  /\ IsList(lookups') /\ Len(lookups') = Len(lookups)
           /\ lookups = <<>> => lookups' = <<>>
<1>1. Len(lookups) \in Nat /\ DOMAIN lookups = 1..Len(lookups)
  BY ListFacts
<1>2. IsList(lookups') /\ Len(lookups') = Len(lookups)
  BY <1>1, TabulatedIsList
<1>3. ASSUME lookups = <<>> PROVE lookups' = <<>>
  <2>1. Len(lookups') = 0
    BY <1>2, <1>3
  <2>2. PICK S : lookups' \in Seq(S)
    BY <1>2 DEF IsList
  <2> QED  BY <2>1, <2>2
<1> QED  BY <1>2, <1>3

LEMMA FreshTypes ==
    /\ \A key : Lookup(key).phase \in Phases /\ Lookup(key).woken \in BOOLEAN
    /\ \A answer : Answered(answer).phase \in Phases /\ Answered(answer).woken \in BOOLEAN
BY DEF Lookup, Answered, Phases

LEMMA FoundTypes ==
    ASSUME NEW k, NEW entry
    PROVE  Found(k, entry).phase \in Phases /\ Found(k, entry).woken \in BOOLEAN
<1>1. Found(k, entry) = Answered(None)
      \/ Found(k, entry) = Answered(entry.route)
      \/ Found(k, entry) = Answered(entry)
      \/ Found(k, entry) = [Lookup(In("route_configs", entry.rds)) EXCEPT !.phase = "get"]
  BY DEF Found
<1>2. \A key : /\ [Lookup(key) EXCEPT !.phase = "get"].phase = "get"
               /\ [Lookup(key) EXCEPT !.phase = "get"].woken = FALSE
  BY DEF Lookup
<1> QED  BY <1>1, <1>2, FreshTypes DEF Phases

LEMMA StepLookupTypes ==
    ASSUME TInv, [Next]_vars
    PROVE  LookupTypes'
<1>1. IInv /\ LookupTypes
  BY DEF TInv, HInv, AInv, SInv
<1>2. CASE UNCHANGED lookups
  BY <1>1, <1>2 DEF LookupTypes
<1>3. CASE Update
  <2>1. PICK k \in Key : \E entry \in Content[k] : Write(k, entry)
    BY <1>3 DEF Update
  <2> QED  BY <1>1, <2>1, WriteNotifies DEF LookupTypes
<1>4. CASE \E i \in 1..MostLookups : ReadOne(i)
  <2>1. PICK i \in 1..MostLookups : ReadOne(i)
    BY <1>4
  <2>2. PICK lookup : Moves(i, lookup)
    BY <1>1, <2>1, ReadMoves DEF ReadOne
  <2>3. i \in DOMAIN lookups /\ lookups' = [lookups EXCEPT ![i] = lookup]
    BY <2>1, <2>2 DEF ReadOne, Moves, Become
  <2>4. lookup.phase \in Phases /\ lookup.woken \in BOOLEAN
    <3>1. CASE lookup = Found(lookups[i].key, data[lookups[i].key])
      BY <3>1, FoundTypes
    <3>2. CASE lookup.phase \in Phases \ {"done"} /\ lookup.woken \in {FALSE, lookups[i].woken}
      BY <1>1, <2>3, <3>2 DEF LookupTypes
    <3> QED  BY <2>2, <3>1, <3>2 DEF Moves
  <2> QED  BY <1>1, <2>3, <2>4 DEF LookupTypes
<1>5. ASSUME lookups' = <<>> PROVE LookupTypes'
  BY <1>5 DEF LookupTypes
<1>6. CASE NoRouteMatched \/ NoRuleMatched \/ InvalidRoute \/ NoBackend
           \/ NoReachableEndpoints \/ Panic \/ Timeout \/ LoadBalance
  BY <1>5, <1>6 DEF NoRouteMatched, NoRuleMatched, InvalidRoute, NoBackend,
                    NoReachableEndpoints, Panic, Timeout, LoadBalance, Fail
<1>7. CASE ResolveHttp
  <2>1. PICK config, path : lookups' = GetRoutes(config, path)
    BY <1>7 DEF ResolveHttp
  <2> QED  BY <2>1, FreshTypes DEF GetRoutes, LookupTypes
<1>8. CASE ResolveRoute \/ ReportStatus
  <2>1. PICK config, id : lookups' = <<GetBackend(config, id)>>
    BY <1>8 DEF ResolveRoute, ReportStatus, SelectEndpoint
  <2>2. GetBackend(config, id).phase \in Phases /\ GetBackend(config, id).woken \in BOOLEAN
    BY FreshTypes DEF GetBackend
  <2> QED  BY <2>1, <2>2 DEF LookupTypes
<1>9. CASE HasBackend
  <2>1. PICK config, id : lookups' = <<GetEndpoints(config, id)>>
    BY <1>9 DEF HasBackend
  <2>2. GetEndpoints(config, id).phase \in Phases /\ GetEndpoints(config, id).woken \in BOOLEAN
    BY FreshTypes DEF GetEndpoints
  <2> QED  BY <2>1, <2>2 DEF LookupTypes
<1>10. ASSUME Connected \/ Disconnected \/ BackoffOver \/ TakeSubs
              \/ OthersSubscribe \/ Expire \/ Finish \/ UNCHANGED vars
       PROVE  UNCHANGED lookups
  BY <1>10 DEF Connected, Disconnected, BackoffOver, TakeSubs,
               OthersSubscribe, Expire, Finish, vars
<1> QED
  BY <1>2, <1>3, <1>4, <1>6, <1>7, <1>8, <1>9, <1>10 DEF Next, Resolve

\* Where a request goes, and with which lookups.
LEMMA StepOfRequest ==
    ASSUME HInv
    PROVE  /\ ResolveHttp => req'.step = "route"
           /\ ResolveRoute \/ ReportStatus =>
                 req'.step = "backend" /\ \E x : lookups' = <<x>>
           /\ HasBackend => req'.step = "endpoints" /\ \E x : lookups' = <<x>>
           /\ LoadBalance => req'.step = "ready" /\ lookups' = <<>>
           /\ NoRouteMatched \/ NoRuleMatched \/ InvalidRoute \/ NoBackend
                  \/ NoReachableEndpoints \/ Panic \/ Timeout
              => req'.step = "failed" /\ lookups' = <<>>
<1>1. ResolveHttp => req'.step = "route"
  BY DEF ResolveHttp
<1>2. ASSUME ResolveRoute PROVE req'.step = "backend" /\ \E x : lookups' = <<x>>
  <2>1. PICK i, rule, retry, route, id : SelectEndpoint(Chosen(i, route, rule, id, retry))
    BY <1>2, RouteIsChosen
  <2>2. req.trace = NewTrace
    BY <1>2 DEF ResolveRoute, HInv
  <2> QED  BY <2>1, <2>2, ChosenIsWhole DEF SelectEndpoint
<1>3. ASSUME ReportStatus PROVE req'.step = "backend" /\ \E x : lookups' = <<x>>
  <2>1. Whole(req)
    BY <1>3 DEF ReportStatus, HInv, Ongoing
  <2> QED  BY <1>3, <2>1, RetryIsWhole DEF ReportStatus, SelectEndpoint
<1>4. ASSUME HasBackend PROVE req'.step = "endpoints" /\ \E x : lookups' = <<x>>
  <2>1. Whole(req)
    BY <1>4 DEF HasBackend, HInv, Ongoing
  <2> QED  BY <1>4, <2>1, BackendIsWhole DEF HasBackend
<1>5. ASSUME LoadBalance PROVE req'.step = "ready" /\ lookups' = <<>>
  <2>1. Whole(req) /\ AInv
    BY <1>5 DEF LoadBalance, HInv, Ongoing
  <2> QED  BY <1>5, <2>1, AddressIsWhole DEF LoadBalance
<1>6. ASSUME NoRouteMatched \/ NoRuleMatched \/ InvalidRoute \/ NoBackend
             \/ NoReachableEndpoints \/ Panic \/ Timeout
      PROVE  req'.step = "failed" /\ lookups' = <<>>
  BY <1>6 DEF NoRouteMatched, NoRuleMatched, InvalidRoute, NoBackend,
              NoReachableEndpoints, Panic, Timeout, Fail
<1> QED  BY <1>1, <1>2, <1>3, <1>4, <1>5, <1>6

LEMMA StepSettled ==
    ASSUME TInv, [Next]_vars
    PROVE  Settled' /\ req'.step \in Steps
<1>1. HInv /\ IInv /\ Settled /\ req.step \in Steps
  BY DEF TInv, HInv, AInv, SInv
<1>2. ASSUME req' = req, DOMAIN lookups' = DOMAIN lookups,
             lookups' = [i \in DOMAIN lookups |-> lookups'[i]]
      PROVE  Settled' /\ req'.step \in Steps
  BY <1>1, <1>2, StillAList DEF Settled, MostLookups
<1>3. CASE UNCHANGED <<lookups, req>>
  BY <1>1, <1>3 DEF Settled, MostLookups
<1>4. CASE Update
  <2>1. PICK k \in Key : \E entry \in Content[k] : Write(k, entry)
    BY <1>4 DEF Update
  <2>2. DOMAIN lookups' = DOMAIN lookups /\ lookups' = [i \in DOMAIN lookups |-> lookups'[i]]
    BY <2>1 DEF Write, NotifyWaiters
  <2> QED  BY <1>2, <1>4, <2>2 DEF Update
<1>5. CASE \E i \in 1..MostLookups : ReadOne(i)
  <2>1. PICK i \in 1..MostLookups : ReadOne(i)
    BY <1>5
  <2>2. PICK lookup : lookups' = [lookups EXCEPT ![i] = lookup]
    BY <1>1, <2>1, ReadMoves DEF ReadOne, Moves, Become
  <2>3. DOMAIN lookups' = DOMAIN lookups /\ lookups' = [j \in DOMAIN lookups |-> lookups'[j]]
    BY <2>2
  <2> QED  BY <1>2, <2>1, <2>3 DEF ReadOne
<1>6. CASE Finish
  <2>1. lookups' = <<>> /\ req'.step = "idle"
    BY <1>1, <1>6 DEF Finish, Settled, Idle
  <2> QED  BY <2>1, EmptyIsList DEF Settled, Steps
<1>7. CASE NoRouteMatched \/ NoRuleMatched \/ InvalidRoute \/ NoBackend
           \/ NoReachableEndpoints \/ Panic \/ Timeout \/ LoadBalance
  <2>1. lookups' = <<>> /\ req'.step \in {"failed", "ready"}
    BY <1>1, <1>7, StepOfRequest
  <2> QED  BY <2>1, EmptyIsList DEF Settled, Steps
<1>8. CASE ResolveRoute \/ ReportStatus \/ HasBackend
  <2>1. PICK x : lookups' = <<x>> /\ req'.step \in {"backend", "endpoints"}
    BY <1>1, <1>8, StepOfRequest
  <2>2. lookups' \in Seq({x}) /\ Len(lookups') = 1
    BY <2>1
  <2> QED  BY <2>1, <2>2 DEF Settled, Steps, IsList
<1>9. CASE ResolveHttp
  <2>1. PICK url, config : lookups' = GetRoutes(config, SearchPath(url))
    BY <1>9 DEF ResolveHttp
  <2>2. PICK n \in Nat \ {0} : n <= MostLookups /\ DOMAIN SearchPath(url) = 1..n
    BY PathIsASequence
  <2>3. DOMAIN lookups' = 1..n /\ lookups' = [i \in 1..n |-> lookups'[i]]
    BY <2>1, <2>2 DEF GetRoutes
  <2>4. IsList(lookups') /\ Len(lookups') = n
    BY <2>3, TabulatedIsList
  <2>5. req'.step = "route" /\ MostLookups' = MostLookups /\ MostLookups \in Nat
    BY <1>1, <1>9, StepOfRequest, SearchIsAPath DEF MostLookups
  <2> QED  BY <2>2, <2>4, <2>5 DEF Settled, Steps
<1>10. ASSUME Connected \/ Disconnected \/ BackoffOver \/ TakeSubs
              \/ OthersSubscribe \/ Expire \/ UNCHANGED vars
       PROVE  UNCHANGED <<lookups, req>>
  BY <1>10 DEF Connected, Disconnected, BackoffOver, TakeSubs,
               OthersSubscribe, Expire, vars
<1> QED
  BY <1>3, <1>4, <1>5, <1>6, <1>7, <1>8, <1>9, <1>10 DEF Next, Resolve

\* The channel, the connection and the keys whose entry has stayed.
LEMMA StepRest ==
    ASSUME TInv, [Next]_vars
    PROVE  /\ subs' \in 0..SubsRoom /\ since' \subseteq Present'
           /\ conn' \in {"connecting", "streaming", "backoff"} /\ late' \in BOOLEAN
           /\ req'.step = "idle" => ~late'
<1>1. /\ HInv /\ subs \in 0..SubsRoom /\ since \subseteq Present
      /\ conn \in {"connecting", "streaming", "backoff"} /\ late \in BOOLEAN
      /\ req.step = "idle" => ~late
      /\ DOMAIN data = Key
  BY DEF TInv, HInv, AInv, SInv, IInv, Shape
<1>2. CASE UNCHANGED vars
  BY <1>1, <1>2 DEF vars, Present
<1>3. CASE Connected \/ Disconnected \/ BackoffOver
  BY <1>1, <1>3 DEF Connected, Disconnected, BackoffOver, Present
<1>4. CASE TakeSubs \/ OthersSubscribe
  BY <1>1, <1>4, Bounds DEF TakeSubs, OthersSubscribe, Present
<1>5. CASE Expire
  BY <1>1, <1>5 DEF Expire, Present
<1>6. CASE Finish
  <2>1. UNCHANGED <<subs, conn>> /\ since' = {} /\ late' = FALSE
    BY <1>6 DEF Finish
  <2> QED  BY <1>1, <2>1
<1>7. CASE Update
  <2>1. PICK k \in Key : \E entry \in Content[k] :
             /\ Write(k, entry)
             /\ since' = IF entry = data[k] THEN since ELSE since \ {k}
    BY <1>7 DEF Update
  <2>2. PICK entry \in Content[k] :
             /\ Write(k, entry)
             /\ since' = IF entry = data[k] THEN since ELSE since \ {k}
    BY <2>1
  <2>3. \A l \in Key : data'[l] = IF l = k THEN entry ELSE data[l]
    BY <1>1, <2>2 DEF Write
  <2>4. since' \subseteq Present'
    BY <1>1, <2>2, <2>3 DEF Present
  <2> QED  BY <1>1, <1>7, <2>2, <2>4 DEF Update, Write
<1>8. CASE \E i \in 1..MostLookups : ReadOne(i)
  <2>1. PICK i \in 1..MostLookups : ReadOne(i)
    BY <1>8
  <2>2. UNCHANGED <<data, since, conn, late, req>>
    BY <2>1 DEF ReadOne, Read, SendSub, Blocks, Get, GetNothing, Register, Wake
  <2>3. subs' = subs \/ (subs < SubsRoom /\ subs' = subs + 1)
    BY <2>1 DEF ReadOne, Read, SendSub, Blocks, Get, GetNothing, Register, Wake
  <2> QED  BY <1>1, <2>2, <2>3, Bounds DEF Present
<1>9. CASE ResolveHttp
  <2>1. UNCHANGED <<data, subs, conn>> /\ since' = Present /\ late' = FALSE
    BY <1>9 DEF ResolveHttp
  <2> QED  BY <1>1, <2>1 DEF Present
<1>10. CASE NoRouteMatched \/ NoRuleMatched \/ InvalidRoute \/ ResolveRoute
            \/ HasBackend \/ NoBackend \/ NoReachableEndpoints \/ Panic
            \/ LoadBalance \/ Timeout
  <2>1. UNCHANGED <<data, subs, conn, late, since>>
    BY <1>10 DEF NoRouteMatched, NoRuleMatched, InvalidRoute, ResolveRoute, HasBackend,
                 NoBackend, NoReachableEndpoints, Panic, LoadBalance, Timeout, Fail
  <2>2. req'.step # "idle"
    BY <1>1, <1>10, StepOfRequest
  <2> QED  BY <1>1, <2>1, <2>2 DEF Present
<1>11. CASE ReportStatus
  <2>1. UNCHANGED <<data, subs, conn, since>> /\ late' = FALSE
    BY <1>11 DEF ReportStatus
  <2> QED  BY <1>1, <2>1 DEF Present
<1> QED
  BY <1>2, <1>3, <1>4, <1>5, <1>6, <1>7, <1>8, <1>9, <1>10, <1>11 DEF Next, Resolve

\* Whatever the cache holds and however the clock, the server and the other
\* requests interleave with it, a request waits for as many lookups as its
\* step asks, counts its phases right and ends with an address that somebody
\* published, or an error (Client::resolve_http, Client::report_status).
THEOREM RequestTypes == Spec => []TypeOK
<1>1. TInv /\ [Next]_vars => TInv'
  <2> SUFFICES ASSUME TInv, [Next]_vars PROVE TInv'
    OBVIOUS
  <2>1. HInv'
    BY StepHInv DEF TInv
  <2> QED
    BY <2>1, StepLookupTypes, StepSettled, StepRest DEF TInv
<1>2. TInv => TypeOK
  <2> SUFFICES ASSUME TInv PROVE TypeOK
    OBVIOUS
  <2>1. ReaderTypeOK
    BY DEF TInv, HInv, AInv, DataFits, LookupTypes, ReaderTypeOK
  <2>2. Len(lookups) <= MostLookups
    <3>1. MostLookups = Len(Search) + 1 /\ Len(Search) \in Nat
      BY SearchIsAPath DEF MostLookups
    <3>2. CASE lookups = <<>>
      BY <3>1, <3>2, EmptyIsList
    <3>3. CASE Len(lookups) = 1
      BY <3>1, <3>3
    <3>4. CASE Len(lookups) \in 1..MostLookups
      BY <3>1, <3>4
    <3> QED  BY <3>2, <3>3, <3>4 DEF TInv, Settled, Steps
  <2>3. req.step \in Ongoing => Whole(req)
    BY DEF TInv, HInv
  <2>4. req.step = "ready" => req.address \in Addresses
    BY <2>3 DEF Whole, Ongoing
  <2>5. req.step \in {"backend", "endpoints"} => req.trace.phase = Tries % PhaseMod
    BY <2>3 DEF Whole, Ongoing, Tries, TriesOf, Phase
  <2>6. /\ req.step = "idle" => lookups = <<>> /\ ~late
        /\ req.step = "route" => req.trace = NewTrace /\ Len(lookups) >= 1
        /\ req.step \in {"backend", "endpoints"} => Len(lookups) = 1
        /\ req.step \in {"ready", "failed"} => lookups = <<>>
    BY DEF TInv, HInv, Settled
  <2>7. /\ conn \in {"connecting", "streaming", "backoff"} /\ late \in BOOLEAN
        /\ since \subseteq Present /\ req.step \in Steps
    BY DEF TInv
  <2> QED  BY <2>1, <2>2, <2>4, <2>5, <2>6, <2>7 DEF TypeOK, Steps
<1> QED  BY <1>1, <1>2, InitTInv, PTL DEF Spec
=============================================================================
