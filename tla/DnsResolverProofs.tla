------------------------- MODULE DnsResolverProofs -------------------------
(***************************************************************************)
(* Proofs about DnsResolver, for any number of names, ports, threads and   *)
(* callers, and any bounds on time and on handles.                         *)
(***************************************************************************)
EXTENDS DnsResolver, WellFoundedInduction, TLAPS

\* What is known of a tracked name is well typed, its pins are ports of it,
\* and the endpoints of its ports are its addresses.
Good(info) ==
    /\ info \in NameInfo
    /\ info.pinned \subseteq info.ports
    /\ \A p \in Port :
          info.group[p] \in (IF p \in info.ports THEN {None, info.addrs} ELSE {None})

NamesGood ==
    /\ names \in [Hostname -> NameInfo \cup {Absent}]
    /\ \A n \in Hostname : Tracked(n) => Good(names[n]) /\ names[n].ports # {}

OthersTyped ==
    /\ workers \in [Worker -> WorkerState]
    /\ callers \in [Caller -> CallerState \cup {Idle}]
    /\ handles \in 0 .. MaxHandles

\* No thread sleeps.
AllAwake == \A w \in Worker : workers[w].pc \notin {"waiting", "dozing"}

IInv ==
    /\ NamesGood
    /\ OthersTyped
    /\ ClaimsAreHeld
    /\ NewNamesAreNoticed
    /\ SomeoneKeepsTime

-----------------------------------------------------------------------------
(* What the operators on a name do *)

LEMMA NewNameGood == Good(NewName) /\ NewName.ports = {}
  BY ResolverConstants DEF Good, NewName, NameInfo, Age

LEMMA InfoGood ==
    ASSUME NamesGood, NEW n \in Hostname
    PROVE  Good(Info(n))
  BY NewNameGood DEF NamesGood, Info

LEMMA PinnedGood ==
    ASSUME NEW info, Good(info), NEW p \in Port
    PROVE  /\ Good(Pinned(info, p))
           /\ Pinned(info, p).ports = info.ports \cup {p}
           /\ Pinned(info, p).pinned = info.pinned \cup {p}
           /\ Pinned(info, p).inFlight = info.inFlight
           /\ Pinned(info, p).age = info.age
  BY DEF Good, Pinned, NameInfo

LEMMA OnlyPortsGood ==
    ASSUME NEW info, Good(info), NEW S \in SUBSET Port, S # {}
    PROVE  /\ Good(OnlyPorts(info, S))
           /\ OnlyPorts(info, S).ports = S
           /\ OnlyPorts(info, S).pinned = info.pinned \cap S
           /\ OnlyPorts(info, S).inFlight = info.inFlight
           /\ OnlyPorts(info, S).age = info.age
  BY DEF Good, OnlyPorts, NameInfo

LEMMA MergedGood ==
    ASSUME NEW info, Good(info), NEW answer \in Addrs \cup {Failed}
    PROVE  /\ Good(Merged(info, answer))
           /\ Merged(info, answer).ports = info.ports
           /\ Merged(info, answer).inFlight = FALSE
           /\ Merged(info, answer).age = 0
<1> 0 \in Age
  BY ResolverConstants DEF Age
<1>1. CASE answer \in {Failed, info.addrs}
  BY <1>1 DEF Good, Merged, NameInfo
<1>2. CASE answer \notin {Failed, info.addrs}
  <2> DEFINE g == [p \in Port |-> IF p \in info.ports THEN answer ELSE None]
  <2>1. /\ answer \in Addrs
        /\ g \in [Port -> Addrs \cup {None}]
    BY <1>2
  <2>2. Merged(info, answer) =
          [info EXCEPT !.inFlight = FALSE, !.age = 0, !.addrs = answer, !.group = g]
    BY <1>2 DEF Merged
  <2> HIDE DEF g
  <2>3. /\ Merged(info, answer) \in NameInfo
        /\ Merged(info, answer).ports = info.ports
        /\ Merged(info, answer).pinned = info.pinned
        /\ Merged(info, answer).addrs = answer
        /\ Merged(info, answer).group = g
        /\ Merged(info, answer).inFlight = FALSE
        /\ Merged(info, answer).age = 0
    BY <2>1, <2>2 DEF Good, NameInfo
  <2> QED
    BY <2>3 DEF Good, g
<1> QED
  BY <1>1, <1>2

-----------------------------------------------------------------------------
(* What waking the threads does *)

LEMMA Woken ==
    ASSUME workers \in [Worker -> WorkerState], workers' = NotifyAll
    PROVE  /\ workers' \in [Worker -> WorkerState]
           /\ AllAwake'
           /\ \A w \in Worker, n \in Hostname :
                 workers[w] = LookingUp(n) => workers'[w] = LookingUp(n)
<1>1. At("ready") \in WorkerState /\ At("ready").pc = "ready"
  BY DEF WorkerState, At
<1>2. \A n \in Hostname : LookingUp(n).pc = "lookup"
  BY DEF LookingUp
<1> QED
  BY <1>1, <1>2 DEF NotifyAll, AllAwake

LEMMA ToldTyped ==
    ASSUME callers \in [Caller -> CallerState \cup {Idle}]
    PROVE  NotifyWaiters \in [Caller -> CallerState \cup {Idle}]
  BY Sentinels DEF NotifyWaiters, CallerState

\* A set of names that is not empty has a first one.
LEMMA FirstName ==
    ASSUME NEW T, T \subseteq Hostname, T # {}
    PROVE  \E n \in T : \A m \in T : n <= m
<1>1. T \subseteq Nat
  BY ResolverConstants
<1>2. PICK n \in T : \A m \in T : <<m, n>> \notin OpToRel(<, Nat)
  BY <1>1, NatLessThanWellFounded, WFMin, Zenon
<1>3. \A m \in T : ~ (m < n)
  <2> SUFFICES ASSUME NEW m \in T, m < n
               PROVE  FALSE
    OBVIOUS
  <2>1. <<m, n>> \in Nat \X Nat
    BY <1>1
  <2>2. <<m, n>> \in OpToRel(<, Nat)
    BY <2>1, Zenon DEF OpToRel
  <2> QED
    BY <2>2, <1>2
<1> QED
  BY <1>1, <1>3

-----------------------------------------------------------------------------
(* What keeps the claims held, the new names noticed and somebody awake *)

Watched == ClaimsAreHeld /\ NewNamesAreNoticed /\ SomeoneKeepsTime

LEMMA WorkerPcs ==
    ASSUME OthersTyped, NEW w \in Worker
    PROVE  /\ \A n \in Hostname : workers[w] = LookingUp(n) => workers[w].pc = "lookup"
           /\ workers[w].pc = "lookup" => \E n \in Hostname : workers[w] = LookingUp(n)
  BY DEF OthersTyped, WorkerState, LookingUp, At

\* Every thread is woken, and no name is newly claimed.
LEMMA WatchedWhenNotified ==
    ASSUME IInv, workers' = NotifyAll,
           \A n \in Hostname : Tracked(n)' /\ names'[n].inFlight =>
                                 Tracked(n) /\ names[n].inFlight
    PROVE  workers' \in [Worker -> WorkerState] /\ Watched'
<1>1. /\ workers' \in [Worker -> WorkerState]
      /\ AllAwake'
      /\ \A w \in Worker, n \in Hostname :
            workers[w] = LookingUp(n) => workers'[w] = LookingUp(n)
  BY Woken DEF IInv, OthersTyped
<1>2. ClaimsAreHeld'
  BY <1>1 DEF IInv, ClaimsAreHeld, Tracked, LookingUp
<1>3. NewNamesAreNoticed' /\ SomeoneKeepsTime'
  BY <1>1, ResolverConstants DEF AllAwake, NewNamesAreNoticed, SomeoneKeepsTime
<1> QED
  BY <1>1, <1>2, <1>3 DEF Watched

\* The threads stay, and so does what they care about in the names.
LEMMA WatchedWhenSame ==
    ASSUME IInv, workers' = workers,
           \A n \in Hostname :
              /\ Tracked(n)' <=> Tracked(n)
              /\ Tracked(n) => /\ names'[n].inFlight = names[n].inFlight
                               /\ names'[n].age = Never <=> names[n].age = Never
    PROVE  Watched'
<1>1. ClaimsAreHeld'
  BY DEF IInv, ClaimsAreHeld, Tracked, LookingUp
<1>2. NewNamesAreNoticed'
  BY DEF IInv, NewNamesAreNoticed, Unclaimed, Fresh, Tracked
<1>3. SomeoneKeepsTime'
  BY DEF IInv, SomeoneKeepsTime, Tracked
<1> QED
  BY <1>1, <1>2, <1>3 DEF Watched

\* A thread that holds no claim goes on, and not to sleep.
LEMMA WatchedWhenMoved ==
    ASSUME IInv, NEW w \in Worker, NEW pc \in {"ready", "exited"},
           workers[w].pc # "lookup", workers' = [workers EXCEPT ![w] = At(pc)],
           UNCHANGED names
    PROVE  workers' \in [Worker -> WorkerState] /\ Watched'
<1>1. /\ workers' \in [Worker -> WorkerState]
      /\ workers'[w].pc = pc
      /\ \A v \in Worker \ {w} : workers'[v] = workers[v]
  BY DEF IInv, OthersTyped, WorkerState, At
<1>2. ClaimsAreHeld'
  <2> SUFFICES ASSUME NEW n \in Hostname, Tracked(n), names[n].inFlight
               PROVE  \E v \in Worker : workers'[v] = LookingUp(n)
    BY DEF ClaimsAreHeld, Tracked, LookingUp
  <2>1. PICK v \in Worker : workers[v] = LookingUp(n)
    BY DEF IInv, ClaimsAreHeld
  <2>2. v # w
    BY <2>1, WorkerPcs DEF IInv
  <2> QED
    BY <1>1, <2>1, <2>2
<1>3. NewNamesAreNoticed'
  BY <1>1 DEF IInv, NewNamesAreNoticed, Unclaimed, Fresh, Tracked
<1>4. SomeoneKeepsTime'
  BY <1>1 DEF SomeoneKeepsTime
<1> QED
  BY <1>1, <1>2, <1>3, <1>4 DEF Watched

-----------------------------------------------------------------------------
(* The steps *)

\* The owner of the threads and the callers, who leave the names alone.
LEMMA HandlesStep ==
    ASSUME IInv, Clone \/ Drop
    PROVE  IInv'
<1>1. UNCHANGED <<names, workers, callers>> /\ handles' \in 0 .. MaxHandles
  BY ResolverConstants DEF Clone, Drop, InUse, IInv, OthersTyped
<1>2. Watched'
  BY <1>1, WatchedWhenSame DEF Tracked
<1> QED
  BY <1>1, <1>2 DEF IInv, NamesGood, Tracked, OthersTyped, Watched

LEMMA CallerStep ==
    ASSUME IInv, NEW a \in Caller,
           \/ \E n \in Hostname, p \in Port : Register(a, n, p)
           \/ Check(a) \/ WakeUp(a) \/ Abandon(a)
    PROVE  IInv'
<1>1. UNCHANGED <<names, workers, handles>>
  BY DEF Register, Check, WakeUp, Abandon
<1>2. callers' \in [Caller -> CallerState \cup {Idle}]
  <2>1. CASE \E n \in Hostname, p \in Port : Register(a, n, p)
    BY <2>1 DEF Register, IInv, OthersTyped, CallerState
  <2>2. CASE Check(a)
    BY <2>2 DEF Check, IInv, OthersTyped, CallerState
  <2>3. CASE WakeUp(a)
    BY <2>3 DEF WakeUp, IInv, OthersTyped, CallerState
  <2>4. CASE Abandon(a)
    BY <2>4 DEF Abandon, IInv, OthersTyped
  <2> QED
    BY <2>1, <2>2, <2>3, <2>4
<1>3. Watched'
  BY <1>1, WatchedWhenSame DEF Tracked
<1> QED
  BY <1>1, <1>2, <1>3 DEF IInv, NamesGood, Tracked, OthersTyped, Watched

LEMMA SubscribeStep ==
    ASSUME IInv, NEW n \in Hostname, NEW p \in Port, Subscribe(n, p)
    PROVE  IInv'
<1> DEFINE info == Pinned(Info(n), p)
<1>1. /\ Good(info)
      /\ info.ports = Info(n).ports \cup {p}
      /\ info.inFlight = Info(n).inFlight
      /\ info.age = Info(n).age
  BY InfoGood, PinnedGood DEF IInv
<1>2. names' = [names EXCEPT ![n] = info] /\ info # Absent
  BY <1>1, Sentinels DEF Subscribe, Good
<1>3. handles' = handles /\ callers' \in [Caller -> CallerState \cup {Idle}]
  BY ToldTyped DEF Subscribe, IInv, OthersTyped
<1> HIDE DEF info
<1>4. NamesGood'
  BY <1>1, <1>2 DEF IInv, NamesGood, Tracked, Good
<1>5. workers' \in [Worker -> WorkerState] /\ Watched'
  <2>1. CASE p \in Info(n).ports
    <3>1. Tracked(n) /\ workers' = workers
      BY <2>1, NewNameGood DEF Subscribe, Info
    <3>2. \A m \in Hostname :
              /\ Tracked(m)' <=> Tracked(m)
              /\ Tracked(m) => /\ names'[m].inFlight = names[m].inFlight
                               /\ names'[m].age = names[m].age
      BY <1>1, <1>2, <3>1 DEF IInv, NamesGood, Tracked, Info
    <3> QED
      BY <3>1, <3>2, WatchedWhenSame DEF IInv, OthersTyped
  <2>2. CASE p \notin Info(n).ports
    <3>1. workers' = NotifyAll
      BY <2>2 DEF Subscribe
    <3>2. \A m \in Hostname : Tracked(m)' /\ names'[m].inFlight =>
                                Tracked(m) /\ names[m].inFlight
      BY <1>1, <1>2 DEF IInv, NamesGood, Tracked, Info, NewName
    <3> QED
      BY <3>1, <3>2, WatchedWhenNotified
  <2> QED
    BY <2>1, <2>2
<1> QED
  BY <1>3, <1>4, <1>5 DEF IInv, OthersTyped, Watched

LEMMA UnsubscribeStep ==
    ASSUME IInv, NEW n \in Hostname, NEW p \in Port, Unsubscribe(n, p)
    PROVE  IInv'
<1> DEFINE S == Info(n).ports \ {p}
           info == OnlyPorts(Info(n), S)
<1>1. /\ names' = [names EXCEPT ![n] = info]
      /\ workers' = NotifyAll
      /\ handles' = handles /\ callers' = callers
  BY DEF Unsubscribe
<1>2. Good(Info(n)) /\ S \in SUBSET Port
  BY InfoGood DEF IInv, Good, NameInfo
<1>3. \/ info = Absent
      \/ /\ info # Absent
         /\ Good(info)
         /\ info.ports # {}
         /\ info.inFlight = Info(n).inFlight
  <2>1. CASE S = {}
    BY <2>1 DEF OnlyPorts
  <2>2. CASE S # {}
    <3> HIDE DEF S
    <3>1. Good(info) /\ info.ports = S /\ info.inFlight = Info(n).inFlight
      BY <1>2, <2>2, OnlyPortsGood
    <3> QED
      BY <2>2, <3>1, Sentinels DEF Good
  <2> QED
    BY <2>1, <2>2
<1> HIDE DEF info, S
<1>4. NamesGood'
  BY <1>1, <1>3 DEF IInv, NamesGood, Tracked, Good
<1>5. \A m \in Hostname : Tracked(m)' /\ names'[m].inFlight => Tracked(m) /\ names[m].inFlight
  BY <1>1, <1>3 DEF IInv, NamesGood, Tracked, Info, NewName
<1>6. workers' \in [Worker -> WorkerState] /\ Watched'
  BY <1>1, <1>5, WatchedWhenNotified
<1> QED
  BY <1>1, <1>4, <1>6 DEF IInv, OthersTyped, Watched

LEMMA SetNamesStep ==
    ASSUME IInv, NEW S \in NameSets, SetNames(S)
    PROVE  IInv'
<1> DEFINE K(n) == KeptPorts(n, S)
           info(n) == OnlyPorts(Info(n), K(n))
<1>1. /\ names' = [n \in Hostname |-> info(n)]
      /\ handles' = handles /\ callers' = callers
  BY DEF SetNames
<1>2. ASSUME NEW n \in Hostname
      PROVE  /\ K(n) = {} => info(n) = Absent
             /\ K(n) # {} => /\ info(n) # Absent
                             /\ Good(info(n))
                             /\ info(n).ports # {}
                             /\ info(n).inFlight = Info(n).inFlight
                             /\ info(n).age = Info(n).age
  <2>1. Good(Info(n)) /\ K(n) \in SUBSET Port
    BY InfoGood DEF IInv, Good, NameInfo, KeptPorts
  <2>2. CASE K(n) = {}
    BY <2>2 DEF OnlyPorts
  <2>3. CASE K(n) # {}
    BY <2>1, <2>3, OnlyPortsGood, Sentinels DEF Good
  <2> QED
    BY <2>2, <2>3
<1> HIDE DEF info, K
<1>3. NamesGood'
  BY <1>1, <1>2 DEF IInv, NamesGood, Tracked, Good
<1>4. workers' \in [Worker -> WorkerState] /\ Watched'
  <2>1. CASE \E n \in Hostname : K(n) # Info(n).ports
    <3>1. workers' = NotifyAll
      BY <2>1 DEF SetNames, K
    <3>2. \A n \in Hostname : Tracked(n)' /\ names'[n].inFlight =>
                                Tracked(n) /\ names[n].inFlight
      BY <1>1, <1>2 DEF IInv, NamesGood, Tracked, Info, NewName
    <3> QED
      BY <3>1, <3>2, WatchedWhenNotified
  <2>2. CASE \A n \in Hostname : K(n) = Info(n).ports
    <3>1. workers' = workers
      BY <2>2 DEF SetNames, K
    <3>2. \A n \in Hostname : Tracked(n) <=> K(n) # {}
      BY <2>2, NewNameGood DEF IInv, NamesGood, Info
    <3>3. \A n \in Hostname :
              /\ Tracked(n)' <=> Tracked(n)
              /\ Tracked(n) => /\ names'[n].inFlight = names[n].inFlight
                               /\ names'[n].age = names[n].age
      BY <1>1, <1>2, <3>2 DEF Tracked, Info
    <3> QED
      BY <3>1, <3>3, WatchedWhenSame DEF IInv, OthersTyped
  <2> QED
    BY <2>1, <2>2
<1> QED
  BY <1>1, <1>3, <1>4 DEF IInv, OthersTyped, Watched

LEMMA TickKeeps ==
    ASSUME IInv, Tick, NEW n \in Hostname
    PROVE  /\ Tracked(n)' <=> Tracked(n)
           /\ Tracked(n) => /\ Good(names'[n])
                            /\ names'[n].ports = names[n].ports
                            /\ names'[n].pinned = names[n].pinned
                            /\ names'[n].inFlight = names[n].inFlight
                            /\ names'[n].age = Never <=> names[n].age = Never
<1>1. CASE names'[n] = names[n]
  BY <1>1 DEF IInv, NamesGood, Tracked
<1>2. CASE names'[n] # names[n]
  <2>1. /\ Tracked(n) /\ Good(names[n])
        /\ names[n].age \in Age /\ names[n].age # MaxAge
        /\ names'[n] = [names[n] EXCEPT !.age = @ + 1]
    BY <1>2 DEF Tick, Tracked, Fresh, IInv, NamesGood, Good, NameInfo
  <2>2. names[n].age + 1 \in Age /\ names[n].age + 1 # Never /\ names[n].age # Never
    BY <2>1, ResolverConstants DEF Age
  <2>3. Good(names'[n])
    BY <2>1, <2>2 DEF Good, NameInfo
  <2> QED
    BY <2>1, <2>2, <2>3, Sentinels DEF Tracked, Good, NameInfo
<1> QED
  BY <1>1, <1>2

LEMMA TickStep ==
    ASSUME IInv, Tick
    PROVE  IInv'
<1>1. UNCHANGED <<workers, callers, handles>>
  BY DEF Tick
<1>2. names' = [n \in Hostname |-> names'[n]]
  BY DEF Tick
<1>3. \A n \in Hostname : names'[n] \in NameInfo \cup {Absent}
  BY TickKeeps DEF Tracked, Good
<1>4. names' \in [Hostname -> NameInfo \cup {Absent}]
  BY <1>2, <1>3
<1>5. NamesGood'
  BY <1>4, TickKeeps DEF IInv, NamesGood, Tracked, Good
<1>6. Watched'
  BY <1>1, TickKeeps, WatchedWhenSame
<1> QED
  BY <1>1, <1>5, <1>6 DEF IInv, OthersTyped, Watched

\* A thread that starts, leaves, is woken or is done.
LEMMA MoveStep ==
    ASSUME IInv, NEW w \in Worker,
           Spawn(w) \/ Exit(w) \/ Timeout(w) \/ SpuriousWakeup(w) \/ NotifyCallers(w)
    PROVE  IInv'
<1>1. UNCHANGED <<names, handles>> /\ workers[w].pc # "lookup"
  BY DEF Spawn, Exit, Timeout, SpuriousWakeup, NotifyCallers
<1>2. \E pc \in {"ready", "exited"} : workers' = [workers EXCEPT ![w] = At(pc)]
  BY DEF Spawn, Exit, Timeout, SpuriousWakeup, NotifyCallers
<1>3. callers' \in [Caller -> CallerState \cup {Idle}]
  BY ToldTyped DEF Spawn, Exit, Timeout, SpuriousWakeup, NotifyCallers, IInv, OthersTyped
<1>4. workers' \in [Worker -> WorkerState] /\ Watched'
  BY <1>1, <1>2, WatchedWhenMoved
<1> QED
  BY <1>1, <1>3, <1>4 DEF IInv, NamesGood, Tracked, OthersTyped, Watched

LEMMA ClaimStep ==
    ASSUME IInv, NEW w \in Worker, Claim(w)
    PROVE  IInv'
<1>1. PICK n \in NextNames :
         /\ names' = [names EXCEPT ![n].inFlight = TRUE]
         /\ workers' = [workers EXCEPT ![w] = LookingUp(n)]
  BY DEF Claim
<1>2. n \in Hostname /\ Tracked(n) /\ Good(names[n])
  BY DEF NextNames, Due, Unclaimed, IInv, NamesGood
<1>3. /\ Good(names'[n])
      /\ names'[n].ports = names[n].ports
      /\ names'[n].inFlight = TRUE
      /\ names'[n] # Absent
      /\ \A m \in Hostname \ {n} : names'[m] = names[m]
  <2>1. names'[n] = [names[n] EXCEPT !.inFlight = TRUE]
    BY <1>1, <1>2 DEF IInv, NamesGood
  <2>2. Good(names'[n])
    BY <1>2, <2>1 DEF Good, NameInfo
  <2>3. names'[n].ports = names[n].ports /\ names'[n].inFlight = TRUE
    BY <1>2, <2>1 DEF Good, NameInfo
  <2>4. names'[n] # Absent
    BY <2>2, Sentinels DEF Good
  <2>5. \A m \in Hostname \ {n} : names'[m] = names[m]
    BY <1>1 DEF IInv, NamesGood
  <2> QED
    BY <2>2, <2>3, <2>4, <2>5
<1>4. NamesGood'
  <2>1. \A m \in Hostname : /\ names'[m] \in NameInfo \cup {Absent}
                            /\ names'[m] # Absent => Good(names'[m]) /\ names'[m].ports # {}
    <3>1. names'[n] \in NameInfo /\ Good(names'[n]) /\ names'[n].ports # {}
      BY <1>2, <1>3 DEF IInv, NamesGood, Good
    <3>2. \A m \in Hostname : /\ names[m] \in NameInfo \cup {Absent}
                              /\ names[m] # Absent => Good(names[m]) /\ names[m].ports # {}
      BY DEF IInv, NamesGood, Tracked
    <3> QED
      BY <1>3, <3>1, <3>2
  <2>2. names' = [m \in Hostname |-> names'[m]]
    <3>1. names = [m \in Hostname |-> names[m]]
      BY DEF IInv, NamesGood
    <3> QED
      BY <1>1, <3>1
  <2>3. names' \in [Hostname -> NameInfo \cup {Absent}]
    BY <2>1, <2>2
  <2> QED
    BY <2>1, <2>3 DEF NamesGood, Tracked, Good
<1>5. /\ workers' \in [Worker -> WorkerState]
      /\ workers'[w] = LookingUp(n)
      /\ \A v \in Worker \ {w} : workers'[v] = workers[v]
  BY <1>1, <1>2 DEF IInv, OthersTyped, WorkerState
<1>6. ClaimsAreHeld'
  <2> SUFFICES ASSUME NEW m \in Hostname, Tracked(m)', names'[m].inFlight
               PROVE  \E v \in Worker : workers'[v] = LookingUp(m)
    BY DEF ClaimsAreHeld, LookingUp
  <2>1. CASE m = n
    BY <1>5, <2>1
  <2>2. CASE m # n
    <3>1. PICK v \in Worker : workers[v] = LookingUp(m)
      BY <1>3, <2>2 DEF IInv, ClaimsAreHeld, Tracked
    <3>2. v # w
      BY <3>1, WorkerPcs DEF Claim, IInv
    <3> QED
      BY <1>5, <3>1, <3>2
  <2> QED
    BY <2>1, <2>2
<1>7. NewNamesAreNoticed'
  <2> SUFFICES ASSUME NEW m \in Hostname, Tracked(m)', ~names'[m].inFlight, Fresh(m)',
                      NEW v \in Worker
               PROVE  workers'[v].pc \notin {"waiting", "dozing"}
    BY DEF NewNamesAreNoticed, Unclaimed
  <2>1. m \in Unclaimed /\ Fresh(m)
    BY <1>3 DEF Unclaimed, Fresh, Tracked
  <2>2. workers[v].pc \notin {"waiting", "dozing"}
    BY <2>1 DEF IInv, NewNamesAreNoticed
  <2> QED
    BY <1>5, <2>2 DEF LookingUp
<1>8. SomeoneKeepsTime'
  BY <1>5 DEF SomeoneKeepsTime, LookingUp
<1> QED
  BY <1>4, <1>5, <1>6, <1>7, <1>8 DEF Claim, IInv, OthersTyped

\* A thread only goes to sleep when every new name is claimed, and then a
\* thread looks it up.
LEMMA WaitStep ==
    ASSUME IInv, NEW w \in Worker, Wait(w)
    PROVE  IInv'
<1>1. /\ UNCHANGED <<names, callers, handles>>
      /\ workers[w].pc = "ready"
  BY DEF Wait
<1>2. /\ workers' \in [Worker -> WorkerState]
      /\ \A v \in Worker \ {w} : workers'[v] = workers[v]
  BY DEF Wait, IInv, OthersTyped, WorkerState
<1>3. \A v \in Worker, n \in Hostname :
        workers[v] = LookingUp(n) => workers'[v] = LookingUp(n)
  BY <1>1, <1>2, WorkerPcs DEF IInv
<1>4. {n \in Unclaimed : Fresh(n)} = {}
  <2> SUFFICES ASSUME {n \in Unclaimed : Fresh(n)} # {}
               PROVE  FALSE
    OBVIOUS
  <2>1. \E n \in {m \in Unclaimed : Fresh(m)} : \A m \in {k \in Unclaimed : Fresh(k)} : n <= m
    BY FirstName DEF Unclaimed
  <2>2. NextNames # {}
    BY <2>1 DEF NextNames
  <2> QED
    BY <2>2 DEF Wait
<1>5. ClaimsAreHeld'
  BY <1>1, <1>3 DEF IInv, ClaimsAreHeld, Tracked, LookingUp
<1>6. NewNamesAreNoticed'
  BY <1>1, <1>4 DEF NewNamesAreNoticed, Unclaimed, Fresh, Tracked
<1>7. SomeoneKeepsTime'
  <2> SUFFICES ASSUME NEW n \in Hostname, Tracked(n)
               PROVE  \E v \in Worker : workers'[v].pc # "waiting"
    BY <1>1 DEF SomeoneKeepsTime, Tracked
  <2>1. CASE Fresh(n)
    <3>1. PICK v \in Worker : workers[v] = LookingUp(n)
      BY <1>4, <2>1 DEF Unclaimed, IInv, ClaimsAreHeld
    <3> QED
      BY <1>3, <3>1 DEF LookingUp
  <2>2. CASE ~Fresh(n)
    <3>1. workers'[w] = At("dozing")
      BY <2>2 DEF Wait, IInv, OthersTyped
    <3> QED
      BY <3>1 DEF At
  <2> QED
    BY <2>1, <2>2
<1> QED
  BY <1>1, <1>2, <1>5, <1>6, <1>7 DEF IInv, NamesGood, Tracked, OthersTyped

LEMMA AnswerStep ==
    ASSUME IInv, NEW w \in Worker, NEW answer \in Addrs \cup {Failed}, Answer(w, answer)
    PROVE  IInv'
<1> DEFINE n == workers[w].name
           info == Merged(names[n], answer)
<1>1. n \in Hostname /\ workers[w] = LookingUp(n)
  <2>1. PICK m \in Hostname : workers[w] = LookingUp(m)
    BY WorkerPcs DEF Answer, IInv
  <2> QED
    BY <2>1 DEF LookingUp
<1>2. /\ names' = IF Tracked(n) THEN [names EXCEPT ![n] = info] ELSE names
      /\ workers' = [workers EXCEPT ![w] = At("notifying")]
      /\ callers' = callers /\ handles' = handles
  BY DEF Answer
<1>3. Tracked(n) => /\ Good(info)
                    /\ info.ports = names[n].ports
                    /\ info.inFlight = FALSE
                    /\ info.age = 0
                    /\ info # Absent
  <2> HIDE DEF n
  <2> SUFFICES ASSUME Tracked(n)
               PROVE  /\ Good(info)
                      /\ info.ports = names[n].ports
                      /\ info.inFlight = FALSE
                      /\ info.age = 0
                      /\ info # Absent
    OBVIOUS
  <2>1. Good(names[n])
    BY <1>1 DEF IInv, NamesGood
  <2>2. /\ Good(info)
        /\ info.ports = names[n].ports
        /\ info.inFlight = FALSE
        /\ info.age = 0
    BY <2>1, MergedGood
  <2> QED
    BY <2>2, Sentinels DEF Good
<1> HIDE DEF n, info
<1>4. NamesGood'
  BY <1>1, <1>2, <1>3 DEF IInv, NamesGood, Tracked, Good
<1>5. /\ workers' \in [Worker -> WorkerState]
      /\ workers'[w].pc = "notifying"
      /\ \A v \in Worker \ {w} : workers'[v] = workers[v]
  BY <1>2 DEF IInv, OthersTyped, WorkerState, At
<1>6. ClaimsAreHeld'
  <2> SUFFICES ASSUME NEW m \in Hostname, Tracked(m)', names'[m].inFlight
               PROVE  \E v \in Worker : workers'[v] = LookingUp(m)
    BY DEF ClaimsAreHeld, LookingUp
  <2>1. m # n /\ Tracked(m) /\ names[m].inFlight
    BY <1>1, <1>2, <1>3 DEF IInv, NamesGood, Tracked
  <2>2. PICK v \in Worker : workers[v] = LookingUp(m)
    BY <2>1 DEF IInv, ClaimsAreHeld
  <2>3. v # w
    BY <1>1, <2>1, <2>2 DEF LookingUp
  <2> QED
    BY <1>5, <2>2, <2>3
<1>7. NewNamesAreNoticed'
  <2> SUFFICES ASSUME NEW m \in Hostname, Tracked(m)', ~names'[m].inFlight, Fresh(m)',
                      NEW v \in Worker
               PROVE  workers'[v].pc \notin {"waiting", "dozing"}
    BY DEF NewNamesAreNoticed, Unclaimed
  <2>1. m \in Unclaimed /\ Fresh(m)
    <3>1. names'[m] = names[m]
      BY <1>1, <1>2, <1>3, ResolverConstants DEF IInv, NamesGood, Tracked, Fresh
    <3> QED
      BY <3>1 DEF Unclaimed, Fresh, Tracked
  <2>2. workers[v].pc \notin {"waiting", "dozing"}
    BY <2>1 DEF IInv, NewNamesAreNoticed
  <2> QED
    BY <1>5, <2>2
<1>8. SomeoneKeepsTime'
  BY <1>5 DEF SomeoneKeepsTime
<1> QED
  BY <1>2, <1>4, <1>5, <1>6, <1>7, <1>8 DEF IInv, OthersTyped

-----------------------------------------------------------------------------
(* The theorems *)

LEMMA InitIInv == Init => IInv
<1> SUFFICES ASSUME Init
             PROVE  IInv
  OBVIOUS
<1>1. \A n \in Hostname : ~Tracked(n)
  BY DEF Init, Tracked
<1>2. NamesGood
  BY <1>1 DEF Init, NamesGood
<1>3. OthersTyped
  BY ResolverConstants DEF Init, OthersTyped, WorkerState
<1>4. ClaimsAreHeld /\ NewNamesAreNoticed /\ SomeoneKeepsTime
  BY <1>1 DEF ClaimsAreHeld, NewNamesAreNoticed, Unclaimed, SomeoneKeepsTime
<1> QED
  BY <1>2, <1>3, <1>4 DEF IInv

LEMMA NextIInv == IInv /\ [Next]_vars => IInv'
<1> SUFFICES ASSUME IInv, [Next]_vars
             PROVE  IInv'
  OBVIOUS
<1>1. CASE Clone \/ Drop
  BY <1>1, HandlesStep
<1>2. CASE Tick
  BY <1>2, TickStep
<1>3. CASE \E w \in Worker : Spawn(w) \/ Run(w) \/ SpuriousWakeup(w)
  BY <1>3, MoveStep, ClaimStep, WaitStep, AnswerStep DEF Run
<1>4. CASE \E n \in Hostname, p \in Port : Subscribe(n, p) \/ Unsubscribe(n, p)
  BY <1>4, SubscribeStep, UnsubscribeStep
<1>5. CASE \E S \in NameSets : SetNames(S)
  BY <1>5, SetNamesStep
<1>6. CASE \E a \in Caller :
             \/ \E n \in Hostname, p \in Port : Register(a, n, p)
             \/ Check(a) \/ WakeUp(a) \/ Abandon(a)
  BY <1>6, CallerStep
<1>7. CASE UNCHANGED vars
  <2>1. UNCHANGED <<names, workers, callers, handles>>
    BY <1>7 DEF vars
  <2>2. Watched'
    BY <2>1, WatchedWhenSame DEF Tracked
  <2> QED
    BY <2>1, <2>2 DEF IInv, NamesGood, Tracked, OthersTyped, Watched
<1> QED
  BY <1>1, <1>2, <1>3, <1>4, <1>5, <1>6, <1>7 DEF Next

LEMMA Invariant == Spec => []IInv
  BY InitIInv, NextIInv, PTL DEF Spec

\* The types are kept, and a name without a port is forgotten.
THEOREM ResolverTypes == Spec => []TypeOK
<1>1. IInv => TypeOK
  BY DEF IInv, NamesGood, OthersTyped, Good, TypeOK
<1> QED
  BY <1>1, Invariant, PTL

\* A claimed name has a thread that looks it up.
THEOREM ClaimsHeld == Spec => []ClaimsAreHeld
<1>1. IInv => ClaimsAreHeld
  BY DEF IInv
<1> QED
  BY <1>1, Invariant, PTL

\* The endpoints of every port of a name are those of its last good answer.
THEOREM EndpointsCurrent == Spec => []EndpointsAreCurrent
<1>1. IInv => EndpointsAreCurrent
  BY DEF IInv, NamesGood, Good, EndpointsAreCurrent
<1> QED
  BY <1>1, Invariant, PTL

\* No thread sleeps while a new name is unclaimed.
THEOREM NewNamesNoticed == Spec => []NewNamesAreNoticed
<1>1. IInv => NewNamesAreNoticed
  BY DEF IInv
<1> QED
  BY <1>1, Invariant, PTL

\* While a name is tracked, some thread does not sleep without a timeout.
THEOREM TimeIsKept == Spec => []SomeoneKeepsTime
<1>1. IInv => SomeoneKeepsTime
  BY DEF IInv
<1> QED
  BY <1>1, Invariant, PTL

\* Every step but unsubscribing keeps the pins, set_names with them.
LEMMA PinsStay ==
    ASSUME IInv, [Next]_vars, NEW n \in Hostname, NEW p \in Info(n).pinned,
           ~Unsubscribe(n, p)
    PROVE  p \in Info(n)'.pinned
<1>1. /\ Tracked(n) /\ Info(n) = names[n] /\ Good(names[n])
      /\ p \in names[n].pinned /\ p \in names[n].ports /\ p \in Port
  BY DEF IInv, NamesGood, Good, NameInfo, Info, NewName
<1>2. SUFFICES names'[n] # Absent /\ p \in names'[n].pinned
  BY DEF Info, Tracked
<1>3. CASE UNCHANGED names
  BY <1>1, <1>3 DEF Tracked
<1>4. ASSUME NEW m \in Hostname, NEW q \in Port, Subscribe(m, q)
      PROVE  names'[n] # Absent /\ p \in names'[n].pinned
  <2>1. CASE m = n
    <3>1. names'[n] = Pinned(names[n], q)
      BY <1>1, <1>4, <2>1 DEF Subscribe, IInv, NamesGood
    <3>2. Good(names'[n]) /\ names'[n].pinned = names[n].pinned \cup {q}
      BY <1>1, <3>1, PinnedGood
    <3> QED
      BY <1>1, <3>2, Sentinels DEF Good
  <2>2. CASE m # n
    BY <1>1, <1>4, <2>2 DEF Subscribe, IInv, NamesGood, Tracked
  <2> QED
    BY <2>1, <2>2
<1>5. ASSUME NEW m \in Hostname, NEW q \in Port, Unsubscribe(m, q)
      PROVE  names'[n] # Absent /\ p \in names'[n].pinned
  <2>1. CASE m = n
    <3> DEFINE S == names[n].ports \ {q}
    <3>1. p \in S /\ S \in SUBSET Port
      BY <1>1, <1>5, <2>1 DEF Good, NameInfo
    <3>2. names'[n] = OnlyPorts(names[n], S)
      BY <1>1, <1>5, <2>1 DEF Unsubscribe, IInv, NamesGood
    <3> HIDE DEF S
    <3>3. Good(names'[n]) /\ names'[n].pinned = names[n].pinned \cap S
      BY <1>1, <3>1, <3>2, OnlyPortsGood
    <3> QED
      BY <1>1, <3>1, <3>3, Sentinels DEF Good
  <2>2. CASE m # n
    BY <1>1, <1>5, <2>2 DEF Unsubscribe, IInv, NamesGood, Tracked
  <2> QED
    BY <2>1, <2>2
<1>6. ASSUME NEW S \in NameSets, SetNames(S)
      PROVE  names'[n] # Absent /\ p \in names'[n].pinned
  <2> DEFINE K == KeptPorts(n, S)
  <2>1. p \in K /\ K \in SUBSET Port
    BY <1>1 DEF Good, NameInfo, KeptPorts
  <2>2. names'[n] = OnlyPorts(names[n], K)
    BY <1>1, <1>6 DEF SetNames
  <2> HIDE DEF K
  <2>3. Good(names'[n]) /\ names'[n].pinned = names[n].pinned \cap K
    BY <1>1, <2>1, <2>2, OnlyPortsGood
  <2> QED
    BY <1>1, <2>1, <2>3, Sentinels DEF Good
<1>7. ASSUME NEW w \in Worker, Claim(w)
      PROVE  names'[n] # Absent /\ p \in names'[n].pinned
  <2>1. PICK m \in Hostname : names' = [names EXCEPT ![m].inFlight = TRUE]
    BY <1>7 DEF Claim, NextNames, Due, Unclaimed
  <2>2. names'[n] \in NameInfo /\ names'[n].pinned = names[n].pinned
    BY <1>1, <2>1 DEF IInv, NamesGood, Good, NameInfo
  <2> QED
    BY <1>1, <2>2, Sentinels
<1>8. ASSUME NEW w \in Worker, NEW answer \in Addrs \cup {Failed}, Answer(w, answer)
      PROVE  names'[n] # Absent /\ p \in names'[n].pinned
  <2>1. names'[n] = names[n] \/ names'[n] = Merged(names[n], answer)
    BY <1>1, <1>8 DEF Answer, IInv, NamesGood
  <2>2. Merged(names[n], answer).pinned = names[n].pinned
    BY <1>1 DEF Merged, Good, NameInfo
  <2>3. Good(Merged(names[n], answer))
    BY <1>1, MergedGood
  <2>4. Merged(names[n], answer) # Absent
    BY <2>3, Sentinels DEF Good
  <2> QED
    BY <1>1, <2>1, <2>2, <2>4 DEF Tracked
<1>9. CASE Tick
  BY <1>1, <1>9, TickKeeps DEF Tracked
<1>10. CASE \E w \in Worker : Spawn(w) \/ Run(w) \/ SpuriousWakeup(w)
  BY <1>3, <1>7, <1>8, <1>10
     DEF Run, Spawn, SpuriousWakeup, Exit, Wait, Timeout, NotifyCallers
<1> QED
  BY <1>3, <1>4, <1>5, <1>6, <1>9, <1>10
     DEF Next, vars, Clone, Drop, Register, Check, WakeUp, Abandon

\* A subscription is only taken away by unsubscribing.
THEOREM PinsSurvive == Spec => PinnedSurvive
<1>1. IInv /\ [Next]_vars =>
        [\A n \in Hostname : \A p \in Info(n).pinned :
            p \notin Info(n)'.pinned => Unsubscribe(n, p)]_vars
  BY PinsStay
<1> QED
  BY <1>1, Invariant, PTL DEF Spec, PinnedSurvive

-----------------------------------------------------------------------------
(* Wakeups.  A name that has an answer gives it to all its ports, unless     *)
(* set_names tracks one more after the answer came: such a port is filled by *)
(* the next subscription, which notifies nobody.  That is the only way in    *)
(* which a caller can sleep on endpoints that are there.                     *)

AllPortsFilled ==
    \A n \in Hostname : Tracked(n) /\ names[n].addrs # None =>
        \A p \in names[n].ports : names[n].group[p] # None

\* set_names would track another port of a name that has its answer.
BringsLatePort(S) ==
    \E n \in Hostname :
        Tracked(n) /\ names[n].addrs # None /\ ~ (KeptPorts(n, S) \subseteq names[n].ports)

NoLatePort == \A S \in NameSets : BringsLatePort(S) => ~SetNames(S)

Notifying == \E w \in Worker : workers[w].pc = "notifying"

\* What is not filled of a record that has an answer.
Filled(info) == info.addrs # None => \A p \in info.ports : info.group[p] # None

LEMMA FilledInfo ==
    ASSUME NamesGood, AllPortsFilled, NEW n \in Hostname
    PROVE  Filled(Info(n))
BY DEF AllPortsFilled, Filled, Info, NewName

LEMMA FilledRecords ==
    ASSUME NEW info, Good(info), Filled(info)
    PROVE  /\ \A p \in Port : Filled(Pinned(info, p))
           /\ \A p \in info.ports : Pinned(info, p).group = info.group
           /\ \A S \in SUBSET Port : S # {} /\ (info.addrs # None => S \subseteq info.ports) =>
                 /\ Filled(OnlyPorts(info, S))
                 /\ \A p \in Port : OnlyPorts(info, S).group[p] # None => info.group[p] # None
           /\ \A answer \in Addrs \cup {Failed} : Filled(Merged(info, answer))
<1>1. ASSUME NEW p \in Port
      PROVE  Filled(Pinned(info, p))
  BY DEF Good, Filled, Pinned, NameInfo
<1>2. ASSUME NEW p \in info.ports
      PROVE  Pinned(info, p).group = info.group
  <2>1. CASE info.addrs = None
    BY <2>1 DEF Good, Pinned, NameInfo
  <2>2. CASE info.addrs # None
    <3>1. p \in Port /\ info.group[p] = info.addrs
      BY <2>2 DEF Good, Filled, NameInfo
    <3>2. info.group \in [Port -> Addrs \cup {None}]
      BY DEF Good, NameInfo
    <3>3. [info.group EXCEPT ![p] = info.addrs] = info.group
      BY <3>1, <3>2
    <3> QED  BY <2>2, <3>3 DEF Good, Pinned, NameInfo
  <2> QED  BY <2>1, <2>2
<1>3. ASSUME NEW S \in SUBSET Port, S # {}, info.addrs # None => S \subseteq info.ports
      PROVE  /\ Filled(OnlyPorts(info, S))
             /\ \A p \in Port : OnlyPorts(info, S).group[p] # None => info.group[p] # None
  <2> DEFINE g == [p \in Port |-> IF p \in S THEN info.group[p] ELSE None]
  <2>1. OnlyPorts(info, S).group = g /\ OnlyPorts(info, S).addrs = info.addrs
    BY <1>3 DEF OnlyPorts, Good, NameInfo
  <2>2. OnlyPorts(info, S).ports = S
    BY <1>3, OnlyPortsGood
  <2> QED  BY <1>3, <2>1, <2>2 DEF Filled
<1>4. ASSUME NEW answer \in Addrs \cup {Failed}
      PROVE  Filled(Merged(info, answer))
  <2>1. CASE answer \in {Failed, info.addrs}
    BY <2>1 DEF Good, Filled, Merged, NameInfo
  <2>2. CASE answer \notin {Failed, info.addrs}
    <3> DEFINE g == [p \in Port |-> IF p \in info.ports THEN answer ELSE None]
    <3>1. Merged(info, answer).group = g
      BY <2>2 DEF Good, Merged, NameInfo
    <3>2. Merged(info, answer).ports = info.ports /\ info.ports \subseteq Port
      BY MergedGood DEF Good, NameInfo
    <3>3. answer # None
      BY <2>2, ResolverConstants
    <3> QED  BY <3>1, <3>2, <3>3 DEF Filled
  <2> QED  BY <2>1, <2>2
<1> QED  BY <1>1, <1>2, <1>3, <1>4, Zenon

\* A step that fills no port and wakes nobody.
LEMMA QuietStep ==
    ASSUME OthersTyped, NoLostWakeup, callers' = callers,
           Notifying => Notifying',
           \A n \in Hostname, p \in Port : Endpoints(n, p)' # None => Endpoints(n, p) # None
    PROVE  NoLostWakeup'
<1> SUFFICES ASSUME NEW a \in Caller, callers[a] # Idle, callers[a].pc = "waiting",
                    ~callers[a].woken,
                    Endpoints(callers[a].name, callers[a].port)' # None
             PROVE  Notifying'
  BY DEF NoLostWakeup, Notifying
<1>1. callers[a].name \in Hostname /\ callers[a].port \in Port
  BY DEF OthersTyped, CallerState
<1>2. Endpoints(callers[a].name, callers[a].port) # None
  BY <1>1
<1> QED  BY <1>2 DEF NoLostWakeup, Notifying

LEMMA LoudStep ==
    ASSUME callers' = NotifyWaiters, callers \in [Caller -> CallerState \cup {Idle}]
    PROVE  NoLostWakeup'
BY DEF NotifyWaiters, NoLostWakeup, CallerState

\* Threads that leave the names and the callers alone, and do not notify.
LEMMA SameNames ==
    ASSUME AllPortsFilled, UNCHANGED names
    PROVE  /\ AllPortsFilled'
           /\ \A n \in Hostname, p \in Port : Endpoints(n, p)' = Endpoints(n, p)
BY DEF AllPortsFilled, Tracked, Endpoints, Info
WInv == AllPortsFilled /\ NoLostWakeup

LEMMA WakeupsOnSubscribe ==
    ASSUME IInv, WInv, NEW n \in Hostname, NEW p \in Port, Subscribe(n, p)
    PROVE  WInv'
<1> DEFINE info == Pinned(Info(n), p)
<1>1. Good(Info(n)) /\ Filled(Info(n))
  BY InfoGood, FilledInfo DEF IInv, WInv
<1>2. Filled(info) /\ (p \in Info(n).ports => info.group = Info(n).group)
  BY <1>1, FilledRecords
<1>3. names' = [names EXCEPT ![n] = info] /\ info # Absent
  <2>1. Good(info)
    BY <1>1, PinnedGood
  <2> QED  BY <2>1, Sentinels DEF Subscribe, Good
<1> HIDE DEF info
<1>4. names'[n] = info /\ \A m \in Hostname \ {n} : names'[m] = names[m]
  BY <1>3 DEF IInv, NamesGood
<1>5. AllPortsFilled'
  BY <1>2, <1>4 DEF WInv, AllPortsFilled, Filled, Tracked
<1>6. NoLostWakeup'
  <2>1. CASE p \in Info(n).ports
    <3>1. \A m \in Hostname, q \in Port : Endpoints(m, q)' = Endpoints(m, q)
      BY <1>2, <1>3, <1>4, <2>1 DEF Endpoints, Info, Tracked
    <3>2. UNCHANGED <<workers, callers>>
      BY <2>1 DEF Subscribe
    <3> QED  BY <3>1, <3>2, QuietStep DEF IInv, WInv, Notifying
  <2>2. CASE p \notin Info(n).ports
    BY <2>2, LoudStep DEF Subscribe, IInv, OthersTyped
  <2> QED  BY <2>1, <2>2
<1> QED  BY <1>5, <1>6 DEF WInv

\* What is left of a name has no more endpoints than it had.
LEMMA WakeupsOnRemoval ==
    ASSUME IInv, WInv, NEW K \in [Hostname -> SUBSET Port],
           \A n \in Hostname :
              /\ Info(n).addrs # None => K[n] \subseteq Info(n).ports
              /\ names'[n] = OnlyPorts(Info(n), K[n]) \/ names'[n] = names[n],
           workers' \in {workers, NotifyAll}, callers' = callers
    PROVE  WInv'
<1>1. ASSUME NEW n \in Hostname
      PROVE  /\ Tracked(n)' => Filled(names'[n])
             /\ \A p \in Port : Endpoints(n, p)' # None => Endpoints(n, p) # None
  <2>1. Good(Info(n)) /\ Filled(Info(n))
    BY InfoGood, FilledInfo DEF IInv, WInv
  <2>2. CASE names'[n] = names[n]
    BY <2>1, <2>2 DEF Tracked, Info, Endpoints
  <2>3. CASE names'[n] = OnlyPorts(Info(n), K[n]) /\ K[n] = {}
    BY <2>3 DEF OnlyPorts, Tracked, Endpoints, Info, NewName
  <2>4. CASE names'[n] = OnlyPorts(Info(n), K[n]) /\ K[n] # {}
    <3>1. /\ Filled(OnlyPorts(Info(n), K[n]))
          /\ \A p \in Port : OnlyPorts(Info(n), K[n]).group[p] # None => Info(n).group[p] # None
      BY <2>1, <2>4, FilledRecords
    <3>2. Good(OnlyPorts(Info(n), K[n]))
      BY <2>1, <2>4, OnlyPortsGood
    <3>3. OnlyPorts(Info(n), K[n]) # Absent
      BY <3>2, Sentinels DEF Good
    <3> QED  BY <2>4, <3>1, <3>3 DEF Tracked, Endpoints, Info
  <2> QED  BY <2>2, <2>3, <2>4
<1>2. AllPortsFilled'
  BY <1>1 DEF AllPortsFilled, Filled, Tracked
<1>3. Notifying => Notifying'
  BY DEF Notifying, NotifyAll
<1> QED  BY <1>1, <1>2, <1>3, QuietStep DEF IInv, WInv

LEMMA WakeupsOnUnsubscribe ==
    ASSUME IInv, WInv, NEW n \in Hostname, NEW p \in Port, Unsubscribe(n, p)
    PROVE  WInv'
<1> DEFINE K == [m \in Hostname |-> Info(m).ports \ {p}]
<1>1. K \in [Hostname -> SUBSET Port]
  BY InfoGood DEF IInv, Good, NameInfo, KeptPorts
<1>2. \A m \in Hostname :
         /\ Info(m).addrs # None => K[m] \subseteq Info(m).ports
         /\ names'[m] = OnlyPorts(Info(m), K[m]) \/ names'[m] = names[m]
  BY InfoGood DEF Unsubscribe, IInv, NamesGood, Good, NameInfo
<1>3. workers' \in {workers, NotifyAll} /\ callers' = callers
  BY DEF Unsubscribe
<1> HIDE DEF K
<1> QED  BY <1>1, <1>2, <1>3, WakeupsOnRemoval

LEMMA WakeupsOnSetNames ==
    ASSUME IInv, WInv, NEW S \in NameSets, SetNames(S), NoLatePort
    PROVE  WInv'
<1> DEFINE K == [m \in Hostname |-> KeptPorts(m, S)]
<1>1. K \in [Hostname -> SUBSET Port]
  BY InfoGood DEF IInv, Good, NameInfo, KeptPorts
<1>2. \A m \in Hostname :
         /\ Info(m).addrs # None => K[m] \subseteq Info(m).ports
         /\ names'[m] = OnlyPorts(Info(m), K[m]) \/ names'[m] = names[m]
  <2>1. \A m \in Hostname : Info(m).addrs # None => K[m] \subseteq Info(m).ports
    BY DEF NoLatePort, BringsLatePort, Info, NewName
  <2>2. \A m \in Hostname : names'[m] = OnlyPorts(Info(m), K[m])
    BY DEF SetNames
  <2> QED  BY <2>1, <2>2
<1>3. workers' \in {workers, NotifyAll} /\ callers' = callers
  BY DEF SetNames
<1> HIDE DEF K
<1> QED  BY <1>1, <1>2, <1>3, WakeupsOnRemoval

\* Claims and time pass without a change to what callers see.
LEMMA WakeupsOnClaim ==
    ASSUME IInv, WInv, Tick \/ \E w \in Worker : Claim(w)
    PROVE  WInv'
<1>1. \A n \in Hostname :
         /\ Tracked(n)' <=> Tracked(n)
         /\ Tracked(n) => /\ names'[n].addrs = names[n].addrs
                          /\ names'[n].ports = names[n].ports
                          /\ names'[n].group = names[n].group
  <2>1. ASSUME Tick, NEW n \in Hostname
        PROVE  /\ Tracked(n)' <=> Tracked(n)
               /\ Tracked(n) => /\ names'[n].addrs = names[n].addrs
                                /\ names'[n].ports = names[n].ports
                                /\ names'[n].group = names[n].group
    <3>1. names'[n] \in {names[n], [names[n] EXCEPT !.age = @ + 1]}
      BY <2>1 DEF Tick
    <3>2. Tracked(n) => names[n] \in NameInfo
      BY DEF IInv, NamesGood, Good
    <3>3. Tracked(n)' <=> Tracked(n)
      BY <2>1, TickKeeps
    <3> QED  BY <3>1, <3>2, <3>3 DEF NameInfo
  <2>2. ASSUME NEW w \in Worker, Claim(w)
        PROVE  \A n \in Hostname :
                  /\ Tracked(n)' <=> Tracked(n)
                  /\ Tracked(n) => /\ names'[n].addrs = names[n].addrs
                                   /\ names'[n].ports = names[n].ports
                                   /\ names'[n].group = names[n].group
    <3>1. PICK m \in Hostname : Tracked(m) /\ names' = [names EXCEPT ![m].inFlight = TRUE]
      BY <2>2 DEF Claim, NextNames, Due, Unclaimed
    <3>2. names'[m] = [names[m] EXCEPT !.inFlight = TRUE] /\ names[m] \in NameInfo
      BY <3>1 DEF IInv, NamesGood, Good
    <3>3. /\ names'[m] \in NameInfo
          /\ names'[m].addrs = names[m].addrs
          /\ names'[m].ports = names[m].ports
          /\ names'[m].group = names[m].group
      BY <3>2 DEF NameInfo
    <3>4. \A n \in Hostname \ {m} : names'[n] = names[n]
      BY <3>1 DEF IInv, NamesGood
    <3> QED  BY <3>1, <3>3, <3>4, Sentinels DEF Tracked
  <2> QED  BY <2>1, <2>2
<1>2. AllPortsFilled'
  BY <1>1 DEF WInv, AllPortsFilled
<1>3. \A n \in Hostname, p \in Port : Endpoints(n, p)' = Endpoints(n, p)
  BY <1>1 DEF Endpoints, Info
<1>4. callers' = callers /\ (Notifying => Notifying')
  BY DEF Tick, Claim, IInv, OthersTyped, Notifying
<1> QED  BY <1>2, <1>3, <1>4, QuietStep DEF IInv, WInv

LEMMA WakeupsOnAnswer ==
    ASSUME IInv, WInv, NEW w \in Worker, NEW answer \in Addrs \cup {Failed}, Answer(w, answer)
    PROVE  WInv'
<1>1. \A n \in Hostname :
         \/ names'[n] = names[n]
         \/ Tracked(n) /\ names'[n] = Merged(names[n], answer)
  BY DEF Answer, IInv, NamesGood
<1>2. \A n \in Hostname : Tracked(n)' => Filled(names'[n])
  <2> SUFFICES ASSUME NEW n \in Hostname, Tracked(n)'
               PROVE  Filled(names'[n])
    OBVIOUS
  <2>1. Good(Info(n)) /\ Filled(Info(n))
    BY InfoGood, FilledInfo DEF IInv, WInv
  <2>2. CASE names'[n] = names[n]
    BY <2>1, <2>2 DEF Info, Tracked
  <2>3. CASE Tracked(n) /\ names'[n] = Merged(names[n], answer)
    BY <2>1, <2>3, FilledRecords DEF Info
  <2> QED  BY <1>1, <2>2, <2>3
<1>3. AllPortsFilled'
  BY <1>2 DEF AllPortsFilled, Filled
<1>4. Notifying'
  BY DEF Answer, Notifying, IInv, OthersTyped, At
<1> QED  BY <1>3, <1>4 DEF WInv, NoLostWakeup, Notifying

LEMMA WakeupsOnMove ==
    ASSUME IInv, WInv,
           \/ Clone \/ Drop
           \/ \E w \in Worker : \/ Spawn(w) \/ Exit(w) \/ Wait(w) \/ Timeout(w)
                                \/ SpuriousWakeup(w) \/ NotifyCallers(w)
    PROVE  WInv'
<1>1. UNCHANGED names
  BY DEF Clone, Drop, Spawn, Exit, Wait, Timeout, SpuriousWakeup, NotifyCallers
<1>2. CASE \E w \in Worker : NotifyCallers(w)
  BY <1>1, <1>2, SameNames, LoudStep DEF NotifyCallers, IInv, OthersTyped, WInv
<1>3. CASE ~ \E w \in Worker : NotifyCallers(w)
  <2>1. callers' = callers
    BY <1>3 DEF Clone, Drop, Spawn, Exit, Wait, Timeout, SpuriousWakeup
  <2>2. Notifying => Notifying'
    BY <1>3 DEF Clone, Drop, Spawn, Exit, Wait, Timeout, SpuriousWakeup,
                Notifying, IInv, OthersTyped
  <2> QED  BY <1>1, <2>1, <2>2, SameNames, QuietStep DEF IInv, WInv
<1> QED  BY <1>2, <1>3

\* A caller only goes to sleep when it has just seen that nothing is there.
LEMMA WakeupsOnCall ==
    ASSUME IInv, WInv, NEW a \in Caller,
           \/ \E n \in Hostname, p \in Port : Register(a, n, p)
           \/ Check(a) \/ WakeUp(a) \/ Abandon(a)
    PROVE  WInv'
<1>1. UNCHANGED <<names, workers>> /\ \A b \in Caller \ {a} : callers'[b] = callers[b]
  BY DEF Register, Check, WakeUp, Abandon, IInv, OthersTyped
<1>2. callers'[a] # Idle /\ callers'[a].pc = "waiting" =>
         Endpoints(callers'[a].name, callers'[a].port) = None
  <2>1. CASE \E n \in Hostname, p \in Port : Register(a, n, p)
    BY <2>1 DEF Register, IInv, OthersTyped
  <2>2. CASE Check(a)
    BY <2>2 DEF Check, IInv, OthersTyped, CallerState
  <2>3. CASE WakeUp(a)
    BY <2>3 DEF WakeUp, IInv, OthersTyped, CallerState
  <2>4. CASE Abandon(a)
    BY <2>4 DEF Abandon, IInv, OthersTyped
  <2> QED  BY <2>1, <2>2, <2>3, <2>4
<1>3. AllPortsFilled'
  BY <1>1, SameNames DEF WInv
<1>4. NoLostWakeup'
  <2> SUFFICES ASSUME NEW b \in Caller, callers'[b] # Idle, callers'[b].pc = "waiting",
                      ~callers'[b].woken,
                      Endpoints(callers[b].name, callers[b].port)' # None
               PROVE  Notifying'
    BY DEF NoLostWakeup, Notifying
  <2>1. Endpoints(callers'[b].name, callers'[b].port) # None
    BY <1>1 DEF Endpoints, Info, Tracked
  <2>2. b # a
    BY <1>2, <2>1
  <2> QED  BY <1>1, <2>1, <2>2 DEF WInv, NoLostWakeup, Notifying
<1> QED  BY <1>3, <1>4 DEF WInv

LEMMA StepWInv == IInv /\ WInv /\ [Next]_vars /\ [NoLatePort]_vars => WInv'
<1> SUFFICES ASSUME IInv, WInv, [Next]_vars, [NoLatePort]_vars
             PROVE  WInv'
  OBVIOUS
<1>1. CASE UNCHANGED vars
  <2>1. UNCHANGED <<names, workers, callers>>
    BY <1>1 DEF vars
  <2> QED  BY <2>1, SameNames, QuietStep DEF IInv, WInv, Notifying
<1>2. CASE Next /\ NoLatePort
  <2>1. CASE \E n \in Hostname, p \in Port : Subscribe(n, p) \/ Unsubscribe(n, p)
    BY <2>1, WakeupsOnSubscribe, WakeupsOnUnsubscribe
  <2>2. CASE \E S \in NameSets : SetNames(S)
    BY <1>2, <2>2, WakeupsOnSetNames
  <2>3. CASE \E w \in Worker : Spawn(w) \/ Run(w) \/ SpuriousWakeup(w)
    BY <2>3, WakeupsOnMove, WakeupsOnClaim, WakeupsOnAnswer DEF Run
  <2>4. CASE Clone \/ Drop \/ Tick
    BY <2>4, WakeupsOnMove, WakeupsOnClaim
  <2>5. CASE \E a \in Caller :
               \/ \E n \in Hostname, p \in Port : Register(a, n, p)
               \/ Check(a) \/ WakeUp(a) \/ Abandon(a)
    BY <2>5, WakeupsOnCall
  <2> QED  BY <1>2, <2>1, <2>2, <2>3, <2>4, <2>5 DEF Next
<1> QED  BY <1>1, <1>2

\* As long as set_names tracks no further port of a name that has its answer,
\* no caller sleeps on endpoints that are there: neither an answer that is
\* announced late nor a subscription or a removal in between loses the wakeup.
THEOREM WakeupsArrive == Spec /\ [][NoLatePort]_vars => []NoLostWakeup
<1>1. Init => WInv
  BY DEF Init, WInv, AllPortsFilled, NoLostWakeup, Tracked
<1>2. WInv => NoLostWakeup
  BY DEF WInv
<1> QED
  BY <1>1, <1>2, StepWInv, Invariant, PTL DEF Spec
=============================================================================
