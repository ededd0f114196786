---------------------------- MODULE DnsResolver ----------------------------
(***************************************************************************)
(* The background DNS resolver (dns.rs, StdlibResolver): worker threads    *)
(* around one mutex and one condition variable, callers on an async Notify,*)
(* and a count of references that tells the threads when to stop.          *)
(*                                                                         *)
(* One action is one critical section of the mutex, or what a thread does  *)
(* between two of them.  Time is the age of the last answer of each name,  *)
(* which stops counting at MaxAge; a lookup takes any time at all.         *)
(***************************************************************************)
EXTENDS Naturals, FiniteSets

CONSTANTS
    Hostname,      \* numbers, for the order of the BTreeMap
    Port,
    Worker,        \* the threads of new_with, worker_count of them
    Caller,        \* tasks in get_endpoints_await
    Addrs,         \* sorted address lists a lookup can return
    Failed,        \* the answer of a lookup that fails
    Targets,       \* pairs the owner may subscribe to and wait for
    Removable,     \* pairs the owner may unsubscribe from
    NameSets,      \* arguments of set_names
    Interval,      \* lookup_interval, in ticks
    MaxAge,        \* bound on the age of an answer
    MaxHandles,    \* bound on clones the resolver's users hold
    Never, Absent, None, Idle

ASSUME ResolverConstants ==
    /\ Hostname \subseteq Nat
    /\ Targets \subseteq Hostname \X Port
    /\ Removable \subseteq Targets
    /\ NameSets \subseteq SUBSET (Hostname \X Port)
    /\ IsFiniteSet(Worker) /\ Worker # {}
    /\ Failed \notin Addrs /\ None \notin Addrs
    /\ Interval \in Nat /\ MaxAge \in Nat /\ Interval <= MaxAge
    /\ MaxHandles \in Nat \ {0}
    /\ Never \notin Nat

VARIABLES
    names,       \* what is known of each name, or Absent
    workers,     \* where each thread is
    callers,     \* what each caller waits for, or Idle
    handles      \* references that are not a worker's

vars == <<names, workers, callers, handles>>

Age == 0 .. MaxAge

\* `pinned' and the groups of endpoints are the PortInfo of each tracked port.
NameInfo == [ports    : SUBSET Port,
             pinned   : SUBSET Port,
             group    : [Port -> Addrs \cup {None}],
             inFlight : BOOLEAN,
             age      : Age \cup {Never},
             addrs    : Addrs \cup {None}]

NewName == [ports |-> {}, pinned |-> {}, group |-> [p \in Port |-> None],
            inFlight |-> FALSE, age |-> Never, addrs |-> None]

At(pc) == [pc |-> pc, name |-> None]
LookingUp(n) == [pc |-> "lookup", name |-> n]

WorkerState == {At(pc) : pc \in {"unborn", "ready", "waiting", "dozing", "notifying", "exited"}}
                 \cup {LookingUp(n) : n \in Hostname}

CallerState == [name : Hostname, port : Port, pc : {"checking", "waiting"}, woken : BOOLEAN]

ASSUME Sentinels == Absent \notin NameInfo /\ Idle \notin CallerState

Tracked(n) == names[n] # Absent
Info(n) == IF Tracked(n) THEN names[n] ELSE NewName
Fresh(n) == Tracked(n) /\ names[n].age = Never
Endpoints(n, p) == Info(n).group[p]

Live == {w \in Worker : workers[w].pc \notin {"unborn", "exited"}}
StrongCount == handles + Cardinality(Live)

\* Rust: new_with has returned, and somebody holds what it returned.
InUse == handles > 0 /\ \A w \in Worker : workers[w].pc # "unborn"

\* Mutated: only the workers that sleep without a timeout are woken.
NotifyAll_Untimed ==
    [w \in Worker |-> IF workers[w].pc = "waiting" THEN At("ready") ELSE workers[w]]

\* cond.notify_all()
NotifyAll ==
    [w \in Worker |-> IF workers[w].pc \in {"waiting", "dozing"} THEN At("ready") ELSE workers[w]]

\* async_notify.notify_waiters(): reaches every Notified that exists.
NotifyWaiters ==
    [a \in Caller |-> IF callers[a] = Idle THEN Idle ELSE [callers[a] EXCEPT !.woken = TRUE]]

Init ==
    /\ names = [n \in Hostname |-> Absent]
    /\ workers = [w \in Worker |-> At("unborn")]
    /\ callers = [a \in Caller |-> Idle]
    /\ handles = 1

-----------------------------------------------------------------------------
(* Users of the resolver *)

\* A worker's reference exists before its thread runs; the thread may run
\* before the next worker's reference exists.
Spawn(w) ==
    /\ workers[w].pc = "unborn"
    /\ workers' = [workers EXCEPT ![w] = At("ready")]
    /\ UNCHANGED <<names, callers, handles>>

Clone ==
    /\ InUse
    /\ handles < MaxHandles
    /\ handles' = handles + 1
    /\ UNCHANGED <<names, workers, callers>>

\* A task that waits borrows its resolver.
Drop ==
    /\ InUse
    /\ handles > 1 \/ \A a \in Caller : callers[a] = Idle
    /\ handles' = handles - 1
    /\ UNCHANGED <<names, workers, callers>>

\* A port of a name that has been resolved gets its endpoints at once.
Pinned(info, p) ==
    [info EXCEPT !.ports  = @ \cup {p},
                 !.pinned = @ \cup {p},
                 !.group  = IF info.addrs = None THEN @ ELSE [@ EXCEPT ![p] = info.addrs]]

Subscribe(n, p) ==
    /\ InUse
    /\ <<n, p>> \in Targets
    /\ names' = [names EXCEPT ![n] = Pinned(Info(n), p)]
    /\ IF p \in Info(n).ports
         THEN UNCHANGED <<workers, callers>>
         ELSE workers' = NotifyAll /\ callers' = NotifyWaiters
    /\ UNCHANGED handles

\* Mutated: a name without ports stays.
OnlyPorts_Kept(info, S) ==
    [info EXCEPT !.ports  = S,
                 !.pinned = @ \cap S,
                 !.group  = [p \in Port |-> IF p \in S THEN @[p] ELSE None]]

\* What is left of a name that only keeps the ports in S.
OnlyPorts(info, S) ==
    IF S = {} THEN Absent
    ELSE [info EXCEPT !.ports  = S,
                      !.pinned = @ \cap S,
                      !.group  = [p \in Port |-> IF p \in S THEN @[p] ELSE None]]

Unsubscribe(n, p) ==
    /\ InUse
    /\ <<n, p>> \in Removable
    /\ names' = [names EXCEPT ![n] = OnlyPorts(Info(n), Info(n).ports \ {p})]
    /\ workers' = NotifyAll
    /\ UNCHANGED <<callers, handles>>

\* Mutated: the new set is all there is.
KeptPorts_Unpinned(n, S) == {p \in Port : <<n, p>> \in S}

\* update_all drops the ports that are neither pinned nor named.
KeptPorts(n, S) == Info(n).pinned \cup {p \in Port : <<n, p>> \in S}

SetNames(S) ==
    /\ InUse
    /\ names' = [n \in Hostname |-> OnlyPorts(Info(n), KeptPorts(n, S))]
    /\ workers' = IF \E n \in Hostname : KeptPorts(n, S) # Info(n).ports
                    THEN NotifyAll ELSE workers
    /\ UNCHANGED <<callers, handles>>

-----------------------------------------------------------------------------
(* A worker *)

IsShutdown == StrongCount <= Cardinality(Worker)

Unclaimed == {n \in Hostname : Tracked(n) /\ ~names[n].inFlight}

Due == {n \in Unclaimed : names[n].age # Never /\ names[n].age >= Interval}

\* Mutated: names that wait for their first answer come last.
NextNames_DueFirst ==
    IF Due # {} THEN {n \in Due : \A m \in Due : names[n].age <= names[m].age}
    ELSE {n \in Unclaimed : Fresh(n)}

\* A name that was never resolved comes first, in the order of the map.  Of
\* the others the loop settles on the one whose answer is the youngest.
NextNames ==
    LET fresh == {n \in Unclaimed : Fresh(n)}
    IN  IF fresh # {} THEN {n \in fresh : \A m \in fresh : n <= m}
        ELSE {n \in Due : \A m \in Due : names[n].age <= names[m].age}

Exit(w) ==
    /\ workers[w].pc = "ready"
    /\ IsShutdown
    /\ workers' = [workers EXCEPT ![w] = At("exited")]
    /\ UNCHANGED <<names, callers, handles>>

Claim(w) ==
    /\ workers[w].pc = "ready"
    /\ ~IsShutdown
    /\ \E n \in NextNames :
         /\ names' = [names EXCEPT ![n].inFlight = TRUE]
         /\ workers' = [workers EXCEPT ![w] = LookingUp(n)]
    /\ UNCHANGED <<callers, handles>>

\* Mutated: only the answers that are due set a timeout.
Wait_DueOnly(w) ==
    /\ workers[w].pc = "ready"
    /\ ~IsShutdown
    /\ NextNames = {}
    /\ workers' = [workers EXCEPT ![w] = IF Due # {} THEN At("dozing") ELSE At("waiting")]
    /\ UNCHANGED <<names, callers, handles>>

\* With no answer at all to refresh there is no timeout.
Wait(w) ==
    /\ workers[w].pc = "ready"
    /\ ~IsShutdown
    /\ NextNames = {}
    /\ workers' = [workers EXCEPT ![w] =
                     IF \E n \in Hostname : Tracked(n) /\ ~Fresh(n) THEN At("dozing")
                                                                   ELSE At("waiting")]
    /\ UNCHANGED <<names, callers, handles>>

\* wait_timeout returns.
Timeout(w) ==
    /\ workers[w].pc = "dozing"
    /\ workers' = [workers EXCEPT ![w] = At("ready")]
    /\ UNCHANGED <<names, callers, handles>>

\* A condition variable may wake a thread for no reason.
SpuriousWakeup(w) ==
    /\ workers[w].pc = "waiting"
    /\ workers' = [workers EXCEPT ![w] = At("ready")]
    /\ UNCHANGED <<names, callers, handles>>

\* Mutated: the claim stays.
Merged_StillClaimed(info, answer) ==
    IF answer \in {Failed, info.addrs} THEN [info EXCEPT !.age = 0]
    ELSE [info EXCEPT !.age = 0, !.addrs = answer,
                      !.group = [p \in Port |-> IF p \in info.ports THEN answer ELSE None]]

\* Mutated: only the ports without endpoints get the answer's.
Merged_FirstOnly(info, answer) ==
    IF answer \in {Failed, info.addrs} THEN [info EXCEPT !.inFlight = FALSE, !.age = 0]
    ELSE [info EXCEPT !.inFlight = FALSE, !.age = 0, !.addrs = answer,
                      !.group = [p \in Port |-> IF p \in info.ports /\ @[p] = None
                                                  THEN answer ELSE @[p]]]

\* An error and an answer that is the same only renew the age.
Merged(info, answer) ==
    IF answer \in {Failed, info.addrs} THEN [info EXCEPT !.inFlight = FALSE, !.age = 0]
    ELSE [info EXCEPT !.inFlight = FALSE, !.age = 0, !.addrs = answer,
                      !.group = [p \in Port |-> IF p \in info.ports THEN answer ELSE None]]

\* The answer for a name nobody tracks any more is dropped.
Answer(w, answer) ==
    /\ workers[w].pc = "lookup"
    /\ LET n == workers[w].name
       IN  names' = IF Tracked(n) THEN [names EXCEPT ![n] = Merged(@, answer)] ELSE names
    /\ workers' = [workers EXCEPT ![w] = At("notifying")]
    /\ UNCHANGED <<callers, handles>>

\* Mutated: nobody is told.
NotifyCallers_Silent(w) ==
    /\ workers[w].pc = "notifying"
    /\ workers' = [workers EXCEPT ![w] = At("ready")]
    /\ UNCHANGED <<names, callers, handles>>

\* After the lock is free.
NotifyCallers(w) ==
    /\ workers[w].pc = "notifying"
    /\ workers' = [workers EXCEPT ![w] = At("ready")]
    /\ callers' = NotifyWaiters
    /\ UNCHANGED <<names, handles>>

Run(w) ==
    \/ Exit(w)
    \/ Claim(w)
    \/ Wait(w)
    \/ Timeout(w)
    \/ \E answer \in Addrs \cup {Failed} : Answer(w, answer)
    \/ NotifyCallers(w)

\* A tick is long for a thread that only has to take a lock: time passes
\* while the threads look up or sleep.
Tick ==
    /\ \A w \in Live : workers[w].pc \notin {"ready", "notifying"}
    /\ names' = [n \in Hostname |->
                   IF ~Tracked(n) \/ Fresh(n) \/ names[n].age = MaxAge THEN names[n]
                   ELSE [names[n] EXCEPT !.age = @ + 1]]
    /\ UNCHANGED <<workers, callers, handles>>

-----------------------------------------------------------------------------
(* A caller of get_endpoints_await *)

\* Creates the Notified, before it looks.
Register(a, n, p) ==
    /\ InUse
    /\ callers[a] = Idle
    /\ <<n, p>> \in Targets
    /\ callers' = [callers EXCEPT ![a] = [name |-> n, port |-> p, pc |-> "checking", woken |-> FALSE]]
    /\ UNCHANGED <<names, workers, handles>>

Check(a) ==
    /\ callers[a] # Idle /\ callers[a].pc = "checking"
    /\ callers' = [callers EXCEPT ![a] =
                     IF Endpoints(@.name, @.port) # None THEN Idle ELSE [@ EXCEPT !.pc = "waiting"]]
    /\ UNCHANGED <<names, workers, handles>>

WakeUp(a) ==
    /\ callers[a] # Idle /\ callers[a].pc = "waiting" /\ callers[a].woken
    /\ callers' = [callers EXCEPT ![a].pc = "checking", ![a].woken = FALSE]
    /\ UNCHANGED <<names, workers, handles>>

\* The request's deadline: the future is dropped.
Abandon(a) ==
    /\ callers[a] # Idle
    /\ callers' = [callers EXCEPT ![a] = Idle]
    /\ UNCHANGED <<names, workers, handles>>

Next ==
    \/ Clone \/ Drop \/ Tick
    \/ \E w \in Worker : Spawn(w) \/ Run(w) \/ SpuriousWakeup(w)
    \/ \E n \in Hostname, p \in Port : Subscribe(n, p) \/ Unsubscribe(n, p)
    \/ \E S \in NameSets : SetNames(S)
    \/ \E a \in Caller :
         \/ \E n \in Hostname, p \in Port : Register(a, n, p)
         \/ Check(a) \/ WakeUp(a) \/ Abandon(a)

Spec == Init /\ [][Next]_vars

\* The threads run, lookups return, timeouts expire, and time passes however
\* often the threads get in between.
Fairness == SF_vars(Tick) /\ \A w \in Worker : WF_vars(Spawn(w)) /\ WF_vars(Run(w))

FairSpec == Spec /\ Fairness

-----------------------------------------------------------------------------
(* Properties *)

\* Every variable keeps its type; a name without a port is forgotten.
TypeOK ==
    /\ names \in [Hostname -> NameInfo \cup {Absent}]
    /\ workers \in [Worker -> WorkerState]
    /\ callers \in [Caller -> CallerState \cup {Idle}]
    /\ handles \in 0 .. MaxHandles
    /\ \A n \in Hostname : Tracked(n) => names[n].ports # {} /\ names[n].pinned \subseteq names[n].ports

\* A claimed name has a thread that looks it up, so no name is claimed for
\* ever: through removals and re-additions while a lookup is under way, and
\* answers that come after them (next_name against insert_answer).
ClaimsAreHeld ==
    \A n \in Hostname : Tracked(n) /\ names[n].inFlight =>
        \E w \in Worker : workers[w] = LookingUp(n)

\* The endpoints of a port are those of the name's last good answer: ports
\* that come before, between and after answers all serve the same addresses.
EndpointsAreCurrent ==
    \A n \in Hostname : Tracked(n) =>
        \A p \in Port : names[n].group[p] \in
            (IF p \in names[n].ports THEN {None, names[n].addrs} ELSE {None})

\* No thread sleeps through a new name: when one is left unclaimed, every
\* thread is busy or about to look for work.
NewNamesAreNoticed ==
    (\E n \in Unclaimed : Fresh(n)) =>
        \A w \in Worker : workers[w].pc \notin {"waiting", "dozing"}

\* While any name is tracked, not every thread sleeps without a timeout: one
\* is left to refresh the names, unless a thread has left altogether.  (Then
\* the resolver can be down to one that sleeps: see ExitOnlyWhenDropped.)
SomeoneKeepsTime ==
    (\E n \in Hostname : Tracked(n)) =>
        \E w \in Worker : workers[w].pc # "waiting"

\* A caller never sleeps on endpoints that are there, unless the thread that
\* brought them has yet to wake it.
NoLostWakeup ==
    \A a \in Caller :
        /\ callers[a] # Idle
        /\ callers[a].pc = "waiting"
        /\ ~callers[a].woken
        /\ Endpoints(callers[a].name, callers[a].port) # None
        => \E w \in Worker : workers[w].pc = "notifying"

\* A name that was subscribed to is only forgotten by unsubscribing from it:
\* the names of a new connection do not take it away.
PinnedSurvive ==
    [][\A n \in Hostname : \A p \in Info(n).pinned :
         p \notin Info(n)'.pinned => Unsubscribe(n, p)]_vars

\* A new name gets its first answer, however many threads left early and
\* whatever else is due, unless the name is dropped or no thread is left.
NewNamesResolve ==
    \A n \in Hostname : Fresh(n) ~> ~Fresh(n) \/ Live = {}

\* dns.rs:140: "Names are resolved regularly in the background."  No answer
\* stays old: it is renewed, unless the name is dropped or a thread has left.
\* (With more names than one plus the number of threads this fails.)
NamesAreRefreshed ==
    \A n \in Hostname :
        (Tracked(n) /\ names[n].age = MaxAge) ~>
            ~Tracked(n) \/ names[n].age = 0 \/ Live # Worker

-----------------------------------------------------------------------------
(* What the documentation says and the code does not do *)

\* dns.rs:150-151: the worker threads "exit when the resolver is dropped":
\* not before.
ExitOnlyWhenDropped ==
    (\E w \in Worker : workers[w].pc = "exited") => handles = 0

=============================================================================
