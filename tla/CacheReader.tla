----------------------------- MODULE CacheReader -----------------------------
(***************************************************************************)
(* The readers of the resource cache (cache.rs, CacheReader and            *)
(* ResourceMap::get_await) and what a lookup says to the ADS task before   *)
(* it reads (xds.rs, AdsClient).  A lookup goes through its steps one at a *)
(* time while the task writes: it sends a subscription, which waits for    *)
(* room in the channel, looks, registers for notifications, looks again    *)
(* and sleeps.  The table of the DNS resolver waits in the same way        *)
(* (DnsResolver) and is one more map here.                                 *)
(***************************************************************************)
EXTENDS Names

CONSTANTS
    Absent,      \* no entry
    Key,         \* names in the cache, each of a map: [map |-> _, name |-> _]
    Content,     \* key -> what the server makes of it; None is an entry without
                 \* data (a tombstone, or only an error), Absent is no entry
    SubsRoom     \* the capacity of the channel of subscriptions, 10

VARIABLES
    data,        \* key -> Absent, None or one of its contents
    subs,        \* how many subscriptions wait in the channel
    lookups      \* sequence of [key, phase, woken, answer]

Phases == {"send", "blocked", "get", "register", "look", "asleep", "done"}

In(map, name) == [map |-> map, name |-> name]
Lookup(key) == [key |-> key, phase |-> "send", woken |-> FALSE, answer |-> None]
Answered(answer) ==
    [key |-> None, phase |-> "done", woken |-> FALSE, answer |-> answer]

\* The names with an entry; the server has nothing to say of any name but Key.
Present == {k \in Key : data[k] # Absent}

ReaderInit ==
    /\ data = [k \in Key |-> Absent]
    /\ subs = 0
    /\ lookups = <<>>

----------------------------------------------------------------------------
(* Writers: insert_ok, insert_error on a new name, insert_tombstone and    *)
(* remove each change the map, then notify everyone registered with it.    *)

NotifyWaiters(map) ==
    [i \in DOMAIN lookups |->
        IF lookups[i].phase \in {"look", "asleep"} /\ lookups[i].key.map = map
        THEN [lookups[i] EXCEPT !.woken = TRUE] ELSE lookups[i]]

Write(k, entry) ==
    /\ data' = [data EXCEPT ![k] = entry]
    /\ lookups' = NotifyWaiters(k.map)
    /\ UNCHANGED subs

----------------------------------------------------------------------------
(* Readers. *)

Become(i, lookup) == lookups' = [lookups EXCEPT ![i] = lookup]

\* AdsClient::get_*: a full channel makes the caller wait.
SendSub(i) ==
    /\ lookups[i].phase \in {"send", "blocked"} /\ subs < SubsRoom
    /\ subs' = subs + 1
    /\ Become(i, [lookups[i] EXCEPT !.phase = "get"])
    /\ UNCHANGED data

Blocks(i) ==
    /\ lookups[i].phase = "send" /\ subs >= SubsRoom
    /\ Become(i, [lookups[i] EXCEPT !.phase = "blocked"])
    /\ UNCHANGED <<data, subs>>

\* What a reader makes of an entry (CacheReader::get_*): a Listener that
\* names a RouteConfiguration is followed to it, with no new subscription.
Found(k, entry) ==
    CASE entry = None -> Answered(None)
      [] entry # None /\ k.map = "listeners" /\ "rds" \in DOMAIN entry ->
            [Lookup(In("route_configs", entry.rds)) EXCEPT !.phase = "get"]
      [] entry # None /\ k.map \in {"listeners", "route_configs"}
                      /\ "rds" \notin DOMAIN entry -> Answered(entry.route)
      [] OTHER -> Answered(entry)

\* ResourceMap::get_await: the fast path, and every look in the loop.
Get(i) ==
    /\ lookups[i].phase \in {"get", "look"}
    /\ lookups[i].key \in Present
    /\ Become(i, Found(lookups[i].key, data[lookups[i].key]))
    /\ UNCHANGED <<data, subs>>

GetNothing(i) ==
    /\ lookups[i].phase \in {"get", "look"}
    /\ lookups[i].key \notin Present
    /\ Become(i, [lookups[i] EXCEPT
                    !.phase = IF @ = "get" THEN "register" ELSE "asleep"])
    /\ UNCHANGED <<data, subs>>

\* Mutated: sleeps at once, on the strength of the first look.
Register_Sleeps(i) ==
    /\ lookups[i].phase = "register"
    /\ Become(i, [lookups[i] EXCEPT !.phase = "asleep", !.woken = FALSE])
    /\ UNCHANGED <<data, subs>>

Register(i) ==
    /\ lookups[i].phase = "register"
    /\ Become(i, [lookups[i] EXCEPT !.phase = "look", !.woken = FALSE])
    /\ UNCHANGED <<data, subs>>

\* A notification is there: register for the next one and look again.
Wake(i) ==
    /\ lookups[i].phase = "asleep" /\ lookups[i].woken
    /\ Become(i, [lookups[i] EXCEPT !.phase = "look", !.woken = FALSE])
    /\ UNCHANGED <<data, subs>>

Read(i) == SendSub(i) \/ Blocks(i) \/ Get(i) \/ GetNothing(i) \/ Register(i) \/ Wake(i)

\* Mutated: the wait for room is not under the deadline.
IsPending_Asleep(lookup) == lookup.phase = "asleep"

\* Has been polled and cannot go on by itself.
IsPending(lookup) == lookup.phase \in {"blocked", "asleep"}

----------------------------------------------------------------------------

ReaderTypeOK ==
    /\ \A k \in Key : data[k] \in Content[k] \cup {Absent}
    /\ subs \in 0..SubsRoom
    /\ \A i \in DOMAIN lookups :
          lookups[i].phase \in Phases /\ lookups[i].woken \in BOOLEAN

\* A lookup that sleeps on an entry that is there has been notified,
\* whatever the writer did between its looks (the order that the comment in
\* ResourceMap::get_await insists on).
NoMissedNotify ==
    \A i \in DOMAIN lookups :
       /\ lookups[i].phase = "asleep"
       /\ lookups[i].key \in Present
       => lookups[i].woken
=============================================================================
