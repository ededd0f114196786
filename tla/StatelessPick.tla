--------------------------- MODULE StatelessPick ---------------------------
(***************************************************************************)
(* What a balancer without memory promises: what a caller gets depends on  *)
(* what it asks and on nothing else, whoever asks before or in between.    *)
(***************************************************************************)

CONSTANTS
    Caller,       \* threads that pick endpoints
    Asks,         \* what they may ask
    Answer(_),    \* ask -> the one answer to it
    None,         \* no ask
    Waiting       \* no answer yet

VARIABLES call, answer    \* of each caller

Init ==
    /\ call = [c \in Caller |-> None]
    /\ answer = [c \in Caller |-> Waiting]

Ask(c) ==
    /\ call[c] = None
    /\ \E a \in Asks : call' = [call EXCEPT ![c] = a]
    /\ UNCHANGED answer

Reply(c) ==
    /\ call[c] # None /\ answer[c] = Waiting
    /\ answer' = [answer EXCEPT ![c] = Answer(call[c])]
    /\ UNCHANGED call

Return(c) ==
    /\ call[c] # None /\ answer[c] # Waiting
    /\ call' = [call EXCEPT ![c] = None]
    /\ answer' = [answer EXCEPT ![c] = Waiting]

Next == \E c \in Caller : Ask(c) \/ Reply(c) \/ Return(c)

Spec == Init /\ [][Next]_<<call, answer>>
=============================================================================
