--------------------------- MODULE MCDnsResolver ---------------------------
(***************************************************************************)
(* Instances of DnsResolver for TLC: up to three names and two ports, the  *)
(* two threads the client starts or one, and one caller.                   *)
(***************************************************************************)
EXTENDS DnsResolver, TLC

NoPairs == {}
NoNameSets == {}

OneName == {<<1, 80>>}

\* A name with two ports that are subscribed to, and one with a port that a
\* new connection brings as well.
TwoNames == ({1} \X Port) \cup {<<2, 80>>}
TwoNameSets == {{}, {<<2, 80>>}}

ThreeNames == {1, 2, 3} \X Port

\* Threads and addresses are interchangeable.
Symmetric == Permutations(Worker) \cup Permutations(Addrs)
=============================================================================
