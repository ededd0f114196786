----------------------------- MODULE MCRingHash -----------------------------
(***************************************************************************)
(* Endpoint groups that gain and lose endpoints and whose localities are   *)
(* drawn differently, and requests with their headers in either order,     *)
(* with a query or none, or with nothing to hash.                          *)
(***************************************************************************)
EXTENDS RingHash, Bitwise, TLC

MCDigest(values) == FoldLeft(LAMBDA hash, v : (3 * hash + v) % 8, 1, values)
MCBitXor(a, b) == a ^^ b

MCHashValue == 0..7
MCGroup == { <<>>, <<<<>>>>, << <<"a", "b", "c">> >>,
             << <<"a">>, <<"c">> >>, << <<"c">>, <<"a">> >> }
MCGroupHash(g) ==
    CASE g = <<>> -> 0
      [] g = <<<<>>>> -> 3
      [] g = << <<"a", "b", "c">> >> -> 4
      [] g = << <<"a">>, <<"c">> >> -> 5
      [] g = << <<"c">>, <<"a">> >> -> 6
\* Two of the points fall together.
MCPointHash(e, i) ==
    CASE e = "a" -> 5 - 4 * i [] e = "b" -> 3 + 3 * i [] e = "c" -> 2 + 4 * i
      [] OTHER -> 0

MCPolicies == << [hasher |-> "Header", name |-> "h", terminal |-> TRUE],
                 [hasher |-> "QueryParam", name |-> "q", terminal |-> FALSE],
                 [hasher |-> "Header", name |-> "j", terminal |-> FALSE] >>
Pair(name, value) == [name |-> name, value |-> value]
MCRequest ==
    { [headers |-> <<Pair("h", 2), Pair("j", 1), Pair("h", 1)>>, query |-> NoHash],
      [headers |-> <<Pair("h", 1), Pair("h", 2)>>, query |-> <<Pair("q", 4)>>],
      [headers |-> <<Pair("j", 2)>>, query |-> <<Pair("q", 4), Pair("r", 1)>>],
      [headers |-> <<Pair("j", 2)>>, query |-> <<Pair("r", 2), Pair("q", 4)>>],
      [headers |-> <<>>, query |-> NoHash] }
=============================================================================
