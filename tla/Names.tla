------------------------------- MODULE Names -------------------------------
(***************************************************************************)
(* Names of services, hosts and backends (junction-api lib.rs, backend.rs, *)
(* http.rs HostnameMatch).  A hostname is the sequence of its labels, read *)
(* from left to right; a label is a value of its own, and Spelling says of *)
(* what kinds of characters it is made.  A name on the wire, host:port, is *)
(* a record, whose port is None when there is no colon.  What does not     *)
(* parse is Failed.                                                        *)
(***************************************************************************)
EXTENDS Naturals, Sequences, SequencesExt

CONSTANTS
    Label,         \* what can stand between two dots, "" and "*" among them
    Spelling,      \* label -> the kinds of its characters
    NameMax,       \* Name::MAX_LEN
    HostnameMax,   \* Hostname::MAX_LEN
    MaxPort,       \* u16::MAX
    None,          \* a field that is not set
    Failed         \* an Err

Char == {"letter", "digit", "dash", "other"}

\* KubeService::SUBDOMAIN and Service::BACKEND_SUBDOMAIN, after their dot.
SUBDOMAIN == <<"svc", "cluster", "local">>
BACKEND_SUBDOMAIN == <<"lb", "jct">>

Port == 0..MaxPort
Hostname == Seq(Label)
Service == [kind : {"dns"}, hostname : Hostname]
               \cup [kind : {"kube"}, name : Label, namespace : Label]
BackendId == [service : Service, port : Port]
HostnameMatch == [wild : BOOLEAN, host : Hostname]

ASSUME NameConstants ==
    /\ {"*", "default"} \cup Range(SUBDOMAIN) \cup Range(BACKEND_SUBDOMAIN) \subseteq Label
    /\ Spelling \in [Label -> Seq(Char)]
    /\ Spelling["*"] = <<"other">>
    /\ NameMax \in Nat /\ HostnameMax \in Nat /\ MaxPort \in Nat

\* The length of a hostname in bytes.
HostLen(h) == FoldLeft(LAMBDA n, l : n + Len(Spelling[l]), Len(h) - 1, h)

\* DNS_CHARS has no place for them.
Foreign(l) == "other" \in Range(Spelling[l])

\* Hostname::validate.  The test for a last dash or dot compares an index
\* with the length and never holds, so it is not there.
ValidHostname(h) ==
    /\ h # <<>> /\ Spelling[h[1]] # <<>>
    /\ HostLen(h) <= HostnameMax
    /\ \A i \in DOMAIN h : ~Foreign(h[i])
    /\ Spelling[h[1]][1] # "dash"

\* Name::validate, with the same dead test at its end.
ValidName(l) ==
    /\ Len(Spelling[l]) \in 1..NameMax
    /\ ~Foreign(l)
    /\ Spelling[l][1] = "letter"

NameFromStr(l) == IF ValidName(l) THEN l ELSE Failed

----------------------------------------------------------------------------

KubeService(namespace, name) ==
    IF ValidName(namespace) /\ ValidName(name)
    THEN [kind |-> "kube", name |-> name, namespace |-> namespace]
    ELSE Failed

DnsService(h) ==
    IF ValidHostname(h) THEN [kind |-> "dns", hostname |-> h] ELSE Failed

\* A suffix with its dot: a label has to come before it.
EndsIn(h, suffix) == Len(h) > Len(suffix) /\ IsSuffix(suffix, h)

ServiceFromStr(h) ==
    IF ~ValidHostname(h) THEN Failed
    ELSE IF ~EndsIn(h, SUBDOMAIN) THEN DnsService(h)
    ELSE IF Len(h) # 5 THEN Failed
    ELSE KubeService(h[2], h[1])

ServiceName(s) ==
    IF s.kind = "dns" THEN s.hostname
    ELSE <<s.name, s.namespace>> \o SUBDOMAIN

LbConfigRouteName(s) == ServiceName(s) \o BACKEND_SUBDOMAIN

ServiceFromLbConfigRouteName(h) ==
    IF ValidHostname(h) /\ EndsIn(h, BACKEND_SUBDOMAIN)
    THEN ServiceFromStr(SubSeq(h, 1, Len(h) - Len(BACKEND_SUBDOMAIN)))
    ELSE Failed

----------------------------------------------------------------------------

\* parse_port fails on a port that is not a u16.
BadPort(s) == s.port # None /\ s.port \notin Port

IdName(b) == [host |-> ServiceName(b.service), port |-> b.port]
IdLbConfigRouteName(b) == [host |-> LbConfigRouteName(b.service), port |-> b.port]

WithPort(service, port) ==
    IF service = Failed THEN Failed ELSE [service |-> service, port |-> port]

BackendIdFromStr(s) ==
    IF BadPort(s) \/ s.port = None THEN Failed
    ELSE WithPort(ServiceFromStr(s.host), s.port)

BackendIdFromLbConfigRouteName(s) ==
    IF BadPort(s) \/ s.port = None THEN Failed
    ELSE WithPort(ServiceFromLbConfigRouteName(s.host), s.port)

----------------------------------------------------------------------------

Exactly(h) == [wild |-> FALSE, host |-> h]

HostnameMatchFromStr(h) ==
    LET wild == Len(h) > 1 /\ h[1] = "*"
        host == IF wild THEN Tail(h) ELSE h
    IN  IF ValidHostname(host) THEN [wild |-> wild, host |-> host] ELSE Failed

HostnameMatchName(m) == IF m.wild THEN <<"*">> \o m.host ELSE m.host

\* HostnameMatch::matches_str, of a pattern that is not longer than the name.
MatchesStr(m, h) ==
    /\ ValidHostname(h)
    /\ IF m.wild THEN EndsIn(h, m.host) ELSE h = m.host

\* With a longer one the subtraction of lengths underflows: a panic.
MatchPanics(m, h) == ValidHostname(h) /\ m.wild /\ HostLen(h) < HostLen(m.host)
=============================================================================
