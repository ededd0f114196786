-------------------------- MODULE MCAdsConnection --------------------------
(***************************************************************************)
(* Instances of AdsConnection for TLC: a Listener that refers to a route   *)
(* configuration, which routes to one cluster, served by the control plane *)
(* or by DNS; the client asks for the Listener and for endpoints.          *)
(***************************************************************************)
EXTENDS AdsConnection, TLC

CONSTANTS lRoute, lPolicy, rcA, cKube, cDns, eKube, good

Ring  == [kind |-> "RingHash"]

BothEds == cKube :> eKube @@ cDns :> eKube
BothLb  == cKube :> lPolicy @@ cDns :> lPolicy
KubeEds == cKube :> eKube
KubeLb  == cKube :> lPolicy
DnsEds  == cDns :> eKube
DnsLb   == cDns :> lPolicy

\* A Listener that refers to a route configuration, which never comes, or to a
\* DNS cluster, in turns; endpoints are asked for and never come.
AllSends ==
    lRoute  :> {Rds(rcA), Route({cDns})} @@
    lPolicy :> {} @@
    rcA     :> {} @@
    cDns    :> {Ring} @@
    eKube   :> {} @@
    cKube   :> {}

\* A Listener and the route configuration it refers to.
ListenerSends ==
    lRoute  :> {Rds(rcA)} @@
    lPolicy :> {} @@
    rcA     :> {Route({})} @@
    cKube   :> {} @@
    eKube   :> {}

\* A Listener that drops its route configuration and takes it up again.
ShrinkingSends ==
    lRoute  :> {Rds(rcA), Route({})} @@
    lPolicy :> {} @@
    rcA     :> {Route({})} @@
    cKube   :> {} @@
    eKube   :> {}

\* A Listener that drops and takes up a cluster that DNS resolves.
DnsSends ==
    lRoute  :> {Route({cDns}), Route({})} @@
    lPolicy :> {} @@
    rcA     :> {} @@
    cDns    :> {Ring} @@
    eKube   :> {}

Nothing == {}

\* A nonce is only ever compared with another one.
Nonces == Permutations(Nonce)

AskOnAndOff ==
    {[op |-> "AddEndpoints", name |-> cKube], [op |-> "RemoveEndpoints", name |-> cKube]}
=============================================================================
