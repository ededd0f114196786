-------------------------- MODULE MCResourceCache --------------------------
(***************************************************************************)
(* Instances of ResourceCache for TLC.  A Listener `lRoute' that routes,   *)
(* by reference or inline, to a Kubernetes cluster `cKube' with endpoints  *)
(* `eKube' and the Listener `lPolicy' that may carry its policy; and the   *)
(* same around a DNS cluster `cDns'.  Wildcard mode is on for Listeners    *)
(* and Clusters, as in every build that is not a test.                     *)
(***************************************************************************)
EXTENDS ResourceCache, TLC

CONSTANTS lRoute, lPolicy, rcA, cKube, eKube, cDns, good, other, bad

Ring  == [kind |-> "RingHash"]
Robin == [kind |-> "RoundRobin"]
Alive == [kind |-> "Endpoints"]

KubeEds == cKube :> eKube
KubeLb  == cKube :> lPolicy
DnsEds  == cDns :> eKube
DnsLb   == cDns :> lPolicy

\* Routing by reference or inline, a policy that parses and one that does
\* not, and contents that do not parse.
RouteSends ==
    lRoute  :> {Rds(rcA), Route({cKube}), Invalid} @@
    lPolicy :> {LbPolicy(cKube, good), LbPolicy(cKube, bad)} @@
    rcA     :> {Route({cKube}), Route({})} @@
    cKube   :> {Ring, Robin, Invalid} @@
    eKube   :> {Alive}

\* One content for each resource but the RouteConfiguration, so that no
\* reference is ever reset.
UnusedSends ==
    lRoute  :> {Rds(rcA)} @@
    lPolicy :> {} @@
    rcA     :> {Route({cKube}), Route({})} @@
    cKube   :> {Ring} @@
    eKube   :> {Alive}

\* A DNS cluster with a policy in a RouteConfiguration that the policy
\* Listener refers to, in turn with one of its own.
PolicySends ==
    lRoute  :> {Route({cDns})} @@
    lPolicy :> {Rds(rcA), LbPolicy(cDns, good), LbPolicy(cDns, bad)} @@
    rcA     :> {LbPolicy(cDns, other), LbPolicy(cDns, bad)} @@
    cDns    :> {Ring, Robin} @@
    eKube   :> {}
=============================================================================
