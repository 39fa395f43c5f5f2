----------------------------- MODULE MCRollout ------------------------------
(* Three deployments of one environment with two domains.                   *)
EXTENDS Rollout
\* Probes that carry no signal leave a trace in health alone, which steers no
\* operation: states that differ in it alone are one.
MCView == <<count, [i \in DOMAIN deployments |-> [deployments[i] EXCEPT !.health = "starting"]],
            current, domains>>
=============================================================================
