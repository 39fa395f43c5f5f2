------------------------------- MODULE MCHost -------------------------------
(***************************************************************************)
(* What the control plane sets up outside itself, for TLC: containers of   *)
(* previews, a database, a bucket, a hostname.  They share no state and    *)
(* none calls another, so a behaviour here is one of the part in focus,    *)
(* with the others at rest.                                                *)
(***************************************************************************)
EXTENDS Previews, Provisioning, Domains, TLC

Permuted == Permutations(Preview)

\* The configurations of previews that health and limits tell apart.
Dev ==
  [profile |-> "development", path |-> "none", network |-> "isolated",
   limits |-> TRUE, port |-> TRUE]

MCConfig ==
  { Dev,
    [Dev EXCEPT !.profile = "production", !.path = "configured",
                !.network = "bridged"],
    [Dev EXCEPT !.network = "disabled"],
    [Dev EXCEPT !.limits = FALSE] }

VARIABLE focus

vars == <<focus, previews, provisioning, domains>>

\* Configurations are chosen for previews only when they are in focus.
Init ==
  /\ focus \in {"previews", "postgres", "storage", "domains"}
  /\ PreviewsInit
  /\ ProvisioningInit
  /\ DomainsInit
  /\ focus # "previews" => \A p \in Preview : config[p] = Dev

Next ==
  /\ \/ focus = "previews" /\ PreviewsNext /\ UNCHANGED <<provisioning, domains>>
     \/ focus = "postgres" /\ PostgresNext /\ UNCHANGED <<previews, domains>>
     \/ focus = "storage" /\ StorageNext /\ UNCHANGED <<previews, domains>>
     \/ focus = "domains" /\ DomainsNext /\ UNCHANGED <<previews, provisioning>>
  /\ UNCHANGED focus

Spec == Init /\ [][Next]_vars
=============================================================================
