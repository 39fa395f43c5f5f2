------------------------------ MODULE Domains ------------------------------
(***************************************************************************)
(* Delivery of one hostname: ProviderRuntime::converge_domain over the     *)
(* resolver and the openssl issuer.  A caller has a DomainDelivery of its  *)
(* own that it converges again and again, with the deployment and the      *)
(* approval it has at the time.  The certificate's files are shared by the *)
(* callers and outlive them; anyone may clear the directory.               *)
(*                                                                         *)
(* The hostname is one that can be resolved and issued for.                *)
(***************************************************************************)
EXTENDS Naturals, FiniteSets

CONSTANTS
  Converger,      \* callers
  Deployment,     \* deployments they route to
  MaxConvergence  \* bound: calls of converge_domain

VARIABLES
  delivery,      \* Converger -> DomainDelivery
  convergence,   \* Converger -> its call
  files,         \* which of the hostname's "key" and "cert" exist
  rows,          \* the rows of domain_deliveries, without their ids
  offered,       \* deployments that were offered promoted and approved
  convergences   \* calls so far

domains == <<delivery, convergence, files, rows, offered, convergences>>

NoDeployment == "no deployment"

DomainDelivery ==
  [dns |-> "pending", tls |-> "pending", traffic_attached |-> FALSE,
   deployment_id |-> NoDeployment]

\* may_serve: the deployment is promoted and the approval is granted and named.
NoConvergence == [at |-> "none", deployment |-> NoDeployment, may_serve |-> FALSE]

DomainsInit ==
  /\ delivery = [c \in Converger |-> DomainDelivery]
  /\ convergence = [c \in Converger |-> NoConvergence]
  /\ files = {}
  /\ rows = {}
  /\ offered = {}
  /\ convergences = 0

GoOn(c, at) == convergence' = [convergence EXCEPT ![c].at = at]

converge_domain(c, d, may_serve) ==
  /\ convergence[c] = NoConvergence
  /\ convergences < MaxConvergence
  /\ convergences' = convergences + 1
  /\ convergence' = [convergence EXCEPT ![c] =
                       [at |-> "dns", deployment |-> d, may_serve |-> may_serve]]
  /\ offered' = IF may_serve THEN offered \cup {d} ELSE offered
  /\ UNCHANGED <<delivery, files, rows>>

\* What does not resolve in time is pending, even if it did before.
ensure_dns(c) ==
  /\ convergence[c].at = "dns"
  /\ \E dns \in {"propagated", "pending"} :
       delivery' = [delivery EXCEPT ![c].dns = dns]
  /\ GoOn(c, "tls")
  /\ UNCHANGED <<files, rows, offered, convergences>>

report_certificate_failure(c) ==
  delivery' = [delivery EXCEPT ![c].tls = "failed", ![c].traffic_attached = FALSE]

\* Files that are both there are reused, whatever is in them; otherwise
\* openssl is started, which may fail, as may making the directory.
issue(c) ==
  /\ convergence[c].at = "tls"
  /\ \/ /\ files = {"key", "cert"}
        /\ delivery' = [delivery EXCEPT ![c].tls = "issued"]
        /\ GoOn(c, "attach")
     \/ files # {"key", "cert"} /\ GoOn(c, "openssl") /\ UNCHANGED delivery
     \/ report_certificate_failure(c) /\ GoOn(c, "attach")
  /\ UNCHANGED <<files, rows, offered, convergences>>

\* openssl writes the key before the certificate.
WriteFile(c) ==
  /\ convergence[c].at = "openssl"
  /\ files # {"key", "cert"}
  /\ files' = IF "key" \in files THEN {"key", "cert"} ELSE files \cup {"key"}
  /\ UNCHANGED <<delivery, convergence, rows, offered, convergences>>

\* openssl ends, or is killed at the timeout, or the modes cannot be set.
\* Its own failure is returned as a state; the others are errors.
run_openssl(c) ==
  /\ convergence[c].at = "openssl"
  /\ \/ files = {"key", "cert"} /\ delivery' = [delivery EXCEPT ![c].tls = "issued"]
     \/ delivery' = [delivery EXCEPT ![c].tls = "failed"]
     \/ report_certificate_failure(c)
  /\ GoOn(c, "attach")
  /\ UNCHANGED <<files, rows, offered, convergences>>

is_issued(tls) == tls \in {"issued", "renewing"}

\* Mutation of plan_traffic_attachment: the target is noted before the gates.
plan_attachment_early(v, call) ==
  [v EXCEPT !.deployment_id = call.deployment,
            !.traffic_attached =
               @ \/ (call.may_serve /\ v.dns = "propagated" /\ is_issued(v.tls))]

plan_traffic_attachment(v, call) ==
  IF call.may_serve /\ v.dns = "propagated" /\ is_issued(v.tls)
  THEN [v EXCEPT !.deployment_id = call.deployment, !.traffic_attached = TRUE]
  ELSE v

\* A row is saved whether or not traffic could be attached.  When it cannot
\* be saved, the delivery has changed all the same.
AttachAndSave(c) ==
  /\ convergence[c].at = "attach"
  /\ delivery' = [delivery EXCEPT ![c] = plan_traffic_attachment(@, convergence[c])]
  /\ rows' \in {rows, rows \cup {delivery'[c]}}
  /\ convergence' = [convergence EXCEPT ![c] = NoConvergence]
  /\ UNCHANGED <<files, offered, convergences>>

ClearDirectory ==
  /\ files # {}
  /\ files' = {}
  /\ UNCHANGED <<delivery, convergence, rows, offered, convergences>>

DomainsNext ==
  \/ \E c \in Converger :
       \/ \E d \in Deployment, may_serve \in BOOLEAN : converge_domain(c, d, may_serve)
       \/ ensure_dns(c) \/ issue(c) \/ WriteFile(c) \/ run_openssl(c)
       \/ AttachAndSave(c)
  \/ ClearDirectory

-----------------------------------------------------------------------------
(***************************************************************************)
(* Traffic goes to a deployment that was promoted and approved when it was *)
(* attached: a later convergence that is refused, of whatever deployment,  *)
(* does not move the traffic an earlier one attached.                      *)
(***************************************************************************)
TrafficStaysApproved ==
  \A row \in rows : row.traffic_attached => row.deployment_id \in offered
=============================================================================
