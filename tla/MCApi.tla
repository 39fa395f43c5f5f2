------------------------------- MODULE MCApi -------------------------------
(* A small instance of the API: one application with one environment and   *)
(* one deployment, a human's and an agent's token, and the calls in which   *)
(* requests differ in what they may do, touch and share.                    *)
EXTENDS Api, TLC

CONSTANTS r1, r2, r3, k1, k2, human, agent, app, prod, dep

MCRequest == {r1, r2, r3}
MCKey == {k1, k2}
MCToken == {human, agent}
MCScope == (human :> "human") @@ (agent :> "agent")
MCRegistered == {app}
MCEnvironment == {prod}
MCDeployment == {dep}
MCSymmetry == Permutations(MCRequest)
\* The end of a job steers no request: states that differ in it alone are one.
MCView == <<tokens, apps, jobs, safe, replay, events, audit, pc, call, answer>>

Base ==
  [command |-> "deploy", app |-> app, arg |-> None, key |-> k1,
   token |-> human, actor |-> "human", approver |-> TRUE]

MCCall ==
  { Base,
    [Base EXCEPT !.key = k2, !.arg = prod],
    [Base EXCEPT !.token = agent, !.actor = "agent"],
    [Base EXCEPT !.token = agent],
    [Base EXCEPT !.command = "import", !.app = None],
    [Base EXCEPT !.command = "agent", !.token = agent, !.actor = "agent"],
    [Base EXCEPT !.command = "rollback", !.arg = dep, !.key = k2],
    [Base EXCEPT !.command = "rollback", !.arg = dep, !.key = k2,
                 !.approver = FALSE] }

\* Calls that are refused on their own account.
MCBadCall ==
  { [Base EXCEPT !.key = NoKey],
    [Base EXCEPT !.actor = "malformed"],
    [Base EXCEPT !.command = "capability"] }

\* Calls about an application that another request imports.
MCLateCall == {[Base EXCEPT !.app = r] : r \in Request}

\* Two clients, or one that retries, import under one key.
MCImport == {c \in MCCall : c.command = "import"}

\* Two deploys of one environment under keys of their own.
MCDeploy == {c \in MCCall : c.command = "deploy" /\ c.token = human}

MCCalls == MCCall \cup MCBadCall \cup MCLateCall
=============================================================================
