------------------------------ MODULE Rollout -------------------------------
(***************************************************************************)
(* The deployment history of one environment, the deployment that serves   *)
(* it, its domains, and rollback.                                          *)
(*                                                                         *)
(* Builds and health probes answer in any order, about any deployment, as  *)
(* often as they like.  A rollback plan is drawn up before its approval    *)
(* and carried out after it.  What plan_rollback checks stays true once it *)
(* is (an image is never taken away), so a plan of any age is executed by  *)
(* the same action as a fresh one, and as often.                           *)
(*                                                                         *)
(* Calls that return Err without a granted approval change nothing and are *)
(* left out, and so are source and configuration rollbacks, which record   *)
(* an intent only.                                                         *)
(*                                                                         *)
(* A record can be marked superseded or rolled back by itself.  The marks  *)
(* check the lifecycle graph and nothing else; what they say of the        *)
(* traffic is up to their caller.  Next has the calls that keep to it.     *)
(***************************************************************************)
EXTENDS Integers

CONSTANTS
  MaxDeployments,  \* bound: deployments begun, numbered in order
  Domain           \* hostnames of the environment

VARIABLES
  count,           \* deployments begun so far
  deployments,     \* their records
  current,         \* the serving deployment, 0 for None
  domains          \* hostname -> deployment, 0 for None

vars == <<count, deployments, current, domains>>

ASSUME RolloutAssumption == MaxDeployments \in Nat

-----------------------------------------------------------------------------
DeploymentPhase ==
  {"pending", "building", "deploying", "healthy", "degraded", "failed",
   "superseded", "rolled_back"}

HealthStatus == {"starting", "healthy", "unhealthy", "unknown"}

Moves ==
  [ pending     |-> {"building", "failed"},
    building    |-> {"deploying", "failed"},
    deploying   |-> {"healthy", "degraded", "failed"},
    healthy     |-> {"degraded", "superseded", "rolled_back"},
    degraded    |-> {"healthy", "failed", "rolled_back"},
    failed      |-> {"rolled_back"},
    superseded  |-> {"rolled_back"},
    rolled_back |-> {} ]

\* Mutation of can_transition_to: the graph is not consulted.
AnyMove(from, to) == from # to

can_transition_to(from, to) == to \in Moves[from]

Deployment ==
  [ phase : DeploymentPhase,
    image : BOOLEAN,                     \* an image was minted
    health : HealthStatus,
    target : 0 .. MaxDeployments,        \* rollback_target, 0 for None
    passed : BOOLEAN ]                   \* transitions has deploying -> healthy

Id == 1 .. count

New(target) ==
  [phase |-> "pending", image |-> FALSE, health |-> "starting",
   target |-> target, passed |-> FALSE]

Entered(d, to) ==
  [d EXCEPT !.phase = to,
            !.passed = d.passed \/ (d.phase = "deploying" /\ to = "healthy")]

\* A move the graph does not have is an error and changes nothing.
move_to(d, to) == IF can_transition_to(d.phase, to) THEN Entered(d, to) ELSE d

\* The last of a set of deployments, 0 when there is none.
MostRecent(ok) ==
  IF ok = {} THEN 0 ELSE CHOOSE i \in ok : \A j \in ok : j <= i

\* Mutation of rollback_target: any built deployment is a target.
rollback_target_built == MostRecent({i \in Id : deployments[i].image})

rollback_target ==
  MostRecent({i \in Id : /\ deployments[i].phase \in {"healthy", "superseded"}
                         /\ deployments[i].image})

-----------------------------------------------------------------------------
Init ==
  /\ count = 0
  /\ deployments = [i \in 1 .. MaxDeployments |-> New(0)]
  /\ current = 0
  /\ domains = [h \in Domain |-> 0]

Begin ==
  /\ count < MaxDeployments
  /\ count' = count + 1
  /\ deployments' = [deployments EXCEPT ![count + 1] = New(rollback_target)]
  /\ UNCHANGED <<current, domains>>

Update(i, d) ==
  /\ deployments' = [deployments EXCEPT ![i] = d]
  /\ UNCHANGED <<count, current, domains>>

StartBuild(i) == Update(i, move_to(deployments[i], "building"))

\* A runtime without an image reference fails after the build, in building.
Built(d, outcome) ==
  CASE outcome = "image" -> move_to([d EXCEPT !.image = TRUE], "deploying")
    [] outcome = "failed" -> move_to(d, "failed")
    [] OTHER -> d

RecordBuild(i, outcome) ==
  /\ deployments[i].phase = "building"
  /\ Update(i, Built(deployments[i], outcome))

\* Mutation of Probed: a failed readiness probe degrades a rollout too.
ProbedLenient(d, health) ==
  LET seen == [d EXCEPT !.health = health]
  IN  CASE health = "healthy" -> move_to(seen, "healthy")
        [] health = "unhealthy" -> move_to(seen, "degraded")
        [] OTHER -> seen

\* Mutation of Probed: a second failed probe fails the deployment.
ProbedTwice(d, health) ==
  LET seen == [d EXCEPT !.health = health]
  IN  CASE health = "healthy" -> move_to(seen, "healthy")
        [] health = "unhealthy" ->
             move_to(seen, IF d.phase = "healthy" THEN "degraded" ELSE "failed")
        [] OTHER -> seen

\* The probe is stored before the move it asks for is checked.
Probed(d, health) ==
  LET seen == [d EXCEPT !.health = health]
  IN  CASE health = "healthy" -> move_to(seen, "healthy")
        [] health = "unhealthy" ->
             move_to(seen, IF d.phase = "deploying" THEN "failed" ELSE "degraded")
        [] OTHER -> seen

RecordHealth(i, health) == Update(i, Probed(deployments[i], health))

\* The previous one is superseded when it is healthy and left alone otherwise.
Promote(i) ==
  /\ deployments[i].phase = "healthy"
  /\ deployments' = [j \in DOMAIN deployments |->
       IF j = current /\ j # i /\ deployments[j].phase = "healthy"
       THEN Entered(deployments[j], "superseded")
       ELSE deployments[j]]
  /\ current' = i
  /\ UNCHANGED <<count, domains>>

plan_rollback(from, to) == from # to /\ deployments[to].image

Safe(i) == deployments[i].phase \in {"superseded", "rolled_back", "healthy"}

\* Mutation of Restored: traffic moves but the target keeps its phase.
RestoredKept(from, to) ==
  [j \in DOMAIN deployments |->
     IF j = from /\ deployments[j].phase \in {"healthy", "degraded"}
     THEN Entered(deployments[j], "rolled_back")
     ELSE deployments[j]]

\* The target is restored outside of the lifecycle graph.
Restored(from, to) ==
  [j \in DOMAIN deployments |->
     CASE j = from /\ deployments[j].phase \in {"healthy", "degraded"} ->
            Entered(deployments[j], "rolled_back")
       [] j = to /\ deployments[j].phase # "healthy" ->
            Entered(deployments[j], "healthy")
       [] OTHER -> deployments[j]]

\* Mutation of Repointed: domains stay where they are.
RepointedNot(from, to) == domains

Repointed(from, to) ==
  [h \in Domain |-> IF domains[h] = from THEN to ELSE domains[h]]

\* The plan's source need not be the deployment that serves now.
ExecuteRollback(from, to) ==
  /\ plan_rollback(from, to) /\ Safe(to)
  /\ deployments' = Restored(from, to)
  /\ current' = to
  /\ domains' = Repointed(from, to)
  /\ UNCHANGED count

AttachDomain(h, i) ==
  /\ deployments[i].phase = "healthy"
  /\ domains' = [domains EXCEPT ![h] = i]
  /\ UNCHANGED <<count, deployments, current>>

mark_superseded(i) == Update(i, move_to(deployments[i], "superseded"))

mark_rolled_back(i) == Update(i, move_to(deployments[i], "rolled_back"))

\* What the marks say: "superseded by a newer healthy one", and "traffic moved
\* away", from one that could have had some.
NewerServes(i) == i < current

TrafficMovedAway(i) ==
  /\ deployments[i].phase # "failed"
  /\ current # i
  /\ \A h \in Domain : domains[h] # i

Next ==
  \/ Begin
  \/ \E i \in Id :
       \/ StartBuild(i)
       \/ \E outcome \in {"image", "failed", "no_image"} : RecordBuild(i, outcome)
       \/ \E health \in HealthStatus : RecordHealth(i, health)
       \/ Promote(i)
       \/ \E j \in Id : ExecuteRollback(i, j)
       \/ \E h \in Domain : AttachDomain(h, i)
       \/ NewerServes(i) /\ mark_superseded(i)
       \/ TrafficMovedAway(i) /\ mark_rolled_back(i)

Spec == Init /\ [][Next]_vars
-----------------------------------------------------------------------------
\* The history and the pointers into it have their types.
RolloutTypeOK ==
  /\ count \in 0 .. MaxDeployments
  /\ deployments \in [1 .. MaxDeployments -> Deployment]
  /\ current \in 0 .. count
  /\ domains \in [Domain -> 0 .. count]

Gated(d) == d.image /\ d.passed

\* "A deployment MUST NOT become healthy or receive production traffic until
\* its health checks pass": whatever serves, or has served, has an image and
\* came through the gate from deploying, stale plans and late probes included
\* (record_health, promote, execute_rollback, attach_domain).
OnlyGatedServe ==
  /\ current # 0 => Gated(deployments[current])
  /\ \A h \in Domain : domains[h] # 0 => Gated(deployments[domains[h]])
  /\ \A i \in Id : Safe(i) \/ deployments[i].phase = "degraded" => Gated(deployments[i])

\* The serving deployment has not been retired: it is healthy, or was when it
\* was chosen (promote and execute_rollback move the pointer with the phases).
CurrentIsUp ==
  current # 0 => deployments[current].phase \in {"healthy", "degraded"}

\* No domain is left on a deployment that was rolled back, or failed
\* (execute_rollback re-points the domains of the source).
DomainsFollowRollback ==
  \A h \in Domain :
    domains[h] # 0 => deployments[domains[h]].phase \notin {"rolled_back", "failed"}

\* "Terminal failure before promotion; no traffic": a failed deployment never
\* was healthy and stays failed (the Unhealthy arm of record_health).
FailedIsEarlyAndFinal ==
  [][\A i \in Id :
       /\ deployments'[i].phase = "failed" => ~deployments'[i].passed
       /\ deployments[i].phase = "failed" => deployments'[i].phase = "failed"]_vars

\* "the prior healthy rollback target remains identifiable": the target wired
\* into a deployment is an earlier one that came through the gate, for as long
\* as the history lasts (rollback_target, begin).
TargetsStayGated ==
  \A i \in Id : LET t == deployments[i].target
               IN  t # 0 => t < i /\ Gated(deployments[t])

\* A retired deployment comes back only by serving again, which rolled_back does
\* too although the graph ends there: no late build, probe or mark moves it, but
\* for a superseded one that is marked rolled back (move_to, execute_rollback).
RevivedOnlyToServe ==
  [][\A i \in Id :
       /\ deployments[i].phase \in {"superseded", "rolled_back"}
       /\ deployments'[i].phase # deployments[i].phase
       => \/ deployments'[i].phase = "healthy" /\ current' = i
          \/ deployments[i].phase = "superseded" /\ deployments'[i].phase = "rolled_back"]_vars
=============================================================================
