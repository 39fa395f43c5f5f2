--------------------------- MODULE RolloutProofs ----------------------------
(***************************************************************************)
(* The safety of rollouts, for any number of deployments and domains.      *)
(*                                                                         *)
(* None of the properties is inductive by itself: that a domain is never   *)
(* left on a rolled-back deployment needs that no domain is ever on one    *)
(* that has not been healthy, and that in turn needs to know what a phase  *)
(* says about the image and the gate.  RecordInv ties the fields of one    *)
(* deployment together; RolloutInv adds what each pointer may point at.    *)
(***************************************************************************)
EXTENDS Rollout, WellFoundedInduction, TLAPS

Verified == {"healthy", "degraded", "superseded", "rolled_back"}

RecordInv(d) ==
  /\ d \in Deployment
  /\ d.passed <=> d.phase \in Verified
  /\ d.phase \in Verified \cup {"deploying"} => d.image
  /\ d.phase \in {"pending", "building"} => ~d.image

RolloutInv ==
  /\ RolloutTypeOK
  /\ \A i \in 1 .. MaxDeployments : RecordInv(deployments[i])
  /\ current # 0 => deployments[current].phase \in {"healthy", "degraded"}
  /\ \A h \in Domain : domains[h] # 0 =>
       deployments[domains[h]].phase \in {"healthy", "degraded", "superseded"}
  /\ \A i \in Id : deployments[i].target # 0 =>
       deployments[i].target < i /\ deployments[deployments[i].target].passed

\* What a build report or a health probe may do to one deployment: it keeps
\* the record consistent and the wired target in place, takes no verified
\* deployment out of service, and touches no retired one.
Progress(d, e) ==
  /\ RecordInv(e)
  /\ e.target = d.target
  /\ d.passed => e.passed
  /\ d.phase \in {"healthy", "degraded"} => e.phase \in {"healthy", "degraded"}
  /\ d.phase \in {"superseded", "rolled_back", "failed"} => e.phase = d.phase

\* The fields of a record that has just entered a phase (move_to).
LEMMA EnteredFields ==
  ASSUME NEW d \in Deployment, NEW to \in DeploymentPhase
  PROVE  /\ Entered(d, to) \in Deployment
         /\ Entered(d, to).phase = to
         /\ (Entered(d, to).image <=> d.image)
         /\ Entered(d, to).target = d.target
         /\ Entered(d, to).passed <=>
              (d.passed \/ (d.phase = "deploying" /\ to = "healthy"))
<1>1. (d.passed \/ (d.phase = "deploying" /\ to = "healthy")) \in BOOLEAN
  BY DEF Deployment
<1>2. QED
  BY <1>1, Zenon DEF Entered, Deployment

\* The lifecycle graph, one move at a time (can_transition_to).
LEMMA MovesAre ==
  ASSUME NEW from \in DeploymentPhase
  PROVE  /\ can_transition_to(from, "building") <=> from = "pending"
         /\ can_transition_to(from, "deploying") <=> from = "building"
         /\ can_transition_to(from, "healthy") <=> from \in {"deploying", "degraded"}
         /\ can_transition_to(from, "degraded") <=> from \in {"deploying", "healthy"}
         /\ can_transition_to(from, "failed") <=>
              from \in {"pending", "building", "deploying", "degraded"}
         /\ can_transition_to(from, "superseded") <=> from = "healthy"
         /\ can_transition_to(from, "rolled_back") <=>
              from \in {"healthy", "degraded", "failed", "superseded"}
BY DEF can_transition_to, Moves, DeploymentPhase

\* Starting a build is progress (start_build).
LEMMA BuildStarts ==
  ASSUME NEW d, RecordInv(d)
  PROVE  Progress(d, move_to(d, "building"))
<1>1. d \in Deployment /\ d.phase \in DeploymentPhase /\ "building" \in DeploymentPhase
  BY DEF RecordInv, Deployment, DeploymentPhase
<1>2. CASE d.phase = "pending"
  BY <1>1, <1>2, EnteredFields, MovesAre DEF RecordInv, Progress, move_to, Verified
<1>3. CASE d.phase # "pending"
  BY <1>1, <1>3, MovesAre DEF RecordInv, Progress, move_to
<1>4. QED
  BY <1>2, <1>3

\* Recording a build outcome is progress (record_build).
LEMMA BuildRecorded ==
  ASSUME NEW d, RecordInv(d), d.phase = "building",
         NEW outcome \in {"image", "failed", "no_image"}
  PROVE  Progress(d, Built(d, outcome))
<1>1. /\ d \in Deployment
      /\ {"building", "deploying", "failed"} \subseteq DeploymentPhase
  BY DEF RecordInv, DeploymentPhase
<1>2. CASE outcome = "image"
  <2> DEFINE e == [d EXCEPT !.image = TRUE]
  <2>1. /\ e \in Deployment /\ e.image /\ e.phase = "building"
        /\ e.target = d.target /\ (e.passed <=> d.passed)
    BY <1>1, Zenon DEF Deployment
  <2>2. Built(d, outcome) = Entered(e, "deploying")
    BY <1>1, <1>2, <2>1, MovesAre DEF Built, move_to
  <2> HIDE DEF e
  <2> DEFINE f == Built(d, outcome)
  <2>3. /\ f \in Deployment /\ f.phase = "deploying" /\ f.image
        /\ f.target = d.target /\ (f.passed <=> d.passed)
    <3>1. "deploying" \in DeploymentPhase /\ e.phase # "deploying"
      BY <1>1, <2>1
    <3>2. QED
      BY <3>1, <2>1, <2>2, EnteredFields
  <2>4. ~d.passed
    BY DEF RecordInv, Verified
  <2> HIDE DEF f
  <2>5. RecordInv(f)
    BY <2>3, <2>4 DEF RecordInv, Verified
  <2>6. Progress(d, f)
    BY <2>3, <2>4, <2>5 DEF Progress
  <2>7. QED
    BY <2>6 DEF f
<1>3. CASE outcome = "failed"
  <2>1. Built(d, outcome) = Entered(d, "failed")
    BY <1>1, <1>3, MovesAre DEF Built, move_to
  <2> DEFINE f == Entered(d, "failed")
  <2>2. /\ f \in Deployment /\ f.phase = "failed"
        /\ f.target = d.target /\ (f.passed <=> d.passed)
    <3>1. d \in Deployment /\ "failed" \in DeploymentPhase /\ d.phase # "deploying"
      BY <1>1
    <3>2. /\ f \in Deployment /\ f.phase = "failed" /\ f.target = d.target
          /\ f.passed <=> (d.passed \/ (d.phase = "deploying" /\ "failed" = "healthy"))
      BY <3>1, EnteredFields
    <3>3. QED
      BY <3>1, <3>2
  <2>3. ~d.passed
    BY DEF RecordInv, Verified
  <2> HIDE DEF f
  <2>4. RecordInv(f)
    BY <2>2, <2>3 DEF RecordInv, Verified
  <2>5. Progress(d, f)
    BY <2>2, <2>3, <2>4 DEF Progress
  <2>6. QED
    BY <2>1, <2>5 DEF f
<1>4. CASE outcome = "no_image"
  BY <1>4 DEF Built, Progress
<1>5. QED
  BY <1>2, <1>3, <1>4

\* Recording a probe is progress, whenever it arrives (record_health).
LEMMA HealthRecorded ==
  ASSUME NEW d, RecordInv(d), NEW health \in HealthStatus
  PROVE  Progress(d, Probed(d, health))
<1> DEFINE e == [d EXCEPT !.health = health]
<1>1. /\ d \in Deployment /\ d.phase \in DeploymentPhase
      /\ {"healthy", "degraded", "failed"} \subseteq DeploymentPhase
  BY DEF RecordInv, Deployment, DeploymentPhase
<1>2. /\ e \in Deployment /\ e.phase = d.phase /\ (e.image <=> d.image)
      /\ e.target = d.target /\ (e.passed <=> d.passed)
  BY <1>1 DEF Deployment
<1>3. RecordInv(e)
  BY <1>2 DEF RecordInv
<1>4. ASSUME NEW to \in {"healthy", "degraded", "failed"},
             can_transition_to(d.phase, to),
             to = "failed" => d.phase = "deploying",
             to = "degraded" => d.phase # "deploying"
      PROVE  Progress(d, move_to(e, to))
  <2>1. move_to(e, to) = Entered(e, to)
    BY <1>2, <1>4 DEF move_to
  <2> HIDE DEF e
  <2>2. /\ Entered(e, to) \in Deployment
        /\ Entered(e, to).phase = to
        /\ Entered(e, to).image <=> d.image
        /\ Entered(e, to).target = d.target
        /\ Entered(e, to).passed <=> (d.passed \/ (d.phase = "deploying" /\ to = "healthy"))
    <3>1. to \in DeploymentPhase
      BY <1>1
    <3>2. QED
      BY <3>1, <1>2, EnteredFields
  <2>3. d.phase \in {"deploying", "healthy", "degraded"}
    BY <1>1, <1>4, MovesAre
  <2> DEFINE f == Entered(e, to)
  <2>4. /\ f \in Deployment /\ f.phase = to /\ (f.image <=> d.image)
        /\ f.target = d.target
        /\ f.passed <=> (d.passed \/ (d.phase = "deploying" /\ to = "healthy"))
    BY <2>2
  <2> HIDE DEF f
  <2>5. d.image /\ (d.passed <=> d.phase # "deploying")
    BY <2>3 DEF RecordInv, Verified
  <2>6. RecordInv(f)
    BY <1>4, <2>3, <2>4, <2>5 DEF RecordInv, Verified
  <2>7. to = "failed" => d.phase = "deploying"
    BY <1>4
  <2>8. Progress(d, f)
    BY <1>4, <2>3, <2>4, <2>5, <2>6, <2>7 DEF Progress
  <2>9. QED
    BY <2>1, <2>8 DEF f
<1>5. ASSUME NEW to, ~can_transition_to(d.phase, to)
      PROVE  Progress(d, move_to(e, to))
  <2>1. move_to(e, to) = e
    BY <1>2, <1>5 DEF move_to
  <2> HIDE DEF e
  <2>2. QED
    BY <1>2, <1>3, <2>1 DEF Progress
<1>6. CASE health = "healthy"
  <2>1. Probed(d, health) = move_to(e, "healthy")
    BY <1>6 DEF Probed
  <2> HIDE DEF e
  <2>2. QED
    BY <1>4, <1>5, <2>1
<1>7. CASE health = "unhealthy"
  <2> DEFINE to == IF d.phase = "deploying" THEN "failed" ELSE "degraded"
  <2>1. Probed(d, health) = move_to(e, to)
    BY <1>7 DEF Probed
  <2>2. /\ to \in {"degraded", "failed"}
        /\ to = "failed" => d.phase = "deploying"
        /\ to = "degraded" => d.phase # "deploying"
    OBVIOUS
  <2> HIDE DEF e, to
  <2>3. QED
    BY <1>4, <1>5, <2>1, <2>2
<1>8. CASE health \in {"starting", "unknown"}
  <2>1. Probed(d, health) = e
    BY <1>8 DEF Probed
  <2> HIDE DEF e
  <2>2. QED
    BY <1>2, <1>3, <2>1 DEF Progress
<1>9. QED
  BY <1>6, <1>7, <1>8 DEF HealthStatus

-----------------------------------------------------------------------------
\* The first state satisfies the invariant.
LEMMA InitInv == Init => RolloutInv
BY RolloutAssumption
DEF Init, RolloutInv, RolloutTypeOK, RecordInv, New, Deployment, DeploymentPhase,
    HealthStatus, Verified, Id

\* A set of deployments that is not empty has a last one.
LEMMA LastExists ==
  ASSUME NEW n \in Nat, NEW S, S \subseteq 1 .. n, S # {}
  PROVE  \E i \in S : \A j \in S : j <= i
<1> DEFINE less == {p \in Nat \X Nat : p[1] < p[2]}
           T == {n - i : i \in S}
<1>1. IsWellFoundedOn(less, Nat)
  BY NatLessThanWellFounded, Zenon DEF OpToRel
<1>2. T \subseteq Nat /\ T # {}
  <2>1. \A i \in S : n - i \in Nat
    OBVIOUS
  <2>2. PICK i \in S : TRUE
    BY Zenon
  <2>3. n - i \in T
    OBVIOUS
  <2>4. QED
    BY <2>1, <2>3
<1>3. PICK x \in T : \A y \in T : ~(<<y, x>> \in less)
  <2> HIDE DEF T, less
  <2>1. QED
    BY <1>1, <1>2, WFMin, Zenon
<1>4. \A y \in T : ~(y < x)
  BY <1>2, <1>3, Zenon
<1>5. PICK i \in S : x = n - i
  OBVIOUS
<1>6. ASSUME NEW j \in S PROVE j <= i
  <2>1. i \in 1 .. n /\ j \in 1 .. n
    OBVIOUS
  <2>2. ~(n - j < n - i)
    BY <1>4, <1>5
  <2> HIDE DEF T, less
  <2>3. QED
    BY <2>1, <2>2
<1>7. QED
  BY <1>6

\* The wired target is an earlier deployment that came through the gate.
LEMMA TargetGated ==
  ASSUME RolloutInv
  PROVE  /\ rollback_target \in 0 .. count
         /\ rollback_target # 0 => deployments[rollback_target].passed
<1> DEFINE ok == {i \in Id : /\ deployments[i].phase \in {"healthy", "superseded"}
                            /\ deployments[i].image}
<1>1. CASE ok = {}
  <2>1. rollback_target = 0
    BY <1>1 DEF rollback_target, MostRecent
  <2>2. count \in Nat
    BY RolloutAssumption DEF RolloutInv, RolloutTypeOK
  <2>3. QED
    BY <2>1, <2>2
<1>2. CASE ok # {}
  <2>1. rollback_target = CHOOSE i \in ok : \A j \in ok : j <= i
    BY <1>2 DEF rollback_target, MostRecent
  <2>2. count \in Nat /\ ok \subseteq 1 .. count
    BY RolloutAssumption DEF RolloutInv, RolloutTypeOK, Id
  <2>3. \E i \in ok : \A j \in ok : j <= i
    <3> HIDE DEF ok
    <3>1. QED
      BY <1>2, <2>2, LastExists, Zenon
  <2>4. rollback_target \in ok
    <3> HIDE DEF ok
    <3>1. QED
      BY <2>1, <2>3
  <2>5. rollback_target \in 1 .. MaxDeployments
    BY <2>2, <2>4, RolloutAssumption DEF RolloutInv, RolloutTypeOK
  <2>6. QED
    BY <2>2, <2>4, <2>5 DEF RolloutInv, RecordInv, Verified
<1>3. QED
  BY <1>1, <1>2

\* An action that makes one deployment progress and does nothing else.
LEMMA UpdateInv ==
  ASSUME RolloutInv, NEW i \in Id, NEW d, Progress(deployments[i], d), Update(i, d)
  PROVE  RolloutInv'
<1>1. /\ count \in 0 .. MaxDeployments /\ i \in 1 .. MaxDeployments
      /\ deployments \in [1 .. MaxDeployments -> Deployment]
      /\ MaxDeployments \in Nat
  BY RolloutAssumption DEF RolloutInv, RolloutTypeOK, Id
<1>2. /\ deployments' = [deployments EXCEPT ![i] = d]
      /\ count' = count /\ current' = current /\ domains' = domains
  BY DEF Update
<1>3. /\ deployments'[i] = d
      /\ \A j \in 1 .. MaxDeployments : j # i => deployments'[j] = deployments[j]
      /\ d \in Deployment
      /\ deployments' \in [1 .. MaxDeployments -> Deployment]
  BY <1>1, <1>2 DEF Progress, RecordInv
<1>4. RolloutTypeOK'
  BY <1>2, <1>3 DEF RolloutInv, RolloutTypeOK
<1>5. \A j \in 1 .. MaxDeployments : RecordInv(deployments'[j])
  BY <1>3 DEF RolloutInv, Progress
<1>6. current # 0 => deployments'[current].phase \in {"healthy", "degraded"}
  BY <1>1, <1>3 DEF RolloutInv, RolloutTypeOK, Progress
<1>7. ASSUME NEW h \in Domain, domains[h] # 0
      PROVE  deployments'[domains[h]].phase \in {"healthy", "degraded", "superseded"}
  BY <1>1, <1>3, <1>7 DEF RolloutInv, RolloutTypeOK, Progress
<1>8. ASSUME NEW j \in Id, deployments'[j].target # 0
      PROVE  /\ deployments'[j].target < j
             /\ deployments'[deployments'[j].target].passed
  <2>1. j \in 1 .. MaxDeployments /\ deployments'[j].target = deployments[j].target
    BY <1>1, <1>3 DEF Id, Progress
  <2> DEFINE t == deployments[j].target
  <2>2. t \in 1 .. MaxDeployments /\ t < j /\ deployments[t].passed
    BY <1>1, <1>8, <2>1 DEF RolloutInv, Deployment
  <2> HIDE DEF t
  <2>3. deployments'[t].passed
    BY <1>3, <2>2 DEF Progress
  <2>4. QED
    BY <2>1, <2>2, <2>3 DEF t
<1>9. QED
  BY <1>2, <1>4, <1>5, <1>6, <1>7, <1>8 DEF RolloutInv, Id

\* What a change of several deployments at once has to keep of each of them for
\* the targets wired into the history to stay good.
Kept(d, e) ==
  /\ RecordInv(e)
  /\ e.target = d.target
  /\ d.passed => e.passed

\* Changing the phases of verified deployments keeps the types, the records
\* and the wired targets.
LEMMA KeptInv ==
  ASSUME RolloutInv, UNCHANGED count,
         deployments' \in [1 .. MaxDeployments -> Deployment],
         \A j \in 1 .. MaxDeployments : Kept(deployments[j], deployments'[j])
  PROVE  /\ \A j \in 1 .. MaxDeployments : RecordInv(deployments'[j])
         /\ \A j \in Id' : deployments'[j].target # 0 =>
              /\ deployments'[j].target < j
              /\ deployments'[deployments'[j].target].passed
<1>1. Id' = Id /\ Id \subseteq 1 .. MaxDeployments
  BY RolloutAssumption DEF RolloutInv, RolloutTypeOK, Id
<1>2. ASSUME NEW j \in Id, deployments'[j].target # 0
      PROVE  /\ deployments'[j].target < j
             /\ deployments'[deployments'[j].target].passed
  <2> DEFINE t == deployments[j].target
  <2>1. deployments'[j].target = t
    BY <1>1 DEF Kept
  <2>2. t \in 1 .. MaxDeployments /\ t < j /\ deployments[t].passed
    BY <1>1, <1>2, <2>1 DEF RolloutInv, RolloutTypeOK, Deployment
  <2> HIDE DEF t
  <2>3. deployments'[t].passed
    BY <2>2 DEF Kept
  <2>4. QED
    BY <2>1, <2>2, <2>3
<1>3. QED
  BY <1>1, <1>2 DEF Kept

\* A verified deployment that enters another verified phase is kept.
LEMMA VerifiedKept ==
  ASSUME NEW d, RecordInv(d), d.phase \in Verified, NEW to \in Verified
  PROVE  Kept(d, Entered(d, to)) /\ Entered(d, to).phase = to
<1>1. d \in Deployment /\ to \in DeploymentPhase
  BY DEF RecordInv, Verified, DeploymentPhase
<1>2. QED
  BY <1>1, EnteredFields DEF RecordInv, Kept, Verified

\* Beginning a rollout keeps the invariant.
LEMMA BeginInv ==
  ASSUME RolloutInv, Begin
  PROVE  RolloutInv'
<1> DEFINE n == count + 1
<1>1. /\ count \in Nat /\ n \in 1 .. MaxDeployments /\ MaxDeployments \in Nat
      /\ deployments \in [1 .. MaxDeployments -> Deployment]
      /\ rollback_target \in 0 .. count
  BY RolloutAssumption, TargetGated DEF RolloutInv, RolloutTypeOK, Begin
<1>2. /\ deployments' = [deployments EXCEPT ![n] = New(rollback_target)]
      /\ count' = n /\ current' = current /\ domains' = domains
  BY DEF Begin
<1>3. /\ New(rollback_target) \in Deployment
      /\ New(rollback_target).target = rollback_target
      /\ RecordInv(New(rollback_target))
  BY <1>1 DEF New, Deployment, DeploymentPhase, HealthStatus, RecordInv, Verified
<1>4. /\ deployments'[n] = New(rollback_target)
      /\ \A j \in 1 .. MaxDeployments : j # n => deployments'[j] = deployments[j]
      /\ deployments' \in [1 .. MaxDeployments -> Deployment]
  BY <1>1, <1>2, <1>3
<1> HIDE DEF n
<1>5. /\ current \in 0 .. count /\ domains \in [Domain -> 0 .. count]
  BY DEF RolloutInv, RolloutTypeOK
<1>6. n = count + 1
  BY DEF n
<1>7. RolloutTypeOK'
  BY <1>1, <1>2, <1>4, <1>5, <1>6 DEF RolloutTypeOK
<1>8. \A j \in 1 .. MaxDeployments : RecordInv(deployments'[j])
  BY <1>3, <1>4 DEF RolloutInv
<1>9. current # 0 => deployments'[current].phase \in {"healthy", "degraded"}
  BY <1>1, <1>4, <1>5, <1>6 DEF RolloutInv
<1>10. ASSUME NEW h \in Domain, domains[h] # 0
       PROVE  deployments'[domains[h]].phase \in {"healthy", "degraded", "superseded"}
  <2>1. domains[h] \in 1 .. MaxDeployments /\ domains[h] # n
    BY <1>1, <1>5, <1>6, <1>10
  <2>2. QED
    BY <1>4, <1>10, <2>1 DEF RolloutInv
<1>11. ASSUME NEW j \in 1 .. n, deployments'[j].target # 0
       PROVE  /\ deployments'[j].target < j
              /\ deployments'[deployments'[j].target].passed
  <2>1. CASE j = n
    <3>1. deployments'[j].target = rollback_target /\ rollback_target \in 1 .. count
      BY <1>1, <1>3, <1>4, <1>11, <2>1
    <3>2. deployments'[rollback_target].passed
      BY <1>1, <1>4, <1>6, <3>1, TargetGated
    <3>3. QED
      BY <1>1, <1>6, <2>1, <3>1, <3>2
  <2>2. CASE j # n
    <3> DEFINE t == deployments[j].target
    <3>1. j \in Id /\ j \in 1 .. MaxDeployments /\ deployments'[j].target = t
      BY <1>1, <1>4, <1>6, <2>2 DEF Id
    <3>2. t \in 1 .. MaxDeployments /\ t < j /\ deployments[t].passed
      BY <1>1, <1>11, <3>1 DEF RolloutInv, Deployment
    <3> HIDE DEF t
    <3>3. t # n
      BY <1>1, <1>6, <2>2, <3>1, <3>2
    <3>4. deployments'[t].passed
      BY <1>4, <3>2, <3>3
    <3>5. QED
      BY <3>1, <3>2, <3>4
  <2>3. QED
    BY <2>1, <2>2
<1>12. QED
  BY <1>2, <1>7, <1>8, <1>9, <1>10, <1>11 DEF RolloutInv, Id

\* Promotion keeps the invariant: the deployment it supersedes is verified, and
\* is no longer the current one.
LEMMA PromoteInv ==
  ASSUME RolloutInv, NEW i \in Id, Promote(i)
  PROVE  RolloutInv'
<1>1. /\ MaxDeployments \in Nat /\ count \in 0 .. MaxDeployments
      /\ i \in 1 .. MaxDeployments /\ i \in 0 .. count
      /\ deployments \in [1 .. MaxDeployments -> Deployment]
      /\ domains \in [Domain -> 0 .. count]
  BY RolloutAssumption DEF RolloutInv, RolloutTypeOK, Id
<1>2. /\ deployments[i].phase = "healthy"
      /\ count' = count /\ current' = i /\ domains' = domains
  BY DEF Promote
<1>3. ASSUME NEW j \in 1 .. MaxDeployments
      PROVE  /\ Kept(deployments[j], deployments'[j])
             /\ deployments'[j] \in Deployment
             /\ \/ deployments'[j].phase = deployments[j].phase
                \/ j # i /\ deployments'[j].phase = "superseded"
  <2>1. RecordInv(deployments[j])
    BY DEF RolloutInv
  <2>2. CASE j = current /\ j # i /\ deployments[j].phase = "healthy"
    <3>1. deployments'[j] = Entered(deployments[j], "superseded")
      BY <1>1, <2>2 DEF Promote
    <3>2. QED
      BY <2>1, <2>2, <3>1, VerifiedKept DEF Verified, Kept, RecordInv
  <2>3. CASE ~(j = current /\ j # i /\ deployments[j].phase = "healthy")
    <3>1. deployments'[j] = deployments[j]
      BY <1>1, <2>3 DEF Promote
    <3>2. QED
      BY <2>1, <3>1 DEF Kept, RecordInv
  <2>4. QED
    BY <2>2, <2>3
<1>4. deployments' \in [1 .. MaxDeployments -> Deployment]
  <2>1. deployments' = [j \in 1 .. MaxDeployments |-> deployments'[j]]
    BY <1>1 DEF Promote
  <2>2. QED
    BY <1>3, <2>1
<1>5. RolloutTypeOK'
  BY <1>1, <1>2, <1>4 DEF RolloutTypeOK
<1>6. deployments'[current'].phase \in {"healthy", "degraded"}
  BY <1>1, <1>2, <1>3
<1>7. ASSUME NEW h \in Domain, domains'[h] # 0
      PROVE  deployments'[domains'[h]].phase \in {"healthy", "degraded", "superseded"}
  <2>1. domains'[h] = domains[h] /\ domains[h] \in 1 .. MaxDeployments
    BY <1>1, <1>2, <1>7
  <2>2. deployments[domains[h]].phase \in {"healthy", "degraded", "superseded"}
    BY <1>7, <2>1 DEF RolloutInv
  <2>3. QED
    BY <1>3, <2>1, <2>2
<1>8. QED
  BY <1>2, <1>3, <1>4, <1>5, <1>6, <1>7, KeptInv DEF RolloutInv

\* Rollback keeps the invariant, whatever its source is and however old its
\* plan: the domains leave the only deployment that it rolls back.
LEMMA RollbackInv ==
  ASSUME RolloutInv, NEW from \in Id, NEW to \in Id, ExecuteRollback(from, to)
  PROVE  RolloutInv'
<1>1. /\ MaxDeployments \in Nat /\ count \in 0 .. MaxDeployments
      /\ to \in 1 .. MaxDeployments /\ to \in 0 .. count /\ from # to
      /\ deployments \in [1 .. MaxDeployments -> Deployment]
      /\ domains \in [Domain -> 0 .. count]
  BY RolloutAssumption DEF RolloutInv, RolloutTypeOK, Id, ExecuteRollback, plan_rollback
<1>2. /\ deployments[to].phase \in {"superseded", "rolled_back", "healthy"}
      /\ count' = count /\ current' = to
      /\ deployments' = Restored(from, to) /\ domains' = Repointed(from, to)
  BY DEF ExecuteRollback, Safe
<1>3. ASSUME NEW j \in 1 .. MaxDeployments
      PROVE  /\ Kept(deployments[j], deployments'[j])
             /\ deployments'[j] \in Deployment
             /\ j = to => deployments'[j].phase = "healthy"
             /\ j \notin {from, to} => deployments'[j] = deployments[j]
  <2>1. RecordInv(deployments[j])
    BY DEF RolloutInv
  <2>2. CASE j = from /\ deployments[j].phase \in {"healthy", "degraded"}
    <3>1. deployments'[j] = Entered(deployments[j], "rolled_back")
      BY <1>1, <1>2, <2>2 DEF Restored
    <3>2. QED
      BY <1>1, <2>1, <2>2, <3>1, VerifiedKept, SMTT(30) DEF Verified, Kept, RecordInv
  <2>3. CASE j = to /\ deployments[j].phase # "healthy"
    <3>1. deployments'[j] = Entered(deployments[j], "healthy")
      BY <1>1, <1>2, <2>3 DEF Restored
    <3>2. QED
      BY <1>1, <1>2, <2>1, <2>3, <3>1, VerifiedKept DEF Verified, Kept, RecordInv
  <2>4. CASE /\ ~(j = from /\ deployments[j].phase \in {"healthy", "degraded"})
             /\ ~(j = to /\ deployments[j].phase # "healthy")
    <3>1. deployments'[j] = deployments[j]
      BY <1>1, <1>2, <2>4 DEF Restored
    <3>2. QED
      BY <2>1, <2>4, <3>1 DEF Kept, RecordInv
  <2>5. QED
    BY <2>2, <2>3, <2>4
<1>4. deployments' \in [1 .. MaxDeployments -> Deployment]
  <2>1. deployments' = [j \in 1 .. MaxDeployments |-> deployments'[j]]
    BY <1>1, <1>2 DEF Restored
  <2>2. QED
    BY <1>3, <2>1
<1>5. RolloutTypeOK'
  BY <1>1, <1>2, <1>4 DEF RolloutTypeOK, Repointed
<1>6. deployments'[current'].phase \in {"healthy", "degraded"}
  BY <1>1, <1>2, <1>3
<1>7. ASSUME NEW h \in Domain, domains'[h] # 0
      PROVE  deployments'[domains'[h]].phase \in {"healthy", "degraded", "superseded"}
  <2>1. domains'[h] = IF domains[h] = from THEN to ELSE domains[h]
    BY <1>2 DEF Repointed
  <2>2. CASE domains'[h] = to
    BY <1>1, <1>3, <2>2
  <2>3. CASE domains'[h] # to
    <3>1. domains'[h] = domains[h] /\ domains[h] \notin {from, to}
      BY <2>1, <2>3
    <3>2. domains[h] \in 1 .. MaxDeployments
      BY <1>1, <1>7, <3>1
    <3>3. deployments[domains[h]].phase \in {"healthy", "degraded", "superseded"}
      BY <1>7, <3>1 DEF RolloutInv
    <3>4. QED
      BY <1>3, <3>1, <3>2, <3>3
  <2>4. QED
    BY <2>2, <2>3
<1>8. QED
  BY <1>2, <1>3, <1>4, <1>5, <1>6, <1>7, KeptInv DEF RolloutInv

\* Attaching a domain keeps the invariant.
LEMMA AttachInv ==
  ASSUME RolloutInv, NEW h \in Domain, NEW i \in Id, AttachDomain(h, i)
  PROVE  RolloutInv'
<1>1. /\ MaxDeployments \in Nat /\ count \in 0 .. MaxDeployments
      /\ i \in 0 .. count
      /\ domains \in [Domain -> 0 .. count]
  BY RolloutAssumption DEF RolloutInv, RolloutTypeOK, Id
<1>2. /\ deployments[i].phase = "healthy"
      /\ domains' = [domains EXCEPT ![h] = i]
      /\ UNCHANGED <<count, deployments, current>>
  BY DEF AttachDomain
<1>3. RolloutTypeOK'
  BY <1>1, <1>2 DEF RolloutInv, RolloutTypeOK
<1>4. \A g \in Domain : domains'[g] # 0 =>
        deployments'[domains'[g]].phase \in {"healthy", "degraded", "superseded"}
  BY <1>1, <1>2 DEF RolloutInv
<1>5. QED
  BY <1>2, <1>3, <1>4 DEF RolloutInv, Id

\* A mark by itself takes a verified deployment to a retired phase, or changes
\* nothing (mark_superseded, mark_rolled_back).
LEMMA Marked ==
  ASSUME NEW d, RecordInv(d), d.phase # "failed", NEW to \in {"superseded", "rolled_back"}
  PROVE  \/ move_to(d, to) = d
         \/ /\ d.phase \in {"healthy", "degraded", "superseded"}
            /\ Kept(d, move_to(d, to))
            /\ move_to(d, to).phase = to
            /\ d.phase = "superseded" => to = "rolled_back"
<1>1. CASE ~can_transition_to(d.phase, to)
  BY <1>1 DEF move_to
<1>2. CASE can_transition_to(d.phase, to)
  <2>1. d.phase \in DeploymentPhase
    BY DEF RecordInv, Deployment
  <2>2. /\ d.phase \in {"healthy", "degraded", "superseded"}
        /\ d.phase = "superseded" => to = "rolled_back"
    BY <1>2, <2>1, MovesAre
  <2>3. move_to(d, to) = Entered(d, to) /\ d.phase \in Verified /\ to \in Verified
    BY <1>2, <2>2 DEF move_to, Verified
  <2>4. QED
    BY <2>2, <2>3, VerifiedKept, Zenon
<1>3. QED
  BY <1>1, <1>2

\* A mark keeps the invariant when the deployment does not serve, and no domain
\* is on one that is marked rolled back.
LEMMA MarkInv ==
  ASSUME RolloutInv, NEW i \in Id, NEW to \in {"superseded", "rolled_back"},
         Update(i, move_to(deployments[i], to)),
         deployments[i].phase # "failed", current # i,
         to = "rolled_back" => \A h \in Domain : domains[h] # i
  PROVE  RolloutInv'
<1> DEFINE d == deployments[i]
           e == move_to(d, to)
<1>1. /\ MaxDeployments \in Nat /\ count \in 0 .. MaxDeployments
      /\ i \in 1 .. MaxDeployments
      /\ deployments \in [1 .. MaxDeployments -> Deployment]
      /\ current \in 0 .. count
      /\ domains \in [Domain -> 0 .. count]
  BY RolloutAssumption DEF RolloutInv, RolloutTypeOK, Id
<1>2. /\ deployments' = [deployments EXCEPT ![i] = e]
      /\ count' = count /\ current' = current /\ domains' = domains
  BY DEF Update
<1>3. RecordInv(d) /\ d \in Deployment
  BY <1>1 DEF RolloutInv
<1> HIDE DEF e
<1>4. CASE e = d
  <2>1. deployments' = deployments
    BY <1>1, <1>2, <1>4
  <2>2. QED
    BY <1>2, <2>1 DEF RolloutInv, RolloutTypeOK, Id
<1>5. CASE Kept(d, e) /\ e.phase = to
  <2>1. /\ deployments'[i] = e
        /\ \A j \in 1 .. MaxDeployments : j # i => deployments'[j] = deployments[j]
    BY <1>1, <1>2
  <2>2. deployments' \in [1 .. MaxDeployments -> Deployment]
    BY <1>1, <1>2, <1>5 DEF Kept, RecordInv
  <2>3. ASSUME NEW j \in 1 .. MaxDeployments
        PROVE  Kept(deployments[j], deployments'[j])
    <3>1. CASE j = i
      BY <1>5, <2>1, <3>1
    <3>2. CASE j # i
      BY <2>1, <3>2 DEF RolloutInv, Kept
    <3>3. QED
      BY <3>1, <3>2
  <2>4. RolloutTypeOK'
    BY <1>1, <1>2, <2>2 DEF RolloutTypeOK
  <2>5. current' # 0 => deployments'[current'].phase \in {"healthy", "degraded"}
    BY <1>1, <1>2, <2>1 DEF RolloutInv
  <2>6. ASSUME NEW h \in Domain, domains'[h] # 0
        PROVE  deployments'[domains'[h]].phase \in {"healthy", "degraded", "superseded"}
    <3>1. domains'[h] = domains[h] /\ domains[h] \in 1 .. MaxDeployments
      BY <1>1, <1>2, <2>6
    <3>2. CASE domains[h] = i
      BY <1>5, <2>1, <3>1, <3>2
    <3>3. CASE domains[h] # i
      BY <2>1, <2>6, <3>1, <3>3 DEF RolloutInv
    <3>4. QED
      BY <3>2, <3>3
  <2>7. QED
    BY <1>2, <2>2, <2>3, <2>4, <2>5, <2>6, KeptInv DEF RolloutInv
<1>6. QED
  BY <1>3, <1>4, <1>5, Marked DEF e

\* The marks that Next has keep the invariant.
LEMMA MarksInv ==
  ASSUME RolloutInv, NEW i \in Id,
         \/ NewerServes(i) /\ mark_superseded(i)
         \/ TrafficMovedAway(i) /\ mark_rolled_back(i)
  PROVE  RolloutInv'
<1>1. CASE NewerServes(i) /\ mark_superseded(i)
  <2>1. i \in Int /\ current \in Int /\ i < current /\ current # i
    BY <1>1 DEF RolloutInv, RolloutTypeOK, Id, NewerServes
  <2>2. Update(i, move_to(deployments[i], "superseded"))
    BY <1>1 DEF mark_superseded
  <2>3. CASE deployments[i].phase = "failed"
    <3>1. move_to(deployments[i], "superseded") = deployments[i]
      BY <2>3, MovesAre DEF move_to, DeploymentPhase
    <3>2. deployments' = deployments /\ UNCHANGED <<count, current, domains>>
      BY <2>2, <3>1, RolloutAssumption DEF Update, RolloutInv, RolloutTypeOK, Id
    <3>3. QED
      BY <3>2 DEF RolloutInv, RolloutTypeOK, Id
  <2>4. CASE deployments[i].phase # "failed"
    BY <2>1, <2>2, <2>4, MarkInv
  <2>5. QED
    BY <2>3, <2>4
<1>2. CASE TrafficMovedAway(i) /\ mark_rolled_back(i)
  BY <1>2, MarkInv DEF TrafficMovedAway, mark_rolled_back
<1>3. QED
  BY <1>1, <1>2

\* Every step keeps the invariant.
LEMMA NextInv == RolloutInv /\ [Next]_vars => RolloutInv'
<1> SUFFICES ASSUME RolloutInv, [Next]_vars
             PROVE  RolloutInv'
  OBVIOUS
<1>1. ASSUME NEW i \in Id
      PROVE  RecordInv(deployments[i])
  BY RolloutAssumption DEF RolloutInv, RolloutTypeOK, Id
<1>2. CASE Begin
  BY <1>2, BeginInv
<1>3. ASSUME NEW i \in Id, StartBuild(i)
      PROVE  RolloutInv'
  BY <1>1, <1>3, BuildStarts, UpdateInv DEF StartBuild
<1>4. ASSUME NEW i \in Id, NEW outcome \in {"image", "failed", "no_image"},
             RecordBuild(i, outcome)
      PROVE  RolloutInv'
  BY <1>1, <1>4, BuildRecorded, UpdateInv DEF RecordBuild
<1>5. ASSUME NEW i \in Id, NEW health \in HealthStatus, RecordHealth(i, health)
      PROVE  RolloutInv'
  BY <1>1, <1>5, HealthRecorded, UpdateInv DEF RecordHealth
<1>6. ASSUME NEW i \in Id, Promote(i)
      PROVE  RolloutInv'
  BY <1>6, PromoteInv
<1>7. ASSUME NEW i \in Id, NEW j \in Id, ExecuteRollback(i, j)
      PROVE  RolloutInv'
  BY <1>7, RollbackInv
<1>8. ASSUME NEW i \in Id, NEW h \in Domain, AttachDomain(h, i)
      PROVE  RolloutInv'
  BY <1>8, AttachInv
<1>9. ASSUME NEW i \in Id,
             \/ NewerServes(i) /\ mark_superseded(i)
             \/ TrafficMovedAway(i) /\ mark_rolled_back(i)
      PROVE  RolloutInv'
  BY <1>9, MarksInv
<1>10. CASE UNCHANGED vars
  BY <1>10 DEF vars, RolloutInv, RolloutTypeOK, Id
<1>11. QED
  BY <1>2, <1>3, <1>4, <1>5, <1>6, <1>7, <1>8, <1>9, <1>10 DEF Next

\* The inductive invariant holds throughout.
THEOREM RolloutInvariant == Spec => []RolloutInv
BY InitInv, NextInv, PTL DEF Spec

-----------------------------------------------------------------------------
\* Whatever serves, or has served, came through the health gate with an image:
\* no order of builds, probes, promotions and rollbacks goes around it.
THEOREM TrafficIsGated == Spec => []OnlyGatedServe
<1>1. RolloutInv => OnlyGatedServe
  <2> SUFFICES ASSUME RolloutInv
               PROVE  OnlyGatedServe
    OBVIOUS
  <2>1. \A i \in 1 .. MaxDeployments :
          deployments[i].phase \in Verified => Gated(deployments[i])
    BY DEF RolloutInv, RecordInv, Gated
  <2>2. \A i \in 0 .. count : i # 0 => i \in 1 .. MaxDeployments
    BY RolloutAssumption DEF RolloutInv, RolloutTypeOK
  <2>3. current # 0 => Gated(deployments[current])
    BY <2>1, <2>2 DEF RolloutInv, RolloutTypeOK, Verified
  <2>4. \A h \in Domain : domains[h] # 0 => Gated(deployments[domains[h]])
    BY <2>1, <2>2 DEF RolloutInv, RolloutTypeOK, Verified
  <2>5. \A i \in Id : Safe(i) \/ deployments[i].phase = "degraded" => Gated(deployments[i])
    BY <2>1, <2>2 DEF Id, Safe, Verified, RolloutInv, RolloutTypeOK
  <2>6. QED
    BY <2>3, <2>4, <2>5 DEF OnlyGatedServe
<1>2. QED
  BY <1>1, RolloutInvariant, PTL

\* The serving deployment is never one that was retired.
THEOREM CurrentStaysUp == Spec => []CurrentIsUp
<1>1. RolloutInv => CurrentIsUp
  BY DEF RolloutInv, CurrentIsUp
<1>2. QED
  BY <1>1, RolloutInvariant, PTL

\* No domain is left behind by a rollback, and none is on a failed deployment.
THEOREM DomainsFollow == Spec => []DomainsFollowRollback
<1>1. RolloutInv => DomainsFollowRollback
  BY DEF RolloutInv, DomainsFollowRollback
<1>2. QED
  BY <1>1, RolloutInvariant, PTL

\* A wired rollback target stays one that came through the gate.
THEOREM TargetsGated == Spec => []TargetsStayGated
<1>1. RolloutInv => TargetsStayGated
  <2> SUFFICES ASSUME RolloutInv, NEW i \in Id, deployments[i].target # 0
               PROVE  /\ deployments[i].target < i
                      /\ Gated(deployments[deployments[i].target])
    BY DEF TargetsStayGated
  <2>1. i \in 1 .. MaxDeployments /\ deployments[i].target \in 1 .. MaxDeployments
    BY RolloutAssumption DEF RolloutInv, RolloutTypeOK, Id, Deployment
  <2>2. QED
    BY <2>1 DEF RolloutInv, RecordInv, Gated, Verified
<1>2. QED
  BY <1>1, RolloutInvariant, PTL

-----------------------------------------------------------------------------
Retired(k) ==
  /\ deployments[k].phase = "failed" => deployments'[k].phase = "failed"
  /\ /\ deployments[k].phase \in {"superseded", "rolled_back"}
     /\ deployments'[k].phase # deployments[k].phase
     => \/ deployments'[k].phase = "healthy" /\ current' = k
        \/ deployments[k].phase = "superseded" /\ deployments'[k].phase = "rolled_back"

\* Builds and probes leave every retired deployment alone.
LEMMA UpdateRetired ==
  ASSUME RolloutInv, NEW k \in Id, NEW i \in Id, NEW d,
         Progress(deployments[i], d), Update(i, d)
  PROVE  Retired(k)
<1>1. /\ k \in DOMAIN deployments /\ i \in DOMAIN deployments
      /\ deployments' = [deployments EXCEPT ![i] = d]
  BY RolloutAssumption DEF RolloutInv, RolloutTypeOK, Id, Update
<1>2. CASE k = i
  BY <1>1, <1>2 DEF Progress, Retired
<1>3. CASE k # i
  BY <1>1, <1>3 DEF Retired
<1>4. QED
  BY <1>2, <1>3

\* A mark moves no retired deployment but a superseded one.
LEMMA MarkRetired ==
  ASSUME RolloutInv, NEW k \in Id, NEW i \in Id, NEW to \in {"superseded", "rolled_back"},
         to = "rolled_back" => deployments[i].phase # "failed",
         Update(i, move_to(deployments[i], to))
  PROVE  Retired(k)
<1>1. /\ k \in DOMAIN deployments /\ i \in 1 .. MaxDeployments /\ i \in DOMAIN deployments
      /\ deployments' = [deployments EXCEPT ![i] = move_to(deployments[i], to)]
  BY RolloutAssumption DEF RolloutInv, RolloutTypeOK, Id, Update
<1>2. CASE k # i
  BY <1>1, <1>2 DEF Retired
<1>3. CASE k = i
  <2> DEFINE d == deployments[i]
  <2>1. RecordInv(d)
    BY <1>1 DEF RolloutInv
  <2>2. deployments[k] = d /\ deployments'[k] = move_to(d, to)
    BY <1>1, <1>3
  <2>3. CASE d.phase = "failed"
    <3>1. move_to(d, to) = d
      BY <2>3, MovesAre DEF move_to, DeploymentPhase
    <3> HIDE DEF d
    <3>2. QED
      BY <2>2, <3>1 DEF Retired
  <2>4. CASE d.phase # "failed"
    <3>1. \/ move_to(d, to) = d
          \/ move_to(d, to).phase = to /\ (d.phase = "superseded" => to = "rolled_back")
             /\ d.phase \in {"healthy", "degraded", "superseded"}
      BY <2>1, <2>4, Marked
    <3> HIDE DEF d
    <3>2. QED
      BY <2>2, <2>4, <3>1 DEF Retired
  <2>5. QED
    BY <2>3, <2>4
<1>4. QED
  BY <1>2, <1>3

\* No step moves a retired deployment, except a rollback to it and a mark.
LEMMA NextRetired ==
  ASSUME RolloutInv, [Next]_vars, NEW k \in Id
  PROVE  Retired(k)
<1>1. /\ k \in 1 .. MaxDeployments /\ k \in 1 .. count /\ count \in Nat
      /\ deployments \in [1 .. MaxDeployments -> Deployment]
  BY RolloutAssumption DEF RolloutInv, RolloutTypeOK, Id
<1>2. ASSUME NEW i \in Id
      PROVE  RecordInv(deployments[i])
  BY RolloutAssumption DEF RolloutInv, RolloutTypeOK, Id
<1>3. CASE Begin
  BY <1>1, <1>3 DEF Begin, Retired
<1>4. ASSUME NEW i \in Id, StartBuild(i)
      PROVE  Retired(k)
  BY <1>2, <1>4, BuildStarts, UpdateRetired DEF StartBuild
<1>5. ASSUME NEW i \in Id, NEW outcome \in {"image", "failed", "no_image"},
             RecordBuild(i, outcome)
      PROVE  Retired(k)
  BY <1>2, <1>5, BuildRecorded, UpdateRetired DEF RecordBuild
<1>6. ASSUME NEW i \in Id, NEW health \in HealthStatus, RecordHealth(i, health)
      PROVE  Retired(k)
  BY <1>2, <1>6, HealthRecorded, UpdateRetired DEF RecordHealth
<1>7. ASSUME NEW i \in Id, Promote(i)
      PROVE  Retired(k)
  <2>1. CASE k = current /\ k # i /\ deployments[k].phase = "healthy"
    BY <2>1 DEF Retired
  <2>2. CASE ~(k = current /\ k # i /\ deployments[k].phase = "healthy")
    <3>1. deployments'[k] = deployments[k]
      BY <1>1, <1>7, <2>2 DEF Promote
    <3>2. QED
      BY <3>1 DEF Retired
  <2>3. QED
    BY <2>1, <2>2
<1>8. ASSUME NEW i \in Id, NEW j \in Id, ExecuteRollback(i, j)
      PROVE  Retired(k)
  <2>1. CASE k = i /\ deployments[k].phase \in {"healthy", "degraded"}
    BY <2>1 DEF Retired
  <2>2. CASE k = j /\ deployments[k].phase # "healthy"
    <3>1. /\ i # j /\ current' = k /\ deployments[k].phase # "failed"
          /\ deployments' = Restored(i, j)
      BY <1>8, <2>2 DEF ExecuteRollback, Safe, plan_rollback
    <3>2. deployments'[k] = Entered(deployments[k], "healthy")
      BY <1>1, <2>2, <3>1 DEF Restored
    <3>3. "healthy" \in DeploymentPhase
      BY DEF DeploymentPhase
    <3>4. QED
      BY <1>1, <3>1, <3>2, <3>3, EnteredFields DEF Retired
  <2>3. CASE /\ ~(k = i /\ deployments[k].phase \in {"healthy", "degraded"})
             /\ ~(k = j /\ deployments[k].phase # "healthy")
    <3>1. deployments'[k] = deployments[k]
      BY <1>1, <1>8, <2>3 DEF ExecuteRollback, Restored
    <3>2. QED
      BY <3>1 DEF Retired
  <2>4. QED
    BY <2>1, <2>2, <2>3
<1>9. ASSUME NEW i \in Id, NEW h \in Domain, AttachDomain(h, i)
      PROVE  Retired(k)
  BY <1>9 DEF AttachDomain, Retired
<1>10. ASSUME NEW i \in Id, NewerServes(i) /\ mark_superseded(i)
       PROVE  Retired(k)
  BY <1>10, MarkRetired DEF mark_superseded
<1>11. ASSUME NEW i \in Id, TrafficMovedAway(i) /\ mark_rolled_back(i)
       PROVE  Retired(k)
  BY <1>11, MarkRetired DEF mark_rolled_back, TrafficMovedAway
<1>12. CASE UNCHANGED vars
  BY <1>12 DEF vars, Retired
<1>13. QED
  BY <1>3, <1>4, <1>5, <1>6, <1>7, <1>8, <1>9, <1>10, <1>11, <1>12 DEF Next

\* A deployment fails before it has ever been healthy, and then stays failed.
THEOREM FailedStays == Spec => FailedIsEarlyAndFinal
<1>1. RolloutInv /\ [Next]_vars =>
        [\A i \in Id :
           /\ deployments'[i].phase = "failed" => ~deployments'[i].passed
           /\ deployments[i].phase = "failed" => deployments'[i].phase = "failed"]_vars
  <2> SUFFICES ASSUME RolloutInv, [Next]_vars, NEW i \in Id
               PROVE  /\ deployments'[i].phase = "failed" => ~deployments'[i].passed
                      /\ deployments[i].phase = "failed" => deployments'[i].phase = "failed"
    OBVIOUS
  <2>1. i \in 1 .. MaxDeployments
    BY RolloutAssumption DEF RolloutInv, RolloutTypeOK, Id
  <2>2. RecordInv(deployments'[i])
    BY <2>1, NextInv DEF RolloutInv
  <2>3. QED
    BY <2>2, NextRetired DEF RecordInv, Verified, Retired
<1>2. QED
  BY <1>1, RolloutInvariant, PTL DEF Spec, FailedIsEarlyAndFinal

\* A superseded or rolled-back deployment returns only by serving again: late
\* builds, probes and marks never take it out of retirement.
THEOREM RevivedServes == Spec => RevivedOnlyToServe
<1>1. RolloutInv /\ [Next]_vars =>
        [\A i \in Id :
           /\ deployments[i].phase \in {"superseded", "rolled_back"}
           /\ deployments'[i].phase # deployments[i].phase
           => \/ deployments'[i].phase = "healthy" /\ current' = i
              \/ deployments[i].phase = "superseded" /\ deployments'[i].phase = "rolled_back"]_vars
  BY NextRetired DEF Retired
<1>2. QED
  BY <1>1, RolloutInvariant, PTL DEF Spec, RevivedOnlyToServe
=============================================================================
