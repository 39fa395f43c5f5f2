---------------------------- MODULE Convergence ----------------------------
(***************************************************************************)
(* The controllers of labrys-core, each with one target, over the          *)
(* in-memory job queue: passes that compare what is desired with what was  *)
(* observed and enqueue work, workers that claim it, and the world that    *)
(* the work changes and the platform observes.                             *)
(*                                                                         *)
(* Time is left out: a backoff passes eventually, and any job that is due  *)
(* may be the earliest.  A job that succeeded is dropped, since nothing    *)
(* looks at it again.                                                      *)
(***************************************************************************)
EXTENDS Naturals, FiniteSets

CONSTANTS
  Kind,         \* the controllers
  MaxAttempts,  \* RetryPolicy.max_attempts
  Generations,  \* what convergence_version multiplies a version by
  MaxUpsets,    \* bound: changes of mind and of the world
  MaxFailures   \* bound: attempts that fail

ASSUME BudgetAssumption == MaxAttempts \in Nat \ {0}

VARIABLES
  kind,      \* the controller at work; nothing changes it
  target,    \* the controller's record
  world,     \* what there really is: [there, good, version]
  jobs,      \* JobQueue: a set of jobs
  upsets,    \* bound counter
  failures   \* bound counter

vars == <<kind, target, world, jobs, upsets, failures>>

-----------------------------------------------------------------------------
(* Resource lifecycle. *)

can_transition_to(phase) ==
  CASE phase = "requested"    -> {"provisioning", "failed", "deleting"}
    [] phase = "provisioning" -> {"ready", "degraded", "failed", "deleting"}
    [] phase = "ready"        -> {"degraded", "failed", "provisioning", "deleting"}
    [] phase = "degraded"     -> {"ready", "failed", "deleting"}
    [] phase = "failed"       -> {"requested", "provisioning", "deleting"}
    [] phase = "deleting"     -> {"deleted"}
    [] phase = "deleted"      -> {}

\* A key is a version and how often it failed, in one number.
convergence_version(r) == r.version * Generations + r.generation

-----------------------------------------------------------------------------
(* Controllers: their records, their drift, and the work they ask for. *)

Fresh(k) ==
  CASE k = "application" -> [desired |-> 1, observed |-> 0, healthy |-> FALSE]
    [] k = "resource"    -> [desired_present |-> TRUE, observed_present |-> "never",
                             phase |-> "requested", version |-> 1,
                             generation |-> 0, failure |-> FALSE]
    [] k = "capability"  -> [desired_ready |-> TRUE, phase |-> "provisioning",
                             agent_claims_ignored |-> 0]
    [] k = "preview"     -> [desired_live |-> TRUE, live |-> FALSE, healthy |-> FALSE]
    [] k = "deployment"  -> [desired |-> 1, observed |-> 0, ready |-> FALSE]

ApplicationDrift(a) ==
  (IF a.observed # a.desired THEN {"stale"} ELSE {})
    \cup (IF ~a.healthy THEN {"unhealthy"} ELSE {})

Missing(r) == r.desired_present /\ r.observed_present # "present"

ResourceDrift(r) ==
  (IF Missing(r) THEN {"missing"} ELSE {})
    \cup (IF r.failure THEN {"terminated"} ELSE {})
    \cup (IF r.desired_present /\ ~Missing(r) /\ r.phase # "ready"
          THEN {"unhealthy"} ELSE {})
    \cup (IF ~r.desired_present /\ r.phase # "deleted" THEN {"stale"} ELSE {})

CapabilityDrift(c) == IF c.desired_ready /\ c.phase # "ready" THEN {"unhealthy"} ELSE {}

PreviewDrift(p) ==
  IF ~p.desired_live THEN {}
  ELSE IF ~p.live THEN {"missing"} ELSE IF ~p.healthy THEN {"unhealthy"} ELSE {}

\* A rollout that is observed but not ready is no drift.
DeploymentDrift(d) == IF d.observed # d.desired THEN {"stale"} ELSE {}

drift(t) ==
  CASE kind = "application" -> ApplicationDrift(t)
    [] kind = "resource"    -> ResourceDrift(t)
    [] kind = "capability"  -> CapabilityDrift(t)
    [] kind = "preview"     -> PreviewDrift(t)
    [] kind = "deployment"  -> DeploymentDrift(t)

Key(action, version) == [action |-> action, version |-> version]

\* The keys of the jobs a pass asks for.  A resource that is there and not
\* well drifts, but asks for nothing.
actions(t) ==
  CASE kind = "application" -> IF drift(t) # {} THEN {Key("update", t.desired)} ELSE {}
    [] kind = "resource"    ->
         IF Missing(t) THEN {Key("provision", convergence_version(t))}
         ELSE IF "stale" \in drift(t) THEN {Key("delete", convergence_version(t))}
         ELSE {}
    [] kind = "capability"  -> IF drift(t) # {} THEN {Key("provision", 1)} ELSE {}
    [] kind = "preview"     ->
         IF "missing" \in drift(t) THEN {Key("provision", 1)}
         ELSE IF "unhealthy" \in drift(t) THEN {Key("verify", 1)} ELSE {}
    [] kind = "deployment"  -> IF drift(t) # {} THEN {Key("rollout", 1)} ELSE {}

-----------------------------------------------------------------------------
(* The queue. *)

\* Mutation of is_in_flight: a dead letter keeps its key.
is_held(j) == TRUE

is_in_flight(j) == j.status \in {"queued", "paused", "running"}

FreeId == CHOOSE i \in 1 .. Cardinality(jobs) + 1 : \A j \in jobs : j.id # i

Queued(key) ==
  [id |-> FreeId, key |-> key, status |-> "queued", attempts |-> 0]

\* Unless a job with the key is in flight.
enqueue(key) ==
  IF \E j \in jobs : j.key = key /\ is_in_flight(j)
  THEN jobs ELSE jobs \cup {Queued(key)}

With(j, status, attempts) ==
  (jobs \ {j}) \cup {[j EXCEPT !.status = status, !.attempts = attempts]}

-----------------------------------------------------------------------------
Init ==
  /\ kind \in Kind
  /\ target = Fresh(kind)
  /\ world = [there |-> FALSE, good |-> FALSE, version |-> 0]
  /\ jobs = {}
  /\ upsets = 0
  /\ failures = 0

reconcile ==
  /\ \E key \in actions(target) : jobs' = enqueue(key)
  /\ UNCHANGED <<kind, target, world, upsets, failures>>

claim_next ==
  /\ \E j \in jobs : /\ j.status = "queued"
                     /\ jobs' = With(j, "running", j.attempts + 1)
  /\ UNCHANGED <<kind, target, world, upsets, failures>>

\* What a worker does to the world; verifying changes nothing of it.
Worked(action) ==
  CASE action = "delete" -> [world EXCEPT !.there = FALSE, !.good = FALSE]
    [] action = "verify" -> world
    [] OTHER -> [there |-> TRUE, good |-> TRUE,
                 version |-> IF action \in {"update", "rollout"}
                             THEN target.desired ELSE world.version]

complete ==
  /\ \E j \in jobs : /\ j.status = "running"
                     /\ jobs' = jobs \ {j}
                     /\ world' = Worked(j.key.action)
  /\ UNCHANGED <<kind, target, upsets, failures>>

fail ==
  /\ failures < MaxFailures
  /\ failures' = failures + 1
  /\ \E j \in jobs :
       /\ j.status = "running"
       /\ jobs' = With(j, IF j.attempts >= MaxAttempts THEN "dead" ELSE "queued",
                       j.attempts)
  /\ UNCHANGED <<kind, target, world, upsets>>

pause ==
  /\ upsets < MaxUpsets
  /\ upsets' = upsets + 1
  /\ \E j \in jobs : j.status = "queued" /\ jobs' = With(j, "paused", j.attempts)
  /\ UNCHANGED <<kind, target, world, failures>>

resume ==
  /\ \E j \in jobs : j.status = "paused" /\ jobs' = With(j, "queued", j.attempts)
  /\ UNCHANGED <<kind, target, world, upsets, failures>>

requeue ==
  /\ \E j \in jobs : j.status = "dead" /\ jobs' = With(j, "queued", 0)
  /\ UNCHANGED <<kind, target, world, upsets, failures>>

-----------------------------------------------------------------------------
(* Observations. *)

Phases(present) ==
  IF present THEN {"provisioning", "ready", "degraded", "failed"}
  ELSE {"deleting", "deleted"}

\* Presence is recorded even when the phase that comes with it is refused.
Observed ==
  CASE kind = "application" ->
         {[target EXCEPT !.observed = world.version, !.healthy = world.good]}
    [] kind = "resource" ->
         LET seen == [target EXCEPT !.observed_present =
                        IF world.there THEN "present" ELSE "absent"]
         IN {seen} \cup
            {[seen EXCEPT !.phase = p] :
               p \in can_transition_to(target.phase) \cap Phases(world.there)}
    [] kind = "capability" ->
         {[target EXCEPT !.phase = IF ~world.there THEN "provisioning"
                                   ELSE IF world.good THEN "ready" ELSE "degraded"]}
    [] kind = "preview" ->
         {[target EXCEPT !.live = world.there, !.healthy = world.good]}
    [] kind = "deployment" ->
         {[target EXCEPT !.observed = world.version, !.ready = world.good]}

observe ==
  /\ target' \in Observed
  /\ UNCHANGED <<kind, world, jobs, upsets, failures>>

\* A terminal failure of the provider opens a new generation.
resource_fail ==
  /\ kind = "resource"
  /\ failures < MaxFailures
  /\ failures' = failures + 1
  /\ "failed" \in can_transition_to(target.phase)
  /\ target' = [target EXCEPT !.phase = "failed", !.generation = @ + 1, !.failure = TRUE]
  /\ UNCHANGED <<kind, world, jobs, upsets>>

begin_delete ==
  /\ kind = "resource" /\ ~target.desired_present
  /\ "deleting" \in can_transition_to(target.phase)
  /\ target' = [target EXCEPT !.phase = "deleting"]
  /\ UNCHANGED <<kind, world, jobs, upsets, failures>>

mark_deleted ==
  /\ kind = "resource" /\ ~world.there
  /\ "deleted" \in can_transition_to(target.phase)
  /\ target' = [target EXCEPT !.phase = "deleted", !.failure = FALSE]
  /\ UNCHANGED <<kind, world, jobs, upsets, failures>>

\* An agent's claim is counted and moves nothing.
accept_agent_completion ==
  /\ kind = "capability" /\ upsets < MaxUpsets
  /\ upsets' = upsets + 1
  /\ target' = [target EXCEPT !.agent_claims_ignored = @ + 1]
  /\ UNCHANGED <<kind, world, jobs, failures>>

(* What the controllers are there for: the world changes, or the mind. *)

WorldBreaks ==
  /\ upsets < MaxUpsets
  /\ upsets' = upsets + 1
  /\ world.there
  /\ world' \in {[world EXCEPT !.good = FALSE],
                 [world EXCEPT !.there = FALSE, !.good = FALSE, !.version = 0]}
  /\ UNCHANGED <<kind, target, jobs, failures>>

DesiredChanges ==
  /\ upsets < MaxUpsets
  /\ upsets' = upsets + 1
  /\ \/ kind \in {"application", "deployment"}
        /\ target' = [target EXCEPT !.desired = @ + 1]
     \/ kind = "resource" /\ target.desired_present
        /\ target' = [target EXCEPT !.desired_present = FALSE]
     \/ kind = "capability" /\ target.desired_ready
        /\ target' = [target EXCEPT !.desired_ready = FALSE]
     \/ kind = "preview" /\ target.desired_live
        /\ target' = [target EXCEPT !.desired_live = FALSE]
  /\ UNCHANGED <<kind, world, jobs, failures>>

Next ==
  \/ reconcile \/ claim_next \/ complete \/ fail
  \/ pause \/ resume \/ requeue
  \/ observe \/ resource_fail \/ begin_delete \/ mark_deleted
  \/ accept_agent_completion
  \/ WorldBreaks \/ DesiredChanges

\* Passes are repeated, workers take what is due and finish it, pauses end,
\* and the platform keeps observing and reporting teardown.
Fairness ==
  /\ WF_vars(reconcile) /\ WF_vars(claim_next) /\ WF_vars(complete)
  /\ WF_vars(resume) /\ WF_vars(observe)
  /\ WF_vars(begin_delete) /\ WF_vars(mark_deleted)

Spec == Init /\ [][Next]_vars /\ Fairness

-----------------------------------------------------------------------------
Goal ==
  CASE kind = "application" -> target.observed = target.desired
    [] kind = "resource"    -> IF target.desired_present
                               THEN target.observed_present = "present"
                               ELSE target.phase = "deleted"
    [] kind = "capability"  -> target.desired_ready => target.phase = "ready"
    [] kind = "preview"     -> target.desired_live => target.live
    [] kind = "deployment"  -> target.observed = target.desired

(***************************************************************************)
(* Controllers keep converging: once the world and the mind stop changing  *)
(* and attempts stop failing, what is desired is there and stays there,    *)
(* whatever was dead-lettered, paused or failed on the way.                *)
(***************************************************************************)
Converges == <>[]Goal
=============================================================================
