-------------------------- MODULE ReconcileWorker ---------------------------
(***************************************************************************)
(* The reconciliation worker: Worker::run over the job queue, the provider *)
(* dispatch of a claimed job, and the resource rows both of them write.    *)
(*                                                                         *)
(* A pass is recover, claim, dispatch, observe, settle.  Every await is a  *)
(* step of its own, so workers interleave, leases run out and workers die  *)
(* between any two of them.  tick_once reads the clock once for recovery   *)
(* and claiming; finalize reads it once, before the dispatch, and answers  *)
(* with that reading however long the provider took.                       *)
(*                                                                         *)
(* An error that reaches run() ends the worker for good: the daemon awaits *)
(* its workers at shutdown only and starts no replacement.                 *)
(***************************************************************************)
EXTENDS JobQueue, Resources

CONSTANTS
  Destructive,  \* keys of Delete and Update jobs, which need an approval
  MaxInterruptions  \* bound: crashes, database errors and stop requests

\* A worker uses a clock reading however old it has become.
ASSUME WorkerAssumption == MaxLag >= MaxTime

VARIABLES
  pc,           \* where each worker is in its pass
  seen,         \* the clock reading of the current tick_once or finalize
  outcome,      \* what the provider call of the pass came to, "none" before it
  copy,         \* the resource row being observed, "request" when none is
  stopping,     \* workers told to stop
  resources,    \* the resources table: target -> row
  operations,   \* the provider_operations table: phase recorded per key
  interruptions

workerVars == <<pc, seen, outcome, copy, stopping>>
vars == <<queueVars, workerVars, resources, operations, interruptions>>

Target == {TargetOf[k] : k \in Key}

\* ProviderExecution, as DispatchOutcome carries it on.
Outcome == {"accepted", "ready", "degraded", "failed"}

target_phase ==
  [accepted |-> "provisioning", ready |-> "ready", degraded |-> "degraded",
   failed |-> "failed"]

\* The pass has a claimed job in hand.
Busy == {"execute", "read", "write", "get", "put", "settle"}
\* run() returned, with Ok or with Err, or the process died.
Ended == {"stopped", "failed", "crashed"}

ClaimOf(w) == CHOOSE c \in claims : c.worker = w
ResourceOf(w) == TargetOf[ClaimOf(w).key]

\* The locals of a pass go out of scope with it.
EndPass(w) ==
  /\ seen' = [seen EXCEPT ![w] = 0]
  /\ outcome' = [outcome EXCEPT ![w] = "none"]
  /\ copy' = [copy EXCEPT ![w] = request]

Goto(w, label) == pc' = [pc EXCEPT ![w] = label]

\* Mutation of Drop: a worker that ends puts its job back in the queue.
DropAndRelease(w) ==
  IF Idle(w) THEN UNCHANGED queueVars
  ELSE LET c == ClaimOf(w) IN
         /\ jobs' = [jobs EXCEPT ![c.key].status = "queued"]
         /\ claims' = claims \ {c}
         /\ UNCHANGED now

\* The claim in memory is lost with the worker that held it.
Drop(w) ==
  IF Idle(w) THEN UNCHANGED queueVars ELSE Abandon(ClaimOf(w))

Interrupt == interruptions < MaxInterruptions /\ interruptions' = interruptions + 1

-----------------------------------------------------------------------------
WorkerInit ==
  /\ Init
  /\ pc = [w \in Worker |-> "tick"]
  /\ seen = [w \in Worker |-> 0]
  /\ outcome = [w \in Worker |-> "none"]
  /\ copy = [w \in Worker |-> request]
  /\ stopping = {}
  \* A target that is no resource id, or names no row, has no resource.
  /\ \E rows \in SUBSET Target : resources = [r \in rows |-> request]
  /\ operations = [k \in Key |-> "none"]
  /\ interruptions = 0

Request ==
  /\ \E k \in Key : Enqueue(k, now)
  /\ UNCHANGED <<workerVars, resources, operations, interruptions>>

\* run() leaves its loop when it has been told to stop; a pass under way is
\* finished first, so the drain finds nothing in flight.
Stopped(w) ==
  /\ pc[w] = "tick" /\ w \in stopping
  /\ Goto(w, "stopped")
  /\ UNCHANGED <<queueVars, seen, outcome, copy, stopping, resources, operations, interruptions>>

\* Mutation of Recover: a worker told to stop goes on polling.
RecoverRegardless(w) ==
  /\ pc[w] = "tick"
  /\ RecoverExpiredLeases(now)
  /\ seen' = [seen EXCEPT ![w] = now]
  /\ Goto(w, "claim")
  /\ UNCHANGED <<outcome, copy, stopping, resources, operations, interruptions>>

\* Mutation of Recover: a pass claims without recovering first.
RecoverNothing(w) ==
  /\ pc[w] = "tick" /\ w \notin stopping
  /\ seen' = [seen EXCEPT ![w] = now]
  /\ Goto(w, "claim")
  /\ UNCHANGED <<queueVars, outcome, copy, stopping, resources, operations, interruptions>>

Recover(w) ==
  /\ pc[w] = "tick" /\ w \notin stopping
  /\ RecoverExpiredLeases(now)
  /\ seen' = [seen EXCEPT ![w] = now]
  /\ Goto(w, "claim")
  /\ UNCHANGED <<outcome, copy, stopping, resources, operations, interruptions>>

\* Bound: a lease ends before the clock does.
Take(w) ==
  /\ pc[w] = "claim" /\ w \notin stopping
  /\ seen[w] + Lease <= MaxTime
  /\ ClaimNext(w, seen[w])
  /\ seen' = [seen EXCEPT ![w] = now]
  /\ Goto(w, "execute")
  /\ UNCHANGED <<outcome, copy, stopping, resources, operations, interruptions>>

NothingDue(w) ==
  /\ pc[w] = "claim"
  /\ w \in stopping \/ Due(seen[w]) = {} \/ seen[w] + Lease > MaxTime
  /\ Goto(w, "tick") /\ EndPass(w)
  /\ UNCHANGED <<queueVars, stopping, resources, operations, interruptions>>

\* ON CONFLICT (idempotency_key) DO NOTHING: the first outcome stays.
record_operation(k, phase) ==
  operations' = [operations EXCEPT ![k] = IF @ = "none" THEN phase ELSE @]

\* execute_operation up to its record.  Without an approval, which no worker
\* job carries, a destructive action is refused before the adapter is called.
Gated(w, k) ==
  /\ k \in Destructive
  /\ record_operation(k, "failed")
  /\ outcome' = [outcome EXCEPT ![w] = "failed"]
  /\ Goto(w, "settle")

CallAdapter(w, k) ==
  /\ k \notin Destructive
  /\ \E o \in Outcome :
       /\ record_operation(k, target_phase[o])
       /\ outcome' = [outcome EXCEPT ![w] = o]
  /\ Goto(w, "read")

\* Mutation of Refused: a job that was not executed reads as accepted.
RefusedAccepted(w) ==
  /\ outcome' = [outcome EXCEPT ![w] = "accepted"]
  /\ Goto(w, "settle")
  /\ UNCHANGED operations

\* No application identity, no runtime, no adapter, or no record of the call.
Refused(w) ==
  /\ outcome' = [outcome EXCEPT ![w] = "failed"]
  /\ Goto(w, "settle")
  /\ UNCHANGED operations

\* finalize reads the clock between the claim and the dispatch.
Execute(w) ==
  /\ pc[w] = "execute"
  /\ \E t \in seen[w] .. now : seen' = [seen EXCEPT ![w] = t]
  /\ LET k == ClaimOf(w).key IN Gated(w, k) \/ CallAdapter(w, k) \/ Refused(w)
  /\ UNCHANGED <<queueVars, copy, stopping, resources, interruptions>>

\* The first half of observe_phase and record_failure: get, then the lifecycle
\* check on what was got.
Accepts(w) ==
  /\ ResourceOf(w) \in DOMAIN resources
  /\ can_transition_to(resources[ResourceOf(w)].phase, target_phase[outcome[w]])

\* What finalize does with an outcome once the dispatcher has returned it.
AfterDispatch(o) == IF o \in {"ready", "degraded"} THEN "get" ELSE "settle"

\* The event and usage records that end execute_operation: when one of them
\* cannot be written, the dispatcher reports a failure.
Recorded(w) ==
  \/ /\ Goto(w, AfterDispatch(outcome[w]))
     /\ UNCHANGED <<outcome, interruptions>>
  \/ /\ Interrupt
     /\ outcome' = [outcome EXCEPT ![w] = "failed"]
     /\ Goto(w, "settle")

\* The provider runtime ignores an observation that the row refuses, and one
\* that a database error keeps from being written.
Read(w) ==
  /\ pc[w] = "read"
  /\ \/ /\ Accepts(w)
        /\ copy' = [copy EXCEPT ![w] = resources[ResourceOf(w)]]
        /\ Goto(w, "write")
        /\ UNCHANGED <<outcome, interruptions>>
     \/ ~Accepts(w) /\ Recorded(w) /\ UNCHANGED copy
     \/ Interrupt /\ Goto(w, AfterDispatch(outcome[w])) /\ UNCHANGED <<outcome, copy>>
  /\ UNCHANGED <<queueVars, seen, stopping, resources, operations>>

Write(w) ==
  /\ pc[w] = "write"
  /\ resources' = [resources EXCEPT ![ResourceOf(w)] =
                     Writes(@, copy[w], target_phase[outcome[w]])]
  /\ copy' = [copy EXCEPT ![w] = request]
  /\ Recorded(w)
  /\ UNCHANGED <<queueVars, seen, stopping, operations>>

\* The worker observes a ready or degraded resource itself; an observation the
\* row refuses is an error of the pass.
Get(w) ==
  /\ pc[w] = "get"
  /\ IF Accepts(w)
     THEN /\ copy' = [copy EXCEPT ![w] = resources[ResourceOf(w)]]
          /\ Goto(w, "put")
          /\ UNCHANGED <<queueVars, seen, outcome>>
     ELSE Goto(w, "failed") /\ Drop(w) /\ EndPass(w)
  /\ UNCHANGED <<stopping, resources, operations, interruptions>>

Put(w) ==
  /\ pc[w] = "put"
  /\ resources' = [resources EXCEPT ![ResourceOf(w)] =
                     Observed(@, copy[w], target_phase[outcome[w]])]
  /\ copy' = [copy EXCEPT ![w] = request]
  /\ Goto(w, "settle")
  /\ UNCHANGED <<queueVars, seen, outcome, stopping, operations, interruptions>>

\* complete or fail, refused when the lease was lost, then the event.
Settle(w) ==
  /\ pc[w] = "settle"
  /\ LET c == ClaimOf(w) IN
       /\ IF outcome[w] = "failed" THEN Fail(c, seen[w]) ELSE Complete(c, seen[w])
       /\ \/ Holds(c) /\ Goto(w, "tick") /\ UNCHANGED interruptions
          \/ ~Holds(c) /\ Goto(w, "failed") /\ UNCHANGED interruptions
          \/ Interrupt /\ Goto(w, "failed")
  /\ EndPass(w)
  /\ UNCHANGED <<stopping, resources, operations>>

\* A database call of the worker itself returns an error, or the process dies.
Break(w) ==
  /\ pc[w] \notin Ended
  /\ Interrupt
  /\ Drop(w) /\ EndPass(w)
  /\ \E end \in {"failed", "crashed"} : Goto(w, end)
  /\ UNCHANGED <<stopping, resources, operations>>

\* A process that died is started again, under the same LABRYS_WORKER_ID.
Restart(w) ==
  /\ pc[w] = "crashed"
  /\ Goto(w, "tick")
  /\ stopping' = stopping \ {w}
  /\ UNCHANGED <<queueVars, seen, outcome, copy, resources, operations, interruptions>>

Stop(w) ==
  /\ w \notin stopping /\ Interrupt
  /\ stopping' = stopping \cup {w}
  /\ UNCHANGED <<queueVars, pc, seen, outcome, copy, resources, operations>>

Step(w) ==
  \/ Stopped(w) \/ Recover(w) \/ Take(w) \/ NothingDue(w) \/ Execute(w)
  \/ Read(w) \/ Write(w) \/ Get(w) \/ Put(w) \/ Settle(w)

Clock == Tick /\ UNCHANGED <<workerVars, resources, operations, interruptions>>

WorkerNext ==
  \/ Request
  \/ \E w \in Worker : Step(w) \/ Break(w) \/ Restart(w) \/ Stop(w)
  \/ Clock

\* Time passes, and a worker that can take its next step takes it: the runtime
\* polls every task, and provider calls return or time out.
WorkerSpec ==
  /\ WorkerInit /\ [][WorkerNext]_vars
  /\ WF_vars(Clock) /\ \A w \in Worker : WF_vars(Step(w))
-----------------------------------------------------------------------------
\* Workers use the queue as it is specified on its own: every pass is made of
\* its operations, with clock readings that are never from the future.
ImplementsQueue == Spec

\* Whatever writes race on a resource, its evidence is a legal path to its
\* phase (observe_phase and record_failure write both from one copy).
EvidenceIsLegal ==
  \A r \in DOMAIN resources : LegalTrail(resources[r])

\* A resource whose evidence shows a failure has left generation 0 for good,
\* whichever of the racing writers came last, so the key of its first job is
\* never built again (record_failure bumps the generation it read,
\* observe_phase leaves the generation of the row alone).
FailureLeavesGeneration ==
  \A r \in DOMAIN resources : ShowsFailure(resources[r]) => resources[r].generation > 0

\* A job succeeds only with its provider operation on record, and a
\* destructive one never does: blocked jobs "can never read as executed"
\* (execute_operation, ExecutableDispatcher, UnavailableDispatcher).
SucceededOnRecord ==
  \A k \in Key :
    jobs[k].status = "succeeded" => operations[k] # "none" /\ k \notin Destructive

\* "an interrupted worker never strands a job in `running`": a running job
\* leaves that state, unless no worker is left at all
\* (recover_expired_leases).
NeverStranded ==
  \A k \in Key :
    jobs[k].status = "running" ~>
      \/ jobs[k].status # "running"
      \/ \A w \in Worker : pc[w] \in Ended

\* A worker told to stop ends, and ends with nothing in hand.
StopEnds ==
  \A w \in Worker : w \in stopping ~> w \notin stopping \/ (pc[w] \in Ended /\ Idle(w))

\* "Runs until Worker::stop is called" (Worker::run): as long as nobody calls
\* it, no database call fails and no process dies, no worker ends.
RunsUntilStopped ==
  interruptions = 0 => \A w \in Worker : pc[w] \notin Ended
=============================================================================
