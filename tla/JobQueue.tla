------------------------------ MODULE JobQueue ------------------------------
(***************************************************************************)
(* The durable controller-job queue of the control plane (PgJobQueue).     *)
(*                                                                         *)
(* One row of the jobs table per idempotency key.  Every operation is one  *)
(* statement or one transaction over that table, so it is one action here. *)
(* Callers pass the time they read earlier: an operation takes a reading t *)
(* that may lag the clock by up to MaxLag.                                 *)
(*                                                                         *)
(* A worker keeps the ClaimedJob it was handed in its own memory.  That    *)
(* copy outlives the lease it names: nothing tells a worker that its lease *)
(* was recovered, so the queue has to tell late answers from current ones. *)
(***************************************************************************)
EXTENDS Integers, FiniteSets

CONSTANTS
  Worker,       \* worker identities, the values of lease_owner
  NoWorker,     \* lease_owner IS NULL
  Key,          \* idempotency keys
  TargetOf,     \* the convergence target a key was built from
  Lease,        \* lease_seconds
  MaxAttempts,  \* RetryPolicy.max_attempts
  BaseDelay,    \* RetryPolicy.base_delay
  Factor,       \* RetryPolicy.factor
  MaxDelay,     \* RetryPolicy.max_delay
  MaxTime,      \* bound: the clock stops here
  MaxLag        \* bound: how old a caller's clock reading may be

VARIABLES
  now,          \* the wall clock
  jobs,         \* the jobs table
  claims        \* the ClaimedJob values in the memory of running workers

queueVars == <<now, jobs, claims>>

(***************************************************************************)
(* RetryPolicy::delay_for: exponential backoff with a cap, for the 1-based *)
(* number of the attempt that failed.                                      *)
(***************************************************************************)
AtLeast(n, floor) == IF n < floor THEN floor ELSE n

AtMost(n, cap) == IF n > cap THEN cap ELSE n

delay_for(attempt) ==
  AtMost(BaseDelay * AtLeast(Factor, 1) ^ AtMost(attempt - 1, 31), MaxDelay)

ASSUME QueueAssumption ==
  /\ NoWorker \notin Worker
  /\ Lease \in Nat \ {0}
  /\ MaxAttempts \in Nat \ {0}
  /\ MaxTime \in Nat
  /\ MaxLag \in Nat
  /\ \A a \in 1 .. MaxAttempts : delay_for(a) \in Nat

-----------------------------------------------------------------------------
Status == {"none", "queued", "paused", "running", "succeeded", "dead"}

Row ==
  [ status : Status,
    attempts : Nat,
    next : Nat,                          \* next_attempt_at
    owner : Worker \cup {NoWorker},      \* lease_owner
    expires : Nat,                       \* lease_expires_at, 0 for NULL
    enqueued : Nat,
    updated : Nat,
    error : {"null", "attempt", "lease"} ]  \* last_error

Claim == [worker : Worker, key : Key, attempt : Nat, expires : Nat]

Moment == {t \in 0 .. now : now - t <= MaxLag}

\* The row no INSERT has created yet.
NoRow ==
  [status |-> "none", attempts |-> 0, next |-> 0, owner |-> NoWorker,
   expires |-> 0, enqueued |-> 0, updated |-> 0, error |-> "null"]

\* Mutation of Holds: the lease_owner condition is missing.
HoldsAnyones(c) == jobs[c.key].status = "running"

\* The worker that holds claim c is still the lease holder on record.
Holds(c) == jobs[c.key].status = "running" /\ jobs[c.key].owner = c.worker

Idle(w) == \A c \in claims : c.worker # w

\* Mutation of Due: the status condition lets a running row be claimed.
DueRunning(t) ==
  {k \in Key : jobs[k].status \in {"queued", "running"} /\ jobs[k].next <= t}

Due(t) == {k \in Key : jobs[k].status = "queued" /\ jobs[k].next <= t}

\* ORDER BY next_attempt_at, enqueued_at
Before(j, k) ==
  \/ jobs[j].next < jobs[k].next
  \/ jobs[j].next = jobs[k].next /\ jobs[j].enqueued < jobs[k].enqueued

-----------------------------------------------------------------------------
Init ==
  /\ now = 0
  /\ jobs = [k \in Key |-> NoRow]
  /\ claims = {}

NewRow(t) ==
  [status |-> "queued", attempts |-> 0, next |-> t, owner |-> NoWorker,
   expires |-> 0, enqueued |-> t, updated |-> t, error |-> "null"]

\* Mutation of Enqueue: only active work takes a key.
EnqueueAfterEnd(k, t) ==
  /\ jobs' = [jobs EXCEPT ![k] =
       IF @.status \in {"none", "succeeded", "dead"} THEN NewRow(t) ELSE @]
  /\ UNCHANGED <<now, claims>>

\* A key that is taken, by active or finished work, leaves the table as it is.
Enqueue(k, t) ==
  /\ jobs' = [jobs EXCEPT ![k] = IF @.status = "none" THEN NewRow(t) ELSE @]
  /\ UNCHANGED <<now, claims>>

ClaimedRow(row, w, t) ==
  [row EXCEPT !.status = "running", !.attempts = row.attempts + 1, !.owner = w,
              !.expires = t + Lease, !.updated = t]

ClaimNext(w, t) ==
  /\ Idle(w)
  /\ \E k \in Due(t) :
       /\ \A j \in Due(t) : ~Before(j, k)
       /\ jobs' = [jobs EXCEPT ![k] = ClaimedRow(@, w, t)]
       /\ claims' = claims \cup
            {[worker |-> w, key |-> k, attempt |-> jobs[k].attempts + 1,
              expires |-> t + Lease]}
  /\ UNCHANGED now

CompletedRow(row, t) ==
  [row EXCEPT !.status = "succeeded", !.error = "null", !.owner = NoWorker,
              !.expires = 0, !.updated = t]

\* Err when the caller is no longer the holder; the claim is over either way.
Complete(c, t) ==
  /\ jobs' = [jobs EXCEPT ![c.key] = IF Holds(c) THEN CompletedRow(@, t) ELSE @]
  /\ claims' = claims \ {c}
  /\ UNCHANGED now

\* Mutation of FailedRow: the last attempt of the budget is never made.
FailedRowEarly(row, t) ==
  [row EXCEPT !.status = IF row.attempts + 1 >= MaxAttempts THEN "dead" ELSE "queued",
              !.error = "attempt", !.next = t, !.owner = NoWorker,
              !.expires = 0, !.updated = t]

\* Mutation of FailedRow: a status name the table does not know.
FailedRowMisnamed(row, t) ==
  [row EXCEPT !.status = "failed", !.error = "attempt", !.owner = NoWorker,
              !.expires = 0]

\* updated_at is bound to the same parameter as next_attempt_at.
FailedRow(row, t) ==
  LET attempt == AtLeast(row.attempts, 1)
      dead == attempt >= MaxAttempts
      next == IF dead THEN t ELSE t + delay_for(attempt)
  IN  [row EXCEPT !.status = IF dead THEN "dead" ELSE "queued",
                  !.error = "attempt", !.next = next, !.owner = NoWorker,
                  !.expires = 0, !.updated = next]

Fail(c, t) ==
  /\ jobs' = [jobs EXCEPT ![c.key] = IF Holds(c) THEN FailedRow(@, t) ELSE @]
  /\ claims' = claims \ {c}
  /\ UNCHANGED now

PausedRow(row, t) == [row EXCEPT !.status = "paused", !.updated = t]

Pause(k, t) ==
  /\ jobs[k].status = "queued"
  /\ jobs' = [jobs EXCEPT ![k] = PausedRow(@, t)]
  /\ UNCHANGED <<now, claims>>

ResumedRow(row, t) ==
  [row EXCEPT !.status = "queued", !.next = t, !.updated = t]

Resume(k, t) ==
  /\ jobs[k].status = "paused"
  /\ jobs' = [jobs EXCEPT ![k] = ResumedRow(@, t)]
  /\ UNCHANGED <<now, claims>>

RequeuedRow(row, t) ==
  [row EXCEPT !.status = "queued", !.attempts = 0, !.next = t, !.error = "null",
              !.owner = NoWorker, !.expires = 0, !.updated = t]

Requeue(k, t) ==
  /\ jobs[k].status = "dead"
  /\ jobs' = [jobs EXCEPT ![k] = RequeuedRow(@, t)]
  /\ UNCHANGED <<now, claims>>

\* Mutation of Expired: recovery does not look at lease_expires_at.
ExpiredAlways(k, t) == jobs[k].status = "running"

Expired(k, t) == jobs[k].status = "running" /\ jobs[k].expires <= t

RecoveredRow(row, t) ==
  [row EXCEPT !.status = "queued", !.owner = NoWorker, !.expires = 0,
              !.error = "lease", !.updated = t]

\* Neither the attempt count nor next_attempt_at moves.
RecoverExpiredLeases(t) ==
  /\ jobs' = [k \in Key |->
       IF Expired(k, t) THEN RecoveredRow(jobs[k], t) ELSE jobs[k]]
  /\ UNCHANGED <<now, claims>>

\* The worker dies, or drops its claim on an error: nothing is written.
Abandon(c) ==
  /\ claims' = claims \ {c}
  /\ UNCHANGED <<now, jobs>>

Tick ==
  /\ now < MaxTime
  /\ now' = now + 1
  /\ UNCHANGED <<jobs, claims>>

WorkerStep ==
  \E t \in Moment :
    \/ \E w \in Worker : ClaimNext(w, t)
    \/ \E c \in claims : Complete(c, t)
    \/ \E c \in claims : Fail(c, t)
    \/ RecoverExpiredLeases(t)

\* Request handlers read the clock as they call the queue.
RequestStep ==
  \E k \in Key :
    \/ Enqueue(k, now)
    \/ Pause(k, now)
    \/ Resume(k, now)
    \/ Requeue(k, now)

Next ==
  \/ WorkerStep
  \/ RequestStep
  \/ \E c \in claims : Abandon(c)
  \/ Tick

Spec == Init /\ [][Next]_queueVars
-----------------------------------------------------------------------------
\* Every field of every row and claim keeps its type.
TypeOK ==
  /\ now \in 0 .. MaxTime
  /\ jobs \in [Key -> Row]
  /\ claims \subseteq Claim

\* Two workers never both hold an unexpired lease on one job, whatever the lag
\* of their clocks and however late the losing one answers (claim_next,
\* recover_expired_leases).
LeaseExclusive ==
  \A c, d \in claims :
    c.key = d.key /\ c.expires > now /\ d.expires > now => c = d

\* A claim whose lease is running is the one on record; and whenever its worker
\* is on record as the holder, the record is of that same attempt.
ClaimsMatchRows ==
  \A c \in claims :
    /\ c.expires > now => Holds(c)
    /\ Holds(c) => jobs[c.key].attempts = c.attempt /\ jobs[c.key].expires = c.expires

\* A running row is changed by recovery once its lease has run out, or by the
\* very claim that made it running: an answer from a superseded attempt, a
\* second worker's or an earlier one of the same worker, changes nothing
\* (the status and lease_owner guards of complete and fail).
OnlyTheCurrentAttemptAnswers ==
  [][\A k \in Key :
       jobs[k].status = "running" /\ jobs'[k] # jobs[k] =>
         \/ jobs[k].expires <= now /\ jobs'[k].error = "lease"
         \/ \E c \in claims \ claims' :
              /\ c.key = k
              /\ c.attempt = jobs[k].attempts
              /\ c.expires = jobs[k].expires]_queueVars

\* A dead letter spent its whole attempt budget and says which attempt error
\* ended it; losing a lease alone never dead-letters a job (fail).
DeadIsExplained ==
  \A k \in Key :
    jobs[k].status = "dead" =>
      jobs[k].attempts >= MaxAttempts /\ jobs[k].error = "attempt"

\* Finished work is never redone: no operation, a duplicate enqueue included,
\* takes a succeeded job out of that state (enqueue, complete, requeue).
SucceededIsFinal ==
  [][\A k \in Key : jobs[k].status = "succeeded" => jobs'[k] = jobs[k]]_queueVars

\* "Total attempts before the job dead-letters" (controller.rs, RetryPolicy).
AttemptsWithinBudget ==
  \A k \in Key : jobs[k].attempts <= MaxAttempts

\* What the contract knows of a job: a live claim is one whose lease is running.
OutcomeOf(status) ==
  CASE status = "none" -> "absent"
    [] status = "succeeded" -> "done"
    [] status = "dead" -> "dead"
    [] OTHER -> "open"

Live(k) == \E c \in claims : c.key = k /\ c.expires > now

HolderOf(k) == IF Live(k) THEN jobs[k].owner ELSE NoWorker

Contract == INSTANCE JobContract WITH
  outcome <- [k \in Key |-> OutcomeOf(jobs[k].status)],
  holder <- [k \in Key |-> HolderOf(k)]

\* Every step of the queue is a step of the contract, or leaves it alone.
ImplementsContract == Contract!Spec
=============================================================================
