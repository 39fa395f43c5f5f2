--------------------------- MODULE JobQueueProofs ---------------------------
(***************************************************************************)
(* Machine-checked proofs about the job queue, for every set of workers    *)
(* and keys, every lease, retry policy and clock lag.                      *)
(*                                                                         *)
(* LeaseExclusive is not inductive: it says nothing of the table, and the  *)
(* table is what claim_next consults.  LeaseInv adds what ties the copies  *)
(* in the workers' memories to the rows.                                   *)
(***************************************************************************)
EXTENDS JobQueue, TLAPS

\* A worker works on one job at a time.
OneClaimEach == \A c, d \in claims : c.worker = d.worker => c = d

LeaseInv == TypeOK /\ ClaimsMatchRows /\ OneClaimEach

USE DEF Moment

\* A failed attempt leaves a well-typed row: backoff is computed only for
\* attempt numbers below the budget (RetryPolicy::delay_for, fail).
LEMMA FailedRowType ==
  ASSUME NEW row \in Row, NEW t \in Nat
  PROVE  FailedRow(row, t) \in Row
<1> DEFINE a == AtLeast(row.attempts, 1)
<1>1. a \in Nat \ {0}
  BY DEF Row, AtLeast
<1>2. a < MaxAttempts => delay_for(a) \in Nat
  <2> HIDE DEF a
  <2> QED BY <1>1, QueueAssumption
<1> HIDE DEF a
<1>3. (IF a >= MaxAttempts THEN t ELSE t + delay_for(a)) \in Nat
  BY <1>1, <1>2, QueueAssumption
<1>4. QED
  BY <1>3, Zenon DEF FailedRow, Row, Status, a

\* So does claim_next,
LEMMA ClaimedRowType ==
  ASSUME NEW row \in Row, NEW t \in Nat, NEW w \in Worker
  PROVE  ClaimedRow(row, w, t) \in Row
<1>1. row.attempts + 1 \in Nat /\ t + Lease \in Nat
  BY QueueAssumption DEF Row
<1>2. QED
  BY <1>1, Zenon DEF ClaimedRow, Row, Status

\* and so do complete, pause, resume, requeue, recover_expired_leases and the
\* INSERT of enqueue.
LEMMA RowTypes ==
  ASSUME NEW row \in Row, NEW t \in Nat
  PROVE  /\ NewRow(t) \in Row
         /\ CompletedRow(row, t) \in Row
         /\ PausedRow(row, t) \in Row
         /\ ResumedRow(row, t) \in Row
         /\ RequeuedRow(row, t) \in Row
         /\ RecoveredRow(row, t) \in Row
<1> USE QueueAssumption DEF Row, Status
<1>1. NewRow(t) \in Row
  BY DEF NewRow
<1>2. CompletedRow(row, t) \in Row
  BY Zenon DEF CompletedRow
<1>3. PausedRow(row, t) \in Row
  BY Zenon DEF PausedRow
<1>4. ResumedRow(row, t) \in Row
  BY Zenon DEF ResumedRow
<1>5. RequeuedRow(row, t) \in Row
  BY Zenon DEF RequeuedRow
<1>6. RecoveredRow(row, t) \in Row
  BY Zenon DEF RecoveredRow
<1>7. QED
  BY <1>1, <1>2, <1>3, <1>4, <1>5, <1>6

\* The initial state is well typed.
LEMMA InitType == Init => TypeOK
  BY QueueAssumption DEF Init, TypeOK, NoRow, Row, Status

\* Each operation keeps rows and claims well typed.
LEMMA NextType == TypeOK /\ [Next]_queueVars => TypeOK'
<1> SUFFICES ASSUME TypeOK, [Next]_queueVars PROVE TypeOK'
  OBVIOUS
<1> USE QueueAssumption
<1>a. now \in Nat /\ (\A t \in Moment : t \in Nat) /\ \A k \in Key : jobs[k] \in Row
  BY DEF TypeOK
<1>b. ASSUME NEW c \in claims PROVE c.key \in Key /\ c.worker \in Worker
  BY DEF TypeOK, Claim
<1>1. ASSUME NEW k \in Key, Enqueue(k, now) PROVE TypeOK'
  BY <1>1, <1>a, RowTypes DEF Enqueue, TypeOK
<1>2. ASSUME NEW t \in Moment, NEW w \in Worker, ClaimNext(w, t) PROVE TypeOK'
  <2>1. PICK k \in Due(t) :
          /\ jobs' = [jobs EXCEPT ![k] = ClaimedRow(@, w, t)]
          /\ claims' = claims \cup
               {[worker |-> w, key |-> k, attempt |-> jobs[k].attempts + 1,
                 expires |-> t + Lease]}
    BY <1>2, Zenon DEF ClaimNext
  <2>2. k \in Key /\ jobs[k].attempts + 1 \in Nat /\ t + Lease \in Nat
    BY <1>a DEF Due, Row
  <2>3. [worker |-> w, key |-> k, attempt |-> jobs[k].attempts + 1,
         expires |-> t + Lease] \in Claim
    BY <2>2 DEF Claim
  <2>4. claims' \subseteq Claim
    BY <2>1, <2>3 DEF TypeOK
  <2>5. jobs' \in [Key -> Row]
    BY <2>1, <2>2, <1>a, ClaimedRowType DEF TypeOK
  <2>6. QED
    BY <1>2, <2>4, <2>5 DEF ClaimNext, TypeOK
<1>3. ASSUME NEW t \in Moment, NEW c \in claims, Complete(c, t) PROVE TypeOK'
  BY <1>3, <1>a, <1>b, RowTypes DEF Complete, TypeOK
<1>4. ASSUME NEW t \in Moment, NEW c \in claims, Fail(c, t) PROVE TypeOK'
  BY <1>4, <1>a, <1>b, FailedRowType DEF Fail, TypeOK
<1>5. ASSUME NEW k \in Key, Pause(k, now) PROVE TypeOK'
  BY <1>5, <1>a, RowTypes DEF Pause, TypeOK
<1>6. ASSUME NEW k \in Key, Resume(k, now) PROVE TypeOK'
  BY <1>6, <1>a, RowTypes DEF Resume, TypeOK
<1>7. ASSUME NEW k \in Key, Requeue(k, now) PROVE TypeOK'
  BY <1>7, <1>a, RowTypes DEF Requeue, TypeOK
<1>8. ASSUME NEW t \in Moment, RecoverExpiredLeases(t) PROVE TypeOK'
  BY <1>8, <1>a, RowTypes DEF RecoverExpiredLeases, TypeOK
<1>9. ASSUME NEW c \in claims, Abandon(c) PROVE TypeOK'
  BY <1>9 DEF Abandon, TypeOK
<1>10. CASE Tick
  BY <1>10 DEF Tick, TypeOK
<1>11. CASE UNCHANGED queueVars
  BY <1>11 DEF TypeOK, queueVars
<1>12. QED
  BY <1>1, <1>2, <1>3, <1>4, <1>5, <1>6, <1>7, <1>8, <1>9, <1>10, <1>11
     DEF Next, WorkerStep, RequestStep

\* Rows and claims always have their types, in every instance of the queue.
THEOREM QueueTypeCorrect == Spec => []TypeOK
  BY InitType, NextType, PTL DEF Spec

-----------------------------------------------------------------------------
\* A step keeps every worker to one claim: claim_next is called by an idle
\* worker only, and the other operations only end claims.
LEMMA NextOneClaimEach ==
  TypeOK /\ OneClaimEach /\ [Next]_queueVars => OneClaimEach'
<1> SUFFICES ASSUME TypeOK, OneClaimEach, [Next]_queueVars PROVE OneClaimEach'
  OBVIOUS
<1>1. ASSUME NEW t \in Moment, NEW w \in Worker, ClaimNext(w, t)
      PROVE OneClaimEach'
  BY <1>1 DEF ClaimNext, Idle, OneClaimEach
<1>2. ASSUME claims' \subseteq claims PROVE OneClaimEach'
  BY <1>2 DEF OneClaimEach
<1>3. QED
  BY <1>1, <1>2 DEF Next, WorkerStep, RequestStep, Enqueue, Complete, Fail, Pause,
     Resume, Requeue, RecoverExpiredLeases, Abandon, Tick, queueVars

\* A step that leaves the row of a claim alone, or that writes a row nobody
\* holds over one the claim does not hold or hold any longer, keeps it matched.
LEMMA NextClaimsMatchRows ==
  LeaseInv /\ [Next]_queueVars => ClaimsMatchRows'
<1> SUFFICES ASSUME LeaseInv, [Next]_queueVars PROVE ClaimsMatchRows'
  OBVIOUS
<1> USE QueueAssumption
<1>a. /\ now \in Nat
      /\ \A t \in Moment : t \in Nat /\ t <= now
      /\ \A k \in Key : jobs[k] \in Row
      /\ jobs \in [Key -> Row]
  BY DEF LeaseInv, TypeOK
<1>b. ASSUME NEW c \in claims
      PROVE  c.key \in Key /\ c.worker \in Worker /\ c.expires \in Nat
  BY DEF LeaseInv, TypeOK, Claim
<1>c. ASSUME NEW k \in Key, UNCHANGED now, claims' \subseteq claims,
             \A j \in Key \ {k} : jobs'[j] = jobs[j],
             jobs'[k] = jobs[k] \/ jobs'[k].owner = NoWorker,
             jobs'[k] = jobs[k] \/ \A c \in claims' : c.key = k => ~Holds(c)
      PROVE  ClaimsMatchRows'
  <2> SUFFICES ASSUME NEW c \in claims'
               PROVE  /\ c.expires > now => Holds(c)'
                      /\ Holds(c)' => /\ jobs'[c.key].attempts = c.attempt
                                     /\ jobs'[c.key].expires = c.expires
    BY <1>c DEF ClaimsMatchRows
  <2>1. c \in claims /\ c.key \in Key /\ c.worker \in Worker /\ c.worker # NoWorker
    BY <1>c, <1>b
  <2>2. CASE jobs'[c.key] = jobs[c.key]
    BY <2>1, <2>2 DEF LeaseInv, ClaimsMatchRows, Holds
  <2>3. CASE jobs'[c.key] # jobs[c.key]
    <3>1. c.key = k /\ jobs'[k].owner = NoWorker /\ ~Holds(c)
      BY <1>c, <2>1, <2>3
    <3>2. QED
      BY <2>1, <3>1 DEF LeaseInv, ClaimsMatchRows, Holds
  <2>4. QED
    BY <2>2, <2>3
<1>1. ASSUME NEW k \in Key, Enqueue(k, now) PROVE ClaimsMatchRows'
  <2>1. jobs'[k] = jobs[k] \/ (jobs[k].status = "none" /\ jobs'[k].owner = NoWorker)
    BY <1>1, <1>a DEF Enqueue, NewRow
  <2>2. QED
    BY <1>1, <2>1, <1>a, <1>c DEF Enqueue, Holds
<1>2. ASSUME NEW t \in Moment, NEW w \in Worker, ClaimNext(w, t)
      PROVE ClaimsMatchRows'
  <2> DEFINE new(k) == [worker |-> w, key |-> k, attempt |-> jobs[k].attempts + 1,
                        expires |-> t + Lease]
  <2>1. PICK k \in Due(t) :
          /\ jobs' = [jobs EXCEPT ![k] = ClaimedRow(@, w, t)]
          /\ claims' = claims \cup {new(k)}
    BY <1>2, Zenon DEF ClaimNext
  <2>2. k \in Key /\ jobs[k].status = "queued" /\ jobs[k] \in Row
    BY <1>a DEF Due
  <2>3. /\ jobs'[k].status = "running" /\ jobs'[k].owner = w
        /\ jobs'[k].attempts = jobs[k].attempts + 1 /\ jobs'[k].expires = t + Lease
    BY <2>1, <2>2, <1>a DEF ClaimedRow, Row
  <2>4. \A j \in Key \ {k} : jobs'[j] = jobs[j]
    BY <2>1, <1>a
  <2>5. UNCHANGED now /\ Idle(w)
    BY <1>2 DEF ClaimNext
  <2>6. ASSUME NEW c \in claims
        PROVE  /\ c.expires > now => Holds(c)'
               /\ Holds(c)' => /\ jobs'[c.key].attempts = c.attempt
                              /\ jobs'[c.key].expires = c.expires
    <3>1. CASE c.key = k
      BY <3>1, <2>2, <2>3, <2>5, <1>b DEF LeaseInv, ClaimsMatchRows, Holds, Idle
    <3>2. CASE c.key # k
      BY <3>2, <2>4, <2>5, <1>b DEF LeaseInv, ClaimsMatchRows, Holds
    <3>3. QED
      BY <3>1, <3>2
  <2>7. SUFFICES ASSUME NEW c \in claims'
                 PROVE  /\ c.expires > now => Holds(c)'
                        /\ Holds(c)' => /\ jobs'[c.key].attempts = c.attempt
                                       /\ jobs'[c.key].expires = c.expires
    BY <2>5 DEF ClaimsMatchRows
  <2>8. c \in claims \/ c = new(k)
    BY <2>1
  <2>9. CASE c \in claims
    BY <2>6, <2>9
  <2>10. CASE c = new(k)
    BY <2>3, <2>10 DEF Holds
  <2>11. QED
    BY <2>8, <2>9, <2>10
<1>3. ASSUME NEW c \in claims, claims' = claims \ {c}, UNCHANGED now,
             \A j \in Key \ {c.key} : jobs'[j] = jobs[j],
             IF Holds(c) THEN jobs'[c.key].owner = NoWorker
                         ELSE jobs'[c.key] = jobs[c.key]
      PROVE  ClaimsMatchRows'
  <2>1. Holds(c) => \A d \in claims' : d.key = c.key => ~Holds(d)
    BY <1>3 DEF LeaseInv, OneClaimEach, Holds
  <2>2. QED
    BY <1>3, <2>1, <1>b, <1>c
<1>4. ASSUME NEW t \in Moment, NEW c \in claims, Complete(c, t)
      PROVE ClaimsMatchRows'
  <2>1. CompletedRow(jobs[c.key], t).owner = NoWorker
    BY <1>a, <1>b DEF CompletedRow, Row
  <2>2. QED
    BY <1>3, <1>4, <2>1, <1>a, <1>b DEF Complete
<1>5. ASSUME NEW t \in Moment, NEW c \in claims, Fail(c, t)
      PROVE ClaimsMatchRows'
  <2>1. FailedRow(jobs[c.key], t).owner = NoWorker
    BY <1>a, <1>b DEF FailedRow, Row
  <2>2. QED
    BY <1>3, <1>5, <2>1, <1>a, <1>b DEF Fail
<1>6. ASSUME NEW k \in Key, Pause(k, now) PROVE ClaimsMatchRows'
  <2>1. jobs[k].status # "running" /\ jobs'[k].status # "running"
    BY <1>6, <1>a DEF Pause, PausedRow, Row
  <2>2. QED
    BY <1>6, <2>1, <1>a, <1>b DEF Pause, LeaseInv, ClaimsMatchRows, Holds
<1>7. ASSUME NEW k \in Key, Resume(k, now) PROVE ClaimsMatchRows'
  <2>1. jobs[k].status # "running" /\ jobs'[k].status # "running"
    BY <1>7, <1>a DEF Resume, ResumedRow, Row
  <2>2. QED
    BY <1>7, <2>1, <1>a, <1>b DEF Resume, LeaseInv, ClaimsMatchRows, Holds
<1>8. ASSUME NEW k \in Key, Requeue(k, now) PROVE ClaimsMatchRows'
  <2>1. jobs[k].status # "running" /\ jobs'[k].status # "running"
    BY <1>8, <1>a DEF Requeue, RequeuedRow, Row
  <2>2. QED
    BY <1>8, <2>1, <1>a, <1>b DEF Requeue, LeaseInv, ClaimsMatchRows, Holds
<1>9. ASSUME NEW t \in Moment, RecoverExpiredLeases(t) PROVE ClaimsMatchRows'
  <2>1. ASSUME NEW c \in claims, Expired(c.key, t)
        PROVE  jobs'[c.key].status # "running" /\ ~(c.expires > now)
    <3>1. jobs'[c.key].status # "running"
      <4>1. jobs[c.key] \in Row /\ jobs'[c.key] = RecoveredRow(jobs[c.key], t)
        BY <1>9, <2>1, <1>a, <1>b DEF RecoverExpiredLeases
      <4>2. QED
        BY <4>1 DEF RecoveredRow, Row
    <3>2. c.expires > now => c.expires <= t
      BY <2>1 DEF LeaseInv, ClaimsMatchRows, Expired
    <3>3. QED
      BY <3>1, <3>2, <1>a, <1>b
  <2>2. ASSUME NEW c \in claims, ~Expired(c.key, t) PROVE jobs'[c.key] = jobs[c.key]
    BY <1>9, <2>2, <1>b DEF RecoverExpiredLeases
  <2>3. \A c \in claims : c.expires > now => jobs'[c.key] = jobs[c.key]
    BY <2>1, <2>2
  <2>4. \A c \in claims : jobs'[c.key].status = "running" => jobs'[c.key] = jobs[c.key]
    BY <2>1, <2>2
  <2>5. claims' = claims /\ now' = now
    BY <1>9 DEF RecoverExpiredLeases
  <2>6. QED
    BY <2>3, <2>4, <2>5, SMTT(30) DEF LeaseInv, ClaimsMatchRows, Holds
<1>10. ASSUME NEW c \in claims, Abandon(c) PROVE ClaimsMatchRows'
  BY <1>10 DEF Abandon, LeaseInv, ClaimsMatchRows, Holds
<1>11. CASE Tick
  BY <1>11, <1>a, <1>b, SMTT(30) DEF Tick, LeaseInv, ClaimsMatchRows, Holds
<1>12. CASE UNCHANGED queueVars
  BY <1>12 DEF queueVars, LeaseInv, ClaimsMatchRows, Holds
<1>13. QED
  BY <1>1, <1>2, <1>4, <1>5, <1>6, <1>7, <1>8, <1>9, <1>10, <1>11, <1>12
     DEF Next, WorkerStep, RequestStep

\* The inductive invariant of the queue.
THEOREM LeaseInvariant == Spec => []LeaseInv
<1>1. Init => LeaseInv
  BY InitType DEF Init, LeaseInv, ClaimsMatchRows, OneClaimEach
<1>2. LeaseInv /\ [Next]_queueVars => LeaseInv'
  BY NextType, NextOneClaimEach, NextClaimsMatchRows DEF LeaseInv
<1>3. QED
  BY <1>1, <1>2, PTL DEF Spec

\* A running lease is the one on record, and a holder on record is the holder
\* of that very attempt.
THEOREM ClaimsStayOnRecord == Spec => []ClaimsMatchRows
<1>1. LeaseInv => ClaimsMatchRows
  BY DEF LeaseInv
<1>2. QED
  BY <1>1, LeaseInvariant, PTL

\* Two unexpired claims on one job are the same claim: both are on record, the
\* record names one worker, and a worker has one claim.
THEOREM LeaseIsExclusive == Spec => []LeaseExclusive
<1>1. LeaseInv => LeaseExclusive
  BY DEF LeaseInv, LeaseExclusive, ClaimsMatchRows, OneClaimEach, Holds
<1>2. QED
  BY <1>1, LeaseInvariant, PTL

\* A step that changes a running row recovers an expired lease or is the answer
\* of the attempt on record.
THEOREM OnlyTheCurrentAttempt == Spec => OnlyTheCurrentAttemptAnswers
<1> DEFINE Ok(k) == \/ jobs[k].expires <= now /\ jobs'[k].error = "lease"
                    \/ \E c \in claims \ claims' :
                         /\ c.key = k
                         /\ c.attempt = jobs[k].attempts
                         /\ c.expires = jobs[k].expires
           A == \A k \in Key : jobs[k].status = "running" /\ jobs'[k] # jobs[k] => Ok(k)
<1>1. LeaseInv /\ [Next]_queueVars => A
  <2> SUFFICES ASSUME LeaseInv, [Next]_queueVars, NEW k \in Key,
                      jobs[k].status = "running", jobs'[k] # jobs[k]
               PROVE  Ok(k)
    OBVIOUS
  <2>a. /\ now \in Nat /\ jobs \in [Key -> Row] /\ jobs[k] \in Row
        /\ \A t \in Moment : t \in Nat /\ t <= now
        /\ \A c \in claims : c.key \in Key
    BY DEF LeaseInv, TypeOK, Claim
  <2>1. ASSUME NEW c \in claims, claims' = claims \ {c}, c.key = k, Holds(c)
        PROVE  Ok(k)
    BY <2>1 DEF LeaseInv, ClaimsMatchRows
  <2>2. ASSUME NEW t \in Moment, NEW c \in claims, Complete(c, t) \/ Fail(c, t)
        PROVE  Ok(k)
    BY <2>1, <2>2, <2>a DEF Complete, Fail
  <2>3. ASSUME NEW t \in Moment, RecoverExpiredLeases(t) PROVE Ok(k)
    <3>1. jobs[k].expires <= t /\ jobs'[k] = RecoveredRow(jobs[k], t)
      BY <2>3, <2>a DEF RecoverExpiredLeases, Expired
    <3>2. jobs[k].expires <= now /\ jobs'[k].error = "lease"
      BY <3>1, <2>a DEF RecoveredRow, Row
    <3>3. QED
      BY <3>2
  <2>4. ASSUME NEW t \in Moment, NEW w \in Worker, ClaimNext(w, t) PROVE Ok(k)
    BY <2>4, <2>a DEF ClaimNext, Due
  <2>5. ASSUME NEW j \in Key,
               Enqueue(j, now) \/ Pause(j, now) \/ Resume(j, now) \/ Requeue(j, now)
        PROVE  Ok(k)
    BY <2>5, <2>a DEF Enqueue, Pause, Resume, Requeue
  <2>6. QED
    BY <2>2, <2>3, <2>4, <2>5 DEF Next, WorkerStep, RequestStep, Abandon, Tick, queueVars
<1>2. QED
  BY <1>1, LeaseInvariant, PTL DEF Spec, OnlyTheCurrentAttemptAnswers

\* No operation touches a succeeded row: each one requires another status.
THEOREM SucceededStays == Spec => SucceededIsFinal
<1> DEFINE A == \A k \in Key : jobs[k].status = "succeeded" => jobs'[k] = jobs[k]
<1>1. TypeOK /\ [Next]_queueVars => A
  <2> SUFFICES ASSUME TypeOK, [Next]_queueVars, NEW k \in Key,
                      jobs[k].status = "succeeded"
               PROVE  jobs'[k] = jobs[k]
    OBVIOUS
  <2>a. jobs \in [Key -> Row] /\ \A c \in claims : c.key \in Key
    BY DEF TypeOK, Claim
  <2>1. ASSUME NEW t \in Moment, WorkerStep PROVE jobs'[k] = jobs[k]
    BY <2>1, <2>a DEF WorkerStep, ClaimNext, Due, Complete, Fail, Holds,
       RecoverExpiredLeases, Expired
  <2>2. ASSUME RequestStep PROVE jobs'[k] = jobs[k]
    BY <2>2, <2>a DEF RequestStep, Enqueue, Pause, Resume, Requeue
  <2>3. QED
    BY <2>1, <2>2 DEF Next, WorkerStep, Abandon, Tick, queueVars
<1>2. QED
  BY <1>1, QueueTypeCorrect, PTL DEF Spec, SucceededIsFinal

\* What DeadIsExplained needs to be inductive: a running row has been claimed.
DeadInv ==
  /\ TypeOK
  /\ DeadIsExplained
  /\ \A k \in Key : jobs[k].status = "running" => jobs[k].attempts > 0

\* A job is dead-lettered by a failed attempt that was its last.
THEOREM DeadLettersExplained == Spec => []DeadIsExplained
<1>1. Init => DeadInv
  BY InitType DEF Init, DeadInv, DeadIsExplained, NoRow
<1>2. DeadInv /\ [Next]_queueVars => DeadInv'
  <2> SUFFICES ASSUME DeadInv, [Next]_queueVars, NEW k \in Key
               PROVE  /\ jobs'[k].status = "dead" =>
                           jobs'[k].attempts >= MaxAttempts /\ jobs'[k].error = "attempt"
                      /\ jobs'[k].status = "running" => jobs'[k].attempts > 0
    BY NextType DEF DeadInv, DeadIsExplained
  <2> DEFINE Fine(row) == /\ row.status = "dead" =>
                               row.attempts >= MaxAttempts /\ row.error = "attempt"
                          /\ row.status = "running" => row.attempts > 0
  <2>a. jobs \in [Key -> Row] /\ jobs[k] \in Row /\ Fine(jobs[k])
    BY DEF DeadInv, DeadIsExplained, TypeOK
  <2>b. \A t : jobs[k].status = "running" => Fine(FailedRow(jobs[k], t))
    BY <2>a, QueueAssumption DEF FailedRow, AtLeast, Row
  <2>c. \A t : /\ Fine(NewRow(t)) /\ Fine(CompletedRow(jobs[k], t))
               /\ Fine(RequeuedRow(jobs[k], t)) /\ Fine(RecoveredRow(jobs[k], t))
               /\ Fine(PausedRow(jobs[k], t)) /\ Fine(ResumedRow(jobs[k], t))
    BY <2>a DEF NewRow, CompletedRow, RequeuedRow, RecoveredRow, PausedRow,
       ResumedRow, Row
  <2>d. \A w, t : Fine(ClaimedRow(jobs[k], w, t))
    BY <2>a DEF ClaimedRow, Row
  <2> HIDE DEF Fine
  <2>1. ASSUME WorkerStep PROVE Fine(jobs'[k])
    <3>1. PICK t \in Moment :
            \/ \E w \in Worker : ClaimNext(w, t)
            \/ \E c \in claims : Complete(c, t)
            \/ \E c \in claims : Fail(c, t)
            \/ RecoverExpiredLeases(t)
      BY <2>1, Zenon DEF WorkerStep
    <3>2. ASSUME NEW w \in Worker, ClaimNext(w, t) PROVE Fine(jobs'[k])
      BY <3>2, <2>a, <2>d DEF ClaimNext
    <3>3. ASSUME NEW c \in claims, Complete(c, t) PROVE Fine(jobs'[k])
      BY <3>3, <2>a, <2>c DEF Complete
    <3>4. ASSUME NEW c \in claims, Fail(c, t) PROVE Fine(jobs'[k])
      BY <3>4, <2>a, <2>b DEF Fail, Holds
    <3>5. ASSUME RecoverExpiredLeases(t) PROVE Fine(jobs'[k])
      BY <3>5, <2>a, <2>c DEF RecoverExpiredLeases
    <3>6. QED
      BY <3>1, <3>2, <3>3, <3>4, <3>5
  <2>2. ASSUME RequestStep PROVE Fine(jobs'[k])
    BY <2>2, <2>a, <2>c DEF RequestStep, Enqueue, Pause, Resume, Requeue
  <2>3. Fine(jobs'[k])
    BY <2>1, <2>2, <2>a DEF Next, Abandon, Tick, queueVars
  <2>4. QED
    BY <2>3 DEF Fine
<1>3. QED
  BY <1>1, <1>2, PTL DEF Spec, DeadInv

-----------------------------------------------------------------------------
\* A job with a live claim is running, and held by the worker of that claim.
LEMMA LiveHolder ==
  ASSUME LeaseInv, NEW k \in Key, NEW c \in claims, c.key = k, c.expires > now
  PROVE  jobs[k].status = "running" /\ HolderOf(k) = c.worker /\ c.worker # NoWorker
  BY QueueAssumption DEF LeaseInv, TypeOK, Claim, ClaimsMatchRows, Holds, HolderOf, Live

\* The contract does not see a step that changes neither a status it tells
\* apart nor a holder.
LEMMA ContractStutter ==
  ASSUME \A k \in Key : OutcomeOf(jobs'[k].status) = OutcomeOf(jobs[k].status),
         \A k \in Key : HolderOf(k)' = HolderOf(k)
  PROVE  UNCHANGED Contract!contractVars
  BY DEF Contract!contractVars

\* A job loses its holder.
LEMMA ContractLapse ==
  ASSUME \A k \in Key : OutcomeOf(jobs'[k].status) = OutcomeOf(jobs[k].status),
         NEW S \in SUBSET Key,
         \A k \in S : HolderOf(k) # NoWorker /\ HolderOf(k)' = NoWorker,
         \A k \in Key \ S : HolderOf(k)' = HolderOf(k)
  PROVE  Contract!Next
  BY DEF Contract!Next, Contract!Lapse

\* Every operation of the queue is a step of the contract or is invisible to it.
LEMMA NextImplementsContract ==
  LeaseInv /\ [Next]_queueVars => [Contract!Next]_(Contract!contractVars)
<1> DEFINE Goal == [Contract!Next]_(Contract!contractVars)
<1> SUFFICES ASSUME LeaseInv, [Next]_queueVars PROVE Goal
  OBVIOUS
<1> USE QueueAssumption
<1>a. /\ now \in Nat /\ jobs \in [Key -> Row]
      /\ \A t \in Moment : t \in Nat /\ t <= now
      /\ \A k \in Key : jobs[k] \in Row
  BY DEF LeaseInv, TypeOK
<1>b. ASSUME NEW c \in claims
      PROVE  c.key \in Key /\ c.worker \in Worker /\ c.expires \in Nat
  BY DEF LeaseInv, TypeOK, Claim
<1>c. ASSUME NEW k \in Key, jobs[k].status # "running" PROVE ~Live(k)
  BY <1>c DEF LeaseInv, ClaimsMatchRows, Live, Holds
<1>d. ASSUME UNCHANGED <<now, claims>>, NEW j \in Key, jobs'[j] = jobs[j] \/ ~Live(j)
      PROVE  HolderOf(j)' = HolderOf(j)
  BY <1>d DEF HolderOf, Live
<1>1. ASSUME NEW k \in Key, Enqueue(k, now) PROVE Goal
  <2>1. \A j \in Key : HolderOf(j)' = HolderOf(j)
    BY <1>1, <1>a, <1>c, <1>d DEF Enqueue
  <2>2. CASE jobs[k].status = "none"
    <3>1. jobs' = [jobs EXCEPT ![k] = NewRow(now)]
      BY <1>1, <2>2 DEF Enqueue
    <3>2. jobs'[k].status = "queued"
      BY <3>1, <1>a DEF NewRow
    <3>3. Contract!Submit(k)
      BY <2>1, <2>2, <3>1, <3>2, <1>a, Zenon DEF Contract!Submit, OutcomeOf
    <3>4. QED
      BY <3>3 DEF Contract!Next
  <2>3. CASE jobs[k].status # "none"
    BY <1>1, <2>1, <2>3, <1>a, ContractStutter DEF Enqueue
  <2>4. QED
    BY <2>2, <2>3
<1>2. ASSUME NEW t \in Moment, NEW w \in Worker, ClaimNext(w, t) PROVE Goal
  <2>1. PICK k \in Due(t) :
          /\ jobs' = [jobs EXCEPT ![k] = ClaimedRow(@, w, t)]
          /\ claims' = claims \cup
               {[worker |-> w, key |-> k, attempt |-> jobs[k].attempts + 1,
                 expires |-> t + Lease]}
    BY <1>2, Zenon DEF ClaimNext
  <2>2. k \in Key /\ jobs[k].status = "queued" /\ ~Live(k) /\ UNCHANGED now /\ Idle(w)
    BY <1>2, <1>c DEF Due, ClaimNext
  <2>3. jobs'[k].status = "running" /\ jobs'[k].owner = w
    BY <2>1, <2>2, <1>a DEF ClaimedRow, Row
  <2>4. \A j \in Key : OutcomeOf(jobs'[j].status) = OutcomeOf(jobs[j].status)
    BY <2>1, <2>2, <2>3, <1>a DEF OutcomeOf
  <2>5. \A j \in Key \ {k} : HolderOf(j)' = HolderOf(j)
    BY <2>1, <2>2, <1>a, SMTT(30) DEF HolderOf, Live
  <2>6. HolderOf(k)' = IF t + Lease > now THEN w ELSE NoWorker
    <3>1. Live(k)' <=> t + Lease > now
      <4> DEFINE new == [worker |-> w, key |-> k, attempt |-> jobs[k].attempts + 1,
                         expires |-> t + Lease]
      <4>1. new.key = k /\ new.expires = t + Lease
        OBVIOUS
      <4>2. claims' = claims \cup {new}
        BY <2>1
      <4> HIDE DEF new
      <4>3. QED
        BY <2>2, <4>1, <4>2 DEF Live
    <3>2. QED
      BY <2>3, <3>1 DEF HolderOf
  <2>7. HolderOf(k) = NoWorker
    BY <2>2 DEF HolderOf
  <2>8. \A j \in Key : HolderOf(j) # w
    BY <2>2, <1>b, LiveHolder, SMTT(30) DEF HolderOf, Live, Idle
  <2>9. CASE t + Lease > now
    <3>1. Contract!Grant(k, w)
      BY <2>2, <2>4, <2>5, <2>6, <2>7, <2>8, <2>9, Zenon DEF Contract!Grant, OutcomeOf
    <3>2. QED
      BY <3>1, <2>2 DEF Contract!Next
  <2>10. CASE ~(t + Lease > now)
    BY <2>4, <2>5, <2>6, <2>7, <2>10, ContractStutter
  <2>11. QED
    BY <2>9, <2>10
<1>3. ASSUME NEW c \in claims, claims' = claims \ {c}, UNCHANGED now,
             \A j \in Key \ {c.key} : jobs'[j] = jobs[j],
             Holds(c) \/ jobs'[c.key] = jobs[c.key]
      PROVE  /\ \A j \in Key \ {c.key} : HolderOf(j)' = HolderOf(j)
             /\ Holds(c) => HolderOf(c.key)' = NoWorker
             /\ ~Holds(c) => HolderOf(c.key)' = HolderOf(c.key)
  <2>1. \A j \in Key \ {c.key} : HolderOf(j)' = HolderOf(j)
    BY <1>3 DEF HolderOf, Live
  <2>2. ASSUME Holds(c) PROVE ~Live(c.key)'
    <3>1. ASSUME NEW d \in claims, d.key = c.key, d.expires > now PROVE d = c
      <4>1. Holds(d)
        BY <3>1 DEF LeaseInv, ClaimsMatchRows
      <4>2. QED
        BY <2>2, <3>1, <4>1, Zenon DEF Holds, LeaseInv, OneClaimEach
    <3>2. claims' = claims \ {c} /\ now' = now
      BY <1>3
    <3>3. QED
      BY <3>1, <3>2 DEF Live
  <2>3. ASSUME ~Holds(c) PROVE HolderOf(c.key)' = HolderOf(c.key)
    <3>1. Live(c.key)' <=> Live(c.key)
      BY <1>3, <2>3 DEF Live, LeaseInv, ClaimsMatchRows
    <3>2. jobs'[c.key] = jobs[c.key]
      BY <1>3, <2>3
    <3>3. QED
      BY <3>1, <3>2 DEF HolderOf
  <2>4. QED
    BY <2>1, <2>2, <2>3 DEF HolderOf
<1>4. ASSUME NEW c \in claims, claims' = claims \ {c}, UNCHANGED now,
             \A j \in Key \ {c.key} : jobs'[j] = jobs[j],
             Holds(c) \/ jobs'[c.key] = jobs[c.key],
             OutcomeOf(jobs'[c.key].status) = OutcomeOf(jobs[c.key].status)
      PROVE  Goal
  <2>1. CASE HolderOf(c.key)' = HolderOf(c.key)
    BY <1>3, <1>4, <2>1, <1>b, ContractStutter
  <2>2. CASE HolderOf(c.key)' # HolderOf(c.key)
    <3>1. HolderOf(c.key)' = NoWorker /\ HolderOf(c.key) # NoWorker
      BY <1>3, <1>4, <2>2
    <3>2. \A k \in Key : OutcomeOf(jobs'[k].status) = OutcomeOf(jobs[k].status)
      BY <1>4
    <3>3. \A k \in Key \ {c.key} : HolderOf(k)' = HolderOf(k)
      BY <1>3, <1>4
    <3>4. {c.key} \in SUBSET Key
      BY <1>b
    <3>5. QED
      BY <3>1, <3>2, <3>3, <3>4, ContractLapse, Zenon
  <2>3. QED
    BY <2>1, <2>2
<1>5. ASSUME NEW c \in claims, claims' = claims \ {c}, UNCHANGED now, Holds(c),
             \A j \in Key \ {c.key} : jobs'[j] = jobs[j],
             NEW v \in {"done", "dead"}, OutcomeOf(jobs'[c.key].status) = v
      PROVE  Goal
  <2>1. HolderOf(c.key)' = NoWorker /\ \A j \in Key \ {c.key} : HolderOf(j)' = HolderOf(j)
    BY <1>3, <1>5
  <2>2. OutcomeOf(jobs[c.key].status) = "open"
    BY <1>5, SMTT(30) DEF OutcomeOf, Holds
  <2>3. /\ OutcomeOf(jobs'[c.key].status) = v
        /\ \A j \in Key \ {c.key} : OutcomeOf(jobs'[j].status) = OutcomeOf(jobs[j].status)
    BY <1>5
  <2>4. Contract!Settle(c.key, v)
    BY <2>1, <2>2, <2>3, <1>b, ZenonT(30) DEF Contract!Settle
  <2>5. QED
    BY <2>4, <1>b DEF Contract!Next
<1>6. ASSUME NEW t \in Moment, NEW c \in claims, Complete(c, t) PROVE Goal
  <2>1. Holds(c) => OutcomeOf(jobs'[c.key].status) = "done"
    BY <1>6, <1>a, <1>b DEF Complete, CompletedRow, Row, OutcomeOf
  <2>2. QED
    BY <1>4, <1>5, <1>6, <2>1, <1>a, <1>b DEF Complete
<1>7. ASSUME NEW t \in Moment, NEW c \in claims, Fail(c, t) PROVE Goal
  <2>1. Holds(c) => \/ OutcomeOf(jobs'[c.key].status) = "dead"
                    \/ OutcomeOf(jobs'[c.key].status) = OutcomeOf(jobs[c.key].status)
    BY <1>7, <1>a, <1>b DEF Fail, FailedRow, Row, OutcomeOf, Holds
  <2>2. QED
    BY <1>4, <1>5, <1>7, <2>1, <1>a, <1>b DEF Fail
<1>8. ASSUME NEW c \in claims, Abandon(c) PROVE Goal
  BY <1>4, <1>8, <1>b DEF Abandon
<1>9. ASSUME NEW k \in Key, Pause(k, now) \/ Resume(k, now) PROVE Goal
  <2>1. OutcomeOf(jobs'[k].status) = OutcomeOf(jobs[k].status)
    <3>1. jobs[k].status \in {"queued", "paused"} /\ jobs'[k].status \in {"queued", "paused"}
      <4>1. CASE Pause(k, now)
        BY <4>1, <1>a DEF Pause, PausedRow, Row
      <4>2. CASE Resume(k, now)
        BY <4>2, <1>a DEF Resume, ResumedRow, Row
      <4>3. QED
        BY <1>9, <4>1, <4>2
    <3>2. QED
      BY <3>1 DEF OutcomeOf
  <2>2. \A j \in Key : HolderOf(j)' = HolderOf(j)
    BY <1>9, <1>a, <1>c, <1>d DEF Pause, Resume
  <2>3. QED
    BY <1>9, <2>1, <2>2, <1>a, ContractStutter DEF Pause, Resume
<1>10. ASSUME NEW k \in Key, Requeue(k, now) PROVE Goal
  <2>1. jobs[k].status = "dead" /\ jobs'[k].status = "queued"
    BY <1>10, <1>a DEF Requeue, RequeuedRow, Row
  <2>2. \A j \in Key : HolderOf(j)' = HolderOf(j)
    BY <1>10, <2>1, <1>a, <1>c, <1>d DEF Requeue
  <2>3. Contract!Reopen(k)
    BY <1>10, <2>1, <2>2, <1>a, Zenon DEF Requeue, Contract!Reopen, OutcomeOf
  <2>4. QED
    BY <2>3 DEF Contract!Next
<1>11. ASSUME NEW t \in Moment, RecoverExpiredLeases(t) PROVE Goal
  <2>1. ASSUME NEW k \in Key, Expired(k, t) PROVE ~Live(k)
    BY <2>1, <1>a, <1>b, SMTT(30) DEF Expired, Live, LeaseInv, ClaimsMatchRows
  <2>2. ASSUME NEW k \in Key PROVE HolderOf(k)' = HolderOf(k)
    BY <1>11, <2>1, <1>d DEF RecoverExpiredLeases
  <2>3. ASSUME NEW k \in Key
        PROVE  OutcomeOf(jobs'[k].status) = OutcomeOf(jobs[k].status)
    BY <1>11, <1>a, Zenon DEF RecoverExpiredLeases, RecoveredRow, Expired, Row, OutcomeOf
  <2>4. QED
    BY <2>2, <2>3, ContractStutter
<1>12. CASE Tick
  <2> DEFINE S == {k \in Key : Live(k) /\ ~Live(k)'}
  <2>1. ASSUME NEW k \in S PROVE HolderOf(k) # NoWorker /\ HolderOf(k)' = NoWorker
    BY <2>1, LiveHolder DEF HolderOf, Live
  <2>2. ASSUME NEW k \in Key \ S PROVE HolderOf(k)' = HolderOf(k)
    <3>1. Live(k)' => Live(k)
      BY <1>12, <1>a, <1>b, SMTT(30) DEF Tick, Live
    <3>2. QED
      BY <1>12, <3>1 DEF Tick, HolderOf
  <2>3. \A k \in Key : OutcomeOf(jobs'[k].status) = OutcomeOf(jobs[k].status)
    BY <1>12 DEF Tick
  <2>4. S \in SUBSET Key
    OBVIOUS
  <2> HIDE DEF S
  <2>5. QED
    BY <2>1, <2>2, <2>3, <2>4, ContractLapse
<1>13. CASE UNCHANGED queueVars
  BY <1>13, ContractStutter DEF queueVars, HolderOf, Live
<1>14. QED
  BY <1>1, <1>2, <1>6, <1>7, <1>8, <1>9, <1>10, <1>11, <1>12, <1>13
     DEF Next, WorkerStep, RequestStep

\* The queue implements the contract its callers rely on.
THEOREM QueueImplementsContract == Spec => ImplementsContract
<1>1. Init => Contract!Init
  BY DEF Init, NoRow, Contract!Init, OutcomeOf, HolderOf, Live
<1>2. QED
  BY <1>1, NextImplementsContract, LeaseInvariant, PTL
     DEF Spec, ImplementsContract, Contract!Spec
=============================================================================
