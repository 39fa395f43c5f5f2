----------------------- MODULE ReconcileWorkerProofs ------------------------
(***************************************************************************)
(* Machine-checked proofs about the reconciliation worker, for any number  *)
(* of workers, jobs and resources and whatever interrupts them.            *)
(*                                                                         *)
(* Every pass is made of operations of the queue, so what is proved of the *)
(* queue holds of the workers' system.  What a pass knows, the outcome of  *)
(* its call and the copy of a row, is tied to the claim it works on: the   *)
(* invariants speak of claims, not of where a worker is.                   *)
(***************************************************************************)
EXTENDS ReconcileWorker, JobQueueProofs

Label == {"tick", "claim"} \cup Busy \cup Ended

\* The provider call of the pass has been made, or refused.
Called == {"read", "write", "get", "put", "settle"}

PassInv ==
  /\ pc \in [Worker -> Label]
  /\ seen \in [Worker -> Nat]
  /\ \A w \in Worker : seen[w] <= now
  /\ outcome \in [Worker -> Outcome \cup {"none"}]
  /\ \A w \in Worker : pc[w] \in Called => outcome[w] \in Outcome
  /\ \A w \in Worker : pc[w] \in Busy <=> ~Idle(w)

\* A worker with a job in hand has one claim, the one ClaimOf names.
LEMMA ClaimInHand ==
  ASSUME LeaseInv, NEW w \in Worker, ~Idle(w)
  PROVE  /\ ClaimOf(w) \in claims
         /\ ClaimOf(w).worker = w
         /\ \A c \in claims : c.worker = w => c = ClaimOf(w)
  BY DEF Idle, ClaimOf, LeaseInv, OneClaimEach

\* Dropping a pass abandons its claim, if it has one.
LEMMA DropIsAbandon ==
  ASSUME LeaseInv, NEW w \in Worker, Drop(w)
  PROVE  /\ [Next]_queueVars
         /\ UNCHANGED <<now, jobs>>
         /\ claims' = {c \in claims : c.worker # w}
<1>1. CASE Idle(w)
  BY <1>1 DEF Drop, Idle, queueVars
<1>2. CASE ~Idle(w)
  <2>1. Abandon(ClaimOf(w))
    BY <1>2 DEF Drop
  <2>2. QED
    BY <1>2, <2>1, ClaimInHand DEF Abandon, Next
<1>3. QED
  BY <1>1, <1>2

\* Every step of the workers is a step of the queue, or leaves it alone.
LEMMA WorkersUseTheQueue ==
  ASSUME LeaseInv, PassInv, [WorkerNext]_vars
  PROVE  [Next]_queueVars
<1>a. \A w \in Worker : seen[w] \in Moment
  BY QueueAssumption, WorkerAssumption DEF LeaseInv, TypeOK, PassInv, Moment
<1>b. now \in Moment
  BY QueueAssumption DEF LeaseInv, TypeOK, Moment
<1>1. CASE Request
  BY <1>1 DEF Request, Next, RequestStep
<1>2. ASSUME NEW w \in Worker, Recover(w) PROVE [Next]_queueVars
  BY <1>2, <1>b DEF Recover, Next, WorkerStep
<1>3. ASSUME NEW w \in Worker, Take(w) PROVE [Next]_queueVars
  BY <1>3, <1>a, Zenon DEF Take, Next, WorkerStep
<1>4. ASSUME NEW w \in Worker, Settle(w) PROVE [Next]_queueVars
  <2>1. ClaimOf(w) \in claims
    BY <1>4, ClaimInHand, Zenon DEF Settle, PassInv, Busy
  <2>2. Fail(ClaimOf(w), seen[w]) \/ Complete(ClaimOf(w), seen[w])
    BY <1>4, Zenon DEF Settle
  <2>3. QED
    BY <2>1, <2>2, <1>a, Zenon DEF Next, WorkerStep
<1>5. ASSUME NEW w \in Worker, Get(w) \/ Break(w) PROVE [Next]_queueVars
  <2>1. Drop(w) \/ UNCHANGED queueVars
    BY <1>5, Zenon DEF Get, Break
  <2>2. QED
    BY <2>1, DropIsAbandon, Zenon
<1>6. CASE Clock
  BY <1>6, Zenon DEF Clock, Next
<1>7. ASSUME NEW w \in Worker,
             \/ Stopped(w) \/ NothingDue(w) \/ Execute(w) \/ Read(w) \/ Write(w)
             \/ Put(w) \/ Restart(w) \/ Stop(w)
      PROVE  UNCHANGED queueVars
  BY <1>7, Zenon DEF Stopped, NothingDue, Execute, Read, Write, Put, Restart, Stop
<1>8. CASE UNCHANGED vars
  BY <1>8, Zenon DEF vars
<1>9. QED
  BY <1>1, <1>2, <1>3, <1>4, <1>5, <1>6, <1>7, <1>8 DEF WorkerNext, Step

\* What a step of one worker has to establish: the others keep what they have
\* in hand, and the worker has a job in hand exactly where it says so.
LEMMA WorkerMoves ==
  ASSUME LeaseInv, PassInv, NEW w \in Worker, NEW l \in Label,
         NEW t \in 0 .. now, NEW o \in Outcome \cup {"none"},
         pc' = [pc EXCEPT ![w] = l],
         seen' = [seen EXCEPT ![w] = t],
         outcome' = [outcome EXCEPT ![w] = o],
         l \in Called => o \in Outcome,
         UNCHANGED now,
         \A v \in Worker \ {w} : Idle(v)' <=> Idle(v),
         l \in Busy <=> ~Idle(w)'
  PROVE  PassInv'
<1>1. pc' \in [Worker -> Label] /\ outcome' \in [Worker -> Outcome \cup {"none"}]
  BY Zenon DEF PassInv
<1>2. seen' \in [Worker -> Nat] /\ \A v \in Worker : seen'[v] <= now
  BY DEF PassInv, LeaseInv, TypeOK
<1>3. \A v \in Worker : pc'[v] \in Called => outcome'[v] \in Outcome
  BY Zenon DEF PassInv
<1>4. \A v \in Worker : pc'[v] \in Busy <=> ~Idle(v)'
  BY Zenon DEF PassInv
<1>5. QED
  BY <1>1, <1>2, <1>3, <1>4, Zenon DEF PassInv

\* Ending a pass, whatever it came to, leaves the worker with nothing in hand.
LEMMA PassEnds ==
  ASSUME LeaseInv, PassInv, NEW w \in Worker, NEW l \in Label \ Busy,
         Goto(w, l), EndPass(w), UNCHANGED now,
         claims' = {c \in claims : c.worker # w}
  PROVE  PassInv'
<1>1. 0 \in 0 .. now /\ "none" \in Outcome \cup {"none"}
  BY DEF LeaseInv, TypeOK
<1>2. (\A v \in Worker \ {w} : Idle(v)' <=> Idle(v)) /\ Idle(w)'
  BY Zenon DEF Idle
<1>3. l \notin Called
  BY Zenon DEF Busy, Called
<1>4. QED
  BY <1>1, <1>2, <1>3, WorkerMoves, Zenon DEF Goto, EndPass

\* The steps of a worker keep the locals of its pass in order.
LEMMA StepsKeepPass ==
  ASSUME LeaseInv, PassInv, NEW w \in Worker,
         Step(w) \/ Break(w) \/ Restart(w) \/ Stop(w)
  PROVE  PassInv'
<1>a. /\ seen[w] \in 0 .. now /\ now \in 0 .. now
      /\ outcome[w] \in Outcome \cup {"none"}
      /\ seen = [seen EXCEPT ![w] = seen[w]]
      /\ outcome = [outcome EXCEPT ![w] = outcome[w]]
      /\ pc[w] \in Called => outcome[w] \in Outcome
      /\ pc[w] \in Busy <=> ~Idle(w)
  BY DEF PassInv, LeaseInv, TypeOK
<1>b. ASSUME UNCHANGED queueVars
      PROVE  UNCHANGED now /\ \A v \in Worker : Idle(v)' <=> Idle(v)
  BY <1>b, Zenon DEF queueVars, Idle
<1>l. /\ {"stopped", "claim", "execute", "tick", "failed", "crashed"} \subseteq Label
      /\ Called \subseteq Label /\ Called \subseteq Busy
      /\ {"stopped", "claim", "tick", "failed", "crashed"} \cap Busy = {}
      /\ "execute" \in Busy \ Called
  BY Zenon DEF Label, Called, Busy, Ended
<1>1. CASE Stopped(w)
  BY <1>1, <1>a, <1>b, <1>l, WorkerMoves, Zenon DEF Stopped, Goto, Called
<1>2. CASE Recover(w)
  BY <1>2, <1>a, <1>l, WorkerMoves, Zenon DEF Recover, RecoverExpiredLeases, Goto, Idle, Called
<1>3. CASE Take(w)
  <2>1. /\ pc' = [pc EXCEPT ![w] = "execute"]
        /\ seen' = [seen EXCEPT ![w] = now]
        /\ UNCHANGED <<now, outcome>>
    BY <1>3, Zenon DEF Take, ClaimNext, Goto
  <2>2. PICK c : c.worker = w /\ claims' = claims \cup {c}
    BY <1>3, Zenon DEF Take, ClaimNext
  <2>3. (\A v \in Worker \ {w} : Idle(v)' <=> Idle(v)) /\ ~Idle(w)'
    BY <2>2, Zenon DEF Idle
  <2>4. QED
    BY <2>1, <2>3, <1>a, <1>l, WorkerMoves, Zenon
<1>4. CASE NothingDue(w)
  BY <1>4, <1>a, <1>l, PassEnds, Zenon DEF NothingDue, queueVars, Idle
<1>5. CASE Execute(w)
  <2>1. PICK t \in seen[w] .. now : seen' = [seen EXCEPT ![w] = t]
    BY <1>5, Zenon DEF Execute
  <2>2. t \in 0 .. now
    BY <1>a DEF PassInv, LeaseInv, TypeOK
  <2>3. PICK o \in Outcome, l \in {"read", "settle"} :
          outcome' = [outcome EXCEPT ![w] = o] /\ pc' = [pc EXCEPT ![w] = l]
    BY <1>5, Zenon DEF Execute, Gated, CallAdapter, Refused, Goto, Outcome
  <2>4. QED
    BY <1>5, <2>1, <2>2, <2>3, <1>a, <1>b, <1>l, WorkerMoves, Zenon DEF Execute, Called, Busy
<1>6. CASE Read(w) \/ Write(w) \/ Put(w)
  <2>1. PICK o \in Outcome, l \in Called :
          outcome' = [outcome EXCEPT ![w] = o] /\ pc' = [pc EXCEPT ![w] = l]
    BY <1>6, <1>a, Zenon DEF Read, Write, Put, Recorded, AfterDispatch, Goto, Outcome, Called
  <2>2. pc[w] \in Busy /\ UNCHANGED <<queueVars, seen>>
    BY <1>6, Zenon DEF Read, Write, Put, Busy
  <2>3. QED
    BY <2>1, <2>2, <1>a, <1>b, <1>l, WorkerMoves, Zenon
<1>7. CASE Get(w)
  <2>1. CASE Accepts(w)
    BY <1>7, <2>1, <1>a, <1>b, <1>l, WorkerMoves DEF Get, Goto, Called, Busy
  <2>2. CASE ~Accepts(w)
    BY <1>7, <2>2, <1>l, DropIsAbandon, PassEnds, Zenon DEF Get
  <2>3. QED
    BY <2>1, <2>2, Zenon
<1>8. CASE Settle(w)
  <2>1. ClaimOf(w) \in claims /\ \A c \in claims : c.worker = w <=> c = ClaimOf(w)
    BY <1>8, <1>a, ClaimInHand, Zenon DEF Settle, Busy
  <2>2. claims' = {c \in claims : c.worker # w} /\ UNCHANGED now
    BY <1>8, <2>1, Zenon DEF Settle, Fail, Complete
  <2>3. Goto(w, "tick") \/ Goto(w, "failed")
    BY <1>8, Zenon DEF Settle
  <2>4. QED
    BY <1>8, <2>2, <2>3, <1>l, PassEnds DEF Settle
<1>9. CASE Break(w)
  BY <1>9, <1>l, DropIsAbandon, PassEnds, Zenon DEF Break
<1>10. CASE Restart(w)
  BY <1>10, <1>a, <1>b, <1>l, WorkerMoves, Zenon DEF Restart, Goto, Ended, Called, Busy
<1>11. CASE Stop(w)
  BY <1>11, Zenon DEF Stop, PassInv, queueVars, Idle
<1>12. QED
  BY <1>1, <1>2, <1>3, <1>4, <1>5, <1>6, <1>7, <1>8, <1>9, <1>10, <1>11, Zenon DEF Step

WorkerQueueInv == LeaseInv /\ PassInv

\* Both invariants are kept by every step of the system.
LEMMA WorkerNextKeeps ==
  ASSUME WorkerQueueInv, [WorkerNext]_vars
  PROVE  WorkerQueueInv'
<1>1. LeaseInv'
  BY WorkersUseTheQueue, NextType, NextOneClaimEach, NextClaimsMatchRows, Zenon
     DEF WorkerQueueInv, LeaseInv
<1>2. ASSUME UNCHANGED <<claims, workerVars>>, now' >= now PROVE PassInv'
  <2>1. \A w \in Worker : Idle(w)' <=> Idle(w)
    BY <1>2, Zenon DEF Idle
  <2>2. \A w \in Worker : seen[w] <= now'
    BY <1>1, <1>2 DEF WorkerQueueInv, PassInv, LeaseInv, TypeOK
  <2>3. QED
    BY <1>2, <2>1, <2>2, Zenon DEF WorkerQueueInv, PassInv, workerVars
<1>3. now \in Nat
  BY DEF WorkerQueueInv, LeaseInv, TypeOK
<1>4. ASSUME Request PROVE PassInv'
  BY <1>2, <1>3, <1>4 DEF Request, Enqueue
<1>5. ASSUME Clock PROVE PassInv'
  BY <1>2, <1>3, <1>5 DEF Clock, Tick
<1>6. ASSUME UNCHANGED vars PROVE PassInv'
  BY <1>2, <1>3, <1>6 DEF vars, queueVars
<1>7. PassInv'
  BY <1>4, <1>5, <1>6, StepsKeepPass, Zenon DEF WorkerNext, WorkerQueueInv
<1>8. QED
  BY <1>1, <1>7, Zenon DEF WorkerQueueInv

\* Workers start with nothing in hand.
LEMMA WorkerInitKeeps == WorkerInit => WorkerQueueInv
<1> SUFFICES ASSUME WorkerInit PROVE WorkerQueueInv
  OBVIOUS
<1>1. LeaseInv
  BY InitType, Zenon DEF WorkerInit, Init, LeaseInv, ClaimsMatchRows, OneClaimEach
<1>2. PassInv
  BY DEF WorkerInit, Init, PassInv, Label, Called, Busy, Idle
<1>3. QED
  BY <1>1, <1>2, Zenon DEF WorkerQueueInv

\* The invariant of the workers: the queue's own, and each worker has a claim
\* exactly while its pass has a job in hand.
THEOREM WorkerInvariant == WorkerSpec => []WorkerQueueInv
  BY WorkerInitKeeps, WorkerNextKeeps, PTL DEF WorkerSpec

\* The workers' system is an implementation of the queue: every pass is made of
\* its operations, with a clock reading that is not from the future, and a
\* claim that is dropped is abandoned (Worker::tick_once, Worker::finalize).
THEOREM WorkersImplementQueue == WorkerSpec => ImplementsQueue
<1>1. WorkerInit => Init
  BY Zenon DEF WorkerInit
<1>2. WorkerQueueInv /\ [WorkerNext]_vars => [Next]_queueVars
  BY WorkersUseTheQueue DEF WorkerQueueInv
<1>3. QED
  BY <1>1, <1>2, WorkerInvariant, PTL DEF WorkerSpec, ImplementsQueue, Spec

-----------------------------------------------------------------------------
\* A step of one worker leaves the passes of the others alone, and a claim that
\* is new belongs to the pass that has just started.
LEMMA StepsAreLocal ==
  ASSUME LeaseInv, PassInv, NEW w \in Worker,
         Step(w) \/ Break(w) \/ Restart(w) \/ Stop(w)
  PROVE  /\ \A v \in Worker \ {w} : pc'[v] = pc[v] /\ outcome'[v] = outcome[v]
         /\ \A c \in claims' : c \in claims \/ (c.worker = w /\ pc'[w] = "execute")
<1>p. pc \in [Worker -> Label] /\ outcome \in [Worker -> Outcome \cup {"none"}]
  BY Zenon DEF PassInv
<1>1. \A v \in Worker \ {w} : pc'[v] = pc[v]
  BY <1>p, Zenon DEF Step, Stopped, Recover, Take, NothingDue, Execute, Gated, CallAdapter, Refused,
              Read, Write, Recorded, Get, Put, Settle, Break, Restart, Stop, Goto
<1>2. \A v \in Worker \ {w} : outcome'[v] = outcome[v]
  BY <1>p, Zenon DEF Step, Stopped, Recover, Take, NothingDue, Execute, Gated, CallAdapter, Refused,
              Read, Write, Recorded, Get, Put, Settle, Break, Restart, Stop, EndPass
<1>3. CASE Take(w)
  <2>1. PICK c : c.worker = w /\ claims' = claims \cup {c}
    BY <1>3, Zenon DEF Take, ClaimNext
  <2>2. pc'[w] = "execute"
    BY <1>3, <1>p, Zenon DEF Take, Goto
  <2>3. QED
    BY <1>1, <1>2, <2>1, <2>2
<1>4. CASE ~Take(w)
  <2>1. ASSUME Get(w) \/ Break(w) PROVE claims' \subseteq claims
    BY <2>1, DropIsAbandon, Zenon DEF Get, Break, queueVars
  <2>2. ASSUME ~Get(w), ~Break(w) PROVE claims' \subseteq claims
    BY <1>4, <2>2, Zenon DEF Step, Stopped, Recover, RecoverExpiredLeases, NothingDue, Execute, Read,
                      Write, Put, Settle, Fail, Complete, Restart, Stop, queueVars
  <2>3. claims' \subseteq claims
    BY <2>1, <2>2, Zenon
  <2>4. QED
    BY <1>1, <1>2, <2>3, Zenon
<1>5. QED
  BY <1>3, <1>4, Zenon

\* A pass whose outcome is not a failure made its call: the operation of its
\* job is on record, and the job needs no approval.
RecordInv ==
  /\ operations \in [Key -> Phase \cup {"none"}]
  /\ \A c \in claims :
       pc[c.worker] \in Called /\ outcome[c.worker] # "failed" =>
         operations[c.key] # "none" /\ c.key \notin Destructive
  /\ SucceededOnRecord

\* Operations stay on record, and nothing but a settled job succeeds.
LEMMA OperationsStay ==
  ASSUME WorkerQueueInv, RecordInv, NEW w \in Worker,
         Step(w) \/ Break(w) \/ Restart(w) \/ Stop(w)
  PROVE  /\ operations' \in [Key -> Phase \cup {"none"}]
         /\ \A k \in Key : operations[k] # "none" => operations'[k] # "none"
<1>1. CASE Execute(w)
  <2>1. \A o \in Outcome : target_phase[o] \in Phase
    BY DEF Outcome, target_phase, Phase
  <2>2. "failed" \in Phase /\ "none" \notin Phase
    BY Zenon DEF Phase
  <2>3. \/ UNCHANGED operations
        \/ \E k \in Key, phase \in Phase : record_operation(k, phase)
    <3>1. ClaimOf(w).key \in Key
      BY <1>1, ClaimInHand DEF Execute, WorkerQueueInv, PassInv, Busy, LeaseInv, TypeOK, Claim
    <3>2. QED
      BY <1>1, <2>1, <2>2, <3>1, Zenon DEF Execute, Gated, CallAdapter, Refused
  <2>4. QED
    BY <2>2, <2>3, Zenon DEF record_operation, RecordInv
<1>2. CASE ~Execute(w)
  <2>1. UNCHANGED operations
    BY <1>2, Zenon DEF Step, Stopped, Recover, Take, NothingDue, Read, Write, Get, Put, Settle, Break,
                Restart, Stop
  <2>2. QED
    BY <2>1, Zenon DEF RecordInv
<1>3. QED
  BY <1>1, <1>2, Zenon

\* A pass that has made its call goes on with the outcome of that call, or
\* with a failure.
LEMMA OutcomesStand ==
  ASSUME WorkerQueueInv, NEW w \in Worker,
         Step(w) \/ Break(w) \/ Restart(w) \/ Stop(w),
         pc'[w] \in Called, outcome'[w] # "failed"
  PROVE  \/ Execute(w)
         \/ pc[w] \in Called /\ outcome[w] = outcome'[w]
<1>p. /\ pc \in [Worker -> Label] /\ outcome \in [Worker -> Outcome \cup {"none"}]
  BY Zenon DEF WorkerQueueInv, PassInv
<1>1. ~(Stopped(w) \/ Recover(w) \/ Take(w) \/ NothingDue(w) \/ Restart(w))
  BY <1>p, Zenon DEF Stopped, Recover, Take, NothingDue, Restart, Goto, Called
<1>2. ~(Settle(w) \/ Break(w))
  BY <1>p, Zenon DEF Settle, Break, Goto, Called
<1>3. CASE Read(w) \/ Write(w) \/ Put(w)
  BY <1>3, <1>p, Zenon DEF Read, Write, Put, Recorded, Called
<1>4. CASE Get(w)
  BY <1>4, <1>p, Zenon DEF Get, Goto, Called
<1>5. CASE Stop(w)
  BY <1>5, Zenon DEF Stop
<1>6. QED
  BY <1>1, <1>2, <1>3, <1>4, <1>5 DEF Step

\* A job succeeds by a pass that settles it with another outcome than failure.
LEMMA OnlySettlingSucceeds ==
  ASSUME WorkerQueueInv, [WorkerNext]_vars, NEW k \in Key,
         jobs'[k].status = "succeeded", jobs[k].status # "succeeded"
  PROVE  \E c \in claims :
           c.key = k /\ pc[c.worker] = "settle" /\ outcome[c.worker] # "failed"
<1>t. jobs \in [Key -> Row] /\ claims \subseteq Claim
  BY Zenon DEF WorkerQueueInv, LeaseInv, TypeOK
<1>1. ~(Request \/ Clock \/ UNCHANGED vars)
  <2>1. ASSUME NEW j \in Key, Enqueue(j, now) PROVE FALSE
    <3>1. jobs'[k] = jobs[k] \/ jobs'[k] = NewRow(now)
      BY <1>t, <2>1, Zenon DEF Enqueue
    <3>2. QED
      BY <3>1 DEF NewRow
  <2>2. ~(Clock \/ UNCHANGED vars)
    BY Zenon DEF Clock, Tick, vars, queueVars
  <2>3. QED
    BY <2>1, <2>2, Zenon DEF Request
<1>2. ASSUME NEW w \in Worker, Step(w) \/ Break(w) \/ Restart(w) \/ Stop(w), ~Settle(w)
      PROVE  FALSE
  <2>1. CASE Recover(w)
    BY <2>1, <1>t, Zenon DEF Recover, RecoverExpiredLeases, RecoveredRow, Row
  <2>2. CASE Take(w)
    BY <2>2, <1>t DEF Take, ClaimNext, ClaimedRow, Row
  <2>3. CASE Get(w) \/ Break(w)
    BY <2>3, DropIsAbandon, Zenon DEF Get, Break, queueVars, WorkerQueueInv
  <2>4. QED
    BY <1>2, <2>1, <2>2, <2>3, Zenon
       DEF Step, Stopped, NothingDue, Execute, Read, Write, Put, Restart, Stop, queueVars
<1>3. PICK w \in Worker : Settle(w)
  BY <1>1, <1>2, Zenon DEF WorkerNext
<1>4. ClaimOf(w) \in claims /\ ClaimOf(w).worker = w
  BY <1>3, ClaimInHand, Zenon DEF Settle, WorkerQueueInv, PassInv, Busy
<1>5. ClaimOf(w).key = k /\ outcome[w] # "failed"
  <2>1. \A row \in Row, t \in Nat : FailedRow(row, t).status # "succeeded"
    BY FailedRowType, Zenon DEF FailedRow, Row
  <2>2. seen[w] \in Nat /\ ClaimOf(w).key \in Key
    BY <1>t, <1>4, Zenon DEF WorkerQueueInv, PassInv, Claim
  <2>3. ~Fail(ClaimOf(w), seen[w])
    BY <1>t, <2>1, <2>2 DEF Fail
  <2>4. Complete(ClaimOf(w), seen[w]) /\ outcome[w] # "failed"
    BY <1>3, <2>3, Zenon DEF Settle
  <2>5. QED
    BY <1>t, <2>2, <2>4, Zenon DEF Complete
<1>6. QED
  BY <1>3, <1>4, <1>5, Zenon DEF Settle

\* Every step preserves that success is on record.
LEMMA NextKeepsRecord ==
  ASSUME WorkerQueueInv, RecordInv, [WorkerNext]_vars
  PROVE  RecordInv'
<1>t. claims \subseteq Claim
  BY Zenon DEF WorkerQueueInv, LeaseInv, TypeOK
<1>1. ASSUME Request \/ Clock \/ UNCHANGED vars
      PROVE  UNCHANGED <<operations, claims, pc, outcome>>
  BY <1>1, Zenon DEF Request, Enqueue, Clock, Tick, vars, queueVars, workerVars
<1>2. /\ operations' \in [Key -> Phase \cup {"none"}]
      /\ \A k \in Key : operations[k] # "none" => operations'[k] # "none"
  BY <1>1, OperationsStay, Zenon DEF WorkerNext, RecordInv
<1>3. ASSUME NEW w \in Worker, Step(w) \/ Break(w) \/ Restart(w) \/ Stop(w),
             NEW c \in claims', pc'[c.worker] \in Called, outcome'[c.worker] # "failed"
      PROVE  operations'[c.key] # "none" /\ c.key \notin Destructive
  <2>1. c \in claims /\ c \in Claim
    BY <1>3, <1>t, StepsAreLocal, Zenon DEF WorkerQueueInv, Called
  <2>2. CASE c.worker # w
    BY <1>2, <1>3, <2>1, <2>2, StepsAreLocal DEF WorkerQueueInv, RecordInv, Claim
  <2>3. CASE c.worker = w /\ Execute(w)
    <3>1. c = ClaimOf(w)
      BY <2>1, <2>3, ClaimInHand, Zenon DEF WorkerQueueInv, Idle
    <3>2. outcome'[w] # "failed" /\ outcome \in [Worker -> Outcome \cup {"none"}]
      BY <1>3, <2>3, Zenon DEF WorkerQueueInv, PassInv
    <3>3. CallAdapter(w, c.key)
      BY <2>3, <3>1, <3>2, Zenon DEF Execute, Gated, Refused
    <3>4. \A o \in Outcome : target_phase[o] # "none"
      BY DEF Outcome, target_phase
    <3>5. QED
      BY <2>1, <3>3, <3>4 DEF CallAdapter, record_operation, RecordInv, Claim
  <2>4. CASE c.worker = w /\ ~Execute(w)
    BY <1>2, <1>3, <2>1, <2>4, OutcomesStand DEF RecordInv, Claim
  <2>5. QED
    BY <2>2, <2>3, <2>4, Zenon
<1>4. \A c \in claims' :
        pc'[c.worker] \in Called /\ outcome'[c.worker] # "failed" =>
          operations'[c.key] # "none" /\ c.key \notin Destructive
  BY <1>1, <1>3, Zenon DEF WorkerNext, RecordInv
<1>5. SucceededOnRecord'
  <2>1. ASSUME NEW k \in Key, jobs'[k].status = "succeeded"
        PROVE  operations[k] # "none" /\ k \notin Destructive
    BY <2>1, OnlySettlingSucceeds DEF RecordInv, SucceededOnRecord, Called
  <2>2. QED
    BY <1>2, <2>1, Zenon DEF SucceededOnRecord
<1>6. QED
  BY <1>2, <1>4, <1>5, Zenon DEF RecordInv

\* Nothing succeeds off the record: a job that reads as succeeded has its
\* provider operation on record, and is not one that needed an approval.
THEOREM SuccessIsOnRecord == WorkerSpec => []SucceededOnRecord
<1>1. WorkerInit => RecordInv
  BY DEF WorkerInit, Init, RecordInv, SucceededOnRecord, NoRow, Phase
<1>2. WorkerQueueInv /\ RecordInv /\ [WorkerNext]_vars => RecordInv'
  BY NextKeepsRecord, Zenon
<1>3. RecordInv => SucceededOnRecord
  BY Zenon DEF RecordInv
<1>4. QED
  BY <1>1, <1>2, <1>3, WorkerInvariant, PTL DEF WorkerSpec

-----------------------------------------------------------------------------
\* The lifecycle graph leads from phases to phases.
LEMMA MovesArePhases ==
  ASSUME NEW p \in Phase
  PROVE  Moves[p] \subseteq Phase
  BY DEF Phase, Moves

\* Adding a legal move to the evidence of a legal copy is legal evidence for
\* the phase moved to, whatever the row has become in the meantime.
LEMMA MoveIsLegal ==
  ASSUME NEW row \in ResourceRow, NEW old \in ResourceRow, LegalTrail(old),
         NEW to \in Moves[old.phase],
         NEW new, new \in {Observed(row, old, to), Writes(row, old, to)}
  PROVE  /\ new \in ResourceRow /\ LegalTrail(new)
         /\ ShowsFailure(new) => ShowsFailure(old) \/ to = "failed"
<1>1. to \in Phase
  BY MovesArePhases, Zenon DEF ResourceRow
<1> DEFINE trail == Append(old.trail, to)
<1>2. /\ old.trail \in Seq(Phase) /\ old.trail # <<>>
      /\ trail \in Seq(Phase) /\ Len(trail) = Len(old.trail) + 1
      /\ \A i \in 1 .. Len(old.trail) : trail[i] = old.trail[i]
      /\ trail[Len(old.trail) + 1] = to
  BY <1>1 DEF ResourceRow, LegalTrail
<1>3. new \in ResourceRow /\ new.trail = trail /\ new.phase = to
  <2>1. /\ Observed(row, old, to) \in ResourceRow
        /\ Observed(row, old, to).trail = trail
        /\ Observed(row, old, to).phase = to
    BY <1>1, <1>2, Zenon DEF Observed, ResourceRow
  <2>2. to = "failed" =>
          /\ Failed(row, old) \in ResourceRow
          /\ Failed(row, old).trail = trail
          /\ Failed(row, old).phase = to
    <3>1. old.generation + 1 \in Nat /\ "failed" \in Phase
      BY DEF ResourceRow, Phase
    <3>2. Append(old.trail, "failed") \in Seq(Phase)
      BY <1>2, <3>1
    <3>3. QED
      BY <3>1, <3>2, Zenon DEF Failed, ResourceRow
  <2>3. QED
    BY <2>1, <2>2, Zenon DEF Writes
<1>n. Len(old.trail) \in Nat \ {0}
  BY <1>2
<1> HIDE DEF trail
<1>5. trail # <<>> /\ Head(trail) = "requested" /\ Last(trail) = to
  BY <1>2, <1>n DEF LegalTrail, Last
<1>6. ASSUME NEW i \in 1 .. Len(trail) - 1 PROVE trail[i + 1] \in Moves[trail[i]]
  <2>1. CASE i = Len(old.trail)
    BY <1>2, <1>n, <2>1 DEF LegalTrail, Last
  <2>2. CASE i # Len(old.trail)
    BY <1>2, <1>n, <2>2 DEF LegalTrail
  <2>3. QED
    BY <2>1, <2>2, Zenon
<1>7. LegalTrail(new)
  BY <1>3, <1>5, <1>6, Zenon DEF LegalTrail
<1>8. ShowsFailure(new) => ShowsFailure(old) \/ to = "failed"
  BY <1>2, <1>n, <1>3 DEF ShowsFailure
<1>9. QED
  BY <1>3, <1>7, <1>8, Zenon

\* A row with legal evidence, and a generation that tells of a failure.
Sound(row) ==
  /\ row \in ResourceRow
  /\ LegalTrail(row)
  /\ ShowsFailure(row) => row.generation > 0

\* The pass that works on claim c is between its read and its write.  A failure
\* in its copy was in the row when it was read, so the row has left
\* generation 0, and no write takes it back there.
CopyInHand(c) ==
  /\ TargetOf[c.key] \in DOMAIN resources
  /\ target_phase[outcome[c.worker]] \in Moves[copy[c.worker].phase]
  /\ ShowsFailure(copy[c.worker]) => resources[TargetOf[c.key]].generation > 0

EvidenceInv ==
  /\ \A r \in DOMAIN resources : Sound(resources[r])
  /\ copy \in [Worker -> ResourceRow]
  /\ \A w \in Worker : Sound(copy[w])
  /\ \A w \in Worker : pc[w] \in {"get", "put"} => outcome[w] \in {"ready", "degraded"}
  /\ \A c \in claims : pc[c.worker] \in {"write", "put"} => CopyInHand(c)

\* The row a resource starts with.
LEMMA RequestIsSound == request \in ResourceRow /\ Sound(request)
<1>1. request \in ResourceRow
  BY DEF request, ResourceRow, Phase
<1>2. QED
  BY <1>1 DEF Sound, request, LegalTrail, ShowsFailure, Last

\* Once a row has left generation 0 no write of a sound copy takes it back.
LEMMA GenerationStays ==
  ASSUME NEW row \in ResourceRow, NEW old \in ResourceRow, NEW to,
         NEW new, new \in {Observed(row, old, to), Writes(row, old, to)}
  PROVE  /\ new.generation >= row.generation \/ new.generation > 0
         /\ new = Writes(row, old, to) /\ to = "failed" => new.generation > 0
         /\ new.generation # row.generation => to = "failed"
<1>1. /\ Observed(row, old, to).generation = row.generation
      /\ Failed(row, old).generation = old.generation + 1
  BY Zenon DEF Observed, Failed, ResourceRow
<1>2. row.generation \in Nat /\ old.generation \in Nat
  BY Zenon DEF ResourceRow
<1>3. QED
  BY <1>1, <1>2 DEF Writes

\* What a step of a worker does to resources and to its own copy.
LEMMA StepsWrite ==
  ASSUME WorkerQueueInv, EvidenceInv, NEW w \in Worker,
         Step(w) \/ Break(w) \/ Restart(w) \/ Stop(w)
  PROVE  /\ ~(Write(w) \/ Put(w)) => UNCHANGED resources
         /\ \/ UNCHANGED copy
            \/ copy' = [copy EXCEPT ![w] = request]
            \/ /\ Accepts(w) /\ (Read(w) \/ Get(w))
               /\ copy' = [copy EXCEPT ![w] = resources[ResourceOf(w)]]
  BY Zenon DEF Step, Stopped, Recover, Take, NothingDue, Execute, Read, Write, Get, Put, Settle,
         Break, Restart, Stop, EndPass

\* The second half of observe_phase and record_failure writes a sound row.
LEMMA WritesAreSound ==
  ASSUME WorkerQueueInv, EvidenceInv, NEW w \in Worker, Write(w) \/ Put(w)
  PROVE  \E new :
           /\ Sound(new)
           /\ ResourceOf(w) \in DOMAIN resources
           /\ resources' = [resources EXCEPT ![ResourceOf(w)] = new]
           /\ resources[ResourceOf(w)].generation > 0 => new.generation > 0
<1> DEFINE r == ResourceOf(w)
           to == target_phase[outcome[w]]
           new == resources'[r]
<1>1. /\ ClaimOf(w) \in claims /\ ClaimOf(w).worker = w
      /\ pc[w] \in {"write", "put"}
  BY ClaimInHand, Zenon DEF Write, Put, WorkerQueueInv, PassInv, Busy
<1>2. /\ r \in DOMAIN resources
      /\ to \in Moves[copy[w].phase]
      /\ ShowsFailure(copy[w]) => resources[r].generation > 0
  BY <1>1, Zenon DEF EvidenceInv, CopyInHand, ResourceOf
<1>3. /\ resources[r] \in ResourceRow /\ copy[w] \in ResourceRow
      /\ LegalTrail(copy[w]) /\ resources[r].generation \in Nat
  BY <1>2, Zenon DEF EvidenceInv, Sound, ResourceRow
<1>4. CASE Write(w)
  <2>1. /\ resources' = [resources EXCEPT ![r] = new]
        /\ new = Writes(resources[r], copy[w], to)
    BY <1>2, <1>4, Zenon DEF Write
  <2> HIDE DEF new, r, to
  <2>2. /\ new \in ResourceRow /\ LegalTrail(new)
        /\ ShowsFailure(new) => ShowsFailure(copy[w]) \/ to = "failed"
    BY <1>2, <1>3, <2>1, MoveIsLegal
  <2>3. /\ new.generation >= resources[r].generation \/ new.generation > 0
        /\ to = "failed" => new.generation > 0
    BY <1>3, <2>1, GenerationStays, Zenon
  <2>4. new.generation \in Nat
    BY <2>2, Zenon DEF ResourceRow
  <2>5. resources[r].generation > 0 => new.generation > 0
    BY <1>3, <2>3, <2>4
  <2>6. Sound(new)
    BY <1>2, <2>2, <2>3, <2>5 DEF Sound
  <2>7. QED
    BY <1>2, <2>1, <2>5, <2>6, Zenon DEF r
<1>5. CASE Put(w)
  <2>1. /\ resources' = [resources EXCEPT ![r] = new]
        /\ new = Observed(resources[r], copy[w], to)
    BY <1>2, <1>5, Zenon DEF Put
  <2>2. to # "failed"
    BY <1>5 DEF Put, EvidenceInv, target_phase
  <2> HIDE DEF new, r, to
  <2>3. /\ new \in ResourceRow /\ LegalTrail(new)
        /\ ShowsFailure(new) => ShowsFailure(copy[w]) \/ to = "failed"
    BY <1>2, <1>3, <2>1, MoveIsLegal, Zenon
  <2>4. new.generation = resources[r].generation
    BY <1>3, <2>1, <2>2, GenerationStays
  <2>5. Sound(new) /\ (resources[r].generation > 0 => new.generation > 0)
    BY <1>2, <2>2, <2>3, <2>4, Zenon DEF Sound
  <2>6. QED
    BY <1>2, <2>1, <2>5, Zenon DEF r
<1>6. QED
  BY <1>4, <1>5, Zenon

\* So a step of a worker leaves every row sound, and none back at generation 0.
LEMMA RowsStaySound ==
  ASSUME WorkerQueueInv, EvidenceInv, NEW w \in Worker,
         Step(w) \/ Break(w) \/ Restart(w) \/ Stop(w)
  PROVE  /\ DOMAIN resources' = DOMAIN resources
         /\ \A r \in DOMAIN resources :
              /\ Sound(resources'[r])
              /\ resources[r].generation > 0 => resources'[r].generation > 0
<1>1. CASE Write(w) \/ Put(w)
  <2>1. PICK new :
          /\ Sound(new)
          /\ ResourceOf(w) \in DOMAIN resources
          /\ resources' = [resources EXCEPT ![ResourceOf(w)] = new]
          /\ resources[ResourceOf(w)].generation > 0 => new.generation > 0
    BY <1>1, WritesAreSound, Zenon
  <2>2. QED
    BY <2>1, Zenon DEF EvidenceInv
<1>2. CASE ~(Write(w) \/ Put(w))
  BY <1>2, StepsWrite, Zenon DEF EvidenceInv
<1>3. QED
  BY <1>1, <1>2, Zenon

\* Copies are sound rows, and those of the other workers stay as they are.
LEMMA CopiesStaySound ==
  ASSUME WorkerQueueInv, EvidenceInv, NEW w \in Worker,
         Step(w) \/ Break(w) \/ Restart(w) \/ Stop(w)
  PROVE  /\ copy' \in [Worker -> ResourceRow]
         /\ \A v \in Worker : Sound(copy'[v])
         /\ \A v \in Worker \ {w} : copy'[v] = copy[v]
<1>1. \/ UNCHANGED copy
      \/ \E row \in ResourceRow : Sound(row) /\ copy' = [copy EXCEPT ![w] = row]
  BY StepsWrite, RequestIsSound, Zenon DEF EvidenceInv, Accepts, Sound
<1>2. QED
  BY <1>1, Zenon DEF EvidenceInv

\* A pass that goes on to the worker's own observation has a ready or degraded
\* resource to observe; one that goes on to a write has just read the row.
LEMMA PassesReadFirst ==
  ASSUME WorkerQueueInv, EvidenceInv, NEW w \in Worker,
         Step(w) \/ Break(w) \/ Restart(w) \/ Stop(w)
  PROVE  /\ pc'[w] \in {"get", "put"} => outcome'[w] \in {"ready", "degraded"}
         /\ pc'[w] \in {"write", "put"} =>
              \/ Stop(w)
              \/ /\ Accepts(w) /\ UNCHANGED <<outcome, resources>>
                 /\ copy'[w] = resources[ResourceOf(w)]
<1>p. /\ pc \in [Worker -> Label] /\ outcome \in [Worker -> Outcome \cup {"none"}]
      /\ copy \in [Worker -> ResourceRow]
      /\ pc[w] \in {"get", "put"} => outcome[w] \in {"ready", "degraded"}
  BY Zenon DEF WorkerQueueInv, PassInv, EvidenceInv
<1>1. CASE Stopped(w) \/ Recover(w) \/ Take(w) \/ NothingDue(w) \/ Restart(w)
  BY <1>1, <1>p, Zenon DEF Stopped, Recover, Take, NothingDue, Restart, Goto
<1>2. CASE Execute(w)
  BY <1>2, <1>p, Zenon DEF Execute, Gated, CallAdapter, Refused, Goto
<1>3. CASE Settle(w) \/ Break(w)
  BY <1>3, <1>p, Zenon DEF Settle, Break, Goto
<1>4. CASE Write(w) \/ Put(w)
  BY <1>4, <1>p, Zenon DEF Write, Put, Recorded, AfterDispatch, Goto
<1>5. CASE Read(w)
  BY <1>5, <1>p, Zenon DEF Read, Recorded, AfterDispatch, Goto
<1>6. CASE Get(w)
  BY <1>6, <1>p, Zenon DEF Get, Goto
<1>7. CASE Stop(w)
  BY <1>7, <1>p, Zenon DEF Stop
<1>8. \/ Stopped(w) \/ Recover(w) \/ Take(w) \/ NothingDue(w) \/ Restart(w)
      \/ Execute(w) \/ (Settle(w) \/ Break(w)) \/ (Write(w) \/ Put(w))
      \/ Read(w) \/ Get(w) \/ Stop(w)
  BY Zenon DEF Step
<1>9. QED
  BY <1>1, <1>2, <1>3, <1>4, <1>5, <1>6, <1>7, <1>8

\* Every step preserves that rows and copies are sound.
LEMMA NextKeepsEvidence ==
  ASSUME WorkerQueueInv, EvidenceInv, [WorkerNext]_vars
  PROVE  EvidenceInv'
<1>t. claims \subseteq Claim
  BY DEF WorkerQueueInv, LeaseInv, TypeOK
<1>1. CASE Request \/ Clock \/ UNCHANGED vars
  <2>1. UNCHANGED <<resources, claims, pc, outcome, copy>>
    BY <1>1, Zenon DEF Request, Enqueue, Clock, Tick, vars, queueVars, workerVars
  <2>2. QED
    BY <2>1, Zenon DEF EvidenceInv, CopyInHand
<1>2. CASE \E w \in Worker : Step(w) \/ Break(w) \/ Restart(w) \/ Stop(w)
  <2>0. PICK w \in Worker : Step(w) \/ Break(w) \/ Restart(w) \/ Stop(w)
    BY <1>2, Zenon
  <2>1. /\ \A v \in Worker \ {w} : pc'[v] = pc[v] /\ outcome'[v] = outcome[v]
        /\ \A c \in claims' : c \in claims \/ (c.worker = w /\ pc'[w] = "execute")
    BY <2>0, StepsAreLocal, Zenon DEF WorkerQueueInv
  <2>2. /\ DOMAIN resources' = DOMAIN resources
        /\ \A r \in DOMAIN resources :
             /\ Sound(resources'[r])
             /\ resources[r].generation > 0 => resources'[r].generation > 0
    BY <2>0, RowsStaySound, Zenon
  <2>3. /\ copy' \in [Worker -> ResourceRow]
        /\ \A v \in Worker : Sound(copy'[v])
        /\ \A v \in Worker \ {w} : copy'[v] = copy[v]
    BY <2>0, CopiesStaySound, Zenon
  <2>4. /\ pc'[w] \in {"get", "put"} => outcome'[w] \in {"ready", "degraded"}
        /\ pc'[w] \in {"write", "put"} =>
             \/ Stop(w)
             \/ /\ Accepts(w) /\ UNCHANGED <<outcome, resources>>
                /\ copy'[w] = resources[ResourceOf(w)]
    BY <2>0, PassesReadFirst, Zenon
  <2>5. ASSUME NEW c \in claims', pc'[c.worker] \in {"write", "put"}
        PROVE  CopyInHand(c)'
    <3>1. c \in claims /\ c.worker \in Worker
      BY <1>t, <2>1, <2>5, Zenon DEF Claim
    <3>2. CASE c.worker # w
      BY <2>1, <2>2, <2>3, <2>5, <3>1, <3>2 DEF EvidenceInv, CopyInHand
    <3>3. CASE c.worker = w /\ Stop(w)
      BY <2>5, <3>1, <3>3 DEF Stop, EvidenceInv, CopyInHand
    <3>4. CASE c.worker = w /\ ~Stop(w)
      <4>1. c = ClaimOf(w)
        BY <3>1, <3>4, ClaimInHand, Zenon DEF WorkerQueueInv, Idle
      <4>2. ResourceOf(w) = TargetOf[c.key]
        BY <4>1, Zenon DEF ResourceOf
      <4>3. QED
        BY <2>4, <2>5, <3>4, <4>2
           DEF Accepts, can_transition_to, CopyInHand, EvidenceInv, Sound
    <3>5. QED
      BY <3>2, <3>3, <3>4
  <2>6. \A v \in Worker : pc'[v] \in {"get", "put"} => outcome'[v] \in {"ready", "degraded"}
    BY <2>1, <2>4, Zenon DEF EvidenceInv
  <2>7. QED
    BY <2>2, <2>3, <2>5, <2>6 DEF EvidenceInv
<1>3. QED
  BY <1>1, <1>2, Zenon DEF WorkerNext

\* The rows that are there at the start are sound.
LEMMA InitKeepsEvidence == WorkerInit => EvidenceInv
  BY RequestIsSound DEF WorkerInit, Init, EvidenceInv

\* The invariant of the resource rows and the copies of them.
LEMMA EvidenceInvariant == WorkerSpec => []EvidenceInv
<1>1. WorkerQueueInv /\ EvidenceInv /\ [WorkerNext]_vars => EvidenceInv'
  BY NextKeepsEvidence
<1>2. QED
  BY <1>1, InitKeepsEvidence, WorkerInvariant, PTL DEF WorkerSpec

\* Whatever writes race on a resource, its evidence stays a legal path of the
\* lifecycle graph to its phase.
THEOREM EvidenceStaysLegal == WorkerSpec => []EvidenceIsLegal
<1>1. EvidenceInv => EvidenceIsLegal
  BY Zenon DEF EvidenceInv, Sound, EvidenceIsLegal
<1>2. QED
  BY <1>1, EvidenceInvariant, PTL

\* A resource with a failure in its evidence never is at generation 0 again,
\* however stale the copy the last of the racing writers worked on.
THEOREM FailuresLeaveGeneration == WorkerSpec => []FailureLeavesGeneration
<1>1. EvidenceInv => FailureLeavesGeneration
  BY Zenon DEF EvidenceInv, Sound, FailureLeavesGeneration
<1>2. QED
  BY <1>1, EvidenceInvariant, PTL

\* What is proved of the queue holds of the workers' system as it runs: no two
\* live leases on a job, and no answer from a superseded attempt.
THEOREM WorkersKeepLeases ==
  WorkerSpec => []LeaseExclusive /\ OnlyTheCurrentAttemptAnswers /\ SucceededIsFinal
  BY WorkersImplementQueue, LeaseIsExclusive, OnlyTheCurrentAttempt, SucceededStays, Zenon
     DEF ImplementsQueue

=============================================================================
