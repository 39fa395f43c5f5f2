----------------------------- MODULE JobContract -----------------------------
(***************************************************************************)
(* What the job queue promises its callers, without tables, leases or      *)
(* time: an accepted job is open until it is settled, at most one worker   *)
(* at a time has the right to work on it, and only the loss of that right  *)
(* lets another worker have it.  A done job stays done.                    *)
(***************************************************************************)
CONSTANTS Worker, NoWorker, Key

VARIABLES
  outcome,   \* what the caller of enqueue is told about its job
  holder     \* the worker whose lease is running

contractVars == <<outcome, holder>>

Init ==
  /\ outcome = [k \in Key |-> "absent"]
  /\ holder = [k \in Key |-> NoWorker]

Submit(k) ==
  /\ outcome[k] = "absent"
  /\ outcome' = [outcome EXCEPT ![k] = "open"]
  /\ UNCHANGED holder

Grant(k, w) ==
  /\ outcome[k] = "open" /\ holder[k] = NoWorker
  /\ \A j \in Key : holder[j] # w
  /\ holder' = [holder EXCEPT ![k] = w]
  /\ UNCHANGED outcome

\* The right ends: given back after a failed attempt, lost in a crash, or run
\* out.  The clock can end several at once.
Lapse(keys) ==
  /\ \A k \in keys : holder[k] # NoWorker
  /\ holder' = [k \in Key |-> IF k \in keys THEN NoWorker ELSE holder[k]]
  /\ UNCHANGED outcome

\* By its holder, or, when nobody holds the job, by the worker whose right has
\* just run out.  The contract does not say who: that no superseded worker does
\* is a property of the queue's attempts.
Settle(k, verdict) ==
  /\ outcome[k] = "open"
  /\ outcome' = [outcome EXCEPT ![k] = verdict]
  /\ holder' = [holder EXCEPT ![k] = NoWorker]

Reopen(k) ==
  /\ outcome[k] = "dead"
  /\ outcome' = [outcome EXCEPT ![k] = "open"]
  /\ UNCHANGED holder

Next ==
  \/ \E k \in Key :
       \/ Submit(k)
       \/ \E w \in Worker : Grant(k, w)
       \/ \E verdict \in {"done", "dead"} : Settle(k, verdict)
       \/ Reopen(k)
  \/ \E keys \in SUBSET Key : Lapse(keys)

Spec == Init /\ [][Next]_contractVars
=============================================================================
