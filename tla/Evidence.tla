------------------------------ MODULE Evidence ------------------------------
(***************************************************************************)
(* Verification evidence: the store with its retention pass, and the       *)
(* verifier that collects stage results into a verdict.                    *)
(***************************************************************************)
EXTENDS Naturals, FiniteSets

CONSTANTS
  MaxAge,       \* RetentionPolicy.max_age, in ticks
  KeepLatest,   \* RetentionPolicy.keep_latest
  MaxNow,       \* bound: the clock
  MaxEvidence,  \* bound: records ever appended
  Pass,         \* retention passes that may run at once
  Stage         \* verifier stages

is_blocking(stage) == stage # "advisory"

VARIABLES
  now,        \* the clock
  store,      \* table evidence: records [id, at, failure], later ids appended later
  appended,   \* all that was ever appended
  passes,     \* Pass -> what it decided to delete, or Resting
  verifier,   \* Stage -> its result
  disagreements,   \* stages whose results disagreed
  agent_claim      \* whether the agent claimed completion

retention == <<now, store, appended, passes>>

verification == <<verifier, disagreements, agent_claim>>

Resting == {0}

-----------------------------------------------------------------------------
(* Retention. *)

expired(r, at) == at - r.at > MaxAge

Ids(s) == {r.id : r \in s}

\* What a reading of the table in order has after a record.
After(s, r) == {q \in s : q.id > r.id}

\* Without failures: what is expired, but for the newest.
prune(s, at) ==
  Ids({r \in s : Cardinality(After(s, r)) >= KeepLatest /\ expired(r, at)})

\* Mutation of retain: failures are not looked for.
retain_pruning(s, at) == prune(s, at)

\* With a blocking failure in the store: all that is expired but failures,
\* the newest included.
retain(s, at) ==
  IF \A r \in s : ~r.failure
  THEN prune(s, at)
  ELSE Ids({r \in s : expired(r, at) /\ ~r.failure})

AppendEvidence(failure) ==
  /\ Cardinality(appended) < MaxEvidence
  /\ LET r == [id |-> Cardinality(appended) + 1, at |-> now, failure |-> failure]
     IN store' = store \cup {r} /\ appended' = appended \cup {r}
  /\ UNCHANGED <<now, passes>>

\* Everything is read, and what to remove is decided on that.
Decide(p) ==
  /\ passes[p] = Resting
  /\ retain(store, now) # {}
  /\ passes' = [passes EXCEPT ![p] = retain(store, now)]
  /\ UNCHANGED <<now, store, appended>>

\* Later it is deleted by id, whatever was appended meanwhile.
Delete(p) ==
  /\ passes[p] # Resting
  /\ store' = {r \in store : r.id \notin passes[p]}
  /\ passes' = [passes EXCEPT ![p] = Resting]
  /\ UNCHANGED <<now, appended>>

Tick ==
  /\ now < MaxNow
  /\ now' = now + 1
  /\ UNCHANGED <<store, appended, passes>>

-----------------------------------------------------------------------------
(* The verifier.  A result is told apart by what is_passed and is_failed   *)
(* say of it; one that applies without evidence is neither.                *)

StageResult == {"not_applicable", "no_evidence", "passed", "failed"}

\* Mutation of add_stage: the later result replaces the earlier.
add_stage_latest(stage, result) ==
  /\ verifier' = [verifier EXCEPT ![stage] = result]
  /\ UNCHANGED <<disagreements, agent_claim>>

\* Only the first result of a stage is taken, or a failure after a pass.  A
\* pass after a failure is noted and ignored; all else is an error.
add_stage(stage, result) ==
  LET disagrees == {verifier[stage], result} = {"passed", "failed"} IN
  /\ verifier[stage] = "none" \/ disagrees
  /\ verifier' = [verifier EXCEPT ![stage] =
                   IF @ = "failed" THEN "failed" ELSE result]
  /\ disagreements' = disagreements \cup (IF disagrees THEN {stage} ELSE {})
  /\ UNCHANGED agent_claim

record_agent_claim ==
  /\ agent_claim' = TRUE
  /\ UNCHANGED <<verifier, disagreements>>

missing_evidence ==
  {s \in Stage : is_blocking(s) /\ verifier[s] \in {"none", "no_evidence"}}

Failing == {s \in Stage : is_blocking(s) /\ verifier[s] = "failed"}

verdict ==
  IF Failing # {} THEN "failed"
  ELSE IF missing_evidence # {} THEN "incomplete"
  ELSE "passed"

-----------------------------------------------------------------------------
EvidenceInit ==
  /\ now = 0
  /\ store = {}
  /\ appended = {}
  /\ passes = [p \in Pass |-> Resting]
  /\ verifier = [s \in Stage |-> "none"]
  /\ disagreements = {}
  /\ agent_claim = FALSE

RetentionNext ==
  \/ \E failure \in BOOLEAN : AppendEvidence(failure)
  \/ \E p \in Pass : Decide(p) \/ Delete(p)
  \/ Tick

VerifierNext ==
  \/ \E stage \in Stage, result \in StageResult : add_stage(stage, result)
  \/ record_agent_claim

-----------------------------------------------------------------------------
(***************************************************************************)
(* "Unresolved blocking failures are never pruned": whatever is appended   *)
(* between a pass's reading and its deleting, and however passes overlap,  *)
(* every blocking failure ever appended is in the store.                   *)
(***************************************************************************)
FailuresAreKept == \A r \in appended : r.failure => r \in store

(***************************************************************************)
(* Results may come in any order and more than once, but a failed verdict  *)
(* stays failed and a passed one can only turn to failed.                  *)
(***************************************************************************)
VerdictOnlyWorsens ==
  [][/\ verdict = "failed" => verdict' = "failed"
     /\ verdict = "passed" => verdict' # "incomplete"]_verification
=============================================================================
