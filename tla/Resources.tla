----------------------------- MODULE Resources ------------------------------
(***************************************************************************)
(* A platform-owned resource: its lifecycle graph and the two writes the   *)
(* resource store makes (observe_phase and record_failure).                *)
(*                                                                         *)
(* Both writes are a read of the row, a check on the copy, and an UPDATE   *)
(* by id alone: the row may have moved in between.  The operators take the *)
(* row as it is when it is written and the copy that was read before.      *)
(***************************************************************************)
EXTENDS Integers, Sequences, SequencesExt

Phase == {"requested", "provisioning", "ready", "degraded", "failed",
          "deleting", "deleted"}

Moves ==
  [ requested    |-> {"provisioning", "failed", "deleting"},
    provisioning |-> {"ready", "degraded", "failed", "deleting"},
    ready        |-> {"degraded", "failed", "provisioning", "deleting"},
    degraded     |-> {"ready", "failed", "deleting"},
    failed       |-> {"requested", "provisioning", "deleting"},
    deleting     |-> {"deleted"},
    deleted      |-> {} ]

\* Mutation of can_transition_to: the lifecycle graph is not consulted.
AnyMove(from, to) == from # to

can_transition_to(from, to) == to \in Moves[from]

\* trail: the phases of the transition evidence, oldest first; an entry's
\* "from" is the entry before it.  generation counts terminal failures, and so
\* does the failure record's own attempt counter, which is written with it.
ResourceRow == [phase : Phase, generation : Nat, trail : Seq(Phase)]

request == [phase |-> "requested", generation |-> 0, trail |-> <<"requested">>]

\* UPDATE ... SET phase, transitions: generation stays as the row has it.
Observed(row, copy, to) ==
  [row EXCEPT !.phase = to, !.trail = Append(copy.trail, to)]

\* Mutation of Failed: the generation is not bumped.
FailedUncounted(row, copy) ==
  [row EXCEPT !.phase = "failed", !.trail = Append(copy.trail, "failed")]

\* UPDATE ... SET phase, generation, failure, transitions.
Failed(row, copy) ==
  [row EXCEPT !.phase = "failed", !.generation = copy.generation + 1,
              !.trail = Append(copy.trail, "failed")]

Writes(row, copy, to) ==
  IF to = "failed" THEN Failed(row, copy) ELSE Observed(row, copy, to)

-----------------------------------------------------------------------------
\* The evidence of a row is a path of the lifecycle graph that starts with the
\* request and ends in the row's phase.
LegalTrail(row) ==
  /\ row.trail # <<>>
  /\ Head(row.trail) = "requested"
  /\ Last(row.trail) = row.phase
  /\ \A i \in 1 .. Len(row.trail) - 1 :
       row.trail[i + 1] \in Moves[row.trail[i]]

\* The evidence has a failure.
ShowsFailure(row) == \E i \in DOMAIN row.trail : row.trail[i] = "failed"
=============================================================================
