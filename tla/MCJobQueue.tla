----------------------------- MODULE MCJobQueue -----------------------------
(* A small instance of the queue: two workers and two jobs of one target.   *)
EXTENDS JobQueue, TLC

CONSTANTS w1, w2, k1, k2, app

MCWorker == {w1, w2}
MCKey == {k1, k2}
MCTargetOf == (k1 :> app) @@ (k2 :> app)
MCSymmetry == Permutations(MCWorker) \cup Permutations(MCKey)
\* updated_at steers no operation: states that differ in it alone are one.
MCView == <<now, [k \in Key |-> [jobs[k] EXCEPT !.updated = 0]], claims>>
=============================================================================
