------------------------- MODULE MCReconcileWorker --------------------------
(* Two workers and two jobs that converge one resource.                     *)
EXTENDS ReconcileWorker, TLC

CONSTANTS w1, w2, k1, k2, res

MCWorker == {w1, w2}
MCKey == {k1, k2}
MCTargetOf == (k1 :> res) @@ (k2 :> res)
MCDestructive == {k2}
MCSymmetry == Permutations(MCWorker)
\* updated_at steers no operation: states that differ in it alone are one.
MCView == <<now, [k \in Key |-> [jobs[k] EXCEPT !.updated = 0]], claims,
            workerVars, resources, operations, interruptions>>
=============================================================================
