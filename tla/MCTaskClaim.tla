----------------------------- MODULE MCTaskClaim -----------------------------
(***************************************************************************)
(* Instances of TaskClaim for TLC: two runs, which are interchangeable.    *)
(***************************************************************************)
EXTENDS TaskClaim, TLC

CONSTANTS r1, r2

Symmetry == Permutations({r1, r2})
=============================================================================
