---------------------------- MODULE MCMergeQueue ----------------------------
(***************************************************************************)
(* Instances of MergeQueue for TLC; lanes, callers and areas are           *)
(* interchangeable.                                                        *)
(***************************************************************************)
EXTENDS MergeQueue, TLC

CONSTANTS l1, l2, c1, c2, a1, a2

Symmetry == Permutations({l1, l2}) \union Permutations({c1, c2})
            \union Permutations({a1, a2})
=============================================================================
