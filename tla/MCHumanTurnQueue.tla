-------------------------- MODULE MCHumanTurnQueue --------------------------
(* Instances of HumanTurnQueue for TLC. *)
EXTENDS HumanTurnQueue

=============================================================================
