--------------------------- MODULE MCSubagentTree ---------------------------
(* Instances of SubagentTree for TLC. *)
EXTENDS SubagentTree

=============================================================================
