--------------------------- MODULE MCToolJournal ---------------------------
(***************************************************************************)
(* Instances of ToolJournal for TLC: which calls the model declares.       *)
(***************************************************************************)
EXTENDS ToolJournal

OneByOne == << {1}, {2} >>
TwoRounds == << {1, 2}, {3} >>
=============================================================================
