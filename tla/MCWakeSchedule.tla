---------------------------- MODULE MCWakeSchedule ----------------------------
(***************************************************************************)
(* Instances of WakeSchedule.  "web" is the process that can run;          *)
(* "feishu" shares the schedule file.                                      *)
(***************************************************************************)
EXTENDS WakeSchedule, TLC

CONSTANTS web, feishu, r1, r2, r3

Both == {web, feishu}
One == {web}
Nobody == {}
TwoRuns == {r1, r2}
ThreeRuns == {r1, r2, r3}
LosesCommits == {"lost"}
LosesAndSkips == {"lost", "skipped"}

\* Runs of the loop are interchangeable.
RunsAlike == Permutations(ThreeRuns)
=============================================================================
