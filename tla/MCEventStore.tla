---------------------------- MODULE MCEventStore ----------------------------
(***************************************************************************)
(* Instances of EventStore for TLC: two processes, of which "web" both     *)
(* writes and reads.                                                       *)
(***************************************************************************)
EXTENDS EventStore

CONSTANTS w1, w2, r1, web, feishu

Hosts == [t \in {w1, w2, r1} |-> IF t = w2 THEN feishu ELSE web]

\* The loop in "web" appends and rotates, "feishu" takes human messages and
\* forks.
LoopAndHuman ==
    [w \in {w1, w2} |-> IF w = w1 THEN {"plain", "check"} ELSE {"human", "copy"}]
=============================================================================
