---------------------------- MODULE RunAuthority ----------------------------
(***************************************************************************)
(* What the fleet registry promises about one run, whatever the number of  *)
(* coordinators, crashes and takeovers: authority over the run moves       *)
(* forward through numbered epochs, everything written down is written by  *)
(* the epoch that holds authority at that moment, and the run is settled   *)
(* at most once, after which its history is closed.                        *)
(***************************************************************************)
EXTENDS Naturals, Sequences

VARIABLES
    epoch,  \* number of times authority has been granted; the newest holder
    log,    \* the epochs that wrote the facts of the run, in order
    done    \* the epoch that settled the run, 0 while it is open

vars == <<epoch, log, done>>

Init ==
    /\ epoch = 0
    /\ log = << >>
    /\ done = 0

\* A new holder takes over; every older epoch has lost authority for good.
Grant ==
    /\ done = 0
    /\ epoch' = epoch + 1
    /\ UNCHANGED <<log, done>>

\* The holder of the newest epoch writes a fact.
Write ==
    /\ done = 0
    /\ epoch > 0
    /\ log' = Append(log, epoch)
    /\ UNCHANGED <<epoch, done>>

\* The holder of the newest epoch closes the run.
Settle ==
    /\ done = 0
    /\ epoch > 0
    /\ done' = epoch
    /\ UNCHANGED <<epoch, log>>

Next == Grant \/ Write \/ Settle

Spec == Init /\ [][Next]_vars
=============================================================================
