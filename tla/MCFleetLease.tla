---------------------------- MODULE MCFleetLease ----------------------------
(***************************************************************************)
(* Instances of FleetLease for TLC: which process is configured with which *)
(* lease window, and the fairness that its liveness needs.                 *)
(***************************************************************************)
EXTENDS FleetLease, TLC

CONSTANTS r1, r2

\* A bounded runner and an expiry-free one (ttl_seconds=None).
OneExpiryFree == (r1 :> 2) @@ (r2 :> NoExpiry)

\* A run that has begun goes on: its provider calls and its tools end (they
\* have timeouts) and its loop comes to the next round or returns.  Nothing
\* obliges time to pass, an operator to step in, a refused run to be begun
\* again, or crashes and storage errors to end.
FairSpec ==
    /\ Spec
    /\ \A c \in Coords : WF_vars(handle[c] # 0 /\ Step(c))
=============================================================================
