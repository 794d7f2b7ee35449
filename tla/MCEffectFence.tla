---------------------------- MODULE MCEffectFence ----------------------------
(***************************************************************************)
(* Instances of EffectFence for TLC: the runs of one session, served by    *)
(* two processes; or the main session and a fleet child that edit the same *)
(* file from two processes.                                                *)
(***************************************************************************)
EXTENDS EffectFence

MainThrice == <<"main", "main", "main">>
MainHosts == <<"p1", "p1", "p2">>
MainAndChild == <<"main", "child">>
TwoHosts == <<"p2", "p1">>

AllCalls == Runs \X (1..MaxCalls)
=============================================================================
