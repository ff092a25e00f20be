---------------------------- MODULE MCScheduler ----------------------------
(* Instances of Scheduler for TLC.                                          *)
EXTENDS Scheduler, TLC

CONSTANTS s1, s2, i1, i2

TwoIssues == <<i1, i2>>

OneAndTwo == (s1 :> 1) @@ (s2 :> 2)
=============================================================================
