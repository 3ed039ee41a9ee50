---------------------------- MODULE MC_Scheduler ----------------------------
(* Scheduler with INIT and two children, as many as there are other groups.  *)
EXTENDS Scheduler

CONSTANTS init, u1, u2

ThreeUsers == {init, u1, u2}
=============================================================================
