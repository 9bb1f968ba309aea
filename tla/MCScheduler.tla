---------------------------- MODULE MCScheduler ----------------------------
(***************************************************************************)
(* Small instances of Scheduler: two monitors, one due at every tick and   *)
(* one at every second tick, so that some rounds submit both, some one and *)
(* some none.                                                              *)
(***************************************************************************)
EXTENDS Scheduler

CONSTANTS m1, m2

TwoIntervals == [m \in Monitors |-> IF m = m1 THEN 1 ELSE 2]
=============================================================================
