---------------------------- MODULE MCScheduler ----------------------------
(* An instance of Scheduler for TLC: two captures, another device that may     *)
(* take the cycle.                                                             *)
EXTENDS Scheduler

CONSTANTS c1, c2, me, o1
=============================================================================
