---------------------------- MODULE MCScheduleStore ----------------------------
(* Instance of ScheduleStore for TLC: one process, a client, two rules.       *)
EXTENDS ScheduleStore, TLC

CONSTANTS p1, alice, r1, r2
=============================================================================
