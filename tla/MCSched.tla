------------------------------ MODULE MCSched ------------------------------
(***************************************************************************)
(* Instances of Sched for TLC.  Threads are model values; the durations,   *)
(* the clock and the quantum are a few ticks, enough for a preemption to   *)
(* fall between the steps of a wake-up loop.                               *)
(***************************************************************************)
EXTENDS Sched

CONSTANTS u1, u2, u3

TwoThreads   == {u1, u2}
ThreeThreads == {u1, u2, u3}

AllCalls   == {"start", "read", "sleep", "wait", "exit"}
NoConsole  == AllCalls \ {"read"}
JobControl == {"start", "wait", "exit"}
=============================================================================
