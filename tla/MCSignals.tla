----------------------------- MODULE MCSignals -----------------------------
(***************************************************************************)
(* Instances of Signals for TLC: the kernel process and one or two user    *)
(* processes, two signals, one place in a main program.                    *)
(***************************************************************************)
EXTENDS Signals

CONSTANTS k, p1, p2, m1, h1, ret, w1

TwoProcs == {k, p1, p2}

(* Every place holds the same word: the assertion at the end of isr_handler*)
(* does not stop the kernel.                                               *)
SameWord == [c \in Code |-> w1]
=============================================================================
