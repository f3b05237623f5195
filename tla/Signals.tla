------------------------------ MODULE Signals ------------------------------
(***************************************************************************)
(* Signals of kernel/signals/signal.c.  A signal is delivered at the end   *)
(* of isr_handler, when the interrupt state of the interrupted thread is   *)
(* made to return into the handler; a system call of the handler restores  *)
(* the state that was saved.  Of that state the instruction pointer is     *)
(* kept.  A process has one thread, so a process is its thread here.       *)
(***************************************************************************)
EXTENDS Naturals

CONSTANTS
  Proc,        \* processes
  KernelProc,  \* the one that idles, which has no signals
  SigCount,    \* SIG_COUNT: signals are 1 .. SigCount
  MainCode,    \* places of a main program where it can be interrupted
  Handler,     \* entry points of signal handlers
  ReturnCode,  \* where sys_sig_handler_return enters the kernel
  NoHandler,
  Word,        \* contents of code memory
  NoWord,
  CodeWord     \* the word at each place

Signal == 1 .. SigCount
HandlerCode == Handler \cup {ReturnCode}
Code == MainCode \cup HandlerCode

ASSUME SignalsAssumption ==
  /\ KernelProc \in Proc /\ SigCount \in Nat
  /\ MainCode # {} /\ MainCode \cap HandlerCode = {}
  /\ NoHandler \notin Code /\ NoWord \notin Word
  /\ CodeWord \in [Code -> Word]

VARIABLES
  cur_proc,          \* sched_cur_proc()
  mode,              \* where each thread is
  eip,               \* istate->eip: where it returns to, or runs
  seen,              \* the local v of isr_handler: the word at eip on entry
  pending_signals,
  sig_handlers,
  sig_return_state,  \* the eip of the saved interrupt state
  in_sig,
  main_at,           \* history: where the main program of a process is
  panic              \* the function whose assertion stopped the kernel

sigVars == <<cur_proc, mode, eip, seen, pending_signals, sig_handlers,
          sig_return_state, in_sig, main_at, panic>>

(* A thread that has not run yet, runs in user mode, is in a handler that  *)
(* may switch threads, is past it, or has exited.                          *)
Modes == {"new", "user", "handler", "leaving", "exited"}
Panics == {"none", "sig_return", "isr_handler"}

SigInit ==
  /\ cur_proc = KernelProc
  /\ mode = [p \in Proc |-> IF p = KernelProc THEN "user" ELSE "new"]
  /\ main_at \in [Proc -> MainCode]
  /\ eip = main_at
  /\ seen = [p \in Proc |-> NoWord]
  /\ pending_signals = [p \in Proc |-> [s \in Signal |-> FALSE]]
  /\ sig_handlers = [p \in Proc |-> [s \in Signal |-> NoHandler]]
  /\ sig_return_state = main_at
  /\ in_sig = [p \in Proc |-> FALSE]
  /\ panic = "none"

(* The current thread executes user code.                                  *)
UserRuns == panic = "none" /\ mode[cur_proc] = "user"

RunMain(a) ==
  /\ UserRuns /\ ~in_sig[cur_proc]
  /\ main_at' = [main_at EXCEPT ![cur_proc] = a]
  /\ eip' = [eip EXCEPT ![cur_proc] = a]
  /\ UNCHANGED <<cur_proc, mode, seen, pending_signals, sig_handlers,
                 sig_return_state, in_sig, panic>>

RunHandler ==
  /\ UserRuns /\ in_sig[cur_proc]
  /\ eip' = [eip EXCEPT ![cur_proc] = ReturnCode]
  /\ UNCHANGED <<cur_proc, mode, seen, pending_signals, sig_handlers,
                 sig_return_state, in_sig, main_at, panic>>

(* isr_handler is entered from user code, for a handler that leaves signals*)
(* alone (m = "handler") or one that does not.                             *)
EnterKernel(m) ==
  /\ UserRuns
  /\ mode' = [mode EXCEPT ![cur_proc] = m]
  /\ seen' = [seen EXCEPT ![cur_proc] = CodeWord[eip[cur_proc]]]
  /\ UNCHANGED <<cur_proc, main_at>>

Interrupted ==
  /\ EnterKernel("handler")
  /\ UNCHANGED <<eip, pending_signals, sig_handlers, sig_return_state,
                 in_sig, panic>>

sig_set_handler(s, h) ==
  /\ EnterKernel("leaving") /\ cur_proc # KernelProc
  /\ sig_handlers' = [sig_handlers EXCEPT ![cur_proc][s] = h]
  /\ UNCHANGED <<eip, pending_signals, sig_return_state, in_sig, panic>>

(* An exited process is still found by its pid.                            *)
sig_queue_signal(p, s) ==
  /\ EnterKernel("leaving") /\ cur_proc # KernelProc
  /\ pending_signals' =
       [pending_signals EXCEPT ![p][s] = @ \/ sig_handlers[p][s] # NoHandler]
  /\ UNCHANGED <<eip, sig_handlers, sig_return_state, in_sig, panic>>

(* Faulty forms of the two below.                                          *)
ReturnStaysInSig ==
  /\ EnterKernel("leaving") /\ eip[cur_proc] = ReturnCode
  /\ eip' = [eip EXCEPT ![cur_proc] = sig_return_state[cur_proc]]
  /\ UNCHANGED <<panic, pending_signals, sig_handlers, sig_return_state, in_sig>>
ReturnOnlyFlags ==
  /\ EnterKernel("leaving") /\ eip[cur_proc] = ReturnCode
  /\ in_sig' = [in_sig EXCEPT ![cur_proc] = FALSE]
  /\ UNCHANGED <<panic, eip, pending_signals, sig_handlers, sig_return_state>>

(* The handler's last system call; a main program that makes it fails the  *)
(* assertion.                                                              *)
sig_return ==
  /\ EnterKernel("leaving") /\ cur_proc # KernelProc
  /\ eip[cur_proc] = ReturnCode \/ ~in_sig[cur_proc]
  /\ IF in_sig[cur_proc]
     THEN /\ eip' = [eip EXCEPT ![cur_proc] = sig_return_state[cur_proc]]
          /\ in_sig' = [in_sig EXCEPT ![cur_proc] = FALSE]
          /\ UNCHANGED panic
     ELSE panic' = "sig_return" /\ UNCHANGED <<eip, in_sig>>
  /\ UNCHANGED <<pending_signals, sig_handlers, sig_return_state>>

(* The scheduler leaves the handler of the current thread in the middle,   *)
(* or for good, and goes on with that of another thread.                   *)
SwitchTo(p, m) ==
  /\ panic = "none" /\ p # cur_proc
  /\ mode[cur_proc] = "handler" /\ mode[p] \in {"new", "handler"}
  /\ cur_proc' = p
  /\ mode' = [mode EXCEPT ![cur_proc] = m,
                          ![p] = IF @ = "new" THEN "user" ELSE @]
  /\ UNCHANGED <<eip, seen, pending_signals, sig_handlers, sig_return_state,
                 in_sig, main_at, panic>>
Switch(p) == SwitchTo(p, "handler")
Exit(p)   == cur_proc # KernelProc /\ SwitchTo(p, "exited")

(* The signals that wait for a process and have a handler.                 *)
Waits(p, s) == pending_signals[p][s] /\ sig_handlers[p][s] # NoHandler
Deliverable(s) == Waits(cur_proc, s)

(* Faulty forms: the highest signal comes first; every pending signal is   *)
(* forgotten, not just the one delivered.                                  *)
HighestFirst(s) ==
  cur_proc # KernelProc /\ ~in_sig[cur_proc] /\ Deliverable(s)
  /\ \A t \in Signal : t > s => ~Deliverable(t)
ForgetsOthers(s) ==
  pending_signals' = [pending_signals EXCEPT ![cur_proc] = [t \in Signal |-> FALSE]]

(* sig_handle_pending: the lowest deliverable signal, if any.              *)
Chosen(s) ==
  /\ cur_proc # KernelProc /\ ~in_sig[cur_proc]
  /\ Deliverable(s)
  /\ \A t \in Signal : t < s => ~Deliverable(t)

ClearPending(s) ==
  pending_signals' = [pending_signals EXCEPT ![cur_proc][s] = FALSE]

Deliver(s) ==
  /\ Chosen(s) /\ ClearPending(s)
  /\ sig_return_state' = [sig_return_state EXCEPT ![cur_proc] = eip[cur_proc]]
  /\ in_sig' = [in_sig EXCEPT ![cur_proc] = TRUE]
  /\ eip' = [eip EXCEPT ![cur_proc] = sig_handlers[cur_proc][s]]

DeliverNone ==
  /\ \A s \in Signal : ~Chosen(s)
  /\ UNCHANGED <<pending_signals, sig_return_state, in_sig, eip>>

(* The end of isr_handler.                                                 *)
LeaveKernel ==
  /\ panic = "none" /\ mode[cur_proc] \in {"handler", "leaving"}
  /\ DeliverNone \/ \E s \in Signal : Deliver(s)
  /\ panic' = IF seen[cur_proc] = CodeWord[eip'[cur_proc]] THEN "none" ELSE "isr_handler"
  /\ mode' = [mode EXCEPT ![cur_proc] = "user"]
  /\ seen' = [seen EXCEPT ![cur_proc] = NoWord]
  /\ UNCHANGED <<cur_proc, sig_handlers, main_at>>

SetHandler == \E s \in Signal, h \in Handler \cup {NoHandler} : sig_set_handler(s, h)
Queue == \E p \in Proc, s \in Signal : sig_queue_signal(p, s)

SigNext ==
  \/ \E a \in MainCode : RunMain(a)
  \/ RunHandler
  \/ Interrupted
  \/ SetHandler
  \/ Queue
  \/ sig_return
  \/ \E p \in Proc : Switch(p) \/ Exit(p)
  \/ LeaveKernel

SigSpec == SigInit /\ [][SigNext]_sigVars

(* The timer interrupt is latched, so user code is interrupted however     *)
(* often it makes system calls; the scheduler comes back to a thread that  *)
(* it left in a handler (RunsAgain of Sched), and then the handler ends.   *)
SigFairness ==
  /\ SF_sigVars(Interrupted)
  /\ \A p \in Proc : SF_sigVars(Switch(p)) /\ SF_sigVars(cur_proc = p /\ LeaveKernel)

SigFairSpec == SigSpec /\ SigFairness

-----------------------------------------------------------------------------
(* Types of the variables.                                                 *)
SigTypeOK ==
  /\ cur_proc \in Proc
  /\ mode \in [Proc -> Modes]
  /\ eip \in [Proc -> Code]
  /\ seen \in [Proc -> Word \cup {NoWord}]
  /\ pending_signals \in [Proc -> [Signal -> BOOLEAN]]
  /\ sig_handlers \in [Proc -> [Signal -> Handler \cup {NoHandler}]]
  /\ sig_return_state \in [Proc -> MainCode]
  /\ in_sig \in [Proc -> BOOLEAN]
  /\ main_at \in [Proc -> MainCode]
  /\ panic \in Panics

(* Whatever is delivered in between, a main program goes on where it was:  *)
(* its place is in the interrupt state or in the state that is saved.      *)
MainKeepsItsPlace ==
  \A p \in Proc :
    main_at[p] = IF in_sig[p] THEN sig_return_state[p] ELSE eip[p]

(* in_sig tells whether handler code runs: no handler is interrupted by a  *)
(* handler, none runs that was not entered for a signal.                   *)
InSigMeansHandler == \A p \in Proc : in_sig[p] <=> eip[p] \in HandlerCode

(* A pending signal is only withdrawn by entering its handler, with the    *)
(* main program of the receiver interrupted.                               *)
NoSignalLost ==
  [][\A p \in Proc, s \in Signal :
       pending_signals[p][s] /\ ~pending_signals'[p][s] =>
         /\ ~in_sig[p] /\ in_sig'[p]
         /\ eip'[p] = sig_handlers[p][s]]_sigVars

(* A process whose handlers return does not wait for ever for the first    *)
(* signal, however often the others are sent: only the loop of             *)
(* sig_handle_pending decides who comes first.                             *)
FirstSignalArrives ==
  \A p \in Proc :
    ([]<>~in_sig[p] /\ [](mode[p] # "exited" /\ panic = "none")) =>
      (Waits(p, 1) ~> ~Waits(p, 1))
=============================================================================
