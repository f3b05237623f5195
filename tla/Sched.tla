------------------------------- MODULE Sched -------------------------------
(***************************************************************************)
(* The thread scheduler of the kernel, kernel/tasks/sched.c, together with *)
(* the callers that block and unblock threads: the timer interrupt, the    *)
(* read_waiters list of the console device (drivers/device_driver.c), the  *)
(* sleep, wait, exit and exec system calls.                                *)
(*                                                                         *)
(* There is one CPU.  System calls and interrupt handlers run with         *)
(* interrupts disabled, so a handler is atomic up to a context switch; the *)
(* rest of a handler whose caller was switched away stays on the kernel    *)
(* stack of that thread.  kctx[t] is what that stack still has to run, and *)
(* an interrupt or a system call can only start where kctx[cur] is user.   *)
(* A loop that may switch tasks is one action per iteration: the actions   *)
(* of a thread inside the kernel are the only ones enabled until it leaves *)
(* the kernel or is switched away.                                         *)
(*                                                                         *)
(* A thread has ONE link, next, whichever list it is on: the ready list,   *)
(* the sleep list, the waiters of a thread, the read_waiters of a device   *)
(* or the list of terminated threads.  Lists are therefore modelled        *)
(* pointer by pointer and never as sequences.                              *)
(***************************************************************************)
EXTENDS Integers, FiniteSets

CONSTANTS
  User,      \* the threads of user processes
  Shell,     \* the one created by kmain before the first timer tick
  Idle,      \* main thread of the kernel process: HLT in a loop
  NULL,      \* the null pointer
  Quantum,   \* ms a thread runs before it is preempted (50 in the code)
  Calls,     \* the system calls that the programs make
  Sleeps,    \* durations passed to the sleep system call
  MaxTime,   \* bound: the last value of the millisecond clock
  Wraps,     \* whether the clock restarts after MaxTime, or stops there
  MaxInput   \* bound: capacity of the console's input buffer

Thread  == User \cup {Idle}
Link    == Thread \cup {NULL}
States  == {"TS_RUNNING", "TS_READY_TO_RUN", "TS_BLOCKED", "TS_TERM", "none"}
Places  == {"user", "wake", "read", "readers", "wait", "exit"}
Context == [at : Places, on : Link, ms : Nat, woken : BOOLEAN]

ASSUME SchedAssumption ==
  /\ IsFiniteSet(User)
  /\ Shell \in User
  /\ Idle \notin User
  /\ NULL \notin Thread
  /\ Quantum \in Nat
  /\ Calls \subseteq {"start", "read", "sleep", "wait", "exit"}
  /\ Sleeps \subseteq Nat
  /\ Wraps \in BOOLEAN
  /\ Wraps => "sleep" \notin Calls
  /\ MaxTime \in Nat
  /\ MaxInput \in Nat

VARIABLES
  next,         \* thread_t.next
  state,        \* thread_t.state; "none" before the thread is created
  wake_time,    \* thread_t.wake_time
  waiters,      \* thread_t.waiters
  ready_start,  \* _ready_list_start
  ready_end,    \* _ready_list_end
  sleep_list,   \* _sleep_list
  term_list,    \* _terminated_list
  read_waiters, \* read_waiters of the console device
  cur,          \* _cur_task
  prev_switch,  \* _prev_switch_time
  first_switch, \* _first_switch
  now,          \* _ms_since_boot
  input,        \* number of bytes in the console's input buffer
  exited,       \* threads whose process has been given an exit_code
  kctx,         \* what the kernel stack of each thread still has to run
  hung          \* _pop_first_ready never returns

runVars  == <<next, state, ready_start, ready_end, cur, prev_switch, hung>>
listVars == <<waiters, sleep_list, term_list, read_waiters>>
vars == <<runVars, listVars, wake_time, first_switch, now, input, exited, kctx>>

-----------------------------------------------------------------------------
(* The run queue.  The operators work on a record of the part of the state *)
(* that scheduling changes, so that they compose as the C calls do.        *)

Sys == [next |-> next, state |-> state, start |-> ready_start,
        end |-> ready_end, cur |-> cur, prev |-> prev_switch, hung |-> hung]

Commit(s) ==
  /\ next' = s.next
  /\ state' = s.state
  /\ ready_start' = s.start
  /\ ready_end' = s.end
  /\ cur' = s.cur
  /\ prev_switch' = s.prev
  /\ hung' = s.hung

(* What sched_task queues; the faulty form queues the idle thread too.     *)
QueuesIdle(s, th) == s.state[th] = "TS_READY_TO_RUN"
Queues(s, th) == th # Idle /\ s.state[th] = "TS_READY_TO_RUN"

(* sched_task: th->next is not cleared, and nothing tells whether th is     *)
(* still linked into another list.                                         *)
sched_task(s, th) ==
  IF ~Queues(s, th) THEN s
  ELSE IF s.end # NULL THEN [s EXCEPT !.next[s.end] = th, !.end = th]
  ELSE [s EXCEPT !.start = th, !.end = th]

(* The i-th thread of the list that starts at ready_start.                 *)
Hops(s) ==
  LET hop[i \in 0 .. Cardinality(Thread)] ==
        IF i = 0 THEN s.start
        ELSE IF hop[i - 1] \in Thread THEN s.next[hop[i - 1]] ELSE NULL
  IN  hop

(* Positions at which _pop_first_ready stops: the end, or a ready thread.  *)
(* The faulty form takes any thread.                                       *)
StopsAnywhere(s) ==
  {i \in 0 .. Cardinality(Thread) : Hops(s)[i] \in Thread \cup {NULL}}
Stops(s) ==
  {i \in 0 .. Cardinality(Thread) :
     \/ Hops(s)[i] = NULL
     \/ Hops(s)[i] \in Thread /\ s.state[Hops(s)[i]] = "TS_READY_TO_RUN"}

FirstStop(s, i) == i \in Stops(s) /\ \A j \in Stops(s) : i <= j

(* The last thread is gone: the end of the list goes with it.  The faulty  *)
(* form leaves _ready_list_end behind.                                     *)
EndKept(s, start) == s.end
EndAfterPop(s, start) == IF start = NULL THEN NULL ELSE s.end

(* _pop_first_ready drops every thread that is not ready; a cycle without  *)
(* a ready thread is an endless loop.  popped is the returned thread.      *)
PopFirstReady(s) ==
  IF s.start = NULL THEN [popped |-> NULL, sys |-> s]
  ELSE IF \E i \in 0 .. Cardinality(Thread) : FirstStop(s, i)
  THEN LET t     == Hops(s)[CHOOSE i \in 0 .. Cardinality(Thread) :
                                FirstStop(s, i)]
           start == IF t = NULL THEN NULL ELSE s.next[t]
       IN  [popped |-> t,
            sys |-> [s EXCEPT !.start = start,
                              !.end = EndAfterPop(s, start)]]
  ELSE [popped |-> NULL, sys |-> [s EXCEPT !.hung = TRUE]]

(* A faulty _get_next_task, which does not fall back on the idle thread.    *)
NextTaskNoIdle(s, popped) ==
  IF popped = NULL /\ s.state[s.cur] = "TS_RUNNING" THEN s.cur ELSE popped

(* _get_next_task: the first ready thread, else the current one, else idle *)
NextTask(s, popped) ==
  IF popped # NULL THEN popped
  ELSE IF s.state[s.cur] = "TS_RUNNING" THEN s.cur
  ELSE Idle

(* _switch_task on the thread that gives up the CPU: a running thread is   *)
(* ready again and queued.  Faulty forms: it stays in state running, it is *)
(* not queued, it is ready whatever its state was.                         *)
LeaveRunning(s, t) == sched_task(s, t)
LeaveUnqueued(s, t) ==
  IF s.state[t] = "TS_RUNNING"
  THEN [s EXCEPT !.state[t] = "TS_READY_TO_RUN"] ELSE s
LeaveReady(s, t) == sched_task([s EXCEPT !.state[t] = "TS_READY_TO_RUN"], t)
LeaveCpu(s, t) ==
  sched_task(IF s.state[t] = "TS_RUNNING"
             THEN [s EXCEPT !.state[t] = "TS_READY_TO_RUN"] ELSE s, t)

(* proc_switch_to_thread                                                   *)
EnterCpu(s, t) == [s EXCEPT !.state[t] = "TS_RUNNING"]

(* _switch_task(ms)                                                        *)
SwitchTask(s, ms) ==
  LET pop == PopFirstReady(s)
      to  == NextTask(s, pop.popped)
  IN  IF to = s.cur \/ pop.sys.hung THEN pop.sys
      ELSE EnterCpu([LeaveCpu(pop.sys, s.cur) EXCEPT !.prev = ms, !.cur = to],
                    to)

sched_unblock(s, t) ==
  SwitchTask(sched_task([s EXCEPT !.state[t] = "TS_READY_TO_RUN"], t), now)

(* cur is linked in front of a list before it becomes its head; the faulty *)
(* form swaps the two assignments.                                         *)
LinkedToSelf(list) == [Sys EXCEPT !.next[cur] = cur]
LinkedTo(list) == [Sys EXCEPT !.next[cur] = list]

(* sched_block, the caller having linked cur into the list it waits on     *)
sched_block(s) ==
  SwitchTask([s EXCEPT !.state[s.cur] = "TS_BLOCKED"], now)

-----------------------------------------------------------------------------
InUser == [at |-> "user", on |-> NULL, ms |-> 0, woken |-> FALSE]
At(place, t) == [InUser EXCEPT !.at = place, !.on = t]

(* cur continues later at c, whatever thread runs in between.              *)
ContinueAt(c) == kctx' = [kctx EXCEPT ![cur] = c]

(* proc_init, sched_init and proc_start_user_proc have run in kmain.       *)
Init ==
  /\ next = [t \in Thread |-> NULL]
  /\ state = [t \in Thread |->
                IF t \in {Idle, Shell} THEN "TS_READY_TO_RUN" ELSE "none"]
  /\ wake_time = [t \in Thread |-> 0]
  /\ waiters = [t \in Thread |-> NULL]
  /\ ready_start = Shell
  /\ ready_end = Shell
  /\ sleep_list = NULL
  /\ term_list = NULL
  /\ read_waiters = NULL
  /\ cur = Idle
  /\ prev_switch = 0
  /\ first_switch = TRUE
  /\ now = 0
  /\ input = 0
  /\ exited = {}
  /\ kctx = [t \in Thread |-> InUser]
  /\ hung = FALSE

(* Interrupts are enabled: cur is in user mode, or is the idle loop.       *)
Interruptible == ~hung /\ kctx[cur].at = "user"

(* Interrupts and system calls that nest in a handler (a trap gate).        *)
CallingAnywhere == ~hung /\ ~first_switch /\ cur \in User

(* A user thread is about to issue a system call.                          *)
Calling == Interruptible /\ ~first_switch /\ cur \in User

(* cur runs in the kernel, at the given place.                             *)
Running(place) == ~hung /\ kctx[cur].at = place

-----------------------------------------------------------------------------
(* The timer interrupt, sched_ontick.                                      *)

(* timer_isr: the clock is unsigned and differences of times are modular.  *)
Later == (now + 1) % (MaxTime + 1)
Ticks == Wraps \/ now < MaxTime
Elapsed(from, to) == (to - from) % (MaxTime + 1)

FirstTick ==
  /\ Interruptible
  /\ first_switch
  /\ Ticks
  /\ now' = Later
  /\ first_switch' = FALSE
  /\ prev_switch' = Later
  /\ cur' = Idle
  /\ state' = [state EXCEPT ![Idle] = "TS_RUNNING"]
  /\ UNCHANGED <<listVars, next, wake_time, ready_start, ready_end, input,
                 exited, kctx, hung>>

(* Up to the loop of _wake_sleepers, which owns the detached list.         *)
Tick ==
  /\ Interruptible
  /\ ~first_switch
  /\ Ticks
  /\ now' = Later
  /\ sleep_list' = NULL
  /\ ContinueAt([at |-> "wake", on |-> sleep_list, ms |-> Later,
                 woken |-> FALSE])
  /\ UNCHANGED <<runVars, wake_time, waiters, term_list, read_waiters,
                 first_switch, input, exited>>

(* A faulty test that wakes every sleeper at each tick.                    *)
ExpiredAny(t, ms) == wake_time[t] > 0

(* The time is up for a sleeper of the detached list.                      *)
Expired(t, ms) == wake_time[t] > 0 /\ wake_time[t] <= ms

(* One iteration of _wake_sleepers that unblocks t: it may switch tasks,   *)
(* and then the rest of the list waits for this thread to run again.       *)
WakeSleeper ==
  LET c == kctx[cur] IN
  /\ Running("wake")
  /\ c.on # NULL
  /\ Expired(c.on, c.ms)
  /\ wake_time' = [wake_time EXCEPT ![c.on] = 0]
  /\ ContinueAt([c EXCEPT !.on = next[c.on], !.woken = TRUE])
  /\ Commit(sched_unblock(Sys, c.on))
  /\ UNCHANGED <<listVars, first_switch, now, input, exited>>

(* One iteration of _wake_sleepers that puts t back on the sleep list.     *)
KeepSleeper ==
  LET c == kctx[cur] IN
  /\ Running("wake")
  /\ c.on # NULL
  /\ ~Expired(c.on, c.ms)
  /\ next' = [next EXCEPT ![c.on] = sleep_list]
  /\ sleep_list' = c.on
  /\ ContinueAt([c EXCEPT !.on = next[c.on]])
  /\ UNCHANGED <<state, wake_time, waiters, ready_start, ready_end, term_list,
                 read_waiters, cur, prev_switch, first_switch, now, input, exited, hung>>

(* The tick ends with a switch; the faulty form never preempts.            *)
SwitchIfWoken(c) == c.woken
SwitchAtEnd(c) == c.woken \/ Elapsed(prev_switch, c.ms) >= Quantum

(* The end of sched_ontick, with the time the tick read when it started.   *)
EndTick ==
  LET c == kctx[cur] IN
  /\ Running("wake")
  /\ c.on = NULL
  /\ ContinueAt(InUser)
  /\ Commit(IF SwitchAtEnd(c) THEN SwitchTask(Sys, c.ms) ELSE Sys)
  /\ UNCHANGED <<listVars, wake_time, first_switch, now, input, exited>>

-----------------------------------------------------------------------------
(* The console: the keyboard interrupt and the read system call.           *)

(* dev_unblock_readers, one iteration: c.on is the reader unblocked last,  *)
(* whose link is read only after this thread runs again.                   *)
UnblockFrom(place, t) ==
  IF t = NULL
  THEN /\ ContinueAt(InUser)
       /\ Commit(Sys)
  ELSE /\ ContinueAt(At(place, t))
       /\ Commit(sched_unblock(Sys, t))

(* Enter is pressed: a line of n bytes reaches the input buffer (a ring,   *)
(* so it never holds more than its capacity) and the blocked readers are   *)
(* unblocked.                                                              *)
KeyboardLine(n) ==
  /\ Interruptible
  /\ input' = IF input + n <= MaxInput THEN input + n ELSE MaxInput
  /\ read_waiters' = NULL
  /\ UnblockFrom("readers", read_waiters)
  /\ UNCHANGED <<wake_time, waiters, sleep_list, term_list, first_switch, now,
                 exited>>

UnblockNextReader ==
  /\ Running("readers")
  /\ UnblockFrom("readers", next[kctx[cur].on])
  /\ UNCHANGED <<listVars, wake_time, first_switch, now, input, exited>>

Read ==
  /\ Calling
  /\ ContinueAt(At("read", NULL))
  /\ UNCHANGED <<runVars, listVars, wake_time, first_switch, now, input,
                 exited>>

(* The loop of _read_con: take a byte, or block until there is one.        *)
TakeInput ==
  /\ Running("read")
  /\ input > 0
  /\ input' = input - 1
  /\ ContinueAt(InUser)
  /\ UNCHANGED <<runVars, listVars, wake_time, first_switch, now, exited>>

dev_block_until_read ==
  /\ Running("read")
  /\ input = 0
  /\ read_waiters' = cur
  /\ Commit(sched_block(LinkedTo(read_waiters)))
  /\ UNCHANGED <<wake_time, waiters, sleep_list, term_list, first_switch, now,
                 input, exited, kctx>>

-----------------------------------------------------------------------------
(* The system calls on threads.                                            *)

(* sched_sleep_until(time_ms() + d); the call returns when it is resumed.  *)
sched_sleep_until(d) ==
  /\ Calling
  /\ wake_time' = [wake_time EXCEPT ![cur] = now + d]
  /\ sleep_list' = cur
  /\ Commit(sched_block(LinkedTo(sleep_list)))
  /\ UNCHANGED <<waiters, term_list, read_waiters, first_switch, now, input,
                 exited, kctx>>

(* proc_start_user_proc creates the thread and makes it ready.             *)
StartProc(t) ==
  /\ Calling
  /\ state[t] = "none"
  /\ Commit(sched_task([Sys EXCEPT !.state[t] = "TS_READY_TO_RUN"], t))
  /\ UNCHANGED <<listVars, wake_time, first_switch, now, input, exited, kctx>>

(* sched_wait_task: blocks at most once, and does not test again.          *)
sched_wait_task(t) ==
  /\ Calling
  /\ state[t] \notin {"TS_TERM", "none"}
  /\ waiters' = [waiters EXCEPT ![t] = cur]
  /\ ContinueAt(At("wait", t))
  /\ Commit(sched_block(LinkedTo(waiters[t])))
  /\ UNCHANGED <<wake_time, sleep_list, term_list, read_waiters, first_switch,
                 now, input, exited>>

(* proc_wait_pid returns the exit_code of the process it waited for.       *)
ReturnFromWait ==
  /\ Running("wait")
  /\ ContinueAt(InUser)
  /\ UNCHANGED <<runVars, listVars, wake_time, first_switch, now, input,
                 exited>>

(* The waiters that sched_exit unblocks; the faulty form forgets them.     *)
NoWaiter == NULL
FirstWaiter == waiters[cur]

(* Up to the first iteration of the loop over the waiters.  A thread that  *)
(* is switched to again returns from the call: kctx is then user.          *)
sched_exit ==
  LET s == [LinkedTo(term_list) EXCEPT !.state[cur] = "TS_TERM"]
      w == FirstWaiter
  IN
  /\ Calling
  /\ term_list' = cur
  /\ exited' = exited \cup {cur}
  /\ waiters' = [waiters EXCEPT ![cur] = NULL]
  /\ IF w = NULL
     THEN /\ Commit(SwitchTask(s, now))
          /\ UNCHANGED kctx
     ELSE /\ Commit(sched_unblock(s, w))
          /\ ContinueAt(At("exit", w))
  /\ UNCHANGED <<wake_time, sleep_list, read_waiters, first_switch, now,
                 input>>

UnblockNextWaiter ==
  LET t == next[kctx[cur].on] IN
  /\ Running("exit")
  /\ IF t = NULL
     THEN /\ Commit(SwitchTask(Sys, now))
          /\ ContinueAt(InUser)
     ELSE /\ Commit(sched_unblock(Sys, t))
          /\ ContinueAt(At("exit", t))
  /\ UNCHANGED <<listVars, wake_time, first_switch, now, input, exited>>

-----------------------------------------------------------------------------
Interrupt ==
  \/ FirstTick
  \/ Tick
  \/ \E n \in 1 .. MaxInput : KeyboardLine(n)

SystemCall ==
  \/ "read" \in Calls /\ Read
  \/ "sleep" \in Calls /\ \E d \in Sleeps : sched_sleep_until(d)
  \/ "start" \in Calls /\ \E t \in User : StartProc(t)
  \/ "wait" \in Calls /\ \E t \in Thread : sched_wait_task(t)
  \/ "exit" \in Calls /\ sched_exit

InKernel ==
  \/ WakeSleeper
  \/ KeepSleeper
  \/ EndTick
  \/ UnblockNextReader
  \/ TakeInput
  \/ dev_block_until_read
  \/ ReturnFromWait
  \/ UnblockNextWaiter

Next == Interrupt \/ SystemCall \/ InKernel

Spec == Init /\ [][Next]_vars

(* The timer interrupt is latched by the interrupt controller until        *)
(* interrupts are enabled, so it is not lost to a thread that keeps making *)
(* system calls; code in the kernel runs on.  Nothing makes a user type or *)
(* a program make a system call.                                           *)
Fairness ==
  /\ SF_vars(FirstTick)
  /\ SF_vars(Tick)
  /\ WF_vars(InKernel)

FairSpec == Spec /\ Fairness

-----------------------------------------------------------------------------
(* Types of the variables.                                                 *)
TypeOK ==
  /\ next \in [Thread -> Link]
  /\ state \in [Thread -> States]
  /\ wake_time \in [Thread -> Nat]
  /\ waiters \in [Thread -> Link]
  /\ ready_start \in Link
  /\ ready_end \in Link
  /\ sleep_list \in Link
  /\ term_list \in Link
  /\ read_waiters \in Link
  /\ cur \in Thread
  /\ prev_switch \in Nat
  /\ first_switch \in BOOLEAN
  /\ now \in Nat
  /\ input \in Nat
  /\ exited \subseteq User
  /\ kctx \in [Thread -> Context]
  /\ hung \in BOOLEAN

(* The two ends of the ready list agree on whether it is empty, so the two *)
(* ASSERTs of sched_task never fire, however stale the links are.          *)
ReadyEndsAgree == (ready_start = NULL) <=> (ready_end = NULL)

(* Only the current thread is in state running.                            *)
OneRunning == \A t \in Thread : state[t] = "TS_RUNNING" => t = cur

(* The idle thread is never blocked and is on no list, so _get_next_task   *)
(* can always fall back on it.                                             *)
IdleAvailable ==
  /\ state[Idle] \in {"TS_RUNNING", "TS_READY_TO_RUN"}
  /\ Idle \notin {ready_start, ready_end, sleep_list, term_list, read_waiters}
  /\ \A t \in Thread : next[t] # Idle /\ waiters[t] # Idle

(* A thread that was switched away in the middle of a wake-up loop, with   *)
(* the rest of the list on its kernel stack, is ready: never blocked or    *)
(* terminated, which would strand the threads it still has to wake.        *)
LoopOwnerCanRun ==
  \A t \in Thread :
    kctx[t].at \in {"wake", "readers"} =>
      state[t] \in {"TS_RUNNING", "TS_READY_TO_RUN"}

(* _pop_first_ready always returns.                                        *)
NeverHangs == ~hung

(* sched_task adds the thread to the ready list: a ready thread is on the  *)
(* list that starts at _ready_list_start, the only one _pop_first_ready    *)
(* walks.                                                                  *)
ReadyAreQueued ==
  \A t \in User :
    state[t] = "TS_READY_TO_RUN" =>
      \E i \in 0 .. Cardinality(Thread) : Hops(Sys)[i] = t

(* sched_exit terminates the thread: it never runs again.                  *)
TermIsForever ==
  [][\A t \in Thread : state[t] = "TS_TERM" => state'[t] = "TS_TERM"]_vars

(* sched_wait_task returns when the thread waited for has terminated, so   *)
(* the exit code that proc_wait_pid returns has been written.              *)
WaitMeansExited ==
  [][\A t \in Thread :
       kctx[t].at = "wait" /\ kctx'[t].at # "wait" => kctx[t].on \in exited]_vars

(* A blocked thread is unblocked only by what it waits for: the exit of a  *)
(* thread, input to read, or the time it sleeps until.                     *)
WakesWhenDue ==
  [][\A t \in Thread :
       state[t] = "TS_BLOCKED" /\ state'[t] # "TS_BLOCKED" =>
         CASE kctx[t].at = "wait" -> kctx[t].on \in exited'
           [] kctx[t].at = "read" -> input' > 0
           [] OTHER -> wake_time[t] > 0 /\ wake_time[t] <= now]_vars

(* A ready thread eventually runs.                                         *)
RunsAgain ==
  \A t \in User : state[t] = "TS_READY_TO_RUN" ~> state[t] = "TS_RUNNING"

(* Every thread that waits for a thread that has exited returns from the   *)
(* wait.                                                                   *)
WaiterReturns ==
  \A w \in User :
    kctx[w].at = "wait" /\ kctx[w].on \in exited ~> kctx[w].at # "wait"
=============================================================================
