----------------------------- MODULE SchedProof -----------------------------
(***************************************************************************)
(* Proofs about Sched, for every set of threads, quantum and clock.        *)
(*                                                                         *)
(* The scheduler's links are arbitrarily stale, so nothing is assumed of   *)
(* the shape of a list: the proofs use only what every operation of the    *)
(* run queue keeps, stated on the record it works on (Good).               *)
(***************************************************************************)
EXTENDS Sched, Signals, TLAPS

SysType ==
  [next : [Thread -> Link], state : [Thread -> States], start : Link,
   end : Link, cur : Thread, prev : Nat, hung : BOOLEAN]

CanRun == {"TS_RUNNING", "TS_READY_TO_RUN"}

EndsAgree(s) == (s.start = NULL) <=> (s.end = NULL)

RunningIsCur(s) == \A t \in Thread : s.state[t] = "TS_RUNNING" => t = s.cur

IdleOff(s) ==
  /\ s.state[Idle] \in CanRun
  /\ s.start # Idle
  /\ s.end # Idle
  /\ \A t \in Thread : s.next[t] # Idle

Good(s) == s \in SysType /\ EndsAgree(s) /\ RunningIsCur(s) /\ IdleOff(s)

CurOf(s) == s.hung \/ s.state[s.cur] \in CanRun

(* From s to r a thread keeps its state or becomes able to run.            *)
OnlyWakes(s, r) ==
  \A t \in Thread : r.state[t] = s.state[t] \/ r.state[t] \in CanRun

(* What the lists other than the ready list and the kernel stacks keep.    *)
Elsewhere ==
  /\ Idle \notin {sleep_list, term_list, read_waiters}
  /\ \A t \in Thread : waiters[t] # Idle
  /\ \A t \in Thread : kctx[t].at \in {"wake", "readers", "exit"} =>
                         kctx[t].on # Idle
  /\ \A t \in Thread : kctx[t].at \in {"readers", "exit"} => kctx[t].on # NULL
  /\ kctx[Idle].at \in {"user", "wake", "readers"}
  /\ first_switch => cur = Idle /\ read_waiters = NULL /\ kctx[Idle].at = "user"

(* Whoever has the CPU is able to run, or the kernel is stuck in a switch. *)
CurCanRun == hung \/ state[cur] \in CanRun

(* The types of the variables outside the run queue.                       *)
RestOK ==
  /\ wake_time \in [Thread -> Nat]
  /\ waiters \in [Thread -> Link]
  /\ sleep_list \in Link
  /\ term_list \in Link
  /\ read_waiters \in Link
  /\ first_switch \in BOOLEAN
  /\ now \in Nat
  /\ input \in Nat
  /\ exited \subseteq User
  /\ kctx \in [Thread -> Context]

(* The inductive invariant.                                                *)
IInv == RestOK /\ Good(Sys) /\ Elsewhere /\ CurCanRun /\ LoopOwnerCanRun

-----------------------------------------------------------------------------
(* The operations of the run queue.                                        *)

LEMMA ThreadFacts == Idle \in Thread /\ NULL \notin Thread /\ Idle # NULL
  BY SchedAssumption DEF Thread

(* Changing the state of one thread leaves the rest of the record alone.   *)
LEMMA SetState ==
  ASSUME NEW s, s \in SysType, NEW th \in Thread, NEW st \in States
  PROVE  LET r == [s EXCEPT !.state[th] = st]
         IN  /\ r \in SysType
             /\ r.next = s.next /\ r.start = s.start /\ r.end = s.end
             /\ r.cur = s.cur
             /\ \A t \in Thread : r.state[t] = IF t = th THEN st ELSE s.state[t]
<1> DEFINE f == [s.state EXCEPT ![th] = st]
           r == [s EXCEPT !.state = f]
<1>1. s.state \in [Thread -> States]
  BY DEF SysType
<1>2. /\ f \in [Thread -> States]
      /\ \A t \in Thread : f[t] = IF t = th THEN st ELSE s.state[t]
  BY <1>1
<1>3. [s EXCEPT !.state[th] = st] = r
  OBVIOUS
<1> HIDE DEF f
<1>4. /\ r \in SysType
      /\ r.next = s.next /\ r.start = s.start /\ r.end = s.end
      /\ r.cur = s.cur /\ r.state = f
  BY <1>2 DEF SysType
<1> HIDE DEF r
<1> QED
  BY <1>2, <1>3, <1>4

(* sched_task keeps the run queue good and changes no state.               *)
LEMMA SchedTaskGood ==
  ASSUME NEW s, Good(s), NEW th \in Thread
  PROVE  /\ Good(sched_task(s, th))
         /\ sched_task(s, th).state = s.state
         /\ sched_task(s, th).cur = s.cur
<1> USE ThreadFacts DEF Good, SysType, Link
<1>1. CASE ~Queues(s, th)
  BY <1>1 DEF sched_task
<1>2. CASE Queues(s, th) /\ s.end # NULL
  <2> DEFINE r == [s EXCEPT !.next[s.end] = th, !.end = th]
  <2>1. sched_task(s, th) = r
    BY <1>2 DEF sched_task
  <2>2. th # Idle
    BY <1>2 DEF Queues
  <2>3. /\ r \in SysType
        /\ r.state = s.state /\ r.cur = s.cur /\ r.start = s.start
        /\ r.end = th
        /\ \A t \in Thread : r.next[t] = IF t = s.end THEN th ELSE s.next[t]
    BY <1>2
  <2>4. Good(r)
    BY <2>2, <2>3, <1>2 DEF EndsAgree, RunningIsCur, IdleOff
  <2> QED
    BY <2>1, <2>3, <2>4
<1>3. CASE Queues(s, th) /\ s.end = NULL
  <2> DEFINE r == [s EXCEPT !.start = th, !.end = th]
  <2>1. sched_task(s, th) = r
    BY <1>3 DEF sched_task
  <2>2. th # Idle
    BY <1>3 DEF Queues
  <2>3. /\ r \in SysType
        /\ r.state = s.state /\ r.cur = s.cur /\ r.next = s.next
        /\ r.start = th /\ r.end = th
    BY <1>3
  <2>4. Good(r)
    BY <2>2, <2>3 DEF EndsAgree, RunningIsCur, IdleOff
  <2> QED
    BY <2>1, <2>3, <2>4
<1> QED
  BY <1>1, <1>2, <1>3

(* _pop_first_ready keeps the run queue good; what it pops is a thread.    *)
LEMMA PopGood ==
  ASSUME NEW s, Good(s)
  PROVE  /\ Good(PopFirstReady(s).sys)
         /\ PopFirstReady(s).popped \in Link
         /\ PopFirstReady(s).popped # NULL =>
              s.state[PopFirstReady(s).popped] = "TS_READY_TO_RUN"
         /\ PopFirstReady(s).sys.state = s.state
         /\ PopFirstReady(s).sys.cur = s.cur
<1> USE ThreadFacts DEF Good, SysType, Link
<1> DEFINE I == 0 .. Cardinality(Thread)
<1>0. CASE s.start = NULL
  BY <1>0 DEF PopFirstReady
<1>1. CASE s.start # NULL /\ \E i \in I : FirstStop(s, i)
  <2> DEFINE k == CHOOSE i \in I : FirstStop(s, i)
             t == Hops(s)[k]
             start == IF t = NULL THEN NULL ELSE s.next[t]
             r == [s EXCEPT !.start = start, !.end = EndAfterPop(s, start)]
  <2>1. k \in I /\ FirstStop(s, k)
    BY <1>1
  <2>2. t \in Link /\ (t # NULL => s.state[t] = "TS_READY_TO_RUN")
    <3> HIDE DEF k
    <3> QED
      BY <2>1 DEF FirstStop, Stops
  <2>3. PopFirstReady(s) = [popped |-> t, sys |-> r]
    BY <1>1 DEF PopFirstReady
  <2> HIDE DEF t
  <2>4. start \in Link /\ start # Idle
    BY <2>2 DEF IdleOff
  <2> HIDE DEF start
  <2>5. /\ r \in SysType
        /\ r.state = s.state /\ r.cur = s.cur /\ r.next = s.next
        /\ r.start = start
        /\ r.end = IF start = NULL THEN NULL ELSE s.end
    BY <2>4 DEF EndAfterPop
  <2>6. s.end # NULL
    BY <1>1 DEF EndsAgree
  <2>7. Good(r)
    BY <2>4, <2>5, <2>6 DEF EndsAgree, RunningIsCur, IdleOff
  <2> HIDE DEF r
  <2> QED
    BY <2>2, <2>3, <2>5, <2>7
<1>2. CASE s.start # NULL /\ ~\E i \in I : FirstStop(s, i)
  <2> DEFINE r == [s EXCEPT !.hung = TRUE]
  <2>1. PopFirstReady(s) = [popped |-> NULL, sys |-> r]
    BY <1>2 DEF PopFirstReady
  <2>2. Good(r) /\ r.state = s.state /\ r.cur = s.cur
    BY DEF EndsAgree, RunningIsCur, IdleOff
  <2> QED
    BY <2>1, <2>2
<1> QED
  BY <1>0, <1>1, <1>2

(* LeaveCpu keeps the run queue good and leaves no thread running.         *)
LEMMA LeaveGood ==
  ASSUME NEW s, Good(s)
  PROVE  /\ Good(LeaveCpu(s, s.cur))
         /\ LeaveCpu(s, s.cur).cur = s.cur
         /\ OnlyWakes(s, LeaveCpu(s, s.cur))
         /\ \A t \in Thread : LeaveCpu(s, s.cur).state[t] # "TS_RUNNING"
<1> DEFINE u == IF s.state[s.cur] = "TS_RUNNING"
                THEN [s EXCEPT !.state[s.cur] = "TS_READY_TO_RUN"] ELSE s
<1>1. /\ u \in SysType
      /\ u.cur = s.cur /\ u.next = s.next /\ u.start = s.start /\ u.end = s.end
      /\ \A t \in Thread : u.state[t] = IF t = s.cur /\ s.state[t] = "TS_RUNNING"
                                        THEN "TS_READY_TO_RUN" ELSE s.state[t]
  <2>1. s \in SysType /\ s.cur \in Thread /\ "TS_READY_TO_RUN" \in States
    BY DEF Good, SysType, States
  <2>2. CASE s.state[s.cur] = "TS_RUNNING"
    BY <2>1, <2>2, SetState
  <2>3. CASE s.state[s.cur] # "TS_RUNNING"
    BY <2>1, <2>3
  <2> QED
    BY <2>2, <2>3
<1>2. LeaveCpu(s, s.cur) = sched_task(u, s.cur)
  BY DEF LeaveCpu
<1> HIDE DEF u
<1>3. Good(u) /\ \A t \in Thread : u.state[t] # "TS_RUNNING"
  BY <1>1, ThreadFacts DEF Good, EndsAgree, RunningIsCur, IdleOff, CanRun
<1>4. OnlyWakes(s, u)
  BY <1>1 DEF OnlyWakes, CanRun
<1>5. s.cur \in Thread
  BY DEF Good, SysType
<1> QED
  BY <1>1, <1>2, <1>3, <1>4, <1>5, SchedTaskGood DEF OnlyWakes

(* _switch_task keeps the run queue good, blocks no thread, and gives the  *)
(* CPU to a thread that is able to run.                                    *)
LEMMA SwitchGood ==
  ASSUME NEW s, Good(s), NEW ms \in Nat
  PROVE  /\ Good(SwitchTask(s, ms))
         /\ OnlyWakes(s, SwitchTask(s, ms))
         /\ CurOf(SwitchTask(s, ms))
<1> DEFINE pop == PopFirstReady(s)
           to  == NextTask(s, pop.popped)
           p   == LeaveCpu(pop.sys, s.cur)
           q   == [p EXCEPT !.prev = ms, !.cur = to]
<1>1. /\ Good(pop.sys)
      /\ pop.popped \in Link
      /\ pop.popped # NULL => s.state[pop.popped] = "TS_READY_TO_RUN"
      /\ pop.sys.state = s.state
      /\ pop.sys.cur = s.cur
  BY PopGood
<1>2. to \in Thread
  BY <1>1, ThreadFacts DEF NextTask, Link, Good, SysType
<1>5. s.state[to] \in CanRun
  BY <1>1 DEF NextTask, Good, IdleOff, CanRun
<1>3. CASE to = s.cur \/ pop.sys.hung
  BY <1>1, <1>3, <1>5 DEF SwitchTask, OnlyWakes, CurOf
<1>4. CASE ~(to = s.cur \/ pop.sys.hung)
  <2>1. SwitchTask(s, ms) = EnterCpu(q, to)
    BY <1>4 DEF SwitchTask
  <2> HIDE DEF pop, to
  <2>2. /\ Good(p)
        /\ p.cur = s.cur
        /\ OnlyWakes(s, p)
        /\ \A t \in Thread : p.state[t] # "TS_RUNNING"
    <3>1. /\ Good(LeaveCpu(pop.sys, pop.sys.cur))
          /\ LeaveCpu(pop.sys, pop.sys.cur).cur = s.cur
          /\ OnlyWakes(pop.sys, LeaveCpu(pop.sys, pop.sys.cur))
          /\ \A t \in Thread :
                LeaveCpu(pop.sys, pop.sys.cur).state[t] # "TS_RUNNING"
      BY <1>1, LeaveGood
    <3> QED
      BY <1>1, <3>1 DEF OnlyWakes
  <2> HIDE DEF p
  <2> DEFINE r == EnterCpu(q, to)
  <2>3. /\ r \in SysType
        /\ r.next = p.next /\ r.start = p.start /\ r.end = p.end /\ r.cur = to
        /\ \A t \in Thread : r.state[t] = IF t = to THEN "TS_RUNNING"
                                          ELSE p.state[t]
    <3>1. /\ q \in SysType
          /\ q.next = p.next /\ q.start = p.start /\ q.end = p.end
          /\ q.cur = to /\ q.state = p.state
      BY <1>2, <2>2 DEF Good, SysType
    <3>2. "TS_RUNNING" \in States
      BY DEF States
    <3> HIDE DEF q
    <3> QED
      BY <1>2, <3>1, <3>2, SetState DEF EnterCpu
  <2> HIDE DEF r
  <2>4. Good(r)
    BY <2>2, <2>3, ThreadFacts DEF Good, EndsAgree, RunningIsCur, IdleOff, CanRun
  <2>5. OnlyWakes(s, r) /\ CurOf(r)
    BY <1>2, <2>2, <2>3 DEF OnlyWakes, CurOf, CanRun
  <2> QED
    BY <2>1, <2>4, <2>5 DEF r
<1> QED
  BY <1>3, <1>4

(* sched_unblock: as above, with t made ready first.                       *)
LEMMA UnblockGood ==
  ASSUME NEW s, Good(s), NEW t \in Thread, now \in Nat
  PROVE  /\ Good(sched_unblock(s, t))
         /\ OnlyWakes(s, sched_unblock(s, t))
         /\ CurOf(sched_unblock(s, t))
<1> DEFINE u == [s EXCEPT !.state[t] = "TS_READY_TO_RUN"]
           v == sched_task(u, t)
<1>1. /\ u \in SysType
      /\ u.cur = s.cur /\ u.next = s.next /\ u.start = s.start /\ u.end = s.end
      /\ \A x \in Thread : u.state[x] = IF x = t THEN "TS_READY_TO_RUN"
                                        ELSE s.state[x]
  BY SetState DEF Good, States
<1>2. sched_unblock(s, t) = SwitchTask(v, now)
  BY DEF sched_unblock
<1> HIDE DEF u
<1>3. Good(u) /\ OnlyWakes(s, u)
  BY <1>1, ThreadFacts DEF Good, EndsAgree, RunningIsCur, IdleOff, CanRun, OnlyWakes
<1>4. Good(v) /\ OnlyWakes(s, v)
  BY <1>3, SchedTaskGood DEF OnlyWakes
<1> HIDE DEF v
<1>5. /\ Good(SwitchTask(v, now))
      /\ OnlyWakes(v, SwitchTask(v, now))
      /\ CurOf(SwitchTask(v, now))
  BY <1>4, SwitchGood
<1> QED
  BY <1>2, <1>4, <1>5 DEF OnlyWakes

(* Linking the current thread in front of a list and taking it off the CPU *)
(* in a state that is not running, as sched_block and sched_exit do.       *)
LEMMA BlockGood ==
  ASSUME Good(Sys), cur # Idle, NEW list \in Link, list # Idle,
         NEW st \in States, st # "TS_RUNNING"
  PROVE  /\ Good([LinkedTo(list) EXCEPT !.state[cur] = st])
         /\ \A t \in Thread \ {cur} :
              [LinkedTo(list) EXCEPT !.state[cur] = st].state[t] = state[t]
         /\ LinkedTo(list).cur = cur
<1> DEFINE r == [LinkedTo(list) EXCEPT !.state[cur] = st]
<1>1. /\ r \in SysType
      /\ r.cur = cur /\ r.start = ready_start /\ r.end = ready_end
      /\ \A t \in Thread : r.next[t] = IF t = cur THEN list ELSE next[t]
      /\ \A t \in Thread : r.state[t] = IF t = cur THEN st ELSE state[t]
      /\ LinkedTo(list).cur = cur
  <2> DEFINE s == LinkedTo(list)
  <2>1. Sys \in SysType /\ cur \in Thread
    BY DEF Good, SysType, Sys
  <2>2. /\ s \in SysType
        /\ s.cur = cur /\ s.start = ready_start /\ s.end = ready_end
        /\ s.state = state
        /\ \A t \in Thread : s.next[t] = IF t = cur THEN list ELSE next[t]
    BY <2>1 DEF LinkedTo, Sys, SysType
  <2> HIDE DEF s
  <2>3. [s EXCEPT !.state[cur] = st] = r
    BY DEF s
  <2> QED
    BY <2>1, <2>2, <2>3, SetState DEF s
<1> HIDE DEF r
<1>2. Good(r)
  BY <1>1, ThreadFacts DEF Good, EndsAgree, RunningIsCur, IdleOff, Sys
<1> QED
  BY <1>1, <1>2 DEF r
(* Making a thread ready and queueing it, as proc_start_user_proc does.    *)
LEMMA ReadyGood ==
  ASSUME NEW s, Good(s), NEW t \in Thread
  PROVE  LET r == sched_task([s EXCEPT !.state[t] = "TS_READY_TO_RUN"], t)
         IN  Good(r) /\ OnlyWakes(s, r) /\ r.cur = s.cur
<1> DEFINE u == [s EXCEPT !.state[t] = "TS_READY_TO_RUN"]
<1>1. /\ u \in SysType
      /\ u.cur = s.cur /\ u.next = s.next /\ u.start = s.start /\ u.end = s.end
      /\ \A x \in Thread : u.state[x] = IF x = t THEN "TS_READY_TO_RUN"
                                        ELSE s.state[x]
  BY SetState DEF Good, States
<1> HIDE DEF u
<1>2. Good(u) /\ OnlyWakes(s, u)
  BY <1>1, ThreadFacts DEF Good, EndsAgree, RunningIsCur, IdleOff, CanRun, OnlyWakes
<1>3. /\ Good(sched_task(u, t))
      /\ sched_task(u, t).state = u.state
      /\ sched_task(u, t).cur = u.cur
  BY <1>2, SchedTaskGood
<1>4. sched_task(u, t).cur = s.cur /\ OnlyWakes(s, sched_task(u, t))
  BY <1>1, <1>2, <1>3 DEF OnlyWakes
<1> QED
  BY <1>3, <1>4 DEF u

(* The variables take the values of the record that is committed.          *)
LEMMA CommitIs ==
  ASSUME NEW r, Good(r), Commit(r)
  PROVE  /\ Good(Sys)'
         /\ state' = r.state /\ cur' = r.cur /\ hung' = r.hung
<1>1. r \in SysType
  BY DEF Good
<1>2. Sys' = r
  BY <1>1 DEF Commit, Sys, SysType
<1>3. Good(Sys')
  BY <1>2
<1>4. Good(Sys)'
  BY <1>3 DEF Good, EndsAgree, RunningIsCur, IdleOff
<1> QED
  BY <1>4 DEF Commit

(* What the current state of the run queue says of its variables.          *)
LEMMA SysFacts ==
  ASSUME Good(Sys)
  PROVE  /\ next \in [Thread -> Link] /\ state \in [Thread -> States]
         /\ ready_start \in Link /\ ready_end \in Link
         /\ cur \in Thread /\ prev_switch \in Nat /\ hung \in BOOLEAN
         /\ \A t \in Thread : next[t] # Idle
         /\ Sys.state = state /\ Sys.cur = cur /\ Sys.hung = hung
  BY DEF Good, SysType, Sys, IdleOff

-----------------------------------------------------------------------------
(* Every action keeps the inductive invariant.                             *)

THEOREM InitIInv == Init => IInv
<1> SUFFICES ASSUME Init PROVE IInv
  OBVIOUS
<1> USE ThreadFacts, SchedAssumption DEF Init
<1>1. Shell \in Thread /\ Shell # Idle /\ Shell \in Link /\ NULL \in Link
  BY DEF Thread, Link
<1>2. RestOK
  BY <1>1 DEF RestOK, Context, Places, InUser
<1>3. Sys \in SysType
  BY <1>1 DEF Sys, SysType, States
<1>4. Good(Sys)
  BY <1>1, <1>3 DEF Good, EndsAgree, RunningIsCur, IdleOff, CanRun, Sys
<1>5. Elsewhere
  BY DEF Elsewhere, InUser
<1>6. CurCanRun /\ LoopOwnerCanRun
  BY DEF CurCanRun, LoopOwnerCanRun, CanRun, InUser
<1> QED
  BY <1>2, <1>4, <1>5, <1>6 DEF IInv

LEMMA FirstTickKeeps == IInv /\ FirstTick => IInv'
<1> SUFFICES ASSUME IInv, FirstTick PROVE IInv'
  OBVIOUS
<1> USE ThreadFacts, SchedAssumption DEF IInv, FirstTick, listVars
<1>1. Later \in Nat
  BY DEF Later, RestOK
<1>2. RestOK'
  BY <1>1 DEF RestOK
<1>3. cur = Idle
  BY DEF Elsewhere
<1>4. Sys' \in SysType
  BY <1>1, SysFacts DEF Sys, SysType, States
<1>5. Good(Sys)'
  BY <1>3, <1>4, SysFacts
     DEF Good, EndsAgree, RunningIsCur, IdleOff, CanRun, Sys
<1>6. Elsewhere'
  BY DEF Elsewhere
<1>7. CurCanRun' /\ LoopOwnerCanRun'
  BY SysFacts DEF CurCanRun, LoopOwnerCanRun, CanRun
<1> QED
  BY <1>2, <1>5, <1>6, <1>7

LEMMA TickKeeps == IInv /\ Tick => IInv'
<1> SUFFICES ASSUME IInv, Tick PROVE IInv'
  OBVIOUS
<1> USE ThreadFacts, SchedAssumption DEF IInv, Tick, runVars
<1> DEFINE c == [at |-> "wake", on |-> sleep_list, ms |-> Later,
                 woken |-> FALSE]
<1>1. Later \in Nat
  BY DEF Later, RestOK
<1>2. c \in Context
  BY <1>1 DEF Context, Places, RestOK
<1>3. /\ cur \in Thread
      /\ kctx' \in [Thread -> Context]
      /\ \A t \in Thread : kctx'[t] = IF t = cur THEN c ELSE kctx[t]
  BY <1>2, SysFacts DEF ContinueAt, RestOK
<1>4. RestOK'
  BY <1>1, <1>3 DEF RestOK, Link
<1>5. Good(Sys)'
  BY DEF Good, EndsAgree, RunningIsCur, IdleOff, Sys
<1>6. Elsewhere'
  BY <1>3 DEF Elsewhere
<1>7. CurCanRun' /\ LoopOwnerCanRun'
  BY <1>3 DEF CurCanRun, LoopOwnerCanRun, CanRun, Interruptible
<1> QED
  BY <1>4, <1>5, <1>6, <1>7
(* The kernel stack of cur takes the value it continues at.                *)
LEMMA ContinueIs ==
  ASSUME RestOK, cur \in Thread, NEW c \in Context, ContinueAt(c)
  PROVE  /\ kctx' \in [Thread -> Context]
         /\ \A t \in Thread : kctx'[t] = IF t = cur THEN c ELSE kctx[t]
  BY DEF ContinueAt, RestOK

(* A step in which cur only unblocks threads: it may give up the CPU in    *)
(* the middle of a loop, and is then ready.                                *)
LEMMA WakeStep ==
  ASSUME IInv, NEW r, Good(r), OnlyWakes(Sys, r), CurOf(r), Commit(r),
         NEW c \in Context, ContinueAt(c),
         c.at \in {"wake", "readers"} => state[cur] \in CanRun
  PROVE  Good(Sys)' /\ CurCanRun' /\ LoopOwnerCanRun'
<1>1. Good(Sys)' /\ state' = r.state /\ cur' = r.cur /\ hung' = r.hung
  BY CommitIs
<1>2. /\ cur \in Thread /\ Sys.state = state
      /\ \A t \in Thread : kctx'[t] = IF t = cur THEN c ELSE kctx[t]
  BY SysFacts, ContinueIs DEF IInv
<1>3. CurCanRun'
  BY <1>1 DEF CurCanRun, CurOf
<1>4. LoopOwnerCanRun'
  BY <1>1, <1>2 DEF IInv, LoopOwnerCanRun, OnlyWakes, CanRun
<1> QED
  BY <1>1, <1>3, <1>4

(* A step in which cur, outside any loop, changes its own state to one     *)
(* that cannot run (u), and others may be unblocked before the switch (r). *)
LEMMA BlockStep ==
  ASSUME IInv, NEW u, \A t \in Thread \ {cur} : u.state[t] = state[t],
         NEW r, Good(r), OnlyWakes(u, r), CurOf(r), Commit(r),
         kctx' \in [Thread -> Context],
         \A t \in Thread \ {cur} : kctx'[t] = kctx[t],
         kctx'[cur].at \notin {"wake", "readers"}
  PROVE  Good(Sys)' /\ CurCanRun' /\ LoopOwnerCanRun'
<1>1. Good(Sys)' /\ state' = r.state /\ cur' = r.cur /\ hung' = r.hung
  BY CommitIs
<1>2. CurCanRun'
  BY <1>1 DEF CurCanRun, CurOf
<1>3. LoopOwnerCanRun'
  BY <1>1 DEF IInv, LoopOwnerCanRun, OnlyWakes, CanRun
<1> QED
  BY <1>1, <1>2, <1>3

LEMMA WakeSleeperKeeps == IInv /\ WakeSleeper => IInv'
<1> SUFFICES ASSUME IInv, WakeSleeper PROVE IInv'
  OBVIOUS
<1> USE ThreadFacts, SysFacts, SchedAssumption DEF WakeSleeper, listVars
<1> DEFINE t == kctx[cur].on
           c == [kctx[cur] EXCEPT !.on = next[t], !.woken = TRUE]
           r == sched_unblock(Sys, t)
<1>1. /\ kctx[cur] \in Context /\ kctx[cur].at = "wake"
      /\ t \in Thread /\ t # Idle
  BY DEF IInv, RestOK, Context, Link, Running, Elsewhere
<1>2. c \in Context /\ c.at = "wake" /\ c.on # Idle
  BY <1>1 DEF IInv, Context
<1>3. Good(r) /\ OnlyWakes(Sys, r) /\ CurOf(r) /\ Commit(r)
  BY <1>1, UnblockGood DEF IInv, RestOK
<1>4. ContinueAt(c) /\ state[cur] \in CanRun
  BY <1>1 DEF IInv, LoopOwnerCanRun, CanRun
<1> HIDE DEF c, r
<1>5. Good(Sys)' /\ CurCanRun' /\ LoopOwnerCanRun'
  BY <1>2, <1>3, <1>4, WakeStep
<1>6. /\ kctx' \in [Thread -> Context]
      /\ \A x \in Thread : kctx'[x] = IF x = cur THEN c ELSE kctx[x]
  BY <1>2, <1>4, ContinueIs DEF IInv
<1>7. RestOK'
  BY <1>1, <1>6 DEF IInv, RestOK
<1>8. Elsewhere'
  BY <1>1, <1>2, <1>6 DEF IInv, Elsewhere
<1> QED
  BY <1>5, <1>7, <1>8 DEF IInv

LEMMA KeepSleeperKeeps == IInv /\ KeepSleeper => IInv'
<1> SUFFICES ASSUME IInv, KeepSleeper PROVE IInv'
  OBVIOUS
<1> USE ThreadFacts, SysFacts, SchedAssumption DEF KeepSleeper
<1> DEFINE t == kctx[cur].on
           c == [kctx[cur] EXCEPT !.on = next[t]]
<1>1. /\ kctx[cur] \in Context /\ kctx[cur].at = "wake"
      /\ t \in Thread /\ t # Idle
  BY DEF IInv, RestOK, Context, Link, Running, Elsewhere
<1>2. c \in Context /\ c.at = "wake" /\ c.on # Idle
  BY <1>1 DEF IInv, Context
<1>3. ContinueAt(c)
  OBVIOUS
<1> HIDE DEF c
<1>4. /\ kctx' \in [Thread -> Context]
      /\ \A x \in Thread : kctx'[x] = IF x = cur THEN c ELSE kctx[x]
  BY <1>2, <1>3, ContinueIs DEF IInv
<1>5. RestOK'
  BY <1>1, <1>4 DEF IInv, RestOK, Link
<1>6. /\ next' \in [Thread -> Link]
      /\ \A x \in Thread : next'[x] # Idle
  BY <1>1 DEF IInv, RestOK, Elsewhere
<1>7. Sys' \in SysType
  BY <1>6 DEF IInv, Sys, SysType
<1>8. Good(Sys)'
  BY <1>6, <1>7 DEF IInv, Good, EndsAgree, RunningIsCur, IdleOff, Sys
<1>9. Elsewhere'
  BY <1>1, <1>2, <1>4 DEF IInv, Elsewhere
<1>10. CurCanRun' /\ LoopOwnerCanRun'
  BY <1>1, <1>4 DEF IInv, CurCanRun, LoopOwnerCanRun
<1> QED
  BY <1>5, <1>8, <1>9, <1>10 DEF IInv
LEMMA EndTickKeeps == IInv /\ EndTick => IInv'
<1> SUFFICES ASSUME IInv, EndTick PROVE IInv'
  OBVIOUS
<1> USE ThreadFacts, SysFacts, SchedAssumption DEF EndTick, listVars
<1> DEFINE c == kctx[cur]
           r == IF SwitchAtEnd(c) THEN SwitchTask(Sys, c.ms) ELSE Sys
<1>1. c \in Context /\ c.at = "wake" /\ c.ms \in Nat
  BY DEF IInv, RestOK, Context, Running
<1>2. state[cur] \in CanRun
  BY <1>1 DEF IInv, LoopOwnerCanRun, CanRun
<1>3. Good(r) /\ OnlyWakes(Sys, r) /\ CurOf(r) /\ Commit(r)
  BY <1>1, <1>2, SwitchGood DEF IInv, OnlyWakes, CurOf
<1>4. InUser \in Context /\ InUser.at = "user" /\ ContinueAt(InUser)
  BY DEF InUser, Context, Places, Link
<1> HIDE DEF r
<1>5. Good(Sys)' /\ CurCanRun' /\ LoopOwnerCanRun'
  BY <1>2, <1>3, <1>4, WakeStep
<1>6. /\ kctx' \in [Thread -> Context]
      /\ \A x \in Thread : kctx'[x] = IF x = cur THEN InUser ELSE kctx[x]
  BY <1>4, ContinueIs DEF IInv
<1>7. RestOK'
  BY <1>6 DEF IInv, RestOK
<1>8. ~first_switch
  BY <1>1 DEF IInv, Elsewhere
<1>9. Elsewhere'
  BY <1>4, <1>6, <1>8 DEF IInv, Elsewhere
<1> QED
  BY <1>5, <1>7, <1>9 DEF IInv

LEMMA AtFacts ==
  /\ InUser.at = "user"
  /\ \A p \in Places, t \in Link :
       /\ At(p, t) \in Context
       /\ At(p, t).at = p /\ At(p, t).on = t
  /\ "readers" \in Places
  BY ThreadFacts DEF InUser, At, Context, Places, Link

(* One iteration of a loop that unblocks a list of readers.                *)
LEMMA UnblockFromKeeps ==
  ASSUME IInv, NEW t \in Link, t # Idle, UnblockFrom("readers", t),
         state[cur] \in CanRun,
         ~first_switch \/ (t = NULL /\ cur = Idle)
  PROVE  /\ Good(Sys)' /\ CurCanRun' /\ LoopOwnerCanRun'
         /\ kctx' \in [Thread -> Context]
         /\ \A x \in Thread : kctx'[x] = kctx[x] \/ kctx'[x] = InUser
               \/ (t # NULL /\ kctx'[x] = At("readers", t))
         /\ first_switch => kctx'[Idle] = InUser /\ cur' = Idle
<1> USE ThreadFacts, SysFacts
<1> DEFINE c == IF t = NULL THEN InUser ELSE At("readers", t)
           r == IF t = NULL THEN Sys ELSE sched_unblock(Sys, t)
<1>1. c \in Context
  BY DEF InUser, At, Context, Places, Link
<1>2. ContinueAt(c) /\ Commit(r)
  BY DEF UnblockFrom
<1>3. Good(r) /\ OnlyWakes(Sys, r) /\ CurOf(r)
  <2>1. CASE t = NULL
    BY <2>1 DEF IInv, OnlyWakes, CurOf
  <2>2. CASE t \in Thread
    BY <2>2, UnblockGood DEF IInv, RestOK
  <2> QED
    BY <2>1, <2>2 DEF Link
<1>4. t = NULL => cur' = cur
  BY <1>2 DEF Commit, Sys
<1> HIDE DEF r
<1>5. Good(Sys)' /\ CurCanRun' /\ LoopOwnerCanRun'
  BY <1>1, <1>2, <1>3, WakeStep
<1>6. /\ kctx' \in [Thread -> Context]
      /\ \A x \in Thread : kctx'[x] = IF x = cur THEN c ELSE kctx[x]
  BY <1>1, <1>2, ContinueIs DEF IInv
<1>7. first_switch => kctx'[Idle] = InUser /\ cur' = Idle
  <2> SUFFICES ASSUME first_switch PROVE kctx'[Idle] = InUser /\ cur' = Idle
    OBVIOUS
  <2>1. t = NULL /\ cur = Idle
    OBVIOUS
  <2> QED
    BY <2>1, <1>4, <1>6
<1> QED
  BY <1>5, <1>6, <1>7

LEMMA KeyboardLineKeeps ==
  ASSUME IInv, NEW n \in Nat, KeyboardLine(n)
  PROVE  IInv'
<1> USE ThreadFacts, SchedAssumption DEF KeyboardLine
<1>1. read_waiters \in Link /\ read_waiters # Idle
  BY DEF IInv, RestOK, Elsewhere
<1>2. state[cur] \in CanRun
  BY DEF IInv, Interruptible, CurCanRun
<1>3. ~first_switch \/ (read_waiters = NULL /\ cur = Idle)
  BY DEF IInv, Elsewhere
<1>4. /\ Good(Sys)' /\ CurCanRun' /\ LoopOwnerCanRun'
      /\ kctx' \in [Thread -> Context]
      /\ \A x \in Thread : kctx'[x] = kctx[x] \/ kctx'[x] = InUser
            \/ (read_waiters # NULL /\ kctx'[x] = At("readers", read_waiters))
      /\ first_switch => kctx'[Idle] = InUser /\ cur' = Idle
  BY <1>1, <1>2, <1>3, UnblockFromKeeps
<1>5. RestOK'
  BY <1>4 DEF IInv, RestOK, Link
<1>6. Elsewhere'
  <2> USE <1>1, <1>4 DEF IInv, Elsewhere
  <2>1. /\ Idle \notin {sleep_list', term_list', read_waiters'}
        /\ \A x \in Thread : waiters'[x] # Idle
    BY DEF Link
  <2>2. \A x \in Thread :
          \/ kctx'[x] = kctx[x]
          \/ kctx'[x].at = "user"
          \/ kctx'[x].at = "readers" /\ kctx'[x].on # Idle /\ kctx'[x].on # NULL
    BY AtFacts
  <2>3. first_switch' => cur' = Idle /\ read_waiters' = NULL /\ kctx'[Idle].at = "user"
    BY DEF InUser
  <2> QED
    BY <2>1, <2>2, <2>3
<1> QED
  BY <1>4, <1>5, <1>6 DEF IInv

LEMMA UnblockNextReaderKeeps == IInv /\ UnblockNextReader => IInv'
<1> SUFFICES ASSUME IInv, UnblockNextReader PROVE IInv'
  OBVIOUS
<1> USE ThreadFacts, SysFacts, SchedAssumption DEF UnblockNextReader, listVars
<1> DEFINE t == next[kctx[cur].on]
<1>1. kctx[cur].at = "readers" /\ kctx[cur].on \in Thread
  BY DEF IInv, RestOK, Context, Link, Running, Elsewhere
<1>2. t \in Link /\ t # Idle
  BY <1>1 DEF IInv
<1>3. state[cur] \in CanRun
  BY <1>1 DEF IInv, LoopOwnerCanRun, CanRun
<1>4. ~first_switch
  BY <1>1 DEF IInv, Elsewhere
<1> HIDE DEF t
<1>5. /\ Good(Sys)' /\ CurCanRun' /\ LoopOwnerCanRun'
      /\ kctx' \in [Thread -> Context]
      /\ \A x \in Thread : kctx'[x] = kctx[x] \/ kctx'[x] = InUser
            \/ (t # NULL /\ kctx'[x] = At("readers", t))
      /\ first_switch => kctx'[Idle] = InUser /\ cur' = Idle
  <2>1. UnblockFrom("readers", t)
    BY DEF t
  <2> QED
    BY <1>2, <1>3, <1>4, <2>1, UnblockFromKeeps
<1>6. RestOK'
  BY <1>5 DEF IInv, RestOK
<1>7. Elsewhere'
  <2> USE <1>2, <1>4, <1>5 DEF IInv, Elsewhere
  <2>1. /\ Idle \notin {sleep_list', term_list', read_waiters'}
        /\ \A x \in Thread : waiters'[x] # Idle
    BY DEF Link
  <2>2. \A x \in Thread :
          \/ kctx'[x] = kctx[x]
          \/ kctx'[x].at = "user"
          \/ kctx'[x].at = "readers" /\ kctx'[x].on # Idle /\ kctx'[x].on # NULL
    BY AtFacts
  <2>3. first_switch' => cur' = Idle /\ read_waiters' = NULL /\ kctx'[Idle].at = "user"
    BY DEF InUser
  <2> QED
    BY <2>1, <2>2, <2>3
<1> QED
  BY <1>5, <1>6, <1>7 DEF IInv

(* A step of cur that leaves the run queue alone.                          *)
LEMMA QuietStep ==
  ASSUME IInv, UNCHANGED runVars, NEW c \in Context, ContinueAt(c),
         c.at \notin {"wake", "readers"}
  PROVE  Good(Sys)' /\ CurCanRun' /\ LoopOwnerCanRun'
<1>1. cur \in Thread
  BY SysFacts DEF IInv
<1>2. \A t \in Thread : kctx'[t] = IF t = cur THEN c ELSE kctx[t]
  BY <1>1, ContinueIs DEF IInv
<1> QED
  BY <1>2 DEF IInv, runVars, Good, EndsAgree, RunningIsCur, IdleOff, Sys,
              CurCanRun, LoopOwnerCanRun

LEMMA ReadKeeps == IInv /\ Read => IInv'
<1> SUFFICES ASSUME IInv, Read PROVE IInv'
  OBVIOUS
<1> USE ThreadFacts, SysFacts, SchedAssumption DEF Read
<1> DEFINE c == At("read", NULL)
<1>1. c \in Context /\ c.at = "read"
  BY DEF At, InUser, Context, Places, Link
<1> HIDE DEF c
<1>2. Good(Sys)' /\ CurCanRun' /\ LoopOwnerCanRun'
  BY <1>1, QuietStep DEF c
<1>3. /\ kctx' \in [Thread -> Context]
      /\ \A t \in Thread : kctx'[t] = IF t = cur THEN c ELSE kctx[t]
  BY <1>1, ContinueIs DEF IInv, c
<1>4. RestOK'
  BY <1>3 DEF IInv, RestOK, listVars
<1>5. Elsewhere'
  BY <1>1, <1>3 DEF IInv, Elsewhere, Calling, listVars, runVars
<1> QED
  BY <1>2, <1>4, <1>5 DEF IInv

LEMMA TakeInputKeeps == IInv /\ TakeInput => IInv'
<1> SUFFICES ASSUME IInv, TakeInput PROVE IInv'
  OBVIOUS
<1> USE ThreadFacts, SysFacts, SchedAssumption DEF TakeInput
<1>1. InUser \in Context /\ InUser.at = "user"
  BY DEF InUser, Context, Places, Link
<1>2. Good(Sys)' /\ CurCanRun' /\ LoopOwnerCanRun'
  BY <1>1, QuietStep
<1>3. /\ kctx' \in [Thread -> Context]
      /\ \A t \in Thread : kctx'[t] = IF t = cur THEN InUser ELSE kctx[t]
  BY <1>1, ContinueIs DEF IInv
<1>4. RestOK'
  BY <1>3 DEF IInv, RestOK, listVars
<1>5. Elsewhere'
  BY <1>1, <1>3 DEF IInv, Elsewhere, Running, listVars, runVars
<1> QED
  BY <1>2, <1>4, <1>5 DEF IInv

LEMMA ReturnFromWaitKeeps == IInv /\ ReturnFromWait => IInv'
<1> SUFFICES ASSUME IInv, ReturnFromWait PROVE IInv'
  OBVIOUS
<1> USE ThreadFacts, SysFacts, SchedAssumption DEF ReturnFromWait
<1>1. InUser \in Context /\ InUser.at = "user"
  BY DEF InUser, Context, Places, Link
<1>2. Good(Sys)' /\ CurCanRun' /\ LoopOwnerCanRun'
  BY <1>1, QuietStep
<1>3. /\ kctx' \in [Thread -> Context]
      /\ \A t \in Thread : kctx'[t] = IF t = cur THEN InUser ELSE kctx[t]
  BY <1>1, ContinueIs DEF IInv
<1>4. RestOK'
  BY <1>3 DEF IInv, RestOK, listVars
<1>5. Elsewhere'
  BY <1>1, <1>3 DEF IInv, Elsewhere, Running, listVars, runVars
<1> QED
  BY <1>2, <1>4, <1>5 DEF IInv
LEMMA dev_block_until_readKeeps == IInv /\ dev_block_until_read => IInv'
<1> SUFFICES ASSUME IInv, dev_block_until_read PROVE IInv'
  OBVIOUS
<1> USE ThreadFacts, SysFacts, SchedAssumption DEF dev_block_until_read
<1> DEFINE s == LinkedTo(read_waiters)
           u == [s EXCEPT !.state[cur] = "TS_BLOCKED"]
           r == SwitchTask(u, now)
<1>1. /\ kctx[cur].at = "read" /\ cur # Idle /\ cur \in Thread
      /\ ~first_switch
  BY DEF IInv, Running, Elsewhere
<1>2. read_waiters \in Link /\ read_waiters # Idle /\ now \in Nat
  BY DEF IInv, RestOK, Elsewhere
<1>3. Good(u) /\ (\A t \in Thread \ {cur} : u.state[t] = state[t]) /\ s.cur = cur
  BY <1>1, <1>2, BlockGood DEF IInv, States
<1>4. Commit(r)
  BY <1>3 DEF sched_block
<1> HIDE DEF u
<1>5. Good(r) /\ OnlyWakes(u, r) /\ CurOf(r)
  BY <1>2, <1>3, SwitchGood
<1> HIDE DEF r
<1>6. kctx' \in [Thread -> Context] /\ kctx' = kctx
  BY DEF IInv, RestOK
<1>7. Good(Sys)' /\ CurCanRun' /\ LoopOwnerCanRun'
  BY <1>1, <1>3, <1>4, <1>5, <1>6, BlockStep
<1>8. RestOK'
  BY <1>1, <1>6 DEF IInv, RestOK, Link
<1>9. Elsewhere'
  BY <1>1, <1>6 DEF IInv, Elsewhere
<1> QED
  BY <1>7, <1>8, <1>9 DEF IInv

LEMMA sched_sleep_untilKeeps ==
  ASSUME IInv, NEW d \in Sleeps, sched_sleep_until(d)
  PROVE  IInv'
<1> USE ThreadFacts, SysFacts, SchedAssumption DEF sched_sleep_until
<1> DEFINE s == LinkedTo(sleep_list)
           u == [s EXCEPT !.state[cur] = "TS_BLOCKED"]
           r == SwitchTask(u, now)
<1>1. /\ kctx[cur].at = "user" /\ cur # Idle /\ cur \in Thread
      /\ ~first_switch
  BY DEF IInv, Calling, Interruptible
<1>2. sleep_list \in Link /\ sleep_list # Idle /\ now \in Nat
  BY DEF IInv, RestOK, Elsewhere
<1>3. Good(u) /\ (\A t \in Thread \ {cur} : u.state[t] = state[t]) /\ s.cur = cur
  BY <1>1, <1>2, BlockGood DEF IInv, States
<1>4. Commit(r)
  BY <1>3 DEF sched_block
<1> HIDE DEF u
<1>5. Good(r) /\ OnlyWakes(u, r) /\ CurOf(r)
  BY <1>2, <1>3, SwitchGood
<1> HIDE DEF r
<1>6. kctx' \in [Thread -> Context] /\ kctx' = kctx
  BY DEF IInv, RestOK
<1>7. Good(Sys)' /\ CurCanRun' /\ LoopOwnerCanRun'
  BY <1>1, <1>3, <1>4, <1>5, <1>6, BlockStep
<1>8. wake_time' \in [Thread -> Nat]
  <2>1. now + d \in Nat
    BY <1>2
  <2> QED
    BY <2>1 DEF IInv, RestOK
<1>9. RestOK'
  BY <1>1, <1>6, <1>8 DEF IInv, RestOK, Link
<1>10. Elsewhere'
  BY <1>1, <1>6 DEF IInv, Elsewhere
<1> QED
  BY <1>7, <1>9, <1>10 DEF IInv

LEMMA StartProcKeeps ==
  ASSUME IInv, NEW t \in User, StartProc(t)
  PROVE  IInv'
<1> USE ThreadFacts, SysFacts, SchedAssumption DEF StartProc, listVars
<1> DEFINE r == sched_task([Sys EXCEPT !.state[t] = "TS_READY_TO_RUN"], t)
<1>1. Good(r) /\ OnlyWakes(Sys, r) /\ r.cur = cur
  BY ReadyGood DEF IInv, Thread
<1>2. Commit(r)
  OBVIOUS
<1> HIDE DEF r
<1>3. Good(Sys)' /\ state' = r.state /\ cur' = r.cur /\ hung' = r.hung
  BY <1>1, <1>2, CommitIs
<1>4. CurCanRun' /\ LoopOwnerCanRun'
  BY <1>1, <1>3
     DEF IInv, CurCanRun, LoopOwnerCanRun, OnlyWakes, CanRun, Calling,
         Interruptible
<1>5. RestOK' /\ Elsewhere'
  BY <1>1, <1>3 DEF IInv, RestOK, Elsewhere
<1> QED
  BY <1>3, <1>4, <1>5 DEF IInv
LEMMA sched_wait_taskKeeps ==
  ASSUME IInv, NEW t \in Thread, sched_wait_task(t)
  PROVE  IInv'
<1> USE ThreadFacts, SysFacts, SchedAssumption DEF sched_wait_task
<1> DEFINE s == LinkedTo(waiters[t])
           u == [s EXCEPT !.state[cur] = "TS_BLOCKED"]
           r == SwitchTask(u, now)
           c == At("wait", t)
<1>1. /\ kctx[cur].at = "user" /\ cur # Idle /\ cur \in Thread
      /\ ~first_switch
  BY DEF IInv, Calling, Interruptible
<1>2. waiters[t] \in Link /\ waiters[t] # Idle /\ now \in Nat
  BY DEF IInv, RestOK, Elsewhere
<1>3. Good(u) /\ (\A x \in Thread \ {cur} : u.state[x] = state[x]) /\ s.cur = cur
  BY <1>1, <1>2, BlockGood DEF IInv, States
<1>4. Commit(r)
  BY <1>3 DEF sched_block
<1> HIDE DEF u
<1>5. Good(r) /\ OnlyWakes(u, r) /\ CurOf(r)
  BY <1>2, <1>3, SwitchGood
<1> HIDE DEF r
<1>6. c \in Context /\ c.at = "wait"
  BY AtFacts DEF Places, Link
<1> HIDE DEF c
<1>7. /\ kctx' \in [Thread -> Context]
      /\ \A x \in Thread : kctx'[x] = IF x = cur THEN c ELSE kctx[x]
  BY <1>6, ContinueIs DEF IInv, c
<1>8. Good(Sys)' /\ CurCanRun' /\ LoopOwnerCanRun'
  BY <1>1, <1>3, <1>4, <1>5, <1>6, <1>7, BlockStep
<1>9. RestOK'
  BY <1>1, <1>7 DEF IInv, RestOK, Link
<1>10. Elsewhere'
  BY <1>1, <1>6, <1>7 DEF IInv, RestOK, Elsewhere
<1> QED
  BY <1>8, <1>9, <1>10 DEF IInv

LEMMA sched_exitKeeps == IInv /\ sched_exit => IInv'
<1> SUFFICES ASSUME IInv, sched_exit PROVE IInv'
  OBVIOUS
<1> USE ThreadFacts, SysFacts, SchedAssumption DEF sched_exit
<1> DEFINE w == FirstWaiter
           u == [LinkedTo(term_list) EXCEPT !.state[cur] = "TS_TERM"]
           r == IF w = NULL THEN SwitchTask(u, now) ELSE sched_unblock(u, w)
           c == IF w = NULL THEN kctx[cur] ELSE At("exit", w)
<1>1. /\ kctx[cur].at = "user" /\ cur # Idle /\ cur \in User
      /\ cur \in Thread /\ ~first_switch /\ kctx[cur] \in Context
  BY DEF IInv, Calling, Interruptible, RestOK, Thread
<1>2. /\ term_list \in Link /\ term_list # Idle /\ now \in Nat
      /\ w \in Link /\ w # Idle
  BY <1>1 DEF IInv, RestOK, Elsewhere, FirstWaiter
<1>3. Good(u) /\ \A x \in Thread \ {cur} : u.state[x] = state[x]
  BY <1>1, <1>2, BlockGood DEF IInv, States
<1>4. Commit(r)
  OBVIOUS
<1> HIDE DEF u
<1>5. Good(r) /\ OnlyWakes(u, r) /\ CurOf(r)
  <2>1. CASE w = NULL
    BY <2>1, <1>2, <1>3, SwitchGood
  <2>2. CASE w \in Thread
    BY <2>2, <1>2, <1>3, UnblockGood
  <2> QED
    BY <2>1, <2>2, <1>2 DEF Link
<1> HIDE DEF r
<1>6. /\ c \in Context /\ c.at \in {"user", "exit"}
      /\ c.at = "exit" => c.on # Idle /\ c.on # NULL
  BY <1>1, <1>2, AtFacts DEF Places
<1>7. /\ kctx' \in [Thread -> Context]
      /\ \A x \in Thread : kctx'[x] = IF x = cur THEN c ELSE kctx[x]
  <2>1. CASE w = NULL
    BY <2>1 DEF IInv, RestOK
  <2>2. CASE w # NULL
    <3>1. ContinueAt(c)
      BY <2>2
    <3> HIDE DEF c
    <3> QED
      BY <1>1, <1>6, <3>1, ContinueIs DEF IInv
  <2> QED
    BY <2>1, <2>2
<1> HIDE DEF c
<1>8. Good(Sys)' /\ CurCanRun' /\ LoopOwnerCanRun'
  BY <1>1, <1>3, <1>4, <1>5, <1>6, <1>7, BlockStep
<1>9. RestOK'
  BY <1>1, <1>7 DEF IInv, RestOK, Link
<1>10. Elsewhere'
  BY <1>1, <1>6, <1>7 DEF IInv, RestOK, Elsewhere
<1> QED
  BY <1>8, <1>9, <1>10 DEF IInv

LEMMA UnblockNextWaiterKeeps == IInv /\ UnblockNextWaiter => IInv'
<1> SUFFICES ASSUME IInv, UnblockNextWaiter PROVE IInv'
  OBVIOUS
<1> USE ThreadFacts, SysFacts, SchedAssumption DEF UnblockNextWaiter, listVars
<1> DEFINE t == next[kctx[cur].on]
           r == IF t = NULL THEN SwitchTask(Sys, now) ELSE sched_unblock(Sys, t)
           c == IF t = NULL THEN InUser ELSE At("exit", t)
<1>1. /\ kctx[cur].at = "exit" /\ kctx[cur].on \in Thread
      /\ cur # Idle /\ cur \in Thread /\ now \in Nat
  BY DEF IInv, RestOK, Context, Link, Running, Elsewhere
<1>2. t \in Link /\ t # Idle
  BY <1>1 DEF IInv
<1>3. ~first_switch
  BY <1>1 DEF IInv, Elsewhere
<1>4. Commit(r) /\ ContinueAt(c)
  OBVIOUS
<1> HIDE DEF t
<1>5. Good(r) /\ OnlyWakes(Sys, r) /\ CurOf(r)
  <2>1. CASE t = NULL
    BY <2>1, <1>1, SwitchGood DEF IInv
  <2>2. CASE t \in Thread
    BY <2>2, <1>1, UnblockGood DEF IInv
  <2> QED
    BY <2>1, <2>2, <1>2 DEF Link
<1> HIDE DEF r
<1>6. /\ c \in Context /\ c.at \in {"user", "exit"}
      /\ c.at = "exit" => c.on # Idle /\ c.on # NULL
  BY <1>1, <1>2, AtFacts DEF Places, InUser, Context, Link
<1> HIDE DEF c
<1>7. /\ kctx' \in [Thread -> Context]
      /\ \A x \in Thread : kctx'[x] = IF x = cur THEN c ELSE kctx[x]
  BY <1>1, <1>4, <1>6, ContinueIs DEF IInv
<1>8. Good(Sys)' /\ CurCanRun' /\ LoopOwnerCanRun'
  BY <1>4, <1>5, <1>6, WakeStep
<1>9. RestOK'
  BY <1>1, <1>7 DEF IInv, RestOK
<1>10. Elsewhere'
  BY <1>1, <1>3, <1>6, <1>7 DEF IInv, RestOK, Elsewhere
<1> QED
  BY <1>8, <1>9, <1>10 DEF IInv

LEMMA StutterKeeps == IInv /\ UNCHANGED vars => IInv'
  BY DEF IInv, vars, runVars, listVars, RestOK, Good, EndsAgree, RunningIsCur,
         IdleOff, Sys, Elsewhere, CurCanRun, LoopOwnerCanRun

THEOREM StepIInv == IInv /\ [Next]_vars => IInv'
<1> SUFFICES ASSUME IInv, [Next]_vars PROVE IInv'
  OBVIOUS
<1>1. CASE Interrupt
  <2>1. CASE \E n \in 1 .. MaxInput : KeyboardLine(n)
    BY <2>1, KeyboardLineKeeps, SchedAssumption
  <2> QED
    BY <1>1, <2>1, FirstTickKeeps, TickKeeps DEF Interrupt
<1>2. CASE SystemCall
  BY <1>2, ReadKeeps, sched_sleep_untilKeeps, StartProcKeeps,
     sched_wait_taskKeeps, sched_exitKeeps DEF SystemCall
<1>3. CASE InKernel
  BY <1>3, WakeSleeperKeeps, KeepSleeperKeeps, EndTickKeeps,
     UnblockNextReaderKeeps, TakeInputKeeps, dev_block_until_readKeeps,
     ReturnFromWaitKeeps, UnblockNextWaiterKeeps DEF InKernel
<1>4. CASE UNCHANGED vars
  BY <1>4, StutterKeeps
<1> QED
  BY <1>1, <1>2, <1>3, <1>4 DEF Next

-----------------------------------------------------------------------------
(* The results.                                                            *)

(* The inductive invariant holds in every reachable state.                 *)
THEOREM Inductive == Spec => []IInv
<1>1. Init => IInv
  BY InitIInv
<1>2. IInv /\ [Next]_vars => IInv'
  BY StepIInv
<1> QED
  BY <1>1, <1>2, PTL DEF Spec

(* Every variable of the scheduler keeps its type: no link, list head or   *)
(* kernel stack ever points outside the threads.                           *)
THEOREM TypeCorrect == Spec => []TypeOK
<1>1. IInv => TypeOK
  BY SysFacts DEF IInv, RestOK, TypeOK
<1> QED
  BY <1>1, Inductive, PTL

(* The ends of the ready list agree whatever stale links thread it, so the *)
(* ASSERTs of sched_task never fire.                                       *)
THEOREM QueueEndsAgree == Spec => []ReadyEndsAgree
<1>1. IInv => ReadyEndsAgree
  BY DEF IInv, Good, EndsAgree, Sys, ReadyEndsAgree
<1> QED
  BY <1>1, Inductive, PTL

(* Only the current thread is in state running: no context switch leaves   *)
(* a second one behind.                                                    *)
THEOREM RunningIsCurrent == Spec => []OneRunning
<1>1. IInv => OneRunning
  BY DEF IInv, Good, RunningIsCur, Sys, OneRunning
<1> QED
  BY <1>1, Inductive, PTL

(* The idle thread can always be fallen back on: it is never blocked and   *)
(* no list leads to it.                                                    *)
THEOREM IdleNeverQueued == Spec => []IdleAvailable
<1>1. IInv => IdleAvailable
  BY DEF IInv, Good, IdleOff, Sys, CanRun, Elsewhere, IdleAvailable
<1> QED
  BY <1>1, Inductive, PTL

(* A thread preempted in the middle of a wake-up loop can always run, so   *)
(* the threads it has still to wake are not stranded.                      *)
THEOREM LoopOwnersRunnable == Spec => []LoopOwnerCanRun
<1>1. IInv => LoopOwnerCanRun
  BY DEF IInv
<1> QED
  BY <1>1, Inductive, PTL

-----------------------------------------------------------------------------
(* Without reads of the console.  A reader is the one thread that blocks   *)
(* with its place in the kernel (the loop of _read_con) unaware of it, and *)
(* dev_unblock_readers follows links that may by then lead to any list, so *)
(* the three properties below fail when programs read.  Without reads each *)
(* blocked thread is known by its kernel stack and by the one list that    *)
(* may wake it, however stale the links of the lists are.                  *)
NoReads == "read" \notin Calls

(* A thread that sleeps is blocked inside sched_sleep_until.               *)
Asleep(t) == state[t] = "TS_BLOCKED" /\ kctx[t].at = "user"

(* A thread that waits is blocked inside sched_wait_task(u).               *)
WaitsFor(t, u) ==
  state[t] = "TS_BLOCKED" /\ kctx[t].at = "wait" /\ kctx[t].on = u

(* Everything that blocks is a sleep or a wait; an exit never resumes.     *)
BlockedKnown ==
  \A t \in Thread :
    /\ kctx[t].at \notin {"read", "readers"}
    /\ state[t] = "TS_BLOCKED" => kctx[t].at \in {"user", "wait"}
    /\ kctx[t].at = "exit" => state[t] = "TS_TERM"

(* Only a thread that sleeps has a wake-up time, which the wrapping clock  *)
(* excludes.                                                               *)
SleepersTimed ==
  \A t \in Thread : wake_time[t] > 0 => Asleep(t) /\ ~Wraps

(* The head of the waiters of a thread waits for that thread.              *)
WaitersWait ==
  \A t \in Thread : waiters[t] # NULL => WaitsFor(waiters[t], t)

(* A wait that has been resumed, or that outlives its thread, is over.     *)
ResumedAfterExit ==
  \A t \in Thread :
    kctx[t].at = "wait" /\ state[t] # "TS_BLOCKED" => kctx[t].on \in exited

(* The time a tick compares wake-up times with has come.                   *)
TickTimePast ==
  \A t \in Thread : kctx[t].at = "wake" /\ ~Wraps => kctx[t].ms <= now

Calm ==
  /\ read_waiters = NULL
  /\ BlockedKnown
  /\ SleepersTimed
  /\ WaitersWait
  /\ ResumedAfterExit
  /\ TickTimePast

(* From states f to states g, every thread but those of S that was blocked *)
(* or terminated still is, and no other thread becomes so.                 *)
StillOut(f, g, S) ==
  \A t \in Thread \ S :
    \/ g[t] = f[t]
    \/ f[t] \notin {"TS_BLOCKED", "TS_TERM"} /\ g[t] \in CanRun

(* What no step may do to a thread.                                        *)
TermStays == \A t \in Thread : state[t] = "TS_TERM" => state'[t] = "TS_TERM"

WaitEnds ==
  \A t \in Thread :
    kctx[t].at = "wait" /\ kctx'[t].at # "wait" => kctx[t].on \in exited

WakesInTime ==
  \A t \in Thread :
    state[t] = "TS_BLOCKED" /\ state'[t] # "TS_BLOCKED" =>
      CASE kctx[t].at = "wait" -> kctx[t].on \in exited'
        [] kctx[t].at = "read" -> input' > 0
        [] OTHER -> wake_time[t] > 0 /\ wake_time[t] <= now

Orderly == TermStays /\ WaitEnds /\ WakesInTime

(* _switch_task blocks, wakes and revives nobody.                          *)
LEMMA SwitchStillOut ==
  ASSUME NEW s, Good(s), NEW ms \in Nat
  PROVE  StillOut(s.state, SwitchTask(s, ms).state, {})
<1> DEFINE pop == PopFirstReady(s)
           to  == NextTask(s, pop.popped)
           p   == LeaveCpu(pop.sys, s.cur)
           q   == [p EXCEPT !.prev = ms, !.cur = to]
<1>1. /\ Good(pop.sys)
      /\ pop.popped \in Link
      /\ pop.popped # NULL => s.state[pop.popped] = "TS_READY_TO_RUN"
      /\ pop.sys.state = s.state
      /\ pop.sys.cur = s.cur
  BY PopGood
<1>2. to \in Thread /\ s.state[to] \in CanRun
  BY <1>1, ThreadFacts DEF NextTask, Link, Good, SysType, IdleOff, CanRun
<1>3. CASE to = s.cur \/ pop.sys.hung
  BY <1>1, <1>3 DEF SwitchTask, StillOut
<1>4. CASE ~(to = s.cur \/ pop.sys.hung)
  <2>1. SwitchTask(s, ms) = EnterCpu(q, to)
    BY <1>4 DEF SwitchTask
  <2> HIDE DEF pop, to
  <2>2. Good(p) /\ StillOut(s.state, p.state, {})
    <3> DEFINE v == pop.sys
               u == IF v.state[v.cur] = "TS_RUNNING"
                    THEN [v EXCEPT !.state[v.cur] = "TS_READY_TO_RUN"] ELSE v
    <3>1. Good(LeaveCpu(v, v.cur)) /\ v.state = s.state /\ v.cur = s.cur
      BY <1>1, LeaveGood
    <3>2. v \in SysType /\ v.cur \in Thread /\ "TS_READY_TO_RUN" \in States
      BY <1>1 DEF Good, SysType, States
    <3>3. LeaveCpu(v, v.cur) = sched_task(u, v.cur)
      BY DEF LeaveCpu
    <3> HIDE DEF v
    <3>4. /\ u \in SysType
          /\ u.cur = v.cur /\ u.next = v.next /\ u.start = v.start
          /\ u.end = v.end
          /\ \A t \in Thread : u.state[t] =
               IF t = v.cur /\ v.state[t] = "TS_RUNNING"
               THEN "TS_READY_TO_RUN" ELSE v.state[t]
      <4>1. CASE v.state[v.cur] = "TS_RUNNING"
        BY <3>2, <4>1, SetState
      <4>2. CASE v.state[v.cur] # "TS_RUNNING"
        BY <3>2, <4>2
      <4> QED
        BY <4>1, <4>2
    <3>5. Good(v)
      BY <1>1 DEF v
    <3> HIDE DEF u
    <3>6. Good(u)
      BY <3>4, <3>5, ThreadFacts
         DEF Good, EndsAgree, RunningIsCur, IdleOff, CanRun
    <3>7. LeaveCpu(v, v.cur).state = u.state
      BY <3>2, <3>3, <3>6, SchedTaskGood
    <3>8. StillOut(s.state, LeaveCpu(v, v.cur).state, {})
      BY <3>1, <3>4, <3>7 DEF StillOut, CanRun
    <3>9. p = LeaveCpu(v, v.cur)
      BY <3>1 DEF v
    <3> QED
      BY <3>1, <3>8, <3>9
  <2> HIDE DEF p
  <2>3. /\ q \in SysType
        /\ q.state = p.state
    BY <1>2, <2>2 DEF Good, SysType
  <2>4. "TS_RUNNING" \in States
    BY DEF States
  <2> HIDE DEF q
  <2> DEFINE r == [q EXCEPT !.state[to] = "TS_RUNNING"]
  <2>5. \A t \in Thread : r.state[t] =
                            IF t = to THEN "TS_RUNNING" ELSE q.state[t]
    BY <1>2, <2>3, <2>4, SetState
  <2>6. EnterCpu(q, to) = r
    BY DEF EnterCpu
  <2> HIDE DEF r
  <2> QED
    BY <1>2, <2>1, <2>2, <2>3, <2>5, <2>6 DEF StillOut, CanRun
<1> QED
  BY <1>3, <1>4

(* sched_unblock wakes t and nobody else.                                  *)
LEMMA UnblockStillOut ==
  ASSUME NEW s, Good(s), NEW t \in Thread, now \in Nat
  PROVE  /\ StillOut(s.state, sched_unblock(s, t).state, {t})
         /\ sched_unblock(s, t).state[t] \in CanRun
<1> DEFINE u == [s EXCEPT !.state[t] = "TS_READY_TO_RUN"]
           v == sched_task(u, t)
<1>1. /\ u \in SysType
      /\ u.cur = s.cur /\ u.next = s.next /\ u.start = s.start /\ u.end = s.end
      /\ \A x \in Thread : u.state[x] = IF x = t THEN "TS_READY_TO_RUN"
                                        ELSE s.state[x]
  BY SetState DEF Good, States
<1>2. sched_unblock(s, t) = SwitchTask(v, now)
  BY DEF sched_unblock
<1> HIDE DEF u
<1>3. Good(u)
  BY <1>1, ThreadFacts DEF Good, EndsAgree, RunningIsCur, IdleOff, CanRun
<1>4. Good(v) /\ v.state = u.state
  BY <1>3, SchedTaskGood
<1> HIDE DEF v
<1>5. StillOut(v.state, SwitchTask(v, now).state, {})
  BY <1>4, SwitchStillOut
<1> QED
  BY <1>1, <1>2, <1>4, <1>5 DEF StillOut, CanRun

(* cur goes to state st, off the CPU or to wake others: the states that    *)
(* BlockGood starts from.                                                  *)
LEMMA LeavesAs ==
  ASSUME Good(Sys), cur # Idle, NEW list \in Link, list # Idle,
         NEW st \in States, st # "TS_RUNNING"
  PROVE  [LinkedTo(list) EXCEPT !.state[cur] = st].state[cur] = st
<1> DEFINE s == LinkedTo(list)
<1>1. Sys \in SysType /\ cur \in Thread
  BY DEF Good, SysType, Sys
<1>2. s \in SysType
  BY <1>1 DEF LinkedTo, Sys, SysType
<1> HIDE DEF s
<1> DEFINE r == [s EXCEPT !.state[cur] = st]
<1>3. \A t \in Thread : r.state[t] = IF t = cur THEN st ELSE s.state[t]
  BY <1>1, <1>2, SetState
<1> QED
  BY <1>1, <1>3 DEF s

(* The thread on the CPU is neither blocked nor terminated, so nothing     *)
(* that may wake a blocked thread leads to it.                             *)
LEMMA CurIsOut ==
  ASSUME IInv, Calm, ~hung
  PROVE  /\ cur \in Thread /\ state \in [Thread -> States]
         /\ state[cur] \in CanRun
         /\ wake_time[cur] = 0
         /\ \A t \in Thread : waiters[t] # cur
         /\ kctx[cur].at = "wait" => kctx[cur].on \in exited
         /\ kctx[cur].at # "exit"
<1>1. cur \in Thread /\ state \in [Thread -> States] /\ state[cur] \in CanRun
  BY SysFacts DEF IInv, CurCanRun
<1>2. wake_time[cur] = 0
  BY <1>1 DEF IInv, RestOK, Calm, SleepersTimed, Asleep, CanRun
<1>3. \A t \in Thread : waiters[t] # cur
  BY <1>1, ThreadFacts DEF Calm, WaitersWait, WaitsFor, CanRun
<1>4. kctx[cur].at = "wait" => kctx[cur].on \in exited
  BY <1>1 DEF Calm, ResumedAfterExit, CanRun
<1>5. kctx[cur].at # "exit"
  BY <1>1 DEF Calm, BlockedKnown, CanRun
<1> QED
  BY <1>1, <1>2, <1>3, <1>4, <1>5

(* The time does not go back, unless the clock wraps.                      *)
LEMMA TimeGoesOn ==
  ASSUME IInv, Ticks, now' = Later
  PROVE  ~Wraps => now <= now'
<1> SUFFICES ASSUME ~Wraps PROVE now <= now'
  OBVIOUS
<1>1. now \in Nat /\ MaxTime \in Nat /\ now < MaxTime
  BY SchedAssumption DEF IInv, RestOK, Ticks
<1>2. (now + 1) % (MaxTime + 1) = now + 1
  <2> HIDE DEF IInv
  <2>1. \A m, n \in Nat : m < n => m % n = m
    OBVIOUS
  <2> QED
    BY <1>1, <2>1
<1> QED
  BY <1>1, <1>2 DEF Later

(* A step of cur that blocks and wakes nobody, and leaves it in user mode  *)
(* or in the wake-up loop of a tick.                                       *)
LEMMA QuietIsCalm ==
  ASSUME IInv, Calm, ~hung,
         NEW c, c.at \in {"user", "wake"},
         c.at = "wake" /\ ~Wraps => c.ms <= now',
         \A t \in Thread : kctx'[t] = IF t = cur THEN c ELSE kctx[t],
         StillOut(state, state', {}),
         UNCHANGED <<wake_time, waiters, read_waiters, exited>>,
         now' \in Nat, ~Wraps => now <= now'
  PROVE  Calm' /\ Orderly
<1>1. /\ cur \in Thread /\ state \in [Thread -> States]
      /\ state[cur] \in CanRun
      /\ wake_time[cur] = 0
      /\ \A t \in Thread : waiters[t] # cur
      /\ kctx[cur].at = "wait" => kctx[cur].on \in exited
  BY CurIsOut
<1>2. \A t \in Thread :
        /\ state[t] = "TS_BLOCKED" <=> state'[t] = "TS_BLOCKED"
        /\ state[t] = "TS_TERM" => state'[t] = "TS_TERM"
  BY <1>1 DEF StillOut, CanRun
<1>3. state'[cur] \in CanRun
  BY <1>1 DEF StillOut, CanRun
<1>4. read_waiters' = NULL
  BY DEF Calm
<1>5. BlockedKnown'
  BY <1>2, <1>3 DEF Calm, BlockedKnown, CanRun
<1>6. SleepersTimed'
  <2> SUFFICES ASSUME NEW t \in Thread, wake_time[t] > 0
               PROVE  state'[t] = "TS_BLOCKED" /\ kctx'[t].at = "user" /\ ~Wraps
    BY DEF SleepersTimed, Asleep
  <2>1. t # cur
    BY <1>1
  <2> QED
    BY <1>2, <2>1 DEF Calm, SleepersTimed, Asleep
<1>7. WaitersWait'
  <2> SUFFICES ASSUME NEW t \in Thread, waiters[t] # NULL
               PROVE  /\ state'[waiters[t]] = "TS_BLOCKED"
                      /\ kctx'[waiters[t]].at = "wait"
                      /\ kctx'[waiters[t]].on = t
    BY DEF WaitersWait, WaitsFor
  <2>1. waiters[t] # cur /\ waiters[t] \in Thread
    BY <1>1 DEF IInv, RestOK, Link
  <2> QED
    BY <1>2, <2>1 DEF Calm, WaitersWait, WaitsFor
<1>8. ResumedAfterExit'
  BY <1>2 DEF Calm, ResumedAfterExit
<1>9. TickTimePast'
  <2> SUFFICES ASSUME NEW t \in Thread, kctx'[t].at = "wake", ~Wraps
               PROVE  kctx'[t].ms <= now'
    BY DEF TickTimePast
  <2>1. CASE t = cur
    BY <2>1
  <2>2. CASE t # cur
    <3>1. kctx[t].ms \in Nat /\ now \in Nat /\ kctx[t].ms <= now
      BY <2>2 DEF Calm, TickTimePast, IInv, RestOK, Context
    <3> QED
      BY <2>2, <3>1
  <2> QED
    BY <2>1, <2>2
<1>10. Calm'
  BY <1>4, <1>5, <1>6, <1>7, <1>8, <1>9 DEF Calm
<1>11. Orderly
  <2>1. TermStays /\ WakesInTime
    BY <1>2 DEF TermStays, WakesInTime
  <2>2. WaitEnds
    BY <1>1 DEF WaitEnds
  <2> QED
    BY <2>1, <2>2 DEF Orderly
<1> QED
  BY <1>10, <1>11

LEMMA FirstTickCalm == IInv /\ Calm /\ FirstTick => Calm' /\ Orderly
<1> SUFFICES ASSUME IInv, Calm, FirstTick PROVE Calm' /\ Orderly
  OBVIOUS
<1> USE ThreadFacts, SysFacts DEF FirstTick, listVars
<1> DEFINE c == kctx[cur]
<1>1. c.at = "user" /\ ~hung /\ Idle = cur /\ now' \in Nat
  BY SchedAssumption DEF IInv, RestOK, Elsewhere, Interruptible, Later
<1>2. \A t \in Thread : kctx'[t] = IF t = cur THEN c ELSE kctx[t]
  OBVIOUS
<1>3. StillOut(state, state', {})
  BY DEF StillOut, IInv, Good, IdleOff, Sys, CanRun
<1>4. ~Wraps => now <= now'
  BY TimeGoesOn
<1>5. UNCHANGED <<wake_time, waiters, read_waiters, exited>>
  OBVIOUS
<1>6. c.at \in {"user", "wake"} /\ (c.at = "wake" /\ ~Wraps => c.ms <= now')
  BY <1>1
<1> HIDE DEF c, FirstTick
<1> QED
  BY <1>1, <1>2, <1>3, <1>4, <1>5, <1>6, QuietIsCalm

LEMMA TickCalm == IInv /\ Calm /\ Tick => Calm' /\ Orderly
<1> SUFFICES ASSUME IInv, Calm, Tick PROVE Calm' /\ Orderly
  OBVIOUS
<1> USE SysFacts DEF Tick, runVars
<1> DEFINE c == [at |-> "wake", on |-> sleep_list, ms |-> Later,
                 woken |-> FALSE]
<1>1. now' \in Nat /\ ~hung /\ c.at = "wake" /\ c.ms = now'
  BY SchedAssumption DEF IInv, RestOK, Interruptible, Later
<1>2. ContinueAt(c) /\ cur \in Thread
  BY DEF IInv
<1> HIDE DEF c
<1>3. \A t \in Thread : kctx'[t] = IF t = cur THEN c ELSE kctx[t]
  BY <1>2 DEF IInv, RestOK, ContinueAt
<1>4. StillOut(state, state', {})
  BY DEF StillOut
<1>5. ~Wraps => now <= now'
  BY TimeGoesOn
<1>6. c.ms <= now'
  BY <1>1
<1> QED
  BY <1>1, <1>3, <1>4, <1>5, <1>6, QuietIsCalm

LEMMA KeepSleeperCalm == IInv /\ Calm /\ KeepSleeper => Calm' /\ Orderly
<1> SUFFICES ASSUME IInv, Calm, KeepSleeper PROVE Calm' /\ Orderly
  OBVIOUS
<1> USE SysFacts DEF KeepSleeper
<1> DEFINE c == [kctx[cur] EXCEPT !.on = next[kctx[cur].on]]
<1>1. /\ now \in Nat /\ ~hung /\ cur \in Thread
      /\ kctx[cur].at = "wake" /\ kctx[cur] \in Context
  BY DEF IInv, RestOK, Running
<1>2. c.at = "wake" /\ c.ms = kctx[cur].ms
  BY <1>1 DEF Context
<1>3. ContinueAt(c)
  OBVIOUS
<1> HIDE DEF c
<1>4. \A t \in Thread : kctx'[t] = IF t = cur THEN c ELSE kctx[t]
  BY <1>1, <1>3 DEF IInv, RestOK, ContinueAt
<1>5. StillOut(state, state', {})
  BY DEF StillOut
<1>6. c.at = "wake" /\ ~Wraps => c.ms <= now'
  BY <1>1, <1>2 DEF Calm, TickTimePast
<1> QED
  BY <1>1, <1>2, <1>4, <1>5, <1>6, QuietIsCalm

LEMMA EndTickCalm == IInv /\ Calm /\ EndTick => Calm' /\ Orderly
<1> SUFFICES ASSUME IInv, Calm, EndTick PROVE Calm' /\ Orderly
  OBVIOUS
<1> USE SysFacts DEF EndTick, listVars
<1> DEFINE c == kctx[cur]
           r == IF SwitchAtEnd(c) THEN SwitchTask(Sys, c.ms) ELSE Sys
<1>1. /\ now \in Nat /\ ~hung /\ cur \in Thread
      /\ c \in Context /\ c.ms \in Nat /\ InUser.at = "user"
  BY DEF IInv, RestOK, Running, Context, InUser
<1>2. Good(r) /\ Commit(r)
  BY <1>1, SwitchGood DEF IInv
<1>3. StillOut(state, r.state, {})
  <2>1. StillOut(Sys.state, r.state, {})
    BY <1>1, SwitchStillOut DEF IInv, StillOut
  <2> QED
    BY <2>1 DEF IInv
<1>4. ContinueAt(InUser)
  OBVIOUS
<1> HIDE DEF r
<1>5. StillOut(state, state', {})
  BY <1>2, <1>3, CommitIs
<1>6. \A t \in Thread : kctx'[t] = IF t = cur THEN InUser ELSE kctx[t]
  BY <1>1, <1>4 DEF IInv, RestOK, ContinueAt
<1> QED
  BY <1>1, <1>5, <1>6, QuietIsCalm

(* With nobody waiting to read, a line of input only fills the buffer.     *)
LEMMA KeyboardLineCalm ==
  ASSUME IInv, Calm, NEW n \in Nat, KeyboardLine(n)
  PROVE  Calm' /\ Orderly
<1> USE SysFacts DEF KeyboardLine
<1>1. /\ now \in Nat /\ ~hung /\ cur \in Thread /\ InUser.at = "user"
      /\ read_waiters = NULL
  BY DEF IInv, RestOK, Interruptible, InUser, Calm
<1>2. ContinueAt(InUser) /\ Commit(Sys)
  BY <1>1 DEF UnblockFrom
<1>3. StillOut(state, state', {})
  BY <1>2 DEF Commit, Sys, StillOut
<1>4. \A t \in Thread : kctx'[t] = IF t = cur THEN InUser ELSE kctx[t]
  BY <1>1, <1>2 DEF IInv, RestOK, ContinueAt
<1> QED
  BY <1>1, <1>3, <1>4, QuietIsCalm

LEMMA ReturnFromWaitCalm == IInv /\ Calm /\ ReturnFromWait => Calm' /\ Orderly
<1> SUFFICES ASSUME IInv, Calm, ReturnFromWait PROVE Calm' /\ Orderly
  OBVIOUS
<1> USE SysFacts DEF ReturnFromWait, runVars, listVars
<1>1. now \in Nat /\ ~hung /\ cur \in Thread /\ InUser.at = "user"
  BY DEF IInv, RestOK, Running, InUser
<1>2. \A t \in Thread : kctx'[t] = IF t = cur THEN InUser ELSE kctx[t]
  BY <1>1 DEF IInv, RestOK, ContinueAt
<1>3. StillOut(state, state', {})
  BY DEF StillOut
<1> QED
  BY <1>1, <1>2, <1>3, QuietIsCalm

LEMMA StartProcCalm ==
  ASSUME IInv, Calm, NEW t \in User, StartProc(t)
  PROVE  Calm' /\ Orderly
<1> USE SysFacts DEF StartProc, listVars
<1> DEFINE u == [Sys EXCEPT !.state[t] = "TS_READY_TO_RUN"]
           r == sched_task(u, t)
           c == kctx[cur]
<1>1. /\ now \in Nat /\ ~hung /\ cur \in Thread /\ c.at = "user"
      /\ t \in Thread
  BY DEF IInv, RestOK, Calling, Interruptible, Thread
<1>2. Good(Sys) /\ Sys \in SysType /\ "TS_READY_TO_RUN" \in States
  BY DEF IInv, Good, States
<1>3. /\ u \in SysType
      /\ u.next = Sys.next /\ u.start = Sys.start /\ u.end = Sys.end
      /\ u.cur = Sys.cur
      /\ \A x \in Thread : u.state[x] = IF x = t THEN "TS_READY_TO_RUN"
                                        ELSE Sys.state[x]
  BY <1>1, <1>2, SetState
<1>4. Commit(r)
  OBVIOUS
<1> HIDE DEF u
<1>5. Good(u)
  BY <1>2, <1>3, ThreadFacts
     DEF Good, EndsAgree, RunningIsCur, IdleOff, CanRun
<1>6. Good(r) /\ r.state = u.state
  BY <1>1, <1>5, SchedTaskGood
<1> HIDE DEF r
<1>7. state' = u.state
  BY <1>4, <1>6, CommitIs
<1>8. StillOut(state, state', {})
  BY <1>2, <1>3, <1>7 DEF StillOut, CanRun
<1>9. \A x \in Thread : kctx'[x] = IF x = cur THEN c ELSE kctx[x]
  OBVIOUS
<1>10. UNCHANGED <<wake_time, waiters, read_waiters, exited, now>>
  OBVIOUS
<1> HIDE DEF c, StartProc
<1> QED
  BY <1>1, <1>8, <1>9, <1>10, QuietIsCalm

(* A sleeper whose time has come is woken, and its time cleared.           *)
LEMMA WakeSleeperCalm == IInv /\ Calm /\ WakeSleeper => Calm' /\ Orderly
<1> SUFFICES ASSUME IInv, Calm, WakeSleeper PROVE Calm' /\ Orderly
  OBVIOUS
<1> USE SysFacts DEF WakeSleeper, listVars
<1> DEFINE w == kctx[cur].on
           c == [kctx[cur] EXCEPT !.on = next[w], !.woken = TRUE]
           r == sched_unblock(Sys, w)
<1>1. /\ kctx[cur] \in Context /\ kctx[cur].at = "wake" /\ ~hung
      /\ w \in Thread /\ now \in Nat /\ kctx[cur].ms \in Nat
  BY DEF IInv, RestOK, Context, Link, Running
<1>2. /\ cur \in Thread /\ state \in [Thread -> States]
      /\ state[cur] \in CanRun
      /\ wake_time[cur] = 0
      /\ \A t \in Thread : waiters[t] # cur
  BY <1>1, CurIsOut
<1>3. wake_time[w] > 0 /\ wake_time[w] <= kctx[cur].ms
  BY DEF Expired
<1>4. /\ state[w] = "TS_BLOCKED" /\ kctx[w].at = "user" /\ w # cur /\ ~Wraps
      /\ \A t \in Thread : waiters[t] # w
  <2>1. state[w] = "TS_BLOCKED" /\ kctx[w].at = "user" /\ ~Wraps
    BY <1>1, <1>3 DEF Calm, SleepersTimed, Asleep
  <2>2. \A t \in Thread : waiters[t] # w
    BY <1>1, <2>1, ThreadFacts DEF Calm, WaitersWait, WaitsFor
  <2> QED
    BY <1>1, <2>1, <2>2
<1>5. kctx[cur].ms <= now
  BY <1>1, <1>2, <1>4 DEF Calm, TickTimePast
<1>6. wake_time[w] <= now /\ wake_time[w] \in Nat
  BY <1>1, <1>3, <1>5 DEF IInv, RestOK
<1>7. c.at = "wake" /\ c.ms = kctx[cur].ms
  BY <1>1 DEF Context
<1>8. Good(r) /\ StillOut(state, r.state, {w}) /\ r.state[w] \in CanRun
  <2>1. Good(Sys) /\ Sys.state = state
    BY DEF IInv
  <2> QED
    BY <1>1, <2>1, UnblockGood, UnblockStillOut
<1>9. Commit(r) /\ ContinueAt(c)
  OBVIOUS
<1> HIDE DEF r, c
<1>10. StillOut(state, state', {w}) /\ state'[w] \in CanRun
  BY <1>8, <1>9, CommitIs
<1>11. \A t \in Thread : kctx'[t] = IF t = cur THEN c ELSE kctx[t]
  BY <1>2, <1>9 DEF IInv, RestOK, ContinueAt
<1>12. \A t \in Thread : wake_time'[t] = IF t = w THEN 0 ELSE wake_time[t]
  BY <1>1 DEF IInv, RestOK
<1> HIDE DEF w
<1>13. \A t \in Thread \ {w} :
         /\ state[t] = "TS_BLOCKED" <=> state'[t] = "TS_BLOCKED"
         /\ state[t] = "TS_TERM" => state'[t] = "TS_TERM"
  BY <1>10 DEF StillOut, CanRun
<1>14. UNCHANGED <<waiters, read_waiters, exited, now>>
  OBVIOUS
<1> HIDE DEF WakeSleeper
<1>15. BlockedKnown'
  BY <1>2, <1>4, <1>7, <1>10, <1>11, <1>13 DEF Calm, BlockedKnown, CanRun
<1>16. SleepersTimed'
  BY <1>2, <1>11, <1>12, <1>13 DEF Calm, SleepersTimed, Asleep
<1>17. WaitersWait'
  <2> SUFFICES ASSUME NEW t \in Thread, waiters'[t] # NULL
               PROVE  /\ state'[waiters'[t]] = "TS_BLOCKED"
                      /\ kctx'[waiters'[t]].at = "wait"
                      /\ kctx'[waiters'[t]].on = t
    BY DEF WaitersWait, WaitsFor
  <2>1. waiters[t] \in Thread \ {w, cur} /\ waiters' = waiters
    BY <1>2, <1>4, <1>14 DEF IInv, RestOK, Link
  <2> QED
    BY <1>11, <1>13, <2>1 DEF Calm, WaitersWait, WaitsFor
<1>18. ResumedAfterExit'
  BY <1>4, <1>7, <1>11, <1>13, <1>14 DEF Calm, ResumedAfterExit
<1>19. TickTimePast'
  BY <1>5, <1>7, <1>11, <1>14 DEF Calm, TickTimePast
<1>20. Calm'
  BY <1>14, <1>15, <1>16, <1>17, <1>18, <1>19 DEF Calm
<1>21. Orderly
  <2>1. TermStays
    BY <1>4, <1>13 DEF TermStays
  <2>2. WaitEnds
    BY <1>1, <1>11 DEF WaitEnds
  <2>3. WakesInTime
    BY <1>3, <1>4, <1>6, <1>13 DEF WakesInTime
  <2> QED
    BY <2>1, <2>2, <2>3 DEF Orderly
<1> QED
  BY <1>20, <1>21

(* Blocking cur as sched_block does, with the caller's links: cur is out,  *)
(* and nobody else changes.                                                *)
LEMMA BlockedIsOut ==
  ASSUME IInv, cur # Idle, NEW list \in Link, list # Idle,
         Commit(sched_block(LinkedTo(list)))
  PROVE  /\ state'[cur] = "TS_BLOCKED"
         /\ StillOut(state, state', {cur})
<1> USE SysFacts
<1> DEFINE s == LinkedTo(list)
           u == [s EXCEPT !.state[cur] = "TS_BLOCKED"]
           r == SwitchTask(u, now)
<1>1. cur \in Thread /\ now \in Nat /\ Good(Sys)
  BY DEF IInv, RestOK
<1>2. Good(u) /\ (\A t \in Thread \ {cur} : u.state[t] = state[t]) /\ s.cur = cur
  BY <1>1, BlockGood DEF States
<1>3. u.state[cur] = "TS_BLOCKED"
  BY <1>1, LeavesAs DEF States
<1>4. Commit(r)
  BY <1>2 DEF sched_block
<1> HIDE DEF u
<1>5. Good(r) /\ StillOut(u.state, r.state, {})
  BY <1>1, <1>2, SwitchGood, SwitchStillOut
<1> HIDE DEF r
<1>6. state' = r.state
  BY <1>4, <1>5, CommitIs
<1>7. \A t \in Thread \ {cur} : \/ r.state[t] = state[t]
                                \/ /\ state[t] \notin {"TS_BLOCKED", "TS_TERM"}
                                   /\ r.state[t] \in CanRun
  BY <1>2, <1>5 DEF StillOut
<1>8. r.state[cur] = "TS_BLOCKED"
  BY <1>1, <1>3, <1>5 DEF StillOut
<1> QED
  BY <1>6, <1>7, <1>8 DEF StillOut

(* The clock does not wrap where programs sleep (SchedAssumption).         *)
LEMMA sched_sleep_untilCalm ==
  ASSUME IInv, Calm, "sleep" \in Calls, NEW d \in Sleeps, sched_sleep_until(d)
  PROVE  Calm' /\ Orderly
<1> USE SysFacts DEF sched_sleep_until
<1>1. kctx[cur].at = "user" /\ ~hung /\ cur # Idle /\ ~Wraps
  BY SchedAssumption DEF Calling, Interruptible
<1>2. /\ cur \in Thread /\ state \in [Thread -> States]
      /\ state[cur] \in CanRun
      /\ wake_time[cur] = 0
      /\ \A t \in Thread : waiters[t] # cur
  BY <1>1, CurIsOut
<1>3. state'[cur] = "TS_BLOCKED" /\ StillOut(state, state', {cur})
  <2>1. sleep_list \in Link /\ sleep_list # Idle
    BY DEF IInv, RestOK, Elsewhere
  <2> QED
    BY <1>1, <2>1, BlockedIsOut
<1>4. \A t \in Thread \ {cur} : wake_time'[t] = wake_time[t]
  BY <1>2 DEF IInv, RestOK
<1>5. \A t \in Thread \ {cur} :
        /\ state[t] = "TS_BLOCKED" <=> state'[t] = "TS_BLOCKED"
        /\ state[t] = "TS_TERM" => state'[t] = "TS_TERM"
  BY <1>3 DEF StillOut, CanRun
<1>6. UNCHANGED <<waiters, read_waiters, exited, now, kctx>>
  OBVIOUS
<1> HIDE DEF sched_sleep_until
<1>7. BlockedKnown'
  BY <1>1, <1>5, <1>6 DEF Calm, BlockedKnown
<1>8. SleepersTimed'
  BY <1>1, <1>3, <1>4, <1>5, <1>6 DEF Calm, SleepersTimed, Asleep
<1>9. WaitersWait'
  <2> SUFFICES ASSUME NEW t \in Thread, waiters[t] # NULL
               PROVE  /\ state'[waiters[t]] = "TS_BLOCKED"
                      /\ kctx[waiters[t]].at = "wait"
                      /\ kctx[waiters[t]].on = t
    BY <1>6 DEF WaitersWait, WaitsFor
  <2>1. waiters[t] \in Thread \ {cur}
    BY <1>2 DEF IInv, RestOK, Link
  <2> QED
    BY <1>5, <2>1 DEF Calm, WaitersWait, WaitsFor
<1>10. ResumedAfterExit'
  BY <1>3, <1>5, <1>6 DEF Calm, ResumedAfterExit
<1>11. TickTimePast'
  BY <1>6 DEF Calm, TickTimePast
<1>12. Calm'
  BY <1>6, <1>7, <1>8, <1>9, <1>10, <1>11 DEF Calm
<1>13. Orderly
  <2>1. TermStays /\ WakesInTime
    BY <1>2, <1>5 DEF TermStays, WakesInTime, CanRun
  <2>2. WaitEnds
    BY <1>6 DEF WaitEnds
  <2> QED
    BY <2>1, <2>2 DEF Orderly
<1> QED
  BY <1>12, <1>13

LEMMA sched_wait_taskCalm ==
  ASSUME IInv, Calm, NEW u \in Thread, sched_wait_task(u)
  PROVE  Calm' /\ Orderly
<1> USE SysFacts DEF sched_wait_task
<1> DEFINE c == At("wait", u)
<1>1. kctx[cur].at = "user" /\ ~hung /\ cur # Idle
  BY SchedAssumption DEF Calling, Interruptible
<1>2. /\ cur \in Thread /\ state \in [Thread -> States]
      /\ state[cur] \in CanRun
      /\ wake_time[cur] = 0
      /\ \A t \in Thread : waiters[t] # cur
  BY <1>1, CurIsOut
<1>3. state'[cur] = "TS_BLOCKED" /\ StillOut(state, state', {cur})
  <2>1. waiters[u] \in Link /\ waiters[u] # Idle
    BY DEF IInv, RestOK, Elsewhere
  <2> QED
    BY <1>1, <2>1, BlockedIsOut
<1>4. c.at = "wait" /\ c.on = u
  BY AtFacts DEF Places, Link
<1>5. \A t \in Thread : kctx'[t] = IF t = cur THEN c ELSE kctx[t]
  BY <1>2 DEF IInv, RestOK, ContinueAt
<1> HIDE DEF c
<1>6. \A t \in Thread : waiters'[t] = IF t = u THEN cur ELSE waiters[t]
  BY DEF IInv, RestOK
<1>7. \A t \in Thread \ {cur} :
        /\ state[t] = "TS_BLOCKED" <=> state'[t] = "TS_BLOCKED"
        /\ state[t] = "TS_TERM" => state'[t] = "TS_TERM"
  BY <1>3 DEF StillOut, CanRun
<1>8. UNCHANGED <<wake_time, read_waiters, exited, now>>
  OBVIOUS
<1> HIDE DEF sched_wait_task
<1>9. BlockedKnown'
  BY <1>4, <1>5, <1>7 DEF Calm, BlockedKnown
<1>10. SleepersTimed'
  BY <1>2, <1>5, <1>7, <1>8 DEF Calm, SleepersTimed, Asleep
<1>11. WaitersWait'
  <2> SUFFICES ASSUME NEW t \in Thread, waiters'[t] # NULL
               PROVE  /\ state'[waiters'[t]] = "TS_BLOCKED"
                      /\ kctx'[waiters'[t]].at = "wait"
                      /\ kctx'[waiters'[t]].on = t
    BY DEF WaitersWait, WaitsFor
  <2>1. CASE t = u
    BY <1>2, <1>3, <1>4, <1>5, <1>6, <2>1
  <2>2. CASE t # u
    <3>1. waiters[t] \in Thread \ {cur} /\ waiters'[t] = waiters[t]
      BY <1>2, <1>6, <2>2 DEF IInv, RestOK, Link
    <3> QED
      BY <1>5, <1>7, <3>1 DEF Calm, WaitersWait, WaitsFor
  <2> QED
    BY <2>1, <2>2
<1>12. ResumedAfterExit'
  BY <1>3, <1>5, <1>7, <1>8 DEF Calm, ResumedAfterExit
<1>13. TickTimePast'
  BY <1>4, <1>5, <1>8 DEF Calm, TickTimePast
<1>14. Calm'
  BY <1>8, <1>9, <1>10, <1>11, <1>12, <1>13 DEF Calm
<1>15. Orderly
  <2>1. TermStays /\ WakesInTime
    BY <1>2, <1>7 DEF TermStays, WakesInTime, CanRun
  <2>2. WaitEnds
    BY <1>1, <1>5 DEF WaitEnds
  <2> QED
    BY <2>1, <2>2 DEF Orderly
<1> QED
  BY <1>14, <1>15

(* An exit terminates cur, and wakes the first thread that waits for it.   *)
LEMMA sched_exitCalm == IInv /\ Calm /\ sched_exit => Calm' /\ Orderly
<1> SUFFICES ASSUME IInv, Calm, sched_exit PROVE Calm' /\ Orderly
  OBVIOUS
<1> USE SysFacts DEF sched_exit
<1> DEFINE w == FirstWaiter
           W == IF w = NULL THEN {} ELSE {w}
           u == [LinkedTo(term_list) EXCEPT !.state[cur] = "TS_TERM"]
           r == IF w = NULL THEN SwitchTask(u, now) ELSE sched_unblock(u, w)
           c == IF w = NULL THEN kctx[cur] ELSE At("exit", w)
<1>1. kctx[cur].at = "user" /\ ~hung /\ cur # Idle /\ now \in Nat
  BY SchedAssumption DEF IInv, RestOK, Calling, Interruptible
<1>2. /\ cur \in Thread /\ state \in [Thread -> States]
      /\ state[cur] \in CanRun
      /\ wake_time[cur] = 0
      /\ \A t \in Thread : waiters[t] # cur
  BY <1>1, CurIsOut
<1>3. w \in Link /\ w # cur /\ (w # NULL => WaitsFor(w, cur))
  BY <1>2 DEF IInv, RestOK, Calm, WaitersWait, FirstWaiter
<1>4. /\ Good(u) /\ (\A x \in Thread \ {cur} : u.state[x] = state[x])
      /\ u.state[cur] = "TS_TERM"
  <2>1. term_list \in Link /\ term_list # Idle
    BY DEF IInv, RestOK, Elsewhere
  <2> QED
    BY <1>1, <2>1, BlockGood, LeavesAs DEF IInv, States
<1>5. Commit(r)
  OBVIOUS
<1> HIDE DEF u
<1>6. Good(r) /\ StillOut(u.state, r.state, W) /\ (\A x \in W : r.state[x] \in CanRun)
  <2>1. CASE w = NULL
    BY <1>1, <1>4, <2>1, SwitchGood, SwitchStillOut
  <2>2. CASE w \in Thread
    <3>1. W = {w} /\ r = sched_unblock(u, w)
      BY <2>2, ThreadFacts
    <3> HIDE DEF W, r, w
    <3> QED
      BY <1>1, <1>4, <2>2, <3>1, UnblockGood, UnblockStillOut
  <2> QED
    BY <1>3, <2>1, <2>2 DEF Link
<1> HIDE DEF r
<1>7. state' = r.state
  BY <1>5, <1>6, CommitIs
<1>8. state'[cur] = "TS_TERM"
  BY <1>2, <1>3, <1>4, <1>6, <1>7 DEF StillOut, CanRun
<1>9. \A t \in Thread \ ({cur} \cup W) :
        /\ state[t] = "TS_BLOCKED" <=> state'[t] = "TS_BLOCKED"
        /\ state[t] = "TS_TERM" => state'[t] = "TS_TERM"
  BY <1>4, <1>6, <1>7 DEF StillOut, CanRun
<1>10. \A t \in W : state'[t] \in CanRun /\ WaitsFor(t, cur) /\ t \in Thread /\ t # cur
  BY <1>3, <1>6, <1>7 DEF Link
<1>11. c.at \in {"user", "exit"}
  BY <1>1, <1>3, AtFacts DEF Places
<1>12. \A t \in Thread : kctx'[t] = IF t = cur THEN c ELSE kctx[t]
  BY <1>2 DEF IInv, RestOK, ContinueAt
<1>13. \A t \in Thread : waiters'[t] = IF t = cur THEN NULL ELSE waiters[t]
  BY <1>2 DEF IInv, RestOK
<1>14. exited' = exited \cup {cur} /\ UNCHANGED <<wake_time, read_waiters, now>>
  OBVIOUS
<1> HIDE DEF sched_exit, c, W, w
<1>15. BlockedKnown'
  BY <1>8, <1>9, <1>10, <1>11, <1>12 DEF Calm, BlockedKnown, WaitsFor, CanRun
<1>16. SleepersTimed'
  BY <1>2, <1>9, <1>10, <1>12, <1>14
     DEF Calm, SleepersTimed, Asleep, WaitsFor
<1>17. WaitersWait'
  <2> SUFFICES ASSUME NEW t \in Thread, waiters'[t] # NULL
               PROVE  /\ state'[waiters'[t]] = "TS_BLOCKED"
                      /\ kctx'[waiters'[t]].at = "wait"
                      /\ kctx'[waiters'[t]].on = t
    BY DEF WaitersWait, WaitsFor
  <2>1. t # cur /\ waiters'[t] = waiters[t] /\ WaitsFor(waiters[t], t)
    BY <1>13 DEF Calm, WaitersWait
  <2>2. waiters[t] \in Thread /\ waiters[t] # cur
    BY <1>2, <1>13 DEF IInv, RestOK, Link
  <2>3. waiters[t] \notin W
    BY <1>10, <2>1 DEF WaitsFor
  <2> QED
    BY <1>9, <1>12, <2>1, <2>2, <2>3 DEF WaitsFor
<1>18. ResumedAfterExit'
  BY <1>9, <1>10, <1>11, <1>12, <1>14 DEF Calm, ResumedAfterExit, WaitsFor
<1>19. TickTimePast'
  BY <1>11, <1>12, <1>14 DEF Calm, TickTimePast
<1>20. Calm'
  BY <1>14, <1>15, <1>16, <1>17, <1>18, <1>19 DEF Calm
<1>21. Orderly
  <2>1. TermStays
    BY <1>8, <1>9, <1>10 DEF TermStays, WaitsFor
  <2>2. WaitEnds
    BY <1>1, <1>12 DEF WaitEnds
  <2>3. WakesInTime
    BY <1>2, <1>9, <1>10, <1>14 DEF WakesInTime, WaitsFor, CanRun
  <2> QED
    BY <2>1, <2>2, <2>3 DEF Orderly
<1> QED
  BY <1>20, <1>21

LEMMA InitCalm == Init => Calm
  BY DEF Init, InUser, Calm, BlockedKnown, SleepersTimed, Asleep, WaitersWait,
         WaitsFor, ResumedAfterExit, TickTimePast

(* The steps of a read, and those of an exit that would go on after its    *)
(* thread has left the CPU, never happen.                                  *)
LEMMA NeverStarts ==
  ASSUME IInv, Calm
  PROVE  /\ ~UnblockNextReader /\ ~TakeInput /\ ~dev_block_until_read
         /\ ~UnblockNextWaiter
<1>1. cur \in Thread
  BY SysFacts DEF IInv
<1>2. kctx[cur].at \notin {"read", "readers"}
  BY <1>1 DEF Calm, BlockedKnown
<1>3. ~hung => kctx[cur].at # "exit"
  BY CurIsOut
<1> QED
  BY <1>2, <1>3
     DEF UnblockNextReader, TakeInput, dev_block_until_read, UnblockNextWaiter,
         Running

LEMMA StutterCalm == Calm /\ UNCHANGED vars => Calm'
  BY DEF vars, runVars, listVars, Calm, BlockedKnown, SleepersTimed, Asleep,
         WaitersWait, WaitsFor, ResumedAfterExit, TickTimePast

THEOREM StepCalm ==
  ASSUME NoReads, IInv, Calm, Next
  PROVE  Calm' /\ Orderly
<1>1. CASE Interrupt
  <2>1. CASE \E n \in 1 .. MaxInput : KeyboardLine(n)
    BY <2>1, KeyboardLineCalm, SchedAssumption
  <2> QED
    BY <1>1, <2>1, FirstTickCalm, TickCalm DEF Interrupt
<1>2. CASE SystemCall
  BY <1>2, sched_sleep_untilCalm, StartProcCalm, sched_wait_taskCalm,
     sched_exitCalm DEF SystemCall, NoReads
<1>3. CASE InKernel
  BY <1>3, WakeSleeperCalm, KeepSleeperCalm, EndTickCalm, ReturnFromWaitCalm,
     NeverStarts DEF InKernel
<1> QED
  BY <1>1, <1>2, <1>3 DEF Next

(* The invariant of a system whose programs do not read the console, for   *)
(* every number of threads, quantum and clock.                             *)
THEOREM CalmWithoutReads == ASSUME NoReads PROVE Spec => [](IInv /\ Calm)
<1>1. Init => IInv /\ Calm
  BY InitIInv, InitCalm
<1>2. (IInv /\ Calm) /\ [Next]_vars => (IInv /\ Calm)'
  BY StepIInv, StepCalm, StutterCalm
<1> QED
  BY <1>1, <1>2, PTL DEF Spec

(* Without reads, a thread that sched_exit has terminated never runs       *)
(* again: no stale link leads a wake-up loop to it.                        *)
THEOREM ExitIsFinal == ASSUME NoReads PROVE Spec => TermIsForever
<1>1. (IInv /\ Calm) /\ [Next]_vars =>
        [\A t \in Thread : state[t] = "TS_TERM" => state'[t] = "TS_TERM"]_vars
  BY StepCalm DEF Orderly, TermStays
<1> QED
  BY <1>1, CalmWithoutReads, PTL DEF Spec, TermIsForever

(* Without reads, sched_wait_task returns only after the thread waited for *)
(* has exited, so proc_wait_pid returns an exit code that was written.     *)
THEOREM WaitReturnsAfterExit == ASSUME NoReads PROVE Spec => WaitMeansExited
<1>1. (IInv /\ Calm) /\ [Next]_vars =>
        [\A t \in Thread :
           kctx[t].at = "wait" /\ kctx'[t].at # "wait" =>
             kctx[t].on \in exited]_vars
  BY StepCalm DEF Orderly, WaitEnds
<1> QED
  BY <1>1, CalmWithoutReads, PTL DEF Spec, WaitMeansExited

(* Without reads, nobody is woken early: a sleeper only once its time has  *)
(* come, a waiter only once its thread has exited.                         *)
THEOREM WokenWhenDue == ASSUME NoReads PROVE Spec => WakesWhenDue
<1>1. (IInv /\ Calm) /\ [Next]_vars =>
        [\A t \in Thread :
           state[t] = "TS_BLOCKED" /\ state'[t] # "TS_BLOCKED" =>
             CASE kctx[t].at = "wait" -> kctx[t].on \in exited'
               [] kctx[t].at = "read" -> input' > 0
               [] OTHER -> wake_time[t] > 0 /\ wake_time[t] <= now]_vars
  BY StepCalm DEF Orderly, WakesInTime
<1> QED
  BY <1>1, CalmWithoutReads, PTL DEF Spec, WakesWhenDue

-----------------------------------------------------------------------------
(***************************************************************************)
(* Signals, for every set of processes, any number of signals and any      *)
(* code.  The three invariants are inductive together: what the return     *)
(* restores is right because only main code is ever saved, and only main   *)
(* code is saved because in_sig says what runs.                            *)
(***************************************************************************)
SigInv == SigTypeOK /\ MainKeepsItsPlace /\ InSigMeansHandler

THEOREM SigInitInv == SigInit => SigInv
<1> SUFFICES ASSUME SigInit PROVE SigInv
  OBVIOUS
<1>1. main_at \in [Proc -> MainCode] /\ eip = main_at /\ sig_return_state = main_at
  BY DEF SigInit
<1>2. SigTypeOK
  BY <1>1, SignalsAssumption DEF SigInit, SigTypeOK, Modes, Panics, Code
<1>3. MainKeepsItsPlace /\ InSigMeansHandler
  BY <1>1, SignalsAssumption DEF SigInit, MainKeepsItsPlace, InSigMeansHandler
<1> QED
  BY <1>2, <1>3 DEF SigInv

(* The entry of the kernel keeps its own variables in their types.         *)
LEMMA EnterTypes ==
  ASSUME SigTypeOK, NEW m \in Modes, EnterKernel(m)
  PROVE  /\ cur_proc' \in Proc /\ mode' \in [Proc -> Modes]
         /\ seen' \in [Proc -> Word \cup {NoWord}]
         /\ main_at' \in [Proc -> MainCode]
  BY SignalsAssumption DEF SigTypeOK, EnterKernel

THEOREM SigStepInv == SigInv /\ [SigNext]_sigVars => SigInv'
<1> SUFFICES ASSUME SigInv, [SigNext]_sigVars PROVE SigInv'
  OBVIOUS
<1> USE DEF SigInv
<1>0. SigTypeOK /\ cur_proc \in Proc /\ {"handler", "leaving", "user", "exited"} \subseteq Modes
  BY DEF SigTypeOK, Modes
<1>1. ASSUME NEW a \in MainCode, RunMain(a) PROVE SigInv'
  <2>1. SigTypeOK'
    BY <1>1 DEF RunMain, SigTypeOK, Code
  <2>2. MainKeepsItsPlace' /\ InSigMeansHandler'
    BY <1>0, <1>1, SignalsAssumption
       DEF RunMain, SigTypeOK, MainKeepsItsPlace, InSigMeansHandler
  <2> QED
    BY <2>1, <2>2
<1>2. CASE RunHandler
  <2>1. SigTypeOK'
    BY <1>2 DEF RunHandler, SigTypeOK, Code, HandlerCode
  <2>2. MainKeepsItsPlace' /\ InSigMeansHandler'
    BY <1>0, <1>2
       DEF RunHandler, SigTypeOK, MainKeepsItsPlace, InSigMeansHandler, HandlerCode
  <2> QED
    BY <2>1, <2>2
<1>3. CASE Interrupted
  <2>1. SigTypeOK'
    BY <1>0, <1>3, EnterTypes DEF Interrupted, SigTypeOK
  <2>2. MainKeepsItsPlace' /\ InSigMeansHandler'
    BY <1>3 DEF Interrupted, EnterKernel, MainKeepsItsPlace, InSigMeansHandler
  <2> QED
    BY <2>1, <2>2
<1>4. ASSUME NEW s \in Signal, NEW h \in Handler \cup {NoHandler},
             sig_set_handler(s, h)
      PROVE  SigInv'
  <2>1. SigTypeOK'
    <3>1. sig_handlers' \in [Proc -> [Signal -> Handler \cup {NoHandler}]]
      BY <1>0, <1>4 DEF sig_set_handler, SigTypeOK
    <3> QED
      BY <1>0, <1>4, <3>1, EnterTypes DEF sig_set_handler, SigTypeOK
  <2>2. MainKeepsItsPlace' /\ InSigMeansHandler'
    BY <1>4 DEF sig_set_handler, EnterKernel, MainKeepsItsPlace, InSigMeansHandler
  <2> QED
    BY <2>1, <2>2
<1>5. ASSUME NEW p \in Proc, NEW s \in Signal, sig_queue_signal(p, s) PROVE SigInv'
  <2>1. SigTypeOK'
    <3>1. (pending_signals[p][s] \/ sig_handlers[p][s] # NoHandler) \in BOOLEAN
      BY DEF SigTypeOK
    <3> DEFINE w == pending_signals[p][s] \/ sig_handlers[p][s] # NoHandler
    <3>2. pending_signals' = [pending_signals EXCEPT ![p] = [@ EXCEPT ![s] = w]]
      BY <1>5 DEF sig_queue_signal
    <3> HIDE DEF w
    <3>3. pending_signals' \in [Proc -> [Signal -> BOOLEAN]]
      BY <1>0, <3>1, <3>2 DEF SigTypeOK, w
    <3> QED
      BY <1>0, <1>5, <3>3, EnterTypes DEF sig_queue_signal, SigTypeOK
  <2>2. MainKeepsItsPlace' /\ InSigMeansHandler'
    BY <1>5 DEF sig_queue_signal, EnterKernel, MainKeepsItsPlace, InSigMeansHandler
  <2> QED
    BY <2>1, <2>2
<1>6. CASE sig_return
  <2>1. CASE in_sig[cur_proc]
    <3>1. sig_return_state[cur_proc] = main_at[cur_proc] /\ main_at[cur_proc] \in MainCode
      BY <1>0, <2>1 DEF SigTypeOK, MainKeepsItsPlace
    <3>2. /\ eip' = [eip EXCEPT ![cur_proc] = main_at[cur_proc]]
          /\ in_sig' = [in_sig EXCEPT ![cur_proc] = FALSE]
          /\ UNCHANGED <<main_at, panic, pending_signals, sig_handlers, sig_return_state>>
      BY <1>6, <2>1, <3>1 DEF sig_return, EnterKernel
    <3>3. SigTypeOK'
      BY <1>0, <1>6, <3>1, <3>2, EnterTypes DEF sig_return, SigTypeOK, Code
    <3>4. MainKeepsItsPlace' /\ InSigMeansHandler'
      BY <1>0, <3>1, <3>2, SignalsAssumption
         DEF SigTypeOK, MainKeepsItsPlace, InSigMeansHandler
    <3> QED
      BY <3>3, <3>4
  <2>2. CASE ~in_sig[cur_proc]
    <3>1. /\ panic' = "sig_return"
          /\ UNCHANGED <<eip, in_sig, main_at, pending_signals, sig_handlers,
                         sig_return_state>>
      BY <1>6, <2>2 DEF sig_return, EnterKernel
    <3>2. SigTypeOK'
      BY <1>0, <1>6, <3>1, EnterTypes DEF sig_return, SigTypeOK, Panics
    <3> QED
      BY <3>1, <3>2 DEF MainKeepsItsPlace, InSigMeansHandler
  <2> QED
    BY <2>1, <2>2
<1>7. ASSUME NEW p \in Proc, NEW m \in {"handler", "exited"}, SwitchTo(p, m)
      PROVE  SigInv'
  <2>1. mode' \in [Proc -> Modes]
    BY <1>0, <1>7 DEF SwitchTo, SigTypeOK, Modes
  <2>2. SigTypeOK'
    BY <1>7, <2>1 DEF SwitchTo, SigTypeOK
  <2> QED
    BY <1>7, <2>2 DEF SwitchTo, MainKeepsItsPlace, InSigMeansHandler
<1>8. CASE LeaveKernel
  <2>1. /\ mode' \in [Proc -> Modes] /\ seen' \in [Proc -> Word \cup {NoWord}]
        /\ panic' \in Panics
        /\ UNCHANGED <<cur_proc, sig_handlers, main_at>>
    BY <1>0, <1>8 DEF LeaveKernel, SigTypeOK, Modes, Panics
  <2>2. CASE DeliverNone
    BY <2>1, <2>2
       DEF DeliverNone, SigTypeOK, MainKeepsItsPlace, InSigMeansHandler
  <2>3. ASSUME NEW s \in Signal, Deliver(s) PROVE SigInv'
    <3>1. ~in_sig[cur_proc] /\ sig_handlers[cur_proc][s] \in Handler
      BY <1>0, <2>3 DEF Deliver, Chosen, Deliverable, Waits, SigTypeOK
    <3>2. eip[cur_proc] = main_at[cur_proc] /\ main_at[cur_proc] \in MainCode
      BY <1>0, <3>1 DEF SigTypeOK, MainKeepsItsPlace
    <3>3. SigTypeOK'
      BY <1>0, <2>1, <2>3, <3>1, <3>2
         DEF Deliver, ClearPending, SigTypeOK, Code, HandlerCode
    <3>4. MainKeepsItsPlace' /\ InSigMeansHandler'
      BY <1>0, <2>1, <2>3, <3>1, <3>2
         DEF Deliver, SigTypeOK, MainKeepsItsPlace, InSigMeansHandler, HandlerCode
    <3> QED
      BY <3>3, <3>4
  <2> QED
    BY <1>8, <2>2, <2>3 DEF LeaveKernel
<1>9. CASE UNCHANGED sigVars
  BY <1>9 DEF sigVars, SigTypeOK, MainKeepsItsPlace, InSigMeansHandler
<1> QED
  BY <1>1, <1>2, <1>3, <1>4, <1>5, <1>6, <1>7, <1>8, <1>9
     DEF SigNext, SetHandler, Queue, Switch, Exit

THEOREM SigInvHolds == SigSpec => []SigInv
  BY SigInitInv, SigStepInv, PTL DEF SigSpec

(* The variables of Signals keep their types.                              *)
THEOREM SignalsTypeCorrect == SigSpec => []SigTypeOK
<1>1. SigInv => SigTypeOK
  BY DEF SigInv
<1> QED
  BY <1>1, SigInvHolds, PTL

(* However signals arrive and threads are switched, a main program goes on *)
(* at the place where it was interrupted.                                  *)
THEOREM MainResumes == SigSpec => []MainKeepsItsPlace
<1>1. SigInv => MainKeepsItsPlace
  BY DEF SigInv
<1> QED
  BY <1>1, SigInvHolds, PTL

(* Handlers run one at a time, and only when in_sig says so.               *)
THEOREM HandlersDoNotNest == SigSpec => []InSigMeansHandler
<1>1. SigInv => InSigMeansHandler
  BY DEF SigInv
<1> QED
  BY <1>1, SigInvHolds, PTL

(* A pending signal is only withdrawn by entering its handler.             *)
THEOREM SignalsAreNotLost == SigSpec => NoSignalLost
<1> DEFINE Kept(p, s) ==
             pending_signals[p][s] /\ ~pending_signals'[p][s] =>
               /\ ~in_sig[p] /\ in_sig'[p]
               /\ eip'[p] = sig_handlers[p][s]
           Step == \A p \in Proc, s \in Signal : Kept(p, s)
<1>1. ASSUME SigTypeOK, [SigNext]_sigVars PROVE [Step]_sigVars
  <2> SUFFICES ASSUME NEW p \in Proc, NEW s \in Signal,
                      pending_signals[p][s], ~pending_signals'[p][s]
               PROVE  ~in_sig[p] /\ in_sig'[p] /\ eip'[p] = sig_handlers[p][s]
    OBVIOUS
  <2>1. ASSUME UNCHANGED pending_signals PROVE FALSE
    BY <2>1
  <2>2. ~Queue
    <3> SUFFICES ASSUME NEW q \in Proc, NEW t \in Signal, sig_queue_signal(q, t)
                 PROVE  FALSE
      BY DEF Queue
    <3> QED
      BY <1>1 DEF sig_queue_signal, SigTypeOK
  <2>3. LeaveKernel
    BY <1>1, <2>1, <2>2
       DEF SigNext, sigVars, RunMain, RunHandler, Interrupted, SetHandler, sig_set_handler,
           sig_return, Switch, Exit, SwitchTo
  <2>4. PICK t \in Signal : Deliver(t)
    BY <2>1, <2>3 DEF LeaveKernel, DeliverNone
  <2>5. p = cur_proc /\ s = t
    BY <1>1, <2>4 DEF Deliver, ClearPending, SigTypeOK
  <2> QED
    BY <1>1, <2>4, <2>5 DEF Deliver, Chosen, SigTypeOK
<1> QED
  BY <1>1, SignalsTypeCorrect, PTL DEF SigSpec, NoSignalLost
=============================================================================
