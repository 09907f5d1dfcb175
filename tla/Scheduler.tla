----------------------------- MODULE Scheduler -----------------------------
(***************************************************************************)
(* The x86_64 scheduler: the run queue, the sleep queue and the timer      *)
(* interrupt (kernel/arch/x86_64/scheduler.c, interrupts.c).  One CPU, and *)
(* interrupts are off in the kernel, so a system call with its return path *)
(* is one action and so is a timer interrupt taken from user mode.         *)
(*                                                                         *)
(*   rq        the run queue, see RunQueue                                 *)
(*   sleepq    g_scheduler64_sleep_queue: the entries, by index            *)
(*   tick      pit_get_ticks(), a counter that wraps at TickSpace          *)
(*                                                                         *)
(* A queue started in runqueue mode is preempted by the timer.  One that   *)
(* linux_exec.c starts is entered in basic mode: the interrupt counts the  *)
(* tick and returns to the interrupted task.  TimerDriven says which.      *)
(***************************************************************************)
EXTENDS RunQueue

CONSTANTS
  TickSpace,      \* number of values of the tick counter, 2^32 in the code
  Requests,       \* sleep lengths, in ticks; 0 is refused (u32 in the code)
  MayBlock,       \* whether tasks make system calls that wait for an event
  TimerDriven     \* X64_USER_PROBE_RUNQUEUE (TRUE) or _BASIC (FALSE)

ASSUME SchedulerAssumption ==
  /\ TickSpace \in Nat \ {0, 1}
  /\ Requests \subseteq 1 .. TickSpace - 1
  /\ MayBlock \in BOOLEAN
  /\ TimerDriven \in BOOLEAN

VARIABLES rq, sleepq, tick
vars == <<rq, sleepq, tick>>

(* A sleep entry is idle, or names the task, the length of the sleep, the  *)
(* tick to wake it at and whether an event may wake it first (a timed      *)
(* futex wait has a callback, a plain sleep has none).                     *)
Idle == [task |-> NoTask, requested |-> 0, wake |-> 0, timed |-> FALSE]
Entries == [task : Tasks \cup {NoTask}, requested : 0 .. TickSpace - 1,
            wake : 0 .. TickSpace - 1, timed : BOOLEAN]
EmptySleepQueue == [i \in Tasks |-> Idle]

(* Mutant: the comparison ignores the wrap. *)
SleepTickPassed(now, wake) == now >= wake

SleepTickReached(now, wake) == (now - wake) % TickSpace < TickSpace \div 2

FreeEntries == {i \in Tasks : sleepq[i] = Idle}
Sleeping(t) == \E i \in Tasks : sleepq[i].task = t

Init == rq = EmptyQueue /\ sleepq = EmptySleepQueue /\ tick = 0

-----------------------------------------------------------------------------
(* Setting a queue up and tearing it down. *)

Register ==
  /\ AllocateSlot(rq) < TaskLimit
  /\ rq' = RegisterTask(rq, AllocateSlot(rq))
  /\ UNCHANGED <<sleepq, tick>>

(* The callers start a queue once, after resetting and filling it. *)
Start(t) ==
  /\ ~rq.active
  /\ \A s \in Tasks : rq.state[s] \in {"unused", "ready"}
  /\ Ready(rq, t)
  /\ rq' = StartQueue(rq, t)
  /\ UNCHANGED <<sleepq, tick>>

StopAndReset ==
  /\ rq' = EmptyQueue
  /\ sleepq' = EmptySleepQueue
  /\ UNCHANGED tick

-----------------------------------------------------------------------------
(* System calls of the running task.  A call that cannot block returns an  *)
(* error; all it leaves behind is a forgotten preference.                  *)

NewEntry(n, timed) ==
  [task |-> rq.current, requested |-> n,
   wake |-> (tick + n) % TickSpace, timed |-> timed]

Sleep(n, timed) ==
  /\ rq.active
  /\ IF FreeEntries # {} /\ ~Sleeping(rq.current)
     THEN IF CanBlock(rq)
          THEN /\ sleepq' = [sleepq EXCEPT ![Min(FreeEntries)]
                                              = NewEntry(n, timed)]
               /\ rq' = BlockAndSwitch(rq)
          ELSE rq' = BlockTask(rq) /\ UNCHANGED sleepq
     ELSE UNCHANGED <<rq, sleepq>>
  /\ UNCHANGED tick

(* wait4, an untimed futex wait, a pipe read or write. *)
WaitForEvent ==
  /\ MayBlock
  /\ rq.active
  /\ rq' = IF CanBlock(rq) THEN BlockAndSwitch(rq) ELSE BlockTask(rq)
  /\ UNCHANGED <<sleepq, tick>>

(* The running task wakes one that waits for an event; the futex and the   *)
(* Windows wait paths cancel the timeout first.  Pipes wake with replay.   *)
(* Mutant: the timeout survives the wake. *)
KeepSleep(t) == sleepq

CancelSleep(t) ==
  [i \in Tasks |-> IF sleepq[i].task = t THEN Idle ELSE sleepq[i]]

PlainSleeper(t) ==
  \E i \in Tasks : sleepq[i].task = t /\ ~sleepq[i].timed

WakeWaiter(t) ==
  /\ rq.active
  /\ rq.state[t] = "blocked"
  /\ ~PlainSleeper(t)
  /\ sleepq' = CancelSleep(t)
  /\ \/ rq' = WakeWithResult(rq, t)
     \/ ~Sleeping(t) /\ rq' = WakeReplay(rq, t)
  /\ UNCHANGED tick

Exit ==
  /\ rq.active
  /\ rq' = OnExit(rq)
  /\ UNCHANGED <<sleepq, tick>>

(* The exit of a thread or of a child wakes the task that waits for it,    *)
(* and the queue then leaves the exited task.                              *)
ExitWaking(t) ==
  /\ MayBlock
  /\ rq.active
  /\ rq.state[t] = "blocked"
  /\ ~PlainSleeper(t)
  /\ sleepq' = CancelSleep(t)
  /\ rq' = OnExit(WakeWithResult(rq, t))
  /\ UNCHANGED tick

-----------------------------------------------------------------------------
(* The timer interrupt.  Expired entries are walked by index, each waking  *)
(* its task, so the last one woken is preferred.                           *)

(* Mutant: the walk misses the first entry. *)
ExpiredFromOne(now) ==
  {i \in Tasks \ {0} : /\ sleepq[i] # Idle
                       /\ SleepTickReached(now, sleepq[i].wake)}

Expired(now) ==
  {i \in Tasks : sleepq[i] # Idle /\ SleepTickReached(now, sleepq[i].wake)}

WakeExpired(q, now) ==
  LET woken == {t \in Tasks : /\ q.state[t] = "blocked"
                              /\ \E i \in Expired(now) : sleepq[i].task = t}
      waking == {i \in Expired(now) : sleepq[i].task \in woken}
  IN [q EXCEPT !.state = [t \in Tasks |-> IF t \in woken THEN "ready" ELSE @[t]],
               !.frame = [t \in Tasks |-> IF t \in woken THEN "result" ELSE @[t]],
               !.preferred = IF waking = {} THEN @ ELSE sleepq[Max(waking)].task]

OnTimer(now) ==
  /\ rq' = SwitchOnTimer(WakeExpired(Preempt(rq), now))
  /\ sleepq' = [i \in Tasks |-> IF i \in Expired(now) THEN Idle ELSE sleepq[i]]

TickAdvances == tick' = (tick + 1) % TickSpace

TimerInterrupt ==
  /\ TickAdvances
  /\ IF TimerDriven /\ rq.active THEN OnTimer(tick')
                                 ELSE UNCHANGED <<rq, sleepq>>

-----------------------------------------------------------------------------
Next ==
  \/ Register
  \/ \E t \in Tasks : Start(t) \/ WakeWaiter(t) \/ ExitWaking(t)
  \/ StopAndReset
  \/ \E n \in Requests : Sleep(n, FALSE) \/ (MayBlock /\ Sleep(n, TRUE))
  \/ WaitForEvent
  \/ Exit
  \/ TimerInterrupt

Spec == Init /\ [][Next]_vars

(* The PIT keeps interrupting; only TimerInterrupt changes tick. *)
FairSpec == Spec /\ WF_tick(TickAdvances)

-----------------------------------------------------------------------------
(* The queue record and the sleep entries stay within their types. *)
TypeOK ==
  /\ rq \in RunQueues
  /\ sleepq \in [Tasks -> Entries]
  /\ tick \in 0 .. TickSpace - 1

(* While the queue is active the current task, and no other, is running:   *)
(* block_task's refusal to strand the CPU, the preference of woken tasks   *)
(* and the reuse of exited slots never leave the CPU with a task that is   *)
(* blocked, ready or gone.  An inactive queue runs nothing.                *)
OneRunner ==
  \A t \in Tasks : rq.state[t] = "running" <=> rq.active /\ rq.current = t

(* Whatever can be dispatched resumes from a context saved after it last   *)
(* ran, also when it was woken, reused a slot or was preempted.            *)
ResumesSavedFrame ==
  \A t \in Tasks : rq.state[t] \in {"ready", "blocked"} =>
                     rq.frame[t] \in {"saved", "result"}

(* The sleep queue and the run queue agree: an entry's task is blocked, no *)
(* task has two entries, so an exited task never leaves an entry behind to *)
(* wake the next owner of its slot.                                        *)
SleepersBlocked ==
  \A i \in Tasks : sleepq[i] # Idle =>
    /\ rq.state[sleepq[i].task] = "blocked"
    /\ \A j \in Tasks : sleepq[j].task = sleepq[i].task => j = i

(* The longest sleep that the comparison of ticks can keep. *)
LongestSleep == TickSpace - TickSpace \div 2 + 1

(* A sleep of up to half the counter and one ends at its tick, neither     *)
(* before nor after, across the wrap of the counter; a longer one, which   *)
(* the system calls accept, ends with the very next tick                   *)
(* (scheduler64_sleep_tick_reached).  The timer drives the queue.          *)
WakesOnTime ==
  [][\A i \in Tasks :
       tick' # tick /\ rq.active /\ sleepq[i] # Idle =>
         (sleepq'[i] = Idle <=>
            \/ tick' = sleepq[i].wake
            \/ sleepq[i].requested > LongestSleep)]_vars

(* The result a wake wrote into a saved frame reaches its task: nothing    *)
(* overwrites it before that task is dispatched or the queue is reset.     *)
ResultDelivered ==
  [][\A t \in Tasks :
       rq.frame[t] = "result" /\ rq'.frame[t] # "result" =>
         rq'.current = t \/ rq'.count = 0]_vars

(* A sleeping task of an active queue is woken eventually. *)
SleepersWake ==
  \A t \in Tasks : rq.active /\ Sleeping(t) ~> ~rq.active \/ ~Sleeping(t)

(* A running task does not keep the CPU while another one is ready. *)
Preempted ==
  \A t \in Tasks :
    rq.active /\ rq.current = t /\ (\E s \in Tasks : Ready(rq, s))
      ~> ~rq.active \/ rq.current # t

(* Round-robin reaches every ready task: it is passed over for ever only   *)
(* if tasks keep waiting, since a task that is woken goes first.           *)
ReadyRuns ==
  \A t \in Tasks :
    rq.active /\ Ready(rq, t)
      ~> ~rq.active \/ rq.current = t \/ (\E s \in Tasks : rq.state[s] = "blocked")

=============================================================================
