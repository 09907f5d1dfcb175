--------------------------- MODULE ThreadsProofs ---------------------------
(***************************************************************************)
(* Proofs about the scheduler and the threads that run on it.              *)
(*                                                                         *)
(* The scheduler, for every number of tasks, every width of the tick       *)
(* counter, all sleep lengths and both timer modes.  The run queue is a    *)
(* record, so its operators are proved once, as lemmas on records          *)
(* (RunQueueProofs): QueueOK is kept by all of them, and a task is         *)
(* dispatched only when none is running.  Each action then cites the       *)
(* lemmas of the operators it is made of.                                  *)
(*                                                                         *)
(* The threads: the futex table, the sleep queue and the run queue agree   *)
(* in every reachable state, no waiter is dropped, and the threads use the *)
(* scheduler as Scheduler describes it.                                    *)
(***************************************************************************)
EXTENDS Threads, RunQueueProofs

(* The provers of a leaf that names none, and their time in seconds. *)
USE ZenonT(20), SMTT(20)

-----------------------------------------------------------------------------
(* The scheduler. *)

(* SleepersBlocked reads the state of an entry's task, which must be one. *)
SleepersAreTasks ==
  \A i \in Tasks : sleepq[i] # Idle => sleepq[i].task \in Tasks

(* The inductive invariant. *)
IInv ==
  /\ QueueOK(rq)
  /\ Runner(rq)
  /\ SleepersBlocked
  /\ SleepersAreTasks
  /\ sleepq \in [Tasks -> Entries]
  /\ tick \in 0 .. TickSpace - 1

(* An entry of task t expires. *)
Waking(now, t) == \E i \in Expired(now) : sleepq[i].task = t

(* The walk over the sleep queue leaves the preempted task ready, and      *)
(* wakes no task without an expired entry.                                 *)
LEMMA WakeExpiredKeeps ==
  ASSUME NEW q, QueueOK(q), NobodyRuns(q), q.active,
         q.state[q.current] = "ready",
         NEW now, sleepq \in [Tasks -> Entries]
  PROVE  LET w == WakeExpired(q, now)
         IN  /\ QueueOK(w) /\ NobodyRuns(w)
             /\ w.active /\ w.state[w.current] = "ready"
             /\ StaysBlocked(q, w, {t \in Tasks : ~Waking(now, t)})
             /\ StaysRunnable(q, w, Tasks)
             /\ \A t \in Tasks : q.state[t] = "blocked" /\ Waking(now, t) =>
                                 w.state[t] = "ready"
  <1> DEFINE w == WakeExpired(q, now)
             woken == {t \in Tasks : /\ q.state[t] = "blocked"
                                     /\ Waking(now, t)}
             waking == {i \in Expired(now) : sleepq[i].task \in woken}
             pref == IF waking = {} THEN q.preferred ELSE sleepq[Max(waking)].task
             st == [t \in Tasks |-> IF t \in woken THEN "ready" ELSE q.state[t]]
             fr == [t \in Tasks |-> IF t \in woken THEN "result" ELSE q.frame[t]]
  <1>1. /\ q \in RunQueues /\ q.count \in 0 .. TaskLimit
        /\ q.current \in Tasks /\ q.current < q.count
        /\ q.preferred \in Tasks \cup {NoTask}
        /\ q.state \in [Tasks -> TaskStates] /\ q.frame \in [Tasks -> FrameStates]
    BY SMTT(20), RunQueueAssumption DEF QueueOK, RunQueues, NoTask
  <1>2. pref \in Tasks \cup {NoTask}
    <2>1. CASE waking = {}
      BY <1>1, <2>1
    <2>2. CASE waking # {}
      <3>1. waking \in SUBSET Tasks
        BY DEF Expired
      <3>2. Max(waking) \in Tasks
        BY <2>2, <3>1, MaxMember
      <3>3. sleepq[Max(waking)].task \in Tasks \cup {NoTask}
        BY <3>2 DEF Entries
      <3> QED BY <2>2, <3>3
    <2> QED BY <2>1, <2>2
  <1>3. w = [q EXCEPT !.state = st, !.frame = fr, !.preferred = pref]
    BY <1>1 DEF WakeExpired, Waking, RunQueues
  <1>4. st \in [Tasks -> TaskStates] /\ fr \in [Tasks -> FrameStates]
    BY <1>1 DEF TaskStates, FrameStates
  <1>5. /\ \A t \in Tasks : st[t] = IF t \in woken THEN "ready" ELSE q.state[t]
        /\ \A t \in Tasks : fr[t] = IF t \in woken THEN "result" ELSE q.frame[t]
    OBVIOUS
  <1>6. /\ \A t \in woken : t \in Tasks /\ q.state[t] = "blocked"
        /\ \A t \in woken : Waking(now, t)
    OBVIOUS
  <1> HIDE DEF w, st, fr, pref, woken
  <1>7. /\ w \in RunQueues
        /\ w.active = q.active /\ w.count = q.count /\ w.current = q.current
        /\ w.state = st /\ w.frame = fr
    BY <1>1, <1>2, <1>3, <1>4 DEF RunQueues
  <1>8. QueueOK(w)
    BY <1>5, <1>6, <1>7 DEF QueueOK
  <1>9. NobodyRuns(w) /\ w.state[w.current] = "ready"
    BY <1>1, <1>5, <1>6, <1>7 DEF NobodyRuns
  <1>10. StaysBlocked(q, w, {t \in Tasks : ~Waking(now, t)})
         /\ StaysRunnable(q, w, Tasks)
    BY <1>5, <1>6, <1>7 DEF StaysBlocked, StaysRunnable
  <1>11. \A t \in Tasks : q.state[t] = "blocked" /\ Waking(now, t) =>
                            w.state[t] = "ready"
    BY <1>5, <1>7 DEF woken
  <1> QED BY <1>7, <1>8, <1>9, <1>10, <1>11 DEF w

-----------------------------------------------------------------------------
(* The sleep queue.  While no blocked task with an entry is woken and no   *)
(* entry changes, the two queues go on agreeing.                           *)
LEMMA SleepersKeep ==
  ASSUME IInv, StaysBlocked(rq, rq', Tasks), sleepq' = sleepq
  PROVE  SleepersBlocked' /\ SleepersAreTasks'
  BY DEF IInv, SleepersAreTasks, SleepersBlocked, StaysBlocked

(* The invariant holds before the first task is registered. *)
LEMMA InitHolds == Init => IInv
  <1> SUFFICES ASSUME Init PROVE IInv
    OBVIOUS
  <1>1. QueueOK(rq) /\ Runner(rq)
    BY EmptyIsOK DEF Init
  <1>2. SleepersBlocked /\ SleepersAreTasks
    BY DEF Init, EmptySleepQueue, SleepersBlocked, SleepersAreTasks
  <1>3. sleepq \in [Tasks -> Entries]
    BY SMTT(20), SchedulerAssumption DEF Init, EmptySleepQueue, Idle, Entries
  <1>4. tick \in 0 .. TickSpace - 1
    BY SchedulerAssumption DEF Init
  <1> QED BY <1>1, <1>2, <1>3, <1>4 DEF IInv

(* A sleep adds an entry for a task that had none and that it blocks. *)
LEMMA SleepHolds ==
  ASSUME IInv, NEW n \in Requests, NEW timed \in BOOLEAN, Sleep(n, timed)
  PROVE  IInv'
  <1> USE DEF IInv
  <1>1. CASE UNCHANGED <<rq, sleepq>>
    BY <1>1 DEF Sleep, SleepersBlocked, SleepersAreTasks
  <1>2. CASE rq' = BlockTask(rq) /\ ~CanBlock(rq) /\ UNCHANGED sleepq
    <2>1. rq' = Forget(rq)
      BY <1>2 DEF BlockTask
    <2>2. QueueOK(rq') /\ Runner(rq') /\ StaysBlocked(rq, rq', Tasks)
      BY <2>1, ForgetKeeps DEF Runner, StaysBlocked
    <2> QED BY <1>2, <2>2, SleepersKeep DEF Sleep
  <1>3. CASE /\ FreeEntries # {} /\ ~Sleeping(rq.current) /\ CanBlock(rq)
             /\ sleepq' = [sleepq EXCEPT ![Min(FreeEntries)] = NewEntry(n, timed)]
             /\ rq' = BlockAndSwitch(rq)
    <2> DEFINE m == Min(FreeEntries)
               e == NewEntry(n, timed)
    <2>1. QueueOK(rq') /\ Runner(rq') /\ StaysBlocked(rq, rq', Tasks)
          /\ rq'.state[rq.current] = "blocked"
      BY <1>3, BlockKeeps
    <2>2. m \in Tasks /\ sleepq[m] = Idle
      <3>1. FreeEntries \in SUBSET Nat
        BY SMTT(20), RunQueueAssumption DEF FreeEntries, Tasks
      <3> QED BY <1>3, <3>1, MinMember DEF FreeEntries
    <2>3. rq.current \in Tasks
      BY SMTT(20), <1>3, RunQueueAssumption DEF CanBlock, QueueOK, RunQueues, NoTask
    <2>4. n \in 0 .. TickSpace - 1 /\ (tick + n) % TickSpace \in 0 .. TickSpace - 1
      <3>1. tick + n \in Nat /\ TickSpace \in Nat \ {0}
        BY SMTT(20), SchedulerAssumption
      <3>2. n \in 0 .. TickSpace - 1
        BY SMTT(20), SchedulerAssumption
      <3> QED BY <3>1, <3>2, Remainder
    <2>5. e \in Entries /\ e.task = rq.current
      BY <2>3, <2>4 DEF NewEntry, Entries
    <2> HIDE DEF e, m
    <2>6. sleepq' = [sleepq EXCEPT ![m] = e]
      BY <1>3 DEF e, m
    <2>7. sleepq' \in [Tasks -> Entries]
      BY <2>2, <2>5, <2>6
    <2>8. SleepersAreTasks'
      BY <2>2, <2>3, <2>5, <2>6 DEF SleepersAreTasks
    <2>9. \A i \in Tasks : sleepq[i].task # rq.current
      BY <1>3 DEF Sleeping
    <2>10. SleepersBlocked'
      <3> SUFFICES ASSUME NEW i \in Tasks, sleepq'[i] # Idle
                   PROVE  /\ rq'.state[sleepq'[i].task] = "blocked"
                          /\ \A j \in Tasks :
                               sleepq'[j].task = sleepq'[i].task => j = i
        BY DEF SleepersBlocked
      <3>1. CASE i = m
        BY <2>1, <2>2, <2>5, <2>6, <2>9, <3>1
      <3>2. CASE i # m
        <4>1. sleepq'[i] = sleepq[i] /\ sleepq[i].task # rq.current
          BY <2>6, <2>9, <3>2
        <4>2. rq'.state[sleepq'[i].task] = "blocked"
          BY <2>1, <4>1 DEF SleepersAreTasks, SleepersBlocked, StaysBlocked
        <4>3. \A j \in Tasks : sleepq'[j].task = sleepq'[i].task => j = i
          BY <2>2, <2>5, <2>6, <4>1 DEF SleepersBlocked
        <4> QED BY <4>2, <4>3
      <3> QED BY <3>1, <3>2
    <2> QED BY <2>1, <2>7, <2>8, <2>10 DEF Sleep
  <1> QED BY <1>1, <1>2, <1>3 DEF Sleep

(* What wakes a task before its time removes the entry of its timeout.     *)
LEMMA CancelHolds ==
  ASSUME IInv, NEW t \in Tasks, sleepq' = CancelSleep(t), tick' = tick,
         QueueOK(rq'), Runner(rq'), StaysBlocked(rq, rq', Tasks \ {t})
  PROVE  IInv'
  <1> USE DEF IInv
  <1>1. \A i \in Tasks :
          sleepq'[i] = IF sleepq[i].task = t THEN Idle ELSE sleepq[i]
    BY DEF CancelSleep
  <1>2. Idle \in Entries /\ Idle.task = NoTask
    BY SMTT(20), SchedulerAssumption DEF Idle, Entries
  <1>3. sleepq' \in [Tasks -> Entries]
    BY <1>2 DEF CancelSleep
  <1>4. SleepersAreTasks'
    BY <1>1 DEF SleepersAreTasks
  <1>5. SleepersBlocked'
    <2> SUFFICES ASSUME NEW i \in Tasks, sleepq'[i] # Idle
                 PROVE  /\ rq'.state[sleepq'[i].task] = "blocked"
                        /\ \A j \in Tasks :
                             sleepq'[j].task = sleepq'[i].task => j = i
      BY DEF SleepersBlocked
    <2>1. sleepq'[i] = sleepq[i] /\ sleepq[i].task \in Tasks \ {t}
      BY <1>1 DEF SleepersAreTasks
    <2>2. rq'.state[sleepq'[i].task] = "blocked"
      BY <2>1 DEF SleepersBlocked, StaysBlocked
    <2>3. \A j \in Tasks : sleepq'[j].task = sleepq'[i].task => j = i
      BY ZenonT(60), <1>1, <1>2, <2>1, NoTaskIsNone DEF SleepersBlocked
    <2> QED BY <2>2, <2>3
  <1> QED BY <1>3, <1>4, <1>5

(* An event that wakes a task. *)
LEMMA WakeHolds ==
  ASSUME IInv, NEW t \in Tasks, WakeWaiter(t)
  PROVE  IInv'
  <1>1. QueueOK(rq') /\ Runner(rq') /\ StaysBlocked(rq, rq', Tasks \ {t})
    BY SMTT(20), WakeKeeps DEF WakeWaiter, IInv
  <1> QED BY <1>1, CancelHolds DEF WakeWaiter

(* An exit that wakes the task waiting for it: the wake, then the switch. *)
LEMMA ExitWakingHolds ==
  ASSUME IInv, NEW t \in Tasks, ExitWaking(t)
  PROVE  IInv'
  <1> DEFINE w == WakeWithResult(rq, t)
  <1>1. /\ QueueOK(w) /\ Runner(w) /\ w.active
        /\ StaysBlocked(rq, w, Tasks \ {t})
    BY WakeKeeps DEF ExitWaking, IInv
  <1>2. rq' = OnExit(w)
    BY DEF ExitWaking
  <1> HIDE DEF w
  <1>3. QueueOK(rq') /\ Runner(rq') /\ StaysBlocked(w, rq', Tasks)
    BY <1>1, <1>2, ExitKeeps
  <1>4. StaysBlocked(rq, rq', Tasks \ {t})
    BY <1>1, <1>3 DEF StaysBlocked
  <1> QED BY <1>3, <1>4, CancelHolds DEF ExitWaking

(* What the timer does to the run queue: preempt, wake, switch. *)
LEMMA TimerMoves ==
  ASSUME IInv, NEW now, rq.active,
         rq' = SwitchOnTimer(WakeExpired(Preempt(rq), now))
  PROVE  /\ QueueOK(rq') /\ Runner(rq')
         /\ StaysBlocked(rq, rq', {t \in Tasks : ~Waking(now, t)})
         /\ StaysRunnable(rq, rq', Tasks)
         /\ \A t \in Tasks : rq.state[t] = "blocked" /\ Waking(now, t) =>
                             rq'.state[t] \in {"ready", "running"}
  <1> USE DEF IInv
  <1> DEFINE p == Preempt(rq)
             w == WakeExpired(p, now)
  <1>1. /\ QueueOK(p) /\ NobodyRuns(p) /\ p.active
        /\ p.state[p.current] = "ready"
        /\ StaysBlocked(rq, p, Tasks) /\ StaysRunnable(rq, p, Tasks)
    BY PreemptKeeps
  <1>2. rq' = SwitchOnTimer(w)
    OBVIOUS
  <1> HIDE DEF p
  <1>3. /\ QueueOK(w) /\ NobodyRuns(w) /\ w.active
        /\ w.state[w.current] = "ready"
        /\ StaysBlocked(p, w, {t \in Tasks : ~Waking(now, t)})
        /\ StaysRunnable(p, w, Tasks)
        /\ \A t \in Tasks : p.state[t] = "blocked" /\ Waking(now, t) =>
                            w.state[t] = "ready"
    BY <1>1, WakeExpiredKeeps
  <1> HIDE DEF w
  <1>4. /\ QueueOK(rq') /\ Runner(rq')
        /\ StaysBlocked(w, rq', Tasks) /\ StaysRunnable(w, rq', Tasks)
    BY <1>2, <1>3, SwitchKeeps
  <1>5. StaysBlocked(rq, rq', {t \in Tasks : ~Waking(now, t)})
    BY <1>1, <1>3, <1>4 DEF StaysBlocked
  <1>6. StaysRunnable(rq, rq', Tasks)
    BY <1>1, <1>3, <1>4 DEF StaysRunnable
  <1>7. \A t \in Tasks : rq.state[t] = "blocked" /\ Waking(now, t) =>
                          rq'.state[t] \in {"ready", "running"}
    BY <1>1, <1>3, <1>4 DEF StaysBlocked, StaysRunnable
  <1> QED BY <1>4, <1>5, <1>6, <1>7

(* The timer removes the entries of exactly the tasks it wakes. *)
LEMMA TimerHolds ==
  ASSUME IInv, TimerInterrupt
  PROVE  IInv'
  <1> USE DEF IInv
  <1>1. tick' \in 0 .. TickSpace - 1
    <2>1. tick + 1 \in Nat /\ TickSpace \in Nat \ {0}
      BY SMTT(20), SchedulerAssumption
    <2> QED BY <2>1, Remainder DEF TimerInterrupt, TickAdvances
  <1>2. CASE UNCHANGED <<rq, sleepq>>
    BY <1>1, <1>2 DEF SleepersBlocked, SleepersAreTasks
  <1>3. CASE rq.active /\ OnTimer(tick')
    <2> DEFINE now == tick'
    <2>1. /\ QueueOK(rq') /\ Runner(rq')
          /\ StaysBlocked(rq, rq', {t \in Tasks : ~Waking(now, t)})
      BY <1>3, TimerMoves DEF OnTimer
    <2>2. \A i \in Tasks :
            sleepq'[i] = IF i \in Expired(now) THEN Idle ELSE sleepq[i]
      BY <1>3 DEF OnTimer
    <2>3. Idle \in Entries /\ Idle.task = NoTask
      BY SMTT(20), SchedulerAssumption DEF Idle, Entries
    <2>4. sleepq' \in [Tasks -> Entries]
      BY <1>3, <2>3 DEF OnTimer
    <2>5. SleepersAreTasks'
      BY <2>2 DEF SleepersAreTasks
    <2>6. SleepersBlocked'
      <3> SUFFICES ASSUME NEW i \in Tasks, sleepq'[i] # Idle
                   PROVE  /\ rq'.state[sleepq'[i].task] = "blocked"
                          /\ \A j \in Tasks :
                               sleepq'[j].task = sleepq'[i].task => j = i
        BY DEF SleepersBlocked
      <3> DEFINE t == sleepq[i].task
      <3>1. /\ i \notin Expired(now) /\ sleepq'[i] = sleepq[i]
            /\ sleepq[i] # Idle /\ t \in Tasks
        BY <2>2 DEF SleepersAreTasks
      <3>2. rq.state[t] = "blocked" /\ \A j \in Tasks : sleepq[j].task = t => j = i
        BY <3>1 DEF SleepersBlocked
      <3>3. ~Waking(now, t)
        BY <3>1, <3>2 DEF Waking, Expired
      <3>4. rq'.state[t] = "blocked"
        BY <2>1, <3>1, <3>2, <3>3 DEF StaysBlocked
      <3>5. \A j \in Tasks : sleepq'[j].task = t => j = i
        BY <2>2, <2>3, <3>1, <3>2, NoTaskIsNone
      <3> QED BY <3>1, <3>4, <3>5
    <2> QED BY <1>1, <2>1, <2>4, <2>5, <2>6
  <1> QED BY <1>2, <1>3 DEF TimerInterrupt

(* Every step keeps the invariant, action by action. *)
LEMMA StepHolds == IInv /\ [Next]_vars => IInv'
  <1> SUFFICES ASSUME IInv, [Next]_vars PROVE IInv'
    OBVIOUS
  <1>1. CASE Register
    <2>1. QueueOK(rq') /\ Runner(rq') /\ StaysBlocked(rq, rq', Tasks)
      BY <1>1, RegisterKeeps DEF Register, IInv
    <2> QED BY <1>1, <2>1, SleepersKeep DEF Register, IInv
  <1>2. ASSUME NEW t \in Tasks, Start(t) PROVE IInv'
    <2>1. QueueOK(rq') /\ Runner(rq') /\ StaysBlocked(rq, rq', Tasks)
      BY <1>2, StartKeeps DEF Start, IInv
    <2> QED BY <1>2, <2>1, SleepersKeep DEF Start, IInv
  <1>3. ASSUME NEW t \in Tasks, WakeWaiter(t) PROVE IInv'
    BY <1>3, WakeHolds
  <1>4. CASE StopAndReset
    <2>1. QueueOK(rq') /\ Runner(rq')
      BY <1>4, EmptyIsOK DEF StopAndReset
    <2>2. SleepersBlocked' /\ SleepersAreTasks'
      BY <1>4 DEF StopAndReset, EmptySleepQueue, SleepersBlocked, SleepersAreTasks
    <2>3. sleepq' \in [Tasks -> Entries]
      BY SMTT(20), <1>4, SchedulerAssumption DEF StopAndReset, EmptySleepQueue, Idle, Entries
    <2> QED BY <1>4, <2>1, <2>2, <2>3 DEF StopAndReset, IInv
  <1>5. ASSUME NEW n \in Requests, NEW timed \in BOOLEAN, Sleep(n, timed)
        PROVE  IInv'
    BY <1>5, SleepHolds
  <1>6. CASE WaitForEvent
    <2>1. CASE CanBlock(rq)
      <3>1. QueueOK(rq') /\ Runner(rq') /\ StaysBlocked(rq, rq', Tasks)
        BY <1>6, <2>1, BlockKeeps DEF WaitForEvent, IInv
      <3> QED BY <1>6, <3>1, SleepersKeep DEF WaitForEvent, IInv
    <2>2. CASE ~CanBlock(rq)
      <3>1. rq' = Forget(rq)
        BY <1>6, <2>2 DEF WaitForEvent, BlockTask
      <3>2. QueueOK(rq') /\ Runner(rq') /\ StaysBlocked(rq, rq', Tasks)
        BY <3>1, ForgetKeeps DEF Runner, StaysBlocked, IInv
      <3> QED BY <1>6, <3>2, SleepersKeep DEF WaitForEvent, IInv
    <2> QED BY <2>1, <2>2
  <1>7. CASE Exit
    <2>1. QueueOK(rq') /\ Runner(rq') /\ StaysBlocked(rq, rq', Tasks)
      BY <1>7, ExitKeeps DEF Exit, IInv
    <2> QED BY <1>7, <2>1, SleepersKeep DEF Exit, IInv
  <1>8. CASE TimerInterrupt
    BY <1>8, TimerHolds
  <1>9. ASSUME NEW t \in Tasks, ExitWaking(t) PROVE IInv'
    BY <1>9, ExitWakingHolds
  <1>10. CASE UNCHANGED vars
    BY <1>10 DEF vars, IInv, SleepersBlocked, SleepersAreTasks
  <1> QED
    BY <1>1, <1>2, <1>3, <1>4, <1>5, <1>6, <1>7, <1>8, <1>9, <1>10 DEF Next

(* The inductive invariant holds in every reachable state of scheduler.c's *)
(* two queues.                                                             *)
THEOREM Invariance == Spec => []IInv
  BY InitHolds, StepHolds, PTL DEF Spec

-----------------------------------------------------------------------------
(* The properties that the runs check on small instances. *)

(* The queue record and the sleep entries stay within their types, and the *)
(* tick within its width.                                                  *)
THEOREM TypeCorrect == Spec => []TypeOK
  <1>1. IInv => TypeOK
    BY DEF IInv, QueueOK, TypeOK
  <1> QED BY <1>1, Invariance, PTL

(* No sequence of registrations, blocking calls, wakes, exits and timer    *)
(* interrupts leaves an active queue without its running task, or with     *)
(* two.                                                                    *)
THEOREM OneTaskRuns == Spec => []OneRunner
  <1>1. IInv => OneRunner
    BY DEF IInv, Runner, OneRunner
  <1> QED BY <1>1, Invariance, PTL

(* Every task that can be dispatched has a frame saved after it last ran.  *)
THEOREM FramesAreSaved == Spec => []ResumesSavedFrame
  <1>1. IInv => ResumesSavedFrame
    BY DEF IInv, QueueOK, ResumesSavedFrame
  <1> QED BY <1>1, Invariance, PTL

(* Each entry of the sleep queue stands for one blocked task, so no timer  *)
(* entry outlives the wait it was made for.                                *)
THEOREM QueuesAgree == Spec => []SleepersBlocked
  <1>1. IInv => SleepersBlocked
    BY DEF IInv
  <1> QED BY <1>1, Invariance, PTL

-----------------------------------------------------------------------------
(* Sleeps end on time.  What keeps an entry from being missed is that its  *)
(* tick lies ahead, by no more than was requested, as long as the queue is *)
(* active.  A queue that went inactive no longer serves its sleepers, and  *)
(* is never started again with them: a start finds no task blocked.        *)

(* The tick w is still to come.  A sleep too long for the comparison is as *)
(* long as it was requested: it will end with the next tick.               *)
Ahead(now, w, n) ==
  \E d \in 1 .. TickSpace - 1 :
    /\ w = (now + d) % TickSpace
    /\ d <= n
    /\ n > LongestSleep => d = n

OnTime ==
  rq.active =>
    \A i \in Tasks : sleepq[i] # Idle =>
      sleepq[i].requested \in Nat
        /\ Ahead(tick, sleepq[i].wake, sleepq[i].requested)

(* The sum of two ticks wraps once at most. *)
LEMMA TickSum ==
  ASSUME NEW n \in Nat \ {0}, NEW a \in 0 .. n - 1, NEW b \in 0 .. n
  PROVE  (a + b) % n = IF a + b < n THEN a + b ELSE a + b - n
  OBVIOUS

(* A negative difference of two ticks counts from the end. *)
LEMMA TickDifference ==
  ASSUME NEW n \in Nat \ {0}, NEW a \in 0 .. n - 1, NEW b \in 0 .. n - 1
  PROVE  (a - b) % n = IF a >= b THEN a - b ELSE a - b + n
  OBVIOUS

(* scheduler64_sleep_tick_reached: of the ticks ahead, only the next one   *)
(* is reached when the counter advances, and the others stay ahead; a      *)
(* sleep too long for the comparison is taken for one that has ended.      *)
LEMMA NextTickOnly ==
  ASSUME tick \in 0 .. TickSpace - 1, TickAdvances,
         NEW w, NEW n \in Nat, Ahead(tick, w, n)
  PROVE  /\ SleepTickReached(tick', w) <=> tick' = w \/ n > LongestSleep
         /\ ~SleepTickReached(tick', w) => Ahead(tick', w, n)
  <1> DEFINE h == TickSpace \div 2
             longest == TickSpace - h + 1
  <1>1. /\ TickSpace \in Nat \ {0, 1} /\ h \in Nat
        /\ 2 * h <= TickSpace /\ h >= 1
    BY SchedulerAssumption
  <1>2. PICK d \in 1 .. TickSpace - 1 :
           w = (tick + d) % TickSpace /\ d <= n /\ (n > longest => d = n)
    BY DEF Ahead, LongestSleep
  <1>3. w = IF tick + d < TickSpace THEN tick + d ELSE tick + d - TickSpace
    <2> HIDE DEF h
    <2>1. d \in 0 .. TickSpace /\ TickSpace \in Nat \ {0}
      BY <1>1
    <2> QED BY <1>2, <2>1, TickSum
  <1>4. tick' = IF tick + 1 < TickSpace THEN tick + 1 ELSE 0
    <2>1. 1 \in 0 .. TickSpace /\ TickSpace \in Nat \ {0}
      BY <1>1
    <2>2. (tick + 1) % TickSpace
            = IF tick + 1 < TickSpace THEN tick + 1 ELSE tick + 1 - TickSpace
      BY <2>1, TickSum
    <2> QED BY <1>1, <2>2 DEF TickAdvances
  <1> HIDE DEF h
  <1>5. w \in 0 .. TickSpace - 1 /\ tick' \in 0 .. TickSpace - 1
    BY <1>1, <1>3, <1>4
  <1>6. (tick' - w) % TickSpace
          = IF tick' >= w THEN tick' - w ELSE tick' - w + TickSpace
    BY <1>1, <1>5, TickDifference
  <1>7. CASE d = 1
    <2>1. w = tick' /\ (tick' - w) % TickSpace = 0
      BY <1>1, <1>3, <1>4, <1>6, <1>7
    <2> QED BY <1>1, <2>1 DEF SleepTickReached, h
  <1>8. CASE d # 1
    <2> DEFINE e == d - 1
    <2>1. e \in 1 .. TickSpace - 1 /\ e \in 0 .. TickSpace /\ tick' # w
      BY <1>1, <1>3, <1>4, <1>8
    <2>2. (tick' - w) % TickSpace = TickSpace - e
      BY <1>1, <1>3, <1>4, <1>6, <1>8
    <2>3. w = IF tick' + e < TickSpace THEN tick' + e ELSE tick' + e - TickSpace
      BY <1>1, <1>3, <1>4, <1>8
    <2>4. TickSpace - e < h <=> d > longest
      BY <1>1
    <2>5. TickSpace - e < h <=> n > longest
      BY <1>1, <1>2, <2>4
    <2>6. e <= n
      BY <1>2
    <2> HIDE DEF e
    <2>7. SleepTickReached(tick', w) <=> n > longest
      BY <2>2, <2>5 DEF SleepTickReached, h
    <2>8. w = (tick' + e) % TickSpace
      BY <1>1, <1>5, <2>1, <2>3, TickSum
    <2> HIDE DEF longest
    <2>9. ASSUME ~(n > longest) PROVE Ahead(tick', w, n)
      BY <2>1, <2>6, <2>8, <2>9 DEF Ahead, LongestSleep, longest, h
    <2> QED BY <2>1, <2>7, <2>9 DEF LongestSleep, longest, h
  <1> QED BY <1>7, <1>8

(* A sleep is requested for a tick ahead. *)
LEMMA RequestIsAhead ==
  ASSUME NEW n \in Requests, NEW timed \in BOOLEAN
  PROVE  LET e == NewEntry(n, timed)
         IN  e.requested \in Nat /\ Ahead(tick, e.wake, e.requested)
  BY SchedulerAssumption DEF Ahead, NewEntry

(* The timer wakes the entries that are due, and leaves the others ahead. *)
LEMMA TimerIsOnTime ==
  ASSUME TimerDriven, IInv, OnTime, TimerInterrupt, rq.active,
         NEW i \in Tasks, sleepq[i] # Idle
  PROVE  /\ sleepq'[i] = Idle <=>
              \/ tick' = sleepq[i].wake
              \/ sleepq[i].requested > LongestSleep
         /\ sleepq'[i] # Idle =>
              sleepq'[i] = sleepq[i]
                /\ Ahead(tick', sleepq[i].wake, sleepq[i].requested)
  <1> DEFINE w == sleepq[i].wake
             n == sleepq[i].requested
  <1>1. tick \in 0 .. TickSpace - 1 /\ TickAdvances /\ n \in Nat /\ Ahead(tick, w, n)
    BY DEF IInv, OnTime, TimerInterrupt
  <1>2. sleepq'[i] = IF i \in Expired(tick') THEN Idle ELSE sleepq[i]
    BY DEF TimerInterrupt, OnTimer
  <1>3. i \in Expired(tick') <=> SleepTickReached(tick', w)
    BY DEF Expired
  <1> HIDE DEF w, n
  <1>4. /\ SleepTickReached(tick', w) <=> tick' = w \/ n > LongestSleep
        /\ ~SleepTickReached(tick', w) => Ahead(tick', w, n)
    BY <1>1, NextTickOnly
  <1>5. sleepq'[i] = Idle <=> tick' = w \/ n > LongestSleep
    BY <1>2, <1>3, <1>4
  <1>6. sleepq'[i] # Idle => sleepq'[i] = sleepq[i] /\ Ahead(tick', w, n)
    BY <1>2, <1>3, <1>4
  <1> QED BY <1>5, <1>6 DEF w, n

(* Entries that a call leaves alone stay ahead: the tick is the same, and  *)
(* the calls are made on an active queue.                                  *)
LEMMA CallIsOnTime ==
  ASSUME OnTime, rq.active, tick' = tick,
         \A i \in Tasks :
           \/ sleepq'[i] \in {Idle, sleepq[i]}
           \/ /\ sleepq'[i].requested \in Nat
              /\ Ahead(tick, sleepq'[i].wake, sleepq'[i].requested)
  PROVE  OnTime'
  <1> SUFFICES ASSUME NEW i \in Tasks, sleepq'[i] # Idle
               PROVE  /\ sleepq'[i].requested \in Nat
                      /\ Ahead(tick', sleepq'[i].wake, sleepq'[i].requested)
    BY DEF OnTime
  <1>1. /\ sleepq'[i].requested \in Nat
        /\ Ahead(tick, sleepq'[i].wake, sleepq'[i].requested)
    BY DEF OnTime
  <1> QED BY <1>1 DEF Ahead

(* Every step keeps the entries of an active queue ahead. *)
LEMMA StepIsOnTime ==
  ASSUME TimerDriven, IInv, OnTime, [Next]_vars
  PROVE  OnTime'
  <1>1. CASE Register
    <2>1. rq'.active = rq.active
      BY <1>1 DEF Register, RegisterTask, IInv, QueueOK, RunQueues
    <2> QED BY <1>1, <2>1 DEF Register, OnTime, Ahead
  <1>2. ASSUME NEW t \in Tasks, Start(t) PROVE OnTime'
    <2>1. \A i \in Tasks : sleepq[i] = Idle
      BY <1>2 DEF Start, IInv, SleepersBlocked, SleepersAreTasks
    <2> QED BY <1>2, <2>1 DEF Start, OnTime
  <1>3. ASSUME NEW t \in Tasks, WakeWaiter(t) \/ ExitWaking(t) PROVE OnTime'
    <2>1. rq.active /\ tick' = tick
          /\ \A i \in Tasks : sleepq'[i] \in {Idle, sleepq[i]}
      BY <1>3 DEF WakeWaiter, ExitWaking, CancelSleep
    <2> QED BY <2>1, CallIsOnTime
  <1>4. CASE StopAndReset
    BY <1>4 DEF StopAndReset, EmptySleepQueue, OnTime
  <1>5. ASSUME NEW n \in Requests, NEW timed \in BOOLEAN, Sleep(n, timed)
        PROVE  OnTime'
    <2>1. rq.active /\ tick' = tick
      BY <1>5 DEF Sleep
    <2> DEFINE e == NewEntry(n, timed)
    <2>2. e.requested \in Nat /\ Ahead(tick, e.wake, e.requested)
      BY RequestIsAhead
    <2> HIDE DEF e
    <2>3. \/ sleepq' = sleepq
          \/ sleepq' = [sleepq EXCEPT ![Min(FreeEntries)] = e]
      BY <1>5 DEF Sleep, e
    <2>4. \A i \in Tasks : sleepq'[i] = sleepq[i] \/ sleepq'[i] = e
      BY <2>3 DEF IInv
    <2> QED BY <2>1, <2>2, <2>4, CallIsOnTime
  <1>6. CASE WaitForEvent \/ Exit
    <2>1. rq.active /\ tick' = tick /\ sleepq' = sleepq
      BY <1>6 DEF WaitForEvent, Exit
    <2> QED BY <2>1, CallIsOnTime
  <1>7. CASE TimerInterrupt
    <2>1. CASE ~rq.active
      BY <1>7, <2>1 DEF TimerInterrupt, OnTime
    <2>2. CASE rq.active
      <3> SUFFICES ASSUME NEW i \in Tasks, sleepq'[i] # Idle
                   PROVE  /\ sleepq'[i].requested \in Nat
                          /\ Ahead(tick', sleepq'[i].wake, sleepq'[i].requested)
        BY DEF OnTime
      <3>1. sleepq[i] # Idle
        BY <1>7, <2>2 DEF TimerInterrupt, OnTimer
      <3>2. /\ sleepq'[i] = sleepq[i]
            /\ Ahead(tick', sleepq[i].wake, sleepq[i].requested)
        BY <1>7, <2>2, <3>1, TimerIsOnTime
      <3> QED BY <2>2, <3>1, <3>2 DEF OnTime
    <2> QED BY <2>1, <2>2
  <1>8. CASE UNCHANGED vars
    BY <1>8 DEF vars, OnTime, Ahead
  <1> QED BY <1>1, <1>2, <1>3, <1>4, <1>5, <1>6, <1>7, <1>8 DEF Next

(* When the timer drives the queue, a sleep of up to half the counter and  *)
(* one ends at its tick and at no other, and a longer one with the next    *)
(* tick, for every length that can be requested, every width of the        *)
(* counter and across its wrap (scheduler64_sleep_tick_reached).  Linux    *)
(* programs run in basic mode, to which this does not apply.               *)
THEOREM SleepsEndOnTime ==
  ASSUME TimerDriven
  PROVE  Spec => WakesOnTime
  <1>1. Init => OnTime
    BY DEF Init, OnTime, EmptyQueue
  <1>2. IInv /\ OnTime /\ [Next]_vars => OnTime'
    BY StepIsOnTime
  <1>3. ASSUME IInv, OnTime, [Next]_vars
        PROVE  [\A i \in Tasks :
                  tick' # tick /\ rq.active /\ sleepq[i] # Idle =>
                    (sleepq'[i] = Idle <=>
                       \/ tick' = sleepq[i].wake
                       \/ sleepq[i].requested > LongestSleep)]_vars
    <2> SUFFICES ASSUME NEW i \in Tasks, tick' # tick, rq.active, sleepq[i] # Idle
                 PROVE  sleepq'[i] = Idle <=>
                          \/ tick' = sleepq[i].wake
                          \/ sleepq[i].requested > LongestSleep
      OBVIOUS
    <2>1. TimerInterrupt
      BY <1>3 DEF Next, vars, Register, Start, WakeWaiter, ExitWaking,
                  StopAndReset, Sleep, WaitForEvent, Exit
    <2> QED BY <1>3, <2>1, TimerIsOnTime
  <1> QED BY <1>1, <1>2, <1>3, Invariance, PTL DEF Spec, WakesOnTime

-----------------------------------------------------------------------------
(* Results are delivered.  A frame into which a wake wrote a result belongs *)
(* to a task that is ready.  So no slot that is registered again, and no    *)
(* task that leaves the CPU, has such a frame.                              *)
ResultsWait(q) == \A t \in Tasks : q.frame[t] = "result" => q.state[t] = "ready"

(* From q to r no result is lost, but by giving its task the CPU. *)
Delivers(q, r) ==
  \A t \in Tasks : q.frame[t] = "result" => r.frame[t] = "result" \/ r.current = t

(* From q to r no result is lost at all. *)
KeepsResults(q, r) ==
  \A t \in Tasks : q.frame[t] = "result" => r.frame[t] = "result"

(* A dispatch takes the result of the task that gets the CPU. *)
LEMMA DispatchDelivers ==
  ASSUME NEW q \in RunQueues, NEW t \in Tasks, ResultsWait(q)
  PROVE  ResultsWait(Dispatch(q, t)) /\ Delivers(q, Dispatch(q, t))
  <1> DEFINE r == Dispatch(q, t)
  <1>1. /\ r.current = t
        /\ r.state = [q.state EXCEPT ![t] = "running"]
        /\ r.frame = [q.frame EXCEPT ![t] = "live"]
    BY DEF Dispatch, Forget, RunQueues
  <1>2. q.state \in [Tasks -> TaskStates] /\ q.frame \in [Tasks -> FrameStates]
    BY DEF RunQueues
  <1> HIDE DEF r
  <1>3. ResultsWait(r) /\ Delivers(q, r)
    BY <1>1, <1>2 DEF ResultsWait, Delivers
  <1> QED BY <1>3 DEF r

(* A blocking call saves the frame of a task that was running. *)
LEMMA BlockDelivers ==
  ASSUME NEW q, QueueOK(q), ResultsWait(q), CanBlock(q)
  PROVE  ResultsWait(BlockAndSwitch(q)) /\ Delivers(q, BlockAndSwitch(q))
  <1> DEFINE cur == q.current
             b == BlockTask(q)
             s == [b EXCEPT !.frame[b.current] = "saved"]
             n == NextRunnable(s, cur)
  <1>1. /\ q \in RunQueues /\ cur \in Tasks /\ q.state[cur] = "running"
        /\ q.state \in [Tasks -> TaskStates] /\ q.frame \in [Tasks -> FrameStates]
    BY SMTT(20), RunQueueAssumption DEF QueueOK, CanBlock, RunQueues, NoTask
  <1>2. /\ b \in RunQueues /\ b.current = cur
        /\ b.state = [q.state EXCEPT ![cur] = "blocked"] /\ b.frame = q.frame
    BY <1>1 DEF BlockTask, Forget, RunQueues, TaskStates
  <1> HIDE DEF b
  <1>3. /\ s \in RunQueues /\ s.current = cur
        /\ s.state = [q.state EXCEPT ![cur] = "blocked"]
        /\ s.frame = [q.frame EXCEPT ![cur] = "saved"]
    BY <1>1, <1>2 DEF RunQueues, FrameStates
  <1>4. BlockAndSwitch(q) = IF n = NoTask THEN Forget(s) ELSE Dispatch(s, n)
    BY <1>2 DEF BlockAndSwitch, OnBlockedSyscall, b
  <1> HIDE DEF s
  <1>5. ResultsWait(s) /\ KeepsResults(q, s)
    BY <1>1, <1>3 DEF ResultsWait, KeepsResults
  <1>6. CASE n = NoTask
    <2>1. Forget(s).state = s.state /\ Forget(s).frame = s.frame
      BY <1>3 DEF Forget, RunQueues
    <2> QED BY <1>4, <1>5, <1>6, <2>1 DEF ResultsWait, KeepsResults, Delivers
  <1>7. CASE n # NoTask
    <2>1. n \in Tasks
      BY <1>1, <1>3, <1>7, NextIsReady
    <2> HIDE DEF n
    <2>2. ResultsWait(Dispatch(s, n)) /\ Delivers(s, Dispatch(s, n))
      BY <1>3, <1>5, <2>1, DispatchDelivers
    <2> QED BY <1>4, <1>5, <1>7, <2>2 DEF KeepsResults, Delivers
  <1> QED BY <1>6, <1>7

(* An exiting task was running, so the result it leaves is no one's. *)
LEMMA ExitDelivers ==
  ASSUME NEW q, QueueOK(q), Runner(q), ResultsWait(q), q.active
  PROVE  ResultsWait(OnExit(q)) /\ Delivers(q, OnExit(q))
  <1> DEFINE cur == q.current
             e == [q EXCEPT !.state[cur] = "exited"]
             n == NextRunnable(e, cur)
  <1>1. /\ q \in RunQueues /\ cur \in Tasks /\ q.state[cur] = "running"
        /\ q.state \in [Tasks -> TaskStates] /\ q.frame \in [Tasks -> FrameStates]
    BY SMTT(20), RunQueueAssumption DEF QueueOK, RunQueues, NoTask, Runner
  <1>2. /\ e \in RunQueues /\ e.frame = q.frame
        /\ e.state = [q.state EXCEPT ![cur] = "exited"]
    BY <1>1 DEF RunQueues, TaskStates
  <1>3. OnExit(q) = IF n # NoTask THEN Dispatch(e, n)
                    ELSE [Forget(e) EXCEPT !.active = FALSE, !.current = NoTask]
    BY DEF OnExit
  <1> HIDE DEF e
  <1>4. ResultsWait(e) /\ KeepsResults(q, e)
    BY <1>1, <1>2 DEF ResultsWait, KeepsResults
  <1>5. CASE n = NoTask
    <2>1. OnExit(q).state = e.state /\ OnExit(q).frame = e.frame
      BY SMTT(20), <1>2, <1>3, <1>5 DEF Forget, RunQueues
    <2> QED BY <1>4, <2>1 DEF ResultsWait, KeepsResults, Delivers
  <1>6. CASE n # NoTask
    <2>1. n \in Tasks
      BY <1>1, <1>2, <1>6, NextIsReady
    <2> HIDE DEF n
    <2>2. ResultsWait(Dispatch(e, n)) /\ Delivers(e, Dispatch(e, n))
      BY <1>2, <1>4, <2>1, DispatchDelivers
    <2> QED BY <1>3, <1>4, <1>6, <2>2 DEF KeepsResults, Delivers
  <1> QED BY <1>5, <1>6

(* A wake writes a result into the frame of a task that it makes ready. *)
LEMMA WakeKeepsResults ==
  ASSUME NEW q, QueueOK(q), ResultsWait(q), NEW t \in Tasks,
         NEW r \in {WakeReplay(q, t), WakeWithResult(q, t)}
  PROVE  ResultsWait(r) /\ KeepsResults(q, r)
  <1>1. /\ q \in RunQueues
        /\ q.state \in [Tasks -> TaskStates] /\ q.frame \in [Tasks -> FrameStates]
    BY DEF QueueOK, RunQueues
  <1>2. CASE t < q.count /\ q.state[t] = "blocked"
    <2>1. /\ r.state = [q.state EXCEPT ![t] = "ready"]
          /\ r.frame \in {q.frame, [q.frame EXCEPT ![t] = "result"]}
      BY ZenonT(60), <1>1, <1>2 DEF WakeReplay, WakeWithResult, RunQueues
    <2> QED BY <1>1, <2>1 DEF ResultsWait, KeepsResults
  <1>3. CASE ~(t < q.count /\ q.state[t] = "blocked")
    BY <1>3 DEF WakeReplay, WakeWithResult, ResultsWait, KeepsResults
  <1> QED BY <1>2, <1>3

(* A slot is registered again only when its last task has exited. *)
LEMMA RegisterKeepsResults ==
  ASSUME NEW q, QueueOK(q), ResultsWait(q), AllocateSlot(q) < TaskLimit
  PROVE  /\ ResultsWait(RegisterTask(q, AllocateSlot(q)))
         /\ KeepsResults(q, RegisterTask(q, AllocateSlot(q)))
  <1> DEFINE t == AllocateSlot(q)
             r == RegisterTask(q, t)
  <1>1. t \in Tasks /\ q.state[t] \in {"unused", "exited"}
    BY SlotIsFree
  <1> HIDE DEF t
  <1>2. /\ q \in RunQueues
        /\ q.state \in [Tasks -> TaskStates] /\ q.frame \in [Tasks -> FrameStates]
    BY DEF QueueOK, RunQueues
  <1>3. /\ r.state = [q.state EXCEPT ![t] = "ready"]
        /\ r.frame = [q.frame EXCEPT ![t] = "saved"]
    BY <1>2 DEF RegisterTask, RunQueues
  <1> HIDE DEF r
  <1>4. ResultsWait(r) /\ KeepsResults(q, r)
    BY <1>1, <1>2, <1>3 DEF ResultsWait, KeepsResults
  <1> QED BY <1>4 DEF r, t

(* The first dispatch of a queue. *)
LEMMA StartDelivers ==
  ASSUME NEW q \in RunQueues, ResultsWait(q), NEW t \in Tasks
  PROVE  ResultsWait(StartQueue(q, t)) /\ Delivers(q, StartQueue(q, t))
  <1> DEFINE r == StartQueue(q, t)
  <1>1. /\ r.current = t
        /\ r.state = [q.state EXCEPT ![t] = "running"]
        /\ r.frame = [q.frame EXCEPT ![t] = "live"]
    BY DEF StartQueue, RunQueues
  <1>2. q.state \in [Tasks -> TaskStates] /\ q.frame \in [Tasks -> FrameStates]
    BY DEF RunQueues
  <1> HIDE DEF r
  <1>3. ResultsWait(r) /\ Delivers(q, r)
    BY <1>1, <1>2 DEF ResultsWait, Delivers
  <1> QED BY <1>3 DEF r

(* The timer saves the frame of a task that was running, writes results    *)
(* for blocked tasks, and dispatches one that is ready.                    *)
LEMMA TimerDelivers ==
  ASSUME NEW now, IInv, ResultsWait(rq), rq.active,
         rq' = SwitchOnTimer(WakeExpired(Preempt(rq), now))
  PROVE  ResultsWait(rq') /\ Delivers(rq, rq')
  <1> DEFINE cur == rq.current
             p == Preempt(rq)
             w == WakeExpired(p, now)
             woken == {t \in Tasks : /\ p.state[t] = "blocked"
                                     /\ Waking(now, t)}
             n == NextRunnable(w, w.current)
  <1>1. /\ rq \in RunQueues /\ cur \in Tasks /\ rq.state[cur] = "running"
        /\ rq.state \in [Tasks -> TaskStates] /\ rq.frame \in [Tasks -> FrameStates]
    BY SMTT(20), RunQueueAssumption DEF IInv, QueueOK, RunQueues, NoTask, Runner
  <1>2. /\ QueueOK(p) /\ NobodyRuns(p) /\ p.active /\ p.current = cur
        /\ p.state[cur] = "ready"
    BY PreemptKeeps DEF IInv
  <1>3. ResultsWait(p) /\ KeepsResults(rq, p)
    <2>1. /\ p.state = [rq.state EXCEPT ![cur] = "ready"]
          /\ p.frame = [rq.frame EXCEPT ![cur] = "saved"]
      BY <1>1 DEF Preempt, RunQueues
    <2> HIDE DEF p
    <2> QED BY <1>1, <2>1 DEF ResultsWait, KeepsResults
  <1>4. rq' = SwitchOnTimer(w)
    OBVIOUS
  <1> HIDE DEF p
  <1>5. QueueOK(w) /\ w.active /\ w.state[w.current] = "ready"
    BY <1>2, WakeExpiredKeeps DEF IInv
  <1>6. ResultsWait(w) /\ KeepsResults(p, w)
    <2>1. p \in RunQueues
      BY <1>2 DEF QueueOK
    <2>2. /\ w.state = [t \in Tasks |-> IF t \in woken THEN "ready" ELSE p.state[t]]
          /\ w.frame = [t \in Tasks |-> IF t \in woken THEN "result" ELSE p.frame[t]]
      BY <2>1 DEF WakeExpired, Waking, RunQueues
    <2> HIDE DEF w, woken
    <2> QED BY SMTT(20), <1>3, <2>2 DEF ResultsWait, KeepsResults
  <1> HIDE DEF w
  <1>7. w \in RunQueues /\ w.current \in Tasks
    BY SMTT(20), <1>5, RunQueueAssumption DEF QueueOK, RunQueues, NoTask
  <1>8. PICK t \in Tasks : rq' = Dispatch(w, t)
    <2>1. CASE n = NoTask
      BY <1>4, <1>5, <1>7, <2>1 DEF SwitchOnTimer
    <2>2. CASE n # NoTask
      <3>1. n \in Tasks
        BY <1>7, <2>2, NextIsReady
      <3> QED BY <1>4, <2>2, <3>1 DEF SwitchOnTimer
    <2> QED BY <2>1, <2>2
  <1>9. ResultsWait(rq') /\ Delivers(w, rq')
    BY <1>6, <1>7, <1>8, DispatchDelivers
  <1> QED BY <1>3, <1>6, <1>9 DEF KeepsResults, Delivers

(* Every step delivers the results it takes away, or resets the queue. *)
LEMMA StepDelivers ==
  ASSUME IInv, ResultsWait(rq), [Next]_vars
  PROVE  ResultsWait(rq') /\ (Delivers(rq, rq') \/ rq'.count = 0)
  <1>0. QueueOK(rq) /\ Runner(rq) /\ rq \in RunQueues
    BY DEF IInv, QueueOK
  <1>1. CASE UNCHANGED rq
    BY <1>1 DEF Delivers
  <1>2. CASE Register
    <2>1. ResultsWait(rq') /\ KeepsResults(rq, rq')
      BY <1>0, <1>2, RegisterKeepsResults DEF Register
    <2> QED BY <2>1 DEF KeepsResults, Delivers
  <1>3. ASSUME NEW t \in Tasks, Start(t)
        PROVE  ResultsWait(rq') /\ Delivers(rq, rq')
    BY <1>0, <1>3, StartDelivers DEF Start
  <1>4. ASSUME NEW t \in Tasks, WakeWaiter(t)
        PROVE  ResultsWait(rq') /\ Delivers(rq, rq')
    <2>1. ResultsWait(rq') /\ KeepsResults(rq, rq')
      BY <1>0, <1>4, WakeKeepsResults DEF WakeWaiter
    <2> QED BY <2>1 DEF KeepsResults, Delivers
  <1>5. ASSUME NEW t \in Tasks, ExitWaking(t)
        PROVE  ResultsWait(rq') /\ Delivers(rq, rq')
    <2> DEFINE w == WakeWithResult(rq, t)
    <2>1. /\ QueueOK(w) /\ Runner(w) /\ w.active
          /\ ResultsWait(w) /\ KeepsResults(rq, w)
      BY <1>0, <1>5, WakeKeeps, WakeKeepsResults DEF ExitWaking
    <2>2. rq' = OnExit(w)
      BY <1>5 DEF ExitWaking
    <2> HIDE DEF w
    <2>3. ResultsWait(rq') /\ Delivers(w, rq')
      BY <2>1, <2>2, ExitDelivers
    <2> QED BY <2>1, <2>3 DEF KeepsResults, Delivers
  <1>6. CASE StopAndReset
    BY <1>6 DEF StopAndReset, EmptyQueue, ResultsWait
  <1>7. ASSUME rq' = BlockTask(rq), ~CanBlock(rq)
        PROVE  ResultsWait(rq') /\ Delivers(rq, rq')
    <2>1. rq'.state = rq.state /\ rq'.frame = rq.frame
      BY <1>0, <1>7 DEF BlockTask, Forget, RunQueues
    <2> QED BY <2>1 DEF ResultsWait, Delivers
  <1>8. ASSUME rq' = BlockAndSwitch(rq), CanBlock(rq)
        PROVE  ResultsWait(rq') /\ Delivers(rq, rq')
    BY <1>0, <1>8, BlockDelivers
  <1>9. ASSUME NEW n \in Requests, NEW timed \in BOOLEAN, Sleep(n, timed)
        PROVE  ResultsWait(rq') /\ (Delivers(rq, rq') \/ rq'.count = 0)
    BY <1>1, <1>7, <1>8, <1>9 DEF Sleep
  <1>10. CASE WaitForEvent
    BY <1>7, <1>8, <1>10 DEF WaitForEvent
  <1>11. CASE Exit
    BY <1>0, <1>11, ExitDelivers DEF Exit
  <1>12. CASE TimerInterrupt
    <2>1. CASE TimerDriven /\ rq.active
      BY <1>12, <2>1, TimerDelivers DEF TimerInterrupt, OnTimer
    <2>2. CASE ~(TimerDriven /\ rq.active)
      BY <1>1, <1>12, <2>2 DEF TimerInterrupt
    <2> QED BY <2>1, <2>2
  <1> QED
    BY <1>1, <1>2, <1>3, <1>4, <1>5, <1>6, <1>9, <1>10, <1>11, <1>12
       DEF Next, vars

(* The result that a wake wrote into a saved frame, as the value the       *)
(* blocked call returns, stays there until its task has the CPU or the     *)
(* queue is reset, in both timer modes.                                    *)
THEOREM ResultsAreDelivered == Spec => ResultDelivered
  <1>1. Init => ResultsWait(rq)
    BY DEF Init, EmptyQueue, ResultsWait
  <1>2. IInv /\ ResultsWait(rq) /\ [Next]_vars => ResultsWait(rq)'
    BY StepDelivers
  <1>3. ASSUME IInv, ResultsWait(rq), [Next]_vars
        PROVE  [\A t \in Tasks :
                  rq.frame[t] = "result" /\ rq'.frame[t] # "result" =>
                    rq'.current = t \/ rq'.count = 0]_vars
    BY <1>3, StepDelivers DEF Delivers
  <1> QED BY <1>1, <1>2, <1>3, Invariance, PTL DEF Spec, ResultDelivered

-----------------------------------------------------------------------------
(* The threads. *)

(* The values the threads' state has. *)
ThreadTypes ==
  /\ main \in Tasks \cup {NoTask}
  /\ tid \in [Tasks -> TidWords \cup {NoAddress}]
  /\ word \in [TidWords -> BOOLEAN]
  /\ waiters \in [WaiterSlots -> WaiterRecords]
  /\ cookie \in [Tasks -> 0 .. WaiterLimit]

(* A cleared waiter is empty, one in use names a task, and only an entry   *)
(* in use has a cookie.                                                    *)
TablesOK ==
  /\ \A i \in WaiterSlots : ~Active(i) => waiters[i] = NoWaiter
  /\ \A i \in WaiterSlots : Active(i) => waiters[i].task \in Tasks
  /\ \A e \in Tasks : sleepq[e] = Idle => cookie[e] = 0

(* A word that is not zero belongs to a thread that has yet to exit. *)
WordsOK == main # NoTask => \A a \in TidWords : word[a] => HasThread(a)

(* The inductive invariant. *)
TInv ==
  /\ IInv
  /\ ThreadTypes
  /\ TablesOK
  /\ main = NoTask => rq = EmptyQueue
  /\ FutexBooks
  /\ WordsOK


-----------------------------------------------------------------------------
(* Facts about one state. *)

(* NoWaiter and Idle are values of their tables. *)
LEMMA EmptyRecords ==
  /\ NoWaiter \in WaiterRecords /\ NoWaiter.task = NoTask
  /\ NoWaiter.address = NoAddress
  /\ Idle.task = NoTask /\ Idle.timed = FALSE
  BY DEF NoWaiter, WaiterRecords, Idle

(* A program that makes a call has a current task, which is running. *)
LEMMA Caller ==
  ASSUME TInv, rq.active
  PROVE  /\ rq.current \in Tasks
         /\ rq.state[rq.current] = "running"
         /\ main # NoTask
  <1>1. rq.current \in Tasks
    BY SMTT(20), RunQueueAssumption DEF TInv, IInv, QueueOK, RunQueues, NoTask
  <1>2. rq.state[rq.current] = "running"
    BY <1>1 DEF TInv, IInv, Runner
  <1>3. rq # EmptyQueue
    BY DEF EmptyQueue
  <1> QED BY <1>1, <1>2, <1>3 DEF TInv

(* An active waiter can be woken as Scheduler's WakeWaiter wakes a task:   *)
(* it is blocked, any entry it has in the sleep queue is its timeout, and  *)
(* cancelling the timeout is cancelling that entry.                        *)
LEMMA WakeableWaiter ==
  ASSUME TInv, main # NoTask, NEW i \in WaiterSlots, Active(i)
  PROVE  LET t == waiters[i].task
         IN  /\ t \in Tasks /\ rq.state[t] = "blocked"
             /\ ~PlainSleeper(t)
             /\ CancelTimeout(i) = CancelSleep(t)
             /\ AfterWake(i) = [waiters EXCEPT ![i] = NoWaiter]
  <1> DEFINE t == waiters[i].task
  <1>1. t \in Tasks /\ WaiterAgrees(i) /\ i # 0
    BY SMTT(20) DEF TInv, TablesOK, FutexBooks, WaiterSlots
  <1>2. \A e \in Tasks : sleepq[e].task = t => cookie[e] = i
    BY <1>1 DEF WaiterAgrees
  <1>3. \A e \in Tasks : sleepq[e].task = t => sleepq[e].timed
    BY <1>1, <1>2 DEF TInv, FutexBooks, EntryAgrees
  <1>4. CancelTimeout(i) = CancelSleep(t)
    <2>1. CASE waiters[i].timed
      BY <2>1 DEF CancelTimeout
    <2>2. CASE ~waiters[i].timed
      <3>1. \A e \in Tasks : sleepq[e].task # t
        BY <1>1, <1>2, <2>2 DEF WaiterAgrees
      <3>2. sleepq = [e \in Tasks |-> sleepq[e]]
        BY DEF TInv, IInv
      <3>3. CancelSleep(t) = [e \in Tasks |-> sleepq[e]]
        BY <3>1 DEF CancelSleep
      <3> QED BY <2>2, <3>2, <3>3 DEF CancelTimeout
    <2> QED BY <2>1, <2>2
  <1> QED BY <1>1, <1>3, <1>4 DEF WaiterAgrees, PlainSleeper, AfterWake

(* The waiter's own task is not the caller, so the exit of the caller      *)
(* releases no active waiter.                                              *)
LEMMA NoneReleased ==
  ASSUME TInv, rq.active,
         NEW w, w \in [WaiterSlots -> WaiterRecords],
         \A i \in WaiterSlots : w[i] = waiters[i] \/ w[i] = NoWaiter
  PROVE  Released(w, rq.current) = w
  <1>1. \A i \in WaiterSlots : waiters[i].task # rq.current
    BY SMTT(20), Caller, NoTaskIsNone, EmptyRecords
       DEF TInv, TablesOK, FutexBooks, WaiterAgrees
  <1>2. \A i \in WaiterSlots : w[i].task # rq.current
    BY <1>1, Caller, NoTaskIsNone, EmptyRecords
  <1>3. w = [i \in WaiterSlots |-> w[i]]
    OBVIOUS
  <1> QED BY <1>2, <1>3 DEF Released

-----------------------------------------------------------------------------
(* The threads take the scheduler's steps. *)

(* Every step of the threads is a step of Scheduler, or leaves it alone.   *)
LEMMA StepImplements == TInv /\ [ThreadNext]_allVars => [Next]_vars
  <1> SUFFICES ASSUME TInv, ThreadNext PROVE Next
    BY DEF allVars, vars
  <1>1. CASE RegisterMain
    BY <1>1 DEF RegisterMain, Next
  <1>2. CASE StartMain
    BY <1>2 DEF StartMain, Next
  <1>3. CASE Cleanup \/ MainExit
    BY <1>3 DEF Cleanup, MainExit, Finish, Next
  <1>4. ASSUME NEW a, Clone(a) PROVE Next
    BY <1>4 DEF Clone, Next
  <1>5. ASSUME NEW n \in Requests, Nanosleep(n) PROVE Next
    BY <1>5 DEF Nanosleep, Next
  <1>6. ASSUME NEW a, FutexWait(a) PROVE Next
    BY <1>6 DEF FutexWait, Next
  <1>7. ASSUME NEW a, NEW n \in Requests, FutexTimedWait(a, n) PROVE Next
    BY <1>7, ThreadsAssumption DEF FutexTimedWait, Next
  <1>8. ASSUME NEW a \in Addresses, FutexWake(a) PROVE Next
    <2>1. PICK i \in WaitersAt(a) :
            /\ sleepq' = CancelTimeout(i)
            /\ rq' = WakeWithResult(rq, waiters[i].task)
      BY <1>8 DEF FutexWake
    <2>2. i \in WaiterSlots /\ Active(i) /\ rq.active /\ tick' = tick
      BY <1>8, <2>1, ThreadsAssumption DEF WaitersAt, Active, Addresses, FutexWake
    <2>3. waiters[i].task \in Tasks /\ WakeWaiter(waiters[i].task)
      BY <2>1, <2>2, Caller, WakeableWaiter DEF WakeWaiter
    <2> QED BY <2>3 DEF Next
  <1>9. CASE ThreadExit
    <2>1. CASE Exit
      BY <2>1 DEF Next
    <2>2. ASSUME NEW i \in Joiners(rq.current),
                 sleepq' = CancelTimeout(i),
                 rq' = OnExit(WakeWithResult(rq, waiters[i].task)),
                 UNCHANGED tick
          PROVE  Next
      <3>1. i \in WaiterSlots /\ Active(i) /\ rq.active
        BY <1>9, <2>2 DEF Joiners, WaitersAt, Active, ThreadExit
      <3>2. /\ waiters[i].task \in Tasks
            /\ ExitWaking(waiters[i].task)
        BY <2>2, <3>1, Caller, WakeableWaiter, ThreadsAssumption DEF ExitWaking
      <3> QED BY <3>2 DEF Next
    <2> QED BY <1>9, <2>1, <2>2 DEF ThreadExit
  <1>10. CASE Timer
    BY <1>10 DEF Timer, Next
  <1> QED
    BY <1>1, <1>2, <1>3, <1>4, <1>5, <1>6, <1>7, <1>8, <1>9, <1>10 DEF ThreadNext

-----------------------------------------------------------------------------
(* The tables, for the kinds of steps there are. *)

(* A step that clears the waiters in W, whose tasks it wakes, and some     *)
(* sleep entries, among them the timeouts of W and of no other waiter, and *)
(* that enlists nobody.                                                    *)
Clears(W) ==
  /\ waiters' = [i \in WaiterSlots |-> IF i \in W THEN NoWaiter ELSE waiters[i]]
  /\ cookie' = Cookies(sleepq')
  /\ \A e \in Tasks : sleepq'[e] = sleepq[e] \/ sleepq'[e] = Idle
  /\ \A e \in Tasks : cookie[e] \in W => sleepq'[e] = Idle
  /\ \A e \in Tasks : cookie[e] # 0 /\ cookie[e] \notin W => sleepq'[e] = sleepq[e]
  /\ \A i \in WaiterSlots \ W :
       Active(i) => rq'.state[waiters[i].task] = "blocked"
  /\ \A i \in W : Active(i) => rq'.state[waiters[i].task] \in {"ready", "running"}

(* Such a step keeps the tables agreeing, if the words that the remaining  *)
(* waiters wait for still have their threads.                              *)
LEMMA ClearingKeeps ==
  ASSUME TInv, main # NoTask, NEW W \in SUBSET WaiterSlots, Clears(W),
         \A i \in WaiterSlots \ W : Active(i) /\ waiters[i].address \in TidWords =>
                                     HasThread(waiters[i].address)'
  PROVE  /\ waiters' \in [WaiterSlots -> WaiterRecords]
         /\ cookie' \in [Tasks -> 0 .. WaiterLimit]
         /\ TablesOK' /\ FutexBooks'
  <1>1. /\ waiters \in [WaiterSlots -> WaiterRecords]
        /\ cookie \in [Tasks -> 0 .. WaiterLimit]
        /\ WaiterLimit \in Nat
    BY ThreadsAssumption DEF TInv, ThreadTypes
  <1>2. /\ \A i \in WaiterSlots : waiters'[i] = IF i \in W THEN NoWaiter
                                                            ELSE waiters[i]
        /\ waiters' \in [WaiterSlots -> WaiterRecords]
    BY <1>1, EmptyRecords DEF Clears
  <1>3. /\ \A e \in Tasks : cookie'[e] = IF sleepq'[e] = Idle THEN 0 ELSE cookie[e]
        /\ cookie' \in [Tasks -> 0 .. WaiterLimit]
    BY SMTT(20), <1>1 DEF Clears, Cookies
  <1>4. \A i \in WaiterSlots : Active(i)' => /\ i \notin W /\ Active(i)
                                             /\ waiters'[i] = waiters[i]
    BY <1>2, EmptyRecords DEF Active
  <1>5. TablesOK'
    BY <1>2, <1>3, <1>4 DEF TInv, TablesOK, Active
  <1>6. ASSUME NEW e \in Tasks PROVE EntryAgrees(e)'
    <2>1. CASE sleepq'[e] = Idle
      BY <1>3, <2>1, EmptyRecords DEF EntryAgrees
    <2>2. CASE sleepq'[e] # Idle
      <3>1. sleepq'[e] = sleepq[e] /\ cookie'[e] = cookie[e] /\ cookie[e] \notin W
        BY <1>3, <2>2 DEF Clears
      <3>2. EntryAgrees(e)
        BY DEF TInv, FutexBooks
      <3>3. cookie[e] # 0 => cookie[e] \in WaiterSlots
        BY SMTT(20), <1>1 DEF WaiterSlots
      <3> QED BY <1>2, <3>1, <3>2, <3>3 DEF EntryAgrees
    <2> QED BY <2>1, <2>2
  <1>7. ASSUME NEW i \in WaiterSlots, Active(i)' PROVE WaiterAgrees(i)'
    <2>1. /\ i \notin W /\ i # 0 /\ Active(i) /\ waiters'[i] = waiters[i]
          /\ waiters[i].task \in Tasks /\ WaiterAgrees(i)
      BY SMTT(20), <1>4, <1>7 DEF TInv, TablesOK, FutexBooks, WaiterSlots
    <2>2. \A e \in Tasks : cookie'[e] = i <=> cookie[e] = i
      <3> TAKE e \in Tasks
      <3>1. cookie[e] = i => sleepq'[e] = sleepq[e] /\ sleepq[e] # Idle
        BY <2>1 DEF TInv, TablesOK, Clears
      <3> QED BY <1>3, <2>1, <3>1
    <2>3. \A e \in Tasks : sleepq'[e].task = waiters[i].task => cookie'[e] = i
      BY SMTT(20), <2>1, <2>2, EmptyRecords, NoTaskIsNone DEF WaiterAgrees, Clears
    <2> QED BY <2>1, <2>2, <2>3 DEF WaiterAgrees, Clears
  <1>8. \A i, j \in WaiterSlots : Active(i)' /\ Active(j)' /\ i # j =>
          /\ waiters'[i].task # waiters'[j].task
          /\ waiters'[i].address # waiters'[j].address
    BY <1>4 DEF TInv, FutexBooks
  <1> QED BY <1>2, <1>3, <1>5, <1>6, <1>7, <1>8 DEF FutexBooks

(* While no entry changes, no cookie does. *)
LEMMA CookiesKept ==
  ASSUME TInv
  PROVE  Cookies(sleepq) = cookie
  <1>1. cookie = [e \in Tasks |-> cookie[e]]
    BY DEF TInv, ThreadTypes
  <1>2. \A e \in Tasks : cookie[e] = IF sleepq[e] = Idle THEN 0 ELSE cookie[e]
    BY DEF TInv, TablesOK
  <1> QED BY <1>1, <1>2 DEF Cookies

(* A step that leaves the tables alone and wakes nobody clears nothing. *)
LEMMA QuietClears ==
  ASSUME TInv, main # NoTask, UNCHANGED <<sleepq, waiters, cookie>>,
         StaysBlocked(rq, rq', Tasks)
  PROVE  Clears({})
  <1>1. waiters = [i \in WaiterSlots |-> waiters[i]]
    BY DEF TInv, ThreadTypes
  <1>2. cookie = Cookies(sleepq)
    BY CookiesKept
  <1>3. \A i \in WaiterSlots : Active(i) => rq'.state[waiters[i].task] = "blocked"
    BY DEF TInv, TablesOK, FutexBooks, WaiterAgrees, StaysBlocked
  <1> QED BY <1>1, <1>2, <1>3 DEF Clears

(* The cookie of an entry names an active waiter of the entry's task. *)
LEMMA CookieNames ==
  ASSUME TInv, main # NoTask, NEW e \in Tasks, cookie[e] # 0
  PROVE  /\ cookie[e] \in WaiterSlots /\ Active(cookie[e])
         /\ waiters[cookie[e]].task = sleepq[e].task
         /\ waiters[cookie[e]].timed
  <1>1. cookie[e] \in WaiterSlots /\ sleepq[e] # Idle
    BY SMTT(20), ThreadsAssumption DEF TInv, ThreadTypes, TablesOK, WaiterSlots
  <1>2. waiters[cookie[e]].task = sleepq[e].task
    BY DEF TInv, FutexBooks, EntryAgrees
  <1>3. sleepq[e].task \in Tasks
    BY <1>1 DEF TInv, IInv, SleepersAreTasks
  <1>4. Active(cookie[e])
    BY <1>1, <1>2, <1>3, EmptyRecords, NoTaskIsNone DEF TInv, TablesOK
  <1>5. WaiterAgrees(cookie[e])
    BY <1>1, <1>4 DEF TInv, FutexBooks
  <1> QED BY <1>1, <1>2, <1>4, <1>5 DEF WaiterAgrees

(* A wake clears one waiter and its timeout. *)
LEMMA WakeClears ==
  ASSUME TInv, main # NoTask, NEW i \in WaiterSlots, Active(i),
         sleepq' = CancelSleep(waiters[i].task), cookie' = Cookies(sleepq'),
         waiters' = [waiters EXCEPT ![i] = NoWaiter],
         StaysBlocked(rq, rq', Tasks \ {waiters[i].task}),
         rq'.state[waiters[i].task] \in {"ready", "running"}
  PROVE  Clears({i})
  <1> DEFINE t == waiters[i].task
  <1>1. waiters' = [j \in WaiterSlots |-> IF j \in {i} THEN NoWaiter ELSE waiters[j]]
    BY DEF TInv, ThreadTypes
  <1>2. \A j \in WaiterSlots \ {i} : Active(j) =>
          /\ waiters[j].task \in Tasks /\ waiters[j].task # t
          /\ rq.state[waiters[j].task] = "blocked"
    BY DEF TInv, TablesOK, FutexBooks, WaiterAgrees
  <1>3. \A e \in Tasks : sleepq'[e] = IF sleepq[e].task = t THEN Idle ELSE sleepq[e]
    BY DEF CancelSleep
  <1>4. \A e \in Tasks : cookie[e] # 0 =>
          /\ cookie[e] \in WaiterSlots /\ Active(cookie[e])
          /\ waiters[cookie[e]].task = sleepq[e].task
    BY CookieNames
  <1>5. \A e \in Tasks : cookie[e] # 0 /\ cookie[e] # i => sleepq[e].task # t
    BY ZenonT(60), <1>2, <1>4
  <1>6. \A e \in Tasks : cookie[e] = i => sleepq[e].task = t
    BY SMTT(20), <1>4 DEF WaiterSlots
  <1>7. \A j \in WaiterSlots \ {i} :
          Active(j) => rq'.state[waiters[j].task] = "blocked"
    BY <1>2 DEF StaysBlocked
  <1> QED BY <1>1, <1>3, <1>5, <1>6, <1>7 DEF Clears

(* A caller that blocks still is a thread that has yet to exit. *)
LEMMA BlockKeepsWords ==
  ASSUME TInv, CanBlock(rq), rq' = BlockAndSwitch(rq), tid' = tid, NEW a,
         HasThread(a)
  PROVE  HasThread(a)'
  <1>1. /\ StaysBlocked(rq, rq', Tasks)
        /\ StaysRunnable(rq, rq', Tasks \ {rq.current})
        /\ rq'.state[rq.current] = "blocked"
    BY BlockKeeps DEF TInv, IInv
  <1> QED BY <1>1 DEF HasThread, StaysBlocked, StaysRunnable

(* A futex wait adds the caller's waiter, in a slot that was free, and for *)
(* a timed wait the entries in N, which name that waiter.                  *)
LEMMA EnlistingKeeps ==
  ASSUME TInv, NEW a \in Addresses, MayWait(a), NEW timed \in BOOLEAN,
         CanBlock(rq), rq' = BlockAndSwitch(rq),
         waiters' = Enlisted(a, timed), tid' = tid, main' = main,
         NEW N \in SUBSET Tasks, timed <=> N # {},
         \A e \in N : /\ sleepq[e] = Idle /\ cookie'[e] = Min(FreeWaiters)
                       /\ sleepq'[e].task = rq.current
                       /\ sleepq'[e].timed = TRUE,
         \A e \in Tasks \ N : sleepq'[e] = sleepq[e] /\ cookie'[e] = cookie[e]
  PROVE  /\ waiters' \in [WaiterSlots -> WaiterRecords]
         /\ TablesOK' /\ FutexBooks'
  <1> DEFINE cur == rq.current
             new == [task |-> cur, address |-> a, timed |-> timed,
                     pending |-> FALSE]
  <1>1. /\ waiters \in [WaiterSlots -> WaiterRecords]
        /\ cookie \in [Tasks -> 0 .. WaiterLimit]
        /\ WaiterLimit \in Nat
    BY ThreadsAssumption DEF TInv, ThreadTypes
  <1>2. PICK k \in WaiterSlots :
             k = Min(FreeWaiters) /\ k # 0 /\ waiters[k] = NoWaiter
    <2>1. FreeWaiters \in SUBSET Nat
      BY SMTT(20), <1>1 DEF FreeWaiters, WaitersAt, WaiterSlots
    <2>2. Min(FreeWaiters) \in FreeWaiters
      BY <2>1, MinMember DEF MayWait
    <2>3. Min(FreeWaiters) \in WaiterSlots /\ ~Active(Min(FreeWaiters))
      BY <2>2 DEF FreeWaiters, WaitersAt, Active
    <2>4. waiters[Min(FreeWaiters)] = NoWaiter
      BY <2>3 DEF TInv, TablesOK
    <2> QED BY SMTT(20), <1>1, <2>3, <2>4 DEF WaiterSlots
  <1>3. cur \in Tasks /\ rq.state[cur] = "running" /\ main # NoTask
    BY Caller DEF MayWait
  <1>4. /\ StaysBlocked(rq, rq', Tasks) /\ rq'.state[cur] = "blocked"
    BY BlockKeeps DEF TInv, IInv
  <1>5. /\ new \in WaiterRecords /\ new.address = a /\ a # NoAddress
        /\ new.task = cur /\ ~new.pending /\ new.timed = timed
    BY <1>3, ThreadsAssumption DEF WaiterRecords, Addresses
  <1> HIDE DEF new
  <1>6. waiters' = [waiters EXCEPT ![k] = new]
    BY <1>2 DEF Enlisted, new
  <1>7. /\ waiters' \in [WaiterSlots -> WaiterRecords]
        /\ waiters'[k] = new
        /\ \A i \in WaiterSlots \ {k} : waiters'[i] = waiters[i]
    BY <1>1, <1>2, <1>5, <1>6
  <1>8. /\ \A i \in WaiterSlots : Active(i) => i # k /\ waiters[i].address # a
        /\ \A i \in WaiterSlots : Active(i) => /\ waiters[i].task \in Tasks
                                               /\ waiters[i].task # cur
                                               /\ WaiterAgrees(i)
    BY ZenonT(60), <1>2, <1>3, EmptyRecords
       DEF Active, MayWait, WaitersAt, TInv, TablesOK, FutexBooks, WaiterAgrees
  <1>9. \A i \in WaiterSlots : Active(i)' <=> i = k \/ Active(i)
    BY <1>2, <1>5, <1>7, <1>8 DEF Active
  <1>10. \A e \in Tasks : sleepq[e].task # cur /\ cookie[e] # k /\ EntryAgrees(e)
    <2> TAKE e \in Tasks
    <2>1. EntryAgrees(e)
      BY <1>3 DEF TInv, FutexBooks
    <2>2. sleepq[e].task # cur
      BY SMTT(20), <1>3, EmptyRecords, NoTaskIsNone DEF TInv, IInv, SleepersBlocked
    <2>3. cookie[e] # k
      <3> SUFFICES ASSUME cookie[e] = k PROVE FALSE
        OBVIOUS
      <3>1. sleepq[e] # Idle
        BY <1>2 DEF TInv, TablesOK
      <3>2. sleepq[e].task \in Tasks /\ sleepq[e].task = NoTask
        BY <1>2, <2>1, <3>1, EmptyRecords DEF EntryAgrees, TInv, IInv, SleepersAreTasks
      <3> QED BY <3>2, NoTaskIsNone
    <2> QED BY <2>1, <2>2, <2>3
  <1>11. \A e \in N : /\ cookie'[e] = k /\ cookie[e] = 0 /\ sleepq'[e] # Idle
                      /\ sleepq'[e].task = cur /\ sleepq'[e].timed = TRUE
    BY ZenonT(60), <1>2, <1>3, EmptyRecords, NoTaskIsNone DEF TInv, TablesOK
  <1>12. TablesOK'
    BY SMTT(20), <1>3, <1>5, <1>7, <1>8, <1>9, <1>11 DEF TInv, TablesOK, Active
  <1>13. ASSUME NEW e \in Tasks PROVE EntryAgrees(e)'
    <2>1. CASE e \in N
      BY <1>2, <1>5, <1>7, <1>11, <2>1 DEF EntryAgrees
    <2>2. CASE e \notin N
      <3>1. cookie[e] # 0 => cookie[e] \in WaiterSlots \ {k}
        BY SMTT(20), <1>1, <1>10 DEF WaiterSlots
      <3> QED BY SMTT(20), <1>7, <1>10, <2>2, <3>1 DEF EntryAgrees
    <2> QED BY <2>1, <2>2
  <1>14. ASSUME NEW i \in WaiterSlots, Active(i), i # k PROVE WaiterAgrees(i)'
    <2>1. WaiterAgrees(i) /\ waiters[i].task \in Tasks \ {cur}
          /\ waiters'[i] = waiters[i]
      BY <1>7, <1>8, <1>14
    <2>2. \A e \in Tasks : cookie'[e] = i <=> cookie[e] = i
      BY SMTT(20), <1>11, <1>14, <2>1 DEF WaiterSlots
    <2>3. \A e \in Tasks : sleepq'[e].task = waiters[i].task => cookie'[e] = i
      BY <1>11, <2>1, <2>2 DEF WaiterAgrees
    <2>4. rq'.state[waiters[i].task] = "blocked"
      BY <1>4, <2>1 DEF StaysBlocked, WaiterAgrees
    <2>5. waiters[i].address \in TidWords => HasThread(waiters[i].address)'
      BY <2>1, BlockKeepsWords DEF WaiterAgrees
    <2> QED BY ZenonT(60), <2>1, <2>2, <2>3, <2>4, <2>5 DEF WaiterAgrees
  <1>15. WaiterAgrees(k)'
    <2>1. a \in TidWords => HasThread(a)'
      BY <1>3, BlockKeepsWords DEF MayWait, TInv, WordsOK
    <2>2. timed <=> \E e \in Tasks : cookie'[e] = k
      BY <1>10, <1>11
    <2>3. \A e \in Tasks : sleepq'[e].task = cur => cookie'[e] = k
      BY <1>10, <1>11
    <2> QED BY ZenonT(60), <1>4, <1>5, <1>7, <2>1, <2>2, <2>3 DEF WaiterAgrees
  <1>16. \A i, j \in WaiterSlots : Active(i)' /\ Active(j)' /\ i # j =>
          /\ waiters'[i].task # waiters'[j].task
          /\ waiters'[i].address # waiters'[j].address
    BY SMTT(20), <1>3, <1>5, <1>7, <1>8, <1>9 DEF TInv, FutexBooks
  <1> QED BY <1>7, <1>9, <1>12, <1>13, <1>14, <1>15, <1>16 DEF FutexBooks

-----------------------------------------------------------------------------
(* What each action that clears waiters does. *)

(* FUTEX_WAKE: the waiter at the word is cleared, and its task is ready. *)
LEMMA FutexWakeClears ==
  ASSUME TInv, NEW a \in Addresses, FutexWake(a)
  PROVE  /\ \E W \in SUBSET WaiterSlots : Clears(W)
         /\ \A b : HasThread(b) => HasThread(b)'
  <1>1. PICK i \in WaitersAt(a) :
          /\ sleepq' = CancelTimeout(i)
          /\ rq' = WakeWithResult(rq, waiters[i].task)
          /\ waiters' = AfterWake(i)
          /\ cookie' = Cookies(sleepq')
    BY DEF FutexWake
  <1> DEFINE t == waiters[i].task
  <1>2. i \in WaiterSlots /\ Active(i) /\ main # NoTask /\ tid' = tid
    BY <1>1, Caller, ThreadsAssumption
       DEF WaitersAt, Active, Addresses, FutexWake
  <1>3. /\ t \in Tasks /\ rq.state[t] = "blocked"
        /\ sleepq' = CancelSleep(t)
        /\ waiters' = [waiters EXCEPT ![i] = NoWaiter]
    BY <1>1, <1>2, WakeableWaiter
  <1>4. /\ StaysBlocked(rq, rq', Tasks \ {t}) /\ StaysRunnable(rq, rq', Tasks)
        /\ rq'.state[t] = "ready"
    BY <1>1, <1>3, WakeKeeps DEF TInv, IInv
  <1>5. Clears({i})
    BY <1>1, <1>2, <1>3, <1>4, WakeClears
  <1>6. \A b : HasThread(b) => HasThread(b)'
    BY <1>2, <1>4 DEF HasThread, StaysBlocked, StaysRunnable
  <1> QED BY <1>2, <1>5, <1>6

(* The exit of a thread: whoever waits for its word is cleared and can     *)
(* run, and the other threads' words keep their threads.                   *)
LEMMA ThreadExitClears ==
  ASSUME TInv, ThreadExit
  PROVE  \E W \in SUBSET WaiterSlots :
           /\ Clears(W)
           /\ \A i \in WaiterSlots \ W :
                Active(i) => waiters[i].address # tid[rq.current]
           /\ \A b : HasThread(b) /\ b # tid[rq.current] => HasThread(b)'
  <1> DEFINE cur == rq.current
  <1>1. /\ rq.active /\ cur \in Tasks /\ rq.state[cur] = "running"
        /\ main # NoTask /\ QueueOK(rq) /\ Runner(rq)
        /\ tid \in [Tasks -> TidWords \cup {NoAddress}]
        /\ waiters \in [WaiterSlots -> WaiterRecords]
    BY Caller DEF ThreadExit, TInv, IInv, ThreadTypes
  <1>2. \A t \in Tasks \ {cur} : tid'[t] = tid[t]
    BY <1>1 DEF ThreadExit
  <1>3. CASE Joiners(cur) = {} /\ Exit /\ waiters' = Released(waiters, cur)
    <2>1. /\ StaysBlocked(rq, rq', Tasks)
          /\ StaysRunnable(rq, rq', Tasks \ {cur})
      BY <1>1, <1>3, ExitKeeps DEF Exit
    <2>2. waiters' = waiters
      BY <1>1, <1>3, NoneReleased
    <2>3. cookie' = cookie /\ sleepq' = sleepq
      BY <1>3, CookiesKept DEF Exit, ThreadExit
    <2>4. Clears({})
      BY <1>1, <2>1, <2>2, <2>3, QuietClears
    <2>5. \A i \in WaiterSlots : Active(i) => waiters[i].address # tid[cur]
      BY <1>3 DEF Joiners, WaitersAt, Active
    <2>6. \A b : HasThread(b) /\ b # tid[cur] => HasThread(b)'
      BY <1>2, <2>1 DEF HasThread, StaysBlocked, StaysRunnable
    <2> QED BY <2>4, <2>5, <2>6
  <1>4. ASSUME NEW i \in Joiners(cur),
               sleepq' = CancelTimeout(i),
               rq' = OnExit(WakeWithResult(rq, waiters[i].task)),
               waiters' = Released(AfterWake(i), cur)
        PROVE  /\ i \in WaiterSlots /\ Clears({i})
               /\ \A j \in WaiterSlots \ {i} :
                     Active(j) => waiters[j].address # tid[cur]
               /\ \A b : HasThread(b) /\ b # tid[cur] => HasThread(b)'
    <2> DEFINE t == waiters[i].task
               w == WakeWithResult(rq, t)
    <2>1. i \in WaiterSlots /\ Active(i) /\ waiters[i].address = tid[cur]
      BY <1>4 DEF Joiners, WaitersAt, Active
    <2>2. /\ t \in Tasks /\ rq.state[t] = "blocked" /\ t # cur
          /\ sleepq' = CancelSleep(t)
          /\ AfterWake(i) = [waiters EXCEPT ![i] = NoWaiter]
      BY <1>1, <1>4, <2>1, WakeableWaiter
    <2>3. waiters' = [waiters EXCEPT ![i] = NoWaiter]
      BY ZenonT(60), <1>1, <1>4, <2>1, <2>2, NoneReleased, EmptyRecords
    <2>4. /\ QueueOK(w) /\ Runner(w) /\ w.active /\ w.current = cur
          /\ StaysBlocked(rq, w, Tasks \ {t}) /\ StaysRunnable(rq, w, Tasks)
          /\ w.state[t] = "ready"
      BY ZenonT(60), <1>1, <2>2, WakeKeeps
    <2>5. rq' = OnExit(w)
      BY <1>4
    <2> HIDE DEF w
    <2>6. /\ StaysBlocked(w, rq', Tasks)
          /\ StaysRunnable(w, rq', Tasks \ {cur})
      BY <2>4, <2>5, ExitKeeps
    <2>7. /\ StaysBlocked(rq, rq', Tasks \ {t})
          /\ StaysRunnable(rq, rq', Tasks \ {cur})
          /\ rq'.state[t] \in {"ready", "running"}
      BY <2>2, <2>4, <2>6 DEF StaysBlocked, StaysRunnable
    <2>8. Clears({i})
      BY <1>1, <2>1, <2>2, <2>3, <2>7, WakeClears DEF ThreadExit
    <2>9. \A j \in WaiterSlots \ {i} : Active(j) => waiters[j].address # tid[cur]
      BY <1>1, <2>1 DEF TInv, FutexBooks
    <2>10. \A b : HasThread(b) /\ b # tid[cur] => HasThread(b)'
      BY <1>2, <2>7 DEF HasThread, StaysBlocked, StaysRunnable
    <2> QED BY <2>1, <2>8, <2>9, <2>10
  <1> QED BY <1>3, <1>4 DEF ThreadExit

(* The timer: the waiters cleared are those whose timeout has expired. *)
LEMMA TimerClears ==
  ASSUME TInv, main # NoTask, Timer
  PROVE  /\ \E W \in SUBSET WaiterSlots : Clears(W)
         /\ \A b : HasThread(b) => HasThread(b)'
  <1>1. CASE ~(TimerDriven /\ rq.active)
    <2>1. UNCHANGED <<rq, sleepq, waiters, tid>> /\ cookie' = Cookies(sleepq)
      BY <1>1 DEF Timer, TimerInterrupt
    <2>2. cookie' = cookie
      BY <2>1, CookiesKept
    <2>3. Clears({})
      BY <2>1, <2>2, QuietClears DEF StaysBlocked
    <2> QED BY <2>1, <2>3 DEF HasThread
  <1>2. CASE TimerDriven /\ rq.active
    <2> DEFINE now == tick'
               W == TimedOut(now)
    <2>1. /\ rq' = SwitchOnTimer(WakeExpired(Preempt(rq), now))
          /\ sleepq' = [e \in Tasks |-> IF e \in Expired(now) THEN Idle ELSE sleepq[e]]
          /\ waiters' = [i \in WaiterSlots |-> IF i \in W THEN NoWaiter ELSE waiters[i]]
          /\ cookie' = Cookies(sleepq') /\ tid' = tid
      BY <1>2 DEF Timer, TimerInterrupt, OnTimer
    <2>2. /\ StaysBlocked(rq, rq', {t \in Tasks : ~Waking(now, t)})
          /\ StaysRunnable(rq, rq', Tasks)
          /\ \A t \in Tasks : rq.state[t] = "blocked" /\ Waking(now, t) =>
                              rq'.state[t] \in {"ready", "running"}
      BY <1>2, <2>1, TimerMoves DEF TInv
    <2>3. \A e \in Tasks : cookie[e] # 0 => (cookie[e] \in W <=> e \in Expired(now))
      <3> SUFFICES ASSUME NEW e \in Tasks, cookie[e] # 0
                   PROVE  cookie[e] \in W <=> e \in Expired(now)
        OBVIOUS
      <3>1. CASE e \in Expired(now)
        BY <3>1, CookieNames DEF TimedOut
      <3>2. CASE cookie[e] \in W
        <4>1. PICK x \in Expired(now) : cookie[x] = cookie[e]
          BY <3>2 DEF TimedOut
        <4>2. sleepq[x].task = sleepq[e].task /\ x \in Tasks /\ sleepq[e] # Idle
          BY ZenonT(60), <4>1, CookieNames DEF Expired, TInv, TablesOK
        <4>3. x = e
          BY <4>2 DEF TInv, IInv, SleepersBlocked
        <4> QED BY <3>2, <4>1, <4>3
      <3> QED BY <3>1, <3>2
    <2>4. W \in SUBSET WaiterSlots
      BY CookieNames DEF TimedOut, Expired
    <2>5. 0 \notin W
      BY DEF TimedOut
    <2>6. ASSUME NEW i \in WaiterSlots, Active(i)
          PROVE  /\ waiters[i].task \in Tasks
                 /\ rq.state[waiters[i].task] = "blocked"
                 /\ i \in W <=> Waking(now, waiters[i].task)
      <3>1. WaiterAgrees(i) /\ waiters[i].task \in Tasks /\ i # 0
        BY SMTT(20), <2>6 DEF TInv, FutexBooks, TablesOK, WaiterSlots
      <3>2. CASE i \in W
        <4>1. PICK x \in Expired(now) : cookie[x] = i /\ cookie[x] # 0
          BY <3>2 DEF TimedOut
        <4>2. x \in Tasks /\ sleepq[x].task = waiters[i].task
          BY <4>1, CookieNames DEF Expired
        <4> QED BY <3>1, <3>2, <4>1, <4>2 DEF Waking, WaiterAgrees
      <3>3. CASE Waking(now, waiters[i].task)
        <4>1. PICK x \in Expired(now) : sleepq[x].task = waiters[i].task
          BY <3>3 DEF Waking
        <4>2. x \in Tasks /\ cookie[x] = i
          BY <3>1, <4>1 DEF Expired, WaiterAgrees
        <4> QED BY <2>3, <3>1, <3>3, <4>1, <4>2 DEF WaiterAgrees
      <3> QED BY <3>1, <3>2, <3>3 DEF WaiterAgrees
    <2> HIDE DEF W
    <2>7. \A i \in WaiterSlots \ W :
            Active(i) => rq'.state[waiters[i].task] = "blocked"
      BY <2>2, <2>6 DEF StaysBlocked
    <2>8. \A i \in W :
            Active(i) => rq'.state[waiters[i].task] \in {"ready", "running"}
      BY <2>2, <2>4, <2>6
    <2>9. Clears(W)
      BY <2>1, <2>3, <2>5, <2>7, <2>8 DEF Clears
    <2>10. \A b : HasThread(b) => HasThread(b)'
      BY <2>1, <2>2 DEF HasThread, StaysBlocked, StaysRunnable
    <2> QED BY <2>4, <2>9, <2>10
  <1> QED BY <1>1, <1>2

-----------------------------------------------------------------------------
(* The invariant. *)

(* The invariant holds before a program is started. *)
LEMMA ThreadInitHolds == ThreadInit => TInv
  <1> SUFFICES ASSUME ThreadInit PROVE TInv
    OBVIOUS
  <1>1. IInv /\ rq = EmptyQueue
    BY InitHolds DEF ThreadInit, Init
  <1>2. ThreadTypes
    BY EmptyRecords, ThreadsAssumption DEF ThreadInit, ThreadTypes
  <1>3. TablesOK
    BY EmptyRecords DEF ThreadInit, TablesOK, Active
  <1> QED BY <1>1, <1>2, <1>3 DEF ThreadInit, TInv, FutexBooks, WordsOK

(* Steps that clear waiters and change no word. *)
LEMMA ClearingHolds ==
  ASSUME TInv, IInv', main # NoTask, UNCHANGED <<main, tid, word>>,
         \E W \in SUBSET WaiterSlots : Clears(W),
         \A b : HasThread(b) => HasThread(b)'
  PROVE  TInv'
  <1>1. PICK W \in SUBSET WaiterSlots : Clears(W)
    OBVIOUS
  <1>2. \A i \in WaiterSlots \ W : waiters'[i] = waiters[i]
    BY <1>1 DEF Clears
  <1>3. \A i \in WaiterSlots \ W : Active(i) /\ waiters[i].address \in TidWords =>
                                   HasThread(waiters[i].address)'
    BY <1>2 DEF TInv, FutexBooks, WaiterAgrees
  <1>4. /\ waiters' \in [WaiterSlots -> WaiterRecords]
        /\ cookie' \in [Tasks -> 0 .. WaiterLimit]
        /\ TablesOK' /\ FutexBooks'
    BY <1>1, <1>3, ClearingKeeps
  <1>5. WordsOK'
    BY DEF TInv, WordsOK
  <1> QED BY <1>4, <1>5 DEF TInv, ThreadTypes

(* A caller that is refused leaves only a forgotten preference behind. *)
LEMMA RefusedHolds ==
  ASSUME TInv, IInv', main # NoTask, rq' = rq \/ rq' = Forget(rq),
         UNCHANGED <<sleepq, threadVars>>
  PROVE  TInv'
  <1>1. rq'.state = rq.state
    BY ForgetKeeps DEF TInv, IInv
  <1>2. Clears({})
    BY <1>1, QuietClears DEF StaysBlocked, threadVars
  <1>3. \A b : HasThread(b) => HasThread(b)'
    BY <1>1 DEF HasThread, threadVars
  <1> QED BY <1>2, <1>3, ClearingHolds DEF threadVars

(* Starting the program, and clone. *)
LEMMA StartMainHolds ==
  ASSUME TInv, IInv', StartMain
  PROVE  TInv'
  <1>1. /\ main # NoTask /\ UNCHANGED <<sleepq, threadVars>>
        /\ StaysBlocked(rq, rq', Tasks) /\ StaysRunnable(rq, rq', Tasks)
    BY StartKeeps, NoTaskIsNone DEF StartMain, Start, TInv, IInv
  <1>2. Clears({})
    BY <1>1, QuietClears DEF threadVars
  <1>3. \A b : HasThread(b) => HasThread(b)'
    BY <1>1 DEF HasThread, StaysBlocked, StaysRunnable, threadVars
  <1> QED BY <1>1, <1>2, <1>3, ClearingHolds DEF threadVars

\* A clone enters a fresh task: no waiter names it yet, whether its tid word is
\* one that threads join on or not.
LEMMA CloneHolds ==
  ASSUME TInv, IInv', NEW a \in TidWords \cup {NoAddress}, Clone(a)
  PROVE  TInv'
  <1> DEFINE s == AllocateSlot(rq)
  <1>1. /\ main # NoTask /\ UNCHANGED <<main, sleepq, waiters, cookie>>
        /\ s < TaskLimit /\ rq' = RegisterTask(rq, s)
        /\ tid' = [tid EXCEPT ![s] = a]
        /\ word' = [w \in TidWords |-> w = a \/ word[w]]
        /\ tid \in [Tasks -> TidWords \cup {NoAddress}]
    BY Caller DEF Clone, Register, TInv, ThreadTypes
  <1>2. s \in Tasks /\ rq.state[s] \in {"unused", "exited"}
    BY <1>1, SlotIsFree DEF TInv, IInv
  <1>3. /\ StaysBlocked(rq, rq', Tasks) /\ StaysRunnable(rq, rq', Tasks)
        /\ rq'.state[s] = "ready"
    BY <1>1, RegisterKeeps DEF TInv, IInv
  <1> HIDE DEF s
  <1>4. Clears({})
    BY <1>1, <1>3, QuietClears
  <1>5. \A b : HasThread(b) => HasThread(b)'
    BY <1>1, <1>2, <1>3 DEF HasThread, StaysBlocked, StaysRunnable
  <1>6. HasThread(a)'
    BY <1>1, <1>2, <1>3 DEF HasThread
  <1>7. \A i \in WaiterSlots : Active(i) /\ waiters[i].address \in TidWords =>
                               HasThread(waiters[i].address)'
    BY <1>1, <1>5 DEF TInv, FutexBooks, WaiterAgrees
  <1>8. /\ waiters' \in [WaiterSlots -> WaiterRecords]
        /\ cookie' \in [Tasks -> 0 .. WaiterLimit]
        /\ TablesOK' /\ FutexBooks'
    BY <1>1, <1>4, <1>7, ClearingKeeps
  <1>9. \A b \in TidWords : word'[b] => HasThread(b)'
    BY <1>1, <1>5, <1>6 DEF TInv, WordsOK
  <1>10. ThreadTypes'
    BY <1>1, <1>2, <1>8 DEF TInv, ThreadTypes
  <1> QED BY <1>1, <1>8, <1>9, <1>10 DEF TInv, WordsOK

(* The exit of a thread. *)
LEMMA ThreadExitHolds ==
  ASSUME TInv, IInv', ThreadExit
  PROVE  TInv'
  <1> DEFINE cur == rq.current
  <1>1. PICK W \in SUBSET WaiterSlots :
           /\ Clears(W)
           /\ \A i \in WaiterSlots \ W : Active(i) => waiters[i].address # tid[cur]
           /\ \A b : HasThread(b) /\ b # tid[cur] => HasThread(b)'
    BY ThreadExitClears
  <1>2. /\ main # NoTask /\ main' = main /\ cur \in Tasks
        /\ tid' = [tid EXCEPT ![cur] = NoAddress]
        /\ word' = [a \in TidWords |-> a # tid[cur] /\ word[a]]
    BY Caller DEF ThreadExit
  <1>3. \A i \in WaiterSlots \ W : waiters'[i] = waiters[i]
    BY <1>1 DEF Clears
  <1>4. \A i \in WaiterSlots \ W : Active(i) /\ waiters[i].address \in TidWords =>
                                   HasThread(waiters[i].address)'
    BY SMTT(20), <1>1, <1>2, <1>3 DEF TInv, FutexBooks, WaiterAgrees
  <1>5. /\ waiters' \in [WaiterSlots -> WaiterRecords]
        /\ cookie' \in [Tasks -> 0 .. WaiterLimit]
        /\ TablesOK' /\ FutexBooks'
    BY <1>1, <1>2, <1>4, ClearingKeeps
  <1>6. WordsOK'
    BY <1>1, <1>2 DEF TInv, WordsOK
  <1>7. ThreadTypes'
    BY <1>2, <1>5 DEF TInv, ThreadTypes
  <1> QED BY <1>2, <1>5, <1>6, <1>7 DEF TInv

(* The end of the program.  The waiters that stay in the table keep their  *)
(* form, and the tables need not agree until the next program starts.      *)
LEMMA FinishHolds ==
  ASSUME TInv, IInv', Cleanup \/ MainExit
  PROVE  TInv'
  <1>1. /\ main' = NoTask /\ rq' = EmptyQueue /\ sleepq' = EmptySleepQueue
        /\ cookie' = [e \in Tasks |-> 0] /\ UNCHANGED <<tid, word>>
        /\ waiters' = waiters \/ waiters' = Released(waiters, main)
    BY DEF Cleanup, MainExit, Finish, StopAndReset
  <1>2. \A i \in WaiterSlots : waiters'[i] = waiters[i] \/ waiters'[i] = NoWaiter
    BY <1>1 DEF Released
  <1>3. waiters' \in [WaiterSlots -> WaiterRecords]
    BY <1>1, <1>2, EmptyRecords DEF Released, TInv, ThreadTypes
  <1>4. cookie' \in [Tasks -> 0 .. WaiterLimit]
    BY <1>1, ThreadsAssumption
  <1>5. TablesOK'
    BY <1>1, <1>2, EmptyRecords DEF TInv, TablesOK, Active
  <1> QED BY <1>1, <1>3, <1>4, <1>5 DEF TInv, ThreadTypes, FutexBooks, WordsOK

(* The start of a program finds every table empty. *)
LEMMA RegisterMainHolds ==
  ASSUME TInv, IInv', RegisterMain
  PROVE  TInv'
  <1>1. /\ main' \in Tasks /\ UNCHANGED <<sleepq, waiters, cookie>>
        /\ tid' = [t \in Tasks |-> NoAddress]
        /\ word' = [a \in TidWords |-> FALSE]
    BY SlotIsFree DEF RegisterMain, Register, TInv, IInv
  <1>2. \A e \in Tasks : sleepq[e] = Idle
    BY DEF RegisterMain, EmptyQueue, TInv, IInv, SleepersBlocked, SleepersAreTasks
  <1>3. \A e \in Tasks : EntryAgrees(e)'
    BY <1>1, <1>2, EmptyRecords DEF TInv, TablesOK, EntryAgrees
  <1>4. \A i \in WaiterSlots : ~Active(i)'
    BY <1>1 DEF RegisterMain, Active
  <1>5. FutexBooks' /\ WordsOK'
    BY <1>1, <1>3, <1>4 DEF FutexBooks, WordsOK
  <1>6. TablesOK'
    BY <1>1, <1>4 DEF TInv, TablesOK, Active
  <1>7. ThreadTypes'
    BY <1>1 DEF TInv, ThreadTypes
  <1> QED BY <1>1, <1>5, <1>6, <1>7, NoTaskIsNone DEF TInv

(* Calls that may block: a plain sleep adds an entry without a cookie. *)
LEMMA NanosleepHolds ==
  ASSUME TInv, IInv', NEW n \in Requests, Nanosleep(n)
  PROVE  TInv'
  <1>1. /\ rq.active /\ main # NoTask /\ UNCHANGED threadVars
        /\ rq.current \in Tasks /\ rq.state[rq.current] = "running"
    BY Caller DEF Nanosleep
  <1>2. CASE /\ rq' = rq \/ rq' = Forget(rq)
             /\ sleepq' = sleepq
    BY <1>1, <1>2, RefusedHolds
  <1>3. CASE /\ FreeEntries # {} /\ CanBlock(rq)
             /\ sleepq' = [sleepq EXCEPT ![Min(FreeEntries)] = NewEntry(n, FALSE)]
             /\ rq' = BlockAndSwitch(rq)
    <2>1. PICK m \in Tasks : m = Min(FreeEntries) /\ sleepq[m] = Idle
      <3>1. FreeEntries \in SUBSET Nat
        BY SMTT(20), RunQueueAssumption DEF FreeEntries, Tasks
      <3> QED BY <1>3, <3>1, MinMember DEF FreeEntries
    <2>2. /\ sleepq'[m].task = rq.current /\ ~sleepq'[m].timed
          /\ \A e \in Tasks \ {m} : sleepq'[e] = sleepq[e]
          /\ cookie[m] = 0
      BY <1>3, <2>1 DEF NewEntry, TInv, IInv, TablesOK
    <2>3. StaysBlocked(rq, rq', Tasks)
      BY <1>3, BlockKeeps DEF TInv, IInv
    <2>4. \A b : HasThread(b) => HasThread(b)'
      BY <1>1, <1>3, BlockKeepsWords DEF threadVars
    <2>5. ASSUME NEW i \in WaiterSlots, Active(i)' PROVE WaiterAgrees(i)'
      <3>1. /\ WaiterAgrees(i) /\ waiters[i].task \in Tasks
            /\ UNCHANGED <<waiters, cookie>>
        BY <1>1, <2>5 DEF TInv, FutexBooks, TablesOK, Active, threadVars
      <3>2. waiters[i].task # rq.current
        BY <1>1, <3>1 DEF WaiterAgrees
      <3>3. rq'.state[waiters[i].task] = "blocked"
        BY <2>3, <3>1 DEF StaysBlocked, WaiterAgrees
      <3>4. waiters[i].address \in TidWords => HasThread(waiters[i].address)'
        BY <2>4, <3>1 DEF WaiterAgrees
      <3> QED BY <2>2, <3>1, <3>2, <3>3, <3>4 DEF WaiterAgrees
    <2>6. ASSUME NEW e \in Tasks PROVE EntryAgrees(e)'
      BY <1>1, <2>2 DEF TInv, FutexBooks, EntryAgrees, threadVars
    <2>7. FutexBooks'
      BY <1>1, <2>5, <2>6 DEF TInv, FutexBooks, threadVars, Active
    <2>8. WordsOK'
      BY <1>1, <2>4 DEF TInv, WordsOK, threadVars
    <2>9. TablesOK'
      BY <1>1, <2>2 DEF TInv, TablesOK, threadVars, Active
    <2> QED BY <1>1, <2>7, <2>8, <2>9 DEF TInv, ThreadTypes, threadVars
  <1> QED BY <1>2, <1>3 DEF Nanosleep, Sleep, BlockTask

\* An untimed futex wait enlists the caller and blocks it.
LEMMA FutexWaitHolds ==
  ASSUME TInv, IInv', NEW a \in Addresses, FutexWait(a)
  PROVE  TInv'
  <1>1. /\ main # NoTask /\ MayWait(a) /\ WaitForEvent
        /\ UNCHANGED <<sleepq, main, tid, word, cookie>>
    BY Caller DEF FutexWait, MayWait, WaitForEvent
  <1>2. CASE ~CanBlock(rq)
    <2>1. rq' = Forget(rq) /\ waiters' = waiters
      BY <1>2 DEF FutexWait, WaitForEvent, BlockTask
    <2> QED BY <1>1, <2>1, RefusedHolds DEF threadVars
  <1>3. CASE CanBlock(rq)
    <2>1. rq' = BlockAndSwitch(rq) /\ waiters' = Enlisted(a, FALSE)
      BY <1>3 DEF FutexWait, WaitForEvent
    <2>2. /\ waiters' \in [WaiterSlots -> WaiterRecords]
          /\ TablesOK' /\ FutexBooks'
      <3>1. \A e \in Tasks \ {} : sleepq'[e] = sleepq[e] /\ cookie'[e] = cookie[e]
        BY <1>1
      <3>2. FALSE \in BOOLEAN /\ {} \in SUBSET Tasks /\ (FALSE <=> {} # {})
        OBVIOUS
      <3> QED BY <1>1, <1>3, <2>1, <3>1, <3>2, EnlistingKeeps
    <2>3. WordsOK'
      BY <1>1, <1>3, <2>1, BlockKeepsWords DEF TInv, WordsOK
    <2> QED BY <1>1, <2>2, <2>3 DEF TInv, ThreadTypes
  <1> QED BY <1>2, <1>3

\* A timed futex wait enlists the caller in both tables and blocks it; a full
\* sleep queue refuses the call.
LEMMA FutexTimedWaitHolds ==
  ASSUME TInv, IInv', NEW a \in Addresses, NEW n \in Requests,
         FutexTimedWait(a, n)
  PROVE  TInv'
  <1>1. /\ main # NoTask /\ MayWait(a) /\ Sleep(n, TRUE)
        /\ UNCHANGED <<main, tid, word>>
        /\ rq.current \in Tasks
    BY Caller DEF FutexTimedWait, MayWait
  <1>2. CASE /\ rq' = rq \/ rq' = Forget(rq)
             /\ sleepq' = sleepq
    <2>1. UNCHANGED <<waiters, cookie>>
      BY <1>2 DEF FutexTimedWait
    <2> QED BY <1>1, <1>2, <2>1, RefusedHolds DEF threadVars
  <1>3. CASE /\ FreeEntries # {} /\ CanBlock(rq)
             /\ sleepq' = [sleepq EXCEPT ![Min(FreeEntries)] = NewEntry(n, TRUE)]
             /\ rq' = BlockAndSwitch(rq)
    <2>1. PICK m \in Tasks : m = Min(FreeEntries) /\ sleepq[m] = Idle
      <3>1. FreeEntries \in SUBSET Nat
        BY SMTT(20), RunQueueAssumption DEF FreeEntries, Tasks
      <3> QED BY <1>3, <3>1, MinMember DEF FreeEntries
    <2>2. /\ sleepq'[m].task = rq.current /\ sleepq'[m].timed = TRUE
          /\ \A e \in Tasks \ {m} : sleepq'[e] = sleepq[e]
      BY <1>3, <2>1 DEF NewEntry, TInv, IInv
    <2>3. sleepq' # sleepq
      BY <1>1, <2>1, <2>2, EmptyRecords, NoTaskIsNone
    <2>4. /\ waiters' = Enlisted(a, TRUE)
          /\ cookie' = [cookie EXCEPT ![m] = Min(FreeWaiters)]
      BY <2>1, <2>3 DEF FutexTimedWait
    <2>5. Min(FreeWaiters) \in 0 .. WaiterLimit
      <3>1. FreeWaiters \in SUBSET Nat /\ FreeWaiters # {}
        BY SMTT(20), <1>1, ThreadsAssumption DEF FreeWaiters, WaitersAt, WaiterSlots, MayWait
      <3>2. Min(FreeWaiters) \in FreeWaiters
        BY <3>1, MinMember
      <3> QED BY <3>2, ThreadsAssumption DEF FreeWaiters, WaitersAt, WaiterSlots
    <2>6. /\ cookie' \in [Tasks -> 0 .. WaiterLimit]
          /\ cookie'[m] = Min(FreeWaiters)
          /\ \A e \in Tasks \ {m} : cookie'[e] = cookie[e]
      BY <2>4, <2>5 DEF TInv, ThreadTypes
    <2>7. /\ waiters' \in [WaiterSlots -> WaiterRecords]
          /\ TablesOK' /\ FutexBooks'
      <3>1. TRUE \in BOOLEAN /\ {m} \in SUBSET Tasks /\ (TRUE <=> {m} # {})
        OBVIOUS
      <3>2. \A e \in {m} : /\ sleepq[e] = Idle /\ cookie'[e] = Min(FreeWaiters)
                           /\ sleepq'[e].task = rq.current
                           /\ sleepq'[e].timed = TRUE
        BY <2>1, <2>2, <2>6
      <3>3. \A e \in Tasks \ {m} : sleepq'[e] = sleepq[e] /\ cookie'[e] = cookie[e]
        BY <2>2, <2>6
      <3> QED BY <1>1, <1>3, <2>4, <3>1, <3>2, <3>3, EnlistingKeeps
    <2>8. WordsOK'
      BY <1>1, <1>3, BlockKeepsWords DEF TInv, WordsOK
    <2> QED BY <1>1, <2>6, <2>7, <2>8 DEF TInv, ThreadTypes
  <1> QED BY <1>1, <1>2, <1>3 DEF Sleep, BlockTask

(* Every step keeps the invariant, action by action. *)
LEMMA ThreadStepHolds == TInv /\ [ThreadNext]_allVars => TInv'
  <1> SUFFICES ASSUME TInv, [ThreadNext]_allVars PROVE TInv'
    OBVIOUS
  <1>1. IInv'
    BY StepImplements, StepHolds DEF TInv
  <1>2. CASE RegisterMain
    BY <1>1, <1>2, RegisterMainHolds
  <1>3. CASE StartMain
    BY <1>1, <1>3, StartMainHolds
  <1>4. CASE Cleanup \/ MainExit
    BY <1>1, <1>4, FinishHolds
  <1>5. ASSUME NEW a \in TidWords \cup {NoAddress}, Clone(a) PROVE TInv'
    BY <1>1, <1>5, CloneHolds
  <1>6. ASSUME NEW n \in Requests, Nanosleep(n) PROVE TInv'
    BY <1>1, <1>6, NanosleepHolds
  <1>7. ASSUME NEW a \in Addresses, FutexWait(a) PROVE TInv'
    BY <1>1, <1>7, FutexWaitHolds
  <1>8. ASSUME NEW a \in Addresses, NEW n \in Requests, FutexTimedWait(a, n)
        PROVE  TInv'
    BY <1>1, <1>8, FutexTimedWaitHolds
  <1>9. ASSUME NEW a \in Addresses, FutexWake(a) PROVE TInv'
    <2>1. main # NoTask /\ UNCHANGED <<main, tid, word>>
      BY <1>9, Caller DEF FutexWake
    <2> QED BY <1>1, <1>9, <2>1, FutexWakeClears, ClearingHolds
  <1>10. CASE ThreadExit
    BY <1>1, <1>10, ThreadExitHolds
  <1>11. CASE Timer /\ main # NoTask
    <2>1. UNCHANGED <<main, tid, word>>
      BY <1>11 DEF Timer
    <2> QED BY <1>1, <1>11, <2>1, TimerClears, ClearingHolds
  <1>12. CASE Timer /\ main = NoTask
    <2>1. ~rq.active
      BY <1>12 DEF TInv, EmptyQueue
    <2>2. UNCHANGED <<rq, sleepq, main, tid, word, waiters, cookie>>
      BY <1>12, <2>1, CookiesKept DEF Timer, TimerInterrupt
    <2> QED BY <1>1, <1>12, <2>2
            DEF TInv, ThreadTypes, TablesOK, Active, FutexBooks, WordsOK
  <1>13. CASE UNCHANGED allVars
    <2>1. UNCHANGED <<rq, sleepq, main, tid, word, waiters, cookie>>
      BY <1>13 DEF allVars
    <2>2. ThreadTypes' /\ TablesOK'
      BY <2>1 DEF TInv, ThreadTypes, TablesOK, Active
    <2>3. FutexBooks'
      BY SMTT(20), <2>1 DEF TInv, FutexBooks, Active, WaiterAgrees, EntryAgrees, HasThread
    <2>4. WordsOK' /\ (main = NoTask => rq = EmptyQueue)'
      BY <2>1 DEF TInv, WordsOK, HasThread
    <2> QED BY <1>1, <2>2, <2>3, <2>4 DEF TInv
  <1> QED
    BY <1>2, <1>3, <1>4, <1>5, <1>6, <1>7, <1>8, <1>9, <1>10, <1>11, <1>12, <1>13
       DEF ThreadNext

(* The inductive invariant holds in every state a program with threads can *)
(* reach.                                                                  *)
THEOREM ThreadInvariance == ThreadSpec => []TInv
  BY ThreadInitHolds, ThreadStepHolds, PTL DEF ThreadSpec

(* The futex table, the sleep queue and the run queue agree in every       *)
(* reachable state, and whoever waits for a thread's word waits for a      *)
(* thread that has yet to exit.                                            *)
THEOREM TablesAgree == ThreadSpec => []FutexBooks
  <1>1. TInv => FutexBooks
    BY DEF TInv
  <1> QED BY <1>1, ThreadInvariance, PTL

(* Clone, futex calls, exits and timeouts move the scheduler's queues only *)
(* as scheduler.c's operations do, so the theorems about Scheduler hold of *)
(* programs with threads.                                                  *)
THEOREM ThreadsRefineScheduler == ThreadSpec => ThreadsImplementScheduler
  <1>1. ThreadInit => Init
    BY DEF ThreadInit
  <1>2. TInv /\ [ThreadNext]_allVars => [Next]_vars
    BY StepImplements
  <1> QED BY <1>1, <1>2, ThreadInvariance, PTL
          DEF ThreadSpec, ThreadsImplementScheduler, Spec

-----------------------------------------------------------------------------
(* What a step may do to a waiter: what NoWaiterDropped says of it. *)
LEMMA StepDropsNone ==
  ASSUME TInv, [ThreadNext]_allVars, NEW i \in WaiterSlots,
         Active(i), waiters'[i] # waiters[i], rq'.count # 0
  PROVE  /\ waiters'[i] = NoWaiter
         /\ rq'.state[waiters[i].task] \in {"ready", "running"}
  <1>1. ASSUME NEW W \in SUBSET WaiterSlots, Clears(W)
        PROVE  /\ waiters'[i] = NoWaiter
               /\ rq'.state[waiters[i].task] \in {"ready", "running"}
    BY <1>1 DEF Clears
  <1>2. waiters' # waiters
    OBVIOUS
  <1>3. ASSUME NEW a \in Addresses, FutexWake(a)
        PROVE  \E W \in SUBSET WaiterSlots : Clears(W)
    BY <1>3, FutexWakeClears
  <1>4. CASE ThreadExit
    BY <1>1, <1>4, ThreadExitClears
  <1>5. CASE Timer
    <2>1. main # NoTask
      BY <1>2, <1>5 DEF Timer, TInv, EmptyQueue
    <2> QED BY <1>1, <1>5, <2>1, TimerClears
  <1>6. CASE Cleanup \/ MainExit
    <2>1. rq'.count = 0
      BY SMTT(20), <1>6 DEF Cleanup, MainExit, Finish, StopAndReset, EmptyQueue
    <2> QED BY <2>1
  <1>7. ASSUME NEW a \in Addresses, NEW timed, MayWait(a),
               waiters' = Enlisted(a, timed)
        PROVE  FALSE
    <2>1. FreeWaiters \in SUBSET Nat /\ FreeWaiters # {}
      BY SMTT(20), <1>7, ThreadsAssumption DEF FreeWaiters, WaitersAt, WaiterSlots, MayWait
    <2>2. Min(FreeWaiters) \in FreeWaiters
      BY <2>1, MinMember
    <2>3. i # Min(FreeWaiters)
      BY <2>2 DEF FreeWaiters, WaitersAt, Active
    <2>4. waiters \in [WaiterSlots -> WaiterRecords]
      BY DEF TInv, ThreadTypes
    <2> QED BY <1>7, <2>3, <2>4 DEF Enlisted
  <1>8. ASSUME NEW a \in Addresses, FutexWait(a) PROVE FALSE
    BY <1>2, <1>7, <1>8 DEF FutexWait
  <1>9. ASSUME NEW a \in Addresses, NEW n \in Requests, FutexTimedWait(a, n)
        PROVE  FALSE
    BY <1>2, <1>7, <1>9 DEF FutexTimedWait
  <1>10. ~(RegisterMain \/ StartMain \/ UNCHANGED allVars)
    BY <1>2 DEF RegisterMain, StartMain, threadVars, allVars
  <1>11. \A a : ~Clone(a)
    BY <1>2 DEF Clone
  <1>12. \A n : ~Nanosleep(n)
    BY <1>2 DEF Nanosleep, threadVars
  <1> QED
    BY <1>1, <1>3, <1>4, <1>5, <1>6, <1>8, <1>9, <1>10, <1>11, <1>12 DEF ThreadNext

(* A futex waiter leaves the table only in the step that wakes its task,   *)
(* or when the program ends.                                               *)
THEOREM WaitersNeverDropped == ThreadSpec => NoWaiterDropped
  <1>1. TInv /\ [ThreadNext]_allVars =>
          [\A i \in WaiterSlots :
             Active(i) /\ waiters'[i] # waiters[i] /\ rq'.count # 0 =>
               /\ waiters'[i] = NoWaiter
               /\ rq'.state[waiters[i].task] \in {"ready", "running"}]_allVars
    BY StepDropsNone
  <1> QED BY <1>1, ThreadInvariance, PTL DEF ThreadSpec, NoWaiterDropped
=============================================================================
