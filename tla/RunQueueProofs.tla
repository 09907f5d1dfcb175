--------------------------- MODULE RunQueueProofs ---------------------------
(***************************************************************************)
(* Lemmas about the run queue, for every number of tasks.  The queue is a  *)
(* record, so its operators are proved once, here, and every component     *)
(* that blocks, wakes or ends a task cites them: QueueOK is kept by all of *)
(* them, a task is dispatched only when none is running, and an operator   *)
(* moves no task but its own in or out of the runnable states.             *)
(***************************************************************************)
EXTENDS RunQueue, NaturalsInduction, WellFoundedInduction, TLAPS

(* What holds of the queue between any two of its operators: its slots     *)
(* from task_count on are unused, what can resume has a saved frame, and   *)
(* an active queue has a current task.                                     *)
QueueOK(q) ==
  /\ q \in RunQueues
  /\ \A t \in Tasks : t >= q.count => q.state[t] = "unused"
  /\ \A t \in Tasks : q.state[t] \in {"ready", "blocked"} =>
                        q.frame[t] \in {"saved", "result"}
  /\ q.active => q.current < q.count

(* OneRunner, as a predicate on the record. *)
Runner(q) ==
  \A t \in Tasks : q.state[t] = "running" <=> q.active /\ q.current = t

(* The state between taking the CPU from one task and giving it to the next. *)
NobodyRuns(q) == \A t \in Tasks : q.state[t] # "running"

-----------------------------------------------------------------------------
(* A non-empty set of naturals has a least element, and Min is one. *)
LEMMA LeastMember ==
  ASSUME NEW S \in SUBSET Nat, S # {}
  PROVE  \E x \in S : \A y \in S : x =< y
  <1>1. PICK x \in S : \A y \in S : ~ (<<y, x>> \in OpToRel(<, Nat))
    BY NatLessThanWellFounded, WFMin
  <1>2. \A y \in S : ~ (y < x)
    BY <1>1, Zenon DEF OpToRel
  <1> QED BY <1>2

(* Hence the minimum of such a set is one of its elements. *)
LEMMA MinMember ==
  ASSUME NEW S \in SUBSET Nat, S # {}
  PROVE  Min(S) \in S
  BY LeastMember DEF Min

(* A remainder by a positive number is below it. *)
LEMMA Remainder ==
  ASSUME NEW n \in Nat \ {0}, NEW a \in Nat
  PROVE  a % n \in 0 .. n - 1
  OBVIOUS

(* A number below n is its own remainder, and so is its sum with n. *)
LEMMA SmallRemainder ==
  ASSUME NEW n \in Nat \ {0}, NEW a \in 0 .. n - 1
  PROVE  a % n = a /\ (a + n) % n = a
  OBVIOUS

(* NoTask is not below any task count, so nothing unregistered is ready. *)
LEMMA ReadyIsTask ==
  ASSUME NEW q \in RunQueues, NEW t \in Tasks \cup {NoTask}, Ready(q, t)
  PROVE  t \in Tasks /\ t < q.count /\ q.state[t] = "ready" /\ t # NoTask
  BY RunQueueAssumption DEF RunQueues, Ready, NoTask, Tasks

(* Likewise the maximum of a non-empty set of slots. *)
LEMMA MaxMember ==
  ASSUME NEW S \in SUBSET Tasks, S # {}
  PROVE  Max(S) \in S
  <1> DEFINE R == {TaskLimit - y : y \in S}
  <1>1. R \in SUBSET Nat /\ R # {}
    <2>1. \A y \in S : TaskLimit - y \in Nat
      BY RunQueueAssumption DEF Tasks
    <2>2. PICK y \in S : TRUE
      OBVIOUS
    <2>3. TaskLimit - y \in R
      OBVIOUS
    <2> QED BY <2>1, <2>3
  <1>2. PICK z \in R : \A y \in R : z =< y
    BY <1>1, LeastMember
  <1>3. PICK x \in S : z = TaskLimit - x
    OBVIOUS
  <1>4. \A y \in S : x >= y
    <2> SUFFICES ASSUME NEW y \in S PROVE x >= y
      OBVIOUS
    <2>1. TaskLimit - y \in R
      OBVIOUS
    <2>2. TaskLimit - x =< TaskLimit - y
      BY <1>2, <1>3, <2>1
    <2>3. x \in Nat /\ y \in Nat
      BY RunQueueAssumption DEF Tasks
    <2> QED BY <2>2, <2>3, RunQueueAssumption
  <1> QED
    BY <1>4 DEF Max

-----------------------------------------------------------------------------
(* scheduler64_next_runnable returns a ready task or none. *)
LEMMA NextIsReady ==
  ASSUME NEW q \in RunQueues, NEW cur \in Tasks, NextRunnable(q, cur) # NoTask
  PROVE  /\ NextRunnable(q, cur) \in Tasks
         /\ Ready(q, NextRunnable(q, cur))
  <1>1. CASE q.preferred # cur /\ Ready(q, q.preferred)
    <2>1. q.preferred \in Tasks \cup {NoTask}
      BY DEF RunQueues
    <2> QED BY <1>1, <2>1, ReadyIsTask DEF NextRunnable
  <1>2. CASE ~(q.preferred # cur /\ Ready(q, q.preferred))
    <2>1. Offsets(q, cur) # {}
      BY <1>2 DEF NextRunnable
    <2>2. Offsets(q, cur) \in SUBSET Nat
      BY DEF Offsets, RunQueues
    <2>3. Min(Offsets(q, cur)) \in Offsets(q, cur)
      BY <2>1, <2>2, MinMember
    <2>4. PICK o \in Offsets(q, cur) : NextRunnable(q, cur) = (cur + o) % q.count
      BY <1>2, <2>1, <2>3 DEF NextRunnable
    <2>5. /\ o \in 1 .. q.count - 1
          /\ Ready(q, (cur + o) % q.count)
      BY DEF Offsets
    <2>6. q.count \in 0 .. TaskLimit
      BY DEF RunQueues
    <2>7. (cur + o) % q.count \in 0 .. q.count - 1
      <3>1. q.count \in Nat \ {0} /\ cur + o \in Nat
        BY <2>5, <2>6, RunQueueAssumption DEF Tasks
      <3> QED BY <3>1, Remainder
    <2>8. (cur + o) % q.count \in Tasks
      BY <2>6, <2>7, RunQueueAssumption DEF Tasks
    <2> QED BY <2>4, <2>5, <2>8
  <1> QED BY <1>1, <1>2

(* When another task is ready, it does not return none. *)
LEMMA NextExists ==
  ASSUME NEW q \in RunQueues, NEW cur \in Tasks, cur < q.count,
         NEW t \in Tasks, t # cur, Ready(q, t)
  PROVE  NextRunnable(q, cur) # NoTask
  <1>1. CASE q.preferred # cur /\ Ready(q, q.preferred)
    <2>1. q.preferred \in Tasks \cup {NoTask}
      BY DEF RunQueues
    <2> QED BY <1>1, <2>1, ReadyIsTask DEF NextRunnable
  <1>2. CASE ~(q.preferred # cur /\ Ready(q, q.preferred))
    <2> DEFINE n == q.count
               o == IF t > cur THEN t - cur ELSE t - cur + n
    <2>1. n \in Nat \ {0} /\ n <= TaskLimit /\ t \in 0 .. n - 1 /\ cur \in 0 .. n - 1
      BY RunQueueAssumption DEF RunQueues, Tasks, Ready
    <2>2. o \in 1 .. n - 1 /\ (cur + o = t \/ cur + o = t + n)
      BY <2>1
    <2>3. (cur + o) % n = t
      BY <2>1, <2>2, SmallRemainder
    <2>4. o \in Offsets(q, cur)
      BY <2>2, <2>3 DEF Offsets
    <2>5. Min(Offsets(q, cur)) \in 1 .. n - 1
      <3>1. Offsets(q, cur) \in SUBSET Nat /\ Offsets(q, cur) \subseteq 1 .. n - 1
        BY <2>1 DEF Offsets
      <3> QED BY <3>1, <2>4, MinMember
    <2>6. (cur + Min(Offsets(q, cur))) % n \in 0 .. n - 1
      <3>1. cur + Min(Offsets(q, cur)) \in Nat
        BY <2>1, <2>5
      <3> QED BY <3>1, <2>1, Remainder
    <2>7. NextRunnable(q, cur) = (cur + Min(Offsets(q, cur))) % n
      BY <1>2, <2>4 DEF NextRunnable
    <2> QED BY <2>1, <2>6, <2>7, RunQueueAssumption DEF NoTask
  <1> QED BY <1>1, <1>2

-----------------------------------------------------------------------------
(* The operators on the queue.  Each lemma says that the operator keeps    *)
(* QueueOK, leaves one runner, and which tasks it may take out of the      *)
(* blocked state.                                                          *)

(* No task of S that is blocked in q is out of that state in r. *)
StaysBlocked(q, r, S) ==
  \A t \in S : q.state[t] = "blocked" => r.state[t] = "blocked"

(* No task of S that is ready or running in q is in another state in r. *)
StaysRunnable(q, r, S) ==
  \A t \in S : q.state[t] \in {"ready", "running"} =>
                r.state[t] \in {"ready", "running"}

(* No task of S changes state between q and r, but for the CPU. *)
Alike(q, r, S) ==
  \A t \in S : \/ r.state[t] = q.state[t]
             \/ {q.state[t], r.state[t]} \subseteq {"ready", "running"}

(* Dispatching a ready task while nobody runs makes it the one runner. *)
LEMMA DispatchKeeps ==
  ASSUME NEW q, QueueOK(q), NobodyRuns(q), q.active,
         NEW t \in Tasks, Ready(q, t)
  PROVE  /\ QueueOK(Dispatch(q, t))
         /\ Runner(Dispatch(q, t))
         /\ StaysBlocked(q, Dispatch(q, t), Tasks)
         /\ StaysRunnable(q, Dispatch(q, t), Tasks)
         /\ Alike(q, Dispatch(q, t), Tasks)
  <1> DEFINE r == Dispatch(q, t)
  <1>1. q \in RunQueues /\ t < q.count /\ q.state[t] = "ready"
    BY DEF QueueOK, Ready
  <1>2. /\ r \in RunQueues
        /\ r.active = q.active /\ r.count = q.count /\ r.current = t
        /\ r.state = [q.state EXCEPT ![t] = "running"]
        /\ r.frame = [q.frame EXCEPT ![t] = "live"]
    BY <1>1 DEF Dispatch, Forget, RunQueues, TaskStates, FrameStates
  <1>3. q.state \in [Tasks -> TaskStates] /\ q.frame \in [Tasks -> FrameStates]
    BY <1>1 DEF RunQueues
  <1> HIDE DEF r
  <1>4. QueueOK(r)
    BY <1>1, <1>2, <1>3 DEF QueueOK
  <1>5. Runner(r)
    BY <1>2, <1>3 DEF Runner, NobodyRuns
  <1>6. StaysBlocked(q, r, Tasks) /\ StaysRunnable(q, r, Tasks)
    BY <1>1, <1>2, <1>3 DEF StaysBlocked, StaysRunnable
  <1>7. Alike(q, r, Tasks)
    BY <1>1, <1>2, <1>3 DEF Alike
  <1> QED BY <1>4, <1>5, <1>6, <1>7 DEF r

(* scheduler64_runqueue_allocate_slot finds a slot that holds no task. *)
LEMMA SlotIsFree ==
  ASSUME NEW q, QueueOK(q), AllocateSlot(q) < TaskLimit
  PROVE  /\ AllocateSlot(q) \in Tasks
         /\ AllocateSlot(q) <= q.count
         /\ q.state[AllocateSlot(q)] \in {"unused", "exited"}
  <1>1. q.count \in 0 .. TaskLimit
    BY DEF QueueOK, RunQueues
  <1>2. CASE FreeSlots(q) # {}
    <2>1. FreeSlots(q) \in SUBSET Nat
      BY RunQueueAssumption DEF FreeSlots, Tasks
    <2>2. Min(FreeSlots(q)) \in FreeSlots(q)
      BY <1>2, <2>1, MinMember
    <2>3. AllocateSlot(q) \in FreeSlots(q)
      BY <1>2, <2>2 DEF AllocateSlot
    <2> QED BY <1>1, <2>3, RunQueueAssumption DEF FreeSlots, Tasks
  <1>3. CASE FreeSlots(q) = {}
    <2>1. AllocateSlot(q) = q.count
      BY <1>3 DEF AllocateSlot
    <2>2. q.count \in Tasks
      BY <1>1, <2>1, RunQueueAssumption DEF Tasks
    <2>3. q.state[q.count] = "unused"
      BY <1>1, <2>2 DEF QueueOK
    <2> QED BY <1>1, <2>1, <2>2, <2>3
  <1> QED BY <1>2, <1>3

(* Registering a task disturbs neither the runner nor a blocked task.      *)
LEMMA RegisterKeeps ==
  ASSUME NEW q, QueueOK(q), Runner(q), AllocateSlot(q) < TaskLimit
  PROVE  /\ QueueOK(RegisterTask(q, AllocateSlot(q)))
         /\ Runner(RegisterTask(q, AllocateSlot(q)))
         /\ StaysBlocked(q, RegisterTask(q, AllocateSlot(q)), Tasks)
         /\ StaysRunnable(q, RegisterTask(q, AllocateSlot(q)), Tasks)
         /\ RegisterTask(q, AllocateSlot(q)).state[AllocateSlot(q)] = "ready"
         /\ Alike(q, RegisterTask(q, AllocateSlot(q)), Tasks \ {AllocateSlot(q)})
  <1> DEFINE t == AllocateSlot(q)
             r == RegisterTask(q, t)
  <1>1. t \in Tasks /\ t <= q.count /\ q.state[t] \in {"unused", "exited"}
    BY SlotIsFree
  <1>2. /\ q \in RunQueues
        /\ q.count \in 0 .. TaskLimit
        /\ q.current \in Tasks \cup {NoTask}
        /\ q.state \in [Tasks -> TaskStates]
        /\ q.frame \in [Tasks -> FrameStates]
    BY DEF QueueOK, RunQueues
  <1> HIDE DEF t
  <1>3. /\ r.active = q.active /\ r.current = q.current
        /\ r.count = (IF t = q.count THEN q.count + 1 ELSE q.count)
        /\ r.state = [q.state EXCEPT ![t] = "ready"]
        /\ r.frame = [q.frame EXCEPT ![t] = "saved"]
    BY <1>2 DEF RegisterTask, RunQueues
  <1>4. r.count \in 0 .. TaskLimit /\ t < r.count /\ q.count <= r.count
    BY <1>1, <1>2, <1>3, RunQueueAssumption DEF Tasks
  <1>5. r \in RunQueues
    BY <1>1, <1>2, <1>4 DEF RegisterTask, RunQueues, TaskStates, FrameStates
  <1> HIDE DEF r
  <1>6. QueueOK(r)
    <2>1. \A s \in Tasks : s >= r.count => r.state[s] = "unused"
      BY <1>1, <1>2, <1>3, <1>4, RunQueueAssumption DEF QueueOK, Tasks
    <2>2. \A s \in Tasks : r.state[s] \in {"ready", "blocked"} =>
                             r.frame[s] \in {"saved", "result"}
      BY <1>1, <1>2, <1>3 DEF QueueOK
    <2>3. r.active => r.current < r.count
      BY <1>2, <1>3, <1>4, RunQueueAssumption DEF QueueOK, Tasks, NoTask
    <2> QED BY <1>5, <2>1, <2>2, <2>3 DEF QueueOK
  <1>7. Runner(r)
    BY <1>1, <1>2, <1>3 DEF Runner
  <1>8. StaysBlocked(q, r, Tasks) /\ StaysRunnable(q, r, Tasks)
        /\ r.state[t] = "ready"
    BY <1>1, <1>2, <1>3 DEF StaysBlocked, StaysRunnable
  <1>9. Alike(q, r, Tasks \ {t})
    BY <1>1, <1>2, <1>3 DEF Alike
  <1> QED BY <1>6, <1>7, <1>8, <1>9 DEF t, r

(* Starting an inactive queue gives the CPU to the task it starts with. *)
LEMMA StartKeeps ==
  ASSUME NEW q, QueueOK(q), Runner(q), ~q.active, NEW t \in Tasks, Ready(q, t)
  PROVE  /\ QueueOK(StartQueue(q, t))
         /\ Runner(StartQueue(q, t))
         /\ StaysBlocked(q, StartQueue(q, t), Tasks)
         /\ StaysRunnable(q, StartQueue(q, t), Tasks)
  <1> DEFINE r == StartQueue(q, t)
  <1>1. /\ q \in RunQueues /\ t < q.count /\ q.state[t] = "ready"
        /\ q.state \in [Tasks -> TaskStates] /\ q.frame \in [Tasks -> FrameStates]
    BY DEF QueueOK, Ready, RunQueues
  <1>2. /\ r \in RunQueues
        /\ r.active /\ r.count = q.count /\ r.current = t
        /\ r.state = [q.state EXCEPT ![t] = "running"]
        /\ r.frame = [q.frame EXCEPT ![t] = "live"]
    BY <1>1 DEF StartQueue, RunQueues, TaskStates, FrameStates
  <1> HIDE DEF r
  <1>3. QueueOK(r)
    BY <1>1, <1>2 DEF QueueOK
  <1>4. Runner(r)
    BY <1>1, <1>2 DEF Runner
  <1>5. StaysBlocked(q, r, Tasks) /\ StaysRunnable(q, r, Tasks)
    BY <1>1, <1>2 DEF StaysBlocked, StaysRunnable
  <1> QED BY <1>3, <1>4, <1>5 DEF r

(* An operator that leaves the task table alone keeps everything. *)
LEMMA ForgetKeeps ==
  ASSUME NEW q, QueueOK(q)
  PROVE  /\ QueueOK(Forget(q))
         /\ Forget(q).state = q.state
         /\ Forget(q).active = q.active
         /\ Forget(q).current = q.current
         /\ Forget(q).count = q.count
  BY DEF QueueOK, Forget, RunQueues

(* block_task with its return path: the caller is left blocked, with its   *)
(* frame saved, and somebody else runs.  The second search for a runnable  *)
(* task starts without the preference the first one forgot, and still      *)
(* finds a task.                                                           *)
LEMMA BlockKeeps ==
  ASSUME NEW q, QueueOK(q), Runner(q), CanBlock(q)
  PROVE  /\ QueueOK(BlockAndSwitch(q))
         /\ Runner(BlockAndSwitch(q))
         /\ StaysBlocked(q, BlockAndSwitch(q), Tasks)
         /\ StaysRunnable(q, BlockAndSwitch(q), Tasks \ {q.current})
         /\ BlockAndSwitch(q).state[q.current] = "blocked"
         /\ Alike(q, BlockAndSwitch(q), Tasks \ {q.current})
  <1> DEFINE cur == q.current
             b == BlockTask(q)
             s == [b EXCEPT !.frame[b.current] = "saved"]
             n == NextRunnable(s, cur)
  <1>1. /\ q \in RunQueues /\ q.active /\ q.count \in 0 .. TaskLimit
        /\ cur \in Tasks /\ cur < q.count /\ q.state[cur] = "running"
        /\ q.state \in [Tasks -> TaskStates] /\ q.frame \in [Tasks -> FrameStates]
    BY RunQueueAssumption DEF QueueOK, CanBlock, RunQueues, NoTask
  <1>2. PICK t \in Tasks : Ready(q, t)
    BY <1>1, NextIsReady DEF CanBlock
  <1>3. /\ b \in RunQueues
        /\ b.active = q.active /\ b.count = q.count /\ b.current = cur
        /\ b.state = [q.state EXCEPT ![cur] = "blocked"]
        /\ b.frame = q.frame
    BY <1>1 DEF BlockTask, Forget, RunQueues, TaskStates
  <1> HIDE DEF b
  <1>4. /\ s \in RunQueues
        /\ s.active = q.active /\ s.count = q.count /\ s.current = cur
        /\ s.state = [q.state EXCEPT ![cur] = "blocked"]
        /\ s.frame = [q.frame EXCEPT ![cur] = "saved"]
    BY <1>1, <1>3 DEF RunQueues, FrameStates
  <1> HIDE DEF s
  <1>5. QueueOK(s)
    BY <1>1, <1>4, RunQueueAssumption DEF QueueOK, Tasks
  <1>6. NobodyRuns(s)
    BY <1>1, <1>4 DEF NobodyRuns, Runner
  <1>7. n # NoTask
    <2>1. t # cur /\ Ready(s, t)
      BY <1>1, <1>2, <1>4 DEF Ready
    <2> QED BY <1>1, <1>4, <2>1, NextExists
  <1>8. n \in Tasks /\ Ready(s, n)
    BY <1>1, <1>4, <1>7, NextIsReady
  <1>9. BlockAndSwitch(q) = Dispatch(s, n)
    BY <1>3, <1>7 DEF BlockAndSwitch, OnBlockedSyscall, s, b
  <1> HIDE DEF n
  <1>10. /\ QueueOK(Dispatch(s, n)) /\ Runner(Dispatch(s, n))
         /\ StaysBlocked(s, Dispatch(s, n), Tasks)
         /\ StaysRunnable(s, Dispatch(s, n), Tasks)
         /\ Alike(s, Dispatch(s, n), Tasks)
    BY <1>1, <1>4, <1>5, <1>6, <1>8, DispatchKeeps
  <1>11. StaysBlocked(q, s, Tasks) /\ s.state[cur] = "blocked"
         /\ StaysRunnable(q, s, Tasks \ {cur})
    BY <1>1, <1>4 DEF StaysBlocked, StaysRunnable
  <1>12. Alike(q, Dispatch(s, n), Tasks \ {cur})
    <2>1. \A u \in Tasks \ {cur} : s.state[u] = q.state[u]
      BY <1>1, <1>4
    <2> QED BY <1>10, <2>1 DEF Alike
  <1> QED BY <1>1, <1>9, <1>10, <1>11, <1>12 DEF StaysBlocked, StaysRunnable

(* A wake touches the woken task only. *)
LEMMA WakeKeeps ==
  ASSUME NEW q, QueueOK(q), Runner(q), NEW t \in Tasks,
         NEW r \in {WakeReplay(q, t), WakeWithResult(q, t)}
  PROVE  /\ QueueOK(r) /\ Runner(r) /\ StaysBlocked(q, r, Tasks \ {t})
         /\ r.active = q.active /\ r.current = q.current
         /\ StaysRunnable(q, r, Tasks)
         /\ q.state[t] = "blocked" => r.state[t] = "ready"
         /\ Alike(q, r, Tasks \ {t})
  <1>1. /\ q \in RunQueues
        /\ q.state \in [Tasks -> TaskStates] /\ q.frame \in [Tasks -> FrameStates]
    BY DEF QueueOK, RunQueues
  <1>2. CASE ~(t < q.count /\ q.state[t] = "blocked")
    BY <1>1, <1>2, RunQueueAssumption
       DEF WakeReplay, WakeWithResult, StaysBlocked, StaysRunnable, QueueOK,
           RunQueues, Tasks, Alike
  <1>3. CASE t < q.count /\ q.state[t] = "blocked"
    <2> DEFINE w == WakeReplay(q, t)
    <2>1. /\ w \in RunQueues
          /\ w.active = q.active /\ w.count = q.count /\ w.current = q.current
          /\ w.state = [q.state EXCEPT ![t] = "ready"]
          /\ w.frame = q.frame
      BY <1>1, <1>3 DEF WakeReplay, RunQueues, TaskStates
    <2>2. WakeWithResult(q, t) = [w EXCEPT !.frame[t] = "result"]
      BY <1>3 DEF WakeWithResult
    <2> HIDE DEF w
    <2>3. /\ r \in RunQueues
          /\ r.active = q.active /\ r.count = q.count /\ r.current = q.current
          /\ r.state = [q.state EXCEPT ![t] = "ready"]
          /\ r.frame \in {q.frame, [q.frame EXCEPT ![t] = "result"]}
      <3>1. CASE r = w
        BY <2>1, <3>1
      <3>2. CASE r = [w EXCEPT !.frame[t] = "result"]
        <4>1. r \in RunQueues
          BY <2>1, <3>2 DEF RunQueues, FrameStates
        <4>2. /\ r.active = w.active /\ r.count = w.count
              /\ r.current = w.current /\ r.state = w.state
              /\ r.frame = [w.frame EXCEPT ![t] = "result"]
          BY <2>1, <3>2 DEF RunQueues
        <4> QED BY <2>1, <4>1, <4>2
      <3> QED BY <2>2, <3>1, <3>2 DEF w
    <2>4. QueueOK(r)
      BY <1>1, <1>3, <2>3 DEF QueueOK
    <2>5. Runner(r)
      BY <1>1, <1>3, <2>3 DEF Runner
    <2>6. StaysBlocked(q, r, Tasks \ {t}) /\ StaysRunnable(q, r, Tasks)
          /\ r.state[t] = "ready"
      BY <1>1, <2>3 DEF StaysBlocked, StaysRunnable
    <2>7. Alike(q, r, Tasks \ {t})
      BY <1>1, <2>3 DEF Alike
    <2> QED BY <1>3, <2>3, <2>4, <2>5, <2>6, <2>7
  <1> QED BY <1>2, <1>3

(* on_exit hands the CPU over, or leaves an inactive queue. *)
LEMMA ExitKeeps ==
  ASSUME NEW q, QueueOK(q), Runner(q), q.active
  PROVE  /\ QueueOK(OnExit(q))
         /\ Runner(OnExit(q))
         /\ StaysBlocked(q, OnExit(q), Tasks)
         /\ StaysRunnable(q, OnExit(q), Tasks \ {q.current})
         /\ OnExit(q).state[q.current] = "exited"
         /\ Alike(q, OnExit(q), Tasks \ {q.current})
  <1> DEFINE cur == q.current
             e == [q EXCEPT !.state[cur] = "exited"]
             n == NextRunnable(e, cur)
  <1>1. /\ q \in RunQueues /\ q.count \in 0 .. TaskLimit
        /\ cur \in Tasks /\ cur < q.count /\ q.state[cur] = "running"
        /\ q.state \in [Tasks -> TaskStates] /\ q.frame \in [Tasks -> FrameStates]
    BY RunQueueAssumption DEF QueueOK, RunQueues, NoTask, Runner
  <1>2. /\ e \in RunQueues
        /\ e.active = q.active /\ e.count = q.count /\ e.current = cur
        /\ e.state = [q.state EXCEPT ![cur] = "exited"]
        /\ e.frame = q.frame
    BY <1>1 DEF RunQueues, TaskStates
  <1> HIDE DEF e
  <1>3. /\ QueueOK(e) /\ NobodyRuns(e) /\ StaysBlocked(q, e, Tasks)
        /\ StaysRunnable(q, e, Tasks \ {cur})
    <2>1. QueueOK(e)
      BY <1>1, <1>2, RunQueueAssumption DEF QueueOK, Tasks
    <2>2. NobodyRuns(e) /\ StaysBlocked(q, e, Tasks)
          /\ StaysRunnable(q, e, Tasks \ {cur})
      BY <1>1, <1>2 DEF NobodyRuns, StaysBlocked, StaysRunnable, Runner
    <2> QED BY <2>1, <2>2
  <1>4. CASE n # NoTask
    <2>1. n \in Tasks /\ Ready(e, n)
      BY <1>1, <1>2, <1>4, NextIsReady
    <2>2. OnExit(q) = Dispatch(e, n)
      BY <1>4 DEF OnExit, e
    <2> HIDE DEF n
    <2>3. /\ QueueOK(Dispatch(e, n)) /\ Runner(Dispatch(e, n))
          /\ StaysBlocked(e, Dispatch(e, n), Tasks)
          /\ StaysRunnable(e, Dispatch(e, n), Tasks)
          /\ Alike(e, Dispatch(e, n), Tasks)
      BY <1>2, <1>3, <2>1, DispatchKeeps
    <2>4. /\ \A u \in Tasks \ {cur} : e.state[u] = q.state[u]
          /\ e.state[cur] = "exited"
      BY <1>1, <1>2
    <2>5. /\ Alike(q, Dispatch(e, n), Tasks \ {cur})
          /\ Dispatch(e, n).state[cur] = "exited"
      BY <1>1, <2>3, <2>4 DEF Alike
    <2> QED BY <1>3, <2>2, <2>3, <2>5 DEF StaysBlocked, StaysRunnable
  <1>5. CASE n = NoTask
    <2> DEFINE f == Forget(e)
               r == [f EXCEPT !.active = FALSE, !.current = NoTask]
    <2>1. QueueOK(f) /\ f.state = e.state
      BY <1>3, ForgetKeeps
    <2>2. f \in RunQueues
      BY <2>1 DEF QueueOK
    <2>3. OnExit(q) = r
      BY <1>5 DEF OnExit, e
    <2> HIDE DEF f
    <2>4. /\ r \in RunQueues /\ ~r.active
          /\ r.state = f.state /\ r.frame = f.frame /\ r.count = f.count
      BY <2>2 DEF RunQueues
    <2> HIDE DEF r
    <2>5. QueueOK(r)
      BY <2>1, <2>4 DEF QueueOK
    <2>6. /\ Runner(r) /\ StaysBlocked(q, r, Tasks)
          /\ StaysRunnable(q, r, Tasks \ {cur})
      BY <1>3, <2>1, <2>4 DEF Runner, NobodyRuns, StaysBlocked, StaysRunnable
    <2>7. Alike(q, r, Tasks \ {cur}) /\ r.state[cur] = "exited"
      BY <1>1, <1>2, <2>1, <2>4 DEF Alike
    <2> QED BY <2>3, <2>5, <2>6, <2>7
  <1> QED BY <1>4, <1>5

(* The timer interrupt, in its three parts.  Preemption makes the current  *)
(* task ready, so the last part always finds somebody to run.              *)
LEMMA PreemptKeeps ==
  ASSUME NEW q, QueueOK(q), Runner(q), q.active
  PROVE  /\ QueueOK(Preempt(q)) /\ NobodyRuns(Preempt(q))
         /\ Preempt(q).active /\ Preempt(q).current = q.current
         /\ Preempt(q).state[q.current] = "ready"
         /\ StaysBlocked(q, Preempt(q), Tasks)
         /\ StaysRunnable(q, Preempt(q), Tasks)
  <1> DEFINE cur == q.current
             p == Preempt(q)
  <1>1. /\ q \in RunQueues /\ q.count \in 0 .. TaskLimit
        /\ cur \in Tasks /\ cur < q.count /\ q.state[cur] = "running"
        /\ q.state \in [Tasks -> TaskStates] /\ q.frame \in [Tasks -> FrameStates]
    BY RunQueueAssumption DEF QueueOK, RunQueues, NoTask, Runner
  <1>2. /\ p \in RunQueues
        /\ p.active = q.active /\ p.count = q.count /\ p.current = cur
        /\ p.state = [q.state EXCEPT ![cur] = "ready"]
        /\ p.frame = [q.frame EXCEPT ![cur] = "saved"]
    BY <1>1 DEF Preempt, RunQueues, TaskStates, FrameStates
  <1> HIDE DEF p
  <1>3. QueueOK(p)
    BY <1>1, <1>2, RunQueueAssumption DEF QueueOK, Tasks
  <1>4. /\ NobodyRuns(p) /\ p.state[cur] = "ready"
        /\ StaysBlocked(q, p, Tasks) /\ StaysRunnable(q, p, Tasks)
    BY <1>1, <1>2 DEF NobodyRuns, StaysBlocked, StaysRunnable, Runner
  <1> QED BY <1>2, <1>3, <1>4 DEF p

(* The end of on_timer dispatches another ready task, or the current one. *)
LEMMA SwitchKeeps ==
  ASSUME NEW q, QueueOK(q), NobodyRuns(q), q.active,
         q.state[q.current] = "ready"
  PROVE  /\ QueueOK(SwitchOnTimer(q)) /\ Runner(SwitchOnTimer(q))
         /\ StaysBlocked(q, SwitchOnTimer(q), Tasks)
         /\ StaysRunnable(q, SwitchOnTimer(q), Tasks)
  <1> DEFINE n == NextRunnable(q, q.current)
             t == IF n # NoTask THEN n ELSE q.current
  <1>1. q \in RunQueues /\ q.current \in Tasks /\ q.current < q.count
    BY RunQueueAssumption DEF QueueOK, RunQueues, NoTask
  <1>2. t \in Tasks /\ Ready(q, t)
    <2>1. CASE n # NoTask
      BY <1>1, <2>1, NextIsReady
    <2>2. CASE n = NoTask
      BY <1>1, <2>2 DEF Ready
    <2> QED BY <2>1, <2>2
  <1>3. SwitchOnTimer(q) = Dispatch(q, t)
    BY DEF SwitchOnTimer
  <1> HIDE DEF t
  <1> QED BY <1>2, <1>3, DispatchKeeps

(* SCHEDULER64_INVALID_TASK names no slot. *)
LEMMA NoTaskIsNone == NoTask \notin Tasks
  BY RunQueueAssumption DEF NoTask, Tasks

(* A reset queue satisfies what the operators keep. *)
LEMMA EmptyIsOK == QueueOK(EmptyQueue) /\ Runner(EmptyQueue)
  BY RunQueueAssumption
     DEF EmptyQueue, QueueOK, Runner, RunQueues, TaskStates, FrameStates

=============================================================================
