------------------------------ MODULE RunQueue ------------------------------
(***************************************************************************)
(* The x86_64 run queue (kernel/arch/x86_64/scheduler.c) as operators on   *)
(* one record, so that every component which blocks, wakes or ends a task  *)
(* uses the same queue.                                                    *)
(*                                                                         *)
(*   active, current    g_runqueue.active and current_task                 *)
(*   count              g_runqueue.task_count                              *)
(*   preferred          g_scheduler64_preferred_task                       *)
(*   state[t]           tasks[t].state                                     *)
(*   frame[t]           what tasks[t].frame is worth: "none" for an unused *)
(*                      slot, "saved" when it holds the context to resume, *)
(*                      "result" when a wake also wrote rax into it, and   *)
(*                      "live" while the newer context is on the CPU       *)
(*                                                                         *)
(* frame_valid is not a field of its own: it is set exactly when a slot is *)
(* registered and cleared with the slot.  The switch of CR3 cannot fail:   *)
(* scheduler64_switch_cr3_for_task asks for a root only when the process   *)
(* has one.                                                                *)
(***************************************************************************)
EXTENDS Integers, FiniteSetsExt

CONSTANT TaskLimit      \* SCHEDULER64_RUNQUEUE_TASK_LIMIT

ASSUME RunQueueAssumption == TaskLimit \in Nat \ {0}

Tasks == 0 .. TaskLimit - 1

\* SCHEDULER64_INVALID_TASK, an identifier no task_count can reach.
NoTask == TaskLimit

TaskStates == {"unused", "ready", "running", "exited", "blocked"}
FrameStates == {"none", "live", "saved", "result"}

RunQueues ==
  [active : BOOLEAN, count : 0 .. TaskLimit,
   current : Tasks \cup {NoTask}, preferred : Tasks \cup {NoTask},
   state : [Tasks -> TaskStates], frame : [Tasks -> FrameStates]]

(* scheduler64_runqueue_reset, which stop always precedes. *)
EmptyQueue ==
  [active |-> FALSE, count |-> 0, current |-> NoTask, preferred |-> NoTask,
   state |-> [t \in Tasks |-> "unused"], frame |-> [t \in Tasks |-> "none"]]

Ready(q, t) == t < q.count /\ q.state[t] = "ready"

-----------------------------------------------------------------------------
(* Registering a task: the lowest unused or exited slot below task_count,  *)
(* else a new one.                                                         *)

(* Mutant: a ready task's slot is taken for free. *)
FreeOrReadySlots(q) ==
  {t \in Tasks : t < q.count /\ q.state[t] \in {"unused", "exited", "ready"}}

FreeSlots(q) ==
  {t \in Tasks : t < q.count /\ q.state[t] \in {"unused", "exited"}}

AllocateSlot(q) == IF FreeSlots(q) # {} THEN Min(FreeSlots(q)) ELSE q.count

(* Mutant: a reused slot counts as a new one. *)
RegisterTaskCounting(q, t) ==
  [q EXCEPT !.state[t] = "ready", !.frame[t] = "saved", !.count = @ + 1]

RegisterTask(q, t) ==
  [q EXCEPT !.state[t] = "ready", !.frame[t] = "saved",
            !.count = IF t = @ THEN @ + 1 ELSE @]

-----------------------------------------------------------------------------
(* Choosing who runs next: the task woken last, when it can run, else      *)
(* round-robin from the current one.  Asking forgets the preference,       *)
(* whatever the answer.                                                    *)

Forget(q) == [q EXCEPT !.preferred = NoTask]

Offsets(q, cur) == {o \in 1 .. q.count - 1 : Ready(q, (cur + o) % q.count)}

(* Mutant: the search starts at slot 0 instead of after the current task. *)
LowestRunnable(q, cur) ==
  LET others == {t \in Tasks \ {cur} : Ready(q, t)}
  IN IF others # {} THEN Min(others) ELSE NoTask

NextRunnable(q, cur) ==
  IF q.preferred # cur /\ Ready(q, q.preferred)
  THEN q.preferred
  ELSE IF Offsets(q, cur) # {} THEN (cur + Min(Offsets(q, cur))) % q.count
                               ELSE NoTask

Dispatch(q, t) ==
  [Forget(q) EXCEPT !.state[t] = "running", !.frame[t] = "live",
                    !.current = t]

StartQueue(q, t) ==
  [q EXCEPT !.active = TRUE, !.current = t,
            !.state[t] = "running", !.frame[t] = "live"]

-----------------------------------------------------------------------------
(* Blocking and waking.  Every caller blocks the current running task,     *)
(* and block_task refuses unless another task can take the CPU.            *)

(* Mutant: the last runnable task may block. *)
CanBlockAlone(q) == q.active /\ q.state[q.current] = "running"

CanBlock(q) ==
  /\ q.active
  /\ q.state[q.current] = "running"
  /\ NextRunnable(q, q.current) # NoTask

(* scheduler64_runqueue_block_task; also what a refusal leaves behind. *)
BlockTask(q) ==
  IF CanBlock(q) THEN [Forget(q) EXCEPT !.state[q.current] = "blocked"]
                 ELSE Forget(q)

(* Mutant: the frame of the blocked task is not saved. *)
SwitchWithoutSaving(q) ==
  LET next == NextRunnable(q, q.current)
  IN IF next = NoTask THEN Forget(q) ELSE Dispatch(q, next)

(* scheduler64_runqueue_on_blocked_syscall: save, then switch away. *)
OnBlockedSyscall(q) ==
  LET saved == [q EXCEPT !.frame[q.current] = "saved"]
      next == NextRunnable(saved, q.current)
  IN IF next = NoTask THEN Forget(saved) ELSE Dispatch(saved, next)

(* A system call that blocks: block_task, then the return path. *)
BlockAndSwitch(q) == OnBlockedSyscall(BlockTask(q))

WakeReplay(q, t) ==
  IF t < q.count /\ q.state[t] = "blocked"
  THEN [q EXCEPT !.state[t] = "ready", !.preferred = t]
  ELSE q

WakeWithResult(q, t) ==
  IF t < q.count /\ q.state[t] = "blocked"
  THEN [WakeReplay(q, t) EXCEPT !.frame[t] = "result"]
  ELSE q

-----------------------------------------------------------------------------
(* scheduler64_runqueue_on_exit: with nobody ready the queue goes          *)
(* inactive, blocked tasks or not.                                         *)

OnExit(q) ==
  LET exited == [q EXCEPT !.state[q.current] = "exited"]
      next == NextRunnable(exited, q.current)
  IN IF next # NoTask
     THEN Dispatch(exited, next)
     ELSE [Forget(exited) EXCEPT !.active = FALSE, !.current = NoTask]

(* scheduler64_runqueue_on_timer, before and after the sleep queue. *)
Preempt(q) ==
  [q EXCEPT !.frame[q.current] = "saved",
            !.state[q.current] = IF @ = "running" THEN "ready" ELSE @]

(* Mutant: a task that can go on keeps the CPU. *)
ResumeOnTimer(q) ==
  IF q.state[q.current] = "ready" THEN Dispatch(q, q.current) ELSE Forget(q)

SwitchOnTimer(q) ==
  LET next == NextRunnable(q, q.current)
      cur == q.current
  IN IF next # NoTask
     THEN Dispatch(q, next)
     ELSE IF q.state[cur] = "ready" THEN Dispatch(q, cur) ELSE Forget(q)

=============================================================================
