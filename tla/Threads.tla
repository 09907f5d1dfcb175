------------------------------ MODULE Threads ------------------------------
(***************************************************************************)
(* The threads of one Linux program: clone, futex wait and wake, the word  *)
(* a thread clears when it exits, and the exit itself                      *)
(* (kernel/arch/x86_64/linux_abi.c), on the scheduler's queues.            *)
(*                                                                         *)
(*   main      the task of the process linux_exec64_run started            *)
(*   tid[t]    clear_child_tid in the clone record of the thread on task t *)
(*   word[a]   whether the word at a, a thread's identifier, is not zero   *)
(*   waiters   g_linux_abi64_futex_waiters, by index                       *)
(*   cookie[e] the waiter the callback of sleep entry e was given, or 0    *)
(*                                                                         *)
(* All threads share one page root, so a word is told apart by its address *)
(* alone.  Only the kernel writes the words of TidWords.  The words of     *)
(* Locks belong to the program: whether one has the value a waiter expects *)
(* is up to the program, so their values are left out.  Calls that are     *)
(* refused change nothing and are steps that leave every variable alone.   *)
(* wait4 and the pipes of such a program are in LinuxPipes.                *)
(***************************************************************************)
EXTENDS Scheduler

CONSTANTS
  TidWords,       \* words that hold the identifier of a thread
  Locks,          \* words the program uses as it likes
  NoAddress,      \* the null pointer
  WaiterLimit     \* LINUX_ABI64_FUTEX_WAITER_LIMIT

ASSUME ThreadsAssumption ==
  /\ TidWords \cap Locks = {}
  /\ NoAddress \notin TidWords \cup Locks
  /\ WaiterLimit \in Nat \ {0}
  /\ MayBlock

VARIABLES main, tid, word, waiters, cookie
threadVars == <<main, tid, word, waiters, cookie>>
allVars == <<rq, sleepq, tick, main, tid, word, waiters, cookie>>

Addresses == TidWords \cup Locks
WaiterSlots == 1 .. WaiterLimit

(* A waiter is active when it has an address. *)
NoWaiter == [task |-> NoTask, address |-> NoAddress, timed |-> FALSE,
             pending |-> FALSE]
WaiterRecords == [task : Tasks \cup {NoTask}, address : Addresses \cup {NoAddress},
                  timed : BOOLEAN, pending : BOOLEAN]

WaitersAt(a) == {i \in WaiterSlots : waiters[i].address = a}
FreeWaiters == WaitersAt(NoAddress)
Active(i) == waiters[i].address # NoAddress

ThreadInit ==
  /\ Init
  /\ main = NoTask
  /\ tid = [t \in Tasks |-> NoAddress]
  /\ word = [a \in TidWords |-> FALSE]
  /\ waiters = [i \in WaiterSlots |-> NoWaiter]
  /\ cookie = [e \in Tasks |-> 0]

-----------------------------------------------------------------------------
(* linux_exec64_run: the queue is filled with one task and started, and    *)
(* reset when the program is over.  The waiters of threads that were still *)
(* blocked then stay in the table; what they do to the next program is not *)
(* followed.                                                               *)

RegisterMain ==
  /\ rq = EmptyQueue
  /\ \A i \in WaiterSlots : ~Active(i)
  /\ Register
  /\ main' = AllocateSlot(rq)
  /\ tid' = [t \in Tasks |-> NoAddress]
  /\ word' = [a \in TidWords |-> FALSE]
  /\ UNCHANGED <<waiters, cookie>>

StartMain ==
  /\ main \in Tasks
  /\ Start(main)
  /\ UNCHANGED threadVars

Finish ==
  /\ StopAndReset
  /\ main' = NoTask
  /\ cookie' = [e \in Tasks |-> 0]

Cleanup ==
  /\ ~rq.active /\ rq.count # 0 /\ rq.state[main] # "ready"
  /\ Finish
  /\ UNCHANGED <<tid, word, waiters>>

-----------------------------------------------------------------------------
(* linux_abi64_sys_clone, with CLONE_PARENT_SETTID and CHILD_CLEARTID on   *)
(* one word, or without them.                                              *)
Clone(a) ==
  /\ rq.active
  /\ a \in TidWords => ~word[a]
  /\ Register
  /\ tid' = [tid EXCEPT ![AllocateSlot(rq)] = a]
  /\ word' = [w \in TidWords |-> w = a \/ word[w]]
  /\ UNCHANGED <<main, waiters, cookie>>

(* A system call that sleeps without a callback. *)
Nanosleep(n) == rq.active /\ Sleep(n, FALSE) /\ UNCHANGED threadVars

-----------------------------------------------------------------------------
(* linux_abi64_sys_futex, FUTEX_WAIT.  Interrupts are off, so the word has *)
(* the same value when it is read again, and no wake is pending.           *)

MayWait(a) ==
  /\ rq.active
  /\ a \in TidWords => word[a]
  /\ WaitersAt(a) = {}
  /\ FreeWaiters # {}

Enlisted(a, timed) ==
  [waiters EXCEPT ![Min(FreeWaiters)] =
     [task |-> rq.current, address |-> a, timed |-> timed, pending |-> FALSE]]

(* The waiter is taken back when the caller cannot block. *)
FutexWait(a) ==
  /\ MayWait(a)
  /\ WaitForEvent
  /\ waiters' = IF CanBlock(rq) THEN Enlisted(a, FALSE) ELSE waiters
  /\ UNCHANGED <<main, tid, word, cookie>>

FutexTimedWait(a, n) ==
  /\ MayWait(a)
  /\ Sleep(n, TRUE)
  /\ IF sleepq' # sleepq
     THEN /\ waiters' = Enlisted(a, TRUE)
          /\ cookie' = [cookie EXCEPT ![Min(FreeEntries)] = Min(FreeWaiters)]
     ELSE UNCHANGED <<waiters, cookie>>
  /\ UNCHANGED <<main, tid, word>>

(* linux_abi64_futex_wake_key for the waiter in slot i: the timeout goes   *)
(* first.  A task that is not blocked any more is told by wake_pending.    *)

(* Mutant: the timeout is left to expire. *)
KeepTimeout(i) == sleepq

CancelTimeout(i) ==
  IF waiters[i].timed THEN CancelSleep(waiters[i].task) ELSE sleepq

AfterWake(i) ==
  IF rq.state[waiters[i].task] \in {"ready", "running"}
  THEN [waiters EXCEPT ![i].pending = TRUE]
  ELSE [waiters EXCEPT ![i] = NoWaiter]

Cookies(entries) ==
  [e \in Tasks |-> IF entries[e] = Idle THEN 0 ELSE cookie[e]]

(* FUTEX_WAKE.  A word has one waiter at most, so the walk over the table  *)
(* ends with the first.                                                    *)
FutexWake(a) ==
  /\ rq.active
  /\ \E i \in WaitersAt(a) :
       /\ sleepq' = CancelTimeout(i)
       /\ rq' = WakeWithResult(rq, waiters[i].task)
       /\ waiters' = AfterWake(i)
       /\ cookie' = Cookies(sleepq')
  /\ UNCHANGED <<tick, main, tid, word>>

-----------------------------------------------------------------------------
(* linux_abi64_sys_exit_common for a thread: its word is cleared and the   *)
(* waiter on it woken, its own waiters are released, and the queue moves   *)
(* on.                                                                     *)

(* Mutant: the waiters of all threads are released. *)
AllReleased(w, t) == [i \in WaiterSlots |-> NoWaiter]

Released(w, t) ==
  [i \in WaiterSlots |-> IF w[i].task = t THEN NoWaiter ELSE w[i]]

(* Mutant: the word is cleared and nobody told. *)
NoJoiners(t) == {}

Joiners(t) == IF tid[t] = NoAddress THEN {} ELSE WaitersAt(tid[t])

ThreadExit ==
  LET t == rq.current
  IN  /\ rq.active /\ t # main
      /\ \/ /\ Joiners(t) = {}
            /\ Exit
            /\ waiters' = Released(waiters, t)
         \/ \E i \in Joiners(t) :
              /\ sleepq' = CancelTimeout(i)
              /\ rq' = OnExit(WakeWithResult(rq, waiters[i].task))
              /\ waiters' = Released(AfterWake(i), t)
              /\ UNCHANGED tick
      /\ cookie' = Cookies(sleepq')
      /\ tid' = [tid EXCEPT ![t] = NoAddress]
      /\ word' = [a \in TidWords |-> a # tid[t] /\ word[a]]
      /\ UNCHANGED main

(* The exit of the main process returns to linux_exec64_run at once,       *)
(* whatever the threads are doing.                                         *)
MainExit ==
  /\ rq.active /\ rq.current = main
  /\ Finish
  /\ waiters' = Released(waiters, main)
  /\ UNCHANGED <<tid, word>>

-----------------------------------------------------------------------------
(* The timer; linux_abi64_futex_timeout_callback, called for each entry    *)
(* that expires and has a cookie, clears the waiter if it still is the one *)
(* the entry was made for.                                                 *)

TimedOut(now) ==
  {cookie[e] : e \in {x \in Expired(now) :
                        /\ cookie[x] # 0
                        /\ waiters[cookie[x]].task = sleepq[x].task
                        /\ waiters[cookie[x]].timed}}

Timer ==
  /\ TimerInterrupt
  /\ waiters' = IF TimerDriven /\ rq.active
                THEN [i \in WaiterSlots |-> IF i \in TimedOut(tick') THEN NoWaiter
                                                             ELSE waiters[i]]
                ELSE waiters
  /\ cookie' = Cookies(sleepq')
  /\ UNCHANGED <<main, tid, word>>

ThreadNext ==
  \/ RegisterMain
  \/ StartMain
  \/ Cleanup
  \/ \E a \in TidWords \cup {NoAddress} : Clone(a)
  \/ \E n \in Requests : Nanosleep(n)
  \/ \E a \in Addresses :
       \/ FutexWait(a)
       \/ \E n \in Requests : FutexTimedWait(a, n)
       \/ FutexWake(a)
  \/ ThreadExit
  \/ MainExit
  \/ Timer

ThreadSpec == ThreadInit /\ [][ThreadNext]_allVars

-----------------------------------------------------------------------------
(* A thread that has yet to exit clears the word at a. *)
HasThread(a) ==
  \E t \in Tasks : tid[t] = a /\ rq.state[t] \in {"ready", "running", "blocked"}

WaiterAgrees(i) ==
  /\ rq.state[waiters[i].task] = "blocked" /\ ~waiters[i].pending
  /\ waiters[i].timed <=> \E e \in Tasks : cookie[e] = i
  /\ \A e \in Tasks : sleepq[e].task = waiters[i].task => cookie[e] = i
  /\ waiters[i].address \in TidWords => HasThread(waiters[i].address)

EntryAgrees(e) ==
  /\ sleepq[e].timed <=> cookie[e] # 0
  /\ cookie[e] # 0 => waiters[cookie[e]].task = sleepq[e].task

(* The three tables agree while a program runs.  An active waiter's task   *)
(* is blocked, and wake_pending is never set; no task and no word has two  *)
(* waiters; a waiter has a timeout exactly if it asked for one, and the    *)
(* callback of a timeout finds the waiter it was made for, never the next  *)
(* one in the same slot.  And a thread that waits for another one's word   *)
(* waits for a thread that has yet to exit: no join hangs                  *)
(* (linux_abi64_sys_futex, linux_abi64_thread_exit_clear_tid,              *)
(* linux_abi64_futex_timeout_callback). *)
FutexBooks ==
  main # NoTask =>
    /\ \A i \in WaiterSlots : Active(i) => WaiterAgrees(i)
    /\ \A i, j \in WaiterSlots : Active(i) /\ Active(j) /\ i # j =>
         waiters[i].task # waiters[j].task /\ waiters[i].address # waiters[j].address
    /\ \A e \in Tasks : EntryAgrees(e)

(* A futex waiter leaves the table only in the step that wakes its task,   *)
(* by a wake, by the exit of the thread it waits for or by its timeout, so *)
(* a task that futex_wait blocked can always be woken again, until the     *)
(* program ends (linux_abi64_release_futex_waiters releases the waiters of *)
(* the exiting thread only). *)
NoWaiterDropped ==
  [][\A i \in WaiterSlots :
       Active(i) /\ waiters'[i] # waiters[i] /\ rq'.count # 0 =>
         /\ waiters'[i] = NoWaiter
         /\ rq'.state[waiters[i].task] \in {"ready", "running"}]_allVars

(* The threads use the scheduler as its module says: no futex call, exit   *)
(* or timeout wakes a plain sleeper, leaves a timeout behind or moves the  *)
(* run queue in a way that scheduler.c's own operations do not, so what is *)
(* proved of the scheduler holds for programs with threads. *)
ThreadsImplementScheduler == Spec

=============================================================================
