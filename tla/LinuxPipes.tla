----------------------------- MODULE LinuxPipes -----------------------------
(***************************************************************************)
(* Pipes between forked Linux processes: pipe objects (pipe.c), descriptor *)
(* tables (fd.c), the system calls that use them and fork, exit and wait4  *)
(* (linux_abi.c, syscall.c), over the run queue.  The queue is cooperative *)
(* here: it switches when a call blocks or a process exits, and a system   *)
(* call with its return path is one action.                                *)
(*                                                                         *)
(*   rq             the run queue                                          *)
(*   pidOf[t]       the process of task t, 0 for none or an exited one     *)
(*   nextPid        g_process64_next_clone_pid                             *)
(*   fds[p]         fd64 table of p: a handle or NoHandle for each number  *)
(*   pipes[i]       g_pipe64_objects; an end is closed when its count of   *)
(*                  references is 0; data is abstracted to byte_count      *)
(*   clones[i]      g_linux_abi64_clone_records with the waiter, if any    *)
(*   exited         processes with an exit record                          *)
(*   pending        processes with an unmasked pending SIGCHLD or SIGPIPE  *)
(*   replay[t]      the call that the saved frame of t makes again when it *)
(*                  resumes, or NoCall                                     *)
(*                                                                         *)
(* All processes here descend from one program and share its principal, so *)
(* the owner and grantee tests of pipe64_find always succeed.  They leave  *)
(* SIGCHLD and SIGPIPE at the default action; whether these are masked is  *)
(* decided before the first fork, and a child inherits the mask.           *)
(***************************************************************************)
EXTENDS RunQueue, FiniteSets

CONSTANTS
  MaxPid,         \* bound: processes ever created, the first is 1
  FdLimit,        \* FD64_TABLE_LIMIT
  PipeLimit,      \* PIPE64_MAX_OBJECTS
  CloneLimit,     \* LINUX_ABI64_CLONE_RECORD_LIMIT
  Capacity,       \* PIPE64_BUFFER_BYTES
  Chunks,         \* byte counts of a read or write, capped by linux_abi.c
  HandleGens,     \* generations a handle can tell apart, 2^12 in the code
  MaxGeneration,  \* bound: pipes created in one slot
  MayDup,         \* whether programs duplicate descriptors
  AliasedForks,   \* whether a table with duplicates may be forked
  SignalsMasked   \* whether rt_sigprocmask has blocked SIGCHLD and SIGPIPE

ASSUME LinuxPipesAssumption ==
  /\ {MaxPid, FdLimit, PipeLimit, CloneLimit, Capacity} \subseteq Nat \ {0}
  /\ {HandleGens, MaxGeneration} \subseteq Nat \ {0}
  /\ Chunks \subseteq 1 .. Capacity
  /\ {MayDup, AliasedForks, SignalsMasked} \subseteq BOOLEAN

Pids == 1 .. MaxPid
Main == 1
Fds == 0 .. FdLimit - 1
Ends == {"read", "write"}
Other(k) == IF k = "read" THEN "write" ELSE "read"

Handles == [pipe : 1 .. PipeLimit, gen : 0 .. HandleGens - 1, end : Ends]
NoHandle == [pipe |-> 0, gen |-> 0, end |-> "none"]
NoCall == [fd |-> 0, bytes |-> 0]
Calls == [fd : Fds, bytes : Chunks] \cup {NoCall}
NoClone == [parent |-> 0, child |-> 0, waiter |-> NoTask]

VARIABLES rq, pidOf, nextPid, fds, pipes, clones, exited, pending, replay
vars == <<rq, pidOf, nextPid, fds, pipes, clones, exited, pending, replay>>

EmptyTable == [f \in Fds |-> NoHandle]

(* pipe64_clear_object keeps the generation. *)
ClearedPipe(gen) ==
  [live |-> FALSE, gen |-> gen, refs |-> [k \in Ends |-> 0], bytes |-> 0,
   blocked |-> [k \in Ends |-> NoTask]]

-----------------------------------------------------------------------------
(* Operations on s, a record of the pipe objects and the run queue. *)

Find(ps, h) == h # NoHandle /\ ps[h.pipe].live /\ ps[h.pipe].gen = h.gen

(* Mutant: the slot keeps the task it woke. *)
WakeBlockedKeepingSlot(s, i, k) ==
  [s EXCEPT !.rq = WakeReplay(s.rq, s.pipes[i].blocked[k])]

WakeBlocked(s, i, k) ==
  LET t == s.pipes[i].blocked[k]
  IN IF t = NoTask
     THEN s
     ELSE [pipes |-> [s.pipes EXCEPT ![i].blocked[k] = NoTask],
           rq |-> WakeReplay(s.rq, t)]

DropReference(s, h) ==
  LET left == Max({s.pipes[h.pipe].refs[h.end] - 1, 0})
      dropped == [s EXCEPT !.pipes[h.pipe].refs[h.end] = left]
  IN IF left = 0 THEN WakeBlocked(dropped, h.pipe, Other(h.end)) ELSE dropped

(* Mutant: the object goes with the last reference of either end. *)
OneEndClosed(pipe) == \E k \in Ends : pipe.refs[k] = 0

BothEndsClosed(pipe) == \A k \in Ends : pipe.refs[k] = 0

(* pipe64_revoke_handle: drop a reference; the last one of an end wakes    *)
(* the task blocked on the other end, the last of both clears the object.  *)
Revoke(s, h) ==
  LET dropped == DropReference(s, h)
  IN CASE ~Find(s.pipes, h) -> s
       [] Find(s.pipes, h) /\ BothEndsClosed(dropped.pipes[h.pipe]) ->
            [dropped EXCEPT !.pipes[h.pipe] = ClearedPipe(@.gen)]
       [] OTHER -> dropped

Aliased(table, f) == \E g \in Fds : g # f /\ table[g] = table[f]

(* Mutant: closing an alias revokes the handle. *)
FreeFdAlways(s, table, f) ==
  IF table[f] = NoHandle THEN s ELSE Revoke(s, table[f])

(* fd64_free: only the last alias in a table gives the reference back. *)
FreeFd(s, table, f) ==
  IF table[f] = NoHandle \/ Aliased(table, f) THEN s ELSE Revoke(s, table[f])

(* fd64_release_process: one revocation for each handle of the table, in   *)
(* the order of the descriptors.                                           *)
FirstOfShared(table, f) == \A g \in Fds : table[g] = table[f] => f <= g

ReleaseFd(s, table, f) ==
  IF table[f] # NoHandle /\ FirstOfShared(table, f) THEN Revoke(s, table[f]) ELSE s

ReleaseSteps(s, table) ==
  LET after[n \in 0 .. FdLimit] ==
        IF n = 0 THEN s ELSE ReleaseFd(after[n - 1], table, n - 1)
  IN after

ReleaseTable(s, table) == ReleaseSteps(s, table)[FdLimit]

(* fd64_fork_process: pipe64_grant_endpoint_at for each descriptor, in     *)
(* order, until one is refused; the child then gives back what it got.     *)
Grantable(ps, h) == Find(ps, h) /\ ps[h.pipe].refs[h.end] # 0

GrantFd(acc, h, f) ==
  IF h = NoHandle \/ ~acc.ok
  THEN acc
  ELSE IF Grantable(acc.s.pipes, h)
       THEN [acc EXCEPT !.s.pipes[h.pipe].refs[h.end] = @ + 1, !.table[f] = h]
       ELSE [acc EXCEPT !.ok = FALSE]

GrantSteps(s, table) ==
  LET after[n \in 0 .. FdLimit] ==
        IF n = 0 THEN [s |-> s, table |-> EmptyTable, ok |-> TRUE]
                 ELSE GrantFd(after[n - 1], table[n - 1], n - 1)
  IN after

GrantTable(s, table) == GrantSteps(s, table)[FdLimit]

-----------------------------------------------------------------------------
(* linux_exec.c registers the program as the only task and starts it. *)
Init ==
  /\ rq = StartQueue(RegisterTask(EmptyQueue, 0), 0)
  /\ pidOf = [t \in Tasks |-> IF t = 0 THEN Main ELSE 0]
  /\ nextPid = 2
  /\ fds = [p \in Pids |-> EmptyTable]
  /\ pipes = [i \in 1 .. PipeLimit |-> ClearedPipe(1)]
  /\ clones = [i \in 1 .. CloneLimit |-> NoClone]
  /\ exited = {}
  /\ pending = {}
  /\ replay = [t \in Tasks |-> NoCall]

Here == [pipes |-> pipes, rq |-> rq]
Set(s) == pipes' = s.pipes /\ rq' = s.rq

(* The calling process, in user mode with nothing to replay. *)
Calling(p) ==
  /\ rq.active
  /\ p = pidOf[rq.current]
  /\ replay[rq.current] = NoCall

(* A raised signal stays pending: linux_abi64_signal_deliver_pending       *)
(* returns before it clears one that is masked or has the default action.  *)
(* The mask does not change, so a masked one is never looked at again.     *)
Raise(p) == IF SignalsMasked THEN pending ELSE pending \cup {p}

-----------------------------------------------------------------------------
(* pipe2: lowest free object and the two lowest free descriptors.  When    *)
(* there is no room for both, the object is cleared again.                 *)

FreeFds(p) == {f \in Fds : fds[p][f] = NoHandle}

FreePipes == {i \in 1 .. PipeLimit : ~pipes[i].live}

NewHandle(i, k) ==
  [pipe |-> i, gen |-> (pipes[i].gen + 1) % HandleGens, end |-> k]

NewPipe(i) ==
  [ClearedPipe(pipes[i].gen + 1) EXCEPT !.live = TRUE,
                                        !.refs = [k \in Ends |-> 1]]

(* Mutant: the read end is given back, the object stays. *)
HalfOpenPipe(i) == [NewPipe(i) EXCEPT !.refs["read"] = 0]

AbandonedPipe(i) == ClearedPipe(pipes[i].gen + 1)

Pipe2(p) ==
  LET i == Min(FreePipes)
      rfd == Min(FreeFds(p))
      wfd == Min(FreeFds(p) \ {rfd})
  IN /\ Calling(p)
     /\ FreePipes # {}
     /\ pipes[i].gen < MaxGeneration
     /\ IF Cardinality(FreeFds(p)) >= 2
        THEN /\ pipes' = [pipes EXCEPT ![i] = NewPipe(i)]
             /\ fds' = [fds EXCEPT ![p][rfd] = NewHandle(i, "read"),
                                   ![p][wfd] = NewHandle(i, "write")]
        ELSE pipes' = [pipes EXCEPT ![i] = AbandonedPipe(i)] /\ UNCHANGED fds
     /\ UNCHANGED <<rq, pidOf, nextPid, clones, exited, pending, replay>>

Close(p, f) ==
  /\ Calling(p)
  /\ fds[p][f] # NoHandle
  /\ Set(FreeFd(Here, fds[p], f))
  /\ fds' = [fds EXCEPT ![p][f] = NoHandle]
  /\ UNCHANGED <<pidOf, nextPid, clones, exited, pending, replay>>

(* fd64_dup_into, for dup, dup2 and dup3: what new held is closed first. *)
Dup(p, old, new) ==
  /\ MayDup
  /\ Calling(p)
  /\ old # new
  /\ fds[p][old] # NoHandle
  /\ Set(FreeFd(Here, fds[p], new))
  /\ fds' = [fds EXCEPT ![p][new] = fds[p][old]]
  /\ UNCHANGED <<pidOf, nextPid, clones, exited, pending, replay>>

-----------------------------------------------------------------------------
(* read and write.  A call that can move no byte blocks when the object    *)
(* has no task blocked on this end and the queue has another one to run.   *)
(* Its saved frame replays the call unless an unmasked signal is pending.  *)
(* A call that is cut short by an empty or a full pipe wakes nobody.       *)

(* Mutant: a full pipe takes one more byte. *)
RoomPlusOne(i, k) == IF k = "read" THEN pipes[i].bytes
                                   ELSE Capacity + 1 - pipes[i].bytes

Room(i, k) == IF k = "read" THEN pipes[i].bytes
                            ELSE Capacity - pipes[i].bytes

(* Mutant: a read never wakes the blocked writer. *)
WriteIsComplete(k, moved, n) == k = "write" /\ moved = n

IsComplete(k, moved, n) == moved = n

Transfer(i, k, n) ==
  LET moved == Min({n, Room(i, k)})
      left == IF k = "read" THEN pipes[i].bytes - moved
                            ELSE pipes[i].bytes + moved
      done == [Here EXCEPT !.pipes[i].bytes = left]
  IN /\ Set(IF IsComplete(k, moved, n) THEN WakeBlocked(done, i, Other(k)) ELSE done)
     /\ replay' = [replay EXCEPT ![rq.current] = NoCall]
     /\ UNCHANGED pending

SlotInUse(i, k) == pipes[i].blocked[k] # NoTask

Block(p, i, k, call) ==
  /\ ~SlotInUse(i, k)
  /\ CanBlock(rq)
  /\ pipes' = [pipes EXCEPT ![i].blocked[k] = rq.current]
  /\ rq' = BlockAndSwitch(rq)
  /\ replay' = [replay EXCEPT ![rq.current] =
                  IF p \in pending THEN NoCall ELSE call]
  /\ UNCHANGED pending

(* A write that fails, or cannot block, is an EPIPE and raises SIGPIPE; a  *)
(* read that does is an EBADF.                                             *)
Fail(p, k, q) ==
  /\ rq' = q
  /\ pending' = IF k = "write" THEN Raise(p) ELSE pending
  /\ replay' = [replay EXCEPT ![rq.current] = NoCall]
  /\ UNCHANGED pipes

EndOfFile ==
  /\ replay' = [replay EXCEPT ![rq.current] = NoCall]
  /\ UNCHANGED <<rq, pipes, pending>>

Usable(h) ==
  /\ Find(pipes, h)
  /\ pipes[h.pipe].refs[h.end] # 0
  /\ h.end = "write" => pipes[h.pipe].refs["read"] # 0

PipeIo(p, f, n) ==
  LET h == fds[p][f]
      i == h.pipe
      k == h.end
      call == [fd |-> f, bytes |-> n]
      stuck == Usable(h) /\ Room(i, k) = 0
  IN /\ rq.active
     /\ p = pidOf[rq.current]
     /\ replay[rq.current] \in {NoCall, call}
     /\ h # NoHandle
     /\ \/ ~Usable(h) /\ Fail(p, k, rq)
        \/ Usable(h) /\ ~stuck /\ Transfer(i, k, n)
        \/ stuck /\ k = "read" /\ pipes[i].refs["write"] = 0 /\ EndOfFile
        \/ /\ stuck
           /\ k = "read" => pipes[i].refs["write"] # 0
           /\ \/ Block(p, i, k, call)
              \/ SlotInUse(i, k) /\ Fail(p, k, rq)
              \/ /\ ~SlotInUse(i, k)
                 /\ ~CanBlock(rq)
                 /\ Fail(p, k, BlockTask(rq))
     /\ UNCHANGED <<pidOf, nextPid, fds, clones, exited>>

-----------------------------------------------------------------------------
(* fork, exit and wait4. *)

FreeClones == {i \in 1 .. CloneLimit : clones[i] = NoClone}

(* The child's process record is made first, so a fork that fails later    *)
(* has used up its identifier.                                             *)
Fork(p) ==
  LET grant == GrantTable(Here, fds[p])
      slot == AllocateSlot(rq)
  IN /\ Calling(p)
     /\ FreeClones # {}
     /\ nextPid \in Pids
     /\ AliasedForks \/ \A f \in Fds : fds[p][f] # NoHandle => ~Aliased(fds[p], f)
     /\ nextPid' = nextPid + 1
     /\ IF grant.ok /\ slot < TaskLimit
        THEN /\ Set([grant.s EXCEPT !.rq = RegisterTask(@, slot)])
             /\ pidOf' = [pidOf EXCEPT ![slot] = nextPid]
             /\ fds' = [fds EXCEPT ![nextPid] = grant.table]
             /\ clones' = [clones EXCEPT ![Min(FreeClones)] =
                  [parent |-> p, child |-> nextPid, waiter |-> NoTask]]
        ELSE /\ Set(ReleaseTable(grant.s, grant.table))
             /\ UNCHANGED <<pidOf, fds, clones>>
     /\ UNCHANGED <<exited, pending, replay>>

CloneOf(child) == CHOOSE i \in 1 .. CloneLimit : clones[i].child = child

(* The descriptors go first, then the parent gets SIGCHLD, and a parent    *)
(* blocked in wait4 for this child is woken with the result and the child  *)
(* reaped for it.  Without one, the clone and exit records stay.           *)
(* Mutant: a child that was waited for keeps its record. *)
ReapedKeepingRecord(i) == [clones EXCEPT ![i].waiter = NoTask]

Reaped(i) == [clones EXCEPT ![i] = NoClone]

Exit(p) ==
  LET i == CloneOf(p)
      parent == clones[i].parent
      waiter == clones[i].waiter
      freed == ReleaseTable(Here, fds[p])
  IN /\ Calling(p)
     /\ p # Main
     /\ fds' = [fds EXCEPT ![p] = EmptyTable]
     /\ pidOf' = [pidOf EXCEPT ![rq.current] = 0]
     /\ pending' = (IF \E t \in Tasks : pidOf[t] = parent
                    THEN Raise(parent) ELSE pending) \ {p}
     /\ pipes' = freed.pipes
     /\ IF waiter # NoTask
        THEN /\ rq' = OnExit(WakeWithResult(freed.rq, waiter))
             /\ clones' = Reaped(i)
             /\ UNCHANGED exited
        ELSE /\ rq' = OnExit(freed.rq)
             /\ exited' = exited \cup {p}
             /\ UNCHANGED clones
     /\ UNCHANGED <<nextPid, replay>>

(* wait4 without WNOHANG: reap the first exited child that matches, or     *)
(* block on the first record that matches, whichever child exits first.    *)
Wait4(p, children) ==
  LET matching == {i \in 1 .. CloneLimit :
                     clones[i].parent = p /\ clones[i].child \in children}
      zombies == {i \in matching : clones[i].child \in exited}
  IN /\ Calling(p)
     /\ matching # {}
     /\ \/ /\ zombies # {}
           /\ clones' = Reaped(Min(zombies))
           /\ exited' = exited \ {clones[Min(zombies)].child}
           /\ UNCHANGED rq
        \/ /\ zombies = {}
           /\ p \notin pending
           /\ rq' = IF CanBlock(rq) THEN BlockAndSwitch(rq) ELSE BlockTask(rq)
           /\ clones' = IF CanBlock(rq)
                        THEN [clones EXCEPT ![Min(matching)].waiter = rq.current]
                        ELSE clones
           /\ UNCHANGED exited
     /\ UNCHANGED <<pidOf, nextPid, fds, pipes, pending, replay>>

-----------------------------------------------------------------------------
Next ==
  \E p \in Pids :
    \/ Pipe2(p)
    \/ \E f \in Fds : Close(p, f)
    \/ \E f, g \in Fds : Dup(p, f, g)
    \/ \E f \in Fds, n \in Chunks : PipeIo(p, f, n)
    \/ Fork(p)
    \/ Exit(p)
    \/ \E children \in {Pids} \cup {{c} : c \in Pids} : Wait4(p, children)

Spec == Init /\ [][Next]_vars

-----------------------------------------------------------------------------
Pipes ==
  [live : BOOLEAN, gen : 1 .. MaxGeneration, refs : [Ends -> Nat],
   bytes : 0 .. Capacity, blocked : [Ends -> Tasks \cup {NoTask}]]

Clones == [parent : Pids, child : Pids, waiter : Tasks \cup {NoTask}]

(* The values each variable takes. *)
TypeOK ==
  /\ rq \in RunQueues
  /\ pidOf \in [Tasks -> Pids \cup {0}]
  /\ nextPid \in 2 .. MaxPid + 1
  /\ fds \in [Pids -> [Fds -> Handles \cup {NoHandle}]]
  /\ pipes \in [1 .. PipeLimit -> Pipes]
  /\ clones \in [1 .. CloneLimit -> Clones \cup {NoClone}]
  /\ exited \subseteq Pids
  /\ pending \subseteq Pids
  /\ replay \in [Tasks -> Calls]

BlockedOn(t) ==
  {b \in (1 .. PipeLimit) \X Ends : pipes[b[1]].blocked[b[2]] = t}
WaitsFor(t) == {i \in 1 .. CloneLimit : clones[i].waiter = t}

(* Exactly one place remembers a blocked task, a slot of a live pipe or    *)
(* the clone record of a child that has not exited, and no place remembers *)
(* a task that is not blocked; and a task stays blocked in pipe64_read     *)
(* only while the pipe is empty and has a writer, in pipe64_write only     *)
(* while it is full and has a reader.  So no wake is lost and none goes to *)
(* a task that moved on (pipe64_wake_blocked_task,                         *)
(* wait4_complete_blocked_child). *)
NoLostWake ==
  /\ \A t \in Tasks : Cardinality(BlockedOn(t)) + Cardinality(WaitsFor(t)) =
                        IF rq.state[t] = "blocked" THEN 1 ELSE 0
  /\ \A t \in Tasks : \A b \in BlockedOn(t) : pipes[b[1]].live
  /\ \A t \in Tasks : \A i \in WaitsFor(t) : clones[i].child \notin exited
  /\ \A i \in 1 .. PipeLimit :
       /\ pipes[i].blocked["read"] # NoTask =>
            pipes[i].bytes = 0 /\ pipes[i].refs["write"] # 0
       /\ pipes[i].blocked["write"] # NoTask =>
            pipes[i].bytes = Capacity /\ pipes[i].refs["read"] # 0

Holders(i, k) == {p \in Pids : \E f \in Fds : /\ fds[p][f] # NoHandle
                                              /\ fds[p][f].pipe = i
                                              /\ fds[p][f].end = k}

(* A pipe object whose descriptors are all gone is gone too: "closing the  *)
(* fds tears the object down" (pipe.c, opening comment).                   *)
NoLeakedPipe ==
  \A i \in 1 .. PipeLimit : pipes[i].live => \E k \in Ends : Holders(i, k) # {}

(* A pipe lives as long as its descriptors and no longer.  Each table that *)
(* holds an end has a reference of its own, so that closing one table's    *)
(* descriptors causes no early end of file or EPIPE in another             *)
(* (fd64_fork_process); a descriptor names the pipe it was opened for,     *)
(* never the next one in the same slot (the generation in a pipe handle);  *)
(* and no pipe is leaked. *)
PipesLiveWithDescriptors ==
  /\ \A i \in 1 .. PipeLimit, k \in Ends :
       pipes[i].refs[k] >= Cardinality(Holders(i, k))
  /\ \A p \in Pids, f \in Fds : fds[p][f] # NoHandle => Find(pipes, fds[p][f])
  /\ NoLeakedPipe

(* A task blocked in a pipe call makes the call again when it is woken.    *)
BlockedCallsReplay ==
  \A t \in Tasks : BlockedOn(t) # {} => replay[t] # NoCall

(* The frame of a task that blocked in read or write makes the call again  *)
(* after other processes ran, closed their descriptors or exited.  It then *)
(* still finds the pipe it blocked on, whose last reader or writer may be  *)
(* gone: the descriptor of the call names a live pipe, and as long as the  *)
(* task is in a slot, that slot.  Only an unmasked pending signal keeps a  *)
(* blocked call from being made again (linux_abi64_sys_read).              *)
ReplaysReachTheirPipe ==
  \A t \in Tasks :
    LET h == fds[pidOf[t]][replay[t].fd]
    IN /\ replay[t] # NoCall => pidOf[t] # 0 /\ Find(pipes, h)
       /\ \A b \in BlockedOn(t) :
            IF replay[t] = NoCall
            THEN pidOf[t] \in pending
            ELSE h.pipe = b[1] /\ h.end = b[2]

Alive(p) == \E t \in Tasks : pidOf[t] = p

(* Every forked process has exactly one clone record until it is reaped,   *)
(* and the record's child is either alive or has its exit record: no exit  *)
(* status is lost and none is reaped twice (sys_exit, wait4).              *)
OneRecordPerChild ==
  /\ \A p \in Pids \ {Main} :
       Cardinality({i \in 1 .. CloneLimit : clones[i].child = p}) =
         IF Alive(p) \/ p \in exited THEN 1 ELSE 0
  /\ \A p \in exited : ~Alive(p)

=============================================================================
