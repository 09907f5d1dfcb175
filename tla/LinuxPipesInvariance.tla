---------------------- MODULE LinuxPipesInvariance ----------------------
(***************************************************************************)
(* The calls that keep the inductive invariant of LinuxPipesLemmas: reads  *)
(* and writes that fail, transfer or block, fork, exit and the reaping of  *)
(* a child.                                                                *)
(***************************************************************************)
EXTENDS LinuxPipesLemmas

(* The provers of a leaf that names none, and their time in seconds. *)
USE ZenonT(20), SMTT(20)

-----------------------------------------------------------------------------
(* Calls that block and calls that do not leave the same tasks alive. *)
LEMMA AlikeLives ==
  ASSUME NEW q, NEW r, NEW t \in Tasks, Alike(q, r, Tasks \ {t}),
         q.state[t] \in Live <=> r.state[t] \in Live
  PROVE  \A u \in Tasks : r.state[u] \in Live <=> q.state[u] \in Live
  BY DEF Alike, Live

(* What a read or write leaves unchanged. *)
LEMMA IoTypes ==
  ASSUME PInv, NEW p \in Pids, NEW f \in Fds, NEW n \in Chunks, PipeIo(p, f, n)
  PROVE  /\ UNCHANGED <<pidOf, nextPid, fds, clones, exited>>
         /\ rq.active /\ fds' \in [Pids -> Tables]
         /\ [fd |-> f, bytes |-> n] \in Calls /\ NoCall \in Calls
         /\ fds[p][f] \in Handles
         /\ fds[p][f].pipe \in Slots /\ fds[p][f].end \in Ends
  <1>1. /\ fds[p][f] # NoHandle /\ rq.active
        /\ UNCHANGED <<pidOf, nextPid, fds, clones, exited>>
    BY Zenon DEF PipeIo
  <1>2. fds[p][f] \in Handles
    BY <1>1, Typed DEF Tables
  <1> QED BY <1>1, <1>2, Typed DEF Calls, Handles, Slots

(* A call that fails, after giving up the preference or not. *)
LEMMA FailKeeps ==
  ASSUME PInv, NEW p \in Pids, NEW k, NEW q \in {rq, Forget(rq)}, Fail(p, k, q),
         rq.active, UNCHANGED <<pidOf, nextPid, fds, clones, exited>>
  PROVE  PInv'
  <1>1. QueueOK(rq) /\ Runner(rq)
    BY Typed DEF Sound
  <1>2. /\ QueueOK(q) /\ q.state = rq.state
        /\ q.active = rq.active /\ q.current = rq.current
    BY <1>1, ForgetKeeps
  <1>3. Runner(q)
    BY <1>1, <1>2 DEF Runner
  <1>4. Here' \in States /\ Here'.pipes = pipes /\ Here'.rq = q
    BY <1>2, Typed DEF Fail, Here, States, QueueOK
  <1>5. Places(Here', clones)
    <2> DEFINE s == Here
               r == Here'
    <2>1. /\ \A j \in Slots, l \in Ends : s.pipes[j].blocked[l] \in Tasks \cup {NoTask}
          /\ \A j \in Records : clones[j].waiter \in Tasks \cup {NoTask}
      BY Typed, PlaceTypes
    <2>2. /\ \A t \in Tasks : r.rq.state[t] = "blocked" <=> s.rq.state[t] = "blocked"
          /\ \A j \in Slots, l \in Ends : r.pipes[j].blocked[l] = s.pipes[j].blocked[l]
          /\ Places(s, clones)
      BY <1>2, <1>4, Typed DEF Sound
    <2> HIDE DEF s, r
    <2>3. Places(r, clones)
      BY SMTT(20), <2>1, <2>2, SamePlaces
    <2> QED BY <2>3 DEF r
  <1>6. Sound(Here', clones)
    BY <1>2, <1>3, <1>4, <1>5, Typed DEF Sound
  <1>7. \A t \in Tasks : rq'.state[t] \in Live <=> rq.state[t] \in Live
    BY <1>2 DEF Fail
  <1>8. pending' \in SUBSET Pids
    BY DEF Fail, Raise, PInv, TypeOK
  <1>9. replay' \in [Tasks -> Calls]
    BY DEF Fail, PInv, TypeOK, Calls
  <1>10. fds' \in [Pids -> Tables]
    BY Typed
  <1> QED BY <1>6, <1>7, <1>8, <1>9, <1>10, StepKeeps

(* A read at end of file. *)
LEMMA EndOfFileKeeps ==
  ASSUME PInv, EndOfFile, UNCHANGED <<pidOf, nextPid, fds, clones, exited>>
  PROVE  PInv'
  <1>1. Here' = Here
    BY DEF EndOfFile, Here
  <1>2. replay' \in [Tasks -> Calls] /\ pending' \in SUBSET Pids
    BY DEF EndOfFile, PInv, TypeOK, Calls
  <1>3. Sound(Here', clones) /\ fds' \in [Pids -> Tables]
    BY <1>1, Typed
  <1>4. \A t \in Tasks : rq'.state[t] \in Live <=> rq.state[t] \in Live
    BY DEF EndOfFile
  <1> QED BY <1>2, <1>3, <1>4, StepKeeps

(* The minimum of two counts. *)
LEMMA MinOfTwo ==
  ASSUME NEW m \in Nat, NEW n \in Nat
  PROVE  Min({m, n}) = IF m <= n THEN m ELSE n
  <1> DEFINE x == IF m <= n THEN m ELSE n
  <1>1. x \in {m, n} /\ \A y \in {m, n} : x <= y
    OBVIOUS
  <1>2. \A z \in {m, n} : (\A y \in {m, n} : z <= y) => z = x
    OBVIOUS
  <1>3. Min({m, n}) \in {m, n} /\ \A y \in {m, n} : Min({m, n}) <= y
    BY <1>1 DEF Min
  <1> QED BY <1>2, <1>3

(* A transfer.  The slot of its own end is empty, since some byte could be *)
(* moved; if the other slot is not, the pipe was full for a read or empty  *)
(* for a write, so the transfer is complete and empties that slot.         *)
LEMMA TransferKeeps ==
  ASSUME PInv, rq.active, NEW i \in Slots, NEW k \in Ends, NEW n \in Chunks,
         Room(i, k) # 0, Transfer(i, k, n),
         UNCHANGED <<pidOf, nextPid, fds, clones, exited>>
  PROVE  PInv'
  <1> DEFINE o == Other(k)
             room == Room(i, k)
             moved == Min({n, room})
             left == IF k = "read" THEN pipes[i].bytes - moved ELSE pipes[i].bytes + moved
             done == [Here EXCEPT !.pipes[i].bytes = left]
             s == IF moved = n THEN WakeBlocked(done, i, o) ELSE done
             full == IF k = "read" THEN Capacity ELSE 0
  <1>1. /\ pipes[i] \in Pipes /\ pipes[i].bytes \in 0 .. Capacity
        /\ Capacity \in Nat \ {0} /\ n \in 1 .. Capacity
        /\ o \in Ends /\ o # k /\ Ends = {k, o} /\ Other(o) = k
    <2>1. pipes[i] \in Pipes
      BY Typed
    <2>2. o \in Ends /\ o # k /\ Ends = {k, o} /\ Other(o) = k
      BY DEF Ends, Other
    <2> QED BY <2>1, <2>2, LinuxPipesAssumption DEF Pipes
  <1>2. /\ room = IF k = "read" THEN pipes[i].bytes ELSE Capacity - pipes[i].bytes
        /\ room \in 1 .. Capacity
    BY <1>1 DEF Room
  <1>3. moved = IF n <= room THEN n ELSE room
    <2>1. n \in Nat /\ room \in Nat
      BY <1>1, <1>2
    <2> HIDE DEF room
    <2> QED BY <2>1, MinOfTwo
  <1>4. moved \in 1 .. Capacity /\ left \in 0 .. Capacity
    <2> HIDE DEF room, moved
    <2>1. moved \in 1 .. Capacity /\ moved <= room
      BY <1>1, <1>2, <1>3
    <2>2. CASE k = "read"
      BY SMTT(20), <1>1, <1>2, <2>1, <2>2
    <2>3. CASE k # "read"
      BY <1>1, <1>2, <2>1, <2>3
    <2> QED BY <2>1, <2>2, <2>3
  <1>5. Set(s) /\ UNCHANGED pending
        /\ replay' = [replay EXCEPT ![rq.current] = NoCall]
    BY DEF Transfer, IsComplete
  <1>6. pipes[i].blocked[k] = NoTask
    <2>1. pipes[i].blocked[k] # NoTask =>
            pipes[i].bytes = IF k = "read" THEN 0 ELSE Capacity
      BY Typed DEF Sound, Stuck
    <2> QED BY <1>1, <1>2, <2>1
  <1>7. pipes[i].blocked[o] # NoTask => moved = n
    <2>1. pipes[i].blocked[o] # NoTask => pipes[i].bytes = full
      <3>1. pipes[i].blocked[o] # NoTask =>
              pipes[i].bytes = IF o = "read" THEN 0 ELSE Capacity
        BY <1>1, Typed DEF Sound, Stuck
      <3> QED BY <3>1 DEF Ends, Other
    <2>2. pipes[i].bytes = full => room = Capacity
      <3> HIDE DEF room
      <3> QED BY <1>1, <1>2
    <2>3. room = Capacity => moved = n
      <3> HIDE DEF moved, room
      <3> QED BY <1>1, <1>3
    <2> HIDE DEF moved, room
    <2> QED BY <2>1, <2>2, <2>3
  <1> HIDE DEF left, moved, room, o
  <1>8. /\ done \in States /\ done.rq = rq
        /\ done.pipes = [pipes EXCEPT ![i].bytes = left]
    <2>1. [pipes[i] EXCEPT !.bytes = left] \in Pipes
      BY <1>1, <1>4 DEF Pipes
    <2>2. done.rq = rq /\ done.pipes = [pipes EXCEPT ![i].bytes = left]
          /\ done = [pipes |-> done.pipes, rq |-> done.rq]
      BY SMTT(20) DEF Here
    <2> QED BY <2>1, <2>2, Typed DEF States
  <1>9. \A j \in Slots : /\ done.pipes[j].blocked = pipes[j].blocked
                         /\ j # i => done.pipes[j] = pipes[j]
    BY SMTT(20), <1>1, <1>8, Typed DEF Pipes
  <1> HIDE DEF done
  <1>10. Places(done, clones)
    <2> DEFINE h == Here
    <2>1. /\ \A j \in Slots, l \in Ends : h.pipes[j].blocked[l] \in Tasks \cup {NoTask}
          /\ \A j \in Records : clones[j].waiter \in Tasks \cup {NoTask}
      BY Typed, PlaceTypes
    <2>2. /\ \A t \in Tasks : done.rq.state[t] = "blocked" <=> h.rq.state[t] = "blocked"
          /\ \A j \in Slots, l \in Ends : done.pipes[j].blocked[l] = h.pipes[j].blocked[l]
          /\ Places(h, clones)
      <3>1. done.rq = h.rq /\ h.pipes = pipes
        BY <1>8, Typed
      <3>2. Places(h, clones)
        BY Typed DEF Sound
      <3> HIDE DEF h
      <3> QED BY <1>9, <3>1, <3>2
    <2> HIDE DEF h
    <2> QED BY SMTT(20), <2>1, <2>2, SamePlaces
  <1>11. /\ s \in States /\ QueueOK(s.rq) /\ Runner(s.rq)
         /\ Places(s, clones) /\ Moved(rq, s.rq)
         /\ s.pipes = IF moved = n THEN [done.pipes EXCEPT ![i].blocked[o] = NoTask]
                                   ELSE done.pipes
    <2>1. QueueOK(done.rq) /\ Runner(done.rq)
      BY <1>8, Typed DEF Sound
    <2>2. CASE moved = n
      <3> DEFINE w == WakeBlocked(done, i, o)
      <3>1. /\ w \in States /\ QueueOK(w.rq) /\ Runner(w.rq)
            /\ Places(w, clones) /\ Moved(done.rq, w.rq)
            /\ w.pipes = [done.pipes EXCEPT ![i].blocked[o] = NoTask]
        BY <1>1, <1>8, <1>10, <2>1, Typed, WakeBlockedKeeps
      <3> QED BY <1>8, <2>2, <3>1
    <2>3. CASE moved # n
      BY <1>8, <1>10, <2>1, <2>3 DEF Moved
    <2> QED BY <2>2, <2>3
  <1> HIDE DEF s
  <1>12. Stuck(s.pipes)
    <2>1. \A j \in Slots, l \in Ends :
            s.pipes[j].blocked[l] # NoTask => j # i /\ s.pipes[j] = pipes[j]
      <3>1. done.pipes \in [Slots -> Pipes]
        BY <1>8 DEF States
      <3>2. \A l \in Ends : s.pipes[i].blocked[l] = NoTask
        BY SMTT(20), <1>1, <1>6, <1>7, <1>9, <1>11, <3>1 DEF Pipes
      <3>3. \A j \in Slots \ {i} : s.pipes[j] = pipes[j]
        BY <1>9, <1>11, <3>1
      <3> QED BY <3>2, <3>3
    <2> QED BY SMTT(20), <2>1, Typed DEF Sound, Stuck
  <1>13. Sound(s, clones)
    BY <1>11, <1>12 DEF Sound
  <1>14. Sound(Here', clones) /\ rq' = s.rq
    BY <1>5, <1>13, SetSound
  <1>15. \A t \in Tasks : rq'.state[t] \in Live <=> rq.state[t] \in Live
    BY <1>11, <1>14, MovedLives
  <1>16. /\ pending' \in SUBSET Pids /\ replay' \in [Tasks -> Calls]
         /\ fds' \in [Pids -> Tables]
    BY <1>5, Typed DEF PInv, TypeOK, Calls
  <1> QED BY <1>14, <1>15, <1>16, StepKeeps

(* After a call that blocks, the caller is blocked and the others are as   *)
(* blocked as they were.                                                   *)
LEMMA Blocking ==
  ASSUME PInv, rq.active, CanBlock(rq)
  PROVE  LET r == BlockAndSwitch(rq)
         IN  /\ QueueOK(r) /\ Runner(r) /\ r \in RunQueues
             /\ \A t \in Tasks : r.state[t] = "blocked" <=>
                                   t = rq.current \/ rq.state[t] = "blocked"
             /\ \A t \in Tasks : r.state[t] \in Live <=> rq.state[t] \in Live
  <1> DEFINE r == BlockAndSwitch(rq)
             cur == rq.current
  <1>1. QueueOK(rq) /\ Runner(rq)
    BY Typed DEF Sound
  <1>2. /\ QueueOK(r) /\ Runner(r)
        /\ r.state[cur] = "blocked"
        /\ Alike(rq, r, Tasks \ {cur})
    BY <1>1, BlockKeeps
  <1>3. cur \in Tasks /\ rq.state[cur] = "running"
    BY Caller
  <1> HIDE DEF r, cur
  <1>4. \A t \in Tasks : r.state[t] = "blocked" <=> t = cur \/ rq.state[t] = "blocked"
    BY <1>2, <1>3 DEF Alike
  <1>5. \A t \in Tasks : r.state[t] \in Live <=> rq.state[t] \in Live
    BY <1>2, <1>3 DEF Alike, Live
  <1>6. r \in RunQueues
    BY <1>2 DEF QueueOK
  <1> QED BY <1>2, <1>4, <1>5, <1>6 DEF r, cur

(* pipe64_block_current_task puts the caller in an empty slot. *)
LEMMA SlotTaken ==
  ASSUME PInv, rq.active, NEW p \in Pids, NEW i \in Slots, NEW k \in Ends,
         NEW call \in Calls, Block(p, i, k, call),
         pipes[i].live, pipes[i].refs[Other(k)] # 0,
         pipes[i].bytes = IF k = "read" THEN 0 ELSE Capacity,
         UNCHANGED <<pidOf, nextPid, fds, clones, exited>>
  PROVE  PInv'
  <1> DEFINE cur == rq.current
             r == BlockAndSwitch(rq)
             ps == [pipes EXCEPT ![i].blocked[k] = cur]
  <1>1. /\ QueueOK(r) /\ Runner(r) /\ r \in RunQueues
        /\ \A t \in Tasks : r.state[t] = "blocked" <=> t = cur \/ rq.state[t] = "blocked"
        /\ \A t \in Tasks : r.state[t] \in Live <=> rq.state[t] \in Live
    BY Blocking DEF Block
  <1>2. /\ cur \in Tasks /\ cur # NoTask
        /\ \A j \in Slots, l \in Ends : pipes[j].blocked[l] # cur
        /\ \A j \in Records : clones[j].waiter # cur
    BY Caller, NoTaskIsNone
  <1>3. /\ pipes' = ps /\ rq' = r /\ pipes[i].blocked[k] = NoTask
        /\ pending' = pending
        /\ replay' \in {[replay EXCEPT ![cur] = NoCall], [replay EXCEPT ![cur] = call]}
    BY DEF Block, SlotInUse
  <1> HIDE DEF r, cur
  <1>4. ps \in [Slots -> Pipes]
    <2>1. pipes \in [Slots -> Pipes] /\ pipes[i] \in Pipes
      BY Typed
    <2>2. [pipes[i] EXCEPT !.blocked[k] = cur] \in Pipes
      BY <1>2, <2>1 DEF Pipes
    <2> QED BY <2>1, <2>2
  <1>5. /\ \A j \in Slots, l \in Ends :
             ps[j].blocked[l] = IF j = i /\ l = k THEN cur ELSE pipes[j].blocked[l]
        /\ \A j \in Slots : /\ ps[j].live = pipes[j].live
                            /\ ps[j].refs = pipes[j].refs
                            /\ ps[j].bytes = pipes[j].bytes
    BY Typed DEF Pipes
  <1> HIDE DEF ps
  <1>6. Stuck(ps)
    <2> SUFFICES ASSUME NEW j \in Slots, NEW l \in Ends, ps[j].blocked[l] # NoTask
                 PROVE  /\ pipes[j].live
                        /\ pipes[j].refs[Other(l)] # 0
                        /\ pipes[j].bytes = IF l = "read" THEN 0 ELSE Capacity
      BY SMTT(20), <1>5 DEF Stuck
    <2>1. CASE j = i /\ l = k
      BY <2>1
    <2>2. CASE ~(j = i /\ l = k)
      <3>1. pipes[j].blocked[l] # NoTask
        BY <1>5, <2>2
      <3> QED BY <3>1, Typed DEF Sound, Stuck
    <2> QED BY <2>1, <2>2
  <1>7. Here' \in States /\ Here'.pipes = ps /\ Here'.rq = r
    BY <1>1, <1>3, <1>4 DEF Here, States
  <1>8. Places(Here', clones)
    <2>1. /\ \A j \in Slots, l \in Ends : pipes[j].blocked[l] \in Tasks \cup {NoTask}
          /\ \A j \in Records : clones[j].waiter \in Tasks \cup {NoTask}
      BY Typed, PlaceTypes
    <2>2. Places(Here, clones) /\ Here.pipes = pipes /\ Here.rq = rq
      BY Typed DEF Sound
    <2>3. \A j \in Slots, l \in Ends :
            ps[j].blocked[l] # NoTask => r.state[ps[j].blocked[l]] = "blocked"
      BY SMTT(20), <1>1, <1>2, <1>5, <2>1, <2>2 DEF Places
    <2>4. \A j \in Records : clones[j].waiter # NoTask =>
                               r.state[clones[j].waiter] = "blocked"
      BY <1>1, <2>1, <2>2 DEF Places
    <2>5. \A j, m \in Slots, l, o \in Ends :
            ps[j].blocked[l] # NoTask /\ ps[j].blocked[l] = ps[m].blocked[o]
            => j = m /\ l = o
      BY SMTT(20), <1>2, <1>5, <2>2 DEF Places
    <2>6. \A j, m \in Records :
            clones[j].waiter # NoTask /\ clones[j].waiter = clones[m].waiter => j = m
      BY <2>2 DEF Places
    <2>7. \A j \in Slots, l \in Ends, m \in Records :
            ps[j].blocked[l] # NoTask => ps[j].blocked[l] # clones[m].waiter
      BY SMTT(20), <1>2, <1>5, <2>2 DEF Places
    <2>8. \A t \in Tasks :
            r.state[t] = "blocked" => \/ \E j \in Slots, l \in Ends : ps[j].blocked[l] = t
                                      \/ \E j \in Records : clones[j].waiter = t
      <3> SUFFICES ASSUME NEW t \in Tasks, r.state[t] = "blocked",
                          \A j \in Records : clones[j].waiter # t
                   PROVE  \E j \in Slots, l \in Ends : ps[j].blocked[l] = t
        OBVIOUS
      <3>1. CASE t = cur
        BY <1>5, <3>1
      <3>2. CASE t # cur
        <4>1. rq.state[t] = "blocked"
          BY <1>1, <3>2
        <4>2. PICK j \in Slots, l \in Ends : pipes[j].blocked[l] = t
          BY SMTT(20), <2>2, <4>1 DEF Places
        <4>3. t # NoTask
          BY NoTaskIsNone
        <4> QED BY ZenonT(60), <1>3, <1>5, <4>2, <4>3
      <3> QED BY <3>1, <3>2
    <2> QED BY SMTT(20), <1>7, <2>3, <2>4, <2>5, <2>6, <2>7, <2>8 DEF Places
  <1>9. Sound(Here', clones)
    BY <1>1, <1>6, <1>7, <1>8 DEF Sound
  <1>10. /\ replay' \in [Tasks -> Calls] /\ pending' \in SUBSET Pids
         /\ fds' \in [Pids -> Tables]
    BY ZenonT(60), <1>3, Typed DEF PInv, TypeOK, Calls
  <1> QED BY <1>1, <1>3, <1>9, <1>10, StepKeeps

(* read and write. *)
LEMMA PipeIoKeeps ==
  ASSUME PInv, NEW p \in Pids, NEW f \in Fds, NEW n \in Chunks, PipeIo(p, f, n)
  PROVE  PInv'
  <1> DEFINE h == fds[p][f]
             i == h.pipe
             k == h.end
             call == [fd |-> f, bytes |-> n]
             stuck == Usable(h) /\ Room(i, k) = 0
  <1>1. /\ UNCHANGED <<pidOf, nextPid, fds, clones, exited>>
        /\ rq.active /\ call \in Calls
        /\ i \in Slots /\ k \in Ends
    BY IoTypes
  <1>2. \/ Fail(p, k, rq)
        \/ Usable(h) /\ ~stuck /\ Transfer(i, k, n)
        \/ EndOfFile
        \/ /\ stuck
           /\ k = "read" => pipes[i].refs["write"] # 0
           /\ Block(p, i, k, call)
        \/ ~CanBlock(rq) /\ Fail(p, k, BlockTask(rq))
    BY Zenon DEF PipeIo
  <1>3. stuck => pipes[i].live /\ (k = "write" => pipes[i].refs["read"] # 0)
    BY DEF Usable, Find
  <1>4. stuck => pipes[i].bytes = IF k = "read" THEN 0 ELSE Capacity
    <2>1. pipes[i].bytes \in 0 .. Capacity /\ Capacity \in Nat
      BY <1>1, Typed, LinuxPipesAssumption DEF Pipes
    <2> HIDE DEF i, k, h
    <2> QED BY <2>1 DEF Room
  <1> HIDE DEF h, i, k, call, stuck
  <1>5. CASE Fail(p, k, rq)
    BY <1>1, <1>5, FailKeeps
  <1>6. CASE ~CanBlock(rq) /\ Fail(p, k, BlockTask(rq))
    <2>1. BlockTask(rq) = Forget(rq)
      BY <1>6 DEF BlockTask
    <2> QED BY <1>1, <1>6, <2>1, FailKeeps
  <1>7. CASE EndOfFile
    BY <1>1, <1>7, EndOfFileKeeps
  <1>8. CASE Usable(h) /\ ~stuck /\ Transfer(i, k, n)
    <2>1. Room(i, k) # 0
      BY <1>8 DEF stuck
    <2> QED BY <1>1, <1>8, <2>1, TransferKeeps
  <1>9. CASE /\ stuck
             /\ k = "read" => pipes[i].refs["write"] # 0
             /\ Block(p, i, k, call)
    <2>1. pipes[i].refs[Other(k)] # 0
      BY <1>1, <1>3, <1>9 DEF Ends, Other
    <2> QED BY <1>1, <1>3, <1>4, <1>9, <2>1, SlotTaken
  <1> QED BY <1>2, <1>5, <1>6, <1>7, <1>8, <1>9

-----------------------------------------------------------------------------
(* Of a clone record, Places reads the waiter only. *)
LEMMA SameWaiters ==
  ASSUME NEW s, NEW cs, NEW ds, Places(s, cs),
         \A i \in Records : ds[i].waiter = cs[i].waiter
  PROVE  Places(s, ds)
  BY SMTT(20) DEF Places

(* A clone record of a real child is not an empty one. *)
LEMMA RealRecord ==
  ASSUME PInv
  PROVE  /\ \A i \in Records : clones[i] \in Clones \/ clones[i] = NoClone
         /\ \A i \in Records, p \in Pids : clones[i].child = p => clones[i] # NoClone
         /\ \A i \in Records : clones[i].waiter # NoTask => clones[i] # NoClone
         /\ \A p \in Pids : p # 0
  BY Typed DEF NoClone, Pids

(* A fork that fails gives back what it was granted and uses up a pid. *)
LEMMA FailedFork ==
  ASSUME PInv, NEW p \in Pids, Fork(p),
         ~(GrantTable(Here, fds[p]).ok /\ AllocateSlot(rq) < TaskLimit)
  PROVE  PInv'
  <1> DEFINE g == GrantTable(Here, fds[p])
             s == ReleaseTable(g.s, g.table)
  <1>1. fds[p] \in Tables
    BY Typed
  <1>2. g \in Grants /\ Sound(g.s, clones) /\ g.s.rq = rq
    BY <1>1, Typed, GrantKeeps
  <1>3. /\ Set(s) /\ UNCHANGED <<pidOf, fds, clones, exited, pending, replay>>
        /\ nextPid \in Pids /\ nextPid' = nextPid + 1
    BY DEF Fork
  <1> HIDE DEF g
  <1>4. Sound(s, clones) /\ Moved(rq, s.rq)
    <2>1. g.table \in Tables
      BY <1>2 DEF Grants
    <2>2. Sound(s, clones) /\ Moved(g.s.rq, s.rq)
      BY <1>2, <2>1, Typed, ReleaseKeeps
    <2> QED BY <1>2, <2>2
  <1> HIDE DEF s
  <1>5. Sound(Here', clones) /\ rq' = s.rq
    BY <1>3, <1>4, SetSound
  <1>6. \A t \in Tasks : rq'.state[t] \in Live <=> rq.state[t] \in Live
    BY <1>4, <1>5, MovedLives
  <1>7. nextPid' \in 2 .. MaxPid + 1 /\ nextPid \in 2 .. MaxPid + 1
    BY SMTT(20), <1>3, LinuxPipesAssumption DEF PInv, TypeOK, Pids
  <1>8. Family'
    <2>1. \A t \in Tasks : pidOf[t] \in 0 .. MaxPid
      BY SMTT(20), LinuxPipesAssumption DEF PInv, TypeOK, Pids
    <2>2. \A i \in Records : clones[i] # NoClone => clones[i].child \in Pids
      BY RealRecord DEF Clones
    <2>3. \A q \in exited : q \in Pids
      BY DEF PInv, TypeOK
    <2>4. \A q \in 0 .. MaxPid : q < nextPid => q < nextPid'
      BY <1>3, <1>7, LinuxPipesAssumption
    <2>5. Pids \subseteq 0 .. MaxPid
      BY DEF Pids
    <2> QED BY <1>3, <1>6, <2>1, <2>2, <2>3, <2>4, <2>5 DEF PInv, Family, Alive
  <1>9. TypeOK'
    BY <1>3, <1>5, <1>7 DEF PInv, TypeOK, Sound, States, Here, Slots
  <1>10. Sound(Here, clones)'
    BY <1>3, <1>5
  <1> QED BY <1>8, <1>9, <1>10 DEF PInv

(* A fork registers a task, in a slot no process has, and a record for it. *)
LEMMA Forked ==
  ASSUME PInv, NEW p \in Pids, Fork(p),
         GrantTable(Here, fds[p]).ok /\ AllocateSlot(rq) < TaskLimit
  PROVE  PInv'
  <1> DEFINE g == GrantTable(Here, fds[p])
             slot == AllocateSlot(rq)
             c == Min(FreeClones)
             r == RegisterTask(rq, slot)
             new == [parent |-> p, child |-> nextPid, waiter |-> NoTask]
  <1>1. g \in Grants /\ Sound(g.s, clones) /\ g.s.rq = rq
    <2>1. fds[p] \in Tables
      BY Typed
    <2> QED BY <2>1, Typed, GrantKeeps
  <1>2. /\ UNCHANGED <<exited, pending, replay>>
        /\ nextPid \in Pids /\ nextPid' = nextPid + 1
        /\ pidOf' = [pidOf EXCEPT ![slot] = nextPid]
        /\ fds' = [fds EXCEPT ![nextPid] = g.table]
        /\ clones' = [clones EXCEPT ![c] = new]
        /\ pipes' = g.s.pipes /\ rq' = r
    <2>1. /\ UNCHANGED <<exited, pending, replay>>
          /\ nextPid \in Pids /\ nextPid' = nextPid + 1
          /\ pidOf' = [pidOf EXCEPT ![slot] = nextPid]
          /\ fds' = [fds EXCEPT ![nextPid] = g.table]
          /\ clones' = [clones EXCEPT ![c] = new]
          /\ Set([g.s EXCEPT !.rq = RegisterTask(@, slot)])
      BY DEF Fork
    <2>2. g.s \in States
      BY <1>1 DEF Sound
    <2> HIDE DEF g, slot
    <2>3. pipes' = g.s.pipes /\ rq' = RegisterTask(g.s.rq, slot)
      BY <2>1, <2>2 DEF Set, States
    <2> QED BY <1>1, <2>1, <2>3
  <1> HIDE DEF g
  <1>3. c \in Records /\ clones[c] = NoClone
    <2>1. FreeClones \in SUBSET Nat /\ FreeClones # {}
      BY SMTT(20) DEF Fork, FreeClones
    <2>2. Min(FreeClones) \in FreeClones
      BY <2>1, MinMember
    <2> QED BY <2>2 DEF FreeClones, Records
  <1>4. /\ QueueOK(rq) /\ Runner(rq)
        /\ slot \in Tasks /\ rq.state[slot] \in {"unused", "exited"}
    BY Typed, SlotIsFree DEF Sound
  <1>5. /\ QueueOK(r) /\ Runner(r) /\ r \in RunQueues
        /\ r.state[slot] = "ready" /\ Alike(rq, r, Tasks \ {slot})
    BY <1>4, RegisterKeeps DEF QueueOK
  <1> HIDE DEF c, slot, r
  <1>6. /\ \A t \in Tasks : r.state[t] = "blocked" <=> rq.state[t] = "blocked"
        /\ \A t \in Tasks : r.state[t] \in Live <=> t = slot \/ rq.state[t] \in Live
    BY <1>4, <1>5 DEF Alike, Live
  <1>7. nextPid' \in 2 .. MaxPid + 1 /\ nextPid \in 2 .. MaxPid + 1
    BY SMTT(20), <1>2, LinuxPipesAssumption DEF PInv, TypeOK, Pids
  <1>8. new \in Clones /\ new # NoClone /\ clones' \in [Records -> Clones \cup {NoClone}]
    BY <1>2, <1>3, RealRecord, Typed DEF Clones, NoClone
  <1>9. Sound(Here', clones')
    <2>1. /\ Here' \in States /\ Here'.pipes = g.s.pipes /\ Here'.rq = r
      BY <1>1, <1>2, <1>5 DEF Here, States, Sound
    <2>2. \A j \in Records : clones'[j].waiter = clones[j].waiter
      BY <1>2, <1>3, Typed DEF NoClone
    <2>3. Places(Here', clones)
      <3> DEFINE s == g.s
                 z == Here'
      <3>1. /\ \A j \in Slots, l \in Ends : s.pipes[j].blocked[l] \in Tasks \cup {NoTask}
            /\ \A j \in Records : clones[j].waiter \in Tasks \cup {NoTask}
        BY <1>1, Typed, PlaceTypes DEF Sound
      <3>2. /\ \A t \in Tasks : z.rq.state[t] = "blocked" <=> s.rq.state[t] = "blocked"
            /\ \A j \in Slots, l \in Ends : z.pipes[j].blocked[l] = s.pipes[j].blocked[l]
            /\ Places(s, clones)
        BY <1>1, <1>6, <2>1 DEF Sound
      <3> HIDE DEF s, z
      <3>3. Places(z, clones)
        BY SMTT(20), <3>1, <3>2, SamePlaces
      <3> QED BY <3>3 DEF z
    <2>4. Places(Here', clones')
      BY <2>2, <2>3, SameWaiters
    <2> QED BY <1>1, <1>5, <2>1, <2>4 DEF Sound
  <1>10. TypeOK'
    <2>1. rq' \in RunQueues /\ pipes' \in [1 .. PipeLimit -> Pipes]
      BY <1>1, <1>2, <1>5 DEF Sound, States, Slots
    <2>2. pidOf' \in [Tasks -> Pids \cup {0}]
      BY <1>2, <1>4 DEF PInv, TypeOK
    <2>3. fds' \in [Pids -> [Fds -> Handles \cup {NoHandle}]]
      <3>1. g.table \in Tables
        BY <1>1 DEF Grants
      <3> QED BY <1>2, <3>1, Typed DEF Tables
    <2>4. clones' \in [1 .. CloneLimit -> Clones \cup {NoClone}]
      BY <1>8 DEF Records
    <2> QED BY <1>2, <1>7, <2>1, <2>2, <2>3, <2>4 DEF PInv, TypeOK
  <1>11. Family'
    <2>1. /\ \A t \in Tasks : pidOf[t] \in 0 .. MaxPid /\ pidOf[t] # nextPid
          /\ \A t \in Tasks : pidOf'[t] = IF t = slot THEN nextPid ELSE pidOf[t]
          /\ nextPid # 0 /\ nextPid # Main
      BY SMTT(20), <1>2, <1>4, <1>7, LinuxPipesAssumption DEF PInv, TypeOK, Family, Pids, Main
    <2>2. /\ \A j \in Records : clones'[j] = IF j = c THEN new ELSE clones[j]
          /\ \A j \in Records : clones[j] # NoClone => clones[j].child \in Pids
          /\ \A j \in Records : clones[j].child # nextPid
      <3>1. \A j \in Records : clones'[j] = IF j = c THEN new ELSE clones[j]
        BY <1>2, <1>3, Typed
      <3>2. \A j \in Records : clones[j] # NoClone => clones[j].child \in Pids
        BY RealRecord DEF Clones
      <3>3. \A j \in Records : clones[j].child # nextPid
        BY SMTT(20), <1>7, <3>2 DEF PInv, Family, NoClone, Pids
      <3> QED BY <3>1, <3>2, <3>3
    <2>3. \A q \in 0 .. MaxPid : q < nextPid => q < nextPid' /\ q # nextPid
      BY <1>2, <1>7, LinuxPipesAssumption
    <2>4. Pids \subseteq 0 .. MaxPid /\ nextPid < nextPid'
      BY <1>2, <1>7, LinuxPipesAssumption DEF Pids
    <2>5. \A q \in Pids : Alive(q)' <=> q = nextPid \/ Alive(q)
      <3>1. pidOf[slot] = 0
        BY <1>4 DEF PInv, Family, Live
      <3> QED BY <1>4, <2>1, <3>1, RealRecord DEF Alive
    <2>6. \A t \in Tasks : pidOf'[t] # 0 <=> rq'.state[t] \in Live
      BY SMTT(20), <1>2, <1>6, <2>1 DEF PInv, Family
    <2>7. \A t, u \in Tasks : pidOf'[t] # 0 /\ pidOf'[t] = pidOf'[u] => t = u
      BY SMTT(20), <2>1 DEF PInv, Family
    <2>8. \A t \in Tasks : pidOf'[t] < nextPid'
      BY <2>1, <2>3, <2>4 DEF PInv, Family
    <2>9. \A q \in exited' : q < nextPid' /\ q # Main /\ ~Alive(q)'
      <3>1. \A q \in exited : q \in Pids
        BY DEF PInv, TypeOK
      <3> QED BY SMTT(20), <1>2, <2>3, <2>4, <2>5, <3>1 DEF PInv, Family
    <2>10. \A q \in Pids \ {Main} :
             Alive(q)' \/ q \in exited' => \E j \in Records : clones'[j].child = q
      <3> SUFFICES ASSUME NEW q \in Pids \ {Main}, Alive(q)' \/ q \in exited'
                   PROVE  \E j \in Records : clones'[j].child = q
        OBVIOUS
      <3>1. CASE q = nextPid
        BY <1>3, <2>2, <3>1
      <3>2. CASE q # nextPid
        <4>1. PICK j \in Records : clones[j].child = q
          BY <1>2, <2>5, <3>2 DEF PInv, Family
        <4>2. j # c
          BY <1>3, <4>1, RealRecord
        <4> QED BY <2>2, <4>1, <4>2
      <3> QED BY <3>1, <3>2
    <2>11. \A j \in Records : clones'[j] # NoClone =>
             /\ clones'[j].child < nextPid'
             /\ clones'[j].child # Main
             /\ Alive(clones[j].child)' \/ clones'[j].child \in exited'
      <3> SUFFICES ASSUME NEW j \in Records, clones'[j] # NoClone
                   PROVE  /\ clones'[j].child < nextPid'
                          /\ clones'[j].child # Main
                          /\ Alive(clones[j].child)' \/ clones'[j].child \in exited'
        OBVIOUS
      <3>1. PICK q \in Pids : q = clones'[j].child
        BY SMTT(20), <1>2, <2>2
      <3>2. Alive(clones[j].child)' <=> Alive(q)'
        BY <3>1 DEF Alive
      <3>3. CASE j = c
        BY SMTT(20), <1>2, <2>1, <2>2, <2>4, <2>5, <3>1, <3>2, <3>3
      <3>4. CASE j # c
        <4>1. clones[j] # NoClone /\ q = clones[j].child
          BY <2>2, <3>1, <3>4
        <4>2. q < nextPid /\ q # Main /\ (Alive(q) \/ q \in exited)
          BY <4>1 DEF PInv, Family
        <4> QED BY ZenonT(60), <1>2, <2>3, <2>4, <2>5, <3>1, <3>2, <4>2
      <3> QED BY <3>3, <3>4
    <2>12. \A j, m \in Records :
             clones'[j] # NoClone /\ clones'[j].child = clones'[m].child => j = m
      BY SMTT(20), <2>2 DEF PInv, Family
    <2>13. \A j \in Records : clones'[j].waiter # NoTask =>
             /\ pidOf'[clones'[j].waiter] = clones'[j].parent
             /\ clones'[j].child \notin exited'
      <3> SUFFICES ASSUME NEW j \in Records, clones'[j].waiter # NoTask
                   PROVE  /\ pidOf'[clones'[j].waiter] = clones'[j].parent
                          /\ clones'[j].child \notin exited'
        OBVIOUS
      <3>1. j # c /\ clones'[j] = clones[j] /\ clones[j] # NoClone
        BY <2>2, RealRecord
      <3>2. /\ clones[j].waiter \in Tasks /\ clones[j].parent \in Pids
            /\ pidOf[clones[j].waiter] = clones[j].parent
            /\ clones[j].child \notin exited
        BY <3>1, RealRecord DEF PInv, Family, Clones
      <3>3. clones[j].waiter # slot
        BY SMTT(20), <1>4, <3>2, RealRecord DEF PInv, Family, Live
      <3> QED BY SMTT(20), <1>2, <2>1, <3>1, <3>2, <3>3
    <2> QED BY ZenonT(60), <2>6, <2>7, <2>8, <2>9, <2>10, <2>11, <2>12, <2>13 DEF Family
  <1> QED BY <1>9, <1>10, <1>11 DEF PInv

-----------------------------------------------------------------------------
(* The process that exits: its one task, and its one clone record. *)
LEMMA Leaving ==
  ASSUME PInv, NEW p \in Pids, Calling(p), p # Main
  PROVE  /\ CloneOf(p) \in Records
         /\ clones[CloneOf(p)].child = p
         /\ clones[CloneOf(p)] \in Clones
         /\ pidOf[rq.current] = p
         /\ \A t \in Tasks : pidOf[t] = p => t = rq.current
         /\ p \notin exited
         /\ p < nextPid
  <1>1. rq.current \in Tasks /\ pidOf[rq.current] = p
    BY Caller DEF Calling
  <1>2. Alive(p) /\ p # 0
    BY <1>1, RealRecord DEF Alive
  <1>3. \E i \in Records : clones[i].child = p
    BY <1>2 DEF PInv, Family
  <1>4. CloneOf(p) \in Records /\ clones[CloneOf(p)].child = p
    BY <1>3 DEF CloneOf, Records
  <1>5. clones[CloneOf(p)] \in Clones
    BY <1>4, RealRecord
  <1>6. \A t \in Tasks : pidOf[t] = p => t = rq.current
    BY <1>1, <1>2 DEF PInv, Family
  <1>7. p \notin exited /\ p < nextPid
    BY <1>1, <1>2 DEF PInv, Family
  <1> QED BY <1>1, <1>4, <1>5, <1>6, <1>7

(* Who is left after an exit. *)
Left(q, r, cur, waiter) ==
  /\ QueueOK(r) /\ Runner(r) /\ r \in RunQueues
  /\ \A t \in Tasks : r.state[t] = "blocked" <=> q.state[t] = "blocked" /\ t # waiter
  /\ \A t \in Tasks : r.state[t] \in Live <=> q.state[t] \in Live /\ t # cur

(* on_exit, after a wake or without one. *)
LEMMA ExitQueue ==
  ASSUME NEW q, QueueOK(q), Runner(q), q.active,
         NEW w \in Tasks \cup {NoTask}, w # NoTask => q.state[w] = "blocked"
  PROVE  Left(q, IF w # NoTask THEN OnExit(WakeWithResult(q, w)) ELSE OnExit(q),
              q.current, w)
  <1> DEFINE x == IF w # NoTask THEN WakeWithResult(q, w) ELSE q
             cur == q.current
             r == OnExit(x)
  <1>1. cur \in Tasks /\ q.state[cur] = "running"
    BY SMTT(20), RunQueueAssumption DEF QueueOK, Runner, RunQueues, NoTask, Tasks
  <1>2. /\ QueueOK(x) /\ Runner(x) /\ x.active /\ x.current = cur
        /\ \A t \in Tasks : x.state[t] = "blocked" <=> q.state[t] = "blocked" /\ t # w
        /\ \A t \in Tasks : x.state[t] \in Live <=> q.state[t] \in Live
    <2>1. CASE w = NoTask
      BY <2>1, NoTaskIsNone
    <2>2. CASE w # NoTask
      <3> DEFINE v == WakeWithResult(q, w)
      <3>1. w \in Tasks /\ q.state[w] = "blocked"
        BY <2>2
      <3>2. /\ QueueOK(v) /\ Runner(v) /\ v.active = q.active /\ v.current = q.current
            /\ v.state[w] = "ready" /\ Alike(q, v, Tasks \ {w})
        BY <3>1, WakeKeeps
      <3> HIDE DEF v
      <3>3. /\ \A t \in Tasks : v.state[t] = "blocked" <=> q.state[t] = "blocked" /\ t # w
            /\ \A t \in Tasks : v.state[t] \in Live <=> q.state[t] \in Live
        BY <3>1, <3>2 DEF Alike, Live
      <3> QED BY <2>2, <3>2, <3>3 DEF v
    <2> QED BY <2>1, <2>2
  <1> HIDE DEF x
  <1>3. /\ QueueOK(r) /\ Runner(r)
        /\ r.state[cur] = "exited" /\ Alike(x, r, Tasks \ {cur})
    BY SMTT(20), <1>2, ExitKeeps
  <1> HIDE DEF r
  <1>4. x.state[cur] = "running"
    BY <1>1, <1>2 DEF Runner
  <1>5. \A t \in Tasks : r.state[t] = "blocked" <=> q.state[t] = "blocked" /\ t # w
    BY ZenonT(60), <1>1, <1>2, <1>3, <1>4 DEF Alike
  <1>6. \A t \in Tasks : r.state[t] \in Live <=> q.state[t] \in Live /\ t # cur
    BY ZenonT(60), <1>1, <1>2, <1>3, <1>4 DEF Alike, Live
  <1>7. Left(q, r, cur, w)
    BY <1>3, <1>5, <1>6 DEF Left, QueueOK
  <1>8. r = IF w # NoTask THEN OnExit(WakeWithResult(q, w)) ELSE OnExit(q)
    BY DEF r, x
  <1> QED BY <1>7, <1>8

(* The waiter of one record is gone. *)
Unwaited(cs, ds, i) ==
  \A j \in Records : ds[j].waiter = IF j = i THEN NoTask ELSE cs[j].waiter

(* The places after an exit: the waiter's record is gone with the waiter.  *)
LEMMA ExitPlaces ==
  ASSUME NEW s \in States, NEW cs \in [Records -> Clones \cup {NoClone}],
         Places(s, cs), NEW z, z.pipes = s.pipes,
         NEW i \in Records, NEW ds, NEW cur, Left(s.rq, z.rq, cur, cs[i].waiter),
         Unwaited(cs, ds, i)
  PROVE  Places(z, ds)
  <1> USE DEF Unwaited
  <1> DEFINE w == cs[i].waiter
  <1>1. /\ \A j \in Slots, l \in Ends : s.pipes[j].blocked[l] \in Tasks \cup {NoTask}
        /\ \A j \in Records : cs[j].waiter \in Tasks \cup {NoTask}
    BY PlaceTypes
  <1>2. \A t \in Tasks : z.rq.state[t] = "blocked" <=> s.rq.state[t] = "blocked" /\ t # w
    BY DEF Left
  <1>3. \A j \in Slots, l \in Ends : s.pipes[j].blocked[l] # NoTask => s.pipes[j].blocked[l] # w
    BY SMTT(20) DEF Places
  <1>4. \A j \in Records \ {i} : cs[j].waiter # NoTask => cs[j].waiter # w
    BY DEF Places
  <1>5. \A j \in Slots, l \in Ends :
          z.pipes[j].blocked[l] # NoTask => z.rq.state[z.pipes[j].blocked[l]] = "blocked"
    BY SMTT(20), <1>1, <1>2, <1>3 DEF Places
  <1>6. \A j \in Records : ds[j].waiter # NoTask => z.rq.state[ds[j].waiter] = "blocked"
    BY SMTT(20), <1>1, <1>2, <1>4 DEF Places
  <1>7. /\ \A j, m \in Slots, k, l \in Ends :
             z.pipes[j].blocked[k] # NoTask /\ z.pipes[j].blocked[k] = z.pipes[m].blocked[l]
             => j = m /\ k = l
        /\ \A j, m \in Records :
             ds[j].waiter # NoTask /\ ds[j].waiter = ds[m].waiter => j = m
        /\ \A j \in Slots, k \in Ends, m \in Records :
             z.pipes[j].blocked[k] # NoTask => z.pipes[j].blocked[k] # ds[m].waiter
    BY SMTT(20) DEF Places
  <1>8. \A t \in Tasks :
          z.rq.state[t] = "blocked" =>
            \/ \E j \in Slots, k \in Ends : z.pipes[j].blocked[k] = t
            \/ \E j \in Records : ds[j].waiter = t
    <2> SUFFICES ASSUME NEW t \in Tasks, z.rq.state[t] = "blocked",
                        ~\E j \in Slots, k \in Ends : z.pipes[j].blocked[k] = t
                 PROVE  \E j \in Records : ds[j].waiter = t
      OBVIOUS
    <2>1. t # w /\ s.rq.state[t] = "blocked"
      BY <1>2
    <2>2. PICK j \in Records : cs[j].waiter = t
      BY SMTT(20), <2>1 DEF Places
    <2> QED BY <2>1, <2>2
  <1> QED BY ZenonT(60), <1>5, <1>6, <1>7, <1>8 DEF Places

(* After an exit the process has no task.  It leaves an exit record and    *)
(* keeps its clone record, or, waited for, leaves neither.                 *)
LEMMA FamilyLosesOne ==
  ASSUME PInv, NEW p \in Pids, p # Main, NEW cur \in Tasks, pidOf[cur] = p,
         NEW i \in Records, clones[i].child = p, clones[i] # NoClone,
         \A t \in Tasks : pidOf[t] = p => t = cur, p < nextPid,
         rq.state[cur] = "running",
         \A t \in Tasks : rq'.state[t] \in Live <=> rq.state[t] \in Live /\ t # cur,
         pidOf' = [pidOf EXCEPT ![cur] = 0], UNCHANGED nextPid,
         \/ clones' = Reaped(i) /\ UNCHANGED exited /\ p \notin exited
         \/ clones[i].waiter = NoTask /\ UNCHANGED clones /\ exited' = exited \cup {p}
  PROVE  Family'
  <1>1. /\ \A t \in Tasks : pidOf'[t] = IF t = cur THEN 0 ELSE pidOf[t]
        /\ nextPid \in Nat /\ nextPid > 0 /\ p # 0
    BY SMTT(20), RealRecord DEF PInv, TypeOK
  <1>2. \A q \in Pids : Alive(q)' <=> Alive(q) /\ q # p
    BY <1>1, RealRecord DEF Alive
  <1>3. /\ \A j \in Records : clones'[j] = clones[j] \/ (j = i /\ clones'[j] = NoClone)
        /\ \A j \in Records : clones[j] # NoClone => clones[j].child \in Pids
        /\ \A j \in Records : clones[j].child = p => j = i
    <2>1. \A j \in Records : clones'[j] = clones[j] \/ (j = i /\ clones'[j] = NoClone)
      <3>1. CASE clones' = Reaped(i)
        <4>1. clones \in [Records -> Clones \cup {NoClone}]
          BY Typed
        <4>2. clones' = [clones EXCEPT ![i] = NoClone]
          BY <3>1 DEF Reaped
        <4> QED BY <4>1, <4>2
      <3>2. CASE UNCHANGED clones
        BY <3>2
      <3> QED BY <3>1, <3>2
    <2>2. \A j \in Records : clones[j] # NoClone => clones[j].child \in Pids
      BY RealRecord DEF Clones
    <2>3. \A j \in Records : clones[j].child = p => j = i
      BY SMTT(20), RealRecord DEF PInv, Family
    <2> QED BY <2>1, <2>2, <2>3
  <1>4. /\ \A t \in Tasks : pidOf'[t] # 0 <=> rq'.state[t] \in Live
        /\ \A t, u \in Tasks : pidOf'[t] # 0 /\ pidOf'[t] = pidOf'[u] => t = u
        /\ \A t \in Tasks : pidOf'[t] < nextPid'
    BY SMTT(20), <1>1 DEF PInv, Family
  <1>5. exited' \in SUBSET Pids /\ exited' \subseteq exited \cup {p}
    BY DEF PInv, TypeOK
  <1>6. \A q \in exited' : q < nextPid' /\ q # Main /\ ~Alive(q)'
    BY ZenonT(60), <1>2, <1>5 DEF PInv, Family, TypeOK
  <1>7. \A q \in Pids \ {Main} :
          Alive(q)' \/ q \in exited' => \E j \in Records : clones'[j].child = q
    <2> SUFFICES ASSUME NEW q \in Pids \ {Main}, Alive(q)' \/ q \in exited'
                 PROVE  \E j \in Records : clones'[j].child = q
      OBVIOUS
    <2>1. CASE q = p
      <3>1. q \in exited'
        BY <1>2, <2>1
      <3>2. UNCHANGED clones
        BY <2>1, <3>1
      <3> QED BY <2>1, <3>2
    <2>2. CASE q # p
      <3>1. Alive(q) \/ q \in exited
        BY <1>2, <1>5, <2>2
      <3>2. PICK j \in Records : clones[j].child = q
        BY <3>1 DEF PInv, Family
      <3>3. clones'[j] = clones[j]
        BY <1>3, <2>2, <3>2
      <3> QED BY <3>2, <3>3
    <2> QED BY <2>1, <2>2
  <1>8. \A j \in Records : clones'[j] # NoClone =>
          /\ clones'[j].child < nextPid'
          /\ clones'[j].child # Main
          /\ Alive(clones[j].child)' \/ clones'[j].child \in exited'
          /\ clones'[j] = clones[j]
    <2> SUFFICES ASSUME NEW j \in Records, clones'[j] # NoClone
                 PROVE  /\ clones'[j].child < nextPid'
                        /\ clones'[j].child # Main
                        /\ Alive(clones[j].child)' \/ clones'[j].child \in exited'
                        /\ clones'[j] = clones[j]
      OBVIOUS
    <2>1. clones'[j] = clones[j] /\ clones[j] # NoClone /\ clones[j].child \in Pids
      BY <1>3
    <2>2. /\ clones[j].child < nextPid /\ clones[j].child # Main
          /\ Alive(clones[j].child) \/ clones[j].child \in exited
      BY <2>1 DEF PInv, Family
    <2>3. CASE clones[j].child = p
      <3>1. j = i /\ clones'[i] # NoClone
        BY <1>3, <2>3
      <3>2. exited' = exited \cup {p}
        BY <3>1, Typed DEF Reaped
      <3> QED BY ZenonT(60), <2>1, <2>2, <2>3, <3>2
    <2>4. CASE clones[j].child # p
      BY ZenonT(60), <1>2, <2>1, <2>2, <2>4
    <2> QED BY ZenonT(60), <2>3, <2>4
  <1>9. \A j, m \in Records :
          clones'[j] # NoClone /\ clones'[j].child = clones'[m].child => j = m
    <2> SUFFICES ASSUME NEW j \in Records, NEW m \in Records, clones'[j] # NoClone,
                        clones'[j].child = clones'[m].child
                 PROVE  j = m
      OBVIOUS
    <2>1. clones'[j] = clones[j] /\ clones[j] # NoClone /\ clones[j].child \in Pids
      BY <1>3
    <2>2. clones'[m] # NoClone
      BY <2>1, RealRecord DEF NoClone
    <2>3. clones'[m] = clones[m]
      BY <1>3, <2>2
    <2> QED BY SMTT(20), <2>1, <2>3 DEF PInv, Family
  <1>10. \A j \in Records : clones'[j].waiter # NoTask =>
           /\ pidOf'[clones'[j].waiter] = clones'[j].parent
           /\ clones'[j].child \notin exited'
    <2> SUFFICES ASSUME NEW j \in Records, clones'[j].waiter # NoTask
                 PROVE  /\ pidOf'[clones'[j].waiter] = clones'[j].parent
                        /\ clones'[j].child \notin exited'
      OBVIOUS
    <2>1. clones'[j] = clones[j] /\ clones[j].waiter # NoTask
      BY <1>3 DEF NoClone
    <2>2. /\ clones[j].waiter \in Tasks /\ clones[j].waiter # cur
          /\ pidOf[clones[j].waiter] = clones[j].parent /\ clones[j].child \notin exited
      <3>1. clones[j].waiter \in Tasks
        BY <2>1, RealRecord DEF Clones
      <3>2. rq.state[clones[j].waiter] = "blocked"
        BY ZenonT(60), <2>1, Typed DEF Sound, Places
      <3> QED BY <2>1, <3>1, <3>2 DEF PInv, Family
    <2>3. clones'[j].child \notin exited'
      <3>1. CASE exited' = exited
        BY <2>1, <2>2, <3>1
      <3>2. CASE exited' = exited \cup {p} /\ clones[i].waiter = NoTask
        BY <1>3, <2>1, <2>2, <3>2
      <3> QED BY <3>1, <3>2
    <2> QED BY ZenonT(60), <1>1, <2>1, <2>2, <2>3
  <1>11. \A j \in Records : clones'[j] # NoClone =>
           Alive(clones[j].child)' \/ (clones[j].child)' \in exited'
    BY <1>8
  <1> QED BY <1>4, <1>6, <1>7, <1>8, <1>9, <1>10, <1>11 DEF Family

(* sys_exit keeps the invariant. *)
LEMMA ExitedKeeps ==
  ASSUME PInv, NEW p \in Pids, Exit(p)
  PROVE  PInv'
  <1> DEFINE i == CloneOf(p)
             w == clones[i].waiter
             freed == ReleaseTable(Here, fds[p])
             cur == rq.current
             r == IF w # NoTask THEN OnExit(WakeWithResult(freed.rq, w)) ELSE OnExit(freed.rq)
  <1>1. Calling(p) /\ p # Main
    BY DEF Exit
  <1>2. /\ i \in Records /\ clones[i].child = p /\ clones[i] \in Clones
        /\ pidOf[cur] = p /\ \A t \in Tasks : pidOf[t] = p => t = cur
        /\ p \notin exited /\ p < nextPid
    BY <1>1, Leaving
  <1>3. cur \in Tasks /\ rq.state[cur] = "running" /\ rq.active
    BY <1>1, Caller DEF Calling
  <1>4. Sound(freed, clones) /\ Moved(rq, freed.rq)
    <2>1. fds[p] \in Tables
      BY Typed
    <2> QED BY <2>1, Typed, ReleaseKeeps
  <1>5. /\ fds' = [fds EXCEPT ![p] = EmptyTable]
        /\ pidOf' = [pidOf EXCEPT ![cur] = 0]
        /\ pending' \subseteq pending \cup {clones[i].parent}
        /\ pipes' = freed.pipes /\ rq' = r
        /\ UNCHANGED <<nextPid, replay>>
    BY DEF Exit, Raise
  <1>6. \/ w # NoTask /\ clones' = Reaped(i) /\ UNCHANGED exited
        \/ w = NoTask /\ UNCHANGED clones /\ exited' = exited \cup {p}
    BY DEF Exit
  <1> HIDE DEF i, freed
  <1>7. freed.rq.current = cur /\ freed.rq.active
    BY <1>3, <1>4 DEF Moved
  <1>8. Left(freed.rq, r, cur, w)
    <2>1. QueueOK(freed.rq) /\ Runner(freed.rq) /\ Places(freed, clones)
      BY <1>4 DEF Sound
    <2>2. w \in Tasks \cup {NoTask}
      BY <1>2 DEF Clones
    <2>3. w # NoTask => freed.rq.state[w] = "blocked"
      BY <1>2, <2>1 DEF Places
    <2> DEFINE q == freed.rq
    <2>4. q.current = cur /\ q.active /\ QueueOK(q) /\ Runner(q)
      BY <1>7, <2>1
    <2>5. w # NoTask => q.state[w] = "blocked"
      BY <2>3
    <2> HIDE DEF q, w
    <2>6. Left(q, IF w # NoTask THEN OnExit(WakeWithResult(q, w)) ELSE OnExit(q),
               q.current, w)
      BY ZenonT(60), <2>2, <2>4, <2>5, ExitQueue
    <2> QED BY <2>4, <2>6 DEF q
  <1> HIDE DEF r
  <1>9. \A j \in Records : clones'[j].waiter = IF j = i THEN NoTask ELSE clones[j].waiter
    <2>1. clones \in [Records -> Clones \cup {NoClone}]
      BY Typed
    <2>2. CASE clones' = Reaped(i)
      <3>1. \A j \in Records : clones'[j] = IF j = i THEN NoClone ELSE clones[j]
        BY <2>1, <2>2 DEF Reaped, Records
      <3> QED BY <3>1 DEF NoClone
    <2>3. CASE w = NoTask /\ UNCHANGED clones
      BY <2>3
    <2> QED BY <1>6, <2>2, <2>3
  <1>10. clones' \in [Records -> Clones \cup {NoClone}]
    <2>1. clones \in [Records -> Clones \cup {NoClone}]
      BY Typed
    <2>2. CASE clones' = Reaped(i)
      BY <2>1, <2>2 DEF Reaped, Records
    <2>3. CASE UNCHANGED clones
      BY <2>1, <2>3
    <2> QED BY <1>6, <2>2, <2>3
  <1>11. Sound(Here', clones')
    <2>1. freed \in States /\ Places(freed, clones) /\ Stuck(freed.pipes)
      BY <1>4 DEF Sound
    <2>2. r \in RunQueues /\ QueueOK(r) /\ Runner(r)
      BY <1>8 DEF Left
    <2>3. Here' \in States /\ Here'.pipes = freed.pipes /\ Here'.rq = r
      BY <1>5, <2>1, <2>2 DEF Here, States
    <2> DEFINE s == freed
               z == Here'
               cs == clones
               ds == clones'
    <2>4. /\ s \in States /\ cs \in [Records -> Clones \cup {NoClone}] /\ Places(s, cs)
          /\ z.pipes = s.pipes /\ Left(s.rq, z.rq, cur, cs[i].waiter)
          /\ Unwaited(cs, ds, i)
      BY ZenonT(60), <1>8, <1>9, <2>1, <2>3, Typed DEF Unwaited
    <2> HIDE DEF s, z, cs, ds, cur, w
    <2>5. Places(z, ds)
      BY <1>2, <2>4, ExitPlaces
    <2> USE DEF s, z, cs, ds
    <2>6. Places(Here', clones')
      BY <2>5
    <2> QED BY <2>1, <2>2, <2>3, <2>6 DEF Sound
  <1>12. \A t \in Tasks : rq'.state[t] \in Live <=> rq.state[t] \in Live /\ t # cur
    <2>1. \A t \in Tasks : freed.rq.state[t] \in Live <=> rq.state[t] \in Live
      BY <1>4, MovedLives
    <2> QED BY <1>5, <1>8, <2>1 DEF Left
  <1>13. Family'
    <2>1. clones[i] # NoClone
      BY <1>2, RealRecord
    <2>2. \/ clones' = Reaped(i) /\ UNCHANGED exited /\ p \notin exited
          \/ clones[i].waiter = NoTask /\ UNCHANGED clones /\ exited' = exited \cup {p}
      BY <1>2, <1>6
    <2> HIDE DEF cur, w
    <2> QED BY ZenonT(60), <1>1, <1>2, <1>3, <1>5, <1>12, <2>1, <2>2, FamilyLosesOne
  <1>14. TypeOK'
    <2>1. rq' \in RunQueues /\ pipes' \in [1 .. PipeLimit -> Pipes]
      BY <1>4, <1>5, <1>8 DEF Left, Sound, States, Slots
    <2>2. pidOf' \in [Tasks -> Pids \cup {0}]
      BY <1>3, <1>5 DEF PInv, TypeOK
    <2>3. fds' \in [Pids -> [Fds -> Handles \cup {NoHandle}]]
      <3>1. EmptyTable \in Tables
        BY DEF EmptyTable, Tables
      <3> QED BY <1>5, <3>1, Typed DEF Tables
    <2>4. pending' \subseteq Pids
      BY <1>2, <1>5 DEF PInv, TypeOK, Clones
    <2>5. exited' \subseteq Pids
      BY <1>6 DEF PInv, TypeOK
    <2>6. clones' \in [1 .. CloneLimit -> Clones \cup {NoClone}]
      BY <1>10 DEF Records
    <2> QED BY ZenonT(60), <1>5, <2>1, <2>2, <2>3, <2>4, <2>5, <2>6 DEF PInv, TypeOK
  <1> QED BY <1>11, <1>13, <1>14 DEF PInv

(* wait4 finds a child that has exited. *)
LEMMA ReapingKeeps ==
  ASSUME PInv, NEW z \in Records, clones[z].child \in exited,
         clones' = Reaped(z), exited' = exited \ {clones[z].child},
         UNCHANGED <<rq, pidOf, nextPid, fds, pipes, pending, replay>>
  PROVE  PInv'
  <1> DEFINE c == clones[z].child
  <1>1. clones \in [Records -> Clones \cup {NoClone}]
    BY Typed
  <1>2. /\ \A j \in Records : clones'[j] = IF j = z THEN NoClone ELSE clones[j]
        /\ clones' \in [Records -> Clones \cup {NoClone}]
    BY <1>1 DEF Reaped, Records
  <1>3. c \in Pids /\ ~Alive(c) /\ clones[z] # NoClone /\ c # 0
    BY RealRecord DEF PInv, TypeOK, Family
  <1>4. clones[z].waiter = NoTask
    BY DEF PInv, Family
  <1>5. \A j \in Records : clones[j].child = c => j = z
    BY <1>3 DEF PInv, Family
  <1>6. \A q : Alive(q)' <=> Alive(q)
    BY DEF Alive
  <1>7. TypeOK'
    BY <1>2 DEF PInv, TypeOK, Records
  <1>8. Sound(Here', clones')
    <2>1. \A j \in Records : clones'[j].waiter = clones[j].waiter
      BY <1>2, <1>4 DEF NoClone
    <2>2. Here' = Here
      BY DEF Here
    <2>3. Places(Here', clones')
      BY SMTT(20), <2>1, <2>2, Typed, SameWaiters DEF Sound
    <2> QED BY <2>2, <2>3, Typed DEF Sound
  <1>9. Family'
    <2>1. /\ \A t \in Tasks : pidOf'[t] # 0 <=> rq'.state[t] \in Live
          /\ \A t, u \in Tasks : pidOf'[t] # 0 /\ pidOf'[t] = pidOf'[u] => t = u
          /\ \A t \in Tasks : pidOf'[t] < nextPid'
      BY DEF PInv, Family
    <2>2. \A q \in exited' : q < nextPid' /\ q # Main /\ ~Alive(q)'
      BY <1>6 DEF PInv, Family
    <2>3. \A q \in Pids \ {Main} :
            Alive(q)' \/ q \in exited' => \E j \in Records : clones'[j].child = q
      <3> SUFFICES ASSUME NEW q \in Pids \ {Main}, Alive(q)' \/ q \in exited'
                   PROVE  \E j \in Records : clones'[j].child = q
        OBVIOUS
      <3>1. q # c /\ (Alive(q) \/ q \in exited)
        BY <1>3, <1>6
      <3>2. PICK j \in Records : clones[j].child = q
        BY <3>1 DEF PInv, Family
      <3> QED BY <1>2, <3>1, <3>2
    <2>4. \A j \in Records : clones'[j] # NoClone =>
            /\ clones'[j].child < nextPid'
            /\ clones'[j].child # Main
            /\ Alive(clones[j].child)' \/ clones'[j].child \in exited'
      <3> SUFFICES ASSUME NEW j \in Records, clones'[j] # NoClone
                   PROVE  /\ clones'[j].child < nextPid'
                          /\ clones'[j].child # Main
                          /\ Alive(clones[j].child)' \/ clones'[j].child \in exited'
        OBVIOUS
      <3>1. j # z /\ clones'[j] = clones[j] /\ clones[j] # NoClone
        BY <1>2
      <3>2. /\ clones[j].child < nextPid /\ clones[j].child # Main
            /\ Alive(clones[j].child) \/ clones[j].child \in exited
            /\ clones[j].child # c
        BY <1>5, <3>1 DEF PInv, Family
      <3>3. Alive(clones[j].child)' <=> Alive(clones[j].child)
        BY <3>1 DEF Alive
      <3> QED BY <3>1, <3>2, <3>3
    <2>5. \A j, m \in Records :
            clones'[j] # NoClone /\ clones'[j].child = clones'[m].child => j = m
      <3> SUFFICES ASSUME NEW j \in Records, NEW m \in Records, clones'[j] # NoClone,
                          clones'[j].child = clones'[m].child
                   PROVE  j = m
        OBVIOUS
      <3>1. clones'[j] = clones[j] /\ clones[j] # NoClone /\ clones[j].child \in Pids
        BY <1>2, RealRecord DEF Clones
      <3>2. clones'[m] = clones[m]
        BY SMTT(20), <1>2, <3>1, RealRecord DEF NoClone
      <3> QED BY SMTT(20), <3>1, <3>2 DEF PInv, Family
    <2>6. \A j \in Records : clones'[j].waiter # NoTask =>
            /\ pidOf'[clones'[j].waiter] = clones'[j].parent
            /\ clones'[j].child \notin exited'
      BY SMTT(20), <1>2 DEF PInv, Family, NoClone
    <2> QED BY <2>1, <2>2, <2>3, <2>4, <2>5, <2>6 DEF Family
  <1> QED BY <1>7, <1>8, <1>9 DEF PInv
=========================================================================
