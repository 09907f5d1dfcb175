------------------------ MODULE LinuxPipesProofs ------------------------
(***************************************************************************)
(* Proofs about pipes, fork, exit and wait4, for every number of tasks,    *)
(* processes, descriptors, pipe objects, clone records and bytes: wait4,   *)
(* the invariance and the five results.                                    *)
(*                                                                         *)
(* Two of the five results need a restriction the code does not enforce,   *)
(* and the runs show why: references are exact, and a call that is made    *)
(* again finds its pipe, only while no table with duplicated descriptors   *)
(* is forked and no generation outgrows its field in the handle.  The rest *)
(* holds for all values of the constants.                                  *)
(***************************************************************************)
EXTENDS LinuxPipesInvariance

(* The provers of a leaf that names none, and their time in seconds. *)
USE ZenonT(20), SMTT(20)

(* wait4 blocks on the record of a child that has not exited. *)
LEMMA WaitingKeeps ==
  ASSUME PInv, NEW p \in Pids, Calling(p), CanBlock(rq), NEW i \in Records,
         clones[i].parent = p, clones[i].child \in Pids, clones[i].child \notin exited,
         rq' = BlockAndSwitch(rq),
         clones' = [clones EXCEPT ![i].waiter = rq.current],
         UNCHANGED <<pidOf, nextPid, fds, pipes, exited, pending, replay>>
  PROVE  PInv'
  <1> DEFINE cur == rq.current
             r == BlockAndSwitch(rq)
             ds == [clones EXCEPT ![i].waiter = cur]
  <1>1. /\ QueueOK(r) /\ Runner(r) /\ r \in RunQueues
        /\ \A t \in Tasks : r.state[t] = "blocked" <=> t = cur \/ rq.state[t] = "blocked"
        /\ \A t \in Tasks : r.state[t] \in Live <=> rq.state[t] \in Live
    BY Blocking DEF Calling
  <1>2. /\ cur \in Tasks /\ cur # NoTask /\ pidOf[cur] = p /\ p # 0
        /\ \A j \in Slots, l \in Ends : pipes[j].blocked[l] # cur
        /\ \A j \in Records : clones[j].waiter # cur
    BY Caller, NoTaskIsNone, RealRecord DEF Calling
  <1> HIDE DEF r, cur
  <1>3. clones[i].waiter = NoTask
    <2>1. SUFFICES ASSUME clones[i].waiter # NoTask
                   PROVE  FALSE
      OBVIOUS
    <2>2. pidOf[clones[i].waiter] = p /\ clones[i].waiter \in Tasks
      BY <2>1, RealRecord DEF PInv, Family, Clones
    <2> QED BY SMTT(20), <1>2, <2>2 DEF PInv, Family
  <1>4. clones \in [Records -> Clones \cup {NoClone}] /\ clones[i] \in Clones
    BY Typed, RealRecord
  <1>5. ds \in [Records -> Clones \cup {NoClone}]
    <2>1. [clones[i] EXCEPT !.waiter = cur] \in Clones
      BY <1>2, <1>4 DEF Clones
    <2> QED BY <1>4, <2>1
  <1>6. /\ ds[i].waiter = cur /\ ds[i].child = clones[i].child
        /\ ds[i].parent = clones[i].parent
        /\ \A j \in Records : j # i => ds[j] = clones[j]
    BY <1>4 DEF Clones
  <1>7. ds[i] # NoClone /\ clones[i] # NoClone
    BY SMTT(20), <1>2, <1>6, RealRecord DEF NoClone
  <1> HIDE DEF ds
  <1>8. \A j \in Records : /\ ds[j].waiter = IF j = i THEN cur ELSE clones[j].waiter
                           /\ ds[j].child = clones[j].child
                           /\ ds[j].parent = clones[j].parent
                           /\ ds[j] = NoClone <=> clones[j] = NoClone
    BY <1>6, <1>7
  <1>9. clones' = ds /\ rq' = r
    BY DEF ds, r, cur
  <1>10. Here' \in States /\ Here'.pipes = pipes /\ Here'.rq = r
    BY <1>1, <1>9, Typed DEF Here, States
  <1>11. Places(Here', clones')
    <2>1. /\ \A j \in Slots, l \in Ends : pipes[j].blocked[l] \in Tasks \cup {NoTask}
          /\ \A j \in Records : clones[j].waiter \in Tasks \cup {NoTask}
      BY Typed, PlaceTypes
    <2>2. Places(Here, clones) /\ Here.pipes = pipes /\ Here.rq = rq
      BY Typed DEF Sound
    <2>3. \A j \in Slots, l \in Ends :
            pipes[j].blocked[l] # NoTask => r.state[pipes[j].blocked[l]] = "blocked"
      BY SMTT(20), <1>1, <2>1, <2>2 DEF Places
    <2>4. \A j \in Records : ds[j].waiter # NoTask => r.state[ds[j].waiter] = "blocked"
      BY SMTT(20), <1>1, <1>2, <1>8, <2>1, <2>2 DEF Places
    <2>5. \A j, m \in Slots, l, o \in Ends :
            pipes[j].blocked[l] # NoTask /\ pipes[j].blocked[l] = pipes[m].blocked[o]
            => j = m /\ l = o
      BY SMTT(20), <2>2 DEF Places
    <2>6. \A j, m \in Records :
            ds[j].waiter # NoTask /\ ds[j].waiter = ds[m].waiter => j = m
      BY SMTT(20), <1>2, <1>8, <2>2 DEF Places
    <2>7. \A j \in Slots, l \in Ends, m \in Records :
            pipes[j].blocked[l] # NoTask => pipes[j].blocked[l] # ds[m].waiter
      BY SMTT(20), <1>2, <1>8, <2>2 DEF Places
    <2>8. \A t \in Tasks :
            r.state[t] = "blocked" => \/ \E j \in Slots, l \in Ends : pipes[j].blocked[l] = t
                                      \/ \E j \in Records : ds[j].waiter = t
      <3> SUFFICES ASSUME NEW t \in Tasks, r.state[t] = "blocked",
                          ~\E j \in Slots, l \in Ends : pipes[j].blocked[l] = t
                   PROVE  \E j \in Records : ds[j].waiter = t
        OBVIOUS
      <3>1. CASE t = cur
        BY <1>8, <3>1
      <3>2. CASE t # cur
        <4>1. rq.state[t] = "blocked"
          BY <1>1, <3>2
        <4>2. PICK j \in Records : clones[j].waiter = t
          BY SMTT(20), <2>2, <4>1 DEF Places
        <4>3. t # NoTask
          BY NoTaskIsNone
        <4> QED BY <1>3, <1>8, <4>2, <4>3
      <3> QED BY <3>1, <3>2
    <2> DEFINE z == Here'
    <2>9. z.pipes = pipes /\ z.rq = r
      BY <1>10
    <2> HIDE DEF z
    <2>10. Places(z, ds)
      BY SMTT(20), <2>3, <2>4, <2>5, <2>6, <2>7, <2>8, <2>9 DEF Places
    <2> QED BY <1>9, <2>10 DEF z
  <1>12. Sound(Here', clones')
    BY <1>1, <1>10, <1>11, Typed DEF Sound
  <1>13. TypeOK'
    BY <1>1, <1>5, <1>9 DEF PInv, TypeOK, Records
  <1>14. Family'
    <2>1. \A q : Alive(q)' <=> Alive(q)
      BY DEF Alive
    <2>2. /\ \A t \in Tasks : pidOf'[t] # 0 <=> rq'.state[t] \in Live
          /\ \A t, u \in Tasks : pidOf'[t] # 0 /\ pidOf'[t] = pidOf'[u] => t = u
          /\ \A t \in Tasks : pidOf'[t] < nextPid'
      BY <1>1, <1>9 DEF PInv, Family
    <2>3. \A q \in exited' : q < nextPid' /\ q # Main /\ ~Alive(q)'
      BY <2>1 DEF PInv, Family
    <2>4. \A q \in Pids \ {Main} :
            Alive(q)' \/ q \in exited' => \E j \in Records : clones'[j].child = q
      <3>1. \A q \in Pids \ {Main} :
              Alive(q) \/ q \in exited => \E j \in Records : clones[j].child = q
        BY DEF PInv, Family
      <3> QED BY SMTT(20), <1>8, <1>9, <2>1, <3>1
    <2>5. \A j \in Records : clones'[j] # NoClone =>
            /\ clones'[j].child < nextPid'
            /\ clones'[j].child # Main
            /\ Alive(clones[j].child)' \/ clones'[j].child \in exited'
      <3> SUFFICES ASSUME NEW j \in Records, clones'[j] # NoClone
                   PROVE  /\ clones'[j].child < nextPid'
                          /\ clones'[j].child # Main
                          /\ Alive(clones[j].child)' \/ clones'[j].child \in exited'
        OBVIOUS
      <3>1. clones'[j].child = clones[j].child /\ clones[j] # NoClone
        BY <1>8, <1>9
      <3>2. /\ clones[j].child < nextPid /\ clones[j].child # Main
            /\ Alive(clones[j].child) \/ clones[j].child \in exited
        BY <3>1 DEF PInv, Family
      <3>3. Alive(clones[j].child)' <=> Alive(clones[j].child)
        BY <3>1 DEF Alive
      <3> QED BY <3>1, <3>2, <3>3
    <2>6. \A j, m \in Records :
            clones'[j] # NoClone /\ clones'[j].child = clones'[m].child => j = m
      BY SMTT(20), <1>8, <1>9 DEF PInv, Family
    <2>7. \A j \in Records : clones'[j].waiter # NoTask =>
            /\ pidOf'[clones'[j].waiter] = clones'[j].parent
            /\ clones'[j].child \notin exited'
      <3> SUFFICES ASSUME NEW j \in Records, ds[j].waiter # NoTask
                   PROVE  pidOf[ds[j].waiter] = ds[j].parent /\ ds[j].child \notin exited
        BY <1>9
      <3>1. CASE j = i
        BY <1>2, <1>8, <3>1
      <3>2. CASE j # i
        BY <1>6, <3>2 DEF PInv, Family
      <3> QED BY <3>1, <3>2
    <2> QED BY ZenonT(60), <2>2, <2>3, <2>4, <2>5, <2>6, <2>7 DEF Family
  <1> QED BY <1>12, <1>13, <1>14 DEF PInv

(* wait4. *)
LEMMA Wait4Keeps ==
  ASSUME PInv, NEW p \in Pids, NEW children \in SUBSET Pids, Wait4(p, children)
  PROVE  PInv'
  <1> DEFINE matching == {i \in 1 .. CloneLimit :
                            clones[i].parent = p /\ clones[i].child \in children}
             zombies == {i \in matching : clones[i].child \in exited}
  <1>1. /\ Calling(p) /\ matching # {}
        /\ UNCHANGED <<pidOf, nextPid, fds, pipes, pending, replay>>
    BY DEF Wait4
  <1>2. /\ matching \in SUBSET Nat /\ zombies \in SUBSET Nat
        /\ \A i \in matching : i \in Records /\ clones[i].parent = p
                                             /\ clones[i].child \in Pids
        /\ \A i \in zombies : i \in Records /\ clones[i].child \in exited
        /\ \A i \in matching : zombies = {} => clones[i].child \notin exited
    BY SMTT(20) DEF Records
  <1>3. \/ /\ zombies # {} /\ clones' = Reaped(Min(zombies))
           /\ exited' = exited \ {clones[Min(zombies)].child} /\ UNCHANGED rq
        \/ /\ zombies = {}
           /\ rq' = IF CanBlock(rq) THEN BlockAndSwitch(rq) ELSE BlockTask(rq)
           /\ clones' = IF CanBlock(rq)
                        THEN [clones EXCEPT ![Min(matching)].waiter = rq.current]
                        ELSE clones
           /\ UNCHANGED exited
    BY DEF Wait4
  <1> HIDE DEF matching, zombies
  <1>4. CASE /\ zombies # {} /\ clones' = Reaped(Min(zombies))
             /\ exited' = exited \ {clones[Min(zombies)].child} /\ UNCHANGED rq
    <2>1. Min(zombies) \in zombies
      BY <1>2, <1>4, MinMember
    <2> DEFINE z == Min(zombies)
    <2>2. /\ z \in Records /\ clones[z].child \in exited /\ clones' = Reaped(z)
          /\ exited' = exited \ {clones[z].child}
      BY <1>2, <1>4, <2>1
    <2> HIDE DEF z
    <2> QED BY <1>1, <1>4, <2>2, ReapingKeeps
  <1>5. CASE /\ zombies = {} /\ CanBlock(rq) /\ rq' = BlockAndSwitch(rq)
             /\ clones' = [clones EXCEPT ![Min(matching)].waiter = rq.current]
             /\ UNCHANGED exited
    <2>1. Min(matching) \in matching
      BY <1>1, <1>2, MinMember
    <2> DEFINE i == Min(matching)
    <2>2. /\ i \in Records /\ clones[i].parent = p /\ clones[i].child \in Pids
          /\ clones[i].child \notin exited
          /\ clones' = [clones EXCEPT ![i].waiter = rq.current]
      BY <1>2, <1>5, <2>1
    <2> HIDE DEF i
    <2> QED BY <1>1, <1>5, <2>2, WaitingKeeps
  <1>6. CASE ~CanBlock(rq) /\ rq' = BlockTask(rq) /\ UNCHANGED <<clones, exited>>
    <2>1. rq' = Forget(rq)
      BY <1>6 DEF BlockTask
    <2>2. replay' = [replay EXCEPT ![rq.current] = NoCall]
      BY <1>1 DEF Calling, PInv, TypeOK
    <2>3. Fail(p, "read", Forget(rq))
      BY <1>1, <2>1, <2>2 DEF Fail
    <2> QED BY <1>1, <1>6, <2>3, FailKeeps DEF Calling
  <1> QED BY <1>3, <1>4, <1>5, <1>6

-----------------------------------------------------------------------------
(* The queue with the program as its only task. *)
LEMMA FirstTask ==
  LET q == StartQueue(RegisterTask(EmptyQueue, 0), 0)
  IN  /\ QueueOK(q) /\ Runner(q) /\ q \in RunQueues
      /\ 0 \in Tasks
      /\ \A t \in Tasks : q.state[t] = IF t = 0 THEN "running" ELSE "unused"
  <1> DEFINE r == RegisterTask(EmptyQueue, 0)
             q == StartQueue(r, 0)
  <1>1. 0 \in Tasks /\ 0 < TaskLimit
    BY RunQueueAssumption DEF Tasks
  <1>2. AllocateSlot(EmptyQueue) = 0
    <2>1. EmptyQueue.count = 0
      BY DEF EmptyQueue
    <2>2. \A t \in Tasks : ~(t < 0)
      BY RunQueueAssumption DEF Tasks
    <2>3. FreeSlots(EmptyQueue) = {}
      BY <2>1, <2>2 DEF FreeSlots
    <2> QED BY <2>1, <2>3 DEF AllocateSlot
  <1>3. QueueOK(r) /\ Runner(r)
    BY <1>1, <1>2, EmptyIsOK, RegisterKeeps
  <1>4. /\ r.count = 1 /\ ~r.active
        /\ \A t \in Tasks : r.state[t] = IF t = 0 THEN "ready" ELSE "unused"
    BY <1>1 DEF RegisterTask, EmptyQueue
  <1>5. Ready(r, 0)
    BY <1>1, <1>4 DEF Ready
  <1> HIDE DEF r
  <1>6. QueueOK(q) /\ Runner(q)
    BY ZenonT(60), <1>1, <1>3, <1>4, <1>5, StartKeeps
  <1>7. \A t \in Tasks : q.state[t] = IF t = 0 THEN "running" ELSE "unused"
    BY <1>1, <1>3, <1>4 DEF StartQueue, QueueOK, RunQueues
  <1>8. q \in RunQueues
    BY <1>6 DEF QueueOK
  <1> HIDE DEF q
  <1> QED BY <1>1, <1>6, <1>7, <1>8 DEF q, r

(* The invariant holds at first. *)
LEMMA InitPInv == Init => PInv
  <1> SUFFICES ASSUME Init PROVE PInv
    OBVIOUS
  <1>1. /\ QueueOK(rq) /\ Runner(rq) /\ rq \in RunQueues /\ 0 \in Tasks
        /\ \A t \in Tasks : rq.state[t] = IF t = 0 THEN "running" ELSE "unused"
    BY FirstTask DEF Init
  <1>2. /\ pidOf = [t \in Tasks |-> IF t = 0 THEN Main ELSE 0] /\ nextPid = 2
        /\ fds = [p \in Pids |-> EmptyTable]
        /\ pipes = [i \in 1 .. PipeLimit |-> ClearedPipe(1)]
        /\ clones = [i \in 1 .. CloneLimit |-> NoClone]
        /\ exited = {} /\ pending = {} /\ replay = [t \in Tasks |-> NoCall]
    BY DEF Init
  <1>3. Main \in Pids /\ Main # 0
    BY LinuxPipesAssumption DEF Main, Pids
  <1>4. ClearedPipe(1) \in Pipes /\ \A k \in Ends : ClearedPipe(1).blocked[k] = NoTask
    BY LinuxPipesAssumption DEF ClearedPipe, Pipes
  <1>5. TypeOK
    <2>1. nextPid \in 2 .. MaxPid + 1
      BY <1>2, LinuxPipesAssumption
    <2>2. fds \in [Pids -> [Fds -> Handles \cup {NoHandle}]]
      BY <1>2 DEF EmptyTable
    <2> QED BY ZenonT(60), <1>1, <1>2, <1>3, <1>4, <2>1, <2>2 DEF TypeOK, Calls
  <1>6. /\ \A i \in Slots, k \in Ends : pipes[i].blocked[k] = NoTask
        /\ \A i \in Records : clones[i] = NoClone
    BY <1>2, <1>4 DEF Slots, Records
  <1>7. Sound(Here, clones)
    <2>1. Here \in States /\ Here.pipes = pipes /\ Here.rq = rq
      BY <1>5 DEF Here, States, TypeOK, Slots
    <2>2. Places(Here, clones)
      BY SMTT(20), <1>1, <1>6, <2>1 DEF Places, NoClone
    <2>3. Stuck(pipes)
      BY <1>6 DEF Stuck
    <2> QED BY <1>1, <2>1, <2>2, <2>3 DEF Sound
  <1>8. Family
    <2>1. \A t \in Tasks : /\ pidOf[t] = IF t = 0 THEN Main ELSE 0
                           /\ pidOf[t] # 0 <=> rq.state[t] \in Live
                           /\ pidOf[t] < nextPid
      BY <1>1, <1>2, <1>3 DEF Live, Main
    <2>2. \A p \in Pids \ {Main} : ~Alive(p)
      BY <2>1 DEF Alive, Pids
    <2>3. \A t, u \in Tasks : pidOf[t] # 0 /\ pidOf[t] = pidOf[u] => t = u
      BY <2>1
    <2>4. \A i \in Records : clones[i] = NoClone /\ clones[i].waiter = NoTask
      BY SMTT(20), <1>6 DEF NoClone
    <2>5. \A p \in Pids \ {Main} :
            Alive(p) \/ p \in exited => \E i \in Records : clones[i].child = p
      BY <1>2, <2>2
    <2> QED BY <1>2, <2>1, <2>3, <2>4, <2>5 DEF Family
  <1> QED BY <1>5, <1>7, <1>8 DEF PInv

(* A stuttering step changes nothing that the invariant mentions. *)
LEMMA StutterPInv == PInv /\ UNCHANGED vars => PInv'
  <1> SUFFICES ASSUME PInv, UNCHANGED vars PROVE PInv'
    OBVIOUS
  <1>1. UNCHANGED <<rq, pidOf, nextPid, fds, pipes, clones, exited, pending, replay>>
    BY DEF vars
  <1>2. TypeOK'
    BY <1>1 DEF PInv, TypeOK
  <1>3. Here' = Here
    BY <1>1 DEF Here
  <1>4. Sound(Here', clones')
    BY <1>1, <1>3 DEF PInv
  <1>5. Family'
    BY <1>1, FamilyStays DEF PInv
  <1> QED BY <1>2, <1>4, <1>5 DEF PInv

(* Every step keeps the invariant. *)
LEMMA NextPInv == PInv /\ [Next]_vars => PInv'
  <1> SUFFICES ASSUME PInv, [Next]_vars PROVE PInv'
    OBVIOUS
  <1>1. CASE Next
    <2>1. PICK p \in Pids :
            \/ Pipe2(p)
            \/ \E f \in Fds : Close(p, f)
            \/ \E f, g \in Fds : Dup(p, f, g)
            \/ \E f \in Fds, n \in Chunks : PipeIo(p, f, n)
            \/ Fork(p)
            \/ Exit(p)
            \/ \E children \in {Pids} \cup {{c} : c \in Pids} : Wait4(p, children)
      BY <1>1 DEF Next
    <2>2. CASE Pipe2(p)
      BY <2>2, Pipe2Keeps
    <2>3. CASE \E f \in Fds : Close(p, f)
      BY <2>3, CloseKeeps
    <2>4. CASE \E f, g \in Fds : Dup(p, f, g)
      BY <2>4, DupKeeps
    <2>5. CASE \E f \in Fds, n \in Chunks : PipeIo(p, f, n)
      BY <2>5, PipeIoKeeps
    <2>6. CASE Fork(p)
      BY <2>6, FailedFork, Forked
    <2>7. CASE Exit(p)
      BY <2>7, ExitedKeeps
    <2>8. CASE \E children \in {Pids} \cup {{c} : c \in Pids} : Wait4(p, children)
      BY <2>8, Wait4Keeps
    <2> QED BY ZenonT(60), <2>1, <2>2, <2>3, <2>4, <2>5, <2>6, <2>7, <2>8
  <1>2. CASE UNCHANGED vars
    BY <1>2, StutterPInv
  <1> QED BY <1>1, <1>2

(* The places, slots, tables and records always agree. *)
THEOREM PipesInvariance == Spec => []PInv
  <1>1. Init => PInv
    BY InitPInv
  <1>2. PInv /\ [Next]_vars => PInv'
    BY NextPInv
  <1> QED BY <1>1, <1>2, PTL DEF Spec

-----------------------------------------------------------------------------
(* Every variable keeps its type, whatever the limits are. *)
THEOREM PipesTypes == Spec => []TypeOK
  <1>1. PInv => TypeOK
    BY DEF PInv
  <1> QED BY <1>1, PipesInvariance, PTL

(* At most one place remembers a task. *)
LEMMA OnePlace ==
  ASSUME PInv, NEW t \in Tasks
  PROVE  Cardinality(BlockedOn(t)) + Cardinality(WaitsFor(t)) =
           IF rq.state[t] = "blocked" THEN 1 ELSE 0
  <1>1. Places(Here, clones) /\ Here.pipes = pipes /\ Here.rq = rq
    BY Typed DEF Sound
  <1>2. t # NoTask
    BY NoTaskIsNone
  <1>3. Cardinality({}) = 0 /\ \A x : Cardinality({x}) = 1
    BY FS_EmptySet, FS_Singleton
  <1>4. \A b, c \in BlockedOn(t) : b = c
    <2> SUFFICES ASSUME NEW b \in BlockedOn(t), NEW c \in BlockedOn(t)
                 PROVE  b = c
      OBVIOUS
    <2>1. /\ b = <<b[1], b[2]>> /\ c = <<c[1], c[2]>>
          /\ b[1] \in Slots /\ c[1] \in Slots /\ b[2] \in Ends /\ c[2] \in Ends
          /\ pipes[b[1]].blocked[b[2]] = t /\ pipes[c[1]].blocked[c[2]] = t
      BY DEF BlockedOn, Slots
    <2>2. b[1] = c[1] /\ b[2] = c[2]
      BY SMTT(20), <1>1, <1>2, <2>1 DEF Places
    <2> QED BY <2>1, <2>2
  <1>5. \A i, j \in WaitsFor(t) : i = j
    BY <1>1, <1>2 DEF Places, WaitsFor, Records
  <1>6. BlockedOn(t) # {} => rq.state[t] = "blocked" /\ WaitsFor(t) = {}
    <2> SUFFICES ASSUME NEW b \in BlockedOn(t)
                 PROVE  rq.state[t] = "blocked" /\ WaitsFor(t) = {}
      OBVIOUS
    <2>1. b[1] \in Slots /\ b[2] \in Ends /\ pipes[b[1]].blocked[b[2]] = t
      BY DEF BlockedOn, Slots
    <2>2. \A j \in Records : clones[j].waiter # t
      BY SMTT(20), <1>1, <1>2, <2>1 DEF Places
    <2>3. rq.state[t] = "blocked"
      BY SMTT(20), <1>1, <1>2, <2>1 DEF Places
    <2> QED BY <2>2, <2>3 DEF WaitsFor, Records
  <1>7. WaitsFor(t) # {} => rq.state[t] = "blocked"
    BY SMTT(20), <1>1, <1>2 DEF Places, WaitsFor, Records
  <1>8. rq.state[t] = "blocked" => BlockedOn(t) # {} \/ WaitsFor(t) # {}
    <2> SUFFICES ASSUME rq.state[t] = "blocked", WaitsFor(t) = {}
                 PROVE  BlockedOn(t) # {}
      OBVIOUS
    <2>1. \A j \in Records : clones[j].waiter # t
      BY DEF WaitsFor, Records
    <2>2. PICK i \in Slots, k \in Ends : pipes[i].blocked[k] = t
      BY SMTT(20), <1>1, <2>1 DEF Places
    <2>3. <<i, k>> \in BlockedOn(t)
      BY <2>2 DEF BlockedOn, Slots
    <2> QED BY <2>3
  <1>9. CASE BlockedOn(t) # {}
    <2>1. PICK b : BlockedOn(t) = {b}
      BY <1>4, <1>9
    <2> QED BY <1>3, <1>6, <1>9, <2>1
  <1>10. CASE BlockedOn(t) = {} /\ WaitsFor(t) # {}
    <2>1. PICK i : WaitsFor(t) = {i}
      BY <1>5, <1>10
    <2>2. Cardinality(BlockedOn(t)) = 0
      BY <1>3, <1>10
    <2>3. Cardinality(WaitsFor(t)) = 1
      BY <1>3, <2>1
    <2>4. rq.state[t] = "blocked"
      BY <1>7, <1>10
    <2> QED BY <2>2, <2>3, <2>4
  <1>11. CASE BlockedOn(t) = {} /\ WaitsFor(t) = {}
    BY <1>3, <1>8, <1>11
  <1> QED BY <1>9, <1>10, <1>11

(* pipe64_wake_blocked_task and wait4_complete_blocked_child lose no wake  *)
(* and wake no task that moved on, for every number of tasks, pipes,       *)
(* processes and descriptors, with duplicates, wrapping generations and    *)
(* uncaught signals.                                                       *)
THEOREM NoWakeIsLost == Spec => []NoLostWake
  <1>1. PInv => NoLostWake
    <2> SUFFICES ASSUME PInv PROVE NoLostWake
      OBVIOUS
    <2>1. \A t \in Tasks : Cardinality(BlockedOn(t)) + Cardinality(WaitsFor(t)) =
                             IF rq.state[t] = "blocked" THEN 1 ELSE 0
      BY OnePlace
    <2>2. /\ Stuck(pipes)
          /\ \A i \in Records : clones[i].waiter # NoTask => clones[i].child \notin exited
      BY Typed DEF Sound, PInv, Family
    <2>3. \A t \in Tasks : \A b \in BlockedOn(t) : pipes[b[1]].live
      BY SMTT(20), <2>2, NoTaskIsNone DEF Stuck, BlockedOn, Slots
    <2>4. \A t \in Tasks : \A i \in WaitsFor(t) : clones[i].child \notin exited
      BY <2>2, NoTaskIsNone DEF WaitsFor, Records
    <2>5. \A i \in 1 .. PipeLimit :
            /\ pipes[i].blocked["read"] # NoTask =>
                 pipes[i].bytes = 0 /\ pipes[i].refs["write"] # 0
            /\ pipes[i].blocked["write"] # NoTask =>
                 pipes[i].bytes = Capacity /\ pipes[i].refs["read"] # 0
      BY <2>2 DEF Stuck, Slots, Ends, Other
    <2> QED BY <2>1, <2>3, <2>4, <2>5 DEF NoLostWake
  <1> QED BY <1>1, PipesInvariance, PTL

(* sys_exit and wait4 lose no exit status and reap none twice, for every   *)
(* number of processes and clone records.                                  *)
THEOREM NoChildIsLost == Spec => []OneRecordPerChild
  <1>1. PInv => OneRecordPerChild
    <2> SUFFICES ASSUME PInv PROVE OneRecordPerChild
      OBVIOUS
    <2>1. Cardinality({}) = 0 /\ \A x : Cardinality({x}) = 1
      BY FS_EmptySet, FS_Singleton
    <2>2. ASSUME NEW p \in Pids \ {Main}
          PROVE  Cardinality({i \in 1 .. CloneLimit : clones[i].child = p}) =
                   IF Alive(p) \/ p \in exited THEN 1 ELSE 0
      <3> DEFINE C == {i \in 1 .. CloneLimit : clones[i].child = p}
      <3>1. C # {} <=> Alive(p) \/ p \in exited
        <4>1. Alive(p) \/ p \in exited => C # {}
          BY DEF PInv, Family, Records
        <4>2. C # {} => Alive(p) \/ p \in exited
          BY SMTT(20), RealRecord DEF PInv, Family, Records
        <4> QED BY <4>1, <4>2
      <3>2. \A i, j \in C : i = j
        BY SMTT(20), RealRecord DEF PInv, Family, Records
      <3> HIDE DEF C
      <3>3. CASE C = {}
        BY <2>1, <3>1, <3>3 DEF C
      <3>4. CASE C # {}
        <4>1. PICK i : C = {i}
          BY SMTT(20), <3>2, <3>4
        <4>2. Cardinality(C) = 1
          BY <2>1, <4>1
        <4> QED BY <3>1, <3>4, <4>2 DEF C
      <3> QED BY <3>3, <3>4
    <2>3. \A p \in exited : ~Alive(p)
      BY DEF PInv, Family
    <2> QED BY <2>2, <2>3 DEF OneRecordPerChild
  <1> QED BY <1>1, PipesInvariance, PTL

-----------------------------------------------------------------------------
(* Replays survives when the caller's frame has nothing to replay, slots   *)
(* are only emptied, and the other processes keep their tasks, their       *)
(* descriptors and their pending signals.                                  *)
LEMMA ReplaysStay ==
  ASSUME PInv, Replays, rq.active, Emptied(pipes, pipes'),
         \A p \in Pids : p # pidOf[rq.current] /\ p < nextPid => fds'[p] = fds[p],
         \A t \in Tasks : t # rq.current /\ pidOf[t] # 0 => pidOf'[t] = pidOf[t],
         \A q \in pending : q # pidOf[rq.current] => q \in pending',
         \A t \in Tasks : t # rq.current => replay'[t] = replay[t],
         replay'[rq.current] = NoCall
  PROVE  Replays'
  <1> SUFFICES ASSUME NEW t \in Tasks
               PROVE  /\ replay'[t] # NoCall =>
                           pidOf'[t] # 0 /\ fds'[pidOf'[t]][replay'[t].fd] # NoHandle
                      /\ \A i \in Slots, k \in Ends : pipes'[i].blocked[k] = t =>
                           /\ replay'[t] = NoCall => pidOf'[t] \in pending'
                           /\ replay'[t] # NoCall =>
                                /\ fds'[pidOf'[t]][replay'[t].fd].pipe = i
                                /\ fds'[pidOf'[t]][replay'[t].fd].end = k
    BY DEF Replays
  <1>1. \A i \in Slots, k \in Ends : pipes'[i].blocked[k] = t => pipes[i].blocked[k] = t
    BY NoTaskIsNone DEF Emptied
  <1>2. \A i \in Slots, k \in Ends : pipes[i].blocked[k] # rq.current
    BY Caller
  <1>3. CASE t = rq.current
    BY <1>1, <1>2, <1>3
  <1>4. CASE t # rq.current
    <2>1. replay'[t] = replay[t]
      BY <1>4
    <2>2. pidOf[t] # 0 => /\ pidOf'[t] = pidOf[t] /\ pidOf[t] \in Pids
                          /\ pidOf[t] # pidOf[rq.current] /\ pidOf[t] < nextPid
      BY <1>4, Caller DEF PInv, TypeOK, Family
    <2>3. pidOf[t] # 0 => fds'[pidOf[t]] = fds[pidOf[t]]
      BY <2>2
    <2>4. pidOf[t] \in pending => pidOf'[t] \in pending'
      <3>1. 0 \notin pending
        BY DEF PInv, TypeOK, Pids
      <3> QED BY <2>2, <3>1
    <2>5. replay[t] # NoCall => pidOf[t] # 0 /\ fds[pidOf[t]][replay[t].fd] # NoHandle
      BY DEF Replays
    <2>6. ASSUME NEW i \in Slots, NEW k \in Ends, pipes'[i].blocked[k] = t
          PROVE  /\ replay[t] = NoCall => pidOf[t] \in pending
                 /\ replay[t] # NoCall => /\ fds[pidOf[t]][replay[t].fd].pipe = i
                                          /\ fds[pidOf[t]][replay[t].fd].end = k
      BY <1>1, <2>6 DEF Replays
    <2> QED BY <2>1, <2>2, <2>3, <2>4, <2>5, <2>6
  <1> QED BY <1>3, <1>4

(* A call of a process with nothing to replay that leaves the frames, the  *)
(* tasks and the signals alone and touches its own descriptors only.       *)
LEMMA CallingReplays ==
  ASSUME PInv, Replays, NEW p \in Pids, Calling(p), Emptied(pipes, pipes'),
         \A q \in Pids : q # p => fds'[q] = fds[q],
         UNCHANGED <<pidOf, pending, replay>>
  PROVE  Replays'
  <1>1. rq.active /\ p = pidOf[rq.current] /\ replay[rq.current] = NoCall
    BY DEF Calling
  <1> QED BY <1>1, ReplaysStay

(* The caller that blocks is in the slot of the end its frame reads or     *)
(* writes again.                                                           *)
LEMMA BlockReplays ==
  ASSUME PInv, Replays, rq.active, NEW p \in Pids, p = pidOf[rq.current],
         NEW f \in Fds, NEW n \in Chunks, fds[p][f] # NoHandle,
         Block(p, fds[p][f].pipe, fds[p][f].end, [fd |-> f, bytes |-> n]),
         UNCHANGED <<pidOf, fds>>
  PROVE  Replays'
  <1> DEFINE i == fds[p][f].pipe
             k == fds[p][f].end
             call == [fd |-> f, bytes |-> n]
             cur == rq.current
  <1>1. /\ i \in Slots /\ k \in Ends /\ cur \in Tasks
        /\ \A j \in Slots, l \in Ends : pipes[j].blocked[l] # cur
    BY SMTT(20), Caller, Typed DEF Tables, Handles, Slots
  <1>2. /\ pipes' = [pipes EXCEPT ![i].blocked[k] = cur]
        /\ replay' = [replay EXCEPT ![cur] = IF p \in pending THEN NoCall ELSE call]
        /\ pending' = pending /\ pidOf' = pidOf /\ fds' = fds
    BY DEF Block
  <1>3. call # NoCall /\ call.fd = f
    BY SMTT(20), LinuxPipesAssumption DEF NoCall
  <1> HIDE DEF i, k, call
  <1>4. \A j \in Slots, l \in Ends :
          /\ ~(j = i /\ l = k) => pipes'[j].blocked[l] = pipes[j].blocked[l]
          /\ j = i /\ l = k => pipes'[j].blocked[l] = cur
    BY SMTT(20), <1>1, <1>2, Typed DEF Pipes
  <1>5. \A t \in Tasks : /\ t # cur => replay'[t] = replay[t]
                         /\ t = cur => replay'[t] = IF p \in pending THEN NoCall ELSE call
    BY <1>1, <1>2 DEF PInv, TypeOK
  <1> SUFFICES ASSUME NEW t \in Tasks
               PROVE  /\ replay'[t] # NoCall =>
                           pidOf[t] # 0 /\ fds[pidOf[t]][replay'[t].fd] # NoHandle
                      /\ \A j \in Slots, l \in Ends : pipes'[j].blocked[l] = t =>
                           /\ replay'[t] = NoCall => pidOf[t] \in pending
                           /\ replay'[t] # NoCall =>
                                /\ fds[pidOf[t]][replay'[t].fd].pipe = j
                                /\ fds[pidOf[t]][replay'[t].fd].end = l
    <2>1. pending' = pending /\ pidOf' = pidOf /\ fds' = fds
      BY <1>2
    <2> QED BY ZenonT(60), <2>1 DEF Replays
  <1>6. CASE t = cur
    <2>1. \A j \in Slots, l \in Ends : pipes'[j].blocked[l] = t => j = i /\ l = k
      BY <1>1, <1>4, <1>6
    <2>2. pidOf[t] = p /\ p # 0
      BY SMTT(20), <1>6 DEF Pids
    <2>3. CASE p \in pending
      BY <1>5, <1>6, <2>2, <2>3
    <2>4. CASE p \notin pending
      <3>1. replay'[t] = call /\ fds[p][f].pipe = i /\ fds[p][f].end = k
        BY <1>5, <1>6, <2>4 DEF i, k
      <3>2. fds[pidOf[t]][replay'[t].fd] = fds[p][f]
        BY <1>3, <2>2, <3>1
      <3> HIDE DEF cur
      <3> QED BY <1>3, <2>1, <2>2, <3>1, <3>2
    <2> QED BY <2>3, <2>4
  <1>7. CASE t # cur
    <2>1. \A j \in Slots, l \in Ends : pipes'[j].blocked[l] = t => pipes[j].blocked[l] = t
      BY <1>4, <1>7
    <2>2. replay'[t] = replay[t]
      BY <1>5, <1>7
    <2>3. /\ replay[t] # NoCall => pidOf[t] # 0 /\ fds[pidOf[t]][replay[t].fd] # NoHandle
          /\ \A j \in Slots, l \in Ends : pipes[j].blocked[l] = t =>
               /\ replay[t] = NoCall => pidOf[t] \in pending
               /\ replay[t] # NoCall => /\ fds[pidOf[t]][replay[t].fd].pipe = j
                                        /\ fds[pidOf[t]][replay[t].fd].end = l
      BY ZenonT(60) DEF Replays
    <2> HIDE DEF cur
    <2>4. replay'[t] # NoCall => pidOf[t] # 0 /\ fds[pidOf[t]][replay'[t].fd] # NoHandle
      BY <2>2, <2>3
    <2>5. ASSUME NEW j \in Slots, NEW l \in Ends, pipes'[j].blocked[l] = t
          PROVE  /\ replay'[t] = NoCall => pidOf[t] \in pending
                 /\ replay'[t] # NoCall => /\ fds[pidOf[t]][replay'[t].fd].pipe = j
                                           /\ fds[pidOf[t]][replay'[t].fd].end = l
      <3>1. /\ replay[t] = NoCall => pidOf[t] \in pending
            /\ replay[t] # NoCall => /\ fds[pidOf[t]][replay[t].fd].pipe = j
                                     /\ fds[pidOf[t]][replay[t].fd].end = l
        BY <2>1, <2>3, <2>5
      <3> QED BY <2>2, <3>1
    <2> QED BY <2>4, <2>5
  <1> QED BY <1>6, <1>7

(* read and write. *)
LEMMA PipeIoReplays ==
  ASSUME PInv, Replays,
         NEW p \in Pids, NEW f \in Fds, NEW n \in Chunks, PipeIo(p, f, n)
  PROVE  Replays'
  <1> DEFINE h == fds[p][f]
             i == h.pipe
             k == h.end
             call == [fd |-> f, bytes |-> n]
  <1>1. /\ rq.active /\ i \in Slots /\ k \in Ends /\ rq.current \in Tasks
        /\ p = pidOf[rq.current] /\ h # NoHandle /\ UNCHANGED <<pidOf, fds>>
    BY IoTypes, Caller DEF PipeIo
  <1>2. \/ Fail(p, k, rq)
        \/ Transfer(i, k, n)
        \/ EndOfFile
        \/ Block(p, i, k, call)
        \/ Fail(p, k, BlockTask(rq))
    BY Zenon DEF PipeIo
  <1>3. ASSUME replay' = [replay EXCEPT ![rq.current] = NoCall],
               pending \subseteq pending', Emptied(pipes, pipes')
        PROVE  Replays'
    <2>1. /\ \A t \in Tasks : t # rq.current => replay'[t] = replay[t]
          /\ replay'[rq.current] = NoCall
      BY <1>1, <1>3 DEF PInv, TypeOK
    <2> HIDE DEF h
    <2> QED BY <1>1, <1>3, <2>1, ReplaysStay
  <1>4. CASE Block(p, i, k, call)
    BY <1>1, <1>4, BlockReplays
  <1> HIDE DEF h, i, k, call
  <1>5. ASSUME NEW q, Fail(p, k, q)
        PROVE  Replays'
    BY <1>3, <1>5 DEF Fail, Raise, Emptied
  <1>6. CASE EndOfFile
    BY <1>3, <1>6 DEF EndOfFile, Emptied
  <1>7. CASE Transfer(i, k, n)
    <2> DEFINE left == IF k = "read" THEN pipes[i].bytes - Min({n, Room(i, k)})
                                     ELSE pipes[i].bytes + Min({n, Room(i, k)})
               d == [Here EXCEPT !.pipes[i].bytes = left]
    <2>1. /\ Set(d) \/ Set(WakeBlocked(d, i, Other(k)))
          /\ replay' = [replay EXCEPT ![rq.current] = NoCall]
          /\ UNCHANGED pending
      BY <1>7 DEF Transfer
    <2> HIDE DEF left
    <2>2. d.pipes = [pipes EXCEPT ![i].bytes = left]
      BY DEF Here
    <2> HIDE DEF d
    <2>3. /\ \A j \in Slots : d.pipes[j].blocked = pipes[j].blocked
          /\ DOMAIN d.pipes = Slots /\ "blocked" \in DOMAIN d.pipes[i]
          /\ d.pipes[i].blocked \in [Ends -> Tasks \cup {NoTask}]
      BY SMTT(20), <1>1, <2>2, Typed DEF Pipes
    <2>4. pipes' = d.pipes \/ pipes' = [d.pipes EXCEPT ![i].blocked[Other(k)] = NoTask]
      BY <2>1 DEF Set, WakeBlocked
    <2>5. Emptied(d.pipes, pipes')
      BY SMTT(20), <1>1, <2>3, <2>4, TwoEnds DEF Emptied
    <2>6. Emptied(pipes, pipes')
      BY <2>3, <2>5 DEF Emptied
    <2> QED BY <1>3, <2>1, <2>6
  <1> QED BY <1>2, <1>4, <1>5, <1>6, <1>7

(* pipe2 leaves the slots of its object empty. *)
LEMMA Pipe2Replays ==
  ASSUME PInv, Replays, NEW p \in Pids, Pipe2(p)
  PROVE  Replays'
  <1> DEFINE i == Min(FreePipes)
  <1>1. /\ Calling(p) /\ UNCHANGED <<pidOf, pending, replay>>
        /\ \/ pipes' = [pipes EXCEPT ![i] = NewPipe(i)]
           \/ pipes' = [pipes EXCEPT ![i] = AbandonedPipe(i)]
    BY DEF Pipe2
  <1>2. \A q \in Pids : q # p => fds'[q] = fds[q]
    BY Typed DEF Pipe2
  <1>3. \A k \in Ends : NewPipe(i).blocked[k] = NoTask /\ AbandonedPipe(i).blocked[k] = NoTask
    BY DEF NewPipe, AbandonedPipe, ClearedPipe
  <1> HIDE DEF i
  <1>4. \A j \in Slots : \/ pipes'[j] = pipes[j]
                         \/ pipes'[j] = NewPipe(i)
                         \/ pipes'[j] = AbandonedPipe(i)
    BY <1>1, Typed
  <1>5. Emptied(pipes, pipes')
    BY <1>3, <1>4 DEF Emptied
  <1> QED BY <1>1, <1>2, <1>5, CallingReplays

(* fork gives references away and may take them back; the child has a slot *)
(* of its own and nothing to replay.                                       *)
LEMMA ForkReplays ==
  ASSUME PInv, Replays, NEW p \in Pids, Fork(p)
  PROVE  Replays'
  <1> DEFINE g == GrantTable(Here, fds[p])
             s == g.s
             table == g.table
             r == ReleaseTable(s, table)
             slot == AllocateSlot(rq)
  <1>1. Calling(p) /\ UNCHANGED <<pending, replay>>
    BY DEF Fork
  <1>2. g \in Grants /\ Sound(s, clones) /\ Emptied(pipes, s.pipes)
    <2>1. fds[p] \in Tables
      BY Typed
    <2> QED BY <2>1, Typed, GrantKeeps
  <1>3. \/ /\ Set([s EXCEPT !.rq = RegisterTask(@, slot)]) /\ slot < TaskLimit
           /\ pidOf' = [pidOf EXCEPT ![slot] = nextPid]
           /\ fds' = [fds EXCEPT ![nextPid] = table]
        \/ Set(r) /\ UNCHANGED <<pidOf, fds>>
    BY DEF Fork
  <1> HIDE DEF g
  <1>4. s \in States /\ table \in Tables
    BY <1>2 DEF Grants, Sound
  <1> HIDE DEF s, table
  <1>5. CASE Set(r) /\ UNCHANGED <<pidOf, fds>>
    <2>1. Emptied(s.pipes, r.pipes)
      BY <1>2, <1>4, Typed, ReleaseKeeps
    <2>2. Emptied(pipes, pipes')
      BY <1>2, <1>5, <2>1 DEF Emptied, Set
    <2> QED BY <1>1, <1>5, <2>2, CallingReplays
  <1>6. CASE /\ Set([s EXCEPT !.rq = RegisterTask(@, slot)]) /\ slot < TaskLimit
             /\ pidOf' = [pidOf EXCEPT ![slot] = nextPid]
             /\ fds' = [fds EXCEPT ![nextPid] = table]
    <2>1. pipes' = s.pipes
      BY <1>4, <1>6 DEF Set, States
    <2>2. slot \in Tasks /\ rq.state[slot] \in {"unused", "exited"}
      BY <1>6, Typed, SlotIsFree DEF Sound
    <2>3. pidOf[slot] = 0
      BY <2>2 DEF PInv, Family, Live
    <2>4. \A t \in Tasks : pidOf[t] # 0 => pidOf'[t] = pidOf[t]
      BY <1>6, <2>2, <2>3 DEF PInv, TypeOK
    <2>5. \A q \in Pids : q < nextPid => fds'[q] = fds[q]
      BY <1>6, Typed DEF PInv, TypeOK
    <2>6. rq.active /\ replay'[rq.current] = NoCall /\ Emptied(pipes, pipes')
      BY <1>1, <1>2, <2>1 DEF Calling
    <2> QED BY <1>1, <2>4, <2>5, <2>6, ReplaysStay
  <1> QED BY <1>3, <1>5, <1>6

(* exit takes the caller's descriptors and signals, and nobody else's. *)
LEMMA ExitReplays ==
  ASSUME PInv, Replays, NEW p \in Pids, Exit(p)
  PROVE  Replays'
  <1>1. /\ rq.active /\ p = pidOf[rq.current] /\ replay[rq.current] = NoCall
        /\ pipes' = ReleaseTable(Here, fds[p]).pipes /\ UNCHANGED replay
        /\ fds' = [fds EXCEPT ![p] = EmptyTable]
        /\ pidOf' = [pidOf EXCEPT ![rq.current] = 0]
        /\ pending \ {p} \subseteq pending'
    BY DEF Exit, Calling, Raise
  <1>2. Emptied(pipes, pipes')
    <2>1. fds[p] \in Tables
      BY Typed
    <2> QED BY <1>1, <2>1, Typed, ReleaseKeeps
  <1>3. \A q \in Pids : q # p => fds'[q] = fds[q]
    BY <1>1, Typed
  <1>4. \A t \in Tasks : t # rq.current => pidOf'[t] = pidOf[t]
    BY <1>1 DEF PInv, TypeOK
  <1> QED BY <1>1, <1>2, <1>3, <1>4, ReplaysStay

(* Every step. *)
LEMMA NextReplays ==
  ASSUME PInv, Replays, [Next]_vars
  PROVE  Replays'
  <1>1. CASE Next
    <2>1. PICK p \in Pids :
            \/ Pipe2(p)
            \/ \E f \in Fds : Close(p, f)
            \/ \E f, g \in Fds : Dup(p, f, g)
            \/ \E f \in Fds, n \in Chunks : PipeIo(p, f, n)
            \/ Fork(p)
            \/ Exit(p)
            \/ \E children \in {Pids} \cup {{c} : c \in Pids} : Wait4(p, children)
      BY <1>1 DEF Next
    <2>2. CASE Pipe2(p)
      BY <2>2, Pipe2Replays
    <2>3. ASSUME NEW f \in Fds, Calling(p), Set(FreeFd(Here, fds[p], f)),
                 UNCHANGED <<pidOf, pending, replay>>,
                 \A q \in Pids : q # p => fds'[q] = fds[q]
          PROVE  Replays'
      <3>1. Emptied(pipes, pipes')
        BY <2>3, FreeFdKeeps DEF Set
      <3> QED BY <2>3, <3>1, CallingReplays
    <2>4. CASE \E f \in Fds : Close(p, f)
      BY <2>3, <2>4, Typed DEF Close
    <2>5. CASE \E f, g \in Fds : Dup(p, f, g)
      BY <2>3, <2>5, Typed DEF Dup
    <2>6. CASE \E f \in Fds, n \in Chunks : PipeIo(p, f, n)
      BY ZenonT(60), <2>6, PipeIoReplays
    <2>7. CASE Fork(p)
      BY <2>7, ForkReplays
    <2>8. CASE Exit(p)
      BY <2>8, ExitReplays
    <2>9. CASE \E children \in {Pids} \cup {{c} : c \in Pids} : Wait4(p, children)
      <3>1. Calling(p) /\ UNCHANGED <<pidOf, fds, pipes, pending, replay>>
        BY <2>9 DEF Wait4
      <3>2. Emptied(pipes, pipes')
        BY <3>1 DEF Emptied
      <3> QED BY <3>1, <3>2, CallingReplays
    <2> QED BY ZenonT(60), <2>1, <2>2, <2>4, <2>5, <2>6, <2>7, <2>8, <2>9
  <1>2. CASE UNCHANGED vars
    BY <1>2 DEF vars, Replays
  <1> QED BY <1>1, <1>2

(* Nobody is in a slot and no frame replays a call when the program starts. *)
LEMMA InitReplays == Init => Replays
  <1> SUFFICES ASSUME Init PROVE Replays
    OBVIOUS
  <1>1. /\ \A i \in Slots, k \in Ends : pipes[i].blocked[k] = NoTask
        /\ \A t \in Tasks : replay[t] = NoCall
    BY DEF Init, ClearedPipe, Slots
  <1> QED BY <1>1, NoTaskIsNone DEF Replays

(* An object that is not live has no holders. *)
LEMMA NobodyHolds ==
  ASSUME NEW F \in [Pids -> Tables], NEW ps \in [Slots -> Pipes], Exact(ps, F),
         NEW i \in Slots, ~ps[i].live
  PROVE  /\ \A k \in Ends : HoldersIn(F, i, k) = {}
         /\ \A p \in Pids, f \in Fds : F[p][f] # NoHandle => F[p][f].pipe # i
  <1>1. \A k \in Ends : HoldersIn(F, i, k) = {}
    BY HoldersCount DEF Exact
  <1> QED BY <1>1, Holding

(* pipe2 without room for its descriptors. *)
LEMMA AbandonedExact ==
  ASSUME NEW F \in [Pids -> Tables], NEW ps \in [Slots -> Pipes], Exact(ps, F),
         NEW i \in Slots, ~ps[i].live, NEW gen
  PROVE  Exact([ps EXCEPT ![i] = ClearedPipe(gen)], F)
  <1> DEFINE qs == [ps EXCEPT ![i] = ClearedPipe(gen)]
  <1>1. /\ \A j \in Slots : j # i => qs[j] = ps[j]
        /\ ~qs[i].live /\ \A k \in Ends : qs[i].refs[k] = 0
    BY DEF ClearedPipe
  <1>2. /\ \A k \in Ends : HoldersIn(F, i, k) = {}
        /\ \A p \in Pids, f \in Fds : F[p][f] # NoHandle => F[p][f].pipe # i
    BY NobodyHolds
  <1> HIDE DEF qs
  <1>3. \A j \in Slots, k \in Ends : qs[j].refs[k] = Cardinality(HoldersIn(F, j, k))
    <2> SUFFICES ASSUME NEW j \in Slots, NEW k \in Ends
                 PROVE  qs[j].refs[k] = Cardinality(HoldersIn(F, j, k))
      OBVIOUS
    <2>1. CASE j = i
      BY ZenonT(60), <1>1, <1>2, <2>1, HoldersCount
    <2>2. CASE j # i
      BY SMTT(20), <1>1, <2>2 DEF Exact
    <2> QED BY <2>1, <2>2
  <1>4. \A j \in Slots : qs[j].live <=> \E k \in Ends : qs[j].refs[k] # 0
    BY SMTT(20), <1>1 DEF Exact
  <1>5. ASSUME NEW p \in Pids, NEW f \in Fds, F[p][f] # NoHandle
        PROVE  Find(qs, F[p][f])
    <2>1. F[p][f].pipe # i /\ F[p][f].pipe \in Slots /\ Find(ps, F[p][f])
      BY <1>2, <1>5, Holding DEF Exact
    <2> QED BY <1>1, <2>1 DEF Find
  <1>6. Exact(qs, F)
    BY <1>3, <1>4, <1>5 DEF Exact
  <1> QED BY <1>6 DEF qs

(* The object i is opened with a reference for each end. *)
Opened(ps, qs, i) ==
  /\ \A j \in Slots : j # i => qs[j] = ps[j]
  /\ qs[i].live
  /\ \A k \in Ends : qs[i].refs[k] = 1

(* The handles H are entered in the free descriptors D of p. *)
Entered(F, G, p, H, D) ==
  /\ \A k \in Ends : F[p][D[k]] = NoHandle /\ G[p][D[k]] = H[k]
  /\ \A q \in Pids, f \in Fds : (q = p /\ \E k \in Ends : f = D[k]) \/ G[q][f] = F[q][f]

(* pipe2 with room: both ends have one holder. *)
LEMMA CreatedExact ==
  ASSUME NEW F \in [Pids -> Tables], NEW G \in [Pids -> Tables],
         NEW ps \in [Slots -> Pipes], Exact(ps, F), NEW qs,
         NEW i \in Slots, ~ps[i].live, Opened(ps, qs, i),
         NEW p \in Pids, NEW H \in [Ends -> Handles], NEW D \in [Ends -> Fds],
         Entered(F, G, p, H, D), \A k \in Ends : H[k] = [pipe |-> i, gen |-> qs[i].gen, end |-> k]
  PROVE  Exact(qs, G)
  <1>0. \A k \in Ends : H[k].pipe = i /\ H[k].end = k /\ H[k].gen = qs[i].gen
    OBVIOUS
  <1>1. /\ \A k \in Ends : HoldersIn(F, i, k) = {}
        /\ \A q \in Pids, f \in Fds : F[q][f] # NoHandle => F[q][f].pipe # i
    <2>1. F \in [Pids -> Tables] /\ ps \in [Slots -> Pipes] /\ ~ps[i].live
      OBVIOUS
    <2> QED BY SMTT(20), <2>1, NobodyHolds
  <1> USE DEF Opened, Entered
  <1>2. \A k \in Ends : H[k] # NoHandle
    <2>1. NoHandle.end = "none" /\ "none" \notin Ends
      BY DEF NoHandle, Ends
    <2> QED BY SMTT(20), <1>0, <2>1
  <1>3. \A k \in Ends : HoldersIn(G, i, k) = {p}
    <2> SUFFICES ASSUME NEW k \in Ends PROVE HoldersIn(G, i, k) = {p}
      OBVIOUS
    <2>1. p \in HoldersIn(G, i, k)
      BY SMTT(20), <1>2 DEF HoldersIn
    <2>2. ASSUME NEW q \in Pids, q # p PROVE q \notin HoldersIn(G, i, k)
      BY SMTT(20), <1>1, <2>2 DEF HoldersIn
    <2>3. HoldersIn(G, i, k) \subseteq Pids
      BY DEF HoldersIn
    <2> QED BY ZenonT(60), <2>1, <2>2, <2>3
  <1>4. \A j \in Slots, k \in Ends : j # i => HoldersIn(G, j, k) = HoldersIn(F, j, k)
    <2> SUFFICES ASSUME NEW j \in Slots, NEW k \in Ends, j # i, NEW q \in Pids
                 PROVE  q \in HoldersIn(G, j, k) <=> q \in HoldersIn(F, j, k)
      BY SMTT(20) DEF HoldersIn
    <2>1. CASE q # p
      BY SMTT(20), <2>1 DEF HoldersIn
    <2>2. CASE q = p
      <3>1. \A f \in Fds : \/ G[p][f] = F[p][f]
                           \/ G[p][f].pipe = i /\ F[p][f] = NoHandle
        OBVIOUS
      <3> QED BY SMTT(20), <2>2, <3>1 DEF HoldersIn
    <2> QED BY <2>1, <2>2
  <1>5. Cardinality({p}) = 1
    BY FS_Singleton
  <1>6. \A j \in Slots, k \in Ends : qs[j].refs[k] = Cardinality(HoldersIn(G, j, k))
    <2> SUFFICES ASSUME NEW j \in Slots, NEW k \in Ends
                 PROVE  qs[j].refs[k] = Cardinality(HoldersIn(G, j, k))
      OBVIOUS
    <2>1. CASE j = i
      BY <1>3, <1>5, <2>1
    <2>2. CASE j # i
      BY SMTT(20), <1>4, <2>2 DEF Exact
    <2> QED BY <2>1, <2>2
  <1>7. \A j \in Slots : qs[j].live <=> \E k \in Ends : qs[j].refs[k] # 0
    <2>1. "read" \in Ends
      BY DEF Ends
    <2> QED BY SMTT(20), <2>1 DEF Exact
  <1>8. ASSUME NEW q \in Pids, NEW f \in Fds, G[q][f] # NoHandle
        PROVE  Find(qs, G[q][f])
    <2>1. CASE G[q][f] = F[q][f]
      <3>1. F[q][f].pipe # i /\ F[q][f].pipe \in Slots /\ Find(ps, F[q][f])
        BY SMTT(20), <1>1, <1>8, <2>1, Holding DEF Exact
      <3> QED BY SMTT(20), <2>1, <3>1 DEF Find
    <2>2. CASE \E k \in Ends : G[q][f] = H[k]
      BY SMTT(20), <1>8, <2>2 DEF Find
    <2> QED BY SMTT(20), <2>1, <2>2
  <1> QED BY <1>6, <1>7, <1>8 DEF Exact

(* What the references rest on: no table with duplicates is forked, and    *)
(* no generation outgrows its field in the handle.                         *)
Unaliased == ~AliasedForks /\ MaxGeneration < HandleGens

(* pipe2. *)
LEMMA Pipe2Exact ==
  ASSUME Unaliased, PInv, Exact(pipes, fds), NEW p \in Pids, Pipe2(p)
  PROVE  Exact(pipes', fds')
  <1> DEFINE i == Min(FreePipes)
             rfd == Min(FreeFds(p))
             wfd == Min(FreeFds(p) \ {rfd})
             gen == pipes[i].gen + 1
  <1>1. i \in Slots /\ ~pipes[i].live
    <2>1. FreePipes \in SUBSET Nat /\ FreePipes # {}
      BY SMTT(20) DEF Pipe2, FreePipes
    <2>2. Min(FreePipes) \in FreePipes
      BY <2>1, MinMember
    <2> QED BY <2>2 DEF FreePipes, Slots
  <1>2. pipes \in [Slots -> Pipes] /\ fds \in [Pids -> Tables] /\ fds' \in [Pids -> Tables]
    <2>1. fds' \in [Pids -> Tables]
      BY Pipe2Keeps DEF PInv, TypeOK, Tables
    <2> QED BY <2>1, Typed
  <1>3. gen \in Nat /\ gen < HandleGens /\ gen % HandleGens = gen
    <2>1. pipes[i].gen \in Nat /\ pipes[i].gen < MaxGeneration
      BY SMTT(20), <1>1, <1>2 DEF Pipe2, Pipes
    <2>2. MaxGeneration \in Nat /\ HandleGens \in Nat \ {0} /\ MaxGeneration < HandleGens
      BY LinuxPipesAssumption DEF Unaliased
    <2>3. gen \in Nat /\ gen < HandleGens
      BY <2>1, <2>2
    <2> HIDE DEF gen
    <2> QED BY <2>2, <2>3
  <1>4. CASE /\ Cardinality(FreeFds(p)) >= 2
             /\ pipes' = [pipes EXCEPT ![i] = NewPipe(i)]
             /\ fds' = [fds EXCEPT ![p][rfd] = NewHandle(i, "read"),
                                   ![p][wfd] = NewHandle(i, "write")]
    <2> DEFINE H == [k \in Ends |-> NewHandle(i, k)]
               D == [k \in Ends |-> IF k = "read" THEN rfd ELSE wfd]
               F == fds
               G == fds'
               ps == pipes
               qs == pipes'
    <2>1. rfd \in FreeFds(p) /\ wfd \in FreeFds(p) /\ rfd # wfd
      BY <1>4, TwoFreeFds
    <2> HIDE DEF i, rfd, wfd
    <2>2. \A k \in Ends : NewHandle(i, k) \in Handles /\ NewHandle(i, k).pipe = i
                          /\ NewHandle(i, k).end = k /\ NewHandle(i, k).gen = gen
      BY SMTT(20), <1>1, <1>3, LinuxPipesAssumption DEF NewHandle, Handles, Slots
    <2>3. /\ \A j \in Slots : j # i => qs[j] = ps[j]
          /\ qs[i].live /\ qs[i].gen = gen /\ \A k \in Ends : qs[i].refs[k] = 1
      <3>1. qs[i] = NewPipe(i) /\ \A j \in Slots : j # i => qs[j] = ps[j]
        BY <1>1, <1>2, <1>4
      <3>2. /\ NewPipe(i).live /\ NewPipe(i).gen = gen
            /\ \A k \in Ends : NewPipe(i).refs[k] = 1
        BY DEF NewPipe, ClearedPipe
      <3> QED BY <3>1, <3>2
    <2>4. /\ rfd \in Fds /\ wfd \in Fds /\ F[p][rfd] = NoHandle /\ F[p][wfd] = NoHandle
          /\ G[p][rfd] = NewHandle(i, "read") /\ G[p][wfd] = NewHandle(i, "write")
          /\ \A f \in Fds : f # rfd /\ f # wfd => G[p][f] = F[p][f]
          /\ \A q \in Pids : q # p => G[q] = F[q]
      <3>1. rfd \in Fds /\ wfd \in Fds /\ F[p][rfd] = NoHandle /\ F[p][wfd] = NoHandle
        BY <2>1 DEF FreeFds
      <3>2. \A q \in Pids : q # p => G[q] = F[q]
        BY <1>2, <1>4
      <3>3. G[p] = [F[p] EXCEPT ![rfd] = NewHandle(i, "read"), ![wfd] = NewHandle(i, "write")]
        BY <1>2, <1>4
      <3>4. F[p] \in [Fds -> Handles \cup {NoHandle}]
        BY <1>2 DEF Tables
      <3> QED BY ZenonT(60), <2>1, <3>1, <3>2, <3>3, <3>4
    <2>5. H \in [Ends -> Handles] /\ D \in [Ends -> Fds]
      BY <2>2, <2>4
    <2>6. \A k \in Ends : H[k] = [pipe |-> i, gen |-> qs[i].gen, end |-> k]
      BY <1>3, <2>3 DEF NewHandle
    <2>7. Entered(F, G, p, H, D)
      <3>1. D["read"] = rfd /\ D["write"] = wfd /\ Ends = {"read", "write"}
        BY DEF Ends
      <3>2. H["read"] = NewHandle(i, "read") /\ H["write"] = NewHandle(i, "write")
        BY DEF Ends
      <3> HIDE DEF D, F, G, H
      <3>3. \A k \in Ends : F[p][D[k]] = NoHandle /\ G[p][D[k]] = H[k]
        BY <2>4, <3>1, <3>2
      <3>4. \A q \in Pids, f \in Fds :
              (q = p /\ \E k \in Ends : f = D[k]) \/ G[q][f] = F[q][f]
        BY <2>4, <3>1
      <3> QED BY <3>3, <3>4 DEF Entered
    <2>8. /\ F \in [Pids -> Tables] /\ G \in [Pids -> Tables] /\ ps \in [Slots -> Pipes]
          /\ Exact(ps, F) /\ ~ps[i].live /\ Opened(ps, qs, i)
      BY ZenonT(60), <1>1, <1>2, <2>3 DEF Opened
    <2> HIDE DEF H, D, F, G, ps, qs
    <2>9. Exact(qs, G)
      BY ZenonT(60), <1>1, <2>5, <2>6, <2>7, <2>8, CreatedExact
    <2> QED BY <2>9 DEF qs, G
  <1>5. CASE pipes' = [pipes EXCEPT ![i] = AbandonedPipe(i)] /\ UNCHANGED fds
    <2>1. pipes' = [pipes EXCEPT ![i] = ClearedPipe(gen)]
      BY <1>5 DEF AbandonedPipe
    <2> HIDE DEF i, gen
    <2>2. Exact([pipes EXCEPT ![i] = ClearedPipe(gen)], fds)
      BY <1>1, <1>2, AbandonedExact
    <2> QED BY ZenonT(60), <1>5, <2>1, <2>2
  <1>6. IF Cardinality(FreeFds(p)) >= 2
        THEN /\ pipes' = [pipes EXCEPT ![i] = NewPipe(i)]
             /\ fds' = [fds EXCEPT ![p][rfd] = NewHandle(i, "read"),
                                   ![p][wfd] = NewHandle(i, "write")]
        ELSE pipes' = [pipes EXCEPT ![i] = AbandonedPipe(i)] /\ UNCHANGED fds
    BY DEF Pipe2
  <1> QED BY <1>4, <1>5, <1>6

(* read and write count nothing. *)
LEMMA PipeIoExact ==
  ASSUME PInv, Exact(pipes, fds),
         NEW p \in Pids, NEW f \in Fds, NEW n \in Chunks, PipeIo(p, f, n)
  PROVE  Exact(pipes', fds')
  <1> DEFINE h == fds[p][f]
             i == h.pipe
             k == h.end
             call == [fd |-> f, bytes |-> n]
  <1>1. UNCHANGED fds /\ i \in Slots /\ k \in Ends
    BY IoTypes
  <1>2. \/ Fail(p, k, rq)
        \/ Transfer(i, k, n)
        \/ EndOfFile
        \/ Block(p, i, k, call)
        \/ Fail(p, k, BlockTask(rq))
    BY Zenon DEF PipeIo
  <1> HIDE DEF h, i, k, call
  <1>3. pipes \in [Slots -> Pipes] /\ fds \in [Pids -> Tables]
    BY Typed
  <1>4. \A j \in Slots : /\ pipes'[j].refs = pipes[j].refs
                         /\ pipes'[j].live = pipes[j].live
                         /\ pipes'[j].gen = pipes[j].gen
    <2>1. CASE UNCHANGED pipes
      BY <2>1
    <2>2. CASE Block(p, i, k, call)
      BY ZenonT(60), <1>1, <1>3, <2>2 DEF Block, Pipes
    <2>3. CASE Transfer(i, k, n)
      <3> DEFINE moved == Min({n, Room(i, k)})
                 left == IF k = "read" THEN pipes[i].bytes - moved ELSE pipes[i].bytes + moved
                 done == [Here EXCEPT !.pipes[i].bytes = left]
      <3>1. Set(done) \/ Set(WakeBlocked(done, i, Other(k)))
        BY <2>3 DEF Transfer
      <3> HIDE DEF left
      <3>2. done.pipes = [pipes EXCEPT ![i].bytes = left]
        BY DEF Here
      <3>3. \/ pipes' = done.pipes
            \/ pipes' = [done.pipes EXCEPT ![i].blocked[Other(k)] = NoTask]
        BY <3>1 DEF Set, WakeBlocked
      <3> DEFINE x == [pipes[i] EXCEPT !.bytes = left]
                 d == done.pipes
      <3>4. /\ \A j \in Slots : d[j] = IF j = i THEN x ELSE pipes[j]
            /\ d \in [Slots -> Pipes \cup {x}]
        BY ZenonT(60), <1>1, <1>3, <3>2
      <3>5. /\ x.refs = pipes[i].refs /\ x.live = pipes[i].live /\ x.gen = pipes[i].gen
            /\ {"refs", "live", "gen", "blocked"} \subseteq DOMAIN x
        BY ZenonT(60), <1>1, <1>3 DEF Pipes
      <3> HIDE DEF d, x
      <3>6. \/ pipes' = d
            \/ pipes' = [d EXCEPT ![i] = [x EXCEPT !.blocked[Other(k)] = NoTask]]
        BY ZenonT(60), <1>1, <3>3, <3>4 DEF d
      <3>7. /\ \A j \in Slots : j # i => pipes'[j] = pipes[j]
            /\ pipes'[i] = x \/ pipes'[i] = [x EXCEPT !.blocked[Other(k)] = NoTask]
        BY ZenonT(60), <1>1, <3>4, <3>6
      <3>8. /\ pipes'[i].refs = pipes[i].refs
            /\ pipes'[i].live = pipes[i].live
            /\ pipes'[i].gen = pipes[i].gen
        BY ZenonT(60), <3>5, <3>7
      <3> QED BY <3>7, <3>8
    <2> QED BY ZenonT(60), <1>2, <2>1, <2>2, <2>3 DEF Fail, EndOfFile
  <1> DEFINE F == fds
             ps == pipes
             qs == pipes'
  <1>5. F \in [Pids -> Tables] /\ Exact(ps, F)
    BY <1>3
  <1> HIDE DEF F, ps, qs
  <1>6. Exact(qs, F)
    BY <1>4, <1>5, SameCounts DEF ps, qs
  <1> QED BY <1>1, <1>6 DEF qs, F

(* dup, once what the new descriptor held is closed. *)
LEMMA DupExact ==
  ASSUME PInv, Exact(pipes, fds), NEW p \in Pids, NEW old \in Fds, NEW new \in Fds,
         Dup(p, old, new)
  PROVE  Exact(pipes', fds')
  <1> DEFINE F == [fds EXCEPT ![p][new] = NoHandle]
             G == [fds EXCEPT ![p][new] = fds[p][old]]
             ps == FreeFd(Here, fds[p], new).pipes
  <1>1. old # new /\ pipes' = ps /\ fds' = G
    BY DEF Dup, Set
  <1>2. Exact(ps, F)
    BY FreeFdExact
  <1>3. fds \in [Pids -> Tables] /\ fds[p] \in [Fds -> Handles \cup {NoHandle}]
    BY Typed DEF Tables
  <1>4. /\ \A q \in Pids : q # p => G[q] = F[q]
        /\ \A f \in Fds : f # new => G[p][f] = F[p][f]
        /\ F[p][new] = NoHandle /\ G[p][new] = F[p][old]
    BY <1>1, <1>3
  <1> HIDE DEF F, G, ps
  <1>5. /\ \A q \in Pids, f \in Fds : G[q][f] # NoHandle => \E g \in Fds : F[q][g] = G[q][f]
        /\ \A q \in Pids, f \in Fds : F[q][f] # NoHandle => \E g \in Fds : G[q][g] = F[q][f]
    BY <1>4
  <1>6. Exact(ps, G)
    BY SMTT(20), <1>2, <1>5, SameHolders
  <1> QED BY <1>1, <1>6

(* fork, whether it succeeds or gives back what it granted. *)
LEMMA ForkExact ==
  ASSUME Unaliased, PInv, References, NEW p \in Pids, Fork(p)
  PROVE  Exact(pipes', fds')
  <1> DEFINE F == fds
             c == nextPid
             g == GrantTable(Here, F[p])
             A == [F EXCEPT ![c] = g.table]
             slot == AllocateSlot(rq)
             r == ReleaseTable(g.s, g.table)
  <1>1. /\ c \in Pids /\ F \in [Pids -> Tables] /\ F[c] = EmptyTable
        /\ \A f \in Fds : F[p][f] # NoHandle => ~Aliased(F[p], f)
        /\ F[p] \in Tables /\ Sound(Here, clones) /\ Exact(Here.pipes, F)
        /\ clones \in [Records -> Clones \cup {NoClone}]
    <2>1. c \in Pids /\ \A f \in Fds : F[p][f] # NoHandle => ~Aliased(F[p], f)
      BY DEF Fork, Unaliased
    <2>2. F[c] = EmptyTable
      <3>1. c >= nextPid
        BY <2>1 DEF Pids
      <3> QED BY <2>1, <3>1 DEF References
    <2> QED BY <2>1, <2>2, Typed DEF References
  <1>2. g \in Grants /\ Sound(g.s, clones) /\ g.s.rq = rq
    BY <1>1, Typed, GrantKeeps
  <1>3. \/ Set([g.s EXCEPT !.rq = RegisterTask(@, slot)]) /\ fds' = A
        \/ Set(r) /\ UNCHANGED fds
    BY DEF Fork
  <1>4. Exact(g.s.pipes, A)
    <2> DEFINE s == Here
    <2> HIDE DEF s, F, c
    <2>1. /\ Sound(s, clones) /\ Exact(s.pipes, F)
      BY <1>1 DEF s
    <2>2. Exact(GrantTable(s, F[p]).s.pipes, [F EXCEPT ![c] = GrantTable(s, F[p]).table])
      BY ZenonT(60), <1>1, <2>1, GrantExact
    <2> QED BY <2>2 DEF s
  <1> HIDE DEF g, c, slot
  <1>5. g.table \in Tables /\ g.s \in States
    BY <1>2 DEF Grants
  <1>6. A \in [Pids -> Tables] /\ A[c] = g.table
    BY <1>1, <1>5
  <1>7. [A EXCEPT ![c] = EmptyTable] = F
    BY <1>1, <1>5
  <1> HIDE DEF A
  <1>8. CASE Set([g.s EXCEPT !.rq = RegisterTask(@, slot)]) /\ fds' = A
    <2>1. pipes' = g.s.pipes
      BY <1>5, <1>8 DEF Set, States
    <2> QED BY ZenonT(60), <1>4, <1>8, <2>1
  <1>9. CASE Set(r) /\ UNCHANGED fds
    <2> DEFINE s == g.s
    <2>1. Sound(s, clones) /\ Exact(s.pipes, A)
      BY <1>2, <1>4
    <2> HIDE DEF s, F
    <2>2. Exact(ReleaseTable(s, A[c]).pipes, [A EXCEPT ![c] = EmptyTable])
      BY ZenonT(60), <1>1, <1>6, <2>1, ReleaseExact
    <2>3. pipes' = ReleaseTable(s, A[c]).pipes
      BY <1>6, <1>9 DEF Set, s
    <2> QED BY ZenonT(60), <1>7, <1>9, <2>2, <2>3 DEF F
  <1> QED BY <1>3, <1>8, <1>9

(* exit. *)
LEMMA ExitExact ==
  ASSUME PInv, Exact(pipes, fds), NEW p \in Pids, Exit(p)
  PROVE  Exact(pipes', fds')
  <1> DEFINE F == fds
             s == Here
  <1>1. /\ pipes' = ReleaseTable(s, F[p]).pipes
        /\ fds' = [F EXCEPT ![p] = EmptyTable]
    BY DEF Exit
  <1>2. /\ F \in [Pids -> Tables] /\ Sound(s, clones) /\ Exact(s.pipes, F)
        /\ clones \in [Records -> Clones \cup {NoClone}]
    BY Typed
  <1> HIDE DEF F, s
  <1>3. Exact(ReleaseTable(s, F[p]).pipes, [F EXCEPT ![p] = EmptyTable])
    BY <1>2, ReleaseExact
  <1> QED BY <1>1, <1>3

(* Tables of processes that are not there yet stay empty. *)
LEMMA FutureTables ==
  ASSUME PInv, NEW p \in Pids, p = pidOf[rq.current], rq.active, fds' \in [Pids -> Tables],
         \A q \in Pids : q >= nextPid => fds[q] = EmptyTable,
         \/ /\ UNCHANGED nextPid
            /\ \A q \in Pids : q # p => fds'[q] = fds[q]
         \/ /\ nextPid' = nextPid + 1
            /\ \A q \in Pids : q # nextPid => fds'[q] = fds[q]
  PROVE  \A q \in Pids : q >= nextPid' => fds'[q] = EmptyTable
  <1>1. p < nextPid
    BY Caller DEF PInv, Family
  <1>2. nextPid \in Nat /\ Pids \subseteq Nat
    BY SMTT(20) DEF PInv, TypeOK, Pids
  <1>3. \A q \in Pids : q >= nextPid' => q >= nextPid /\ fds'[q] = fds[q]
    BY SMTT(20), <1>1, <1>2
  <1> QED BY <1>3

(* Every step keeps the references exact. *)
LEMMA NextReferences ==
  ASSUME Unaliased, PInv, References, [Next]_vars
  PROVE  References'
  <1>1. /\ Exact(pipes, fds) /\ fds \in [Pids -> Tables]
        /\ \A q \in Pids : q >= nextPid => fds[q] = EmptyTable
    BY Typed DEF References
  <1>2. CASE Next
    <2>1. PICK p \in Pids :
            \/ Pipe2(p)
            \/ \E f \in Fds : Close(p, f)
            \/ \E f, g \in Fds : Dup(p, f, g)
            \/ \E f \in Fds, n \in Chunks : PipeIo(p, f, n)
            \/ Fork(p)
            \/ Exit(p)
            \/ \E children \in {Pids} \cup {{c} : c \in Pids} : Wait4(p, children)
      BY <1>2 DEF Next
    <2>2. fds' \in [Pids -> Tables]
      BY <1>2, NextPInv DEF PInv, TypeOK, Tables
    <2>3. Exact(pipes', fds')
      <3>1. CASE Pipe2(p)
        BY <1>1, <3>1, Pipe2Exact
      <3>2. CASE \E f \in Fds : Close(p, f)
        <4>1. PICK f \in Fds : Close(p, f)
          BY <3>2
        <4>2. /\ pipes' = FreeFd(Here, fds[p], f).pipes
              /\ fds' = [fds EXCEPT ![p][f] = NoHandle]
          BY <4>1 DEF Close, Set
        <4> QED BY <1>1, <4>2, FreeFdExact
      <3>3. CASE \E f, g \in Fds : Dup(p, f, g)
        BY <1>1, <3>3, DupExact
      <3>4. CASE \E f \in Fds, n \in Chunks : PipeIo(p, f, n)
        BY <1>1, <3>4, PipeIoExact
      <3>5. CASE Fork(p)
        BY <3>5, ForkExact
      <3>6. CASE Exit(p)
        BY <1>1, <3>6, ExitExact
      <3>7. CASE \E children \in {Pids} \cup {{c} : c \in Pids} : Wait4(p, children)
        <4>1. UNCHANGED <<pipes, fds>>
          BY <3>7 DEF Wait4
        <4> QED BY <1>1, <4>1
      <3> QED BY ZenonT(60), <2>1, <3>1, <3>2, <3>3, <3>4, <3>5, <3>6, <3>7
    <2>4. p = pidOf[rq.current] /\ rq.active
      BY <2>1 DEF Pipe2, Close, Dup, PipeIo, Fork, Exit, Wait4, Calling
    <2>5. \/ /\ UNCHANGED nextPid
             /\ \A q \in Pids : q # p => fds'[q] = fds[q]
          \/ /\ nextPid' = nextPid + 1
             /\ \A q \in Pids : q # nextPid => fds'[q] = fds[q]
      <3>1. CASE Pipe2(p)
        <4>1. UNCHANGED nextPid /\ (UNCHANGED fds \/ \E x, y, f, g :
                 fds' = [fds EXCEPT ![p][f] = x, ![p][g] = y])
          BY SMTT(20), <3>1 DEF Pipe2
        <4> QED BY <1>1, <4>1
      <3>2. CASE \E f \in Fds : Close(p, f)
        BY <1>1, <3>2 DEF Close
      <3>3. CASE \E f, g \in Fds : Dup(p, f, g)
        BY <1>1, <3>3 DEF Dup
      <3>4. CASE \E f \in Fds, n \in Chunks : PipeIo(p, f, n)
        BY <3>4 DEF PipeIo
      <3>5. CASE Fork(p)
        <4>1. nextPid' = nextPid + 1 /\ (UNCHANGED fds \/ \E x :
                 fds' = [fds EXCEPT ![nextPid] = x])
          BY <3>5 DEF Fork
        <4> QED BY <1>1, <4>1
      <3>6. CASE Exit(p)
        BY <1>1, <3>6 DEF Exit
      <3>7. CASE \E children \in {Pids} \cup {{c} : c \in Pids} : Wait4(p, children)
        BY <3>7 DEF Wait4
      <3> QED BY ZenonT(60), <2>1, <3>1, <3>2, <3>3, <3>4, <3>5, <3>6, <3>7
    <2>6. \A q \in Pids : q >= nextPid' => fds'[q] = EmptyTable
      BY ZenonT(60), <1>1, <2>2, <2>4, <2>5, FutureTables
    <2> QED BY <2>3, <2>6 DEF References
  <1>3. CASE UNCHANGED vars
    <2>1. UNCHANGED <<pipes, fds, nextPid>>
      BY <1>3 DEF vars
    <2> QED BY <1>1, <2>1 DEF References
  <1> QED BY <1>2, <1>3

(* The references are exact at first: there are none. *)
LEMMA InitReferences == Init => References
  <1> SUFFICES ASSUME Init PROVE References
    OBVIOUS
  <1>1. /\ \A p \in Pids : fds[p] = EmptyTable
        /\ \A i \in Slots : pipes[i] = ClearedPipe(1)
    BY DEF Init, Slots
  <1>2. \A p \in Pids, f \in Fds : fds[p][f] = NoHandle
    BY <1>1 DEF EmptyTable
  <1>3. \A i \in Slots : ~pipes[i].live /\ \A k \in Ends : pipes[i].refs[k] = 0
    BY SMTT(20), <1>1 DEF ClearedPipe
  <1>4. \A i \in Slots, k \in Ends : HoldersIn(fds, i, k) = {}
    BY <1>2 DEF HoldersIn
  <1>5. Cardinality({}) = 0
    BY FS_EmptySet
  <1>6. Exact(pipes, fds)
    BY <1>2, <1>3, <1>4, <1>5 DEF Exact
  <1> QED BY <1>1, <1>6 DEF References

(* As long as no table with duplicates is forked and the generations fit   *)
(* their field in the handle, a pipe lives exactly as long as descriptors  *)
(* name it, for every number of processes, descriptors and pipes.  Without *)
(* the first, LinuxPipesDup refutes it; without the second,                *)
(* LinuxPipesWrap.                                                         *)
THEOREM PipesLiveAsLongAsDescriptors ==
  ASSUME ~AliasedForks, MaxGeneration < HandleGens
  PROVE  Spec => []PipesLiveWithDescriptors
  <1>1. PInv /\ References /\ [Next]_vars => References'
    BY NextReferences DEF Unaliased
  <1>2. References => PipesLiveWithDescriptors
    <2> SUFFICES ASSUME References PROVE PipesLiveWithDescriptors
      OBVIOUS
    <2>1. \A i \in Slots, k \in Ends : Holders(i, k) = HoldersIn(fds, i, k)
      BY DEF Holders, HoldersIn
    <2>2. \A i \in Slots, k \in Ends : /\ Cardinality(Holders(i, k)) \in Nat
                                       /\ pipes[i].refs[k] = Cardinality(Holders(i, k))
                                       /\ Cardinality(Holders(i, k)) # 0 => Holders(i, k) # {}
      BY SMTT(20), <2>1, HoldersCount DEF References, Exact
    <2>3. \A i \in Slots, k \in Ends : pipes[i].refs[k] >= Cardinality(Holders(i, k))
      BY <2>2
    <2>4. \A i \in Slots : pipes[i].live => \E k \in Ends : Holders(i, k) # {}
      BY <2>2 DEF References, Exact
    <2>5. \A p \in Pids, f \in Fds : fds[p][f] # NoHandle => Find(pipes, fds[p][f])
      BY DEF References, Exact
    <2> QED BY <2>3, <2>4, <2>5 DEF PipesLiveWithDescriptors, NoLeakedPipe, Slots
  <1> QED BY <1>1, <1>2, InitReferences, PipesInvariance, PTL DEF Spec

(* Under the same conditions a blocked call, when it is made again, finds  *)
(* the pipe it blocked on, whatever the other processes closed, forked or  *)
(* exited meanwhile, and it is made again unless a signal is pending.      *)
THEOREM ReplaysReach ==
  ASSUME ~AliasedForks, MaxGeneration < HandleGens
  PROVE  Spec => []ReplaysReachTheirPipe
  <1>1. PInv /\ References /\ [Next]_vars => References'
    BY NextReferences DEF Unaliased
  <1>2. PInv /\ Replays /\ [Next]_vars => Replays'
    BY NextReplays
  <1>3. PInv /\ References /\ Replays => ReplaysReachTheirPipe
    <2> SUFFICES ASSUME PInv, References, Replays, NEW t \in Tasks
                 PROVE  LET h == fds[pidOf[t]][replay[t].fd]
                        IN /\ replay[t] # NoCall => pidOf[t] # 0 /\ Find(pipes, h)
                           /\ \A b \in BlockedOn(t) :
                                IF replay[t] = NoCall
                                THEN pidOf[t] \in pending
                                ELSE h.pipe = b[1] /\ h.end = b[2]
      BY DEF ReplaysReachTheirPipe
    <2> DEFINE h == fds[pidOf[t]][replay[t].fd]
    <2>1. replay[t] # NoCall => /\ pidOf[t] # 0 /\ h # NoHandle
                                /\ pidOf[t] \in Pids /\ replay[t].fd \in Fds
      BY DEF Replays, PInv, TypeOK, Calls
    <2>2. replay[t] # NoCall => Find(pipes, h)
      BY <2>1 DEF References, Exact
    <2>3. ASSUME NEW b \in BlockedOn(t)
          PROVE  /\ replay[t] = NoCall => pidOf[t] \in pending
                 /\ replay[t] # NoCall => h.pipe = b[1] /\ h.end = b[2]
      <3>1. b[1] \in Slots /\ b[2] \in Ends /\ pipes[b[1]].blocked[b[2]] = t
        BY DEF BlockedOn, Slots
      <3> QED BY <3>1 DEF Replays
    <2> QED BY <2>1, <2>2, <2>3
  <1> QED BY <1>1, <1>2, <1>3, InitReferences, InitReplays, PipesInvariance, PTL DEF Spec
=========================================================================
