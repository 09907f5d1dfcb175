------------------------ MODULE LinuxPipesLemmas ------------------------
(***************************************************************************)
(* Lemmas about pipes, fork, exit and wait4: the inductive invariant, what *)
(* each operator on pipes, descriptors and the run queue does to it, and   *)
(* what granting and releasing a descriptor does to the reference counts.  *)
(* LinuxPipesInvariance and LinuxPipesProofs build on them.                *)
(***************************************************************************)
EXTENDS LinuxPipes, RunQueueProofs, FiniteSetTheorems

(* The provers of a leaf that names none, and their time in seconds. *)
USE ZenonT(20), SMTT(20)

Slots == 1 .. PipeLimit
Records == 1 .. CloneLimit

(* The records that the operators on pipes and the queue work on. *)
States == [pipes : [Slots -> Pipes], rq : RunQueues]

Live == {"ready", "running", "blocked"}

(* Who is remembered where.  A task in the slot of a pipe or in a clone    *)
(* record is blocked, no two places hold the same task, and a blocked task *)
(* is in one of them.                                                      *)
Places(s, cs) ==
  /\ \A i \in Slots, k \in Ends :
       s.pipes[i].blocked[k] # NoTask =>
         s.rq.state[s.pipes[i].blocked[k]] = "blocked"
  /\ \A i \in Records : cs[i].waiter # NoTask => s.rq.state[cs[i].waiter] = "blocked"
  /\ \A i, j \in Slots, k, l \in Ends :
       s.pipes[i].blocked[k] # NoTask /\ s.pipes[i].blocked[k] = s.pipes[j].blocked[l]
       => i = j /\ k = l
  /\ \A i, j \in Records :
       cs[i].waiter # NoTask /\ cs[i].waiter = cs[j].waiter => i = j
  /\ \A i \in Slots, k \in Ends, j \in Records :
       s.pipes[i].blocked[k] # NoTask => s.pipes[i].blocked[k] # cs[j].waiter
  /\ \A t \in Tasks :
       s.rq.state[t] = "blocked" => \/ \E i \in Slots, k \in Ends : s.pipes[i].blocked[k] = t
                                    \/ \E i \in Records : cs[i].waiter = t

(* Why a task is still in the slot of a pipe. *)
Stuck(ps) ==
  \A i \in Slots, k \in Ends :
    ps[i].blocked[k] # NoTask => /\ ps[i].live
                                 /\ ps[i].refs[Other(k)] # 0
                                 /\ ps[i].bytes = IF k = "read" THEN 0 ELSE Capacity

(* What the pipes and the queue satisfy between any two operators. *)
Sound(s, cs) ==
  /\ s \in States
  /\ QueueOK(s.rq)
  /\ Runner(s.rq)
  /\ Places(s, cs)
  /\ Stuck(s.pipes)

(* The tasks of processes, and the records of their children. *)
Family ==
  /\ \A t \in Tasks : pidOf[t] # 0 <=> rq.state[t] \in Live
  /\ \A t, u \in Tasks : pidOf[t] # 0 /\ pidOf[t] = pidOf[u] => t = u
  /\ \A t \in Tasks : pidOf[t] < nextPid
  /\ \A p \in exited : p < nextPid /\ p # Main /\ ~Alive(p)
  /\ \A p \in Pids \ {Main} :
       Alive(p) \/ p \in exited => \E i \in Records : clones[i].child = p
  /\ \A i \in Records : clones[i] # NoClone =>
       /\ clones[i].child < nextPid
       /\ clones[i].child # Main
       /\ Alive(clones[i].child) \/ clones[i].child \in exited
  /\ \A i, j \in Records :
       clones[i] # NoClone /\ clones[i].child = clones[j].child => i = j
  /\ \A i \in Records : clones[i].waiter # NoTask =>
       /\ pidOf[clones[i].waiter] = clones[i].parent
       /\ clones[i].child \notin exited

(* The inductive invariant. *)
PInv ==
  /\ TypeOK
  /\ Sound(Here, clones)
  /\ Family

(* The processes whose table in F holds an end of a pipe. *)
HoldersIn(F, i, k) ==
  {p \in Pids : \E f \in Fds : F[p][f] # NoHandle /\ F[p][f].pipe = i /\ F[p][f].end = k}

(* Each end counts the tables that hold it, and a live pipe has one. *)
Exact(ps, F) ==
  /\ \A i \in Slots, k \in Ends : ps[i].refs[k] = Cardinality(HoldersIn(F, i, k))
  /\ \A i \in Slots : ps[i].live <=> \E k \in Ends : ps[i].refs[k] # 0
  /\ \A p \in Pids, f \in Fds : F[p][f] # NoHandle => Find(ps, F[p][f])

(* What it takes for the references to be exact. *)
References ==
  /\ Exact(pipes, fds)
  /\ \A p \in Pids : p >= nextPid => fds[p] = EmptyTable

(* A frame replays a call on a descriptor that its process still has, and  *)
(* a task in a slot either replays a call on that end of that pipe or has  *)
(* a signal pending.                                                       *)
Replays ==
  \A t \in Tasks :
    /\ replay[t] # NoCall => pidOf[t] # 0 /\ fds[pidOf[t]][replay[t].fd] # NoHandle
    /\ \A i \in Slots, k \in Ends : pipes[i].blocked[k] = t =>
         /\ replay[t] = NoCall => pidOf[t] \in pending
         /\ replay[t] # NoCall => /\ fds[pidOf[t]][replay[t].fd].pipe = i
                                  /\ fds[pidOf[t]][replay[t].fd].end = k

(* Each slot is left alone or emptied. *)
Emptied(ps, qs) ==
  \A i \in Slots, k \in Ends :
    qs[i].blocked[k] = ps[i].blocked[k] \/ qs[i].blocked[k] = NoTask

-----------------------------------------------------------------------------
(* A count of references given back once. *)
LEMMA OneLess ==
  ASSUME NEW n \in Nat
  PROVE  Max({n - 1, 0}) = IF n = 0 THEN 0 ELSE n - 1
  <1> DEFINE m == IF n = 0 THEN 0 ELSE n - 1
  <1>1. m \in {n - 1, 0} /\ \A y \in {n - 1, 0} : m >= y
    OBVIOUS
  <1>2. \A x \in {n - 1, 0} : (\A y \in {n - 1, 0} : x >= y) => x = m
    OBVIOUS
  <1>3. Max({n - 1, 0}) \in {n - 1, 0} /\ \A y \in {n - 1, 0} : Max({n - 1, 0}) >= y
    BY <1>1 DEF Max
  <1> QED BY <1>2, <1>3

(* The two ends are each other's other end. *)
LEMMA TwoEnds ==
  \A k \in Ends : Other(k) \in Ends /\ Other(k) # k /\ Ends = {k, Other(k)}
  BY DEF Ends, Other

(* Waking may make blocked tasks ready, and does nothing else to the queue *)
(* but prefer one.                                                         *)
Moved(q, r) ==
  /\ r.active = q.active
  /\ r.current = q.current
  /\ \A t \in Tasks : \/ r.state[t] = q.state[t]
                      \/ q.state[t] = "blocked" /\ r.state[t] = "ready"

(* Places depends on the slots, the waiters and the blocked tasks only. *)
LEMMA SamePlaces ==
  ASSUME NEW s, NEW r, NEW cs, Places(s, cs),
         \A t \in Tasks : r.rq.state[t] = "blocked" <=> s.rq.state[t] = "blocked",
         \A i \in Slots, k \in Ends : r.pipes[i].blocked[k] = s.pipes[i].blocked[k],
         \A i \in Slots, k \in Ends : s.pipes[i].blocked[k] \in Tasks \cup {NoTask},
         \A i \in Records : cs[i].waiter \in Tasks \cup {NoTask}
  PROVE  Places(r, cs)
  <1>1. \A i \in Slots, k \in Ends :
          r.pipes[i].blocked[k] # NoTask => r.rq.state[r.pipes[i].blocked[k]] = "blocked"
    BY SMTT(20) DEF Places
  <1>2. \A i \in Records : cs[i].waiter # NoTask => r.rq.state[cs[i].waiter] = "blocked"
    BY DEF Places
  <1>3. \A i, j \in Slots, k, l \in Ends :
          r.pipes[i].blocked[k] # NoTask /\ r.pipes[i].blocked[k] = r.pipes[j].blocked[l]
          => i = j /\ k = l
    BY SMTT(20) DEF Places
  <1>4. /\ \A i, j \in Records :
             cs[i].waiter # NoTask /\ cs[i].waiter = cs[j].waiter => i = j
        /\ \A i \in Slots, k \in Ends, j \in Records :
             r.pipes[i].blocked[k] # NoTask => r.pipes[i].blocked[k] # cs[j].waiter
    BY SMTT(20) DEF Places
  <1>5. \A t \in Tasks :
          r.rq.state[t] = "blocked" =>
            \/ \E i \in Slots, k \in Ends : r.pipes[i].blocked[k] = t
            \/ \E i \in Records : cs[i].waiter = t
    BY SMTT(20) DEF Places
  <1> QED BY <1>1, <1>2, <1>3, <1>4, <1>5 DEF Places

(* The tasks named in slots and clone records have the right type. *)
LEMMA PlaceTypes ==
  ASSUME NEW s \in States, NEW cs \in [Records -> Clones \cup {NoClone}]
  PROVE  /\ \A i \in Slots, k \in Ends : s.pipes[i].blocked[k] \in Tasks \cup {NoTask}
         /\ \A i \in Records : cs[i].waiter \in Tasks \cup {NoTask}
  BY SMTT(20) DEF States, Pipes, Clones, NoClone

(* pipe64_wake_blocked_task empties the slot and makes its task ready. *)
LEMMA WakeBlockedKeeps ==
  ASSUME NEW s \in States, NEW cs,
         cs \in [Records -> Clones \cup {NoClone}],
         QueueOK(s.rq), Runner(s.rq), Places(s, cs),
         NEW i \in Slots, NEW k \in Ends
  PROVE  LET w == WakeBlocked(s, i, k)
         IN  /\ w \in States
             /\ QueueOK(w.rq) /\ Runner(w.rq) /\ Places(w, cs)
             /\ Moved(s.rq, w.rq)
             /\ w.pipes = [s.pipes EXCEPT ![i].blocked[k] = NoTask]
  <1> DEFINE t == s.pipes[i].blocked[k]
             w == WakeBlocked(s, i, k)
  <1>1. /\ s.pipes \in [Slots -> Pipes] /\ s.rq \in RunQueues
        /\ s.pipes[i] \in Pipes
        /\ s.pipes[i].blocked \in [Ends -> Tasks \cup {NoTask}]
        /\ t \in Tasks \cup {NoTask}
        /\ s.rq.state \in [Tasks -> TaskStates]
    BY SMTT(20) DEF States, Pipes, RunQueues
  <1>2. CASE t = NoTask
    <2>1. w = s
      BY <1>2 DEF WakeBlocked
    <2>2. [s.pipes[i].blocked EXCEPT ![k] = NoTask] = s.pipes[i].blocked
      BY <1>1, <1>2
    <2>3. [s.pipes[i] EXCEPT !.blocked[k] = NoTask] = s.pipes[i]
      BY <1>1, <2>2 DEF Pipes
    <2>4. [s.pipes EXCEPT ![i].blocked[k] = NoTask] = s.pipes
      BY <1>1, <2>3
    <2> QED BY <2>1, <2>4 DEF Moved
  <1>3. CASE t # NoTask
    <2>1. t \in Tasks /\ s.rq.state[t] = "blocked"
      BY <1>1, <1>3 DEF Places
    <2>2. /\ w.pipes = [s.pipes EXCEPT ![i].blocked[k] = NoTask]
          /\ w.rq = WakeReplay(s.rq, t)
          /\ w = [pipes |-> w.pipes, rq |-> w.rq]
      BY <1>3 DEF WakeBlocked
    <2> HIDE DEF w
    <2>3. /\ QueueOK(w.rq) /\ Runner(w.rq)
          /\ w.rq.active = s.rq.active /\ w.rq.current = s.rq.current
          /\ w.rq.state[t] = "ready"
          /\ \A u \in Tasks \ {t} : w.rq.state[u] = s.rq.state[u]
      <3>1. /\ QueueOK(w.rq) /\ Runner(w.rq)
            /\ w.rq.active = s.rq.active /\ w.rq.current = s.rq.current
            /\ w.rq.state[t] = "ready"
        <4> DEFINE r == WakeReplay(s.rq, t)
        <4> HIDE DEF t
        <4>1. /\ QueueOK(r) /\ Runner(r)
              /\ r.active = s.rq.active /\ r.current = s.rq.current
              /\ r.state[t] = "ready"
          BY <2>1, WakeKeeps
        <4> QED BY <2>2, <4>1 DEF t
      <3>2. \A u \in Tasks \ {t} : w.rq.state[u] = s.rq.state[u]
        BY SMTT(20), <1>1, <2>1, <2>2 DEF WakeReplay, RunQueues
      <3> QED BY <3>1, <3>2
    <2>4. w.pipes \in [Slots -> Pipes]
      <3>1. [s.pipes[i] EXCEPT !.blocked[k] = NoTask] \in Pipes
        BY <1>1 DEF Pipes
      <3> QED BY <1>1, <2>2, <3>1
    <2>5. w \in States
      BY <2>2, <2>3, <2>4 DEF States, QueueOK
    <2>6. Moved(s.rq, w.rq)
      BY <2>1, <2>3 DEF Moved
    <2>7. \A j \in Slots, l \in Ends :
            w.pipes[j].blocked[l] = IF j = i /\ l = k THEN NoTask
                                                      ELSE s.pipes[j].blocked[l]
      BY SMTT(20), <1>1, <2>2 DEF Pipes
    <2>8. Places(w, cs)
      <3>1. \A j \in Slots, l \in Ends : s.pipes[j].blocked[l] \in Tasks \cup {NoTask}
        BY SMTT(20), <1>1 DEF Pipes
      <3>2. \A j \in Records : cs[j].waiter \in Tasks \cup {NoTask}
        BY SMTT(20) DEF Clones, NoClone
      <3>3. \A j \in Records : cs[j].waiter # t
        BY SMTT(20), <1>3 DEF Places
      <3>4. \A j \in Slots, l \in Ends :
              w.pipes[j].blocked[l] # NoTask =>
                w.rq.state[w.pipes[j].blocked[l]] = "blocked"
        BY SMTT(20), <1>3, <2>3, <2>7, <3>1 DEF Places
      <3>5. \A j \in Records : cs[j].waiter # NoTask => w.rq.state[cs[j].waiter] = "blocked"
        BY ZenonT(60), <2>3, <3>2, <3>3 DEF Places
      <3>6. \A u \in Tasks :
              w.rq.state[u] = "blocked" =>
                \/ \E j \in Slots, l \in Ends : w.pipes[j].blocked[l] = u
                \/ \E j \in Records : cs[j].waiter = u
        <4> SUFFICES ASSUME NEW u \in Tasks, w.rq.state[u] = "blocked"
                     PROVE  \/ \E j \in Slots, l \in Ends : w.pipes[j].blocked[l] = u
                            \/ \E j \in Records : cs[j].waiter = u
          OBVIOUS
        <4>1. u # t /\ s.rq.state[u] = "blocked"
          BY <2>1, <2>3
        <4> QED BY SMTT(20), <4>1, <2>7 DEF Places
      <3> QED BY SMTT(20), <2>7, <3>4, <3>5, <3>6 DEF Places
    <2> QED BY <2>2, <2>3, <2>5, <2>6, <2>8 DEF w
  <1> QED BY <1>2, <1>3

(* What a revoked handle leaves of the pipes. *)
Dropped(ps, qs, h) ==
  /\ \A i \in Slots \ {h.pipe} : qs[i] = ps[i]
  /\ qs[h.pipe].gen = ps[h.pipe].gen
  /\ qs[h.pipe].refs = [ps[h.pipe].refs EXCEPT ![h.end] = IF @ = 0 THEN 0 ELSE @ - 1]
  /\ qs[h.pipe].live <=> ~BothEndsClosed(qs[h.pipe])

(* pipe64_revoke_handle leaves nobody in a slot without a reason: the last *)
(* reference to an end wakes the task that waits for it, and the last of   *)
(* both clears an object whose slots are already empty.                    *)
LEMMA RevokeKeeps ==
  ASSUME NEW s, NEW cs, cs \in [Records -> Clones \cup {NoClone}],
         Sound(s, cs), NEW h \in Handles
  PROVE  LET r == Revoke(s, h)
         IN  /\ Sound(r, cs)
             /\ Moved(s.rq, r.rq)
             /\ Find(s.pipes, h) => Dropped(s.pipes, r.pipes, h)
             /\ ~Find(s.pipes, h) => r.pipes = s.pipes
  <1> DEFINE i == h.pipe
             k == h.end
             o == Other(k)
             n == s.pipes[i].refs[k]
             left == IF n = 0 THEN 0 ELSE n - 1
             d == [s EXCEPT !.pipes[i].refs[k] = left]
             e == DropReference(s, h)
             r == Revoke(s, h)
  <1>1. /\ s \in States /\ s.pipes \in [Slots -> Pipes] /\ s.rq \in RunQueues
        /\ i \in Slots /\ k \in Ends /\ o \in Ends /\ o # k /\ Ends = {k, o}
        /\ Other(o) = k
        /\ s.pipes[i] \in Pipes /\ s.pipes[i].refs \in [Ends -> Nat]
        /\ n \in Nat /\ left \in Nat
    <2>1. i \in Slots /\ k \in Ends
      BY DEF Handles, Slots
    <2>2. o \in Ends /\ o # k /\ Ends = {k, o} /\ Other(o) = k
      BY <2>1 DEF Ends, Other
    <2>3. /\ s \in States /\ s.pipes \in [Slots -> Pipes] /\ s.rq \in RunQueues
          /\ s.pipes[i] \in Pipes /\ s.pipes[i].refs \in [Ends -> Nat]
      BY <2>1 DEF Sound, States, Pipes
    <2> QED BY SMTT(20), <2>1, <2>2, <2>3
  <1>2. Max({n - 1, 0}) = left
    BY <1>1, OneLess
  <1>3. e = IF left = 0 THEN WakeBlocked(d, i, o) ELSE d
    BY <1>2 DEF DropReference
  <1> HIDE DEF i, k, o, n, left
  <1>4. /\ d \in States /\ d.rq = s.rq
        /\ d.pipes = [s.pipes EXCEPT ![i].refs[k] = left]
    <2>1. [s.pipes[i] EXCEPT !.refs[k] = left] \in Pipes
      BY <1>1 DEF Pipes
    <2> QED BY <1>1, <2>1 DEF States
  <1>5. /\ \A j \in Slots \ {i} : d.pipes[j] = s.pipes[j]
        /\ d.pipes[i].refs = [s.pipes[i].refs EXCEPT ![k] = left]
        /\ d.pipes[i].live = s.pipes[i].live
        /\ d.pipes[i].gen = s.pipes[i].gen
        /\ d.pipes[i].bytes = s.pipes[i].bytes
        /\ d.pipes[i].blocked = s.pipes[i].blocked
    BY SMTT(20), <1>1, <1>4 DEF Pipes
  <1> HIDE DEF d
  <1>6. Places(d, cs)
    <2>1. \A j \in Slots, l \in Ends : d.pipes[j].blocked[l] = s.pipes[j].blocked[l]
      BY <1>5
    <2>2. /\ \A j \in Slots, l \in Ends : s.pipes[j].blocked[l] \in Tasks \cup {NoTask}
          /\ \A j \in Records : cs[j].waiter \in Tasks \cup {NoTask}
      BY <1>1, PlaceTypes
    <2>3. Places(s, cs)
      BY DEF Sound
    <2>4. \A t \in Tasks : d.rq.state[t] = "blocked" <=> s.rq.state[t] = "blocked"
      BY <1>4
    <2> QED BY SMTT(20), <2>1, <2>2, <2>3, <2>4, SamePlaces
  <1>7. /\ e \in States /\ QueueOK(e.rq) /\ Runner(e.rq)
        /\ Places(e, cs) /\ Moved(s.rq, e.rq)
        /\ e.pipes = IF left = 0 THEN [d.pipes EXCEPT ![i].blocked[o] = NoTask]
                                 ELSE d.pipes
    <2>1. CASE left = 0
      <3> DEFINE w == WakeBlocked(d, i, o)
      <3>1. QueueOK(d.rq) /\ Runner(d.rq)
        BY <1>4 DEF Sound
      <3>2. /\ w \in States /\ QueueOK(w.rq) /\ Runner(w.rq)
            /\ Places(w, cs) /\ Moved(d.rq, w.rq)
            /\ w.pipes = [d.pipes EXCEPT ![i].blocked[o] = NoTask]
        BY <1>1, <1>4, <1>6, <3>1, WakeBlockedKeeps
      <3> QED BY <1>3, <1>4, <2>1, <3>2
    <2>2. CASE left # 0
      BY <1>3, <1>4, <1>6, <2>2 DEF Sound, Moved
    <2> QED BY <2>1, <2>2
  <1> HIDE DEF e
  <1>8. /\ \A j \in Slots \ {i} : e.pipes[j] = s.pipes[j]
        /\ e.pipes[i].refs = [s.pipes[i].refs EXCEPT ![k] = left]
        /\ e.pipes[i].live = s.pipes[i].live
        /\ e.pipes[i].gen = s.pipes[i].gen
        /\ e.pipes[i].bytes = s.pipes[i].bytes
        /\ e.pipes[i].blocked[k] = s.pipes[i].blocked[k]
        /\ e.pipes[i].blocked[o] = IF left = 0 THEN NoTask ELSE s.pipes[i].blocked[o]
    <2>1. d.pipes \in [Slots -> Pipes]
      BY <1>4 DEF States
    <2> QED BY SMTT(20), <1>1, <1>5, <1>7, <2>1 DEF Pipes
  <1>9. Stuck(e.pipes)
    <2> SUFFICES ASSUME NEW j \in Slots, NEW l \in Ends, e.pipes[j].blocked[l] # NoTask
                 PROVE  /\ e.pipes[j].live
                        /\ e.pipes[j].refs[Other(l)] # 0
                        /\ e.pipes[j].bytes = IF l = "read" THEN 0 ELSE Capacity
      BY DEF Stuck
    <2>1. CASE j # i
      BY SMTT(20), <1>8, <2>1 DEF Sound, Stuck
    <2>2. CASE j = i /\ l = k
      BY <1>1, <1>8, <2>2 DEF Sound, Stuck, o
    <2>3. CASE j = i /\ l = o
      BY ZenonT(60), <1>1, <1>8, <2>3 DEF Sound, Stuck
    <2> QED BY <1>1, <2>1, <2>2, <2>3
  <1>10. CASE ~Find(s.pipes, h)
    <2>1. r = s
      BY <1>10 DEF Revoke
    <2> QED BY <1>10, <2>1 DEF Moved
  <1>11. CASE Find(s.pipes, h) /\ ~BothEndsClosed(e.pipes[i])
    <2>1. r = e
      BY <1>11 DEF Revoke, e, i
    <2>2. Sound(e, cs)
      BY <1>7, <1>9 DEF Sound
    <2>3. Dropped(s.pipes, e.pipes, h)
      BY <1>1, <1>8, <1>11 DEF Dropped, Find, i, k, left, n
    <2> QED BY <1>7, <1>11, <2>1, <2>2, <2>3
  <1>12. CASE Find(s.pipes, h) /\ BothEndsClosed(e.pipes[i])
    <2>1. r = [e EXCEPT !.pipes[i] = ClearedPipe(e.pipes[i].gen)]
      BY <1>12 DEF Revoke, e, i
    <2>2. e.pipes \in [Slots -> Pipes] /\ e.pipes[i].gen \in 1 .. MaxGeneration
      BY <1>1, <1>7 DEF States, Pipes
    <2>3. ClearedPipe(e.pipes[i].gen) \in Pipes
      BY SMTT(20), <2>2, LinuxPipesAssumption DEF ClearedPipe, Pipes
    <2>4. /\ r \in States /\ r.rq = e.rq
          /\ r.pipes = [e.pipes EXCEPT ![i] = ClearedPipe(e.pipes[i].gen)]
      BY SMTT(20), <1>1, <1>7, <2>1, <2>2, <2>3 DEF States
    <2> HIDE DEF r
    <2>5. \A l \in Ends : e.pipes[i].blocked[l] = NoTask
      BY <1>1, <1>9, <1>12, TwoEnds DEF Stuck, BothEndsClosed
    <2>6. \A j \in Slots, l \in Ends : r.pipes[j].blocked[l] = e.pipes[j].blocked[l]
      BY SMTT(20), <1>1, <2>2, <2>4, <2>5 DEF ClearedPipe
    <2>7. Places(r, cs)
      <3>1. /\ \A j \in Slots, l \in Ends : e.pipes[j].blocked[l] \in Tasks \cup {NoTask}
            /\ \A j \in Records : cs[j].waiter \in Tasks \cup {NoTask}
        BY <1>7, PlaceTypes
      <3>2. \A t \in Tasks : r.rq.state[t] = "blocked" <=> e.rq.state[t] = "blocked"
        BY <2>4
      <3>3. Places(e, cs)
        BY <1>7
      <3> QED BY SMTT(20), <2>6, <3>1, <3>2, <3>3, SamePlaces
    <2>8. Stuck(r.pipes)
      <3> SUFFICES ASSUME NEW j \in Slots, NEW l \in Ends, r.pipes[j].blocked[l] # NoTask
                   PROVE  j # i
        BY SMTT(20), <1>1, <1>9, <2>2, <2>4 DEF Stuck, ClearedPipe
      <3> QED BY <2>5, <2>6
    <2>9. Sound(r, cs)
      BY <1>7, <2>4, <2>7, <2>8 DEF Sound
    <2>10. Dropped(s.pipes, r.pipes, h)
      <3>1. r.pipes[i] = ClearedPipe(e.pipes[i].gen)
        BY <1>1, <2>2, <2>4
      <3>2. \A l \in Ends : r.pipes[i].refs[l] = e.pipes[i].refs[l]
        BY SMTT(20), <1>12, <3>1 DEF ClearedPipe, BothEndsClosed
      <3>3. r.pipes[i].refs = e.pipes[i].refs
        <4>1. r.pipes[i].refs \in [Ends -> Nat] /\ e.pipes[i].refs \in [Ends -> Nat]
          BY SMTT(20), <1>1, <2>2, <3>1 DEF ClearedPipe, Pipes
        <4> QED BY <3>2, <4>1
      <3>4. ~r.pipes[i].live /\ BothEndsClosed(r.pipes[i])
        BY SMTT(20), <3>1 DEF ClearedPipe, BothEndsClosed
      <3>5. \A j \in Slots \ {i} : r.pipes[j] = s.pipes[j]
        BY <1>8, <2>2, <2>4
      <3>6. r.pipes[i].gen = s.pipes[i].gen
        BY SMTT(20), <1>8, <3>1 DEF ClearedPipe
      <3> QED BY <1>8, <3>3, <3>4, <3>5, <3>6 DEF Dropped, i, k, left, n
    <2> QED BY <1>7, <1>12, <2>4, <2>9, <2>10 DEF r
  <1> QED BY <1>10, <1>11, <1>12

(* It puts nobody into a slot. *)
LEMMA RevokeEmpties ==
  ASSUME NEW s \in States, NEW h \in Handles
  PROVE  Emptied(s.pipes, Revoke(s, h).pipes)
  <1> DEFINE i == h.pipe
             k == h.end
             o == Other(k)
             left == Max({s.pipes[i].refs[k] - 1, 0})
             d == [s EXCEPT !.pipes[i].refs[k] = left]
             e == DropReference(s, h)
  <1>1. /\ i \in Slots /\ o \in Ends
        /\ s.pipes \in [Slots -> Pipes]
    BY DEF Handles, Slots, Ends, Other, States
  <1>2. /\ d.pipes = [s.pipes EXCEPT ![i].refs[k] = left]
    BY DEF States
  <1>3. e = IF left = 0 THEN WakeBlocked(d, i, o) ELSE d
    BY DEF DropReference
  <1> HIDE DEF i, k, o, left
  <1>4. \A j \in Slots : d.pipes[j].blocked = s.pipes[j].blocked
    BY SMTT(20), <1>1, <1>2 DEF Pipes
  <1>5. d.pipes[i].blocked \in [Ends -> Tasks \cup {NoTask}]
    BY <1>1, <1>4 DEF Pipes
  <1>6. DOMAIN d.pipes = Slots /\ "blocked" \in DOMAIN d.pipes[i]
    BY SMTT(20), <1>1, <1>2 DEF Pipes
  <1> HIDE DEF d
  <1>7. e.pipes = d.pipes \/ e.pipes = [d.pipes EXCEPT ![i].blocked[o] = NoTask]
    BY <1>3 DEF WakeBlocked
  <1>8. Emptied(d.pipes, e.pipes)
    BY SMTT(20), <1>1, <1>5, <1>6, <1>7 DEF Emptied
  <1>9. Emptied(s.pipes, e.pipes)
    BY <1>4, <1>8 DEF Emptied
  <1>10. CASE Revoke(s, h) \in {s, e}
    BY <1>9, <1>10 DEF Emptied
  <1>11. CASE Revoke(s, h) = [e EXCEPT !.pipes[i] = ClearedPipe(@.gen)]
    BY <1>9, <1>11 DEF Emptied, ClearedPipe
  <1> QED BY <1>10, <1>11 DEF Revoke, e, i

-----------------------------------------------------------------------------
(* The loops over a table.  A function defined by recursion on the         *)
(* descriptors exists, step by step, so the definition can be unfolded.    *)
LEMMA ReleaseUnfolds ==
  ASSUME NEW s, NEW table
  PROVE  /\ ReleaseSteps(s, table)[0] = s
         /\ \A n \in 1 .. FdLimit :
              ReleaseSteps(s, table)[n] =
                ReleaseFd(ReleaseSteps(s, table)[n - 1], table, n - 1)
  <1> DEFINE Loop(g, m) ==
               g = [n \in 0 .. m |-> IF n = 0 THEN s ELSE ReleaseFd(g[n - 1], table, n - 1)]
             Short == {m \in 0 .. FdLimit : ~\E g : Loop(g, m)}
  <1>1. FdLimit \in Nat
    BY LinuxPipesAssumption
  <1>2. ReleaseSteps(s, table) = CHOOSE g : Loop(g, FdLimit)
    BY DEF ReleaseSteps
  <1>3. Short = {}
    <2> SUFFICES ASSUME Short # {} PROVE FALSE
      OBVIOUS
    <2>1. PICK m \in Short : \A y \in Short : m =< y
      <3>1. Short \in SUBSET Nat
        BY SMTT(20), <1>1
      <3> HIDE DEF Short
      <3> QED BY <3>1, LeastMember
    <2>2. CASE m = 0
      <3> DEFINE g == [n \in 0 .. 0 |-> s]
      <3>1. Loop(g, 0)
        OBVIOUS
      <3> QED BY <2>1, <2>2, <3>1
    <2>3. CASE m # 0
      <3>1. m - 1 \in 0 .. FdLimit /\ m \in Nat \ {0}
        BY SMTT(20), <1>1, <2>3
      <3>2. m - 1 \notin Short
        BY SMTT(20), <2>1, <3>1
      <3>3. PICK g : Loop(g, m - 1)
        BY <3>1, <3>2
      <3> DEFINE h == [n \in 0 .. m |-> IF n = m THEN ReleaseFd(g[m - 1], table, m - 1)
                                                 ELSE g[n]]
      <3>4. \A n \in 0 .. m - 1 : g[n] = IF n = 0 THEN s ELSE ReleaseFd(g[n - 1], table, n - 1)
        BY <3>3
      <3>5. \A n \in 0 .. m - 1 : h[n] = g[n]
        BY <3>1
      <3>6. h[m] = ReleaseFd(g[m - 1], table, m - 1)
        BY <3>1
      <3> HIDE DEF Loop
      <3>7. Loop(h, m)
        <4> DEFINE e == [n \in 0 .. m |-> IF n = 0 THEN s ELSE ReleaseFd(h[n - 1], table, n - 1)]
        <4>1. ASSUME NEW n \in 0 .. m PROVE h[n] = e[n]
          <5>1. CASE n = m
            BY <3>1, <3>5, <3>6, <5>1
          <5>2. CASE n # m
            BY <3>1, <3>4, <3>5, <5>2
          <5> QED BY <5>1, <5>2
        <4>2. h = e
          BY <4>1
        <4> QED BY <4>2 DEF Loop
      <3> QED BY <3>7
    <2> QED BY <2>2, <2>3
  <1>4. \E g : Loop(g, FdLimit)
    BY SMTT(20), <1>1, <1>3
  <1>5. Loop(ReleaseSteps(s, table), FdLimit)
    <2> HIDE DEF Loop
    <2> QED BY <1>2, <1>4
  <1> QED BY <1>1, <1>5

Tables == [Fds -> Handles \cup {NoHandle}]

(* Releasing a table revokes its handles one by one. *)
LEMMA ReleaseKeeps ==
  ASSUME NEW s, NEW cs, cs \in [Records -> Clones \cup {NoClone}],
         Sound(s, cs), NEW table \in Tables
  PROVE  /\ Sound(ReleaseTable(s, table), cs)
         /\ Moved(s.rq, ReleaseTable(s, table).rq)
         /\ Emptied(s.pipes, ReleaseTable(s, table).pipes)
  <1> DEFINE after == ReleaseSteps(s, table)
             Holds(n) == /\ Sound(after[n], cs) /\ Moved(s.rq, after[n].rq)
                         /\ Emptied(s.pipes, after[n].pipes)
             Bad == {n \in 0 .. FdLimit : ~Holds(n)}
  <1>1. FdLimit \in Nat
    BY LinuxPipesAssumption
  <1>2. /\ after[0] = s
        /\ \A n \in 1 .. FdLimit : after[n] = ReleaseFd(after[n - 1], table, n - 1)
    BY SMTT(20), ReleaseUnfolds
  <1> HIDE DEF after
  <1>3. Holds(0)
    BY <1>2 DEF Moved, Emptied
  <1>4. ASSUME NEW n \in 1 .. FdLimit, Holds(n - 1) PROVE Holds(n)
    <2> DEFINE a == after[n - 1]
               h == table[n - 1]
    <2>1. n - 1 \in Fds
      BY <1>1 DEF Fds
    <2>2. CASE h # NoHandle /\ FirstOfShared(table, n - 1)
      <3>1. h \in Handles
        BY <2>1, <2>2 DEF Tables
      <3>2. after[n] = Revoke(a, h)
        BY <1>2, <2>2 DEF ReleaseFd
      <3> HIDE DEF a, h
      <3>3. Sound(a, cs) /\ Moved(s.rq, a.rq) /\ Emptied(s.pipes, a.pipes)
        BY <1>4 DEF a
      <3>4. Sound(Revoke(a, h), cs) /\ Moved(a.rq, Revoke(a, h).rq)
        BY <3>1, <3>3, RevokeKeeps
      <3>5. Moved(s.rq, Revoke(a, h).rq)
        BY <3>3, <3>4 DEF Moved
      <3>6. Emptied(a.pipes, Revoke(a, h).pipes)
        BY <3>1, <3>3, RevokeEmpties DEF Sound
      <3>7. Emptied(s.pipes, Revoke(a, h).pipes)
        BY <3>3, <3>6 DEF Emptied
      <3> QED BY <3>2, <3>4, <3>5, <3>7
    <2>3. CASE ~(h # NoHandle /\ FirstOfShared(table, n - 1))
      BY <1>2, <1>4, <2>3 DEF ReleaseFd
    <2> QED BY <2>2, <2>3
  <1> HIDE DEF Holds
  <1>5. Bad = {}
    <2> SUFFICES ASSUME Bad # {} PROVE FALSE
      OBVIOUS
    <2>1. Bad \in SUBSET Nat
      BY SMTT(20), <1>1
    <2>2. PICK m \in Bad : \A y \in Bad : m =< y
      <3> HIDE DEF Bad
      <3> QED BY <2>1, LeastMember
    <2>3. m \in 1 .. FdLimit
      BY SMTT(20), <1>1, <1>3, <2>2
    <2>4. m - 1 \notin Bad /\ m - 1 \in 0 .. FdLimit
      BY SMTT(20), <1>1, <2>2, <2>3
    <2> QED BY <1>4, <2>2, <2>3, <2>4
  <1>6. Holds(FdLimit)
    BY <1>1, <1>5
  <1> QED BY <1>6 DEF Holds, after, ReleaseTable

(* Likewise the loop of a fork. *)
LEMMA GrantUnfolds ==
  ASSUME NEW s, NEW table
  PROVE  /\ GrantSteps(s, table)[0] = [s |-> s, table |-> EmptyTable, ok |-> TRUE]
         /\ \A n \in 1 .. FdLimit :
              GrantSteps(s, table)[n] =
                GrantFd(GrantSteps(s, table)[n - 1], table[n - 1], n - 1)
  <1> DEFINE start == [s |-> s, table |-> EmptyTable, ok |-> TRUE]
             Loop(g, m) ==
               g = [n \in 0 .. m |-> IF n = 0 THEN start ELSE GrantFd(g[n - 1], table[n - 1], n - 1)]
             Short == {m \in 0 .. FdLimit : ~\E g : Loop(g, m)}
  <1>1. FdLimit \in Nat
    BY LinuxPipesAssumption
  <1>2. GrantSteps(s, table) = CHOOSE g : Loop(g, FdLimit)
    BY DEF GrantSteps
  <1> HIDE DEF start
  <1>3. Short = {}
    <2> SUFFICES ASSUME Short # {} PROVE FALSE
      OBVIOUS
    <2>1. PICK m \in Short : \A y \in Short : m =< y
      <3>1. Short \in SUBSET Nat
        BY SMTT(20), <1>1
      <3> HIDE DEF Short
      <3> QED BY <3>1, LeastMember
    <2>2. CASE m = 0
      <3> DEFINE g == [n \in 0 .. 0 |-> start]
      <3>1. Loop(g, 0)
        OBVIOUS
      <3> QED BY <2>1, <2>2, <3>1
    <2>3. CASE m # 0
      <3>1. m - 1 \in 0 .. FdLimit /\ m \in Nat \ {0}
        BY SMTT(20), <1>1, <2>3
      <3>2. m - 1 \notin Short
        BY SMTT(20), <2>1, <3>1
      <3>3. PICK g : Loop(g, m - 1)
        BY <3>1, <3>2
      <3> DEFINE h == [n \in 0 .. m |-> IF n = m THEN GrantFd(g[m - 1], table[m - 1], m - 1)
                                                 ELSE g[n]]
      <3>4. \A n \in 0 .. m - 1 : g[n] = IF n = 0 THEN start ELSE GrantFd(g[n - 1], table[n - 1], n - 1)
        BY <3>3
      <3>5. \A n \in 0 .. m - 1 : h[n] = g[n]
        BY <3>1
      <3>6. h[m] = GrantFd(g[m - 1], table[m - 1], m - 1)
        BY <3>1
      <3> HIDE DEF Loop
      <3>7. Loop(h, m)
        <4> DEFINE e == [n \in 0 .. m |-> IF n = 0 THEN start ELSE GrantFd(h[n - 1], table[n - 1], n - 1)]
        <4>1. ASSUME NEW n \in 0 .. m PROVE h[n] = e[n]
          <5>1. CASE n = m
            BY <3>1, <3>5, <3>6, <5>1
          <5>2. CASE n # m
            BY <3>1, <3>4, <3>5, <5>2
          <5> QED BY <5>1, <5>2
        <4>2. h = e
          BY <4>1
        <4> QED BY <4>2 DEF Loop
      <3> QED BY <3>7
    <2> QED BY <2>2, <2>3
  <1>4. \E g : Loop(g, FdLimit)
    <2> HIDE DEF Loop
    <2> QED BY <1>1, <1>3
  <1>5. Loop(GrantSteps(s, table), FdLimit)
    <2> HIDE DEF Loop
    <2> QED BY <1>2, <1>4
  <1>6. /\ GrantSteps(s, table)[0] = start
        /\ \A n \in 1 .. FdLimit :
             GrantSteps(s, table)[n] =
               GrantFd(GrantSteps(s, table)[n - 1], table[n - 1], n - 1)
    BY <1>1, <1>5
  <1> QED BY <1>6 DEF start

Grants == [s : States, table : Tables, ok : BOOLEAN]

(* One descriptor of the loop: nothing is granted, or one more reference.  *)
OneGrant(acc, r, h, f) ==
  \/ r.s.pipes = acc.s.pipes /\ r.table = acc.table
  \/ /\ h # NoHandle
     /\ Find(acc.s.pipes, h)
     /\ r.s.pipes = [acc.s.pipes EXCEPT ![h.pipe].refs[h.end] = @ + 1]
     /\ r.table = [acc.table EXCEPT ![f] = h]

(* Either way, no task is disturbed. *)
LEMMA GrantFdKeeps ==
  ASSUME NEW acc \in Grants, NEW cs, Sound(acc.s, cs),
         cs \in [Records -> Clones \cup {NoClone}],
         NEW h \in Handles \cup {NoHandle}, NEW f \in Fds
  PROVE  LET r == GrantFd(acc, h, f)
         IN  /\ r \in Grants
             /\ Sound(r.s, cs)
             /\ r.s.rq = acc.s.rq
             /\ OneGrant(acc, r, h, f)
  <1> DEFINE r == GrantFd(acc, h, f)
             s == acc.s
  <1>1. s \in States /\ s.pipes \in [Slots -> Pipes] /\ acc.table \in Tables
    BY DEF Grants, States
  <1>2. CASE h = NoHandle \/ ~acc.ok
    BY <1>2 DEF GrantFd, OneGrant
  <1>3. CASE h # NoHandle /\ acc.ok /\ ~Grantable(s.pipes, h)
    <2>1. r = [acc EXCEPT !.ok = FALSE]
      BY <1>3 DEF GrantFd
    <2>2. r \in Grants /\ r.s = acc.s /\ r.table = acc.table
      BY <2>1 DEF Grants
    <2> QED BY <2>2 DEF OneGrant
  <1>4. CASE h # NoHandle /\ acc.ok /\ Grantable(s.pipes, h)
    <2> DEFINE i == h.pipe
               k == h.end
               ps == [s.pipes EXCEPT ![i].refs[k] = @ + 1]
    <2>1. i \in Slots /\ k \in Ends
      BY <1>4 DEF Handles, Slots
    <2>2. r = [acc EXCEPT !.s.pipes[i].refs[k] = @ + 1, !.table[f] = h]
      BY <1>4 DEF GrantFd
    <2>3. r.s = [s EXCEPT !.pipes[i].refs[k] = @ + 1] /\ r.ok = acc.ok
          /\ r.table = [acc.table EXCEPT ![f] = h]
          /\ r = [s |-> r.s, table |-> r.table, ok |-> r.ok]
      BY <2>2 DEF Grants
    <2> HIDE DEF r
    <2>4. ps \in [Slots -> Pipes]
      <3> DEFINE x == s.pipes[i]
      <3>0. x \in Pipes
        BY <1>1, <2>1
      <3> HIDE DEF x, k
      <3>1. [x EXCEPT !.refs[k] = @ + 1] \in Pipes
        <4>1. [x.refs EXCEPT ![k] = @ + 1] \in [Ends -> Nat]
          BY SMTT(20), <3>0, <2>1 DEF Pipes
        <4> QED BY <3>0, <4>1 DEF Pipes
      <3> QED BY <1>1, <2>1, <3>1 DEF x, k
    <2>5. r.s \in States /\ r.s.rq = s.rq /\ r.s.pipes = ps
      <3>1. r.s.rq = s.rq /\ r.s.pipes = ps
        BY <1>1, <2>3 DEF States
      <3>2. r.s = [pipes |-> r.s.pipes, rq |-> r.s.rq]
        BY <1>1, <2>3 DEF States
      <3> QED BY <1>1, <2>4, <3>1, <3>2 DEF States
    <2>6. r \in Grants
      BY ZenonT(60), <1>1, <2>3, <2>5 DEF Grants, Tables
    <2>7. \A j \in Slots : /\ ps[j].blocked = s.pipes[j].blocked
                           /\ ps[j].live = s.pipes[j].live
                           /\ ps[j].bytes = s.pipes[j].bytes
                           /\ \A l \in Ends : s.pipes[j].refs[l] # 0 => ps[j].refs[l] # 0
      BY SMTT(20), <1>1, <2>1 DEF Pipes
    <2> HIDE DEF ps
    <2>8. Stuck(r.s.pipes)
      BY SMTT(20), <2>5, <2>7, TwoEnds DEF Sound, Stuck
    <2>9. Places(r.s, cs)
      <3>1. /\ \A j \in Slots, l \in Ends : s.pipes[j].blocked[l] \in Tasks \cup {NoTask}
            /\ \A j \in Records : cs[j].waiter \in Tasks \cup {NoTask}
        BY <1>1, PlaceTypes
      <3>2. \A t \in Tasks : r.s.rq.state[t] = "blocked" <=> s.rq.state[t] = "blocked"
        BY <2>5
      <3>3. Places(s, cs)
        BY DEF Sound
      <3>4. \A j \in Slots, l \in Ends : r.s.pipes[j].blocked[l] = s.pipes[j].blocked[l]
        BY <2>5, <2>7
      <3> DEFINE z == r.s
      <3> HIDE DEF s, z
      <3>5. Places(z, cs)
        BY SMTT(20), <3>1, <3>2, <3>3, <3>4, SamePlaces DEF z
      <3> QED BY <3>5 DEF z
    <2>10. Sound(r.s, cs)
      BY <2>5, <2>8, <2>9 DEF Sound
    <2> QED BY <1>4, <2>3, <2>5, <2>6, <2>10 DEF Grantable, OneGrant, r, ps
  <1> QED BY <1>2, <1>3, <1>4

(* Nor is a slot touched. *)
LEMMA GrantFdEmpties ==
  ASSUME NEW acc \in Grants, NEW h \in Handles \cup {NoHandle}, NEW f \in Fds
  PROVE  Emptied(acc.s.pipes, GrantFd(acc, h, f).s.pipes)
  <1> DEFINE r == GrantFd(acc, h, f)
             s == acc.s
  <1>1. s \in States /\ s.pipes \in [Slots -> Pipes]
    BY DEF Grants, States
  <1>2. CASE h = NoHandle \/ ~acc.ok \/ ~Grantable(s.pipes, h)
    <2>1. r.s = acc.s
      BY <1>2 DEF GrantFd, Grants
    <2> QED BY <2>1 DEF Emptied
  <1>3. CASE h # NoHandle /\ acc.ok /\ Grantable(s.pipes, h)
    <2>1. r.s.pipes = [s.pipes EXCEPT ![h.pipe].refs[h.end] = @ + 1]
      BY <1>1, <1>3 DEF GrantFd, Grants, States
    <2> HIDE DEF r, s
    <2>2. \A j \in Slots : r.s.pipes[j].blocked = s.pipes[j].blocked
      BY SMTT(20), <1>1, <2>1 DEF Pipes
    <2> QED BY <2>2 DEF Emptied, r, s
  <1> QED BY <1>2, <1>3

(* A fork's grants disturb no task. *)
LEMMA GrantKeeps ==
  ASSUME NEW s, NEW cs, cs \in [Records -> Clones \cup {NoClone}],
         Sound(s, cs), NEW table \in Tables
  PROVE  LET g == GrantTable(s, table)
         IN  /\ g \in Grants /\ Sound(g.s, cs) /\ g.s.rq = s.rq
             /\ Emptied(s.pipes, g.s.pipes)
  <1> DEFINE after == GrantSteps(s, table)
             Holds(n) == after[n] \in Grants /\ Sound(after[n].s, cs)
                         /\ after[n].s.rq = s.rq /\ Emptied(s.pipes, after[n].s.pipes)
             Bad == {n \in 0 .. FdLimit : ~Holds(n)}
  <1>1. FdLimit \in Nat
    BY LinuxPipesAssumption
  <1>2. /\ after[0] = [s |-> s, table |-> EmptyTable, ok |-> TRUE]
        /\ \A n \in 1 .. FdLimit : after[n] = GrantFd(after[n - 1], table[n - 1], n - 1)
    BY GrantUnfolds
  <1> HIDE DEF after
  <1>3. Holds(0)
    <2>1. s \in States /\ EmptyTable \in Tables
      BY DEF Sound, EmptyTable, Tables
    <2> QED BY <1>2, <2>1 DEF Grants, Emptied
  <1>4. ASSUME NEW n \in 1 .. FdLimit, Holds(n - 1) PROVE Holds(n)
    <2> DEFINE a == after[n - 1]
               h == table[n - 1]
               f == n - 1
    <2>1. f \in Fds
      BY <1>1 DEF Fds
    <2>2. h \in Handles \cup {NoHandle}
      BY <2>1 DEF Tables
    <2>3. after[n] = GrantFd(a, h, f)
      BY <1>2
    <2>4. a \in Grants /\ Sound(a.s, cs) /\ a.s.rq = s.rq /\ Emptied(s.pipes, a.s.pipes)
      BY <1>4
    <2> HIDE DEF a, h, f
    <2>5. /\ GrantFd(a, h, f) \in Grants /\ Sound(GrantFd(a, h, f).s, cs)
          /\ GrantFd(a, h, f).s.rq = a.s.rq
      BY ZenonT(60), <2>1, <2>2, <2>4, GrantFdKeeps
    <2>6. Emptied(s.pipes, GrantFd(a, h, f).s.pipes)
      BY <2>1, <2>2, <2>4, GrantFdEmpties DEF Emptied
    <2> QED BY <2>3, <2>4, <2>5, <2>6
  <1> HIDE DEF Holds
  <1>5. Bad = {}
    <2> SUFFICES ASSUME Bad # {} PROVE FALSE
      OBVIOUS
    <2>1. Bad \in SUBSET Nat
      BY SMTT(20), <1>1
    <2>2. PICK m \in Bad : \A y \in Bad : m =< y
      <3> HIDE DEF Bad
      <3> QED BY <2>1, LeastMember
    <2>3. m \in 1 .. FdLimit
      BY SMTT(20), <1>1, <1>3, <2>2
    <2>4. m - 1 \notin Bad /\ m - 1 \in 0 .. FdLimit
      BY SMTT(20), <1>1, <2>2, <2>3
    <2> QED BY <1>4, <2>2, <2>3, <2>4
  <1>6. Holds(FdLimit)
    BY <1>1, <1>5
  <1> QED BY <1>6 DEF Holds, after, GrantTable

-----------------------------------------------------------------------------
(* The caller of a system call is the one running task, so it is in no     *)
(* place where blocked tasks are remembered.                               *)
LEMMA Caller ==
  ASSUME PInv, rq.active
  PROVE  /\ rq.current \in Tasks
         /\ rq.state[rq.current] = "running"
         /\ pidOf[rq.current] \in Pids
         /\ \A i \in Slots, k \in Ends : pipes[i].blocked[k] # rq.current
         /\ \A i \in Records : clones[i].waiter # rq.current
  <1>1. QueueOK(rq) /\ Runner(rq) /\ Places(Here, clones)
    BY DEF PInv, Sound, Here
  <1>2. rq.current \in Tasks /\ rq.state[rq.current] = "running"
    BY SMTT(20), <1>1, RunQueueAssumption DEF QueueOK, Runner, RunQueues, NoTask, Tasks
  <1>3. pidOf[rq.current] \in Pids
    BY <1>2 DEF PInv, Family, TypeOK, Live
  <1>4. NoTask # rq.current
    BY <1>2, NoTaskIsNone
  <1>5. \A i \in Slots, k \in Ends : pipes[i].blocked[k] # rq.current
    BY SMTT(20), <1>1, <1>2, <1>4 DEF Places, Here
  <1>6. \A i \in Records : clones[i].waiter # rq.current
    BY <1>1, <1>2, <1>4 DEF Places, Here
  <1> QED BY <1>2, <1>3, <1>5, <1>6

(* The types of the parts. *)
LEMMA Typed ==
  ASSUME PInv
  PROVE  /\ Here \in States /\ Here.pipes = pipes /\ Here.rq = rq
         /\ pipes \in [Slots -> Pipes] /\ rq \in RunQueues
         /\ clones \in [Records -> Clones \cup {NoClone}]
         /\ fds \in [Pids -> Tables]
         /\ Sound(Here, clones)
  BY DEF PInv, Sound, Here, TypeOK, Slots, Records, Tables, States

(* A state of the pipes and the queue that is sound becomes the next one. *)
LEMMA SetSound ==
  ASSUME NEW s, NEW cs, Sound(s, cs), Set(s)
  PROVE  Sound(Here', cs) /\ rq' = s.rq /\ pipes' = s.pipes
  <1>1. s \in States /\ rq' = s.rq /\ pipes' = s.pipes
    BY DEF Sound, Set
  <1>2. Here' = s
    BY <1>1 DEF Here, States
  <1> QED BY <1>1, <1>2

(* Family says nothing about which of its live tasks run. *)
LEMMA FamilyStays ==
  ASSUME Family, UNCHANGED <<pidOf, nextPid, exited, clones>>,
         \A t \in Tasks : rq'.state[t] \in Live <=> rq.state[t] \in Live
  PROVE  Family'
  BY DEF Family, Alive

(* An operator that wakes leaves the same tasks alive. *)
LEMMA MovedLives ==
  ASSUME NEW q, NEW r, Moved(q, r)
  PROVE  \A t \in Tasks : r.state[t] \in Live <=> q.state[t] \in Live
  BY DEF Moved, Live

(* What is left to show of a step that changes no process. *)
LEMMA StepKeeps ==
  ASSUME PInv, Sound(Here', clones), UNCHANGED <<pidOf, nextPid, exited, clones>>,
         \A t \in Tasks : rq'.state[t] \in Live <=> rq.state[t] \in Live,
         fds' \in [Pids -> Tables], pending' \in SUBSET Pids,
         replay' \in [Tasks -> Calls]
  PROVE  PInv'
  <1>1. Family'
    BY FamilyStays DEF PInv
  <1>2. Sound(Here, clones)'
    OBVIOUS
  <1>3. TypeOK'
    BY DEF PInv, TypeOK, Sound, States, Here, Slots, Tables
  <1> QED BY <1>1, <1>2, <1>3 DEF PInv

(* The two descriptors that pipe2 takes, when there are two. *)
LEMMA TwoFreeFds ==
  ASSUME NEW p \in Pids, Cardinality(FreeFds(p)) >= 2
  PROVE  LET rfd == Min(FreeFds(p))
             wfd == Min(FreeFds(p) \ {rfd})
         IN  rfd \in FreeFds(p) /\ wfd \in FreeFds(p) /\ rfd # wfd
  <1> DEFINE rfd == Min(FreeFds(p))
  <1>1. FreeFds(p) \in SUBSET Nat
    BY SMTT(20) DEF FreeFds, Fds
  <1>2. Cardinality({}) = 0 /\ \A f : Cardinality({f}) = 1
    BY FS_EmptySet, FS_Singleton
  <1>3. FreeFds(p) # {}
    BY <1>2
  <1>4. rfd \in FreeFds(p)
    BY <1>1, <1>3, MinMember
  <1>5. FreeFds(p) # {rfd}
    BY <1>2
  <1>6. FreeFds(p) \ {rfd} # {} /\ FreeFds(p) \ {rfd} \in SUBSET Nat
    BY <1>1, <1>4, <1>5
  <1>7. Min(FreeFds(p) \ {rfd}) \in FreeFds(p) \ {rfd}
    BY <1>6, MinMember
  <1> QED BY <1>4, <1>7

(* pipe2 fills or clears a slot of the pipe table where nobody waits. *)
LEMMA Pipe2Keeps ==
  ASSUME PInv, NEW p \in Pids, Pipe2(p)
  PROVE  PInv'
  <1> DEFINE i == Min(FreePipes)
             rfd == Min(FreeFds(p))
             wfd == Min(FreeFds(p) \ {rfd})
  <1>1. i \in Slots /\ ~pipes[i].live
    <2>1. FreePipes \in SUBSET Nat /\ FreePipes # {}
      BY SMTT(20) DEF Pipe2, FreePipes
    <2>2. Min(FreePipes) \in FreePipes
      BY <2>1, MinMember
    <2> QED BY <2>2 DEF FreePipes, Slots
  <1>2. /\ pipes \in [Slots -> Pipes] /\ pipes[i] \in Pipes
        /\ pipes[i].gen \in Nat /\ pipes[i].gen >= 1 /\ pipes[i].gen < MaxGeneration
    BY SMTT(20), <1>1, Typed, LinuxPipesAssumption DEF Pipe2, Pipes
  <1> HIDE DEF i
  <1> DEFINE gen == pipes[i].gen + 1
  <1>3. gen \in 1 .. MaxGeneration
    BY <1>2, LinuxPipesAssumption
  <1>4. NewPipe(i) \in Pipes /\ AbandonedPipe(i) \in Pipes
    <2> HIDE DEF gen
    <2>1. ClearedPipe(gen) \in Pipes
      BY <1>3, LinuxPipesAssumption DEF ClearedPipe, Pipes
    <2>2. [k \in Ends |-> 1] \in [Ends -> Nat]
      OBVIOUS
    <2>3. [ClearedPipe(gen) EXCEPT !.live = TRUE, !.refs = [k \in Ends |-> 1]] \in Pipes
      BY <2>1, <2>2 DEF Pipes
    <2> QED BY <2>1, <2>3 DEF NewPipe, AbandonedPipe, gen
  <1>5. \A k \in Ends : /\ NewPipe(i).blocked[k] = NoTask
                        /\ AbandonedPipe(i).blocked[k] = NoTask
    <2>1. AbandonedPipe(i) = ClearedPipe(gen)
      BY DEF AbandonedPipe
    <2>2. NewPipe(i).blocked = ClearedPipe(gen).blocked
      BY DEF NewPipe, ClearedPipe
    <2>3. \A k \in Ends : ClearedPipe(gen).blocked[k] = NoTask
      BY DEF ClearedPipe
    <2> QED BY <2>1, <2>2, <2>3
  <1>6. PICK x \in Pipes : /\ pipes' = [pipes EXCEPT ![i] = x]
                           /\ \A k \in Ends : x.blocked[k] = NoTask
    <2>1. \/ pipes' = [pipes EXCEPT ![i] = NewPipe(i)]
          \/ pipes' = [pipes EXCEPT ![i] = AbandonedPipe(i)]
      BY DEF Pipe2, i
    <2> QED BY <1>4, <1>5, <2>1
  <1>7. Sound(Here', clones)
    <2>1. Here' \in States /\ Here'.pipes = [pipes EXCEPT ![i] = x] /\ Here'.rq = rq
      BY <1>1, <1>2, <1>6, Typed DEF Pipe2, Here, States
    <2>2. \A k \in Ends : pipes[i].blocked[k] = NoTask
      BY <1>1, Typed DEF Sound, Stuck
    <2>3. \A j \in Slots, k \in Ends : Here'.pipes[j].blocked[k] = pipes[j].blocked[k]
      BY <1>1, <1>2, <1>6, <2>1, <2>2
    <2>4. Stuck(Here'.pipes)
      <3> SUFFICES ASSUME NEW j \in Slots, NEW k \in Ends, pipes[j].blocked[k] # NoTask
                   PROVE  Here'.pipes[j] = pipes[j]
        BY SMTT(20), <2>3, Typed DEF Sound, Stuck
      <3> QED BY <1>1, <1>2, <2>1, <2>2
    <2>5. Places(Here', clones)
      <3>1. /\ \A j \in Slots, k \in Ends : pipes[j].blocked[k] \in Tasks \cup {NoTask}
            /\ \A j \in Records : clones[j].waiter \in Tasks \cup {NoTask}
        BY Typed, PlaceTypes
      <3>2. \A t \in Tasks : Here'.rq.state[t] = "blocked" <=> Here.rq.state[t] = "blocked"
        BY <2>1, Typed
      <3>3. Places(Here, clones)
        BY Typed DEF Sound
      <3>4. \A j \in Slots, k \in Ends : Here'.pipes[j].blocked[k] = Here.pipes[j].blocked[k]
        BY <2>3, Typed
      <3>5. \A j \in Slots, k \in Ends : Here.pipes[j].blocked[k] \in Tasks \cup {NoTask}
        BY <3>1, Typed
      <3> DEFINE s == Here
                 r == Here'
      <3> HIDE DEF s, r
      <3>6. Places(r, clones)
        BY SMTT(20), <3>1, <3>2, <3>3, <3>4, <3>5, SamePlaces DEF s, r
      <3> QED BY <3>6 DEF r
    <2> QED BY <2>1, <2>4, <2>5, Typed DEF Sound
  <1>8. fds' \in [Pids -> Tables]
    <2>1. CASE Cardinality(FreeFds(p)) >= 2
      <3>3. rfd \in Fds /\ wfd \in Fds
        BY <2>1, TwoFreeFds DEF FreeFds
      <3>4. \A k \in Ends : NewHandle(i, k) \in Handles
        <4>1. gen % HandleGens \in 0 .. HandleGens - 1
          <5>1. gen \in Nat /\ HandleGens \in Nat \ {0}
            BY SMTT(20), <1>3, LinuxPipesAssumption
          <5> QED BY <5>1, Remainder
        <4> QED BY <1>1, <4>1 DEF NewHandle, Handles, Slots
      <3>5. fds' = [fds EXCEPT ![p][rfd] = NewHandle(i, "read"),
                               ![p][wfd] = NewHandle(i, "write")]
        BY <2>1 DEF Pipe2, i
      <3> HIDE DEF rfd, wfd
      <3> QED BY <3>3, <3>4, <3>5, Typed DEF Tables, Ends
    <2>2. CASE ~(Cardinality(FreeFds(p)) >= 2)
      BY <2>2, Typed DEF Pipe2
    <2> QED BY <2>1, <2>2
  <1>9. /\ UNCHANGED <<rq, pidOf, nextPid, exited, clones>>
        /\ pending' \in SUBSET Pids /\ replay' \in [Tasks -> Calls]
    BY DEF Pipe2, PInv, TypeOK
  <1> QED BY <1>7, <1>8, <1>9, StepKeeps

(* fd64_free revokes the handle of a descriptor, or leaves all as it is. *)
LEMMA FreeFdKeeps ==
  ASSUME PInv, NEW p \in Pids, NEW f \in Fds
  PROVE  LET s == FreeFd(Here, fds[p], f)
         IN  Sound(s, clones) /\ Moved(rq, s.rq) /\ Emptied(pipes, s.pipes)
  <1> DEFINE s == FreeFd(Here, fds[p], f)
             h == fds[p][f]
  <1>1. CASE h = NoHandle \/ Aliased(fds[p], f)
    <2>1. s = Here
      BY <1>1 DEF FreeFd
    <2> QED BY <2>1, Typed DEF Moved, Emptied
  <1>2. CASE ~(h = NoHandle \/ Aliased(fds[p], f))
    <2>1. s = Revoke(Here, h)
      BY <1>2 DEF FreeFd
    <2>2. h \in Handles
      BY <1>2, Typed DEF Tables
    <2> HIDE DEF h
    <2>3. Sound(Revoke(Here, h), clones) /\ Moved(Here.rq, Revoke(Here, h).rq)
      BY <2>2, Typed, RevokeKeeps
    <2>4. Emptied(Here.pipes, Revoke(Here, h).pipes)
      BY <2>2, Typed, RevokeEmpties
    <2> QED BY <2>1, <2>3, <2>4, Typed
  <1> QED BY <1>1, <1>2

(* A call that frees a descriptor and changes one table. *)
LEMMA FreeingKeeps ==
  ASSUME PInv, NEW p \in Pids, NEW f \in Fds, Set(FreeFd(Here, fds[p], f)),
         fds' \in [Pids -> Tables],
         UNCHANGED <<pidOf, nextPid, clones, exited, pending, replay>>
  PROVE  PInv'
  <1> DEFINE s == FreeFd(Here, fds[p], f)
  <1>1. Sound(s, clones) /\ Moved(rq, s.rq)
    BY FreeFdKeeps
  <1> HIDE DEF s
  <1>2. Sound(Here', clones) /\ rq' = s.rq
    BY <1>1, SetSound DEF s
  <1>3. \A t \in Tasks : rq'.state[t] \in Live <=> rq.state[t] \in Live
    BY <1>1, <1>2, MovedLives
  <1>4. pending' \in SUBSET Pids /\ replay' \in [Tasks -> Calls]
    BY DEF PInv, TypeOK
  <1> QED BY <1>2, <1>3, <1>4, StepKeeps

(* close. *)
LEMMA CloseKeeps ==
  ASSUME PInv, NEW p \in Pids, NEW f \in Fds, Close(p, f)
  PROVE  PInv'
  <1>1. fds' \in [Pids -> Tables]
    BY Typed DEF Close, Tables
  <1> QED BY <1>1, FreeingKeeps DEF Close

(* dup, dup2 and dup3. *)
LEMMA DupKeeps ==
  ASSUME PInv, NEW p \in Pids, NEW old \in Fds, NEW new \in Fds, Dup(p, old, new)
  PROVE  PInv'
  <1>1. fds' \in [Pids -> Tables]
    BY Typed DEF Dup, Tables
  <1> QED BY <1>1, FreeingKeeps DEF Dup

-----------------------------------------------------------------------------
(* The holders of an end are counted by a number, 0 when there is none.    *)
LEMMA HoldersCount ==
  ASSUME NEW F, NEW i, NEW k
  PROVE  /\ IsFiniteSet(HoldersIn(F, i, k))
         /\ Cardinality(HoldersIn(F, i, k)) \in Nat
         /\ Cardinality(HoldersIn(F, i, k)) = 0 <=> HoldersIn(F, i, k) = {}
  <1>1. IsFiniteSet(Pids)
    BY FS_Interval, LinuxPipesAssumption DEF Pids
  <1>2. HoldersIn(F, i, k) \in SUBSET Pids
    BY DEF HoldersIn
  <1>3. IsFiniteSet(HoldersIn(F, i, k))
    BY <1>1, <1>2, FS_Subset
  <1> QED BY <1>3, FS_CardinalityType, FS_EmptySet

(* What it means to hold an end. *)
LEMMA Holding ==
  ASSUME NEW F \in [Pids -> Tables], NEW p \in Pids, NEW f \in Fds, F[p][f] # NoHandle
  PROVE  /\ F[p][f] \in Handles
         /\ F[p][f].pipe \in Slots /\ F[p][f].end \in Ends
         /\ p \in HoldersIn(F, F[p][f].pipe, F[p][f].end)
  <1>1. F[p][f] \in Handles
    BY DEF Tables
  <1>2. F[p][f].pipe \in Slots /\ F[p][f].end \in Ends
    BY <1>1 DEF Handles, Slots
  <1> QED BY <1>1, <1>2 DEF HoldersIn

(* Two handles of one live pipe differ in the end only. *)
LEMMA SameHandle ==
  ASSUME NEW ps, NEW g \in Handles, NEW h \in Handles, Find(ps, g), Find(ps, h),
         g.pipe = h.pipe, g.end = h.end
  PROVE  g = h
  BY DEF Find, Handles

(* Of the pipes, Exact reads the counts, the generations and who is live.  *)
LEMMA SameCounts ==
  ASSUME NEW F \in [Pids -> Tables], NEW ps, NEW qs, Exact(ps, F),
         \A i \in Slots : /\ qs[i].refs = ps[i].refs
                          /\ qs[i].live = ps[i].live
                          /\ qs[i].gen = ps[i].gen
  PROVE  Exact(qs, F)
  <1>1. /\ \A i \in Slots, k \in Ends : qs[i].refs[k] = Cardinality(HoldersIn(F, i, k))
        /\ \A i \in Slots : qs[i].live <=> \E k \in Ends : qs[i].refs[k] # 0
    BY SMTT(20) DEF Exact
  <1>2. ASSUME NEW p \in Pids, NEW f \in Fds, F[p][f] # NoHandle
        PROVE  Find(qs, F[p][f])
    <2>1. Find(ps, F[p][f]) /\ F[p][f].pipe \in Slots
      BY <1>2, Holding DEF Exact
    <2> QED BY <2>1 DEF Find
  <1> QED BY <1>1, <1>2 DEF Exact

(* Of the tables, Exact reads who holds which handle. *)
LEMMA SameHolders ==
  ASSUME NEW F, NEW G, NEW ps, Exact(ps, F),
         \A p \in Pids, f \in Fds : G[p][f] # NoHandle =>
           \E g \in Fds : F[p][g] = G[p][f],
         \A p \in Pids, f \in Fds : F[p][f] # NoHandle =>
           \E g \in Fds : G[p][g] = F[p][f]
  PROVE  Exact(ps, G)
  <1>1. \A i \in Slots, k \in Ends : HoldersIn(G, i, k) = HoldersIn(F, i, k)
    <2> SUFFICES ASSUME NEW i \in Slots, NEW k \in Ends, NEW p \in Pids
                 PROVE  p \in HoldersIn(G, i, k) <=> p \in HoldersIn(F, i, k)
      BY DEF HoldersIn
    <2> QED BY SMTT(20) DEF HoldersIn
  <1>2. \A p \in Pids, f \in Fds : G[p][f] # NoHandle => Find(ps, G[p][f])
    BY SMTT(20) DEF Exact
  <1>3. /\ \A i \in Slots, k \in Ends : ps[i].refs[k] = Cardinality(HoldersIn(G, i, k))
        /\ \A i \in Slots : ps[i].live <=> \E k \in Ends : ps[i].refs[k] # 0
    BY SMTT(20), <1>1 DEF Exact
  <1> QED BY <1>2, <1>3 DEF Exact

(* G is F without the handle h in the table of p. *)
Without(F, G, p, h) ==
  /\ \A q \in Pids \ {p} : G[q] = F[q]
  /\ \A f \in Fds : G[p][f] = IF F[p][f] = h THEN NoHandle ELSE F[p][f]

(* A reference is given back for the table that gives up the handle. *)
LEMMA GiveBack ==
  ASSUME NEW ps \in [Slots -> Pipes], NEW qs \in [Slots -> Pipes],
         NEW F \in [Pids -> Tables], NEW G \in [Pids -> Tables], Exact(ps, F),
         NEW p \in Pids, NEW h \in Handles, \E f \in Fds : F[p][f] = h,
         Dropped(ps, qs, h), Without(F, G, p, h)
  PROVE  Exact(qs, G)
  <1> DEFINE a == h.pipe
             e == h.end
  <1>1. /\ a \in Slots /\ e \in Ends /\ h # NoHandle
    BY SMTT(20) DEF Handles, Slots, Ends, NoHandle
  <1>2. p \in HoldersIn(F, a, e) /\ Find(ps, h)
    <2>1. PICK f \in Fds : F[p][f] = h
      OBVIOUS
    <2> QED BY <1>1, <2>1, Holding DEF Exact
  <1>3. HoldersIn(G, a, e) = HoldersIn(F, a, e) \ {p}
    <2>1. ASSUME NEW q \in Pids, q # p
          PROVE  q \in HoldersIn(G, a, e) <=> q \in HoldersIn(F, a, e)
      BY <2>1 DEF Without, HoldersIn
    <2>2. p \notin HoldersIn(G, a, e)
      <3> SUFFICES ASSUME NEW f \in Fds, G[p][f] # NoHandle,
                          G[p][f].pipe = a, G[p][f].end = e
                   PROVE  FALSE
        BY DEF HoldersIn
      <3>1. F[p][f] = G[p][f] /\ F[p][f] # h
        BY DEF Without
      <3>2. F[p][f] \in Handles /\ Find(ps, F[p][f])
        BY <3>1, Holding DEF Exact
      <3> QED BY <1>2, <3>1, <3>2, SameHandle
    <2>3. HoldersIn(G, a, e) \subseteq Pids /\ HoldersIn(F, a, e) \subseteq Pids
      BY DEF HoldersIn
    <2> QED BY <2>1, <2>2, <2>3
  <1>4. \A i \in Slots, k \in Ends : ~(i = a /\ k = e) =>
          HoldersIn(G, i, k) = HoldersIn(F, i, k)
    <2> SUFFICES ASSUME NEW i \in Slots, NEW k \in Ends, ~(i = a /\ k = e), NEW q \in Pids
                 PROVE  q \in HoldersIn(G, i, k) <=> q \in HoldersIn(F, i, k)
      BY DEF HoldersIn
    <2>1. CASE q # p
      BY <2>1 DEF Without, HoldersIn
    <2>2. CASE q = p
      BY <2>2 DEF Without, HoldersIn
    <2> QED BY <2>1, <2>2
  <1>5. \A i \in Slots, k \in Ends :
          qs[i].refs[k] = IF i = a /\ k = e THEN ps[i].refs[k] - 1 ELSE ps[i].refs[k]
    <2>1. ps[a].refs[e] \in Nat /\ ps[a].refs[e] # 0
      BY ZenonT(60), <1>1, <1>2, HoldersCount DEF Exact
    <2>2. ps[a].refs \in [Ends -> Nat]
      BY <1>1 DEF Pipes
    <2> QED BY SMTT(20), <1>1, <2>1, <2>2 DEF Dropped
  <1>6. \A i \in Slots, k \in Ends : qs[i].refs[k] = Cardinality(HoldersIn(G, i, k))
    <2>1. Cardinality(HoldersIn(G, a, e)) = Cardinality(HoldersIn(F, a, e)) - 1
      <3> DEFINE H == HoldersIn(F, a, e)
      <3>1. IsFiniteSet(H) /\ p \in H
        BY <1>2, HoldersCount
      <3> HIDE DEF H
      <3>2. Cardinality(H \ {p}) = Cardinality(H) - 1
        BY <3>1, FS_RemoveElement
      <3> QED BY <1>3, <3>2 DEF H
    <2> HIDE DEF a, e
    <2> QED BY SMTT(20), <1>4, <1>5, <2>1 DEF Exact
  <1>7. \A i \in Slots : qs[i].live <=> \E k \in Ends : qs[i].refs[k] # 0
    <2> SUFFICES ASSUME NEW i \in Slots
                 PROVE  qs[i].live <=> \E k \in Ends : qs[i].refs[k] # 0
      OBVIOUS
    <2>1. CASE i = a
      BY <2>1 DEF Dropped, BothEndsClosed
    <2>2. CASE i # a
      <3>1. qs[i] = ps[i]
        BY <2>2 DEF Dropped
      <3> QED BY <3>1 DEF Exact
    <2> QED BY <2>1, <2>2
  <1>8. ASSUME NEW q \in Pids, NEW f \in Fds, G[q][f] # NoHandle
        PROVE  Find(qs, G[q][f])
    <2>1. F[q][f] = G[q][f]
      BY <1>8 DEF Without
    <2>2. /\ Find(ps, G[q][f]) /\ G[q][f].pipe \in Slots /\ G[q][f].end \in Ends
          /\ q \in HoldersIn(G, G[q][f].pipe, G[q][f].end)
      BY <1>8, <2>1, Holding DEF Exact
    <2>3. qs[G[q][f].pipe].refs[G[q][f].end] # 0
      BY <1>6, <2>2, HoldersCount
    <2>4. qs[G[q][f].pipe].live
      BY <1>7, <2>2, <2>3
    <2>5. qs[G[q][f].pipe].gen = ps[G[q][f].pipe].gen
      BY <2>2 DEF Dropped
    <2> QED BY <2>2, <2>4, <2>5 DEF Find
  <1> QED BY <1>6, <1>7, <1>8 DEF Exact

(* pipe64_revoke_handle for the table that gives up the handle. *)
LEMMA RevokeExact ==
  ASSUME NEW s, NEW cs, cs \in [Records -> Clones \cup {NoClone}], Sound(s, cs),
         NEW F \in [Pids -> Tables], NEW G \in [Pids -> Tables], Exact(s.pipes, F),
         NEW p \in Pids, NEW h \in Handles, NEW f \in Fds, F[p][f] = h,
         Without(F, G, p, h)
  PROVE  Exact(Revoke(s, h).pipes, G)
  <1> DEFINE r == Revoke(s, h)
             ps == s.pipes
             qs == r.pipes
  <1>1. Find(ps, h)
    <2>1. F[p][f] # NoHandle
      BY SMTT(20) DEF Handles, Ends, NoHandle
    <2> QED BY <2>1 DEF Exact
  <1>2. Sound(r, cs) /\ Dropped(ps, qs, h)
    BY <1>1, RevokeKeeps
  <1>3. ps \in [Slots -> Pipes] /\ qs \in [Slots -> Pipes] /\ Exact(ps, F)
    BY <1>2 DEF Sound, States
  <1> HIDE DEF ps, qs
  <1>4. \E g \in Fds : F[p][g] = h
    OBVIOUS
  <1>5. Exact(qs, G)
    BY <1>2, <1>3, <1>4, GiveBack
  <1> QED BY <1>5 DEF qs

(* What fd64_release_process has left of a table after n descriptors: the  *)
(* handles that none of them held.                                         *)
Rest(table, n) ==
  [f \in Fds |-> IF \E g \in Fds : g < n /\ table[g] = table[f] THEN NoHandle ELSE table[f]]

(* The tables when p has released n descriptors. *)
Releasing(F, p, n) == [q \in Pids |-> IF q = p THEN Rest(F[p], n) ELSE F[q]]

(* One round of the loop revokes one handle for good, or does nothing. *)
LEMMA OneRelease ==
  ASSUME NEW F \in [Pids -> Tables], NEW p \in Pids, NEW f \in Fds
  PROVE  /\ Releasing(F, p, f) \in [Pids -> Tables]
         /\ Releasing(F, p, f + 1) \in [Pids -> Tables]
         /\ F[p][f] # NoHandle /\ FirstOfShared(F[p], f) =>
              /\ Releasing(F, p, f)[p][f] = F[p][f]
              /\ Without(Releasing(F, p, f), Releasing(F, p, f + 1), p, F[p][f])
         /\ ~(F[p][f] # NoHandle /\ FirstOfShared(F[p], f)) =>
              Releasing(F, p, f + 1) = Releasing(F, p, f)
  <1> DEFINE T == F[p]
             h == T[f]
             A == Releasing(F, p, f)
             B == Releasing(F, p, f + 1)
  <1>1. T \in Tables
    OBVIOUS
  <1>2. \A g \in Fds : g \in Nat /\ (g < f + 1 <=> g < f \/ g = f) /\ (g < f <=> ~(f <= g))
    BY LinuxPipesAssumption DEF Fds
  <1>3. \A n : Rest(T, n) \in Tables
    BY <1>1 DEF Rest, Tables
  <1>4. \A g \in Fds :
          /\ Rest(T, f)[g] = IF \E d \in Fds : d < f /\ T[d] = T[g] THEN NoHandle ELSE T[g]
          /\ Rest(T, f + 1)[g] = IF T[g] = h THEN NoHandle ELSE Rest(T, f)[g]
    BY <1>2 DEF Rest
  <1>5. /\ A \in [Pids -> Tables] /\ B \in [Pids -> Tables]
        /\ A[p] = Rest(T, f) /\ B[p] = Rest(T, f + 1)
        /\ \A q \in Pids \ {p} : A[q] = B[q]
    BY <1>3 DEF Releasing
  <1>6. CASE h # NoHandle /\ FirstOfShared(T, f)
    <2>1. \A d \in Fds : T[d] = h => ~(d < f)
      BY <1>2, <1>6 DEF FirstOfShared
    <2>2. A[p][f] = h
      BY <1>4, <1>5, <2>1
    <2>3. \A g \in Fds : A[p][g] = h <=> T[g] = h
      BY ZenonT(60), <1>4, <1>5, <1>6, <2>1
    <2>4. Without(A, B, p, h)
      BY <1>4, <1>5, <2>3 DEF Without
    <2> QED BY <1>5, <1>6, <2>2, <2>4
  <1>7. CASE ~(h # NoHandle /\ FirstOfShared(T, f))
    <2>1. \A g \in Fds : T[g] = h => Rest(T, f)[g] = NoHandle
      <3>1. CASE h = NoHandle
        BY <1>4, <3>1
      <3>2. CASE ~FirstOfShared(T, f)
        <4>1. PICK d \in Fds : T[d] = h /\ d < f
          BY <1>2, <3>2 DEF FirstOfShared
        <4> QED BY SMTT(20), <1>4, <4>1
      <3> QED BY <1>7, <3>1, <3>2
    <2>2. \A g \in Fds : Rest(T, f + 1)[g] = Rest(T, f)[g]
      BY <1>4, <2>1
    <2>3. Rest(T, f + 1) = Rest(T, f)
      BY <1>3, <2>2 DEF Tables
    <2>4. B = A
      BY <2>3 DEF Releasing
    <2> QED BY <1>5, <1>7, <2>4
  <1> QED BY <1>6, <1>7

(* fd64_release_process gives back exactly what the table holds. *)
LEMMA ReleaseExact ==
  ASSUME NEW s, NEW cs, cs \in [Records -> Clones \cup {NoClone}], Sound(s, cs),
         NEW F \in [Pids -> Tables], Exact(s.pipes, F), NEW p \in Pids
  PROVE  Exact(ReleaseTable(s, F[p]).pipes, [F EXCEPT ![p] = EmptyTable])
  <1> DEFINE table == F[p]
             after == ReleaseSteps(s, table)
             Holds(n) == Sound(after[n], cs) /\ Exact(after[n].pipes, Releasing(F, p, n))
             Bad == {n \in 0 .. FdLimit : ~Holds(n)}
  <1>1. FdLimit \in Nat /\ table \in Tables
    BY LinuxPipesAssumption
  <1>2. /\ after[0] = s
        /\ \A n \in 1 .. FdLimit : after[n] = ReleaseFd(after[n - 1], table, n - 1)
    BY SMTT(20), ReleaseUnfolds
  <1> HIDE DEF after
  <1>3. Holds(0)
    <2>1. \A g \in Fds : ~(g < 0)
      BY <1>1 DEF Fds
    <2>2. Rest(table, 0) = table
      BY <1>1, <2>1 DEF Rest, Tables
    <2>3. Releasing(F, p, 0) = F
      BY <2>2 DEF Releasing
    <2> QED BY <1>2, <2>3
  <1>4. ASSUME NEW n \in 1 .. FdLimit, Holds(n - 1) PROVE Holds(n)
    <2> DEFINE f == n - 1
               a == after[f]
               h == table[f]
               A == Releasing(F, p, f)
               B == Releasing(F, p, f + 1)
    <2>1. f \in Fds /\ f + 1 = n
      BY <1>1 DEF Fds
    <2>2. Sound(a, cs) /\ Exact(a.pipes, A)
      BY <1>4
    <2>3. after[n] = ReleaseFd(a, table, f)
      BY <1>2
    <2> HIDE DEF f
    <2>4. /\ A \in [Pids -> Tables] /\ B \in [Pids -> Tables]
          /\ h # NoHandle /\ FirstOfShared(table, f) => A[p][f] = h /\ Without(A, B, p, h)
          /\ ~(h # NoHandle /\ FirstOfShared(table, f)) => B = A
      BY <2>1, OneRelease
    <2>5. CASE h # NoHandle /\ FirstOfShared(table, f)
      <3>1. h \in Handles
        BY <1>1, <2>1, <2>5 DEF Tables
      <3>2. after[n] = Revoke(a, h)
        BY <2>3, <2>5 DEF ReleaseFd
      <3>3. A[p][f] = h /\ Without(A, B, p, h)
        BY <2>4, <2>5
      <3> HIDE DEF a, h, A, B, table
      <3>4. Exact(Revoke(a, h).pipes, B)
        BY ZenonT(60), <2>1, <2>2, <2>4, <3>1, <3>3, RevokeExact
      <3>5. Sound(Revoke(a, h), cs)
        BY <2>2, <3>1, RevokeKeeps
      <3> QED BY <2>1, <3>2, <3>4, <3>5 DEF B
    <2>6. CASE ~(h # NoHandle /\ FirstOfShared(table, f))
      <3>1. after[n] = a /\ B = A
        BY <2>3, <2>4, <2>6 DEF ReleaseFd
      <3> HIDE DEF a, h, A
      <3> QED BY <2>1, <2>2, <3>1 DEF B
    <2> QED BY <2>5, <2>6
  <1> HIDE DEF Holds
  <1>5. Bad = {}
    <2> SUFFICES ASSUME Bad # {} PROVE FALSE
      OBVIOUS
    <2>1. Bad \in SUBSET Nat
      BY SMTT(20), <1>1
    <2>2. PICK m \in Bad : \A y \in Bad : m =< y
      <3> HIDE DEF Bad
      <3> QED BY <2>1, LeastMember
    <2>3. m \in 1 .. FdLimit
      BY SMTT(20), <1>1, <1>3, <2>2
    <2>4. m - 1 \notin Bad /\ m - 1 \in 0 .. FdLimit
      BY SMTT(20), <1>1, <2>2, <2>3
    <2> QED BY <1>4, <2>2, <2>3, <2>4
  <1>6. Exact(ReleaseTable(s, table).pipes, Releasing(F, p, FdLimit))
    BY SMTT(20), <1>1, <1>5 DEF Holds, after, ReleaseTable
  <1>7. Releasing(F, p, FdLimit) = [F EXCEPT ![p] = EmptyTable]
    <2>1. \A g \in Fds : g < FdLimit
      BY <1>1 DEF Fds
    <2>2. Rest(table, FdLimit) = EmptyTable
      BY <2>1 DEF Rest, EmptyTable
    <2> QED BY <2>2 DEF Releasing
  <1> QED BY <1>6, <1>7

(* fd64_free in a table: a reference goes with the last alias. *)
LEMMA FreeFdExact ==
  ASSUME PInv, Exact(pipes, fds), NEW p \in Pids, NEW f \in Fds
  PROVE  Exact(FreeFd(Here, fds[p], f).pipes, [fds EXCEPT ![p][f] = NoHandle])
  <1> DEFINE G == [fds EXCEPT ![p][f] = NoHandle]
             h == fds[p][f]
             F == fds
  <1>1. F \in [Pids -> Tables] /\ F[p] \in Tables /\ G \in [Pids -> Tables]
    <2>1. fds \in [Pids -> Tables] /\ fds[p] \in Tables
      BY Typed
    <2>2. [fds[p] EXCEPT ![f] = NoHandle] \in Tables
      BY <2>1 DEF Tables
    <2> QED BY <2>1, <2>2
  <1>2. /\ \A q \in Pids \ {p} : G[q] = F[q]
        /\ \A g \in Fds : G[p][g] = IF g = f THEN NoHandle ELSE F[p][g]
    BY <1>1 DEF Tables
  <1>3. h \in Handles \cup {NoHandle} /\ Exact(Here.pipes, F)
    BY <1>1, Typed DEF Tables
  <1> HIDE DEF G
  <1>4. CASE h = NoHandle
    <2>1. G = F
      <3>1. \A g \in Fds : G[p][g] = F[p][g]
        BY <1>2, <1>4
      <3>2. G[p] = F[p]
        BY <1>1, <3>1 DEF Tables
      <3> QED BY <1>1, <1>2, <3>2
    <2> QED BY <1>3, <1>4, <2>1 DEF FreeFd, G
  <1>5. CASE h # NoHandle /\ Aliased(F[p], f)
    <2>1. PICK g \in Fds : g # f /\ F[p][g] = h
      BY <1>5 DEF Aliased
    <2>2. \A q \in Pids, d \in Fds : G[q][d] # NoHandle => \E c \in Fds : F[q][c] = G[q][d]
      BY <1>2
    <2>3. \A q \in Pids, d \in Fds : F[q][d] # NoHandle => \E c \in Fds : G[q][c] = F[q][d]
      BY <1>2, <2>1
    <2> DEFINE ps == Here.pipes
    <2>4. FreeFd(Here, F[p], f).pipes = ps
      BY <1>5 DEF FreeFd
    <2> HIDE DEF F, ps
    <2>5. Exact(ps, F)
      BY <1>3 DEF ps
    <2>6. Exact(ps, G)
      BY SMTT(20), <2>2, <2>3, <2>5, SameHolders
    <2> QED BY <2>4, <2>6 DEF G, F
  <1>6. CASE h # NoHandle /\ ~Aliased(F[p], f)
    <2>1. h \in Handles /\ \A g \in Fds : F[p][g] = h <=> g = f
      BY <1>3, <1>6 DEF Aliased
    <2>2. Without(F, G, p, h)
      BY <1>2, <2>1 DEF Without
    <2>3. FreeFd(Here, F[p], f) = Revoke(Here, h)
      BY <1>6 DEF FreeFd
    <2>4. F[p][f] = h /\ Sound(Here, clones) /\ clones \in [Records -> Clones \cup {NoClone}]
      BY Typed
    <2> DEFINE s == Here
    <2> HIDE DEF F, h, s
    <2>5. Exact(s.pipes, F) /\ Sound(s, clones)
      BY <1>3, <2>4 DEF s
    <2>6. Exact(Revoke(s, h).pipes, G)
      BY ZenonT(60), <1>1, <2>1, <2>2, <2>4, <2>5, RevokeExact
    <2> QED BY <2>3, <2>6 DEF s, G, F
  <1> QED BY <1>4, <1>5, <1>6

(* A grant adds a table to the holders of an end. *)
LEMMA TakeOne ==
  ASSUME NEW ps \in [Slots -> Pipes], NEW F \in [Pids -> Tables], Exact(ps, F),
         NEW c \in Pids, NEW f \in Fds, F[c][f] = NoHandle,
         NEW h \in Handles, Find(ps, h), c \notin HoldersIn(F, h.pipe, h.end)
  PROVE  Exact([ps EXCEPT ![h.pipe].refs[h.end] = @ + 1], [F EXCEPT ![c][f] = h])
  <1> DEFINE a == h.pipe
             e == h.end
             qs == [ps EXCEPT ![a].refs[e] = @ + 1]
             G == [F EXCEPT ![c][f] = h]
  <1>1. a \in Slots /\ e \in Ends /\ h # NoHandle
    BY SMTT(20) DEF Handles, Slots, Ends, NoHandle
  <1>2. /\ \A i \in Slots, k \in Ends :
             qs[i].refs[k] = IF i = a /\ k = e THEN ps[i].refs[k] + 1 ELSE ps[i].refs[k]
        /\ \A i \in Slots : qs[i].live = ps[i].live /\ qs[i].gen = ps[i].gen
    BY <1>1 DEF Pipes
  <1>3. /\ \A q \in Pids \ {c} : G[q] = F[q]
        /\ \A d \in Fds : G[c][d] = IF d = f THEN h ELSE F[c][d]
    BY DEF Tables
  <1>4. \A i \in Slots, k \in Ends :
          ps[i].refs[k] = Cardinality(HoldersIn(F, i, k)) /\ ps[i].refs[k] \in Nat
    BY SMTT(20), HoldersCount DEF Exact
  <1> HIDE DEF qs, G
  <1>5. HoldersIn(G, a, e) = HoldersIn(F, a, e) \cup {c}
    <2>1. ASSUME NEW q \in Pids, q # c
          PROVE  q \in HoldersIn(G, a, e) <=> q \in HoldersIn(F, a, e)
      BY <1>3, <2>1 DEF HoldersIn
    <2>2. c \in HoldersIn(G, a, e)
      BY <1>1, <1>3 DEF HoldersIn
    <2>3. HoldersIn(G, a, e) \subseteq Pids /\ HoldersIn(F, a, e) \subseteq Pids
      BY DEF HoldersIn
    <2> QED BY <2>1, <2>2, <2>3
  <1>6. \A i \in Slots, k \in Ends : ~(i = a /\ k = e) =>
          HoldersIn(G, i, k) = HoldersIn(F, i, k)
    <2> SUFFICES ASSUME NEW i \in Slots, NEW k \in Ends, ~(i = a /\ k = e), NEW q \in Pids
                 PROVE  q \in HoldersIn(G, i, k) <=> q \in HoldersIn(F, i, k)
      BY SMTT(20) DEF HoldersIn
    <2>1. CASE q # c
      BY <1>3, <2>1 DEF HoldersIn
    <2>2. CASE q = c
      BY <1>3, <2>2 DEF HoldersIn
    <2> QED BY <2>1, <2>2
  <1>7. \A i \in Slots, k \in Ends : qs[i].refs[k] = Cardinality(HoldersIn(G, i, k))
    <2>1. Cardinality(HoldersIn(G, a, e)) = Cardinality(HoldersIn(F, a, e)) + 1
      <3> DEFINE H == HoldersIn(F, a, e)
      <3>1. IsFiniteSet(H) /\ c \notin H
        BY HoldersCount
      <3> HIDE DEF H
      <3>2. Cardinality(H \cup {c}) = Cardinality(H) + 1
        BY <3>1, FS_AddElement
      <3> QED BY <1>5, <3>2 DEF H
    <2> HIDE DEF a, e
    <2> QED BY SMTT(20), <1>2, <1>4, <1>6, <2>1
  <1>8. ps[a].live
    BY DEF Find
  <1>9. \A i \in Slots : qs[i].live <=> \E k \in Ends : qs[i].refs[k] # 0
    <2> SUFFICES ASSUME NEW i \in Slots
                 PROVE  qs[i].live <=> \E k \in Ends : qs[i].refs[k] # 0
      OBVIOUS
    <2>1. CASE i = a
      <3>1. qs[a].refs[e] # 0 /\ qs[a].live
        BY SMTT(20), <1>1, <1>2, <1>4, <1>8
      <3> QED BY <1>1, <2>1, <3>1
    <2>2. CASE i # a
      <3>1. \A k \in Ends : qs[i].refs[k] = ps[i].refs[k]
        BY <1>2, <2>2
      <3> QED BY SMTT(20), <1>2, <3>1 DEF Exact
    <2> QED BY <2>1, <2>2
  <1>10. ASSUME NEW q \in Pids, NEW d \in Fds, G[q][d] # NoHandle
         PROVE  Find(qs, G[q][d])
    <2>1. Find(ps, G[q][d]) /\ G[q][d].pipe \in Slots
      <3>1. CASE q = c /\ d = f
        BY <1>1, <1>3, <3>1
      <3>2. CASE ~(q = c /\ d = f)
        <4>1. G[q][d] = F[q][d]
          BY <1>3, <3>2
        <4> QED BY <1>10, <4>1, Holding DEF Exact
      <3> QED BY <3>1, <3>2
    <2> QED BY <1>2, <2>1 DEF Find
  <1>11. Exact(qs, G)
    BY <1>7, <1>9, <1>10 DEF Exact
  <1> QED BY <1>11 DEF qs, G

(* What a child has been granted after n descriptors of the table T. *)
PartOf(table, T, n) ==
  \A g \in Fds : table[g] # NoHandle => table[g] = T[g] /\ g < n

(* One round of fd64_fork_process, for a table without duplicates. *)
LEMMA GrantOneExact ==
  ASSUME NEW acc \in Grants, NEW r \in Grants, NEW F \in [Pids -> Tables],
         NEW c \in Pids, NEW T \in Tables, NEW f \in Fds,
         \A g \in Fds : T[g] # NoHandle => ~Aliased(T, g),
         Exact(acc.s.pipes, [F EXCEPT ![c] = acc.table]), PartOf(acc.table, T, f),
         OneGrant(acc, r, T[f], f)
  PROVE  /\ Exact(r.s.pipes, [F EXCEPT ![c] = r.table])
         /\ PartOf(r.table, T, f + 1)
  <1> DEFINE h == T[f]
             A == [F EXCEPT ![c] = acc.table]
             ps == acc.s.pipes
  <1>1. /\ acc.table \in Tables /\ r.table \in Tables /\ ps \in [Slots -> Pipes]
        /\ A \in [Pids -> Tables] /\ A[c] = acc.table
    BY DEF Grants, States
  <1>2. \A g \in Fds : g < f => g < f + 1 /\ g # f
    BY LinuxPipesAssumption DEF Fds
  <1>3. f < f + 1 /\ ~(f < f)
    BY LinuxPipesAssumption DEF Fds
  <1>4. CASE r.s.pipes = ps /\ r.table = acc.table
    BY <1>2, <1>4 DEF PartOf
  <1>5. CASE /\ h # NoHandle /\ Find(ps, h)
             /\ r.s.pipes = [ps EXCEPT ![h.pipe].refs[h.end] = @ + 1]
             /\ r.table = [acc.table EXCEPT ![f] = h]
    <2>1. h \in Handles
      BY <1>5 DEF Tables
    <2>2. A[c][f] = NoHandle
      BY <1>1, <1>3 DEF PartOf
    <2>3. c \notin HoldersIn(A, h.pipe, h.end)
      <3> SUFFICES ASSUME NEW g \in Fds, acc.table[g] # NoHandle,
                          acc.table[g].pipe = h.pipe, acc.table[g].end = h.end
                   PROVE  FALSE
        BY <1>1 DEF HoldersIn
      <3>1. T[g] = acc.table[g] /\ g # f
        BY <1>2 DEF PartOf
      <3>2. T[g] \in Handles /\ Find(ps, T[g])
        BY <1>1, <3>1 DEF Exact, Tables
      <3>3. T[g] = h
        BY ZenonT(60), <1>5, <2>1, <3>1, <3>2, SameHandle
      <3> QED BY <1>5, <3>1, <3>3 DEF Aliased
    <2>4. PartOf(r.table, T, f + 1)
      BY ZenonT(60), <1>1, <1>2, <1>3, <1>5 DEF PartOf, Tables
    <2> HIDE DEF ps, h, A
    <2>5. Exact([ps EXCEPT ![h.pipe].refs[h.end] = @ + 1], [A EXCEPT ![c][f] = h])
      <3>1. Exact(ps, A)
        BY DEF ps, A
      <3> QED BY <1>1, <1>5, <2>1, <2>2, <2>3, <3>1, TakeOne
    <2>6. [A EXCEPT ![c][f] = h] = [F EXCEPT ![c] = r.table]
      BY <1>1, <1>5 DEF A
    <2> QED BY <1>5, <2>4, <2>5, <2>6
  <1> QED BY <1>4, <1>5 DEF OneGrant

(* fd64_fork_process counts the child's table, as far as it got. *)
LEMMA GrantExact ==
  ASSUME NEW s, NEW cs, cs \in [Records -> Clones \cup {NoClone}], Sound(s, cs),
         NEW F \in [Pids -> Tables], Exact(s.pipes, F), NEW p \in Pids, NEW c \in Pids,
         F[c] = EmptyTable, \A f \in Fds : F[p][f] # NoHandle => ~Aliased(F[p], f)
  PROVE  Exact(GrantTable(s, F[p]).s.pipes, [F EXCEPT ![c] = GrantTable(s, F[p]).table])
  <1> DEFINE T == F[p]
             after == GrantSteps(s, T)
             Holds(n) == /\ after[n] \in Grants /\ Sound(after[n].s, cs)
                         /\ Exact(after[n].s.pipes, [F EXCEPT ![c] = after[n].table])
                         /\ PartOf(after[n].table, T, n)
             Bad == {n \in 0 .. FdLimit : ~Holds(n)}
  <1>1. FdLimit \in Nat /\ T \in Tables
    BY LinuxPipesAssumption
  <1>2. /\ after[0] = [s |-> s, table |-> EmptyTable, ok |-> TRUE]
        /\ \A n \in 1 .. FdLimit : after[n] = GrantFd(after[n - 1], T[n - 1], n - 1)
    BY SMTT(20), GrantUnfolds
  <1> HIDE DEF after
  <1>3. Holds(0)
    <2>1. s \in States /\ EmptyTable \in Tables
      BY DEF Sound, EmptyTable, Tables
    <2>2. after[0] \in Grants /\ after[0].s = s /\ after[0].table = EmptyTable
      BY <1>2, <2>1 DEF Grants
    <2>3. [F EXCEPT ![c] = EmptyTable] = F
      OBVIOUS
    <2>4. PartOf(EmptyTable, T, 0)
      BY DEF PartOf, EmptyTable
    <2> QED BY <2>2, <2>3, <2>4
  <1>4. ASSUME NEW n \in 1 .. FdLimit, Holds(n - 1) PROVE Holds(n)
    <2> DEFINE f == n - 1
               a == after[f]
               h == T[f]
               r == GrantFd(a, h, f)
    <2>1. f \in Fds /\ f + 1 = n
      BY <1>1 DEF Fds
    <2>2. h \in Handles \cup {NoHandle}
      BY <1>1, <2>1 DEF Tables
    <2>3. after[n] = r
      BY <1>2
    <2>4. /\ a \in Grants /\ Sound(a.s, cs)
          /\ Exact(a.s.pipes, [F EXCEPT ![c] = a.table]) /\ PartOf(a.table, T, f)
      BY <1>4
    <2> HIDE DEF a, f
    <2>5. r \in Grants /\ Sound(r.s, cs) /\ OneGrant(a, r, h, f)
      <3> HIDE DEF h
      <3> QED BY <2>1, <2>2, <2>4, GrantFdKeeps
    <2>6. \A g \in Fds : T[g] # NoHandle => ~Aliased(T, g)
      OBVIOUS
    <2> HIDE DEF r, T
    <2>7. /\ Exact(r.s.pipes, [F EXCEPT ![c] = r.table])
          /\ PartOf(r.table, T, f + 1)
      BY ZenonT(60), <1>1, <2>1, <2>4, <2>5, <2>6, GrantOneExact
    <2> QED BY ZenonT(60), <2>1, <2>3, <2>5, <2>7
  <1> HIDE DEF Holds
  <1>5. Bad = {}
    <2> SUFFICES ASSUME Bad # {} PROVE FALSE
      OBVIOUS
    <2>1. Bad \in SUBSET Nat
      BY SMTT(20), <1>1
    <2>2. PICK m \in Bad : \A y \in Bad : m =< y
      <3> HIDE DEF Bad
      <3> QED BY <2>1, LeastMember
    <2>3. m \in 1 .. FdLimit
      BY SMTT(20), <1>1, <1>3, <2>2
    <2>4. m - 1 \notin Bad /\ m - 1 \in 0 .. FdLimit
      BY SMTT(20), <1>1, <2>2, <2>3
    <2> QED BY <1>4, <2>2, <2>3, <2>4
  <1>6. Holds(FdLimit)
    BY SMTT(20), <1>1, <1>5
  <1> QED BY <1>6 DEF Holds, after, GrantTable
=========================================================================
