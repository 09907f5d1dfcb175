----------------------------- MODULE Fat32Shell -----------------------------
(***************************************************************************)
(* Boots and the shell's commands on a FAT32 volume, with power losses and *)
(* failing sector writes.  A boot mounts the volume or leaves it           *)
(* unavailable; the commands need it mounted.  A command runs to its end   *)
(* before the next one starts (the kernel serves one system call at a      *)
(* time), so each is one action, and so is a mount; a power loss ends it   *)
(* at one of its sector writes and the next boot finds what had reached    *)
(* the disk.                                                               *)
(*                                                                         *)
(*   vol      the volume on disk                                           *)
(*   files    the tree of files and directories a walk of vol reads        *)
(*   avail    whether the volume is mounted                                *)
(*   last     the last command, its paths and data, and what it reported   *)
(*   scars    what has befallen the volume, as pairs of command and mishap *)
(*   steps    commands so far                                              *)
(***************************************************************************)
EXTENDS Fat32Mount

CONSTANTS
  Paths,      \* paths the commands are given, sequences of names
  OwnPaths,   \* paths of the boot test's own files that they are given, too
  Contents,   \* what is written or appended, sequences of Data cells
  Faults,     \* faults that may strike: records of command and fault kind
  Sturdy,     \* the scars after which the volume is followed further
  Seeds,      \* command sequences that made the volumes to start from
  MaxScars,   \* bound: faults in a behaviour
  MaxSteps    \* bound: commands in a behaviour

VARIABLES vol, files, avail, last, scars, steps
vars == <<vol, files, avail, last, scars, steps>>

NoPath == << >>

-----------------------------------------------------------------------------
(* What is on the volume: the nodes a walk from the root finds.            *)

RECURSIVE NodesFrom(_, _, _, _)
NodesFrom(v, dir, prefix, depth) ==
  LET ss == DirSlots(v, dir)
      live == {j \in DOMAIN ss : ss[j].x.k = "entry" /\ ss[j].x.n \notin {".", ".."}}
      node(j) == [path |-> Append(prefix, ss[j].x.n), dir |-> ss[j].x.dir,
                  c |-> ss[j].x.c, size |-> ss[j].x.size, at |-> ss[j].c,
                  i |-> ss[j].i, seen |-> \A h \in 1 .. j : ss[h].x.k # "zero"]
      below == {j \in live : ss[j].x.dir /\ depth > 0}
  IN  {node(j) : j \in live}
      \cup UNION {NodesFrom(v, ss[j].x.c, Append(prefix, ss[j].x.n), depth - 1) : j \in below}

MaxDepth == 4
Nodes(v) == NodesFrom(v, Root, NoPath, MaxDepth)
DirNode == <<[k |-> "dir"]>>

Content(v, n) == IF n.dir THEN DirNode ELSE ReadFile(v, n.c, n.size, ClusterLimit)
TreeOf(v, nodes) ==
  [p \in {n.path : n \in nodes} |-> Content(v, CHOOSE n \in nodes : n.path = p)]
Tree(v) == TreeOf(v, Nodes(v))

-----------------------------------------------------------------------------
(* The commands.                                                           *)

(* A scar is a fault that struck ("io", "crash"), a chain too long to be   *)
(* freed ("long") or a command given a path of the boot test ("own"). *)
Scar(op, mishaps) == {[op |-> op, fault |-> m] : m \in mishaps}
Struck(ss) == {x \in ss : x.fault \in {"io", "crash"}}
OwnScars(ss) == {x \in ss : x.fault = "own"}

(* What Op does to a session that starts from the volume.  A fault can     *)
(* strike at any of its sector writes. *)
Run(op, p, q, d, Op(_), kinds) ==
  LET writes == NoFault.fuse - Op(Session(vol, NoFault)).fuse
      faults == IF kinds = {} \/ Cardinality(Struck(scars)) = MaxScars THEN {}
                ELSE [fault : kinds, fuse : 0 .. writes - 1]
  IN  \E f \in faults \cup {NoFault} : \E r \in {Op(Session(vol, f))} :
        /\ vol' = r.v
        /\ files' = Tree(r.v)
        /\ avail' = (~r.dead /\ (avail \/ r.ok))
        /\ last' = [op |-> op, p |-> p, q |-> q, d |-> d, ok |-> r.ok /\ ~r.dead]
        /\ scars' = scars \cup Scar(op, (IF f = NoFault THEN {} ELSE {f.fault})
                                \cup (IF r.cut THEN {"long"} ELSE {})
                                \cup (IF {p, q} \cap OwnPaths = {} THEN {} ELSE {"own"}))

KindsOf(op) == {x.fault : x \in {y \in Faults : y.op = op}}

(* mmio64_nvme_fat_open_runtime: the volume a mount left behind. *)
OpenRuntime == avail

(* One command of the shell. *)
Command(op, p, q, d, Op(_)) ==
  /\ OpenRuntime /\ steps < MaxSteps /\ scars \subseteq Sturdy
  /\ steps' = steps + 1
  /\ Run(op, p, q, d, Op, KindsOf(op))

(* Bound: the boots that are followed. *)
Followed(more) == scars \ OwnScars(scars) \subseteq Sturdy \cup more

(* The power goes between two commands, unless it went in one already. *)
PowerOff ==
  /\ avail /\ avail' = FALSE
  /\ Struck(scars) = {} /\ Followed({})
  /\ UNCHANGED <<vol, files, last, scars, steps>>

(* A boot up to the mount; faults strike it before the first command. *)
Boot ==
  /\ ~avail
  /\ Followed({x \in Faults : x.op = "mount"})
  /\ Run("mount", NoPath, NoPath, << >>, Mount,
         IF steps = 0 THEN KindsOf("mount") ELSE {})
  /\ UNCHANGED steps

(* Mutant: a file that has the right size already is not written. *)
WriteIfSizeDiffers(s, p, d) ==
  LET l == FindPath(s.v, p)
  IN  IF l.found /\ ~l.dir /\ l.size = Len(d) THEN s
      ELSE IF l.found THEN WriteExisting(s, l, d)
      ELSE CreatePathFile(s, p, d)

(* mmio64_nvme_fat_shell_write_file *)
WriteFile(s, p, d) ==
  LET l == FindPath(s.v, p)
  IN  Then(IF l.found THEN WriteExisting(s, l, d) ELSE CreatePathFile(s, p, d),
           LAMBDA t : Verify(t, p, d))

(* mmio64_nvme_fat_shell_append_file *)
AppendFile(s, p, d) ==
  LET l == FindPath(s.v, p)
      old == IF l.found THEN l.size ELSE 0
  IN  IF d = << >> THEN Fail(s)
      ELSE Then(IF l.found THEN AppendData(s, l, d) ELSE CreatePathFile(s, p, d),
                LAMBDA t : AppendReadBack(t, p, old, d))

(* mmio64_nvme_fat_shell_touch_file *)
TouchFile(s, p) ==
  LET dir == ParentCluster(s.v, p)
  IN  IF FindPath(s.v, p).found THEN s
      ELSE IF dir = 0 THEN Fail(s)
      ELSE Then(CreateReference(s, dir, Last(p), FALSE, 0, 0),
                LAMBDA t : Check(t, FindPath(t.v, p).found))

(* mmio64_nvme_fat_shell_delete_file: as a file, else as a directory. *)
DeleteFile(s, p) ==
  OrElse(DeletePathFile(s, p), LAMBDA t : DeletePathDirectory(t, p))

(* mmio64_nvme_fat_shell_copy_file: as a file, else as a tree. *)
CopyFile(s, p, q) ==
  Then(OrElse(CopyFilePath(s, p, q), LAMBDA t : CopyTree(t, p, q, 0)),
       LAMBDA t : Check(t, FindPath(t.v, q).found))

Write(p, d) == Command("write", p, NoPath, d, LAMBDA s : WriteFile(s, p, d))
AppendTo(p, d) == Command("append", p, NoPath, d, LAMBDA s : AppendFile(s, p, d))
Touch(p) == Command("touch", p, NoPath, << >>, LAMBDA s : TouchFile(s, p))
Delete(p) == Command("delete", p, NoPath, << >>, LAMBDA s : DeleteFile(s, p))
Mkdir(p) == Command("mkdir", p, NoPath, << >>, LAMBDA s : CreatePathDirectory(s, p))
Copy(p, q) == Command("copy", p, q, << >>, LAMBDA s : CopyFile(s, p, q))
Move(p, q) == Command("move", p, q, << >>, LAMBDA s : MovePathFile(s, p, q))

(* The volumes the fault-free command sequences of Seeds leave. *)
RECURSIVE Replay(_, _)
Replay(s, cmds) ==
  IF cmds = << >> \/ ~s.ok THEN s.v
  ELSE LET x == Head(cmds)
           t == CASE x.op = "write" -> WriteFile(s, x.p, x.d)
                  [] x.op = "append" -> AppendFile(s, x.p, x.d)
                  [] x.op = "mkdir" -> CreatePathDirectory(s, x.p)
                  [] x.op = "delete" -> DeleteFile(s, x.p)
       IN  Replay(t, Tail(cmds))

Init ==
  /\ \/ vol = Image /\ avail = FALSE
     \/ /\ avail = TRUE
        /\ \E cmds \in Seeds : vol = Replay(Mount(Session(Image, NoFault)), cmds)
  /\ files = Tree(vol)
  /\ last = [op |-> "none", p |-> NoPath, q |-> NoPath, d |-> << >>,
             ok |-> TRUE]
  /\ scars = {}
  /\ steps = 0

(* Bound: the first command of a behaviour may be given the test's files,  *)
(* and is then the last one. *)
Given == Paths \cup (IF steps = 0 THEN OwnPaths ELSE {})

Next ==
  \/ PowerOff
  \/ Boot
  \/ \E p \in Given :
    \/ \E d \in Contents : Write(p, d)
    \/ \E d \in Contents : AppendTo(p, d)
    \/ Touch(p)
    \/ Delete(p)
    \/ Mkdir(p)
    \/ \E q \in Given : Copy(p, q)
    \/ \E q \in Given : Move(p, q)

Spec == Init /\ [][Next]_vars

-----------------------------------------------------------------------------
(* The chain of a node: a file of size 0 has none. *)
ChainOf(v, n) == IF n.c < 2 THEN << >> ELSE Chain(v, n.c, ClusterLimit)
Owned(v, nodes) ==
  UNION {ToSet(ChainOf(v, n)) : n \in nodes} \cup ToSet(Chain(v, Root, ClusterLimit))

(* No two entries share a cluster, no chain leads into a free cluster or   *)
(* around in a circle, and every file has the clusters its size needs:     *)
(* what a power loss in the middle of a write, append, touch, mkdir or     *)
(* copy leaves is at worst clusters nobody uses, and so does the overwrite *)
(* of a file that is too long to be freed. *)
Sound ==
  scars \subseteq Sturdy =>
    LET nodes == Nodes(vol)
    IN  /\ \A n \in nodes : LET ch == ChainOf(vol, n) IN
             /\ ch # << >> => NextCluster(vol, Last(ch)) = EOC
             /\ Len(ch) >= IF n.dir THEN 1 ELSE ClustersFor(n.size)
        /\ Cardinality(Owned(vol, nodes))
             = Len(Chain(vol, Root, ClusterLimit))
               + MapThenSumSet(LAMBDA n : Len(ChainOf(vol, n)), nodes)

(* As long as no fault strikes, and no chain is longer than a walk that    *)
(* frees it, nothing is leaked either: the clusters in use are those of    *)
(* the tree, each file has exactly what its size needs, and the FAT copies *)
(* agree.  This includes the paths of the boot test. *)
Clean ==
  scars = OwnScars(scars) =>
    LET nodes == Nodes(vol)
    IN  /\ {c \in Clusters : NextCluster(vol, c) # 0} = Owned(vol, nodes)
        /\ \A n \in nodes : ~n.dir => Len(ChainOf(vol, n)) = ClustersFor(n.size)
        /\ vol.fat[1] = vol.fat[2]

(* No entry lies behind a zero slot, where no search would find it, and no *)
(* directory has two entries of one name, whatever fault has struck. *)
Findable ==
  LET nodes == Nodes(vol)
  IN  /\ \A n \in nodes : n.seen
      /\ Cardinality({n.path : n \in nodes}) = Cardinality(nodes)

(* The commands change the tree as the file store says, and no path but    *)
(* their own: one struck by a fault at any sector write leaves the old     *)
(* tree or the new one, except that a directory copy may leave part of the *)
(* copy, a move both names and a delete part of what it was deleting.  The *)
(* test at boot changes no file of the users, wherever a fault cuts it     *)
(* short and however often it runs again after that. *)
UserFiles == Restrict(files, {p \in DOMAIN files : <<Head(p)>> \notin Fixtures \cup {Ops}})
FS == INSTANCE FileStore
        WITH tree <- UserFiles, Lost <- Unreadable,
             Contents <- Contents \cup {UpdatedData, MultiData}
Atomic == FS!Spec

(* The appended data starts inside a sector and reaches into another one.  *)
Straddles(old, d) == old % Units # 0 /\ (old % Units) + Min({Len(d), Units}) > Units

(* What the command r was asked for, between two trees. *)
Done(r, old, new) ==
  LET p == r.p q == r.q
  IN  CASE r.op = "write" -> new[p] = r.d
        [] r.op = "append" ->
             new[p] = (IF p \in DOMAIN old THEN old[p] ELSE << >>) \o r.d
        [] r.op = "touch" -> p \in DOMAIN new
        [] r.op = "delete" -> p \in DOMAIN old /\ p \notin DOMAIN new
        [] r.op = "mkdir" -> p \notin DOMAIN old /\ new[p] = DirNode
        [] r.op = "copy" -> \A x \in DOMAIN old :
             IsPrefix(p, x) => new[FS!Moved(x, p, q)] = old[x]
        [] r.op = "move" -> p \notin DOMAIN new /\ new[q] = old[p]

(* A file that is too long to be freed. *)
TooLong(data) == data # DirNode /\ ClustersFor(Len(data)) > VisitLimit

(* The commands that may report a failure after a change: an append that   *)
(* was made, and whose read-back crosses a sector boundary; an overwrite   *)
(* that was made, of a file too long to be freed; the deletion of such a   *)
(* file; the copy of a directory that does not fit. *)
MayMislead(r, old, new) ==
  \/ /\ r.op = "append" /\ Done(r, old, new)
     /\ r.p \in DOMAIN old /\ Straddles(Len(old[r.p]), r.d)
  \/ /\ r.op = "write" /\ Done(r, old, new)
     /\ r.p \in DOMAIN old /\ TooLong(old[r.p])
  \/ /\ r.op = "delete"
     /\ \E x \in DOMAIN old : IsPrefix(r.p, x) /\ TooLong(old[x])
  \/ r.op = "copy" /\ old[r.p] = DirNode

(* A command reports the truth.  One that reports success has done exactly *)
(* what it was asked, and one that reports failure although no fault       *)
(* struck has changed nothing, with the four exceptions of MayMislead. *)
Truthful ==
  [][ steps' # steps =>
        IF last'.ok THEN Done(last', files, files')
        ELSE Struck(scars') = {} =>
               files' = files \/ MayMislead(last', files, files') ]_vars

(* The clusters the boot test has in use at once; if its directory does    *)
(* not fit into the root, the root grows into DeleteCluster.               *)
OpsClusters == 3 + 2 * (3 + ClustersFor(Len(MultiData)))
RoomForOps(v) ==
  Cardinality({c \in FirstCluster .. ClusterLimit - 1 : NextCluster(v, c) = 0})
    >= OpsClusters

(* A boot without a fault mounts the volume again, whatever the commands   *)
(* before it did to files that are not the boot test's own, unless the     *)
(* root directory has grown into the cluster the test wants to see free or *)
(* the volume is too full for the test; in these two cases it never does.  *)
Remounts ==
  [][ (~avail /\ last'.op = "mount" /\ scars = {} /\ scars' = {}) =>
       (avail' <=> /\ DeleteCluster \notin ToSet(Chain(vol, Root, ClusterLimit))
                   /\ RoomForOps(vol)) ]_vars

=============================================================================
