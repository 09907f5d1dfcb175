------------------------------- MODULE Fat32 -------------------------------
(***************************************************************************)
(* The FAT32 volume code of mmio.c (x86_64 UEFI build): how the shell's    *)
(* file commands read and write the sectors of the volume, one write at a  *)
(* time, with the error paths of each step.                                *)
(*                                                                         *)
(* A volume v is the two FAT copies and the clusters: v.fat[k][c] is 0     *)
(* (free), EOC or the next cluster, v.blk[c] the cells of cluster c.  A    *)
(* cluster is one sector here: Slots directory slots or Units units of     *)
(* file data.  A long name takes two slots, an LFN slot and the entry.     *)
(*                                                                         *)
(* An operation is a function on a session s.  s.v is the volume on disk   *)
(* and s.ok the result of the last call, s.out what the call returned in   *)
(* its out-parameters.  s.fuse counts the sector writes that still reach   *)
(* the disk: the next one fails if s.fault is "io", and that one and all   *)
(* later ones are lost (s.dead) if it is "crash", when the power is gone   *)
(* and the error paths that follow change nothing.  s.cut says that a      *)
(* chain was too long to be freed.                                         *)
(***************************************************************************)
EXTENDS Integers, Sequences, FiniteSets, SequencesExt, FiniteSetsExt

CONSTANTS
  ClusterLimit,   \* mmio64_fat32_cluster_limit: clusters 2 .. ClusterLimit-1
  Slots,          \* directory slots of a sector, 16 in the code
  Units,          \* units of data of a sector, 512 bytes in the code
  VisitLimit,     \* MMIO64_FAT32_CLUSTER_VISIT_LIMIT
  FirstCluster,   \* MMIO64_NVME_RW_FIRST_CLUSTER
  MaxFile,        \* MMIO64_NVME_RW_SHELL_MAX_FILE_BYTES, in units
  LongNames       \* names that have no 8.3 form

ASSUME Fat32Assumption ==
  /\ {ClusterLimit, Slots, Units, VisitLimit, MaxFile} \subseteq Nat
  /\ FirstCluster \in 3 .. ClusterLimit - 1
  /\ Slots >= 3 /\ Units >= 1 /\ VisitLimit >= 1

Root == 2
EOC == 1000000
Clusters == 2 .. ClusterLimit - 1

Zero == [k |-> "zero"]
Tomb == [k |-> "tomb"]
Lfn(n) == [k |-> "lfn", n |-> n]
Entry(n, d, c, z) == [k |-> "entry", n |-> n, dir |-> d, c |-> c, size |-> z]
Data(d) == [k |-> "data", d |-> d]
FreeCell(x) == x.k \in {"zero", "tomb"}
ZeroSector == [i \in 1 .. Slots |-> Zero]

-----------------------------------------------------------------------------
(* Sessions: one sector write, and calls in sequence.                      *)

NoFault == [fault |-> "none", fuse |-> 1000]

Session(v, f) ==
  [v |-> v, fault |-> f.fault, fuse |-> f.fuse, dead |-> FALSE, ok |-> TRUE,
   cut |-> FALSE, out |-> 0]

(* A sector write that turns the volume into v. *)
Put(s, v) ==
  IF s.dead THEN [s EXCEPT !.ok = FALSE]
  ELSE IF s.fuse = 0
    THEN [s EXCEPT !.ok = FALSE, !.dead = s.fault = "crash",
                   !.fuse = NoFault.fuse]
    ELSE [s EXCEPT !.v = v, !.ok = TRUE, !.fuse = @ - 1]

Then(s, Op(_)) == IF s.ok THEN Op(s) ELSE s
OrElse(s, Op(_)) == IF s.ok THEN s ELSE Op(s)
OnError(s, Op(_)) == IF s.ok THEN s ELSE [Op(s) EXCEPT !.ok = FALSE]
Fail(s) == [s EXCEPT !.ok = FALSE]
Return(s, x) == [s EXCEPT !.ok = TRUE, !.out = x]
Check(s, b) == IF b THEN s ELSE Fail(s)

WriteSector(s, c, cells) == Put(s, [s.v EXCEPT !.blk[c] = cells])

(* Both FAT copies in order; the second is not written when the first one  *)
(* fails. *)
WriteFatEntry(s, c, x) ==
  Then(Put(s, [s.v EXCEPT !.fat[1][c] = x]),
       LAMBDA t : Put(t, [t.v EXCEPT !.fat[2][c] = x]))

-----------------------------------------------------------------------------
(* Chains and directories, read from the first FAT copy.                   *)

NextCluster(v, c) == v.fat[1][c]

FindFreeCluster(v, first) ==
  LET free == {c \in Clusters : c >= first /\ NextCluster(v, c) = 0}
  IN  IF free = {} THEN 0 ELSE Min(free)

(* The first n clusters of the chain that starts at c; a walk ends early   *)
(* at EOC and at a link that is no cluster. *)
RECURSIVE Chain(_, _, _)
Chain(v, c, n) ==
  IF n = 0 \/ c \notin Clusters THEN << >>
  ELSE <<c>> \o Chain(v, NextCluster(v, c), n - 1)

(* The slots of a directory in order, with the place of each. *)
DirSlots(v, dir) ==
  LET ch == Chain(v, dir, VisitLimit)
  IN  FlattenSeq([j \in 1 .. Len(ch) |->
        [i \in 1 .. Len(v.blk[ch[j]]) |-> [c |-> ch[j], i |-> i, x |-> v.blk[ch[j]][i]]]])

(* The slots before the first zero slot, where every search stops. *)
BeforeZero(ss) ==
  LET zs == {j \in DOMAIN ss : ss[j].x.k = "zero"}
  IN  IF zs = {} THEN ss ELSE SubSeq(ss, 1, Min(zs) - 1)

Visible(v, dir) == BeforeZero(DirSlots(v, dir))

NoLocation == [found |-> FALSE]

(* The entry in slot j of a directory: what it says, where it is, the      *)
(* cells to tombstone (the LFN slot that precedes it and its own) and its  *)
(* directory. *)
Location(ss, j, dir) ==
  LET first == IF j > 1 /\ ss[j - 1].x.k = "lfn" THEN j - 1 ELSE j
  IN  [found |-> TRUE, dir |-> ss[j].x.dir, c |-> ss[j].x.c,
       size |-> ss[j].x.size, at |-> [c |-> ss[j].c, i |-> ss[j].i],
       parent |-> dir, cells |-> {[c |-> ss[h].c, i |-> ss[h].i] : h \in first .. j}]

FindAmong(ss, dir, n) ==
  LET hits == {j \in DOMAIN ss : ss[j].x.k = "entry" /\ ss[j].x.n = n}
  IN  IF hits = {} THEN NoLocation ELSE Location(ss, Min(hits), dir)

FindInDirectory(v, dir, n) == FindAmong(Visible(v, dir), dir, n)

(* The rest of path, once its first name was found at l. *)
RECURSIVE FindFrom(_, _, _), Descend(_, _, _)
Descend(v, l, path) ==
  IF ~l.found \/ Len(path) = 1 THEN l
  ELSE IF l.dir /\ l.c >= 2 THEN FindFrom(v, l.c, Tail(path))
  ELSE NoLocation
FindFrom(v, dir, path) == Descend(v, FindInDirectory(v, dir, Head(path)), path)

FindPath(v, path) == FindFrom(v, Root, path)

(* The cluster of the directory that holds the last name of path. *)
DirectoryCluster(l) == IF l.found /\ l.dir /\ l.c >= 2 THEN l.c ELSE 0
ParentCluster(v, path) ==
  IF Len(path) = 1 THEN Root ELSE DirectoryCluster(FindPath(v, Front(path)))

(* What a file of that size starting at c reads as, or Unreadable when the *)
(* chain ends too soon. *)
Unreadable == <<[k |-> "unreadable"]>>
ClustersFor(size) == (size + Units - 1) \div Units
ReadFile(v, c, size, visits) ==
  LET ch == Chain(v, c, ClustersFor(size))
      cells == FlattenSeq([j \in 1 .. Len(ch) |-> v.blk[ch[j]]])
  IN  IF size = 0 THEN << >>
      ELSE IF Len(ch) < ClustersFor(size) \/ Len(ch) > visits THEN Unreadable
      ELSE SubSeq(cells, 1, size)

(* mmio64_nvme_fat_verify_file: the read-back after a write. *)
HoldsData(v, l, data) ==
  /\ l.found /\ ~l.dir /\ l.size = Len(data)
  /\ ReadFile(v, l.c, l.size, VisitLimit) = data
Verify(s, path, data) == Check(s, HoldsData(s.v, FindPath(s.v, path), data))

-----------------------------------------------------------------------------
(* Freeing and allocating.                                                 *)

(* mmio64_fat32_free_cluster_chain_for_mutation, also the loop of          *)
(* mmio64_fat32_delete_path_file: each link is read before the cluster is  *)
(* freed, and the walk gives up after VisitLimit clusters. *)
RECURSIVE FreeWalk(_, _, _)
FreeWalk(s, c, visits) ==
  IF visits = 0 THEN [Fail(s) EXCEPT !.cut = TRUE]
  ELSE IF c < 2 THEN Fail(s)
  ELSE LET next == NextCluster(s.v, c)
       IN  Then(WriteFatEntry(s, c, 0), LAMBDA t :
             IF next = EOC THEN t
             ELSE IF next < 2 \/ next = c THEN Fail(t)
             ELSE FreeWalk(t, next, visits - 1))
FreeChain(s, c) == FreeWalk(s, c, VisitLimit)

(* The data of one cluster, padded with zero bytes. *)
Padded(data) ==
  [i \in 1 .. Units |-> IF i <= Len(data) THEN data[i] ELSE Data(0)]
Rest(data) == SubSeq(data, Units + 1, Len(data))

(* mmio64_nvme_rw_write_data_chain and mmio64_fat32_copy_cluster_chain: a  *)
(* fresh chain with the data, first free cluster first; every failure      *)
(* frees what was built, and the cluster of the failing step is leaked     *)
(* when its own FAT entry was being written. *)
RECURSIVE DataChainFrom(_, _, _, _, _)
DataChainFrom(s, data, first, prev, candidate) ==
  LET c == FindFreeCluster(s.v, candidate)
      undo(t) == IF first = 0 THEN t ELSE FreeChain(t, first)
      head == IF first = 0 THEN c ELSE first
      linked(t) ==
        IF first = 0 THEN t
        ELSE OnError(WriteFatEntry(t, prev, c),
                     LAMBDA u : FreeChain(WriteFatEntry(u, c, 0), first))
      filled(t) ==
        OnError(WriteSector(t, c, Padded(data)), LAMBDA u : FreeChain(u, head))
  IN  IF data = << >> THEN Return(s, first)
      ELSE IF c = 0 THEN Fail(undo(s))
      ELSE Then(Then(Then(OnError(WriteFatEntry(s, c, EOC), undo), linked),
                     filled),
                LAMBDA t : DataChainFrom(t, Rest(data), head, c, c + 1))

WriteDataChain(s, data) ==
  IF data = << >> THEN Fail(s) ELSE DataChainFrom(s, data, 0, 0, FirstCluster)

-----------------------------------------------------------------------------
(* Directory slots.                                                        *)

Tombstoned(cells, P(_)) == [i \in DOMAIN cells |-> IF P(i) THEN Tomb ELSE cells[i]]

(* Every zero slot of the directory becomes a tombstone, so that a search  *)
(* goes on to the slots behind it. *)
RECURSIVE TombstoneWalk(_, _, _)
TombstoneWalk(s, c, visits) ==
  LET cells == s.v.blk[c]
      isZero(i) == cells[i].k = "zero"
      next == NextCluster(s.v, c)
  IN  IF visits = 0 THEN s
      ELSE IF c < 2 THEN Fail(s)
      ELSE Then(IF \E i \in DOMAIN cells : isZero(i)
                THEN WriteSector(s, c, Tombstoned(cells, isZero)) ELSE s,
                LAMBDA t : IF next = EOC THEN t
                           ELSE TombstoneWalk(t, next, visits - 1))
TombstoneZeroSlots(s, dir) == TombstoneWalk(s, dir, VisitLimit)

(* Mutant: the zero slots before the new cluster stay. *)
GrowBehindZeros(s, dir, last) ==
  LET c == FindFreeCluster(s.v, last + 1)
  IN  IF c = 0 THEN Fail(s)
      ELSE Then(Then(Then(WriteFatEntry(s, c, EOC),
                          LAMBDA u : WriteSector(u, c, ZeroSector)),
                     LAMBDA u : WriteFatEntry(u, last, c)),
                LAMBDA u : Return(u, [c |-> c, i |-> 1]))

(* A new zeroed cluster at the end of the directory. *)
GrowDirectory(s, dir, last) ==
  LET grown(t) ==
        LET near == FindFreeCluster(t.v, last + 1)
            c == IF near # 0 THEN near ELSE FindFreeCluster(t.v, 2)
        IN  IF c = 0 THEN Fail(t)
            ELSE Then(OnError(
                   Then(Then(WriteFatEntry(t, c, EOC),
                             LAMBDA u : WriteSector(u, c, ZeroSector)),
                        LAMBDA u : WriteFatEntry(u, last, c)),
                   LAMBDA u : WriteFatEntry(u, c, 0)),
                 LAMBDA u : Return(u, [c |-> c, i |-> 1]))
  IN  Then(TombstoneZeroSlots(s, dir), grown)

(* The first run of need free slots in one sector.  A run behind a zero    *)
(* slot makes the zero slots tombstones first; a full directory grows.  A  *)
(* cluster of data, which a failed write may have left in the chain, is    *)
(* taken to have no free slot. *)
FindFreeDirEntries(s, dir, need) ==
  LET ch == Chain(s.v, dir, VisitLimit)
      cells(j) == s.v.blk[ch[j]]
      runs(j) == {i \in 1 .. Len(cells(j)) - need + 1 :
                    \A h \in i .. i + need - 1 : FreeCell(cells(j)[h])}
      fit == {j \in DOMAIN ch : runs(j) # {}}
      j == Min(fit)
      i == Min(runs(j))
      zeroBefore ==
        \/ \E a \in 1 .. j - 1 : \E b \in DOMAIN cells(a) : cells(a)[b].k = "zero"
        \/ \E b \in 1 .. i - 1 : cells(j)[b].k = "zero"
      after == NextCluster(s.v, Last(ch))
  IN  IF fit # {}
        THEN Then(IF zeroBefore THEN TombstoneZeroSlots(s, dir) ELSE s,
                  LAMBDA t : Return(t, [c |-> ch[j], i |-> i]))
      ELSE IF after < 2 THEN Fail(s)
      ELSE GrowDirectory(s, dir, IF after = EOC THEN Last(ch) ELSE after)

(* mmio64_fat32_create_directory_reference *)
CreateReference(s, dir, n, isDir, c, size) ==
  LET need == IF n \in LongNames THEN 2 ELSE 1
      new == IF n \in LongNames THEN <<Lfn(n), Entry(n, isDir, c, size)>>
             ELSE <<Entry(n, isDir, c, size)>>
      written(t) ==
        LET a == t.out
        IN  WriteSector(t, a.c, [i \in 1 .. Slots |->
              IF i \in a.i .. a.i + need - 1 THEN new[i - a.i + 1]
              ELSE t.v.blk[a.c][i]])
  IN  Then(FindFreeDirEntries(s, dir, need), written)

(* mmio64_fat32_tombstone_directory_range: the LFN slot and the entry are  *)
(* in one sector. *)
TombstoneEntry(s, l) ==
  LET c == l.at.c
      gone(i) == [c |-> c, i |-> i] \in l.cells
  IN  WriteSector(s, c, Tombstoned(s.v.blk[c], gone))

(* mmio64_nvme_rw_update_file_entry *)
UpdateFileEntry(s, l, c, size) ==
  WriteSector(s, l.at.c,
    [s.v.blk[l.at.c] EXCEPT ![l.at.i] = [@ EXCEPT !.c = c, !.size = size]])

-----------------------------------------------------------------------------
(* File and directory operations.                                          *)

(* Mutant: the old chain is freed before the entry names the new one. *)
WriteFreesFirst(s, l, data) ==
  LET freed(t) == IF l.c >= 2 THEN [FreeChain(t, l.c) EXCEPT !.out = t.out] ELSE t
  IN  IF l.dir \/ Len(data) > MaxFile THEN Fail(s)
      ELSE Then(Then(WriteDataChain(s, data), freed),
                LAMBDA t : UpdateFileEntry(t, l, t.out, Len(data)))

(* Mutant: the old chain is never freed. *)
WriteLeaks(s, l, data) ==
  IF l.dir \/ Len(data) > MaxFile THEN Fail(s)
  ELSE Then(WriteDataChain(s, data),
            LAMBDA t : UpdateFileEntry(t, l, t.out, Len(data)))

(* Mutant: the file is emptied before it is written. *)
WriteEmptiesFirst(s, l, data) ==
  LET freed(t) == IF l.c >= 2 THEN FreeChain(t, l.c) ELSE t
      named(t) == UpdateFileEntry(t, l, t.out, Len(data))
  IN  IF l.dir \/ Len(data) > MaxFile THEN Fail(s)
      ELSE Then(Then(Then(UpdateFileEntry(s, l, 0, 0), freed),
                     LAMBDA t : WriteDataChain(t, data)), named)

(* mmio64_nvme_rw_write_existing_file: the new chain is complete before    *)
(* the entry names it, and the old one is freed after that. *)
WriteExisting(s, l, data) ==
  LET freed(t) == IF l.c >= 2 THEN FreeChain(t, l.c) ELSE t
      named(t) ==
        LET c == t.out
        IN  OnError(UpdateFileEntry(t, l, c, Len(data)), LAMBDA u : FreeChain(u, c))
  IN  IF l.dir \/ Len(data) > MaxFile THEN Fail(s)
      ELSE IF data = << >> THEN Then(UpdateFileEntry(s, l, 0, 0), freed)
      ELSE Then(Then(WriteDataChain(s, data), named), freed)

(* mmio64_nvme_rw_create_file_in_directory: the chain, then the entry. *)
CreateFileInDirectory(s, dir, n, data) ==
  LET named(t) ==
        LET c == t.out
        IN  OnError(CreateReference(t, dir, n, FALSE, c, Len(data)),
                    LAMBDA u : IF c >= 2 THEN FreeChain(u, c) ELSE u)
  IN  IF Len(data) > MaxFile THEN Fail(s)
      ELSE Then(IF data = << >> THEN Return(s, 0) ELSE WriteDataChain(s, data),
                named)

(* mmio64_nvme_rw_create_path_file *)
CreatePathFile(s, path, data) ==
  LET dir == ParentCluster(s.v, path)
  IN  IF dir = 0 THEN Fail(s) ELSE CreateFileInDirectory(s, dir, Last(path), data)

(* mmio64_fat32_append_rollback *)
AppendRollback(s, parent, first) ==
  IF first < 2 THEN s ELSE FreeChain(WriteFatEntry(s, parent, EOC), first)

(* The clusters appended behind prev: each one is marked, linked and only  *)
(* then filled; first and parent say what a rollback has to undo. *)
RECURSIVE AppendClusters(_, _, _, _, _)
AppendClusters(s, data, prev, parent, first) ==
  LET c == FindFreeCluster(s.v, prev + 1)
      undo(t) == AppendRollback(t, parent, first)
      newFirst == IF first = 0 THEN c ELSE first
      newParent == IF first = 0 THEN prev ELSE parent
      linked(t) == OnError(WriteFatEntry(t, prev, c),
                           LAMBDA u : undo(WriteFatEntry(u, c, 0)))
      filled(t) == OnError(WriteSector(t, c, Padded(data)),
                           LAMBDA u : AppendRollback(u, newParent, newFirst))
  IN  IF data = << >> THEN Return(s, [parent |-> parent, first |-> first])
      ELSE IF c = 0 THEN Fail(undo(s))
      ELSE Then(Then(Then(OnError(WriteFatEntry(s, c, EOC), undo), linked),
                     filled),
                LAMBDA t : AppendClusters(t, Rest(data), c, newParent, newFirst))

(* mmio64_fat32_append_data_to_file: fill the last cluster, append new     *)
(* ones, then let the entry say the new size. *)
AppendData(s, l, data) ==
  LET used == l.size % Units
      ch == Chain(s.v, l.c, ClustersFor(l.size))
      tail == Last(ch)
      room == IF used = 0 THEN 0 ELSE Min({Units - used, Len(data)})
      more == SubSeq(data, room + 1, Len(data))
      topped == IF room = 0 THEN s
                ELSE WriteSector(s, tail, [i \in 1 .. Units |->
                       IF i \in used + 1 .. used + room THEN data[i - used]
                       ELSE s.v.blk[tail][i]])
      sized(t) ==
        LET o == t.out
        IN  OnError(UpdateFileEntry(t, l, l.c, l.size + Len(data)),
                    LAMBDA u : AppendRollback(u, o.parent, o.first))
  IN  IF l.dir \/ data = << >> THEN Fail(s)
      ELSE IF l.size = 0 \/ l.c < 2 THEN WriteExisting(s, l, data)
      ELSE IF Len(ch) < ClustersFor(l.size) THEN Fail(s)
      ELSE Then(Then(topped, LAMBDA t : AppendClusters(t, more, tail, 0, 0)),
                sized)

(* The read-back of an append reads a sector's worth at a time into the    *)
(* sector buffer itself.  When a piece crosses into the next sector,       *)
(* reading that sector replaces what the first one gave, and the copy      *)
(* upwards inside the buffer repeats its start. *)
AppendReadBack(s, path, old, data) ==
  LET l == FindPath(s.v, path)
      ch == Chain(s.v, l.c, ClustersFor(l.size))
      sector(i) == i \div Units
      cell(n, i) == s.v.blk[ch[n + 1]][i + 1]
      seen(k) ==
        LET start == old + (k \div Units) * Units
            end == Min({start + Units, old + Len(data)}) - 1
            got == Units - (start % Units)    \* units of the first sector
            i == k % Units                    \* place in the buffer
        IN  IF sector(start) = sector(end) THEN cell(sector(start), (old + k) % Units)
            ELSE cell(sector(end), i % got)
  IN  Check(s, /\ l.found /\ ~l.dir /\ l.size = old + Len(data)
               /\ Len(ch) = ClustersFor(l.size)
               /\ \A k \in 0 .. Len(data) - 1 : seen(k) = data[k + 1])

(* mmio64_fat32_delete_path_file: the clusters are freed before the entry  *)
(* becomes a tombstone. *)
DeletePathFile(s, path) ==
  LET l == FindPath(s.v, path)
      freed == IF l.size = 0 THEN s ELSE FreeChain(s, l.c)
  IN  IF ~l.found \/ l.dir \/ (l.size # 0 /\ l.c < 2) THEN Fail(s)
      ELSE Then(Then(freed, LAMBDA t : TombstoneEntry(t, l)),
                LAMBDA t : Check(t, ~FindPath(t.v, path).found))

(* mmio64_fat32_delete_tree_cluster: the clusters of everything below dir, *)
(* then of dir; the entries inside stay as they are. *)
RECURSIVE DeleteTree(_, _, _), DeleteChildren(_, _, _)
DeleteChildren(s, ss, depth) ==
  IF ss = << >> THEN s
  ELSE LET x == Head(ss).x
           one == IF x.k # "entry" \/ x.n \in {".", ".."} THEN s
                  ELSE IF x.dir THEN DeleteTree(s, x.c, depth + 1)
                  ELSE IF x.c >= 2 THEN FreeChain(s, x.c) ELSE s
       IN  Then(one, LAMBDA t : DeleteChildren(t, Tail(ss), depth))
DeleteTree(s, dir, depth) ==
  IF dir < 2 \/ depth > 8 THEN Fail(s)
  ELSE Then(DeleteChildren(s, Visible(s.v, dir), depth),
            LAMBDA t : FreeChain(t, dir))

(* mmio64_fat32_delete_path_empty_directory, which is recursive. *)
DeletePathDirectory(s, path) ==
  LET l == FindPath(s.v, path)
  IN  IF ~l.found \/ ~l.dir \/ l.c < 2 THEN Fail(s)
      ELSE Then(Then(DeleteTree(s, l.c, 0), LAMBDA t : TombstoneEntry(t, l)),
                LAMBDA t : Check(t, ~FindPath(t.v, path).found))

(* mmio64_fat32_init_directory_cluster: zeros, then the dot entries. *)
InitDirectoryCluster(s, c, parent) ==
  Then(WriteSector(s, c, ZeroSector), LAMBDA t :
    WriteSector(t, c, [ZeroSector EXCEPT ![1] = Entry(".", TRUE, c, 0),
                                         ![2] = Entry("..", TRUE, parent, 0)]))

(* mmio64_fat32_create_path_directory: the cluster is marked, initialized  *)
(* and only then referenced. *)
CreatePathDirectory(s, path) ==
  LET dir == ParentCluster(s.v, path)
      c == FindFreeCluster(s.v, FirstCluster)
      named(t) == CreateReference(t, dir, Last(path), TRUE, c, 0)
      built(t) == OnError(Then(InitDirectoryCluster(t, c, dir), named),
                          LAMBDA u : WriteFatEntry(u, c, 0))
  IN  IF FindPath(s.v, path).found \/ dir = 0 \/ c = 0 THEN Fail(s)
      ELSE Then(Then(WriteFatEntry(s, c, EOC), built),
                LAMBDA t : Check(t, FindPath(t.v, path).found))

(* mmio64_fat32_move_path_file: a second entry for the same chain, then    *)
(* the tombstone for the first. *)
MovePathFile(s, from, to) ==
  LET l == FindPath(s.v, from)
      dir == ParentCluster(s.v, to)
  IN  IF ~l.found \/ l.dir \/ FindPath(s.v, to).found \/ dir = 0 THEN Fail(s)
      ELSE Then(Then(CreateReference(s, dir, Last(to), FALSE, l.c, l.size),
                     LAMBDA t : TombstoneEntry(t, l)),
                LAMBDA t : Check(t, ~FindPath(t.v, from).found
                                    /\ FindPath(t.v, to).found))

(* mmio64_fat32_copy_file_path *)
CopyFilePath(s, from, to) ==
  LET l == FindPath(s.v, from)
      dir == ParentCluster(s.v, to)
      data == ReadFile(s.v, l.c, l.size, ClusterLimit)
      named(t) ==
        LET c == t.out
        IN  OnError(CreateReference(t, dir, Last(to), FALSE, c, l.size),
                    LAMBDA u : IF c >= 2 THEN FreeChain(u, c) ELSE u)
  IN  IF ~l.found \/ l.dir \/ FindPath(s.v, to).found \/ dir = 0 THEN Fail(s)
      ELSE IF data = Unreadable THEN Fail(s)
      ELSE Then(Then(IF l.size = 0 THEN Return(s, 0) ELSE WriteDataChain(s, data),
                     named),
                LAMBDA t : Check(t, FindPath(t.v, to).found
                                    /\ FindPath(t.v, to).size = l.size))

(* mmio64_fat32_copy_tree_path *)
RECURSIVE CopyTree(_, _, _, _), CopyChildren(_, _, _, _, _)
CopyChildren(s, names, from, to, depth) ==
  IF names = << >> THEN s
  ELSE LET n == Head(names)
           one == IF n.dir THEN CopyTree(s, Append(from, n.n), Append(to, n.n), depth + 1)
                  ELSE CopyFilePath(s, Append(from, n.n), Append(to, n.n))
       IN  Then(one, LAMBDA t : CopyChildren(t, Tail(names), from, to, depth))
CopyTree(s, from, to, depth) ==
  LET l == FindPath(s.v, from)
      kids(v) ==
        LET ss == SelectSeq(Visible(v, l.c), LAMBDA y : /\ y.x.k = "entry"
                                                        /\ y.x.n \notin {".", ".."})
        IN  [j \in DOMAIN ss |-> ss[j].x]
  IN  IF depth > 8 \/ ~l.found \/ FindPath(s.v, to).found THEN Fail(s)
      ELSE IF ~l.dir THEN CopyFilePath(s, from, to)
      ELSE IF l.c < 2 \/ IsPrefix(from, to) THEN Fail(s)
      ELSE Then(CreatePathDirectory(s, to),
                LAMBDA t : CopyChildren(t, kids(t.v), from, to, depth))

=============================================================================
