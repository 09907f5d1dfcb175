----------------------------- MODULE Fat32Mount -----------------------------
(***************************************************************************)
(* Mounting the volume at boot, before the shell may use it.  A mount      *)
(* checks the files of the installed image and then tests the volume code  *)
(* on the volume itself: it creates one file, grows another, deletes a     *)
(* third, at clusters fixed in the code, and makes, moves, copies and      *)
(* deletes files in a directory of its own.  If any of it fails the volume *)
(* stays unavailable until the next boot, which runs the same test again.  *)
(*                                                                         *)
(* MULTI.BIN stands for the four files of the image that are only checked. *)
(***************************************************************************)
EXTENDS Fat32, TLC

CONSTANTS
  CreateCluster,    \* MMIO64_NVME_FAT_EXPECTED_CREATE_CLUSTER
  UpdateCluster,    \* MMIO64_NVME_FAT_EXPECTED_UPDATE_CLUSTER
  DeleteCluster     \* MMIO64_NVME_FAT_EXPECTED_DELETE_CLUSTER

NvmePath == <<"NVME.TXT">>
MultiPath == <<"MULTI.BIN">>
RemovePath == <<"REMOVE.ME">>
WrittenPath == <<"written">>
Ops == <<"FATOPS">>
Fixtures == {NvmePath, MultiPath, RemovePath, WrittenPath}

NvmeData == <<Data(50)>>
UpdatedData == [i \in 1 .. Units + 1 |-> Data(51)]
MultiData == [i \in 1 .. Units + 1 |-> Data(52)]
WrittenData == <<Data(53)>>
SourceData == <<Data(54)>>
ChildData == <<Data(55)>>

(* The volume as it is installed. *)
Image ==
  LET links == (2 :> EOC) @@ (3 :> EOC) @@ (4 :> 5) @@ (5 :> EOC) @@ (DeleteCluster :> EOC)
      fat == [c \in Clusters |-> IF c \in DOMAIN links THEN links[c] ELSE 0]
      root == <<Entry("NVME.TXT", FALSE, 3, Len(NvmeData)),
                Entry("MULTI.BIN", FALSE, 4, Len(MultiData)), Tomb, Tomb,
                Entry("REMOVE.ME", FALSE, DeleteCluster, 1)>>
      blocks == (2 :> [i \in 1 .. Slots |-> IF i <= Len(root) THEN root[i] ELSE Zero])
                @@ (3 :> Padded(NvmeData)) @@ (4 :> Padded(MultiData))
                @@ (5 :> Padded(Rest(MultiData))) @@ (DeleteCluster :> Padded(<<Data(56)>>))
  IN  [fat |-> <<fat, fat>>,
       blk |-> [c \in Clusters |-> IF c \in DOMAIN blocks THEN blocks[c] ELSE ZeroSector]]

-----------------------------------------------------------------------------
(* mmio64_fat32_create_lfn_file *)
CreateLfnFile(s) ==
  LET c == CreateCluster
      made == Then(Then(WriteFatEntry(s, c, EOC),
                        LAMBDA t : WriteSector(t, c, Padded(WrittenData))),
                   LAMBDA t : CreateReference(t, Root, Last(WrittenPath), FALSE, c,
                                              Len(WrittenData)))
  IN  IF Verify(s, WrittenPath, WrittenData).ok THEN s
      ELSE IF FindFreeCluster(s.v, c) # c THEN Fail(s)
      ELSE Then(made, LAMBDA t : Verify(t, WrittenPath, WrittenData))

(* Mutant: a file that is already updated is updated again. *)
UpdateAgain(s) ==
  LET l == FindPath(s.v, NvmePath)
  IN  IF ~l.found \/ l.c # 3 \/ FindFreeCluster(s.v, UpdateCluster) # UpdateCluster THEN Fail(s)
      ELSE Then(Then(Then(Then(WriteFatEntry(s, 3, UpdateCluster),
                               LAMBDA t : WriteFatEntry(t, UpdateCluster, EOC)),
                          LAMBDA t : WriteSector(t, 3, Padded(UpdatedData))),
                     LAMBDA t : WriteSector(t, UpdateCluster, Padded(Rest(UpdatedData)))),
                LAMBDA t : UpdateFileEntry(t, l, l.c, Len(UpdatedData)))

(* mmio64_fat32_update_existing_file: the new cluster is linked before it  *)
(* is marked as the last one. *)
UpdateExistingFile(s) ==
  LET l == FindPath(s.v, NvmePath)
      c == UpdateCluster
      data(t, n) == WriteSector(t, n, Padded(IF n = 3 THEN UpdatedData
                                                      ELSE Rest(UpdatedData)))
      grown == Then(Then(Then(Then(WriteFatEntry(s, 3, c),
                                   LAMBDA t : WriteFatEntry(t, c, EOC)),
                              LAMBDA t : data(t, 3)),
                         LAMBDA t : data(t, c)),
                    LAMBDA t : UpdateFileEntry(t, l, l.c, Len(UpdatedData)))
  IN  IF Verify(s, NvmePath, UpdatedData).ok THEN Check(s, NextCluster(s.v, 3) = c)
      ELSE IF ~l.found \/ l.dir \/ l.c # 3 \/ FindFreeCluster(s.v, c) # c THEN Fail(s)
      ELSE Then(grown, LAMBDA t : Verify(t, NvmePath, UpdatedData))

(* mmio64_fat32_delete_file: once the file is gone its cluster must be free. *)
DeleteFixture(s) ==
  LET l == FindPath(s.v, RemovePath)
  IN  IF ~l.found THEN Check(s, NextCluster(s.v, DeleteCluster) = 0)
      ELSE IF l.c # DeleteCluster THEN Fail(s)
      ELSE Then(Then(WriteFatEntry(s, l.c, 0), LAMBDA t : TombstoneEntry(t, l)),
                LAMBDA t : Check(t, ~FindPath(t.v, RemovePath).found))

(* mmio64_fat32_full_ops_proof: its steps in order. *)
In(p, n) == Append(p, n)
Child == In(Ops, "CHILD")
IsFileAt(s, p) == Check(s, FindPath(s.v, p).found /\ ~FindPath(s.v, p).dir)

(* A file read back and written under another name. *)
CopyBytes(s, from, to, data) ==
  Then(Then(Verify(s, from, data), LAMBDA t : CreatePathFile(t, to, data)),
       LAMBDA t : Verify(t, to, data))

ClearLeftovers(s) ==
  LET l == FindPath(s.v, Ops)
  IN  IF ~l.found THEN s
      ELSE IF l.dir THEN DeletePathDirectory(s, Ops) ELSE DeletePathFile(s, Ops)

OpsSteps ==
  <<"clear", "mkdir", "create", "rename", "child", "move", "copy", "multi",
    "file", "tree", "delete">>

OpsStep(s, x) ==
  CASE x = "clear" -> ClearLeftovers(s)
    [] x = "mkdir" -> CreatePathDirectory(s, Ops)
    [] x = "create" -> CreatePathFile(s, In(Ops, "SRC.TXT"), SourceData)
    [] x = "rename" -> Then(MovePathFile(s, In(Ops, "SRC.TXT"), In(Ops, "RENAMED")),
                            LAMBDA t : IsFileAt(t, In(Ops, "RENAMED")))
    [] x = "child" -> CreatePathDirectory(s, Child)
    [] x = "move" -> Then(MovePathFile(s, In(Ops, "RENAMED"), In(Child, "MOVED")),
                          LAMBDA t : IsFileAt(t, In(Child, "MOVED")))
    [] x = "copy" -> CopyBytes(s, In(Child, "MOVED"), In(Child, "COPY"), SourceData)
    [] x = "multi" -> CopyBytes(s, MultiPath, In(Child, "MULTI.CPY"), MultiData)
    [] x = "file" -> CreatePathFile(s, In(Child, "CHILD.TXT"), ChildData)
    [] x = "tree" -> Then(CopyTree(s, Child, In(Ops, "COPIED"), 0),
                          LAMBDA t : Verify(t, In(In(Ops, "COPIED"), "CHILD.TXT"), ChildData))
    [] x = "delete" -> DeletePathDirectory(s, Ops)

FullOps(s) == FoldLeft(LAMBDA t, x : Then(t, LAMBDA u : OpsStep(u, x)), s, OpsSteps)

(* mmio64_fat32_mutation_proof *)
MutationProof(s) ==
  Then(Then(Then(CreateLfnFile(s), UpdateExistingFile), DeleteFixture), FullOps)

(* mmio64_scan_nvme_fat: the image first, then the tests that write. *)
Mount(s) ==
  LET image == \/ Verify(s, NvmePath, NvmeData).ok
               \/ Verify(s, NvmePath, UpdatedData).ok
  IN  Then(Then(Check(s, image), LAMBDA t : Verify(t, MultiPath, MultiData)),
           MutationProof)

=============================================================================
