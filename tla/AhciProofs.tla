----------------------------- MODULE AhciProofs -----------------------------
(***************************************************************************)
(* Proofs about the staged AHCI read path, for any implemented ports, any   *)
(* cabling, any grants and any bounds: a stage never outlives what it was   *)
(* built on (LinkedChain), no hardware handle from before the drain is live *)
(* once the driver holds the chain (OldHandlesDead), the published block is *)
(* what the read of this chain fetched, and the planned sector unless files *)
(* were read through the command table (BlockIsReadSector), and no command  *)
(* reaches the controller without its reasons (CommandsJustified).          *)
(*                                                                          *)
(* The properties are not inductive.  The invariant AInv says that every    *)
(* token is founded: it extends the token of the stage before it, is what   *)
(* the stages above it make of it, and what it vouches for outside the row  *)
(* of tokens (the oldest live handle, the ATAPI drive of the memory plan,   *)
(* the buffer, the launch recorded) still holds.  What the buffer vouches   *)
(* for also depends on the command page: a stray sector lies there only as  *)
(* long as its table is rerouted, and a table that is prepared anew takes   *)
(* the block back with all stages after it.  The foundation of a stage      *)
(* mentions earlier stages only.  A call resets its stage and all later     *)
(* ones, the relation Cut, and mints at most one founded token; so one      *)
(* lemma per kind of call suffices, and the place of every stage in the     *)
(* chain (ChainPlaces) is all that has to be known of the order.            *)
(***************************************************************************)
EXTENDS AhciChain, FiniteSetTheorems, WellFoundedInduction, TLAPS

(* Leaves that name no prover are tried with Zenon first. *)
USE ZenonT(20), SMTT(20)

(* The place of every stage in the chain. *)
Place ==
  [map |-> 1, snapshot |-> 2, port_snapshot |-> 3, port_policy |-> 4,
  read_plan |-> 5, command_plan |-> 6, memory_plan |-> 7, table_plan |-> 8,
  issue_plan |-> 9, bind_plan |-> 10, patch_plan |-> 11, publish_plan |-> 12,
  publish_gate |-> 13, publish_window |-> 14, publish_revoke_plan |-> 15,
  publish_open_attempt |-> 16, publish_session |-> 17, publish_drain |-> 18,
  publish_handoff |-> 19, driver_probe |-> 20, driver_intent |-> 21,
  driver_buffer |-> 22, driver_gate |-> 23, driver_exec |-> 24,
  driver_result |-> 25, driver_publish |-> 26, driver_read_grant |-> 27,
  driver_media_read |-> 28, driver_complete |-> 29, driver_read_cap |-> 30,
  driver_read_export |-> 31, driver_read_response |-> 32,
  driver_read_delivery |-> 33, driver_read_visible |-> 34,
  driver_read_commit |-> 35, driver_read_audit |-> 36,
  driver_read_upgrade |-> 37, driver_read_activate |-> 38,
  driver_read_arm |-> 39, driver_read_submit |-> 40, driver_read_observe |-> 41,
  driver_read_retire |-> 42, driver_read_permit |-> 43,
  driver_read_window |-> 44, driver_read_lease |-> 45, driver_read_use |-> 46,
  driver_read_report |-> 47, driver_read_receipt |-> 48, driver_read_ack |-> 49,
  driver_read_close |-> 50, driver_read_seal |-> 51, driver_read_unseal |-> 52,
  driver_read_discard |-> 53, driver_read_finalize |-> 54,
  driver_read_authorize |-> 55, driver_read_dispatch |-> 56,
  driver_read_queue |-> 57, driver_read_worker |-> 58,
  driver_read_schedule |-> 59, driver_read_run |-> 60, driver_read_body |-> 61,
  driver_read_issue |-> 62, driver_read_dma |-> 63, driver_read_irq |-> 64,
  driver_read_status |-> 65, status_result |-> 66, status_sample |-> 67,
  status_clear |-> 68, status_clear_result |-> 69, status_resample |-> 70,
  status_stable |-> 71, status_guard |-> 72, status_buffer |-> 73,
  status_export |-> 74, status_report |-> 75, status_receipt |-> 76,
  status_ack |-> 77, status_close |-> 78, status_seal |-> 79,
  status_unseal |-> 80, status_discard |-> 81, status_finalize |-> 82,
  status_authorize |-> 83, status_dispatch |-> 84, status_queue |-> 85,
  status_worker |-> 86, status_read_authority |-> 87, status_descriptor |-> 88,
  status_command_table |-> 89, status_command_issue |-> 90,
  status_issue_grant |-> 91, status_arm |-> 92, status_exec |-> 93,
  status_dma |-> 94, status_mmio |-> 95, status_dma_window |-> 96,
  status_read |-> 97, status_block |-> 98, status_fs |-> 99,
  status_fs_user |-> 100, status_fs_shell |-> 101, status_load |-> 102,
  status_load_full |-> 103]

(* The stages of the ladder: each takes over the token before it. *)
LadderStages ==
  {"driver_intent", "driver_buffer", "driver_gate", "driver_exec",
  "driver_result", "driver_publish", "driver_read_grant", "driver_media_read",
  "driver_complete", "driver_read_cap", "driver_read_export",
  "driver_read_response", "driver_read_delivery", "driver_read_visible",
  "driver_read_commit", "driver_read_audit", "driver_read_upgrade",
  "driver_read_activate", "driver_read_arm", "driver_read_submit",
  "driver_read_observe", "driver_read_retire", "driver_read_permit",
  "driver_read_window", "driver_read_lease", "driver_read_use",
  "driver_read_report", "driver_read_receipt", "driver_read_ack",
  "driver_read_close", "driver_read_seal", "driver_read_unseal",
  "driver_read_discard", "driver_read_finalize", "driver_read_authorize",
  "driver_read_dispatch", "driver_read_queue", "driver_read_worker",
  "driver_read_schedule", "driver_read_run", "driver_read_body",
  "driver_read_issue", "driver_read_dma", "driver_read_irq",
  "driver_read_status", "status_result", "status_clear_result", "status_guard",
  "status_buffer", "status_export", "status_report", "status_receipt",
  "status_ack", "status_close", "status_seal", "status_unseal",
  "status_discard", "status_finalize", "status_authorize", "status_dispatch",
  "status_queue", "status_worker", "status_read_authority"}

(* The groups of stages, laid end to end, put every stage at its place, and *)
(* no stage occurs twice.  This is the order in which one reset calls the   *)
(* next.                                                                    *)
LEMMA ChainPlaces ==
  /\ Len(Chain) = 103 /\ DOMAIN Chain = 1 .. 103
  /\ \A i \in 1 .. 103 : Chain[i] \in Range(Chain) /\ Index[Chain[i]] = i
  /\ \A x \in LadderStages : Index[x] \in 21 .. 94
  /\ Chain[1] = "map" /\ Chain[103] = "status_load_full"
  /\ Index["map"] = 1 /\ Index["snapshot"] = 2 /\ Index["port_snapshot"] = 3
  /\ Index["port_policy"] = 4 /\ Index["read_plan"] = 5
  /\ Index["command_plan"] = 6 /\ Index["memory_plan"] = 7
  /\ Index["table_plan"] = 8 /\ Index["issue_plan"] = 9
  /\ Index["bind_plan"] = 10 /\ Index["patch_plan"] = 11
  /\ Index["publish_plan"] = 12 /\ Index["publish_gate"] = 13
  /\ Index["publish_window"] = 14 /\ Index["publish_revoke_plan"] = 15
  /\ Index["publish_open_attempt"] = 16 /\ Index["publish_session"] = 17
  /\ Index["publish_drain"] = 18 /\ Index["publish_handoff"] = 19
  /\ Index["driver_probe"] = 20 /\ Index["status_result"] = 66
  /\ Index["status_sample"] = 67 /\ Index["status_clear"] = 68
  /\ Index["status_clear_result"] = 69 /\ Index["status_resample"] = 70
  /\ Index["status_stable"] = 71 /\ Index["status_read_authority"] = 87
  /\ Index["status_descriptor"] = 88 /\ Index["status_command_table"] = 89
  /\ Index["status_command_issue"] = 90 /\ Index["status_issue_grant"] = 91
  /\ Index["status_arm"] = 92 /\ Index["status_exec"] = 93
  /\ Index["status_dma"] = 94 /\ Index["status_mmio"] = 95
  /\ Index["status_dma_window"] = 96 /\ Index["status_read"] = 97
  /\ Index["status_block"] = 98 /\ Index["status_fs"] = 99
  /\ Index["status_fs_user"] = 100 /\ Index["status_fs_shell"] = 101
  /\ Index["status_load"] = 102 /\ Index["status_load_full"] = 103
  <1> USE DEF Chain,
           MapStages, SnapshotStages, TableStages, PatchStages, PublishStages,
           HandoffStages, BufferStages, MediaStages, ExportStages,
           DeliveryStages, AuditStages, SubmitStages, RetireStages, LeaseStages,
           ReceiptStages, SealStages, FinalizeStages, QueueStages, RunStages,
           IssueStages, IrqStages, StatusStages, SampleStages, ResampleStages,
           StableStages, StatusExportStages, StatusSealStages, HardwareStages,
           FilesystemStages
  <1>1. Len(Chain) = 103 /\ DOMAIN Chain = 1 .. 103
    OBVIOUS
  <1>2.
      /\ Chain[1] = "map" /\ Chain[2] = "snapshot" /\ Chain[3] = "port_snapshot"
      /\ Chain[4] = "port_policy" /\ Chain[5] = "read_plan"
      /\ Chain[6] = "command_plan" /\ Chain[7] = "memory_plan"
      /\ Chain[8] = "table_plan" /\ Chain[9] = "issue_plan"
      /\ Chain[10] = "bind_plan" /\ Chain[11] = "patch_plan"
      /\ Chain[12] = "publish_plan" /\ Chain[13] = "publish_gate"
    OBVIOUS
  <1>3.
      /\ Chain[14] = "publish_window" /\ Chain[15] = "publish_revoke_plan"
      /\ Chain[16] = "publish_open_attempt" /\ Chain[17] = "publish_session"
      /\ Chain[18] = "publish_drain" /\ Chain[19] = "publish_handoff"
      /\ Chain[20] = "driver_probe" /\ Chain[21] = "driver_intent"
      /\ Chain[22] = "driver_buffer" /\ Chain[23] = "driver_gate"
      /\ Chain[24] = "driver_exec" /\ Chain[25] = "driver_result"
      /\ Chain[26] = "driver_publish"
    OBVIOUS
  <1>4.
      /\ Chain[27] = "driver_read_grant" /\ Chain[28] = "driver_media_read"
      /\ Chain[29] = "driver_complete" /\ Chain[30] = "driver_read_cap"
      /\ Chain[31] = "driver_read_export" /\ Chain[32] = "driver_read_response"
      /\ Chain[33] = "driver_read_delivery" /\ Chain[34] = "driver_read_visible"
      /\ Chain[35] = "driver_read_commit" /\ Chain[36] = "driver_read_audit"
      /\ Chain[37] = "driver_read_upgrade" /\ Chain[38] = "driver_read_activate"
      /\ Chain[39] = "driver_read_arm"
    OBVIOUS
  <1>5.
      /\ Chain[40] = "driver_read_submit" /\ Chain[41] = "driver_read_observe"
      /\ Chain[42] = "driver_read_retire" /\ Chain[43] = "driver_read_permit"
      /\ Chain[44] = "driver_read_window" /\ Chain[45] = "driver_read_lease"
      /\ Chain[46] = "driver_read_use" /\ Chain[47] = "driver_read_report"
      /\ Chain[48] = "driver_read_receipt" /\ Chain[49] = "driver_read_ack"
      /\ Chain[50] = "driver_read_close" /\ Chain[51] = "driver_read_seal"
      /\ Chain[52] = "driver_read_unseal"
    OBVIOUS
  <1>6.
      /\ Chain[53] = "driver_read_discard" /\ Chain[54] = "driver_read_finalize"
      /\ Chain[55] = "driver_read_authorize"
      /\ Chain[56] = "driver_read_dispatch" /\ Chain[57] = "driver_read_queue"
      /\ Chain[58] = "driver_read_worker" /\ Chain[59] = "driver_read_schedule"
      /\ Chain[60] = "driver_read_run" /\ Chain[61] = "driver_read_body"
      /\ Chain[62] = "driver_read_issue" /\ Chain[63] = "driver_read_dma"
      /\ Chain[64] = "driver_read_irq" /\ Chain[65] = "driver_read_status"
    OBVIOUS
  <1>7.
      /\ Chain[66] = "status_result" /\ Chain[67] = "status_sample"
      /\ Chain[68] = "status_clear" /\ Chain[69] = "status_clear_result"
      /\ Chain[70] = "status_resample" /\ Chain[71] = "status_stable"
      /\ Chain[72] = "status_guard" /\ Chain[73] = "status_buffer"
      /\ Chain[74] = "status_export" /\ Chain[75] = "status_report"
      /\ Chain[76] = "status_receipt" /\ Chain[77] = "status_ack"
      /\ Chain[78] = "status_close"
    OBVIOUS
  <1>8.
      /\ Chain[79] = "status_seal" /\ Chain[80] = "status_unseal"
      /\ Chain[81] = "status_discard" /\ Chain[82] = "status_finalize"
      /\ Chain[83] = "status_authorize" /\ Chain[84] = "status_dispatch"
      /\ Chain[85] = "status_queue" /\ Chain[86] = "status_worker"
      /\ Chain[87] = "status_read_authority" /\ Chain[88] = "status_descriptor"
      /\ Chain[89] = "status_command_table"
      /\ Chain[90] = "status_command_issue" /\ Chain[91] = "status_issue_grant"
    OBVIOUS
  <1>9.
      /\ Chain[92] = "status_arm" /\ Chain[93] = "status_exec"
      /\ Chain[94] = "status_dma" /\ Chain[95] = "status_mmio"
      /\ Chain[96] = "status_dma_window" /\ Chain[97] = "status_read"
      /\ Chain[98] = "status_block" /\ Chain[99] = "status_fs"
      /\ Chain[100] = "status_fs_user" /\ Chain[101] = "status_fs_shell"
      /\ Chain[102] = "status_load" /\ Chain[103] = "status_load_full"
    OBVIOUS
  <1> HIDE DEF Chain
  <1>10. \A i \in 1 .. 13 : Place[Chain[i]] = i
    BY SMTT(20), <1>2 DEF Place
  <1>11. \A i \in 14 .. 26 : Place[Chain[i]] = i
    BY SMTT(20), <1>3 DEF Place
  <1>12. \A i \in 27 .. 39 : Place[Chain[i]] = i
    BY SMTT(20), <1>4 DEF Place
  <1>13. \A i \in 40 .. 52 : Place[Chain[i]] = i
    BY SMTT(20), <1>5 DEF Place
  <1>14. \A i \in 53 .. 65 : Place[Chain[i]] = i
    BY SMTT(20), <1>6 DEF Place
  <1>15. \A i \in 66 .. 78 : Place[Chain[i]] = i
    BY SMTT(20), <1>7 DEF Place
  <1>16. \A i \in 79 .. 91 : Place[Chain[i]] = i
    BY SMTT(20), <1>8 DEF Place
  <1>17. \A i \in 92 .. 103 : Place[Chain[i]] = i
    BY SMTT(20), <1>9 DEF Place
  <1>18. \A i \in 1 .. 103 : Place[Chain[i]] = i
    BY <1>10, <1>11, <1>12, <1>13, <1>14, <1>15, <1>16, <1>17
  <1>19. \A i \in 1 .. 103 : Chain[i] \in Range(Chain) /\ Index[Chain[i]] = i
    BY SMTT(20), <1>1, <1>18 DEF Index, Range
  <1>20.
      /\ Index["map"] = 1 /\ Index["snapshot"] = 2 /\ Index["port_snapshot"] = 3
      /\ Index["port_policy"] = 4 /\ Index["read_plan"] = 5
      /\ Index["command_plan"] = 6 /\ Index["memory_plan"] = 7
      /\ Index["table_plan"] = 8 /\ Index["issue_plan"] = 9
      /\ Index["bind_plan"] = 10 /\ Index["patch_plan"] = 11
      /\ Index["publish_plan"] = 12 /\ Index["publish_gate"] = 13
    BY SMTT(20), <1>2, <1>19
  <1>21.
      /\ Index["publish_window"] = 14 /\ Index["publish_revoke_plan"] = 15
      /\ Index["publish_open_attempt"] = 16 /\ Index["publish_session"] = 17
      /\ Index["publish_drain"] = 18 /\ Index["publish_handoff"] = 19
      /\ Index["driver_probe"] = 20 /\ Index["driver_intent"] = 21
      /\ Index["driver_buffer"] = 22 /\ Index["driver_gate"] = 23
      /\ Index["driver_exec"] = 24 /\ Index["driver_result"] = 25
      /\ Index["driver_publish"] = 26
    BY SMTT(20), <1>3, <1>19
  <1>22.
      /\ Index["driver_read_grant"] = 27 /\ Index["driver_media_read"] = 28
      /\ Index["driver_complete"] = 29 /\ Index["driver_read_cap"] = 30
      /\ Index["driver_read_export"] = 31 /\ Index["driver_read_response"] = 32
      /\ Index["driver_read_delivery"] = 33 /\ Index["driver_read_visible"] = 34
      /\ Index["driver_read_commit"] = 35 /\ Index["driver_read_audit"] = 36
      /\ Index["driver_read_upgrade"] = 37 /\ Index["driver_read_activate"] = 38
      /\ Index["driver_read_arm"] = 39
    BY SMTT(20), <1>4, <1>19
  <1>23.
      /\ Index["driver_read_submit"] = 40 /\ Index["driver_read_observe"] = 41
      /\ Index["driver_read_retire"] = 42 /\ Index["driver_read_permit"] = 43
      /\ Index["driver_read_window"] = 44 /\ Index["driver_read_lease"] = 45
      /\ Index["driver_read_use"] = 46 /\ Index["driver_read_report"] = 47
      /\ Index["driver_read_receipt"] = 48 /\ Index["driver_read_ack"] = 49
      /\ Index["driver_read_close"] = 50 /\ Index["driver_read_seal"] = 51
      /\ Index["driver_read_unseal"] = 52
    BY SMTT(20), <1>5, <1>19
  <1>24.
      /\ Index["driver_read_discard"] = 53 /\ Index["driver_read_finalize"] = 54
      /\ Index["driver_read_authorize"] = 55
      /\ Index["driver_read_dispatch"] = 56 /\ Index["driver_read_queue"] = 57
      /\ Index["driver_read_worker"] = 58 /\ Index["driver_read_schedule"] = 59
      /\ Index["driver_read_run"] = 60 /\ Index["driver_read_body"] = 61
      /\ Index["driver_read_issue"] = 62 /\ Index["driver_read_dma"] = 63
      /\ Index["driver_read_irq"] = 64 /\ Index["driver_read_status"] = 65
    BY SMTT(20), <1>6, <1>19
  <1>25.
      /\ Index["status_result"] = 66 /\ Index["status_sample"] = 67
      /\ Index["status_clear"] = 68 /\ Index["status_clear_result"] = 69
      /\ Index["status_resample"] = 70 /\ Index["status_stable"] = 71
      /\ Index["status_guard"] = 72 /\ Index["status_buffer"] = 73
      /\ Index["status_export"] = 74 /\ Index["status_report"] = 75
      /\ Index["status_receipt"] = 76 /\ Index["status_ack"] = 77
      /\ Index["status_close"] = 78
    BY SMTT(20), <1>7, <1>19
  <1>26.
      /\ Index["status_seal"] = 79 /\ Index["status_unseal"] = 80
      /\ Index["status_discard"] = 81 /\ Index["status_finalize"] = 82
      /\ Index["status_authorize"] = 83 /\ Index["status_dispatch"] = 84
      /\ Index["status_queue"] = 85 /\ Index["status_worker"] = 86
      /\ Index["status_read_authority"] = 87 /\ Index["status_descriptor"] = 88
      /\ Index["status_command_table"] = 89
      /\ Index["status_command_issue"] = 90 /\ Index["status_issue_grant"] = 91
    BY SMTT(20), <1>8, <1>19
  <1>27.
      /\ Index["status_arm"] = 92 /\ Index["status_exec"] = 93
      /\ Index["status_dma"] = 94 /\ Index["status_mmio"] = 95
      /\ Index["status_dma_window"] = 96 /\ Index["status_read"] = 97
      /\ Index["status_block"] = 98 /\ Index["status_fs"] = 99
      /\ Index["status_fs_user"] = 100 /\ Index["status_fs_shell"] = 101
      /\ Index["status_load"] = 102 /\ Index["status_load_full"] = 103
    BY SMTT(20), <1>9, <1>19
  <1> HIDE DEF MapStages, SnapshotStages, TableStages, PatchStages, PublishStages,
           HandoffStages, BufferStages, MediaStages, ExportStages,
           DeliveryStages, AuditStages, SubmitStages, RetireStages, LeaseStages,
           ReceiptStages, SealStages, FinalizeStages, QueueStages, RunStages,
           IssueStages, IrqStages, StatusStages, SampleStages, ResampleStages,
           StableStages, StatusExportStages, StatusSealStages, HardwareStages,
           FilesystemStages
  <1>28. \A x \in LadderStages : Index[x] \in 21 .. 94
    BY <1>20, <1>21, <1>22, <1>23, <1>24, <1>25, <1>26, <1>27 DEF LadderStages
  <1> QED BY ZenonT(60), <1>1, <1>2, <1>9, <1>19, <1>20, <1>21, <1>22, <1>23, <1>24, <1>25, <1>26, <1>27, <1>28,
             ZenonT(60)

-----------------------------------------------------------------------------
(* The state of the planner: all of its fields, and a token, zero or the    *)
(* inputs absorbed, for each of the 103 stages.                             *)
Fields ==
  {"tok", "candidate", "page", "stale", "late", "issued", "buf", "bcap", "blocks",
   "fscap", "ls"}

(* A token: the inputs absorbed. *)
Tokens == Seq(Nat)

(* The number of stages. *)
Last == Len(Chain)

(* All fields are there and no others. *)
IsRecord(s) == DOMAIN s = Fields /\ s = [f \in Fields |-> s[f]]

(* A stray sector was fetched by a table that is still rerouted. *)
PageSound(p) ==
  /\ p = [table |-> p.table, bounce |-> p.bounce]
  /\ p.bounce = "stray" => p.table = "rerouted"

(* The table of q is rerouted if that of p was. *)
Onward(p, q) == p.table = "rerouted" => q.table = "rerouted"

(* The published data b was fetched by the table of p. *)
Fits(b, p) == b \in Sealed /\ (p.table # "rerouted" => b = "read")

(* The state has its fields, a token for each stage and a sound page. *)
Shape(s) ==
  /\ IsRecord(s) /\ s.tok \in Seq(Tokens) /\ Len(s.tok) = Last
  /\ PageSound(s.page)

(* What the token t of the stage at place i says about the rest of the      *)
(* state s, given the live handles H and the last handle u.  It only looks  *)
(* at stages before i, so that resetting later ones cannot break it.        *)
Grown(s, i, t) ==
  /\ i \in 1 .. 2 => t = Started
  /\ i > 1 => s.tok[i - 1] # NoToken
  /\ i \in 2 .. 102 => Extends(t, s.tok[i - 1])
  /\ i = 3 => Len(t) = 4
  /\ i \in 4 .. 15 => t = s.tok[3]
  /\ i = 16 => Len(t) = 5
  /\ i \in 17 .. 18 => Len(t) = 6

(* The driver's handle is the oldest live one. *)
Bound(t, H, u) ==
  Len(t) = 7 /\ t[7] \in 1 .. u /\ \A h \in H : h.id >= t[7]

(* What holds outside the row of tokens when the stage at place i is staged. *)
Backed(s, i, t, H, u) ==
  /\ i = 19 => Bound(t, H, u)
  /\ i = 96 => Kind(s.tok[7]) = Atapi
  /\ i = 98 => Fits(s.buf, s.page)
  /\ i = 103 => s.ls

(* Both. *)
Founded(s, i, t, H, u) == Grown(s, i, t) /\ Backed(s, i, t, H, u)

(* The inductive invariant: every token is founded. *)
Rooted(s, H, u) ==
  /\ Shape(s)
  /\ \A i \in 1 .. Last : s.tok[i] # NoToken => Founded(s, i, s.tok[i], H, u)

(* It holds of the chain as it is. *)
AInv ==
  /\ Rooted(chain, hw, used)
  /\ IsFiniteSet(hw) /\ used \in Nat /\ dev \in Cablings

(* r is s with stage n's token set to t and all later ones cleared. *)
Cut(s, r, n, t) ==
  /\ Shape(r)
  /\ \A i \in 1 .. Last : i < n => r.tok[i] = s.tok[i]
  /\ r.tok[n] = t
  /\ \A i \in 1 .. Last : i > n => r.tok[i] = NoToken
  /\ n > 98 => r.buf = s.buf /\ Onward(s.page, r.page)
  /\ n > 102 => (s.ls => r.ls)

(* There are 103 stages. *)
LEMMA LastPlace == Last = 103
  BY ChainPlaces DEF Last

(* A prefix of a sequence, and one or two inputs more. *)
LEMMA Prefixes ==
  ASSUME NEW t \in Seq(Nat), NEW v \in Nat
  PROVE  /\ Extends(t, t) /\ Extends(Absorb(t, v), t)
         /\ Absorb(t, v) \in Seq(Nat) /\ Absorb(t, v) # NoToken
         /\ Len(Absorb(t, v)) = Len(t) + 1
         /\ Absorb(t, v)[Len(t) + 1] = v
         /\ \A i \in 1 .. Len(t) : Absorb(t, v)[i] = t[i]
  <1>1. Extends(t, t)
    BY DEF Extends
  <1>2. Extends(Absorb(t, v), t)
    BY DEF Extends, Absorb
  <1>3. Absorb(t, v) \in Seq(Nat) /\ Len(Absorb(t, v)) = Len(t) + 1
    BY DEF Absorb
  <1>4. Absorb(t, v)[Len(t) + 1] = v
    BY DEF Absorb
  <1>5. \A i \in 1 .. Len(t) : Absorb(t, v)[i] = t[i]
    BY DEF Absorb
  <1>6. Absorb(t, v) # NoToken
    BY <1>3 DEF NoToken
  <1> QED BY <1>1, <1>2, <1>3, <1>4, <1>5, <1>6

(* An input more keeps what was absorbed before. *)
LEMMA ExtendsMore ==
  ASSUME NEW t \in Tokens, NEW b \in Tokens, Extends(b, t), NEW v \in Nat
  PROVE  Extends(Absorb(b, v), t)
  BY DEF Extends, Absorb, Tokens

(* A stage is minted from the state before it, or not at all.  The handles  *)
(* may change at the same time as long as the stage bound to one is cut.    *)
LEMMA CutKeeps ==
  ASSUME NEW s, NEW r, NEW H, NEW u, NEW n \in 1 .. Last, NEW t,
         Rooted(s, H, u), Cut(s, r, n, t), NEW H2, NEW u2,
         n <= 19 \/ (H2 = H /\ u2 = u),
         t # NoToken => Founded(r, n, t, H2, u2)
  PROVE  Rooted(r, H2, u2)
  <1> SUFFICES ASSUME NEW i \in 1 .. Last, r.tok[i] # NoToken
               PROVE  Founded(r, i, r.tok[i], H2, u2)
    BY DEF Rooted, Cut
  <1>0. Last = 103
    BY LastPlace
  <1>1. i <= n /\ (i = n => r.tok[i] = t)
    BY <1>0 DEF Cut
  <1>2. CASE i = n
    BY <1>1, <1>2
  <1>3. CASE i < n
    <2>1. r.tok[i] = s.tok[i] /\ Founded(s, i, s.tok[i], H, u)
      BY <1>3 DEF Rooted, Cut
    <2>2. \A j \in 1 .. Last : j <= i => r.tok[j] = s.tok[j]
      BY <1>3 DEF Cut
    <2>3. Grown(r, i, r.tok[i])
      BY SMTT(20), <1>0, <2>1, <2>2 DEF Founded, Grown
    <2>4. Backed(s, i, s.tok[i], H, u) /\ i # 103
      BY SMTT(20), <1>0, <1>3, <2>1 DEF Founded
    <2>5. i = 96 => r.tok[7] = s.tok[7]
      BY SMTT(20), <1>0, <2>2
    <2>6. i = 98 => (Fits(s.buf, s.page) => Fits(r.buf, r.page))
      BY <1>3 DEF Cut, Onward, Fits
    <2>7. i = 19 => H2 = H /\ u2 = u
      BY <1>3
    <2>8. Backed(r, i, r.tok[i], H2, u2)
      BY <2>1, <2>4, <2>5, <2>6, <2>7 DEF Backed
    <2> QED BY ZenonT(60), <2>3, <2>8 DEF Founded
  <1> QED BY <1>0, <1>1, <1>2, <1>3

(* The start of one row of tokens and the rest of another. *)
Splice(t, u, n) == SubSeq(t, 1, n - 1) \o SubSeq(u, n, Last)

(* Splice is a row of tokens again, with the tokens of its two parts. *)
LEMMA Spliced ==
  ASSUME NEW t \in Seq(Tokens), NEW u \in Seq(Tokens),
         Len(t) = Last, Len(u) = Last, NEW n \in 1 .. Last
  PROVE  /\ Splice(t, u, n) \in Seq(Tokens) /\ Len(Splice(t, u, n)) = Last
         /\ \A i \in 1 .. Last : i < n => Splice(t, u, n)[i] = t[i]
         /\ \A i \in 1 .. Last : i >= n => Splice(t, u, n)[i] = u[i]
  <1> DEFINE a == SubSeq(t, 1, n - 1)
             b == SubSeq(u, n, Last)
  <1>0. Last \in Nat
    BY LastPlace
  <1>1. a \in Seq(Tokens) /\ Len(a) = n - 1 /\ \A i \in 1 .. n - 1 : a[i] = t[i]
    BY <1>0
  <1>2. /\ b \in Seq(Tokens) /\ Len(b) = Last - n + 1
        /\ \A i \in 1 .. Last - n + 1 : b[i] = u[n + i - 1]
    BY <1>0
  <1> HIDE DEF a, b
  <1>3. a \in Seq(Tokens) /\ b \in Seq(Tokens)
    BY <1>1, <1>2
  <1>4. a \o b \in Seq(Tokens)
    BY <1>3
  <1>5. Len(a \o b) = Last
    <2>1. Len(a \o b) = Len(a) + Len(b)
      BY <1>3
    <2> QED BY <1>0, <1>1, <1>2, <2>1
  <1>6. ASSUME NEW i \in 1 .. Last, i < n
        PROVE  (a \o b)[i] = t[i]
    BY <1>0, <1>1, <1>2, <1>6
  <1>7. ASSUME NEW i \in 1 .. Last, i >= n
        PROVE  (a \o b)[i] = u[i]
    <2>1. (a \o b)[i] = b[i - (n - 1)]
      BY SMTT(20), <1>0, <1>1, <1>2, <1>7
    <2>2. i - (n - 1) \in 1 .. Last - n + 1
      BY <1>0, <1>7
    <2> QED BY <1>2, <2>1, <2>2
  <1> QED BY <1>4, <1>5, <1>6, <1>7 DEF Splice, a, b

(* What a reset does, by place: the stages before x keep their tokens. *)
LEMMA ResetCuts ==
  ASSUME NEW s, Shape(s), NEW x, NEW n \in 1 .. Last, Index[x] = n
  PROVE  Cut(s, Reset(s, x), n, NoToken) /\ Reset(s, x).issued = s.issued
  <1>1. Unstaged \in Seq(Tokens) /\ Len(Unstaged) = Last
    BY SMTT(20), ChainPlaces DEF Unstaged, NoToken, Tokens, Last
  <1>2. \A i \in 1 .. Last : Unstaged[i] = NoToken
    BY SMTT(20), ChainPlaces DEF Unstaged, Last
  <1> DEFINE c == Splice(s.tok, Unstaged, n)
  <1>3. /\ c \in Seq(Tokens) /\ Len(c) = Last
        /\ \A i \in 1 .. Last : i < n => c[i] = s.tok[i]
        /\ \A i \in 1 .. Last : i >= n => c[i] = Unstaged[i]
    <2>1. s.tok \in Seq(Tokens) /\ Len(s.tok) = Last
      BY DEF Shape
    <2> QED BY <1>1, <2>1, Spliced, ZenonT(60)
  <1>4. Index["status_block"] = 98 /\ Index["status_load"] = 102
    BY ChainPlaces
  <1>0. IsRecord(s)
    BY DEF Shape
  <1>5. Reset(s, x).tok = c
    BY <1>0, <1>4 DEF IsRecord, Fields, Reset, Splice, Last
  <1>6. n > 98 => Reset(s, x).buf = s.buf
    BY SMTT(20), <1>0, <1>4 DEF IsRecord, Fields, Reset
  <1>10. Reset(s, x).page = s.page /\ PageSound(s.page) /\ Onward(s.page, s.page)
    BY <1>0 DEF IsRecord, Fields, Reset, Shape, Onward
  <1>7. n > 102 => (s.ls => Reset(s, x).ls)
    BY <1>0, <1>4 DEF IsRecord, Fields, Reset
  <1>8. IsRecord(Reset(s, x))
    BY <1>0, ZenonT(60) DEF IsRecord, Fields, Reset
  <1>9. Reset(s, x).issued = s.issued
    BY <1>0 DEF IsRecord, Fields, Reset
  <1> HIDE DEF c
  <1> QED BY SMTT(20), <1>2, <1>3, <1>5, <1>6, <1>7, <1>8, <1>9, <1>10 DEF Cut, Shape

(* Minting a token after a reset. *)
LEMMA MintCuts ==
  ASSUME NEW s, NEW r, NEW x, NEW n \in 1 .. Last, Index[x] = n,
         Cut(s, r, n, NoToken), NEW t \in Tokens
  PROVE  /\ Cut(s, Mint(r, x, t), n, t)
         /\ Mint(r, x, t).issued = r.issued /\ Mint(r, x, t).ls = r.ls
         /\ Mint(r, x, t).buf = r.buf /\ Mint(r, x, t).page = r.page
  <1>1. r.tok \in Seq(Tokens) /\ Len(r.tok) = Last /\ IsRecord(r) /\ PageSound(r.page)
    BY DEF Cut, Shape
  <1> DEFINE c == [r.tok EXCEPT ![n] = t]
  <1>2. /\ c \in Seq(Tokens) /\ Len(c) = Last
        /\ c[n] = t
        /\ \A i \in 1 .. Last : i # n => c[i] = r.tok[i]
    <2>1. Last \in Nat
      BY LastPlace
    <2>2. c \in Seq(Tokens) /\ Len(c) = Last
      BY SMTT(20), <1>1, <2>1
    <2>3. c[n] = t /\ \A i \in 1 .. Last : i # n => c[i] = r.tok[i]
      BY SMTT(20), <1>1, <2>1
    <2> QED BY <2>2, <2>3
  <1>3. /\ Mint(r, x, t).tok = c /\ Mint(r, x, t).issued = r.issued
        /\ Mint(r, x, t).ls = r.ls /\ Mint(r, x, t).buf = r.buf
        /\ Mint(r, x, t).page = r.page
    BY <1>1 DEF Mint, IsRecord, Fields
  <1>4. IsRecord(Mint(r, x, t))
    BY <1>1 DEF Mint, IsRecord, Fields
  <1> HIDE DEF c
  <1>5. /\ \A i \in 1 .. Last : i < n => c[i] = s.tok[i]
        /\ \A i \in 1 .. Last : i > n => c[i] = NoToken
    BY SMTT(20), <1>2 DEF Cut
  <1>6. /\ n > 98 => r.buf = s.buf /\ Onward(s.page, r.page)
        /\ n > 102 => (s.ls => r.ls)
    BY DEF Cut
  <1> QED BY SMTT(20), <1>1, <1>2, <1>3, <1>4, <1>5, <1>6 DEF Cut, Shape

(* The stage before x is the one at the place before it. *)
LEMMA TokBefore ==
  ASSUME NEW s, NEW x, NEW n \in 2 .. Last, Index[x] = n
  PROVE  Tok(s, Before(x)) = s.tok[n - 1]
  BY SMTT(20), ChainPlaces DEF Tok, Before, Last

(* Whatever leaves the tokens and the published block alone, and the page   *)
(* but for its bounce buffer.                                               *)
LEMMA SameKeeps ==
  ASSUME NEW s, NEW r, NEW H, NEW u, Rooted(s, H, u), IsRecord(r),
         r.tok = s.tok, r.buf = s.buf, s.ls => r.ls,
         r.page = s.page \/ (PageSound(r.page) /\ Onward(s.page, r.page))
  PROVE  Rooted(r, H, u)
  <1>1. Shape(r)
    BY DEF Rooted, Shape
  <1>3. Fits(s.buf, s.page) => Fits(r.buf, r.page)
    BY DEF Fits, Onward
  <1>2. ASSUME NEW i \in 1 .. Last, r.tok[i] # NoToken
        PROVE  Founded(r, i, r.tok[i], H, u)
    <2>1. Founded(s, i, s.tok[i], H, u)
      BY <1>2 DEF Rooted
    <2> QED BY SMTT(20), <1>3, <2>1 DEF Founded, Grown, Backed
  <1> QED BY <1>1, <1>2 DEF Rooted

(* A change of the handles touches only the stage that is bound to one. *)
LEMMA HandlesKeep ==
  ASSUME NEW s, NEW H, NEW u, Rooted(s, H, u), NEW H2, NEW u2,
         s.tok[19] # NoToken => Bound(s.tok[19], H2, u2)
  PROVE  Rooted(s, H2, u2)
  BY ZenonT(60) DEF Rooted, Founded, Backed

(* What minting a stage needs: the stages before it do not change. *)
LEMMA MintKeeps ==
  ASSUME NEW s, NEW r, NEW H, NEW u, Rooted(s, H, u),
         NEW n \in 1 .. Last, n # 98, NEW t, Cut(s, r, n, t),
         t # NoToken => Founded(s, n, t, H, u)
  PROVE  Rooted(r, H, u)
  <1>0. Last = 103
    BY LastPlace
  <1>1. \A i \in 1 .. Last : i < n => r.tok[i] = s.tok[i]
    BY DEF Cut
  <1>2. n = 103 => (s.ls => r.ls)
    BY SMTT(20) DEF Cut
  <1>3. ASSUME t # NoToken
        PROVE  Founded(r, n, t, H, u)
    <2>1. Grown(r, n, t)
      BY SMTT(20), <1>0, <1>1, <1>3 DEF Founded, Grown
    <2>2. Backed(r, n, t, H, u)
      BY SMTT(20), <1>0, <1>1, <1>2, <1>3 DEF Founded, Backed
    <2> QED BY <2>1, <2>2 DEF Founded
  <1> QED BY <1>3, CutKeeps

(* r is rooted and issues no command that s did not. *)
Keeps(s, r) == Rooted(r, hw, used) /\ r.issued = s.issued

(* Resetting a stage, and minting it after that. *)
LEMMA ResetKeeps ==
  ASSUME NEW s, Rooted(s, hw, used), NEW x, NEW n \in 1 .. Last, Index[x] = n
  PROVE  Keeps(s, Reset(s, x))
  <1>1. Cut(s, Reset(s, x), n, NoToken) /\ Reset(s, x).issued = s.issued
    BY ResetCuts DEF Rooted
  <1> QED BY <1>1, CutKeeps DEF Keeps

(* A founded token minted on a chain that was cut for it. *)
LEMMA MintedKeeps ==
  ASSUME NEW s, Rooted(s, hw, used), NEW x, NEW n \in 1 .. Last, n # 98, Index[x] = n,
         NEW t \in Tokens, t # NoToken => Founded(s, n, t, hw, used),
         NEW r, Cut(s, r, n, NoToken), r.issued = s.issued
  PROVE  Keeps(s, Mint(r, x, t))
  <1>1. Cut(s, Mint(r, x, t), n, t)
    BY MintCuts
  <1>2. Mint(r, x, t).issued = r.issued
    BY DEF Mint, Cut, Shape, IsRecord, Fields
  <1>3. Rooted(Mint(r, x, t), hw, used)
    BY <1>1, MintKeeps
  <1> QED BY <1>2, <1>3 DEF Keeps

(* Both at once. *)
LEMMA StagedKeeps ==
  ASSUME NEW s, Rooted(s, hw, used), NEW x, NEW n \in 1 .. Last, n # 98, Index[x] = n,
         NEW t \in Tokens, t # NoToken => Founded(s, n, t, hw, used)
  PROVE  Keeps(s, Mint(Reset(s, x), x, t))
  <1>1. Cut(s, Reset(s, x), n, NoToken) /\ Reset(s, x).issued = s.issued
    BY ResetCuts DEF Rooted
  <1> QED BY <1>1, MintedKeeps

(* A stage that takes over the token before it, with or without more inputs. *)
LEMMA TokensAre ==
  ASSUME NEW s, NEW H, NEW u, Rooted(s, H, u), NEW i \in 1 .. Last
  PROVE  s.tok[i] \in Tokens
  BY DEF Rooted, Shape

(* The token a planning stage takes over from the stage before it is founded. *)
LEMMA PlanFounded ==
  ASSUME NEW s, NEW H, NEW u, Rooted(s, H, u), NEW n \in 4 .. 15
  PROVE  /\ s.tok[n - 1] \in Tokens
         /\ s.tok[n - 1] # NoToken => Founded(s, n, s.tok[n - 1], H, u)
  <1>1. n - 1 \in 1 .. Last /\ n \in 1 .. Last
    BY LastPlace
  <1>2. s.tok[n - 1] \in Tokens
    BY <1>1, TokensAre
  <1>3. Extends(s.tok[n - 1], s.tok[n - 1])
    BY <1>2, Prefixes DEF Tokens
  <1>4. ASSUME s.tok[n - 1] # NoToken
        PROVE  s.tok[n - 1] = s.tok[3]
    <2>1. Founded(s, n - 1, s.tok[n - 1], H, u)
      BY <1>1, <1>4 DEF Rooted
    <2>2. n - 1 = 3 \/ n - 1 \in 4 .. 15
      OBVIOUS
    <2> QED BY <2>1, <2>2 DEF Founded, Grown
  <1>5. ASSUME s.tok[n - 1] # NoToken
        PROVE  Grown(s, n, s.tok[n - 1]) /\ Backed(s, n, s.tok[n - 1], H, u)
    BY SMTT(20), <1>3, <1>4, <1>5 DEF Grown, Backed
  <1> QED BY <1>2, <1>5 DEF Founded

(* So is the one a stage of the driver takes over. *)
LEMMA StageFounded ==
  ASSUME NEW s, NEW H, NEW u, Rooted(s, H, u), NEW n \in 20 .. 102, n # 98,
         n = 96 => Kind(s.tok[7]) = Atapi,
         NEW t, Extends(t, s.tok[n - 1]), s.tok[n - 1] # NoToken
  PROVE  Founded(s, n, t, H, u)
  BY SMTT(20) DEF Founded, Grown, Backed

(* The same by place, with what the window adds to it. *)
LEMMA CopyFounded ==
  ASSUME NEW s, NEW H, NEW u, Rooted(s, H, u), NEW n \in 20 .. 102, n # 98,
         n = 96 => Kind(s.tok[7]) = Atapi
  PROVE  /\ s.tok[n - 1] \in Tokens
         /\ s.tok[n - 1] # NoToken => Founded(s, n, s.tok[n - 1], H, u)
  <1>1. n - 1 \in 1 .. Last
    BY LastPlace
  <1>2. s.tok[n - 1] \in Tokens
    BY <1>1, TokensAre
  <1>3. Extends(s.tok[n - 1], s.tok[n - 1])
    BY <1>2, Prefixes DEF Tokens
  <1> QED BY <1>2, <1>3, StageFounded

-----------------------------------------------------------------------------
(* A set of port numbers has a least one. *)
LEMMA LeastNumber ==
  ASSUME NEW S \in SUBSET Nat, S # {}
  PROVE  \E m \in S : \A y \in S : m <= y
  <1>1. PICK m \in S : \A y \in S : ~ (<<y, m>> \in OpToRel(<, Nat))
    BY NatLessThanWellFounded, WFMin
  <1>2. \A y \in S : ~ (y < m)
    BY <1>1, Zenon DEF OpToRel
  <1> QED BY SMTT(20), <1>2

(* The port selected is a port. *)
LEMMA SelectedIsPort ==
  ASSUME dev \in Cablings
  PROVE  SelectedPort \in Nat /\ dev[SelectedPort] \in Nat
  <1> DEFINE present == {p \in Ports : dev[p] # None}
             S == IF present # {} THEN present ELSE Ports
  <1>1. S \in SUBSET Nat /\ S # {} /\ S \subseteq Ports
    BY AhciAssumption
  <1>2. \E m \in S : \A y \in S : m <= y
    <2> HIDE DEF S
    <2> QED BY <1>1, LeastNumber
  <1>3. SelectedPort \in S
    <2>1. SelectedPort = CHOOSE m \in S : \A y \in S : m <= y
      BY DEF SelectedPort, Min
    <2> HIDE DEF S
    <2> QED BY <1>2, <2>1
  <1>4. dev \in [Ports -> 1 .. 3]
    BY AhciAssumption
  <1> HIDE DEF S
  <1> QED BY SMTT(20), <1>1, <1>3, <1>4

(* The token of a look at the controller. *)
LEMMA SeenExtends ==
  ASSUME dev \in Cablings, NEW t \in Tokens
  PROVE  /\ Seen(t) \in Tokens /\ Seen(t) # NoToken /\ Extends(Seen(t), t)
         /\ Len(Seen(t)) = Len(t) + 2
  <1>1. SelectedPort \in Nat /\ dev[SelectedPort] \in Nat
    BY SelectedIsPort
  <1> DEFINE b == Absorb(t, SelectedPort)
  <1>2. b \in Seq(Nat) /\ Len(b) = Len(t) + 1
    BY <1>1, Prefixes DEF Tokens
  <1>3. /\ Absorb(b, dev[SelectedPort]) \in Seq(Nat)
        /\ Absorb(b, dev[SelectedPort]) # NoToken
        /\ Len(Absorb(b, dev[SelectedPort])) = Len(b) + 1
    <2> HIDE DEF b
    <2> QED BY <1>1, <1>2, Prefixes
  <1>4. Extends(Absorb(b, dev[SelectedPort]), t)
    <2>1. b \in Tokens /\ Extends(b, t)
      BY <1>1, Prefixes DEF Tokens
    <2> HIDE DEF b
    <2> QED BY <1>1, <2>1, ExtendsMore
  <1>5. Len(t) \in Nat
    BY DEF Tokens
  <1> QED BY <1>2, <1>3, <1>4, <1>5 DEF Seen, Tokens

(* What the token of a staged stage says. *)
LEMMA StagedFounded ==
  ASSUME NEW s, NEW H, NEW u, Rooted(s, H, u), NEW i \in 1 .. 103, s.tok[i] # NoToken
  PROVE  Grown(s, i, s.tok[i]) /\ Backed(s, i, s.tok[i], H, u)
  <1>1. i \in 1 .. Last
    BY LastPlace
  <1> QED BY <1>1 DEF Rooted, Founded

(* The first three tokens. *)
LEMMA StartedToken ==
  /\ Started \in Tokens /\ Started # NoToken /\ Extends(Started, Started)
  /\ Len(Started) = 1
  <1>1. Started \in Tokens
    BY DEF Started, Tokens
  <1>2. Started # NoToken
    BY DEF Started, NoToken
  <1>3. Len(Started) = 1
    BY DEF Started
  <1>4. Extends(Started, Started)
    BY <1>1, Prefixes DEF Tokens
  <1> QED BY <1>1, <1>2, <1>3, <1>4

(* The tokens of the first two stages. *)
LEMMA FirstFounded ==
  ASSUME NEW s, NEW H, NEW u, Rooted(s, H, u)
  PROVE  /\ Founded(s, 1, Started, H, u)
         /\ s.tok[1] # NoToken => s.tok[1] = Started /\ Founded(s, 2, Started, H, u)
         /\ s.tok[2] # NoToken => s.tok[2] = Started
  <1>1. Founded(s, 1, Started, H, u)
    BY DEF Founded, Grown, Backed
  <1>2. ASSUME s.tok[1] # NoToken
        PROVE  s.tok[1] = Started
    <2>1. Grown(s, 1, s.tok[1])
      BY <1>2, StagedFounded
    <2> QED BY <2>1 DEF Grown
  <1>3. ASSUME s.tok[2] # NoToken
        PROVE  s.tok[2] = Started
    <2>1. Grown(s, 2, s.tok[2])
      BY <1>3, StagedFounded
    <2> QED BY <2>1 DEF Grown
  <1>4. ASSUME s.tok[1] # NoToken
        PROVE  Founded(s, 2, Started, H, u)
    BY SMTT(20), <1>2, <1>4, StartedToken DEF Founded, Grown, Backed
  <1> QED BY <1>1, <1>2, <1>3, <1>4

(* The token of the port snapshot: port, device and readiness. *)
LEMMA SnapshotFounded ==
  ASSUME dev \in Cablings, NEW s, NEW H, NEW u, Rooted(s, H, u), NEW idle,
         s.tok[2] # NoToken
  PROVE  /\ Absorb(Seen(Started), Flag(idle)) \in Tokens
         /\ Founded(s, 3, Absorb(Seen(Started), Flag(idle)), H, u)
  <1> DEFINE b == Seen(Started)
             f == Flag(idle)
  <1>1. Started \in Tokens /\ s.tok[2] = Started
    BY FirstFounded, StartedToken
  <1>2. b \in Tokens /\ Extends(b, Started) /\ Len(b) = Len(Started) + 2
    BY <1>1, SeenExtends
  <1>3. f \in Nat
    BY DEF Flag
  <1> HIDE DEF b, f
  <1>4. Absorb(b, f) \in Tokens /\ Len(Absorb(b, f)) = Len(b) + 1
    BY <1>2, <1>3, Prefixes DEF Tokens
  <1>5. Extends(Absorb(b, f), Started)
    BY <1>1, <1>2, <1>3, ExtendsMore
  <1>6. Len(Absorb(b, f)) = 4
    BY <1>2, <1>4, StartedToken
  <1>7. Founded(s, 3, Absorb(b, f), H, u)
    <2> DEFINE t == Absorb(b, f)
    <2>1. Len(t) = 4 /\ Extends(t, s.tok[2])
      BY <1>1, <1>5, <1>6
    <2> HIDE DEF t
    <2>2. Founded(s, 3, t, H, u)
      BY SMTT(20), <2>1 DEF Founded, Grown, Backed
    <2> QED BY <2>2 DEF t
  <1> QED BY <1>4, <1>7 DEF b, f

(* The number of live handles. *)
LEMMA LiveCounts ==
  ASSUME IsFiniteSet(hw)
  PROVE  Live \in Nat /\ (Live = 0 => hw = {})
  BY FS_CardinalityType, FS_EmptySet DEF Live

(* The window, the session and the drain count the live handles. *)
LEMMA CountFounded ==
  ASSUME NEW s, NEW H, NEW u, Rooted(s, H, u), NEW v \in Nat
  PROVE  /\ s.tok[15] # NoToken =>
              Absorb(s.tok[15], v) \in Tokens /\ Founded(s, 16, Absorb(s.tok[15], v), H, u)
         /\ s.tok[16] # NoToken =>
              Absorb(s.tok[16], v) \in Tokens /\ Founded(s, 17, Absorb(s.tok[16], v), H, u)
         /\ s.tok[17] # NoToken =>
              s.tok[17] \in Tokens /\ Founded(s, 18, s.tok[17], H, u)
  <1>1. s.tok[15] \in Tokens /\ s.tok[16] \in Tokens /\ s.tok[17] \in Tokens
    <2>1. 15 \in 1 .. Last /\ 16 \in 1 .. Last /\ 17 \in 1 .. Last
      BY LastPlace
    <2> QED BY <2>1, TokensAre
  <1>2. ASSUME NEW t \in Tokens
        PROVE  /\ Absorb(t, v) \in Tokens /\ Extends(Absorb(t, v), t)
               /\ Len(Absorb(t, v)) = Len(t) + 1 /\ Extends(t, t)
    BY Prefixes, ZenonT(60) DEF Tokens
  <1>3. ASSUME s.tok[15] # NoToken
        PROVE  Founded(s, 16, Absorb(s.tok[15], v), H, u)
    <2>1. s.tok[15] = s.tok[3]
      <3>1. Grown(s, 15, s.tok[15])
        BY <1>3, StagedFounded
      <3> QED BY <3>1 DEF Grown
    <2>2. Len(s.tok[3]) = 4
      <3>1. Grown(s, 3, s.tok[3])
        BY <1>3, <2>1, StagedFounded
      <3> QED BY <3>1 DEF Grown
    <2> DEFINE t == Absorb(s.tok[15], v)
    <2>3. Extends(t, s.tok[15]) /\ Len(t) = Len(s.tok[15]) + 1
      BY <1>1, <1>2
    <2> HIDE DEF t
    <2>4. Len(s.tok[15]) = 4
      BY <2>1, <2>2, Zenon
    <2>5. Len(t) = 5
      BY <2>3, <2>4
    <2>6. Grown(s, 16, t)
      <3>1. s.tok[16 - 1] = s.tok[15]
        OBVIOUS
      <3>2. s.tok[16 - 1] # NoToken /\ Extends(t, s.tok[16 - 1])
        BY <1>3, <2>3, <3>1
      <3> QED BY <2>5, <3>2 DEF Grown
    <2>7. Backed(s, 16, t, H, u)
      BY DEF Backed
    <2> QED BY <2>6, <2>7 DEF t, Founded
  <1>4. ASSUME s.tok[16] # NoToken
        PROVE  Founded(s, 17, Absorb(s.tok[16], v), H, u)
    <2>1. Len(s.tok[16]) = 5
      <3>1. Grown(s, 16, s.tok[16])
        BY <1>4, StagedFounded
      <3> QED BY <3>1 DEF Grown
    <2> DEFINE t == Absorb(s.tok[16], v)
    <2>2. Extends(t, s.tok[16]) /\ Len(t) = Len(s.tok[16]) + 1
      BY <1>1, <1>2
    <2> HIDE DEF t
    <2>3. Len(t) = 6
      BY <2>1, <2>2
    <2>4. Grown(s, 17, t)
      <3>1. s.tok[17 - 1] = s.tok[16]
        OBVIOUS
      <3>2. s.tok[17 - 1] # NoToken /\ Extends(t, s.tok[17 - 1])
        BY <1>4, <2>2, <3>1
      <3> QED BY <2>3, <3>2 DEF Grown
    <2>5. Backed(s, 17, t, H, u)
      BY DEF Backed
    <2> QED BY <2>4, <2>5 DEF t, Founded
  <1>5. ASSUME s.tok[17] # NoToken
        PROVE  Founded(s, 18, s.tok[17], H, u)
    <2>1. Len(s.tok[17]) = 6
      <3>1. Grown(s, 17, s.tok[17])
        BY <1>5, StagedFounded
      <3> QED BY <3>1 DEF Grown
    <2>2. Extends(s.tok[17], s.tok[17])
      BY <1>1, <1>2
    <2> QED BY SMTT(20), <1>5, <2>1, <2>2 DEF Founded, Grown, Backed
  <1> QED BY <1>1, <1>2, <1>3, <1>4, <1>5

-----------------------------------------------------------------------------
(* The places of the planning stages. *)
LEMMA PlanPlaces ==
  /\ Index["map"] = 1 /\ Index["snapshot"] = 2
  /\ Index["port_snapshot"] = 3 /\ Index["port_policy"] = 4
  /\ Index["read_plan"] = 5 /\ Index["command_plan"] = 6
  /\ Index["memory_plan"] = 7 /\ Index["table_plan"] = 8
  /\ Index["issue_plan"] = 9 /\ Index["bind_plan"] = 10
  /\ Index["patch_plan"] = 11 /\ Index["publish_plan"] = 12
  /\ Index["publish_gate"] = 13 /\ Index["publish_window"] = 14
  /\ Index["publish_revoke_plan"] = 15 /\ Index["publish_open_attempt"] = 16
  /\ Index["publish_session"] = 17 /\ Index["publish_drain"] = 18
  /\ Index["publish_handoff"] = 19
  BY ChainPlaces, Zenon

(* What a planning call that takes over a token can leave behind: the state *)
(* it was called in, the stage reset, the stage minted.                     *)
LEMMA PlanCases ==
  ASSUME NEW s, Rooted(s, hw, used), NEW n \in 4 .. 15,
         NEW x, Index[x] = n, NEW y, Index[y] = n - 1
  PROVE  /\ Keeps(s, s) /\ Keeps(s, Reset(s, x))
         /\ Keeps(s, Mint(Reset(s, x), x, Tok(s, y)))
  <1>1. n \in 1 .. Last /\ n # 98
    BY LastPlace
  <1>2. Keeps(s, s)
    BY DEF Keeps
  <1>3. Keeps(s, Reset(s, x))
    BY <1>1, ResetKeeps
  <1>4. /\ Tok(s, y) \in Tokens
        /\ Tok(s, y) # NoToken => Founded(s, n, Tok(s, y), hw, used)
    BY PlanFounded DEF Tok
  <1>5. Keeps(s, Mint(Reset(s, x), x, Tok(s, y)))
    BY <1>1, <1>4, StagedKeeps
  <1> QED BY <1>2, <1>3, <1>5

(* The planning stages that take over the token before them. *)
LEMMA CopiesKeep ==
  ASSUME NEW s, Rooted(s, hw, used), NEW a
  PROVE  /\ Keeps(s, classify_ahci_port(s, a))
         /\ Keeps(s, stage_ahci_read_plan(s, a))
         /\ Keeps(s, stage_ahci_command_plan(s, a))
         /\ Keeps(s, stage_ahci_memory_plan(s, a))
         /\ Keeps(s, preflight_ahci_command_issue(s, a))
         /\ Keeps(s, stage_ahci_address_bind_plan(s, a))
         /\ Keeps(s, stage_ahci_controller_publish_plan(s, a))
         /\ Keeps(s, gate_ahci_controller_publication(s, a))
         /\ Keeps(s, stage_ahci_publish_write_window_policy(s, a))
         /\ Keeps(s, stage_ahci_publish_revocation_plan(s, a))
  <1>1. Keeps(s, classify_ahci_port(s, a))
    <2>1. Index["port_policy"] = 4 /\ Index["port_snapshot"] = 4 - 1 /\ 4 \in 4 .. 15
      BY PlanPlaces
    <2>2. /\ Keeps(s, s) /\ Keeps(s, Reset(s, "port_policy"))
          /\ Keeps(s, Mint(Reset(s, "port_policy"), "port_policy", Tok(s, "port_snapshot")))
      BY <2>1, PlanCases, Zenon
    <2> QED BY <2>2, Zenon DEF classify_ahci_port, Plan
  <1>2. Keeps(s, stage_ahci_read_plan(s, a))
    <2>1. Index["read_plan"] = 5 /\ Index["port_policy"] = 5 - 1 /\ 5 \in 4 .. 15
      BY PlanPlaces
    <2>2. /\ Keeps(s, s) /\ Keeps(s, Reset(s, "read_plan"))
          /\ Keeps(s, Mint(Reset(s, "read_plan"), "read_plan", Tok(s, "port_policy")))
      BY <2>1, PlanCases, Zenon
    <2> QED BY <2>2, Zenon DEF stage_ahci_read_plan, Plan
  <1>3. Keeps(s, stage_ahci_command_plan(s, a))
    <2>1. Index["command_plan"] = 6 /\ Index["read_plan"] = 6 - 1 /\ 6 \in 4 .. 15
      BY PlanPlaces
    <2>2. /\ Keeps(s, s) /\ Keeps(s, Reset(s, "command_plan"))
          /\ Keeps(s, Mint(Reset(s, "command_plan"), "command_plan", Tok(s, "read_plan")))
      BY <2>1, PlanCases, Zenon
    <2> QED BY <2>2, Zenon DEF stage_ahci_command_plan, Plan
  <1>4. Keeps(s, stage_ahci_memory_plan(s, a))
    <2>1. Index["memory_plan"] = 7 /\ Index["command_plan"] = 7 - 1 /\ 7 \in 4 .. 15
      BY PlanPlaces
    <2>2. /\ Keeps(s, s) /\ Keeps(s, Reset(s, "memory_plan"))
          /\ Keeps(s, Mint(Reset(s, "memory_plan"), "memory_plan", Tok(s, "command_plan")))
      BY <2>1, PlanCases, Zenon
    <2> QED BY <2>2, Zenon DEF stage_ahci_memory_plan, Plan
  <1>5. Keeps(s, preflight_ahci_command_issue(s, a))
    <2>1. Index["issue_plan"] = 9 /\ Index["table_plan"] = 9 - 1 /\ 9 \in 4 .. 15
      BY PlanPlaces
    <2>2. /\ Keeps(s, s) /\ Keeps(s, Reset(s, "issue_plan"))
          /\ Keeps(s, Mint(Reset(s, "issue_plan"), "issue_plan", Tok(s, "table_plan")))
      BY <2>1, PlanCases, Zenon
    <2> QED BY <2>2, Zenon DEF preflight_ahci_command_issue, Plan
  <1>6. Keeps(s, stage_ahci_address_bind_plan(s, a))
    <2>1. Index["bind_plan"] = 10 /\ Index["issue_plan"] = 10 - 1 /\ 10 \in 4 .. 15
      BY PlanPlaces
    <2>2. /\ Keeps(s, s) /\ Keeps(s, Reset(s, "bind_plan"))
          /\ Keeps(s, Mint(Reset(s, "bind_plan"), "bind_plan", Tok(s, "issue_plan")))
      BY <2>1, PlanCases, Zenon
    <2> QED BY <2>2, Zenon DEF stage_ahci_address_bind_plan, Plan
  <1>7. Keeps(s, stage_ahci_controller_publish_plan(s, a))
    <2>1. Index["publish_plan"] = 12 /\ Index["patch_plan"] = 12 - 1 /\ 12 \in 4 .. 15
      BY PlanPlaces
    <2>2. /\ Keeps(s, s) /\ Keeps(s, Reset(s, "publish_plan"))
          /\ Keeps(s, Mint(Reset(s, "publish_plan"), "publish_plan", Tok(s, "patch_plan")))
      BY <2>1, PlanCases, Zenon
    <2> QED BY <2>2, Zenon DEF stage_ahci_controller_publish_plan, Plan
  <1>8. Keeps(s, gate_ahci_controller_publication(s, a))
    <2>1. Index["publish_gate"] = 13 /\ Index["publish_plan"] = 13 - 1 /\ 13 \in 4 .. 15
      BY PlanPlaces
    <2>2. /\ Keeps(s, s) /\ Keeps(s, Reset(s, "publish_gate"))
          /\ Keeps(s, Mint(Reset(s, "publish_gate"), "publish_gate", Tok(s, "publish_plan")))
      BY <2>1, PlanCases, Zenon
    <2> QED BY <2>2, Zenon DEF gate_ahci_controller_publication, Plan
  <1>9. Keeps(s, stage_ahci_publish_write_window_policy(s, a))
    <2>1. Index["publish_window"] = 14 /\ Index["publish_gate"] = 14 - 1 /\ 14 \in 4 .. 15
      BY PlanPlaces
    <2>2. /\ Keeps(s, s) /\ Keeps(s, Reset(s, "publish_window"))
          /\ Keeps(s, Mint(Reset(s, "publish_window"), "publish_window", Tok(s, "publish_gate")))
      BY <2>1, PlanCases, Zenon
    <2> QED BY <2>2, Zenon DEF stage_ahci_publish_write_window_policy, Plan
  <1>10. Keeps(s, stage_ahci_publish_revocation_plan(s, a))
    <2>1. Index["publish_revoke_plan"] = 15 /\ Index["publish_window"] = 15 - 1 /\ 15 \in 4 .. 15
      BY PlanPlaces
    <2>2. /\ Keeps(s, s) /\ Keeps(s, Reset(s, "publish_revoke_plan"))
          /\ Keeps(s, Mint(Reset(s, "publish_revoke_plan"), "publish_revoke_plan", Tok(s, "publish_window")))
      BY <2>1, PlanCases, Zenon
    <2> QED BY <2>2, Zenon DEF stage_ahci_publish_revocation_plan, Plan
  <1> QED BY ZenonT(60), <1>1, <1>2, <1>3, <1>4, <1>5, <1>6, <1>7, <1>8, <1>9, <1>10

(* A plan that writes the command page before it is minted: what lay there  *)
(* is vouched for only by stages that are reset with it.                    *)
LEMMA PageKeeps ==
  ASSUME NEW s, Rooted(s, hw, used), NEW n \in 4 .. 15,
         NEW x, Index[x] = n, NEW y, Index[y] = n - 1, NEW p, PageSound(p)
  PROVE  Keeps(s, Mint(Reset([s EXCEPT !.page = p], x), x, Tok(s, y)))
  <1> DEFINE r == [s EXCEPT !.page = p]
             c == Reset(r, x)
  <1>1. n \in 1 .. Last /\ n # 98 /\ ~(n > 98) /\ ~(n > 102)
    BY LastPlace
  <1>2. /\ IsRecord(r) /\ r.tok = s.tok /\ r.issued = s.issued /\ r.page = p
        /\ s.tok \in Seq(Tokens) /\ Len(s.tok) = Last
    BY DEF Rooted, Shape, IsRecord, Fields
  <1> HIDE DEF r
  <1>3. Shape(r)
    BY <1>2 DEF Shape
  <1>4. Cut(r, c, n, NoToken) /\ c.issued = s.issued
    BY <1>1, <1>2, <1>3, ResetCuts
  <1> HIDE DEF c
  <1>5. Cut(s, c, n, NoToken)
    BY <1>1, <1>2, <1>4 DEF Cut
  <1>6. /\ Tok(s, y) \in Tokens
        /\ Tok(s, y) # NoToken => Founded(s, n, Tok(s, y), hw, used)
    BY PlanFounded DEF Tok
  <1>7. Keeps(s, Mint(c, x, Tok(s, y)))
    BY <1>1, <1>4, <1>5, <1>6, MintedKeeps
  <1> QED BY <1>7 DEF c, r

(* The stages that write the command page before they are minted. *)
LEMMA PagedKeep ==
  ASSUME NEW s, Rooted(s, hw, used), NEW a
  PROVE  /\ Keeps(s, prepare_ahci_command_table(s, a))
         /\ Keeps(s, apply_ahci_private_address_patch(s, a))
  <1>1. Keeps(s, prepare_ahci_command_table(s, a))
    <2> DEFINE p == [table |-> "prepared", bounce |-> "zero"]
    <2>1. Index["table_plan"] = 8 /\ Index["memory_plan"] = 8 - 1 /\ 8 \in 4 .. 15
      BY PlanPlaces
    <2>2. Keeps(s, s) /\ Keeps(s, Reset(s, "table_plan"))
      BY <2>1, PlanCases, Zenon
    <2>3. PageSound(p)
      BY DEF PageSound
    <2> HIDE DEF p
    <2>4. Keeps(s, Mint(Reset([s EXCEPT !.page = p], "table_plan"), "table_plan",
                        Tok(s, "memory_plan")))
      BY <2>1, <2>3, PageKeeps, Zenon
    <2> QED BY <2>2, <2>4, Zenon DEF prepare_ahci_command_table, Plan, p
  <1>2. Keeps(s, apply_ahci_private_address_patch(s, a))
    <2> DEFINE p == [table |-> "patched", bounce |-> "zero"]
    <2>1. Index["patch_plan"] = 11 /\ Index["bind_plan"] = 11 - 1 /\ 11 \in 4 .. 15
      BY PlanPlaces
    <2>2. Keeps(s, s) /\ Keeps(s, Reset(s, "patch_plan"))
      BY <2>1, PlanCases, Zenon
    <2>3. PageSound(p)
      BY DEF PageSound
    <2> HIDE DEF p
    <2>4. Keeps(s, Mint(Reset([s EXCEPT !.page = p], "patch_plan"), "patch_plan",
                        Tok(s, "bind_plan")))
      BY <2>1, <2>3, PageKeeps, Zenon
    <2> QED BY <2>2, <2>4, Zenon DEF apply_ahci_private_address_patch, Plan, p
  <1> QED BY <1>1, <1>2

-----------------------------------------------------------------------------
(* A planning call with a token of its own. *)
LEMMA PlanMints ==
  ASSUME NEW s, Rooted(s, hw, used), NEW n \in 1 .. 18, NEW x, Index[x] = n
  PROVE  /\ Keeps(s, s) /\ Keeps(s, Reset(s, x))
         /\ \A t \in Tokens : Founded(s, n, t, hw, used) =>
                                Keeps(s, Mint(Reset(s, x), x, t))
  <1>1. n \in 1 .. Last /\ n # 98
    BY LastPlace
  <1>2. Keeps(s, s)
    BY DEF Keeps
  <1>3. Keeps(s, Reset(s, x))
    BY <1>1, ResetKeeps
  <1>4. ASSUME NEW t \in Tokens, Founded(s, n, t, hw, used)
        PROVE  Keeps(s, Mint(Reset(s, x), x, t))
    BY <1>1, <1>4, StagedKeeps
  <1> QED BY <1>2, <1>3, <1>4

(* Registering a controller and mapping it. *)
LEMMA MappingKeeps ==
  ASSUME NEW s, Rooted(s, hw, used), NEW a, NEW ok
  PROVE  /\ Keeps(s, register_ahci_candidate(s, ok))
         /\ Keeps(s, request_ahci_mapping(s, a, ok))
  <1>1. Index["map"] = 1 /\ 1 \in 1 .. 18
    BY PlanPlaces
  <1>2. Keeps(s, s) /\ Keeps(s, Reset(s, "map"))
    BY <1>1, PlanMints, Zenon
  <1>3. Keeps(s, Mint(Reset(s, "map"), "map", Started))
    BY <1>1, PlanMints, FirstFounded, StartedToken, Zenon
  <1>4. Keeps(s, register_ahci_candidate(s, ok))
    <2> DEFINE c == Reset(s, "map")
               r == [c EXCEPT !.candidate = ok]
    <2>1. Rooted(c, hw, used) /\ c.issued = s.issued
      BY <1>2 DEF Keeps
    <2>2. IsRecord(c)
      BY <2>1 DEF Rooted, Shape
    <2> HIDE DEF c
    <2>3. /\ r.tok = c.tok /\ r.buf = c.buf /\ r.ls = c.ls /\ r.issued = c.issued
          /\ r.page = c.page
      BY <2>2 DEF IsRecord, Fields
    <2>4. IsRecord(r)
      BY <2>2 DEF IsRecord, Fields
    <2>5. Rooted(r, hw, used)
      <3> HIDE DEF r
      <3> QED BY <2>1, <2>3, <2>4, SameKeeps
    <2> QED BY <2>1, <2>3, <2>5 DEF Keeps, register_ahci_candidate, c
  <1> QED BY <1>2, <1>3, <1>4, Zenon DEF request_ahci_mapping, Plan

(* A new register snapshot leaves the later stages in place: it mints the   *)
(* token that the stage already had, or one that no later stage uses.       *)
LEMMA SnapshotKeeps ==
  ASSUME NEW s, Rooted(s, hw, used), NEW a
  PROVE  Keeps(s, snapshot_ahci_registers(s, a))
  <1>1. CASE ~(authorize(a) /\ Has(s, "map"))
    BY <1>1 DEF snapshot_ahci_registers, Keeps
  <1>2. CASE authorize(a) /\ Has(s, "map")
    <2> DEFINE r == Mint(s, "snapshot", Started)
    <2>1. Index["map"] = 1 /\ Index["snapshot"] = 2
      BY PlanPlaces
    <2>2. IsRecord(s) /\ s.tok \in Seq(Tokens) /\ Len(s.tok) = Last
      BY DEF Rooted, Shape
    <2>3. s.tok[1] # NoToken /\ Founded(s, 2, Started, hw, used) /\ Started \in Tokens
      BY <1>2, <2>1, FirstFounded, StartedToken DEF Has, Tok
    <2>4. /\ r.tok = [s.tok EXCEPT ![2] = Started] /\ r.issued = s.issued
          /\ r.buf = s.buf /\ r.ls = s.ls /\ r.page = s.page /\ PageSound(s.page)
      BY <2>1, <2>2 DEF Mint, IsRecord, Fields, Rooted, Shape
    <2>5. IsRecord(r)
      BY <2>1, <2>2 DEF Mint, IsRecord, Fields
    <2> HIDE DEF r
    <2>6. Last \in Nat /\ 2 \in 1 .. Last /\ 1 \in 1 .. Last
      BY LastPlace
    <2>7. r.tok \in Seq(Tokens) /\ Len(r.tok) = Last
      BY SMTT(20), <2>2, <2>3, <2>4, <2>6
    <2>8. r.tok[2] = Started /\ \A i \in 1 .. Last : i # 2 => r.tok[i] = s.tok[i]
      BY SMTT(20), <2>2, <2>4, <2>6
    <2>9. ASSUME NEW i \in 1 .. Last, r.tok[i] # NoToken
          PROVE  Founded(r, i, r.tok[i], hw, used)
      <3>1. CASE i = 2
        BY SMTT(20), <2>3, <2>6, <2>8, <3>1 DEF Founded, Grown, Backed
      <3>2. CASE i # 2
        <4>1. r.tok[i] = s.tok[i] /\ Founded(s, i, s.tok[i], hw, used)
          BY <2>8, <2>9, <3>2 DEF Rooted
        <4>2. i = 3 => s.tok[2] = r.tok[2]
          <5>1. i = 3 => s.tok[2] # NoToken
            BY <4>1 DEF Founded, Grown
          <5> QED BY <2>8, <5>1, FirstFounded
        <4>3. i > 1 => r.tok[i - 1] = s.tok[i - 1]
          BY SMTT(20), <2>6, <2>8, <4>2
        <4>4. i \in 4 .. 15 => r.tok[3] = s.tok[3]
          BY SMTT(20), <2>8, LastPlace
        <4>5. i = 96 => r.tok[7] = s.tok[7]
          BY SMTT(20), <2>8, LastPlace
        <4>6. Grown(r, i, r.tok[i])
          BY <4>1, <4>3, <4>4 DEF Founded, Grown
        <4>7. Backed(r, i, r.tok[i], hw, used)
          BY <2>4, <4>1, <4>5 DEF Founded, Backed
        <4> QED BY <4>6, <4>7 DEF Founded
      <3> QED BY <3>1, <3>2
    <2>10. Rooted(r, hw, used)
      BY <2>4, <2>5, <2>7, <2>9 DEF Rooted, Shape
    <2> QED BY <1>2, <2>4, <2>10 DEF snapshot_ahci_registers, Keeps, r
  <1> QED BY <1>1, <1>2

(* The stages that absorb something new: what the port snapshot saw, and    *)
(* how many handles are live when the window and the session are asked for. *)
LEMMA AbsorbersKeep ==
  ASSUME NEW s, Rooted(s, hw, used), NEW a, dev \in Cablings, IsFiniteSet(hw), NEW idle
  PROVE  /\ Keeps(s, snapshot_ahci_ports(s, a, idle))
         /\ Keeps(s, try_open_ahci_publish_write_window(s, a))
         /\ Keeps(s, request_ahci_publish_exclusive_session(s, a))
         /\ Keeps(s, execute_ahci_publish_capability_drain(s, a))
  <1>0. Live \in Nat
    BY LiveCounts
  <1>1. Keeps(s, snapshot_ahci_ports(s, a, idle))
    <2> DEFINE t == Absorb(Seen(Started), Flag(idle))
    <2>1. Index["port_snapshot"] = 3 /\ 3 \in 1 .. 18 /\ Index["snapshot"] = 2
      BY PlanPlaces
    <2>2. Has(s, "snapshot") => t \in Tokens /\ Founded(s, 3, t, hw, used)
      BY <2>1, SnapshotFounded DEF Has, Tok
    <2> HIDE DEF t
    <2>3. /\ Keeps(s, s) /\ Keeps(s, Reset(s, "port_snapshot"))
          /\ Has(s, "snapshot") =>
               Keeps(s, Mint(Reset(s, "port_snapshot"), "port_snapshot", t))
      BY <2>1, <2>2, PlanMints, Zenon
    <2> QED BY <2>3, Zenon DEF snapshot_ahci_ports, snapshot_ready, Plan, t
  <1>2. Keeps(s, try_open_ahci_publish_write_window(s, a))
    <2> DEFINE t == Absorb(Tok(s, "publish_revoke_plan"), Live)
               x == "publish_open_attempt"
    <2>1. Index[x] = 16 /\ 16 \in 1 .. 18 /\ Index["publish_revoke_plan"] = 15
      BY PlanPlaces
    <2>2. publish_revoke_plan_ready(s) => t \in Tokens /\ Founded(s, 16, t, hw, used)
      BY <1>0, <2>1, CountFounded DEF publish_revoke_plan_ready, Linked, Has, Tok
    <2>3. /\ Keeps(s, s) /\ Keeps(s, Reset(s, x))
          /\ publish_revoke_plan_ready(s) => Keeps(s, Mint(Reset(s, x), x, t))
      <3> HIDE DEF t, x
      <3> QED BY <2>1, <2>2, PlanMints, Zenon
    <2> QED BY <2>3, Zenon DEF try_open_ahci_publish_write_window, Plan
  <1>3. Keeps(s, request_ahci_publish_exclusive_session(s, a))
    <2> DEFINE t == Absorb(Tok(s, "publish_open_attempt"), Live)
               x == "publish_session"
    <2>1. Index[x] = 17 /\ 17 \in 1 .. 18 /\ Index["publish_open_attempt"] = 16
      BY PlanPlaces
    <2>2. publish_open_attempt_ready(s) => t \in Tokens /\ Founded(s, 17, t, hw, used)
      BY <1>0, <2>1, CountFounded DEF publish_open_attempt_ready, Linked, Has, Tok
    <2>3. /\ Keeps(s, s) /\ Keeps(s, Reset(s, x))
          /\ publish_open_attempt_ready(s) => Keeps(s, Mint(Reset(s, x), x, t))
      <3> HIDE DEF t, x
      <3> QED BY <2>1, <2>2, PlanMints, Zenon
    <2> QED BY <2>3, Zenon DEF request_ahci_publish_exclusive_session, Plan
  <1>4. Keeps(s, execute_ahci_publish_capability_drain(s, a))
    <2> DEFINE t == Tok(s, "publish_session")
               x == "publish_drain"
    <2>1. Index[x] = 18 /\ 18 \in 1 .. 18 /\ Index["publish_session"] = 17
      BY PlanPlaces
    <2>2. publish_session_ready(s) => t \in Tokens /\ Founded(s, 18, t, hw, used)
      BY <1>0, <2>1, CountFounded DEF publish_session_ready, Linked, Has, Tok
    <2>3. /\ Keeps(s, s) /\ Keeps(s, Reset(s, x))
          /\ publish_session_ready(s) => Keeps(s, Mint(Reset(s, x), x, t))
      <3> HIDE DEF t, x
      <3> QED BY <2>1, <2>2, PlanMints, Zenon
    <2> QED BY <2>3, Zenon DEF execute_ahci_publish_capability_drain, Plan
  <1> QED BY <1>1, <1>2, <1>3, <1>4

(* Ending handles disturbs nothing. *)
LEMMA ShrinkKeeps ==
  ASSUME NEW s, NEW H, NEW u, Rooted(s, H, u), NEW G \in SUBSET H
  PROVE  Rooted(s, G, u)
  <1>1. ASSUME s.tok[19] # NoToken
        PROVE  Bound(s.tok[19], G, u)
    <2>1. Backed(s, 19, s.tok[19], H, u)
      BY SMTT(20), <1>1, StagedFounded
    <2> QED BY <2>1 DEF Backed, Bound
  <1> QED BY <1>1, HandlesKeep

(* The hand-off: no handle is live, and the one granted is the newest. *)
LEMMA HandoffKeeps ==
  ASSUME NEW s, Rooted(s, hw, used), NEW a, NEW d, IsFiniteSet(hw), used \in Nat,
         HandoffAllowed(s, a, d),
         NEW G, G = hw \cup {[id |-> used + 1, owner |-> Driver, rights |-> "query"]}
  PROVE  Rooted(stage_ahci_publish_driver_handoff(s, a, d), G, used + 1)
  <1> DEFINE x == "publish_handoff"
             b == Tok(s, "publish_drain")
             t == Absorb(b, used + 1)
             c == Reset(s, x)
             r == Mint(c, x, t)
  <1>1. Index[x] = 19 /\ 19 \in 1 .. Last /\ 18 \in 1 .. Last
    BY PlanPlaces, LastPlace
  <1>2. b = s.tok[18] /\ b # NoToken
    BY PlanPlaces DEF HandoffAllowed, publish_drain_ready, Ready, Has, Tok
  <1>3. b \in Tokens
    BY <1>1, <1>2, TokensAre
  <1>4. hw = {}
    BY LiveCounts DEF HandoffAllowed
  <1>5. Cut(s, c, 19, NoToken)
    BY <1>1, ResetCuts DEF Rooted
  <1>6. /\ t \in Tokens /\ Extends(t, b) /\ Len(t) = Len(b) + 1
        /\ t[Len(b) + 1] = used + 1
    <2>1. b \in Seq(Nat) /\ used + 1 \in Nat
      BY <1>3 DEF Tokens
    <2> HIDE DEF b
    <2> QED BY <2>1, Prefixes, Zenon DEF Tokens
  <1>7. Len(b) = 6
    <2>1. Grown(s, 18, s.tok[18])
      BY <1>2, StagedFounded
    <2> QED BY <1>2, <2>1 DEF Grown
  <1> HIDE DEF b, t, c, x
  <1>8. Cut(s, r, 19, t)
    BY <1>1, <1>5, <1>6, MintCuts
  <1>9. Bound(t, G, used + 1)
    <2>1. Len(t) = 7 /\ t[7] = used + 1
      BY <1>6, <1>7
    <2>2. \A h \in G : h.id = used + 1
      BY <1>4
    <2> QED BY <2>1, <2>2 DEF Bound
  <1> HIDE DEF r
  <1>10. Founded(r, 19, t, G, used + 1)
    <2>1. r.tok[18] = s.tok[18]
      BY SMTT(20), <1>1, <1>8 DEF Cut
    <2>2. r.tok[19 - 1] # NoToken /\ Extends(t, r.tok[19 - 1])
      BY <1>2, <1>6, <2>1
    <2> QED BY SMTT(20), <1>9, <2>2 DEF Founded, Grown, Backed
  <1>11. Rooted(r, G, used + 1)
    BY SMTT(20), <1>1, <1>8, <1>10, CutKeeps
  <1>12. stage_ahci_publish_driver_handoff(s, a, d) = r
    BY Zenon DEF stage_ahci_publish_driver_handoff, HandoffAllowed, r, c, t, b, x
  <1> QED BY <1>11, <1>12

-----------------------------------------------------------------------------
(* What a driver's stage can leave behind. *)
LEMMA StageMints ==
  ASSUME NEW s, Rooted(s, hw, used), NEW n \in 19 .. 103, n # 98, NEW x, Index[x] = n
  PROVE  /\ Keeps(s, s) /\ Keeps(s, Reset(s, x))
         /\ \A t \in Tokens : Founded(s, n, t, hw, used) =>
                                Keeps(s, Mint(Reset(s, x), x, t))
  <1>1. n \in 1 .. Last
    BY LastPlace
  <1>2. Keeps(s, s)
    BY DEF Keeps
  <1>3. Keeps(s, Reset(s, x))
    BY <1>1, ResetKeeps
  <1>4. ASSUME NEW t \in Tokens, Founded(s, n, t, hw, used)
        PROVE  Keeps(s, Mint(Reset(s, x), x, t))
    BY <1>1, <1>4, StagedKeeps, ZenonT(60)
  <1> QED BY <1>2, <1>3, <1>4

(* One that takes over the token before it. *)
LEMMA StageCopies ==
  ASSUME NEW s, Rooted(s, hw, used), NEW n \in 20 .. 102, n # 98, NEW x, Index[x] = n,
         n = 96 => Kind(s.tok[7]) = Atapi, NEW t, t = s.tok[n - 1]
  PROVE  /\ Keeps(s, s) /\ Keeps(s, Reset(s, x))
         /\ Keeps(s, Mint(Reset(s, x), x, t))
  <1>1. n \in 1 .. Last
    BY LastPlace
  <1>2. t \in Tokens /\ (t # NoToken => Founded(s, n, t, hw, used))
    BY CopyFounded
  <1>3. Keeps(s, Mint(Reset(s, x), x, t))
    BY <1>1, <1>2, StagedKeeps
  <1> QED BY SMTT(20), <1>3, StageMints

(* Every stage of the ladder is one of them. *)
LEMMA LadderStage ==
  ASSUME NEW s, Rooted(s, hw, used), NEW x \in LadderStages, NEW ready, NEW a
  PROVE  Keeps(s, Stage(s, x, ready, a))
  <1> DEFINE n == Index[x]
  <1>1. n \in 21 .. 94
    BY ChainPlaces
  <1> HIDE DEF n
  <1>2. n \in 2 .. Last /\ n \in 20 .. 102 /\ n # 98 /\ n # 96 /\ Index[x] = n
    BY <1>1, LastPlace DEF n
  <1>3. Tok(s, Before(x)) = s.tok[n - 1]
    BY <1>2, TokBefore
  <1>4. /\ Keeps(s, s) /\ Keeps(s, Reset(s, x))
        /\ Keeps(s, Mint(Reset(s, x), x, Tok(s, Before(x))))
    BY <1>2, <1>3, StageCopies
  <1> QED BY <1>4, Zenon DEF Stage, StageIf

(* The 63 calls that only take the token on. *)
LEMMA LadderKeeps ==
  ASSUME NEW s, Rooted(s, hw, used), NEW a
  PROVE  /\ Keeps(s, driver_read_intent(s, a))
         /\ Keeps(s, driver_read_buffer(s, a))
         /\ Keeps(s, driver_read_gate(s, a))
         /\ Keeps(s, driver_read_execute(s, a))
         /\ Keeps(s, driver_read_result(s, a))
         /\ Keeps(s, driver_block_publish(s, a))
         /\ Keeps(s, driver_read_grant(s, a))
         /\ Keeps(s, driver_media_read(s, a))
         /\ Keeps(s, driver_complete(s, a))
         /\ Keeps(s, driver_read_cap(s, a))
         /\ Keeps(s, driver_read_export(s, a))
         /\ Keeps(s, driver_read_response(s, a))
         /\ Keeps(s, driver_read_delivery(s, a))
         /\ Keeps(s, driver_read_visible(s, a))
         /\ Keeps(s, driver_read_commit(s, a))
         /\ Keeps(s, driver_read_audit(s, a))
         /\ Keeps(s, driver_read_upgrade(s, a))
         /\ Keeps(s, driver_read_activate(s, a))
         /\ Keeps(s, driver_read_arm(s, a))
         /\ Keeps(s, driver_read_submit(s, a))
         /\ Keeps(s, driver_read_observe(s, a))
         /\ Keeps(s, driver_read_retire(s, a))
         /\ Keeps(s, driver_read_permit(s, a))
         /\ Keeps(s, driver_read_window(s, a))
         /\ Keeps(s, driver_read_lease(s, a))
         /\ Keeps(s, driver_read_use(s, a))
         /\ Keeps(s, driver_read_report(s, a))
         /\ Keeps(s, driver_read_receipt(s, a))
         /\ Keeps(s, driver_read_ack(s, a))
         /\ Keeps(s, driver_read_close(s, a))
         /\ Keeps(s, driver_read_seal(s, a))
         /\ Keeps(s, driver_read_unseal(s, a))
         /\ Keeps(s, driver_read_discard(s, a))
         /\ Keeps(s, driver_read_finalize(s, a))
         /\ Keeps(s, driver_read_authorize(s, a))
         /\ Keeps(s, driver_read_dispatch(s, a))
         /\ Keeps(s, driver_read_queue(s, a))
         /\ Keeps(s, driver_read_worker(s, a))
         /\ Keeps(s, driver_read_schedule(s, a))
         /\ Keeps(s, driver_read_run(s, a))
         /\ Keeps(s, driver_read_body(s, a))
         /\ Keeps(s, driver_read_issue(s, a))
         /\ Keeps(s, driver_read_dma(s, a))
         /\ Keeps(s, driver_read_irq(s, a))
         /\ Keeps(s, driver_read_status(s, a))
         /\ Keeps(s, driver_read_status_result(s, a))
         /\ Keeps(s, driver_read_status_clear_result(s, a))
         /\ Keeps(s, driver_read_status_guard(s, a))
         /\ Keeps(s, driver_read_status_buffer(s, a))
         /\ Keeps(s, driver_read_status_export(s, a))
         /\ Keeps(s, driver_read_status_report(s, a))
         /\ Keeps(s, driver_read_status_receipt(s, a))
         /\ Keeps(s, driver_read_status_ack(s, a))
         /\ Keeps(s, driver_read_status_close(s, a))
         /\ Keeps(s, driver_read_status_seal(s, a))
         /\ Keeps(s, driver_read_status_unseal(s, a))
         /\ Keeps(s, driver_read_status_discard(s, a))
         /\ Keeps(s, driver_read_status_finalize(s, a))
         /\ Keeps(s, driver_read_status_authorize(s, a))
         /\ Keeps(s, driver_read_status_dispatch(s, a))
         /\ Keeps(s, driver_read_status_queue(s, a))
         /\ Keeps(s, driver_read_status_worker(s, a))
         /\ Keeps(s, driver_read_status_read_authority(s, a))
  <1>1. /\ Keeps(s, driver_read_intent(s, a))
        /\ Keeps(s, driver_read_buffer(s, a))
        /\ Keeps(s, driver_read_gate(s, a))
        /\ Keeps(s, driver_read_execute(s, a))
        /\ Keeps(s, driver_read_result(s, a))
        /\ Keeps(s, driver_block_publish(s, a))
        /\ Keeps(s, driver_read_grant(s, a))
        /\ Keeps(s, driver_media_read(s, a))
    <2>1. {"driver_intent", "driver_buffer", "driver_gate", "driver_exec",
           "driver_result", "driver_publish", "driver_read_grant",
           "driver_media_read"}
            \subseteq LadderStages
      BY SMTT(20) DEF LadderStages
    <2> QED BY <2>1, LadderStage
          DEF driver_read_intent, driver_read_buffer, driver_read_gate,
              driver_read_execute, driver_read_result, driver_block_publish,
              driver_read_grant, driver_media_read
  <1>2. /\ Keeps(s, driver_complete(s, a))
        /\ Keeps(s, driver_read_cap(s, a))
        /\ Keeps(s, driver_read_export(s, a))
        /\ Keeps(s, driver_read_response(s, a))
        /\ Keeps(s, driver_read_delivery(s, a))
        /\ Keeps(s, driver_read_visible(s, a))
        /\ Keeps(s, driver_read_commit(s, a))
        /\ Keeps(s, driver_read_audit(s, a))
    <2>1. {"driver_complete", "driver_read_cap", "driver_read_export",
           "driver_read_response", "driver_read_delivery",
           "driver_read_visible", "driver_read_commit", "driver_read_audit"}
            \subseteq LadderStages
      BY SMTT(20) DEF LadderStages
    <2> QED BY <2>1, LadderStage
          DEF driver_complete, driver_read_cap, driver_read_export,
              driver_read_response, driver_read_delivery, driver_read_visible,
              driver_read_commit, driver_read_audit
  <1>3. /\ Keeps(s, driver_read_upgrade(s, a))
        /\ Keeps(s, driver_read_activate(s, a))
        /\ Keeps(s, driver_read_arm(s, a))
        /\ Keeps(s, driver_read_submit(s, a))
        /\ Keeps(s, driver_read_observe(s, a))
        /\ Keeps(s, driver_read_retire(s, a))
        /\ Keeps(s, driver_read_permit(s, a))
        /\ Keeps(s, driver_read_window(s, a))
    <2>1. {"driver_read_upgrade", "driver_read_activate", "driver_read_arm",
           "driver_read_submit", "driver_read_observe", "driver_read_retire",
           "driver_read_permit", "driver_read_window"}
            \subseteq LadderStages
      BY SMTT(20) DEF LadderStages
    <2> QED BY <2>1, LadderStage
          DEF driver_read_upgrade, driver_read_activate, driver_read_arm,
              driver_read_submit, driver_read_observe, driver_read_retire,
              driver_read_permit, driver_read_window
  <1>4. /\ Keeps(s, driver_read_lease(s, a))
        /\ Keeps(s, driver_read_use(s, a))
        /\ Keeps(s, driver_read_report(s, a))
        /\ Keeps(s, driver_read_receipt(s, a))
        /\ Keeps(s, driver_read_ack(s, a))
        /\ Keeps(s, driver_read_close(s, a))
        /\ Keeps(s, driver_read_seal(s, a))
        /\ Keeps(s, driver_read_unseal(s, a))
    <2>1. {"driver_read_lease", "driver_read_use", "driver_read_report",
           "driver_read_receipt", "driver_read_ack", "driver_read_close",
           "driver_read_seal", "driver_read_unseal"}
            \subseteq LadderStages
      BY SMTT(20) DEF LadderStages
    <2> QED BY <2>1, LadderStage
          DEF driver_read_lease, driver_read_use, driver_read_report,
              driver_read_receipt, driver_read_ack, driver_read_close,
              driver_read_seal, driver_read_unseal
  <1>5. /\ Keeps(s, driver_read_discard(s, a))
        /\ Keeps(s, driver_read_finalize(s, a))
        /\ Keeps(s, driver_read_authorize(s, a))
        /\ Keeps(s, driver_read_dispatch(s, a))
        /\ Keeps(s, driver_read_queue(s, a))
        /\ Keeps(s, driver_read_worker(s, a))
        /\ Keeps(s, driver_read_schedule(s, a))
        /\ Keeps(s, driver_read_run(s, a))
    <2>1. {"driver_read_discard", "driver_read_finalize",
           "driver_read_authorize", "driver_read_dispatch",
           "driver_read_queue", "driver_read_worker", "driver_read_schedule",
           "driver_read_run"}
            \subseteq LadderStages
      BY SMTT(20) DEF LadderStages
    <2> QED BY <2>1, LadderStage
          DEF driver_read_discard, driver_read_finalize,
              driver_read_authorize, driver_read_dispatch, driver_read_queue,
              driver_read_worker, driver_read_schedule, driver_read_run
  <1>6. /\ Keeps(s, driver_read_body(s, a))
        /\ Keeps(s, driver_read_issue(s, a))
        /\ Keeps(s, driver_read_dma(s, a))
        /\ Keeps(s, driver_read_irq(s, a))
        /\ Keeps(s, driver_read_status(s, a))
        /\ Keeps(s, driver_read_status_result(s, a))
        /\ Keeps(s, driver_read_status_clear_result(s, a))
        /\ Keeps(s, driver_read_status_guard(s, a))
    <2>1. {"driver_read_body", "driver_read_issue", "driver_read_dma",
           "driver_read_irq", "driver_read_status", "status_result",
           "status_clear_result", "status_guard"}
            \subseteq LadderStages
      BY SMTT(20) DEF LadderStages
    <2> QED BY <2>1, LadderStage
          DEF driver_read_body, driver_read_issue, driver_read_dma,
              driver_read_irq, driver_read_status, driver_read_status_result,
              driver_read_status_clear_result, driver_read_status_guard
  <1>7. /\ Keeps(s, driver_read_status_buffer(s, a))
        /\ Keeps(s, driver_read_status_export(s, a))
        /\ Keeps(s, driver_read_status_report(s, a))
        /\ Keeps(s, driver_read_status_receipt(s, a))
        /\ Keeps(s, driver_read_status_ack(s, a))
        /\ Keeps(s, driver_read_status_close(s, a))
        /\ Keeps(s, driver_read_status_seal(s, a))
        /\ Keeps(s, driver_read_status_unseal(s, a))
    <2>1. {"status_buffer", "status_export", "status_report",
           "status_receipt", "status_ack", "status_close", "status_seal",
           "status_unseal"}
            \subseteq LadderStages
      BY SMTT(20) DEF LadderStages
    <2> QED BY <2>1, LadderStage
          DEF driver_read_status_buffer, driver_read_status_export,
              driver_read_status_report, driver_read_status_receipt,
              driver_read_status_ack, driver_read_status_close,
              driver_read_status_seal, driver_read_status_unseal
  <1>8. /\ Keeps(s, driver_read_status_discard(s, a))
        /\ Keeps(s, driver_read_status_finalize(s, a))
        /\ Keeps(s, driver_read_status_authorize(s, a))
        /\ Keeps(s, driver_read_status_dispatch(s, a))
        /\ Keeps(s, driver_read_status_queue(s, a))
        /\ Keeps(s, driver_read_status_worker(s, a))
        /\ Keeps(s, driver_read_status_read_authority(s, a))
    <2>1. {"status_discard", "status_finalize", "status_authorize",
           "status_dispatch", "status_queue", "status_worker",
           "status_read_authority"}
            \subseteq LadderStages
      BY SMTT(20) DEF LadderStages
    <2> QED BY <2>1, LadderStage
          DEF driver_read_status_discard, driver_read_status_finalize,
              driver_read_status_authorize, driver_read_status_dispatch,
              driver_read_status_queue, driver_read_status_worker,
              driver_read_status_read_authority
  <1> QED BY ZenonT(60), <1>1, <1>2, <1>3, <1>4, <1>5, <1>6, <1>7, <1>8

-----------------------------------------------------------------------------
(* The places of the stages that look at the hardware and at files. *)
LEMMA DriverPlaces ==
  /\ Index["publish_handoff"] = 19 /\ Index["driver_probe"] = 20
  /\ Index["status_result"] = 66 /\ Index["status_sample"] = 67
  /\ Index["status_clear"] = 68 /\ Index["status_clear_result"] = 69
  /\ Index["status_resample"] = 70 /\ Index["status_stable"] = 71
  /\ Index["status_read_authority"] = 87 /\ Index["status_descriptor"] = 88
  /\ Index["status_command_table"] = 89 /\ Index["status_command_issue"] = 90
  /\ Index["status_issue_grant"] = 91 /\ Index["status_arm"] = 92
  /\ Index["status_exec"] = 93 /\ Index["status_dma"] = 94
  /\ Index["status_mmio"] = 95 /\ Index["status_dma_window"] = 96
  /\ Index["status_read"] = 97 /\ Index["status_block"] = 98
  /\ Index["status_fs"] = 99 /\ Index["status_fs_user"] = 100
  /\ Index["status_fs_shell"] = 101 /\ Index["status_load"] = 102
  /\ Index["status_load_full"] = 103
  BY ChainPlaces, Zenon

(* The stages that look at the hardware and take over the token before them. *)
LEMMA CheckersKeep ==
  ASSUME NEW s, Rooted(s, hw, used), NEW a, NEW ok
  PROVE  /\ Keeps(s, driver_read_status_sample(s, a, ok))
         /\ Keeps(s, driver_read_status_clear(s, a, ok))
         /\ Keeps(s, driver_read_status_stable(s, a))
         /\ Keeps(s, driver_read_status_descriptor(s, a))
         /\ Keeps(s, driver_read_status_command_table(s, a))
         /\ Keeps(s, driver_read_status_command_issue(s, a))
         /\ Keeps(s, driver_read_status_issue_grant(s, a))
         /\ Keeps(s, driver_read_status_arm(s, a))
         /\ Keeps(s, driver_read_status_exec(s, a))
         /\ Keeps(s, driver_read_status_dma(s, a))
         /\ Keeps(s, driver_read_status_mmio(s, a, ok))
  <1>1. Keeps(s, driver_read_status_sample(s, a, ok))
    <2>1. Index["status_sample"] = 67 /\ Tok(s, "status_result") = s.tok[67 - 1]
      BY SMTT(20), DriverPlaces DEF Tok
    <2>2. /\ Keeps(s, s) /\ Keeps(s, Reset(s, "status_sample"))
          /\ Keeps(s, Mint(Reset(s, "status_sample"), "status_sample", Tok(s, "status_result")))
      BY SMTT(20), <2>1, StageCopies
    <2> QED BY <2>2, Zenon DEF driver_read_status_sample, StageIf
  <1>2. Keeps(s, driver_read_status_clear(s, a, ok))
    <2>1. Index["status_clear"] = 68 /\ Tok(s, "status_sample") = s.tok[68 - 1]
      BY SMTT(20), DriverPlaces DEF Tok
    <2>2. /\ Keeps(s, s) /\ Keeps(s, Reset(s, "status_clear"))
          /\ Keeps(s, Mint(Reset(s, "status_clear"), "status_clear", Tok(s, "status_sample")))
      BY SMTT(20), <2>1, StageCopies
    <2> QED BY <2>2, Zenon DEF driver_read_status_clear, StageIf
  <1>3. Keeps(s, driver_read_status_stable(s, a))
    <2>1. Index["status_stable"] = 71 /\ Tok(s, "status_resample") = s.tok[71 - 1]
      BY SMTT(20), DriverPlaces DEF Tok
    <2>2. /\ Keeps(s, s) /\ Keeps(s, Reset(s, "status_stable"))
          /\ Keeps(s, Mint(Reset(s, "status_stable"), "status_stable", Tok(s, "status_resample")))
      BY SMTT(20), <2>1, StageCopies
    <2> QED BY <2>2, Zenon DEF driver_read_status_stable, StageIf
  <1>4. Keeps(s, driver_read_status_descriptor(s, a))
    <2>1. Index["status_descriptor"] = 88 /\ Tok(s, "status_read_authority") = s.tok[88 - 1]
      BY SMTT(20), DriverPlaces DEF Tok
    <2>2. /\ Keeps(s, s) /\ Keeps(s, Reset(s, "status_descriptor"))
          /\ Keeps(s, Mint(Reset(s, "status_descriptor"), "status_descriptor", Tok(s, "status_read_authority")))
      BY SMTT(20), <2>1, StageCopies
    <2> QED BY <2>2, Zenon DEF driver_read_status_descriptor, StageIf
  <1>5. Keeps(s, driver_read_status_command_table(s, a))
    <2>1. Index["status_command_table"] = 89 /\ Tok(s, "status_descriptor") = s.tok[89 - 1]
      BY SMTT(20), DriverPlaces DEF Tok
    <2>2. /\ Keeps(s, s) /\ Keeps(s, Reset(s, "status_command_table"))
          /\ Keeps(s, Mint(Reset(s, "status_command_table"), "status_command_table", Tok(s, "status_descriptor")))
      BY SMTT(20), <2>1, StageCopies
    <2> QED BY <2>2, Zenon DEF driver_read_status_command_table, StageIf
  <1>6. Keeps(s, driver_read_status_command_issue(s, a))
    <2>1. Index["status_command_issue"] = 90 /\ Tok(s, "status_command_table") = s.tok[90 - 1]
      BY SMTT(20), DriverPlaces DEF Tok
    <2>2. /\ Keeps(s, s) /\ Keeps(s, Reset(s, "status_command_issue"))
          /\ Keeps(s, Mint(Reset(s, "status_command_issue"), "status_command_issue", Tok(s, "status_command_table")))
      BY SMTT(20), <2>1, StageCopies
    <2> QED BY <2>2, Zenon DEF driver_read_status_command_issue, StageIf
  <1>7. Keeps(s, driver_read_status_issue_grant(s, a))
    <2>1. Index["status_issue_grant"] = 91 /\ Tok(s, "status_command_issue") = s.tok[91 - 1]
      BY SMTT(20), DriverPlaces DEF Tok
    <2>2. /\ Keeps(s, s) /\ Keeps(s, Reset(s, "status_issue_grant"))
          /\ Keeps(s, Mint(Reset(s, "status_issue_grant"), "status_issue_grant", Tok(s, "status_command_issue")))
      BY SMTT(20), <2>1, StageCopies
    <2> QED BY <2>2, Zenon DEF driver_read_status_issue_grant, StageIf
  <1>8. Keeps(s, driver_read_status_arm(s, a))
    <2>1. Index["status_arm"] = 92 /\ Tok(s, "status_issue_grant") = s.tok[92 - 1]
      BY SMTT(20), DriverPlaces DEF Tok
    <2>2. /\ Keeps(s, s) /\ Keeps(s, Reset(s, "status_arm"))
          /\ Keeps(s, Mint(Reset(s, "status_arm"), "status_arm", Tok(s, "status_issue_grant")))
      BY SMTT(20), <2>1, StageCopies
    <2> QED BY <2>2, Zenon DEF driver_read_status_arm, StageIf
  <1>9. Keeps(s, driver_read_status_exec(s, a))
    <2>1. Index["status_exec"] = 93 /\ Tok(s, "status_arm") = s.tok[93 - 1]
      BY SMTT(20), DriverPlaces DEF Tok
    <2>2. /\ Keeps(s, s) /\ Keeps(s, Reset(s, "status_exec"))
          /\ Keeps(s, Mint(Reset(s, "status_exec"), "status_exec", Tok(s, "status_arm")))
      BY SMTT(20), <2>1, StageCopies
    <2> QED BY <2>2, Zenon DEF driver_read_status_exec, StageIf
  <1>10. Keeps(s, driver_read_status_dma(s, a))
    <2>1. Index["status_dma"] = 94 /\ Tok(s, "status_exec") = s.tok[94 - 1]
      BY SMTT(20), DriverPlaces DEF Tok
    <2>2. /\ Keeps(s, s) /\ Keeps(s, Reset(s, "status_dma"))
          /\ Keeps(s, Mint(Reset(s, "status_dma"), "status_dma", Tok(s, "status_exec")))
      BY SMTT(20), <2>1, StageCopies
    <2> QED BY <2>2, Zenon DEF driver_read_status_dma, StageIf
  <1>11. Keeps(s, driver_read_status_mmio(s, a, ok))
    <2>1. Index["status_mmio"] = 95 /\ Tok(s, "status_dma") = s.tok[95 - 1]
      BY SMTT(20), DriverPlaces DEF Tok
    <2>2. /\ Keeps(s, s) /\ Keeps(s, Reset(s, "status_mmio"))
          /\ Keeps(s, Mint(Reset(s, "status_mmio"), "status_mmio", Tok(s, "status_dma")))
      BY SMTT(20), <2>1, StageCopies
    <2> QED BY <2>2, Zenon DEF driver_read_status_mmio, StageIf
  <1> QED BY ZenonT(60), <1>1, <1>2, <1>3, <1>4, <1>5, <1>6, <1>7, <1>8, <1>9, <1>10, <1>11

(* The probe and the second sample, which absorb what they see. *)
LEMMA ProbersKeep ==
  ASSUME NEW s, Rooted(s, hw, used), NEW a, NEW ok, NEW same, dev \in Cablings
  PROVE  /\ Keeps(s, driver_read_probe(s, a, ok))
         /\ Keeps(s, driver_read_status_resample(s, a, ok, same))
  <1>1. Keeps(s, driver_read_probe(s, a, ok))
    <2> DEFINE x == "driver_probe"
               b == Tok(s, "publish_handoff")
               t == Seen(b)
    <2>1. Index[x] = 20 /\ b = s.tok[20 - 1] /\ 20 - 1 \in 1 .. Last
      BY DriverPlaces, LastPlace DEF Tok
    <2>2. b \in Tokens
      BY <2>1, TokensAre
    <2>3. t \in Tokens /\ Extends(t, s.tok[20 - 1])
      <3> HIDE DEF b
      <3> QED BY <2>1, <2>2, SeenExtends
    <2>4. b # NoToken => Founded(s, 20, t, hw, used)
      <3> HIDE DEF b, t
      <3> QED BY SMTT(20), <2>1, <2>3, StageFounded
    <2>5. publish_handoff_ready(s, a.token) => b # NoToken
      BY DEF publish_handoff_ready, Ready, Has
    <2>6. /\ Keeps(s, s) /\ Keeps(s, Reset(s, x))
          /\ b # NoToken => Keeps(s, Mint(Reset(s, x), x, t))
      <3> HIDE DEF b, t, x
      <3> QED BY <2>1, <2>3, <2>4, StageMints
    <2> QED BY <2>5, <2>6, Zenon DEF driver_read_probe, StageIf
  <1>2. Keeps(s, driver_read_status_resample(s, a, ok, same))
    <2> DEFINE x == "status_resample"
               b == Tok(s, "status_clear_result")
               t == Absorb(b, Flag(same))
    <2>1. Index[x] = 70 /\ b = s.tok[70 - 1] /\ 70 - 1 \in 1 .. Last
      BY DriverPlaces, LastPlace DEF Tok
    <2>2. b \in Tokens /\ Flag(same) \in Nat
      BY SMTT(20), <2>1, TokensAre DEF Flag
    <2>3. t \in Tokens /\ Extends(t, s.tok[70 - 1])
      <3> HIDE DEF b
      <3> QED BY <2>1, <2>2, Prefixes, ZenonT(60) DEF Tokens
    <2>4. b # NoToken => Founded(s, 70, t, hw, used)
      <3> HIDE DEF b, t
      <3> QED BY SMTT(20), <2>1, <2>3, StageFounded
    <2>5. driver_read_status_clear_result_ready(s, a.token) => b # NoToken
      BY DEF driver_read_status_clear_result_ready, Ready, Has
    <2>6. /\ Keeps(s, s) /\ Keeps(s, Reset(s, x))
          /\ b # NoToken => Keeps(s, Mint(Reset(s, x), x, t))
      <3> HIDE DEF b, t, x
      <3> QED BY SMTT(20), <2>1, <2>3, <2>4, StageMints
    <2> QED BY <2>5, <2>6, Zenon DEF driver_read_status_resample, StageIf
  <1> QED BY <1>1, <1>2

(* The window is bound to a plan for an ATAPI drive. *)
LEMMA WindowKeeps ==
  ASSUME NEW s, Rooted(s, hw, used), NEW a
  PROVE  Keeps(s, driver_read_status_dma_window(s, a))
  <1> DEFINE x == "status_dma_window"
             t == Tok(s, "status_mmio")
             r == [s EXCEPT !.stale = TRUE]
  <1>1. /\ Index[x] = 96 /\ t = s.tok[96 - 1]
        /\ Tok(s, "memory_plan") = s.tok[7]
    BY SMTT(20), DriverPlaces, PlanPlaces DEF Tok
  <1>2. IsRecord(s)
    BY DEF Rooted, Shape
  <1>3. /\ r.tok = s.tok /\ r.buf = s.buf /\ r.ls = s.ls
        /\ r.issued = s.issued /\ r.page = s.page
    BY <1>2 DEF IsRecord, Fields
  <1>4. IsRecord(r)
    BY <1>2, ZenonT(60) DEF IsRecord, Fields
  <1>5. Keeps(s, r)
    <2> HIDE DEF r
    <2> QED BY <1>3, <1>4, SameKeeps DEF Keeps
  <1>6. /\ Keeps(s, s) /\ Keeps(s, Reset(s, x))
        /\ Kind(Tok(s, "memory_plan")) = Atapi => Keeps(s, Mint(Reset(s, x), x, t))
    <2> HIDE DEF t, x
    <2>1. Keeps(s, s) /\ Keeps(s, Reset(s, x))
      BY SMTT(20), <1>1, StageMints
    <2> QED BY SMTT(20), <1>1, <2>1, StageCopies
  <1> QED BY <1>5, <1>6, Zenon DEF driver_read_status_dma_window, StageIf

-----------------------------------------------------------------------------
(* q is c but for what the invariant does not speak of. *)
Alike(c, q) ==
  /\ IsRecord(q) /\ q.tok = c.tok /\ q.buf = c.buf /\ (c.ls => q.ls)
  /\ PageSound(q.page) /\ Onward(c.page, q.page)

(* A stage that was reset and touched nothing else the invariant speaks of, *)
(* and the same stage minted after that.                                    *)
LEMMA TouchedKeeps ==
  ASSUME NEW s, Rooted(s, hw, used), NEW n \in 20 .. 103, n # 98, NEW x, Index[x] = n,
         NEW q, Alike(Reset(s, x), q)
  PROVE  /\ Rooted(q, hw, used) /\ Cut(s, q, n, NoToken)
         /\ \A t \in Tokens : (t # NoToken => Founded(s, n, t, hw, used)) =>
              /\ Rooted(Mint(q, x, t), hw, used) /\ Mint(q, x, t).issued = q.issued
              /\ Cut(s, Mint(q, x, t), n, t)
  <1> DEFINE c == Reset(s, x)
  <1>1. n \in 1 .. Last
    BY LastPlace
  <1>2. Cut(s, c, n, NoToken)
    BY <1>1, ResetCuts DEF Rooted
  <1> HIDE DEF c
  <1>3. Cut(s, q, n, NoToken)
    BY <1>2, ZenonT(60) DEF Cut, Alike, Shape, Onward, c
  <1>4. Rooted(q, hw, used)
    BY <1>1, <1>3, MintKeeps
  <1>5. ASSUME NEW t \in Tokens, t # NoToken => Founded(s, n, t, hw, used)
        PROVE  /\ Rooted(Mint(q, x, t), hw, used) /\ Mint(q, x, t).issued = q.issued
               /\ Cut(s, Mint(q, x, t), n, t)
    <2>1. Cut(s, Mint(q, x, t), n, t)
      BY <1>1, <1>3, MintCuts, ZenonT(60)
    <2>2. Mint(q, x, t).issued = q.issued
      BY <1>3 DEF Mint, Cut, Shape, IsRecord, Fields
    <2>3. Rooted(Mint(q, x, t), hw, used)
      BY <1>1, <1>5, <2>1, MintKeeps
    <2> QED BY <2>1, <2>2, <2>3
  <1> QED BY <1>3, <1>4, <1>5

(* The read.  Only one that is allowed issues a command. *)
LEMMA ReadKeeps ==
  ASSUME NEW s, Rooted(s, hw, used), ~s.issued, NEW a, NEW out \in ReadOutcomes
  PROVE  /\ Rooted(driver_read_status_read(s, a, out), hw, used)
         /\ driver_read_status_read(s, a, out).issued =>
              ReadAllowed(s, a) /\ ~Denied(s, "status_read", a)
  <1> DEFINE x == "status_read"
             t == Tok(s, "status_dma_window")
             c == Reset(s, x)
             w == Rearmed(s.page.table)
             p == [c EXCEPT !.page = [table |-> w, bounce |-> "zero"]]
             i == [p EXCEPT !.issued = TRUE]
             l == [i EXCEPT !.late = TRUE]
             g == [i EXCEPT !.page.bounce = Fetched(p.page.table)]
  <1>1. Index[x] = 97 /\ t = s.tok[97 - 1] /\ 97 \in 1 .. Last
    BY DriverPlaces, LastPlace DEF Tok
  <1>2. Rooted(c, hw, used) /\ c.issued = s.issued
    BY ZenonT(60), <1>1, ResetKeeps DEF Keeps
  <1>3. IsRecord(c) /\ c.page = s.page
    BY <1>2 DEF Rooted, Shape, Reset, IsRecord, Fields
  <1>4. Alike(c, p) /\ p.issued = c.issued /\ p.page = [table |-> w, bounce |-> "zero"]
    <2>1. Onward(s.page, [table |-> w, bounce |-> "zero"])
      BY DEF Onward, Rearmed
    <2>2. PageSound([table |-> w, bounce |-> "zero"])
      BY DEF PageSound
    <2> HIDE DEF c, w
    <2>3. /\ IsRecord(p) /\ p.tok = c.tok /\ p.buf = c.buf /\ p.ls = c.ls
          /\ p.issued = c.issued /\ p.page = [table |-> w, bounce |-> "zero"]
      BY <1>3 DEF IsRecord, Fields
    <2> HIDE DEF p
    <2> QED BY <1>3, <2>1, <2>2, <2>3 DEF Alike
  <1>5. Alike(p, i) /\ i.page = p.page
    <2> HIDE DEF p, w
    <2>1. /\ IsRecord(i) /\ i.tok = p.tok /\ i.buf = p.buf /\ i.ls = p.ls
          /\ i.page = p.page
      BY <1>4 DEF IsRecord, Fields, Alike
    <2> HIDE DEF i
    <2> QED BY <1>4, <2>1 DEF Alike, Onward
  <1>6. Alike(i, l)
    <2> HIDE DEF i
    <2>1. /\ IsRecord(l) /\ l.tok = i.tok /\ l.buf = i.buf /\ l.ls = i.ls
          /\ l.page = i.page
      BY <1>5 DEF IsRecord, Fields, Alike
    <2> HIDE DEF l
    <2> QED BY <1>5, <2>1 DEF Alike, Onward
  <1>14. Alike(i, g)
    <2> DEFINE z == Fetched(p.page.table)
    <2>1. i.page = [table |-> w, bounce |-> "zero"]
      BY <1>4, <1>5
    <2>2. z = "stray" => w = "rerouted"
      BY <1>4 DEF Fetched
    <2> HIDE DEF i, p, w, z
    <2>3. /\ IsRecord(g) /\ g.tok = i.tok /\ g.buf = i.buf /\ g.ls = i.ls
          /\ g.page = [i.page EXCEPT !.bounce = z]
      BY <1>5 DEF IsRecord, Fields, Alike, z
    <2>4. [i.page EXCEPT !.bounce = z] = [table |-> w, bounce |-> z]
      BY <2>1
    <2>5. g.page = [table |-> w, bounce |-> z]
      BY <2>3, <2>4
    <2> HIDE DEF g
    <2>6. PageSound(g.page) /\ Onward(i.page, g.page)
      BY <2>1, <2>2, <2>5 DEF PageSound, Onward
    <2> QED BY <2>3, <2>6 DEF Alike
  <1>7. Alike(c, i) /\ Alike(c, l) /\ Alike(c, g)
    <2> HIDE DEF c, p, i, l, g, w
    <2> QED BY <1>4, <1>5, <1>6, <1>14 DEF Alike, Onward
  <1>8. t \in Tokens /\ (t # NoToken => Founded(s, 97, t, hw, used))
    BY SMTT(20), <1>1, CopyFounded
  <1>9. /\ Rooted(p, hw, used) /\ Rooted(i, hw, used) /\ Rooted(l, hw, used)
        /\ Rooted(Mint(g, x, t), hw, used)
    <2> HIDE DEF p, i, l, g, t, x, w
    <2>1. ASSUME NEW q, Alike(c, q)
          PROVE  Rooted(q, hw, used) /\ Rooted(Mint(q, x, t), hw, used)
      BY SMTT(20), <1>1, <1>8, <2>1, TouchedKeeps DEF c
    <2> HIDE DEF c
    <2> QED BY <1>4, <1>7, <2>1
  <1>10. CASE Denied(s, x, a)
    BY <1>10 DEF driver_read_status_read
  <1>11. CASE ~Denied(s, x, a) /\ ~ReadAllowed(s, a)
    BY <1>2, <1>11 DEF driver_read_status_read
  <1>12. CASE ~Denied(s, x, a) /\ ReadAllowed(s, a)
    <2>1. driver_read_status_read(s, a, out) \in {p, i, l, Mint(g, x, t)}
      BY <1>12 DEF driver_read_status_read, ReadOutcomes
    <2> QED BY <1>9, <1>12, <2>1
  <1> QED BY <1>10, <1>11, <1>12

(* The block is minted only with the data a read left in the buffer. *)
LEMMA BlockKeeps ==
  ASSUME NEW s, Rooted(s, hw, used), NEW a
  PROVE  Keeps(s, driver_read_status_block(s, a))
  <1> DEFINE x == "status_block"
             t == Tok(s, "status_read")
             free == BlockSlots - s.blocks
             r == Reset(s, x)
             m == [r EXCEPT !.blocks = @ + Min({free, 2}), !.bcap = free > 0]
             c == [m EXCEPT !.buf = s.page.bounce]
  <1>1. Index[x] = 98 /\ t = s.tok[98 - 1] /\ 98 \in 1 .. Last /\ 97 \in 1 .. Last
    BY DriverPlaces, LastPlace DEF Tok
  <1>2. Cut(s, r, 98, NoToken) /\ r.issued = s.issued /\ IsRecord(r)
    BY SMTT(20), <1>1, ResetCuts DEF Rooted, Cut, Shape
  <1>0. r.page = s.page /\ PageSound(s.page)
    BY DEF Rooted, Shape, Reset, IsRecord, Fields
  <1>3. m.tok = r.tok /\ m.issued = r.issued /\ m.page = r.page /\ IsRecord(m)
    <2> HIDE DEF r, free
    <2> QED BY <1>2, ZenonT(60) DEF IsRecord, Fields
  <1>4. /\ c.tok = m.tok /\ c.issued = m.issued /\ c.page = m.page
        /\ c.buf = s.page.bounce /\ IsRecord(c)
    <2> HIDE DEF m
    <2> QED BY <1>3 DEF IsRecord, Fields
  <1>5. /\ m.tok = r.tok /\ m.issued = s.issued /\ m.page = s.page /\ IsRecord(m)
        /\ c.tok = r.tok /\ c.issued = s.issued /\ c.page = s.page /\ IsRecord(c)
    <2> HIDE DEF r, free, m, c
    <2> QED BY <1>0, <1>2, <1>3, <1>4
  <1>6. Cut(s, c, 98, NoToken) /\ Cut(s, m, 98, NoToken)
    <2> HIDE DEF r, c, m
    <2> QED BY SMTT(20), <1>0, <1>2, <1>5 DEF Cut, Shape
  <1>7. t \in Tokens
    BY SMTT(20), <1>1, TokensAre
  <1>8. Cut(s, Mint(c, x, t), 98, t)
    <2> HIDE DEF c, t, x
    <2> QED BY <1>1, <1>6, <1>7, MintCuts, ZenonT(60)
  <1>9. /\ Mint(c, x, t).issued = c.issued /\ Mint(c, x, t).buf = c.buf
        /\ Mint(c, x, t).page = c.page
    <2> HIDE DEF c, t, x
    <2> QED BY <1>5 DEF Mint, IsRecord, Fields
  <1>10. Keeps(s, s) /\ Keeps(s, r) /\ Keeps(s, c) /\ Keeps(s, m)
    <2>1. Keeps(s, r)
      BY <1>1, ResetKeeps
    <2>2. Rooted(c, hw, used) /\ Rooted(m, hw, used)
      <3> HIDE DEF c, m
      <3> QED BY SMTT(20), <1>1, <1>6, CutKeeps
    <2> QED BY <1>5, <2>1, <2>2 DEF Keeps
  <1>11. ASSUME t # NoToken, s.page.bounce \in Sealed
         PROVE  Keeps(s, Mint(c, x, t))
    <2>1. Fits(s.page.bounce, s.page)
      BY <1>0, <1>11 DEF PageSound, Fits, Sealed
    <2> DEFINE q == Mint(c, x, t)
    <2>2. Fits(q.buf, q.page) /\ q.issued = s.issued
      <3> HIDE DEF c, t, x
      <3> QED BY <1>4, <1>5, <1>9, <2>1
    <2> HIDE DEF q, t
    <2>3. Cut(s, q, 98, t)
      BY <1>8 DEF q
    <2>4. q.tok[98 - 1] # NoToken /\ Extends(t, q.tok[98 - 1])
      <3>1. q.tok[97] = s.tok[97]
        BY SMTT(20), <1>1, <2>3 DEF Cut
      <3>2. Extends(t, t)
        BY <1>7, Prefixes DEF Tokens
      <3> QED BY SMTT(20), <1>1, <1>11, <3>1, <3>2
    <2>5. Founded(q, 98, t, hw, used)
      BY SMTT(20), <2>2, <2>4 DEF Founded, Grown, Backed
    <2>6. Rooted(q, hw, used)
      BY SMTT(20), <1>1, <2>3, <2>5, CutKeeps
    <2> QED BY <2>2, <2>6 DEF Keeps, q
  <1>12. Ready(s, "status_read", a.token) => t # NoToken
    BY DEF Ready, Has
  <1>13. driver_read_status_block(s, a) =
           IF Denied(s, x, a) THEN s
           ELSE IF ~(Ready(s, "status_read", a.token) /\ BoundCap(s, a)) THEN r
           ELSE IF free > 2 /\ s.page.bounce \in Sealed THEN Mint(c, x, t)
           ELSE IF free < 2 THEN m ELSE c
    BY Zenon DEF driver_read_status_block
  <1> HIDE DEF x, t, free, r, m, c
  <1> QED BY <1>10, <1>11, <1>12, <1>13

-----------------------------------------------------------------------------
(* Reading sectors changes nothing the invariant speaks of. *)
LEMMA RouteAlike ==
  ASSUME NEW s, IsRecord(s), PageSound(s.page), NEW out
  PROVE  Alike(s, route_sectors(s, out))
  <1>1. CASE out = "unmapped"
    BY <1>1 DEF route_sectors, Alike, Onward
  <1>2. CASE out # "unmapped"
    <2> DEFINE b == IF out \in {"bad", "good"} THEN "file" ELSE "zero"
               p == [table |-> "rerouted", bounce |-> b]
               l == s.late \/ out = "timeout"
               r == [s EXCEPT !.page = p, !.late = l, !.issued = out # "busy"]
    <2>1. PageSound(p) /\ Onward(s.page, p)
      BY DEF PageSound, Onward
    <2>2. route_sectors(s, out) = r
      BY <1>2 DEF route_sectors, IsRecord, Fields
    <2> HIDE DEF b, p, l
    <2>3. IsRecord(r) /\ r.tok = s.tok /\ r.buf = s.buf /\ r.ls = s.ls /\ r.page = p
      BY ZenonT(60) DEF IsRecord, Fields
    <2> HIDE DEF r
    <2> QED BY <2>1, <2>2, <2>3 DEF Alike
  <1> QED BY <1>1, <1>2

(* The stages that read files: they read only if the stage before them is   *)
(* staged, and whatever they leave behind is the chain cut at their place.  *)
LEMMA FiledKeeps ==
  ASSUME NEW s, Rooted(s, hw, used), ~s.issued, NEW n \in 99 .. 103, NEW x, Index[x] = n,
         NEW ready, ready => n # 103 \/ s.ls, NEW out, NEW a
  PROVE  /\ Rooted(Filed(s, x, ready, out, a), hw, used)
         /\ Filed(s, x, ready, out, a).issued => s.tok[n - 1] # NoToken
         /\ Denied(s, x, a) \/ \E t \in Tokens : Cut(s, Filed(s, x, ready, out, a), n, t)
  <1> DEFINE t == Tok(s, Before(x))
             c == Reset(s, x)
             f == route_sectors(c, out)
             g == Ready(s, Before(x), a.token) /\ ready
  <1>1. n \in 20 .. 103 /\ n # 98 /\ n \in 1 .. Last /\ n \in 2 .. Last /\ n - 1 \in 1 .. Last
    BY LastPlace
  <1>2. Rooted(c, hw, used) /\ c.issued = s.issued
    BY <1>1, ResetKeeps DEF Keeps
  <1>3. Cut(s, c, n, NoToken)
    BY <1>1, ResetCuts DEF Rooted
  <1>4. IsRecord(c) /\ PageSound(c.page)
    BY <1>2 DEF Rooted, Shape
  <1>5. Alike(c, f)
    BY <1>4, RouteAlike
  <1>6. t = s.tok[n - 1]
    BY <1>1, TokBefore
  <1>7. t \in Tokens /\ NoToken \in Tokens
    BY <1>1, <1>6, TokensAre DEF NoToken, Tokens
  <1>8. g => t # NoToken
    BY DEF Ready, Has
  <1>9. ASSUME g
        PROVE  Founded(s, n, t, hw, used)
    <2>1. CASE n = 103
      BY <1>6, <1>8, <1>9, <2>1 DEF Founded, Grown, Backed
    <2>2. CASE n # 103
      <3>1. n \in 20 .. 102 /\ n # 98 /\ n # 96
        BY SMTT(20), <2>2
      <3> QED BY <1>6, <1>8, <1>9, <3>1, CopyFounded, ZenonT(60)
    <2> QED BY <2>1, <2>2
  <1> HIDE DEF t, f
  <1>10. /\ Rooted(f, hw, used) /\ Cut(s, f, n, NoToken)
         /\ g => Rooted(Mint(f, x, t), hw, used) /\ Cut(s, Mint(f, x, t), n, t)
    <2> HIDE DEF g
    <2> QED BY <1>1, <1>5, <1>7, <1>9, TouchedKeeps DEF c
  <1>11. Filed(s, x, ready, out, a) =
           IF Denied(s, x, a) THEN s
           ELSE IF ~g THEN c ELSE IF out = "good" THEN Mint(f, x, t) ELSE f
    BY Zenon DEF Filed, t, f
  <1> HIDE DEF c, g
  <1>12. CASE Denied(s, x, a)
    BY <1>11, <1>12
  <1>13. CASE ~Denied(s, x, a) /\ ~g
    BY <1>2, <1>3, <1>7, <1>11, <1>13
  <1>14. CASE ~Denied(s, x, a) /\ g
    <2>1. Filed(s, x, ready, out, a) \in {f, Mint(f, x, t)}
      BY <1>11, <1>14
    <2> QED BY ZenonT(60), <1>6, <1>7, <1>8, <1>10, <1>14, <2>1
  <1> QED BY <1>12, <1>13, <1>14

(* Taking the token of the last stage cut back. *)
LEMMA UnmintKeeps ==
  ASSUME NEW s, NEW f, Rooted(f, hw, used), NEW n \in 99 .. 103, NEW x, Index[x] = n,
         NEW t, Cut(s, f, n, t)
  PROVE  Rooted(Mint(f, x, NoToken), hw, used) /\ Mint(f, x, NoToken).issued = f.issued
  <1> DEFINE r == Mint(f, x, NoToken)
  <1>1. n \in 1 .. Last /\ n # 98 /\ Last \in Nat /\ NoToken \in Tokens
    BY LastPlace DEF NoToken, Tokens
  <1>2. /\ IsRecord(f) /\ f.tok \in Seq(Tokens) /\ Len(f.tok) = Last
        /\ PageSound(f.page)
    BY DEF Rooted, Shape
  <1>3. /\ r.tok = [f.tok EXCEPT ![n] = NoToken]
        /\ r.buf = f.buf /\ r.ls = f.ls /\ r.issued = f.issued /\ r.page = f.page
    BY <1>2 DEF Mint, IsRecord, Fields
  <1>4. IsRecord(r)
    BY <1>2, ZenonT(60) DEF Mint, IsRecord, Fields
  <1> HIDE DEF r
  <1>5. r.tok \in Seq(Tokens) /\ Len(r.tok) = Last
    BY SMTT(20), <1>1, <1>2, <1>3
  <1>6. r.tok[n] = NoToken /\ \A i \in 1 .. Last : i # n => r.tok[i] = f.tok[i]
    BY SMTT(20), <1>1, <1>2, <1>3
  <1>7. \A i \in 1 .. Last : i > n => f.tok[i] = NoToken
    BY DEF Cut
  <1>8. Cut(f, r, n, NoToken)
    BY <1>2, <1>3, <1>4, <1>5, <1>6, <1>7 DEF Cut, Shape, Onward
  <1>9. Rooted(r, hw, used)
    BY <1>1, <1>8, MintKeeps
  <1> QED BY <1>3, <1>9 DEF r

(* The five calls. *)
Reads(s, r) == Rooted(r, hw, used) /\ (r.issued => \E n \in 98 .. 102 : s.tok[n] # NoToken)

(* The five calls that read files, load programs and register them. *)
LEMMA FilesystemKeeps ==
  ASSUME NEW s, Rooted(s, hw, used), ~s.issued,
         NEW a, NEW ok, NEW out
  PROVE  /\ Reads(s, driver_read_status_fs(s, a, ok, out))
         /\ Reads(s, driver_read_status_fs_user(s, a, ok, out))
         /\ Reads(s, driver_read_status_fs_shell(s, a, out))
         /\ Reads(s, driver_read_status_load(s, a, ok, out))
         /\ Reads(s, driver_read_status_load_full(s, a, out))
  <1>1. Reads(s, driver_read_status_fs(s, a, ok, out))
    <2> DEFINE ready == ok /\ s.bcap
    <2>1. Index["status_fs"] = 99
      BY DriverPlaces
    <2> HIDE DEF ready
    <2>2. Reads(s, Filed(s, "status_fs", ready, out, a))
      BY SMTT(20), <2>1, FiledKeeps DEF Reads
    <2> QED BY <2>2 DEF driver_read_status_fs, ready
  <1>2. Reads(s, driver_read_status_fs_user(s, a, ok, out))
    <2> DEFINE f == Filed(s, "status_fs_user", ok, out, a)
               v == ok /\ Ready(s, "status_fs", a.token)
               r == [f EXCEPT !.fscap = v]
    <2>1. Index["status_fs_user"] = 100
      BY DriverPlaces
    <2>2. Reads(s, f)
      BY SMTT(20), <2>1, FiledKeeps DEF Reads
    <2> HIDE DEF f, v
    <2>3. IsRecord(f)
      BY <2>2 DEF Reads, Rooted, Shape
    <2>4. /\ r.tok = f.tok /\ r.buf = f.buf /\ r.ls = f.ls /\ r.issued = f.issued
          /\ r.page = f.page
      BY <2>3 DEF IsRecord, Fields
    <2>5. IsRecord(r)
      BY <2>3 DEF IsRecord, Fields
    <2> HIDE DEF r
    <2>6. Reads(s, r)
      BY <2>2, <2>4, <2>5, SameKeeps DEF Reads
    <2>7. Reads(s, s)
      BY DEF Reads
    <2> QED BY <2>6, <2>7 DEF driver_read_status_fs_user, r, f, v
  <1>3. Reads(s, driver_read_status_fs_shell(s, a, out))
    <2>1. Index["status_fs_shell"] = 101
      BY DriverPlaces
    <2>2. Reads(s, Filed(s, "status_fs_shell", s.fscap, out, a))
      BY SMTT(20), <2>1, FiledKeeps DEF Reads
    <2> QED BY <2>2 DEF driver_read_status_fs_shell, fs_user_read_allowed
  <1>4. Reads(s, driver_read_status_load(s, a, ok, out))
    <2> DEFINE x == "status_load"
               f == Filed(s, x, s.fscap, out, a)
    <2>1. Index[x] = 102 /\ 102 \in 99 .. 103
      BY DriverPlaces
    <2>0. s.fscap => 102 # 103 \/ s.ls
      OBVIOUS
    <2>2. Reads(s, f)
      BY SMTT(20), <2>1, FiledKeeps DEF Reads
    <2>3. Denied(s, x, a) \/ \E t \in Tokens : Cut(s, f, 102, t)
      <3> HIDE DEF x
      <3> QED BY SMTT(20), <2>1, <2>0, FiledKeeps
    <2>4. ASSUME ~Denied(s, x, a)
          PROVE  Reads(s, Mint(f, x, NoToken))
      <3> HIDE DEF f, x
      <3>1. PICK t \in Tokens : Cut(s, f, 102, t)
        BY <2>3, <2>4
      <3>2. /\ Rooted(Mint(f, x, NoToken), hw, used)
            /\ Mint(f, x, NoToken).issued = f.issued
        BY SMTT(20), <2>1, <2>2, <3>1, UnmintKeeps DEF Reads
      <3> QED BY <2>2, <3>2 DEF Reads
    <2> QED BY <2>2, <2>4, Zenon DEF driver_read_status_load, fs_user_read_allowed
  <1>5. Reads(s, driver_read_status_load_full(s, a, out))
    <2> DEFINE ready == s.ls /\ Has(s, "status_fs_shell")
    <2>1. Index["status_load_full"] = 103
      BY DriverPlaces
    <2>2. 103 \in 99 .. 103 /\ (ready => 103 # 103 \/ s.ls)
      BY DEF Has
    <2> HIDE DEF ready
    <2>3. /\ Rooted(Filed(s, "status_load_full", ready, out, a), hw, used)
          /\ Filed(s, "status_load_full", ready, out, a).issued => s.tok[103 - 1] # NoToken
      BY SMTT(20), <2>1, <2>2, FiledKeeps
    <2>4. Reads(s, Filed(s, "status_load_full", ready, out, a))
      BY <2>3 DEF Reads
    <2> QED BY <2>4 DEF driver_read_status_load_full, ready
  <1> QED BY <1>1, <1>2, <1>3, <1>4, <1>5

-----------------------------------------------------------------------------
(* Recording a launch mints load's token anew, from the token of the stage  *)
(* before it; the programs registered later stay.                           *)
LEMMA RecordKeeps ==
  ASSUME NEW s, Rooted(s, hw, used), NEW r \in Nat
  PROVE  Keeps(s, load_record_launch(s, r))
  <1> DEFINE l == [s EXCEPT !.ls = @ \/ r = LsResult]
             v == Absorb(s.tok[101], r)
             m == [l EXCEPT !.tok[102] = v]
  <1>1. Index["status_load"] = 102 /\ Index["status_fs_shell"] = 101
    BY DriverPlaces
  <1>2. /\ Tok(s, "status_fs_shell") = s.tok[101]
        /\ Has(s, "status_load") <=> s.tok[102] # NoToken
    BY ZenonT(60), <1>1 DEF Tok, Has
  <1>3. /\ IsRecord(s) /\ s.tok \in Seq(Tokens) /\ Len(s.tok) = Last /\ Last = 103
        /\ PageSound(s.page)
    BY LastPlace DEF Rooted, Shape
  <1>4. /\ IsRecord(l) /\ l.tok = s.tok /\ l.buf = s.buf /\ l.issued = s.issued
        /\ l.page = s.page /\ (s.ls => l.ls)
    BY <1>3, ZenonT(60) DEF IsRecord, Fields
  <1>5. /\ m.tok = [s.tok EXCEPT ![102] = v]
        /\ m.buf = s.buf /\ m.issued = s.issued /\ m.page = s.page /\ (s.ls => m.ls)
    <2> HIDE DEF l, v
    <2> QED BY <1>4 DEF IsRecord, Fields
  <1>6. IsRecord(m)
    <2> HIDE DEF l, v
    <2> QED BY <1>4 DEF IsRecord, Fields
  <1>7. s.tok[101] \in Seq(Nat)
    BY SMTT(20), <1>3 DEF Tokens
  <1>8. v \in Tokens /\ v # NoToken /\ Extends(v, s.tok[101])
    BY <1>7, Prefixes, ZenonT(60) DEF Tokens
  <1>9. ASSUME s.tok[102] # NoToken
        PROVE  Rooted(m, hw, used)
    <2> HIDE DEF l, v, m
    <2>1. m.tok \in Seq(Tokens) /\ Len(m.tok) = Last
      BY SMTT(20), <1>3, <1>5, <1>8
    <2>2. m.tok[102] = v /\ \A i \in 1 .. 103 : i # 102 => m.tok[i] = s.tok[i]
      <3> DEFINE n == 102
      <3>1. s.tok \in Seq(Tokens) /\ Len(s.tok) = Last /\ Last \in Nat /\ n \in 1 .. Last
        BY <1>3
      <3>2. m.tok = [s.tok EXCEPT ![n] = v]
        BY <1>5
      <3> HIDE DEF n
      <3>3. m.tok[n] = v /\ \A i \in 1 .. Last : i # n => m.tok[i] = s.tok[i]
        BY SMTT(20), <3>1, <3>2
      <3> QED BY <1>3, <3>3 DEF n
    <2>3. Grown(s, 102, s.tok[102])
      BY <1>9, StagedFounded
    <2>4. s.tok[102 - 1] # NoToken
      BY <2>3 DEF Grown
    <2>5. Founded(m, 102, v, hw, used)
      <3>1. m.tok[102 - 1] = s.tok[101]
        BY SMTT(20), <2>2
      <3>2. Grown(m, 102, v)
        BY SMTT(20), <1>8, <2>4, <3>1 DEF Grown
      <3>3. Backed(m, 102, v, hw, used)
        BY DEF Backed
      <3> QED BY <3>2, <3>3 DEF Founded
    <2>6. ASSUME NEW i \in 1 .. 103, i # 102, s.tok[i] # NoToken
          PROVE  Founded(m, i, s.tok[i], hw, used)
      <3>1. Grown(s, i, s.tok[i]) /\ Backed(s, i, s.tok[i], hw, used)
        BY <2>6, StagedFounded
      <3>2. \A j \in 1 .. 103 : m.tok[j] # s.tok[j] => j = 102 /\ m.tok[j] # NoToken
        BY <1>8, <2>2
      <3>3. Grown(m, i, s.tok[i])
        <4>1. CASE i = 103
          BY SMTT(20), <1>8, <2>2, <4>1 DEF Grown
        <4>2. CASE i # 103
          <5>1. i - 1 \in 1 .. 103 => m.tok[i - 1] = s.tok[i - 1]
            BY SMTT(20), <2>2, <2>6, <4>2
          <5>2. m.tok[3] = s.tok[3]
            BY SMTT(20), <2>2
          <5> QED BY SMTT(20), <2>6, <3>1, <4>2, <5>1, <5>2 DEF Grown
        <4> QED BY <4>1, <4>2
      <3>4. Backed(m, i, s.tok[i], hw, used)
        <4>1. m.tok[7] = s.tok[7]
          BY SMTT(20), <2>2
        <4> QED BY <1>5, <3>1, <4>1 DEF Backed
      <3> QED BY <3>3, <3>4 DEF Founded
    <2>7. ASSUME NEW i \in 1 .. Last, m.tok[i] # NoToken
          PROVE  Founded(m, i, m.tok[i], hw, used)
      <3>1. CASE i = 102
        BY <2>2, <2>5, <3>1
      <3>2. CASE i # 102
        <4>1. m.tok[i] = s.tok[i] /\ i \in 1 .. 103
          BY <1>3, <2>2, <3>2, ZenonT(60)
        <4> QED BY <2>6, <2>7, <3>2, <4>1
      <3> QED BY <3>1, <3>2
    <2> QED BY <1>3, <1>5, <1>6, <2>1, <2>7 DEF Rooted, Shape
  <1>10. load_record_launch(s, r) = IF s.tok[102] = NoToken THEN s ELSE m
    <2>1. Mint(l, "status_load", v) = m
      BY <1>1 DEF Mint
    <2> HIDE DEF m
    <2> QED BY <1>2, <2>1, Zenon DEF load_record_launch
  <1> HIDE DEF m
  <1> QED BY <1>5, <1>9, <1>10 DEF Keeps

(* A block handle closed, or a late transfer: no token is concerned. *)
LEMMA TouchesKeep ==
  ASSUME NEW s, Rooted(s, hw, used)
  PROVE  /\ Keeps(s, [s EXCEPT !.late = FALSE, !.page.bounce = "late"])
         /\ Keeps(s, [s EXCEPT !.bcap = FALSE, !.blocks = @ - 1])
  <1>0. IsRecord(s) /\ PageSound(s.page)
    BY DEF Rooted, Shape
  <1>1. ASSUME NEW p, PageSound(p), Onward(s.page, p)
        PROVE  Keeps(s, [s EXCEPT !.late = FALSE, !.page = p])
    <2> DEFINE r == [s EXCEPT !.late = FALSE, !.page = p]
    <2>1. /\ IsRecord(r) /\ r.tok = s.tok /\ r.buf = s.buf /\ r.ls = s.ls
          /\ r.issued = s.issued /\ r.page = p
      BY <1>0 DEF IsRecord, Fields
    <2> HIDE DEF r
    <2> QED BY <1>1, <2>1, SameKeeps DEF Keeps, r
  <1>2. ASSUME NEW p
        PROVE  Keeps(s, [s EXCEPT !.bcap = FALSE, !.blocks = p])
    <2> DEFINE r == [s EXCEPT !.bcap = FALSE, !.blocks = p]
    <2>1. /\ IsRecord(r) /\ r.tok = s.tok /\ r.buf = s.buf /\ r.ls = s.ls
          /\ r.issued = s.issued /\ r.page = s.page
      BY <1>0 DEF IsRecord, Fields
    <2> HIDE DEF r
    <2> QED BY <2>1, SameKeeps DEF Keeps, r
  <1>3. [s EXCEPT !.late = FALSE, !.page.bounce = "late"]
          = [s EXCEPT !.late = FALSE, !.page = [s.page EXCEPT !.bounce = "late"]]
    BY <1>0 DEF IsRecord, Fields
  <1>4. [s EXCEPT !.bcap = FALSE, !.blocks = @ - 1]
          = [s EXCEPT !.bcap = FALSE, !.blocks = s.blocks - 1]
    BY <1>0 DEF IsRecord, Fields
  <1>5. Keeps(s, [s EXCEPT !.late = FALSE, !.page.bounce = "late"])
    <2> DEFINE p == [s.page EXCEPT !.bounce = "late"]
    <2>1. p = [table |-> s.page.table, bounce |-> "late"]
      BY <1>0 DEF PageSound
    <2> HIDE DEF p
    <2>2. PageSound(p) /\ Onward(s.page, p)
      BY <2>1 DEF PageSound, Onward
    <2> QED BY <1>1, <1>3, <2>2, Zenon DEF p
  <1>6. Keeps(s, [s EXCEPT !.bcap = FALSE, !.blocks = @ - 1])
    BY <1>2, <1>4, Zenon
  <1> QED BY <1>5, <1>6

(* A handle granted has a number that none had before. *)
LEMMA GrantKeeps ==
  ASSUME NEW s, Rooted(s, hw, used), used \in Nat, NEW h, h.id = used + 1
  PROVE  Rooted(s, hw \cup {h}, used + 1)
  <1>1. ASSUME s.tok[19] # NoToken
        PROVE  Bound(s.tok[19], hw \cup {h}, used + 1)
    <2>1. Backed(s, 19, s.tok[19], hw, used)
      BY <1>1, StagedFounded
    <2> DEFINE t == s.tok[19]
    <2>2. Bound(t, hw, used)
      BY ZenonT(60), <2>1 DEF Backed
    <2> HIDE DEF t
    <2>3. Bound(t, hw \cup {h}, used + 1)
      BY <2>2 DEF Bound
    <2> QED BY <2>3 DEF t
  <1> QED BY <1>1, HandlesKeep

-----------------------------------------------------------------------------
(* Every call starts from the chain with its command flag lowered. *)
LEMMA NowRooted ==
  ASSUME AInv
  PROVE  /\ Rooted(Now, hw, used) /\ ~Now.issued /\ Now.tok = chain.tok
         /\ Now.buf = chain.buf /\ Now.ls = chain.ls /\ Now.page = chain.page
  <1>1. IsRecord(chain)
    BY DEF AInv, Rooted, Shape
  <1>2. /\ Now.tok = chain.tok /\ Now.buf = chain.buf /\ Now.ls = chain.ls
        /\ Now.issued = FALSE /\ Now.page = chain.page
    BY <1>1 DEF Now, IsRecord, Fields
  <1>3. IsRecord(Now)
    BY <1>1 DEF Now, IsRecord, Fields
  <1>4. Rooted(Now, hw, used)
    BY <1>2, <1>3, SameKeeps DEF AInv
  <1> QED BY <1>2, <1>4

(* Why a step may have issued a command: the read was allowed, or a stage   *)
(* that reads files found the one before it staged.                         *)
Warrant ==
  \/ \E a : ReadAllowed(Now, a) /\ ~Denied(Now, "status_read", a)
  \/ \E n \in 98 .. 102 : Now.tok[n] # NoToken

(* What every step establishes. *)
Safe == AInv' /\ (chain'.issued => Warrant)

(* A step that leaves the handles and the cabling alone. *)
LEMMA CalmSafe ==
  ASSUME AInv, UNCHANGED <<hw, used, dev>>, Rooted(chain', hw, used),
         chain'.issued => Warrant
  PROVE  Safe
  BY DEF Safe, AInv

(* A call that keeps the chain rooted and issues nothing. *)
LEMMA DoSafe ==
  ASSUME AInv, NEW r, Do(r), Keeps(Now, r)
  PROVE  Safe
  <1>1. chain' = r /\ UNCHANGED <<hw, used, dev>>
    BY DEF Do
  <1>2. ~r.issued
    BY NowRooted DEF Keeps
  <1> QED BY <1>1, <1>2, CalmSafe DEF Keeps

(* The planning calls are safe. *)
LEMMA PlanningSafe ==
  ASSUME AInv, NEW a, Planning(a)
  PROVE  Safe
  <1>1. Rooted(Now, hw, used) /\ dev \in Cablings /\ IsFiniteSet(hw)
    BY NowRooted DEF AInv
  <1>2. \A r : Do(r) /\ Keeps(Now, r) => Safe
    BY DoSafe, Zenon
  <1>3. \A ok : /\ Keeps(Now, register_ahci_candidate(Now, ok))
                /\ Keeps(Now, request_ahci_mapping(Now, a, ok))
    BY <1>1, MappingKeeps, Zenon
  <1>4. Keeps(Now, snapshot_ahci_registers(Now, a))
    BY <1>1, SnapshotKeeps, Zenon
  <1>5. \A idle : /\ Keeps(Now, snapshot_ahci_ports(Now, a, idle))
                  /\ Keeps(Now, try_open_ahci_publish_write_window(Now, a))
                  /\ Keeps(Now, request_ahci_publish_exclusive_session(Now, a))
    BY <1>1, AbsorbersKeep, Zenon
  <1>6. /\ Keeps(Now, classify_ahci_port(Now, a))
        /\ Keeps(Now, stage_ahci_read_plan(Now, a))
        /\ Keeps(Now, stage_ahci_command_plan(Now, a))
        /\ Keeps(Now, stage_ahci_memory_plan(Now, a))
        /\ Keeps(Now, preflight_ahci_command_issue(Now, a))
        /\ Keeps(Now, stage_ahci_address_bind_plan(Now, a))
        /\ Keeps(Now, stage_ahci_controller_publish_plan(Now, a))
        /\ Keeps(Now, gate_ahci_controller_publication(Now, a))
        /\ Keeps(Now, stage_ahci_publish_write_window_policy(Now, a))
        /\ Keeps(Now, stage_ahci_publish_revocation_plan(Now, a))
    BY <1>1, CopiesKeep, Zenon
  <1>7. /\ Keeps(Now, prepare_ahci_command_table(Now, a))
        /\ Keeps(Now, apply_ahci_private_address_patch(Now, a))
    BY <1>1, PagedKeep, Zenon
  <1> QED BY <1>2, <1>3, <1>4, <1>5, <1>6, <1>7, ZenonT(60) DEF Planning

(* The calls that take the token on are safe. *)
LEMMA LadderSafe ==
  ASSUME AInv, NEW a, Ladder(a)
  PROVE  Safe
  <1>1. Rooted(Now, hw, used)
    BY NowRooted
  <1>2. \A r : Do(r) /\ Keeps(Now, r) => Safe
    BY DoSafe, Zenon
  <1> QED BY <1>1, <1>2, LadderKeeps, ZenonT(60) DEF Ladder

(* The drain revokes every handle; the stages that follow are cut. *)
LEMMA DrainSafe ==
  ASSUME AInv, NEW a, Drain(a)
  PROVE  Safe
  <1> DEFINE r == execute_ahci_publish_capability_drain(Now, a)
  <1>1. Rooted(Now, hw, used) /\ ~Now.issued /\ dev \in Cablings /\ IsFiniteSet(hw)
    BY NowRooted DEF AInv
  <1>2. Keeps(Now, r)
    BY <1>1, AbsorbersKeep, Zenon
  <1>3. chain' = r /\ hw' \in SUBSET hw /\ used' = used /\ dev' = dev
    BY DEF Drain, DrainedHandles
  <1> HIDE DEF r
  <1>4. Rooted(r, hw, used) /\ ~r.issued
    BY <1>1, <1>2 DEF Keeps
  <1>5. Rooted(r, hw', used)
    BY <1>3, <1>4, ShrinkKeeps
  <1>6. IsFiniteSet(hw')
    BY <1>1, <1>3, FS_Subset
  <1> QED BY ZenonT(60), <1>3, <1>4, <1>5, <1>6 DEF Safe, AInv

(* The hand-off grants the driver a handle no one held before. *)
LEMMA HandoffSafe ==
  ASSUME AInv, NEW a, Handoff(a)
  PROVE  Safe
  <1>1. PICK d \in Owners :
          /\ chain' = stage_ahci_publish_driver_handoff(Now, a, d)
          /\ IF HandoffAllowed(Now, a, d)
             THEN /\ used' = used + 1
                  /\ hw' = hw \cup {[id |-> used + 1, owner |-> Driver, rights |-> "query"]}
             ELSE UNCHANGED <<hw, used>>
          /\ UNCHANGED <<dev, plugs>>
    BY Zenon DEF Handoff
  <1> DEFINE x == "publish_handoff"
             r == stage_ahci_publish_driver_handoff(Now, a, d)
             v == Absorb(Tok(Now, "publish_drain"), used + 1)
             h == [id |-> used + 1, owner |-> Driver, rights |-> "query"]
  <1>2. Rooted(Now, hw, used) /\ ~Now.issued /\ IsFiniteSet(hw) /\ used \in Nat /\ IsRecord(Now)
    BY NowRooted DEF AInv, Rooted, Shape
  <1>3. Index[x] = 19 /\ 19 \in 1 .. Last
    BY PlanPlaces, LastPlace
  <1>4. Keeps(Now, Reset(Now, x)) /\ Keeps(Now, Now)
    <2> HIDE DEF x
    <2> QED BY <1>2, <1>3, ResetKeeps DEF Keeps
  <1>5. r \in {Now, Reset(Now, x), Mint(Reset(Now, x), x, v)}
    BY Zenon DEF stage_ahci_publish_driver_handoff
  <1>6. ~HandoffAllowed(Now, a, d) => r \in {Now, Reset(Now, x)}
    BY Zenon DEF stage_ahci_publish_driver_handoff
  <1>7. ~r.issued
    <2>1. Cut(Now, Reset(Now, x), 19, NoToken)
      BY <1>2, <1>3, ResetCuts DEF Rooted
    <2>2. IsRecord(Reset(Now, x))
      BY <2>1 DEF Cut, Shape
    <2> DEFINE c == Reset(Now, x)
    <2> HIDE DEF c, v, x
    <2>3. Mint(c, x, v).issued = c.issued
      BY <2>2 DEF Mint, IsRecord, Fields, c
    <2> HIDE DEF r
    <2> QED BY ZenonT(60), <1>2, <1>4, <1>5, <2>3 DEF Keeps, c
  <1>8. CASE HandoffAllowed(Now, a, d)
    <2>1. used' = used + 1 /\ hw' = hw \cup {h} /\ dev' = dev /\ chain' = r
      BY <1>1, <1>8
    <2>2. Rooted(r, hw', used + 1)
      BY ZenonT(60), <1>2, <1>8, <2>1, HandoffKeeps
    <2> HIDE DEF r, h
    <2>3. IsFiniteSet(hw')
      BY <1>2, <2>1, FS_AddElement
    <2>4. used + 1 \in Nat
      BY <1>2
    <2> QED BY ZenonT(60), <1>7, <2>1, <2>2, <2>3, <2>4 DEF Safe, AInv
  <1>9. CASE ~HandoffAllowed(Now, a, d)
    <2>1. chain' = r /\ UNCHANGED <<hw, used, dev>>
      BY <1>1, <1>9
    <2>2. Rooted(r, hw, used)
      <3> HIDE DEF r, x
      <3> QED BY <1>4, <1>6, <1>9 DEF Keeps
    <2> HIDE DEF r
    <2> QED BY <1>7, <2>1, <2>2, CalmSafe
  <1> QED BY <1>8, <1>9

-----------------------------------------------------------------------------
(* The one planned command, and the other calls that look at the hardware. *)
LEMMA HardwareSafe ==
  ASSUME AInv, NEW a, Hardware(a)
  PROVE  Safe
  <1>1. Rooted(Now, hw, used) /\ ~Now.issued /\ dev \in Cablings
    BY NowRooted DEF AInv
  <1>2. \A r : Do(r) /\ Keeps(Now, r) => Safe
    BY DoSafe, Zenon
  <1>3. \A ok : /\ Keeps(Now, driver_read_status_sample(Now, a, ok))
                /\ Keeps(Now, driver_read_status_clear(Now, a, ok))
                /\ Keeps(Now, driver_read_status_stable(Now, a))
                /\ Keeps(Now, driver_read_status_descriptor(Now, a))
                /\ Keeps(Now, driver_read_status_command_table(Now, a))
                /\ Keeps(Now, driver_read_status_command_issue(Now, a))
                /\ Keeps(Now, driver_read_status_issue_grant(Now, a))
                /\ Keeps(Now, driver_read_status_arm(Now, a))
                /\ Keeps(Now, driver_read_status_exec(Now, a))
                /\ Keeps(Now, driver_read_status_dma(Now, a))
                /\ Keeps(Now, driver_read_status_mmio(Now, a, ok))
    BY <1>1, CheckersKeep, Zenon
  <1>4. \A ok, same : /\ Keeps(Now, driver_read_probe(Now, a, ok))
                      /\ Keeps(Now, driver_read_status_resample(Now, a, ok, same))
    BY <1>1, ProbersKeep, Zenon
  <1>5. Keeps(Now, driver_read_status_dma_window(Now, a))
    BY <1>1, WindowKeeps
  <1>6. Keeps(Now, driver_read_status_block(Now, a))
    BY <1>1, BlockKeeps
  <1>7. ASSUME NEW out \in Outcomes("status_read", ReadOutcomes),
               Do(driver_read_status_read(Now, a, out))
        PROVE  Safe
    <2> DEFINE r == driver_read_status_read(Now, a, out)
    <2>1. out \in ReadOutcomes
      BY <1>7 DEF Outcomes, ReadOutcomes
    <2>2. Rooted(r, hw, used) /\ (r.issued => Warrant)
      BY <1>1, <2>1, ReadKeeps DEF Warrant
    <2>3. chain' = r /\ UNCHANGED <<hw, used, dev>>
      BY <1>7 DEF Do
    <2> HIDE DEF r
    <2> QED BY <2>2, <2>3, CalmSafe
  <1> QED BY <1>2, <1>3, <1>4, <1>5, <1>6, <1>7, ZenonT(60) DEF Hardware

(* The calls that read files are safe. *)
LEMMA FilesystemSafe ==
  ASSUME AInv, NEW a, Filesystem(a)
  PROVE  Safe
  <1>1. Rooted(Now, hw, used) /\ ~Now.issued
    BY NowRooted
  <1>2. ASSUME NEW r, Do(r), Reads(Now, r)
        PROVE  Safe
    <2>1. chain' = r /\ UNCHANGED <<hw, used, dev>>
      BY <1>2 DEF Do
    <2>2. Rooted(r, hw, used) /\ (r.issued => Warrant)
      BY <1>2 DEF Reads, Warrant
    <2> QED BY <2>1, <2>2, CalmSafe
  <1>3. \A ok, out : /\ Reads(Now, driver_read_status_fs(Now, a, ok, out))
                     /\ Reads(Now, driver_read_status_fs_user(Now, a, ok, out))
                     /\ Reads(Now, driver_read_status_fs_shell(Now, a, out))
                     /\ Reads(Now, driver_read_status_load(Now, a, ok, out))
                     /\ Reads(Now, driver_read_status_load_full(Now, a, out))
    BY <1>1, FilesystemKeeps, Zenon
  <1> QED BY <1>2, <1>3, ZenonT(60) DEF Filesystem

(* Launches recorded, late transfers, handles granted and revoked, drives   *)
(* plugged.                                                                 *)
LEMMA EnvironmentSafe ==
  ASSUME AInv, Environment
  PROVE  Safe
  <1>0. /\ Rooted(Now, hw, used) /\ ~Now.issued
        /\ IsFiniteSet(hw) /\ used \in Nat /\ dev \in Cablings
    BY NowRooted DEF AInv
  <1>1. ASSUME NEW r \in {LsResult, 1}, Do(load_record_launch(Now, r))
        PROVE  Safe
    <2>1. r \in Nat
      BY <1>1 DEF LsResult
    <2> QED BY ZenonT(60), <1>0, <1>1, <2>1, RecordKeeps, DoSafe
  <1>2. CASE chain.late /\ Do([Now EXCEPT !.late = FALSE, !.page.bounce = "late"])
    BY <1>0, <1>2, TouchesKeep, DoSafe, Zenon
  <1>3. CASE chain.bcap /\ Do([Now EXCEPT !.bcap = FALSE, !.blocks = @ - 1])
    BY <1>0, <1>3, TouchesKeep, DoSafe, Zenon
  <1>4. ASSUME NEW h \in hw, hw' = hw \ {h}, chain' = Now, UNCHANGED <<used, dev, plugs>>
        PROVE  Safe
    <2>1. hw' \in SUBSET hw /\ used' = used /\ dev' = dev
      BY <1>4
    <2>2. Rooted(Now, hw', used)
      BY <1>0, <2>1, ShrinkKeeps
    <2>3. IsFiniteSet(hw')
      BY <1>0, <2>1, FS_Subset
    <2> QED BY <1>0, <1>4, <2>1, <2>2, <2>3 DEF Safe, AInv
  <1>5. ASSUME used' = used + 1, NEW g,
               hw' = hw \cup {[id |-> used + 1, owner |-> g.owner, rights |-> g.rights]},
               chain' = Now, UNCHANGED <<dev, plugs>>
        PROVE  Safe
    <2> DEFINE h == [id |-> used + 1, owner |-> g.owner, rights |-> g.rights]
    <2>1. h.id = used + 1 /\ hw' = hw \cup {h} /\ dev' = dev /\ used + 1 \in Nat
      BY <1>0, <1>5
    <2> HIDE DEF h
    <2>2. Rooted(Now, hw', used + 1)
      BY <1>0, <2>1, GrantKeeps
    <2>3. IsFiniteSet(hw')
      BY <1>0, <2>1, FS_AddElement
    <2> QED BY ZenonT(60), <1>0, <1>5, <2>1, <2>2, <2>3 DEF Safe, AInv
  <1>6. CASE dev' \in Cablings /\ chain' = Now /\ UNCHANGED <<hw, used>>
    BY <1>0, <1>6 DEF Safe, AInv
  <1> QED BY <1>1, <1>2, <1>3, <1>4, <1>5, <1>6, ZenonT(60) DEF Environment

(* Every step is safe. *)
LEMMA NextSafe ==
  ASSUME AInv, Next
  PROVE  Safe
  BY ZenonT(60), PlanningSafe, DrainSafe, HandoffSafe, LadderSafe, HardwareSafe, FilesystemSafe,
     EnvironmentSafe, Zenon DEF Next

(* At boot nothing is staged. *)
LEMMA InitRooted ==
  ASSUME Init
  PROVE  AInv
  <1>1. /\ chain.tok = Unstaged /\ hw = {[id |-> 1, owner |-> Supervisor, rights |-> "full"]}
        /\ used = 1 /\ dev \in Cablings
    BY DEF Init
  <1>2. IsRecord(chain) /\ PageSound(chain.page)
    BY DEF Init, IsRecord, Fields, PageSound
  <1>3. Unstaged \in Seq(Tokens) /\ Len(Unstaged) = Last
    BY SMTT(20), ChainPlaces DEF Unstaged, NoToken, Tokens, Last
  <1>4. \A i \in 1 .. Last : Unstaged[i] = NoToken
    BY SMTT(20), ChainPlaces DEF Unstaged, Last
  <1>5. Rooted(chain, hw, used)
    BY <1>1, <1>2, <1>3, <1>4 DEF Rooted, Shape
  <1>6. IsFiniteSet(hw)
    BY <1>1, FS_Singleton
  <1> QED BY <1>1, <1>5, <1>6 DEF AInv

(* Nothing changes. *)
LEMMA StutterRooted ==
  ASSUME AInv, UNCHANGED vars
  PROVE  AInv'
  <1>1. chain' = chain /\ hw' = hw /\ used' = used /\ dev' = dev
    BY DEF vars
  <1> QED BY <1>1 DEF AInv

(* Every token is founded on the one before it, whatever is called, granted, *)
(* revoked and plugged in whatever order.                                   *)
THEOREM TokensAreFounded == Spec => []AInv
  <1>1. Init => AInv
    BY InitRooted
  <1>2. AInv /\ [Next]_vars => AInv'
    BY NextSafe, StutterRooted DEF Safe
  <1> QED BY <1>1, <1>2, PTL DEF Spec

-----------------------------------------------------------------------------
(* A staged stage has the one before it staged. *)
LEMMA StagedBefore ==
  ASSUME NEW s, Rooted(s, hw, used), NEW i \in 2 .. 103, s.tok[i] # NoToken
  PROVE  s.tok[i - 1] # NoToken /\ (i # 103 => Extends(s.tok[i], s.tok[i - 1]))
  <1>1. i \in 1 .. 103 /\ i > 1 /\ (i # 103 => i \in 2 .. 102)
    OBVIOUS
  <1>2. Grown(s, i, s.tok[i])
    BY <1>1, StagedFounded
  <1> QED BY <1>1, <1>2 DEF Grown

(* The stages that read files rest on the planned read and its window. *)
LEMMA FilesRest ==
  ASSUME NEW s, Rooted(s, hw, used)
  PROVE  /\ \A n \in 98 .. 102 : s.tok[n] # NoToken => s.tok[98] # NoToken
         /\ s.tok[98] # NoToken => s.tok[96] # NoToken
  <1>1. \A i, j \in 1 .. 103 : j = i - 1 /\ s.tok[i] # NoToken => s.tok[j] # NoToken
    BY SMTT(20), StagedBefore
  <1>2. s.tok[102] # NoToken => s.tok[101] # NoToken
    BY SMTT(20), <1>1
  <1>3. s.tok[101] # NoToken => s.tok[100] # NoToken
    BY SMTT(20), <1>1
  <1>4. s.tok[100] # NoToken => s.tok[99] # NoToken
    BY SMTT(20), <1>1
  <1>5. s.tok[99] # NoToken => s.tok[98] # NoToken
    BY SMTT(20), <1>1
  <1>6. s.tok[98] # NoToken => s.tok[97] # NoToken
    BY SMTT(20), <1>1
  <1>7. s.tok[97] # NoToken => s.tok[96] # NoToken
    BY SMTT(20), <1>1
  <1>8. ASSUME NEW n \in 98 .. 102, s.tok[n] # NoToken
        PROVE  s.tok[98] # NoToken
    <2>1. n = 98 \/ n = 99 \/ n = 100 \/ n = 101 \/ n = 102
      OBVIOUS
    <2> QED BY <1>2, <1>3, <1>4, <1>5, <1>8, <2>1, Zenon
  <1> QED BY <1>6, <1>7, <1>8, Zenon

(* With the window staged, the drive of the last port snapshot is ATAPI:    *)
(* the plans up to the memory plan take over the snapshot's token.          *)
LEMMA WindowIsAtapi ==
  ASSUME NEW s, Rooted(s, hw, used), s.tok[96] # NoToken
  PROVE  Kind(s.tok[3]) = Atapi
  <1>1. Backed(s, 96, s.tok[96], hw, used)
    BY StagedFounded
  <1>2. Kind(s.tok[7]) = Atapi
    BY ZenonT(60), <1>1 DEF Backed
  <1>3. Kind(NoToken) # Atapi
    BY DEF Kind, Absorbed, NoToken, Atapi
  <1>4. s.tok[7] # NoToken
    BY <1>2, <1>3
  <1>5. Grown(s, 7, s.tok[7])
    BY <1>4, StagedFounded
  <1>6. s.tok[7] = s.tok[3]
    BY <1>5 DEF Grown
  <1> QED BY <1>2, <1>6

(* A token is linked to the token before it, as the code checks by hashing  *)
(* it again; the programs are registered after the loaded one ran.          *)
LEMMA FoundedIsLinked ==
  ASSUME AInv
  PROVE  LinkedChain
  <1>0. Rooted(chain, hw, used)
    BY DEF AInv
  <1>1. ASSUME NEW x \in Range(Chain) \ {"map", "status_load_full"}, Has(chain, x)
        PROVE  Linked(chain, Before(x), x)
    <2>0. x \in Range(Chain) /\ DOMAIN Chain = 1 .. 103
      BY ChainPlaces, Zenon
    <2>1. PICK i \in 1 .. 103 : x = Chain[i]
      BY <2>0, Zenon DEF Range
    <2>2. Index[x] = i /\ i # 1 /\ i # 103
      BY ZenonT(60), <1>1, <2>1, ChainPlaces
    <2>3. i \in 2 .. 103 /\ i \in 2 .. Last
      BY <2>2, LastPlace
    <2>4. Tok(chain, x) = chain.tok[i] /\ chain.tok[i] # NoToken
      BY <1>1, <2>2 DEF Has, Tok
    <2>5. Tok(chain, Before(x)) = chain.tok[i - 1]
      BY <2>2, <2>3, TokBefore
    <2>6. chain.tok[i - 1] # NoToken /\ Extends(chain.tok[i], chain.tok[i - 1])
      BY ZenonT(60), <1>0, <2>2, <2>3, <2>4, StagedBefore
    <2> QED BY <2>4, <2>5, <2>6 DEF Linked, Has
  <1>2. ASSUME Has(chain, "status_load_full")
        PROVE  chain.ls /\ Has(chain, "status_load")
    <2>1. Index["status_load_full"] = 103 /\ Index["status_load"] = 102
      BY DriverPlaces
    <2>2. chain.tok[103] # NoToken
      BY <1>2, <2>1 DEF Has, Tok
    <2>3. Grown(chain, 103, chain.tok[103]) /\ Backed(chain, 103, chain.tok[103], hw, used)
      BY <1>0, <2>2, StagedFounded
    <2>4. chain.tok[103 - 1] # NoToken /\ chain.ls
      BY <2>3 DEF Grown, Backed
    <2> QED BY <2>1, <2>4 DEF Has, Tok
  <1> QED BY <1>1, <1>2, Zenon DEF LinkedChain

(* No old handle is live after the hand-off, the block is what was read. *)
LEMMA FoundedIsBound ==
  ASSUME AInv
  PROVE  OldHandlesDead /\ BlockIsReadSector
  <1>0. Rooted(chain, hw, used)
    BY DEF AInv
  <1>1. /\ Tok(chain, "publish_handoff") = chain.tok[19]
        /\ Tok(chain, "status_block") = chain.tok[98]
    BY DriverPlaces DEF Tok
  <1>2. ASSUME chain.tok[19] # NoToken
        PROVE  \A h \in hw : h.id >= Cap(chain.tok[19])
    <2>1. Backed(chain, 19, chain.tok[19], hw, used)
      BY <1>0, <1>2, StagedFounded
    <2> DEFINE t == chain.tok[19]
    <2>2. Bound(t, hw, used) /\ t \in Tokens
      BY <1>0, <2>1, TokensAre, LastPlace DEF Backed
    <2> HIDE DEF t
    <2>3. Cap(t) = t[7]
      BY <2>2 DEF Bound, Cap, Absorbed, Tokens
    <2>4. \A h \in hw : h.id >= Cap(t)
      BY <2>2, <2>3 DEF Bound
    <2> QED BY <2>4 DEF t
  <1>3. ASSUME chain.tok[98] # NoToken
        PROVE  /\ chain.buf \in Sealed
               /\ chain.page.table # "rerouted" => chain.buf = "read"
    <2>1. Backed(chain, 98, chain.tok[98], hw, used)
      BY <1>0, <1>3, StagedFounded
    <2> QED BY <2>1 DEF Backed, Fits
  <1> QED BY <1>1, <1>2, <1>3, Zenon DEF OldHandlesDead, BlockIsReadSector, Has

(* What a command rests on, with the action of CommandsJustified as A. *)
LEMMA WarrantJustifies ==
  ASSUME AInv, Warrant
  PROVE  /\ Has(chain, "status_dma_window")
         /\ Kind(Tok(chain, "port_snapshot")) = Atapi
         /\ ~Has(chain, "status_block") =>
              QueryOnly(Cap(Tok(chain, "publish_handoff")), Driver)
  <1>0. Rooted(Now, hw, used) /\ Now.tok = chain.tok
    BY NowRooted
  <1>1. \A x : Tok(Now, x) = Tok(chain, x)
    BY <1>0 DEF Tok
  <1>2. /\ Tok(Now, "port_snapshot") = Now.tok[3] /\ Tok(Now, "status_block") = Now.tok[98]
        /\ Tok(Now, "status_dma_window") = Now.tok[96]
    BY PlanPlaces, DriverPlaces DEF Tok
  <1>3. ASSUME NEW a, ReadAllowed(Now, a), ~Denied(Now, "status_read", a)
        PROVE  /\ Now.tok[96] # NoToken
               /\ QueryOnly(Cap(Tok(Now, "publish_handoff")), Driver)
    <2>1. driver_read_status_dma_window_ready(Now, a.token) /\ BoundCap(Now, a)
      BY <1>3 DEF ReadAllowed
    <2>2. Now.tok[96] # NoToken
      BY <1>2, <2>1 DEF driver_read_status_dma_window_ready, Ready, Has
    <2>3. a.owner = Driver
      BY <1>3 DEF Denied
    <2> QED BY <2>1, <2>2, <2>3 DEF BoundCap
  <1>4. ASSUME NEW n \in 98 .. 102, Now.tok[n] # NoToken
        PROVE  Now.tok[96] # NoToken /\ Now.tok[98] # NoToken
    BY <1>0, <1>4, FilesRest
  <1>5. /\ Now.tok[96] # NoToken
        /\ Now.tok[98] = NoToken => QueryOnly(Cap(Tok(Now, "publish_handoff")), Driver)
    BY <1>3, <1>4, Zenon DEF Warrant
  <1>6. Kind(Now.tok[3]) = Atapi
    BY <1>0, <1>5, WindowIsAtapi
  <1>7. Has(chain, "status_dma_window") /\ Kind(Tok(chain, "port_snapshot")) = Atapi
    BY SMTT(20), <1>1, <1>2, <1>5, <1>6 DEF Has
  <1>8. ~Has(chain, "status_block") => Now.tok[98] = NoToken
    BY SMTT(20), <1>1, <1>2 DEF Has
  <1>9. Tok(Now, "publish_handoff") = Tok(chain, "publish_handoff")
    BY <1>1
  <1> QED BY ZenonT(60), <1>5, <1>7, <1>8, <1>9

(* LinkedChain, for any ports, cablings, grants and bounds: a stage that    *)
(* holds a token was minted from the token the stage before it holds now.   *)
THEOREM ChainStaysLinked == Spec => []LinkedChain
  BY TokensAreFounded, FoundedIsLinked, PTL

(* OldHandlesDead: once the driver holds the chain, no hardware handle from *)
(* before the drain is live.                                                *)
THEOREM HandoffLeavesNoOldHandle == Spec => []OldHandlesDead
  <1>1. AInv => OldHandlesDead
    BY FoundedIsBound
  <1> QED BY <1>1, TokensAreFounded, PTL

(* BlockIsReadSector: the published block is what the read of this chain    *)
(* fetched, and the planned sector unless a file's sector was routed through *)
(* the command table since it was prepared.                                 *)
THEOREM PublishedBlockWasRead == Spec => []BlockIsReadSector
  <1>1. AInv => BlockIsReadSector
    BY FoundedIsBound
  <1> QED BY <1>1, TokensAreFounded, PTL

(* CommandsJustified: every command that reaches the controller has the     *)
(* window staged, an ATAPI drive in the last snapshot and, until the block  *)
(* is published, the driver's query-only handle live as it is issued.       *)
THEOREM CommandsAreJustified == Spec => CommandsJustified
  <1> DEFINE A == chain'.issued =>
                    /\ Has(chain, "status_dma_window")
                    /\ Kind(Tok(chain, "port_snapshot")) = Atapi
                    /\ ~Has(chain, "status_block") =>
                         QueryOnly(Cap(Tok(chain, "publish_handoff")), Driver)
  <1>1. ASSUME AInv, Next
        PROVE  A
    <2>1. chain'.issued => Warrant
      BY <1>1, NextSafe DEF Safe
    <2> QED BY <1>1, <2>1, WarrantJustifies
  <1>2. AInv /\ [Next]_vars => [A]_vars
    BY <1>1
  <1> QED BY <1>2, TokensAreFounded, PTL DEF Spec, CommandsJustified
=============================================================================
