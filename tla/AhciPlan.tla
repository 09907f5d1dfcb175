------------------------------ MODULE AhciPlan ------------------------------
(***************************************************************************)
(* The staged AHCI read path of kernel/arch/x86_64/mmio.c: 103 stages, from *)
(* mapping the controller to loading programs off the boot medium.  Every   *)
(* stage is a system call that takes the token of the stage before it,      *)
(* clears itself and everything after it, and mints its own token only if   *)
(* its conditions hold.  One stage really programs the controller           *)
(* (status_read); the ones before it check, snapshot and deny.              *)
(*                                                                         *)
(* Abstractions.  A token is the sequence of the inputs its hash absorbed   *)
(* that can differ between two stagings: the port, device and readiness the *)
(* port snapshot saw, the live handles, the driver's handle, the port and   *)
(* device the driver's probe saw.  A stage that is idle, unavailable or     *)
(* denied has token zero, the empty sequence.  Register values are inputs:  *)
(* `ok` says that what a stage reads now is what it accepts.  The command   *)
(* page is the form of its command table and what lies in its bounce        *)
(* buffer; comparing checksums is comparing those.  Handles are never       *)
(* reused (see Capability).                                                 *)
(***************************************************************************)
EXTENDS Naturals, Sequences, Functions, FiniteSets, FiniteSetsExt, TLC

CONSTANTS Ports,        \* implemented ports, a set of numbers
          Cablings,     \* what may be plugged into the ports: None, Sata or Atapi
          MaxPlugs,     \* how often the cabling changes
          MaxHandles,   \* how many hardware handles are ever granted
          Grants,       \* to whom and with what rights, outside the hand-off
          BlockSlots    \* free capability slots that block handles may take

Driver == "driver"
Supervisor == "supervisor"
Owners == {Driver, Supervisor}
Handles == 1 .. MaxHandles

ASSUME AhciAssumption ==
    /\ Ports # {} /\ Ports \subseteq Nat
    /\ Cablings # {} /\ Cablings \subseteq [Ports -> 1 .. 3]
    /\ Grants \subseteq [owner : Owners, rights : {"query", "full"}]
    /\ MaxPlugs \in Nat /\ MaxHandles \in Nat \ {0} /\ BlockSlots \in Nat

VARIABLES chain,  \* the planner's state: tokens, command page, published data
          hw,     \* the live capabilities on the HARDWARE endpoint
          used,   \* the last hardware handle granted
          dev,    \* the device on every port
          plugs   \* how often that changed

vars == <<chain, hw, used, dev, plugs>>

(* The order in which one reset calls the next: resetting a stage resets    *)
(* every stage after it.                                                    *)
MapStages == <<"map">>
SnapshotStages ==
    <<"snapshot", "port_snapshot", "port_policy", "read_plan", "command_plan">>
TableStages == <<"memory_plan", "table_plan", "issue_plan">>
PatchStages == <<"bind_plan", "patch_plan">>
PublishStages ==
    <<"publish_plan", "publish_gate", "publish_window", "publish_revoke_plan",
      "publish_open_attempt">>
HandoffStages ==
    <<"publish_session", "publish_drain", "publish_handoff", "driver_probe",
      "driver_intent">>
BufferStages == <<"driver_buffer", "driver_gate", "driver_exec", "driver_result">>
MediaStages == <<"driver_publish", "driver_read_grant", "driver_media_read">>
ExportStages == <<"driver_complete", "driver_read_cap", "driver_read_export">>
DeliveryStages == <<"driver_read_response", "driver_read_delivery", "driver_read_visible">>
AuditStages == <<"driver_read_commit", "driver_read_audit", "driver_read_upgrade">>
SubmitStages == <<"driver_read_activate", "driver_read_arm", "driver_read_submit">>
RetireStages == <<"driver_read_observe", "driver_read_retire", "driver_read_permit">>
LeaseStages == <<"driver_read_window", "driver_read_lease", "driver_read_use">>
ReceiptStages == <<"driver_read_report", "driver_read_receipt", "driver_read_ack">>
SealStages == <<"driver_read_close", "driver_read_seal", "driver_read_unseal">>
FinalizeStages == <<"driver_read_discard", "driver_read_finalize", "driver_read_authorize">>
QueueStages == <<"driver_read_dispatch", "driver_read_queue", "driver_read_worker">>
RunStages == <<"driver_read_schedule", "driver_read_run">>
IssueStages == <<"driver_read_body", "driver_read_issue">>
IrqStages == <<"driver_read_dma", "driver_read_irq">>
StatusStages == <<"driver_read_status", "status_result">>
SampleStages == <<"status_sample", "status_clear">>
ResampleStages == <<"status_clear_result", "status_resample">>
StableStages == <<"status_stable", "status_guard">>
StatusExportStages ==
    <<"status_buffer", "status_export", "status_report", "status_receipt", "status_ack",
      "status_close">>
StatusSealStages ==
    <<"status_seal", "status_unseal", "status_discard", "status_finalize",
      "status_authorize", "status_dispatch", "status_queue", "status_worker",
      "status_read_authority", "status_descriptor", "status_command_table",
      "status_command_issue", "status_issue_grant", "status_arm", "status_exec",
      "status_dma">>
HardwareStages == <<"status_mmio", "status_dma_window", "status_read", "status_block">>
FilesystemStages ==
    <<"status_fs", "status_fs_user", "status_fs_shell", "status_load",
      "status_load_full">>

Chain ==
    MapStages \o SnapshotStages \o TableStages \o PatchStages \o PublishStages
    \o HandoffStages \o BufferStages \o MediaStages \o ExportStages \o DeliveryStages
    \o AuditStages \o SubmitStages \o RetireStages \o LeaseStages \o ReceiptStages
    \o SealStages \o FinalizeStages \o QueueStages \o RunStages \o IssueStages
    \o IrqStages \o StatusStages \o SampleStages \o ResampleStages \o StableStages
    \o StatusExportStages \o StatusSealStages \o HardwareStages \o FilesystemStages

Index == [x \in Range(Chain) |-> CHOOSE i \in DOMAIN Chain : Chain[i] = x]

NoToken == <<>>

Unstaged == [i \in DOMAIN Chain |-> NoToken]

Tok(s, x) == s.tok[Index[x]]
Has(s, x) == Tok(s, x) # NoToken

(* Mutant: a reset that does not call the next one. *)
ResetAlone(s, x) == [s EXCEPT !.tok[Index[x]] = NoToken]

(* What a reset leaves of the stage it is called for and of all later ones. *)
(* It clears the published block and the minted filesystem handle with them *)
(* but neither the command page nor the stale denial counted by dma_window. *)
Reset(s, x) ==
    LET n == Index[x]
    IN  [s EXCEPT !.tok = SubSeq(@, 1, n - 1) \o SubSeq(Unstaged, n, Len(Chain)),
                  !.buf = IF n <= Index["status_block"] THEN "zero" ELSE @,
                  !.bcap = @ /\ n > Index["status_block"],
                  !.fscap = @ /\ n > Index["status_fs_user"],
                  !.ls = @ /\ n > Index["status_load"]]

Mint(s, x, t) == [s EXCEPT !.tok[Index[x]] = t]

(* A stage adds its inputs behind those of the stage before it, so each has *)
(* a place of its own; Started is the token of the first two stages.        *)
Absorb(t, input) == Append(t, input)
Absorbed(t, place) == IF place \in DOMAIN t THEN t[place] ELSE 0
Started == <<1>>
None == 1
Sata == 2
Atapi == 3
Flag(b) == IF b THEN 2 ELSE 1
Kind(t) == Absorbed(t, 3)
Idle(t) == Absorbed(t, 4) = 2
OpenLive(t) == Absorbed(t, 5)
SessionLive(t) == Absorbed(t, 6)
Cap(t) == Absorbed(t, 7)
ProbedKind(t) == Absorbed(t, 9)
Steady(t) == Absorbed(t, 10) = 2

(* u was made by absorbing inputs, or none, into t. *)
Extends(u, t) == Len(t) <= Len(u) /\ SubSeq(u, 1, Len(t)) = t

(* y's token absorbed the token that x holds now. *)
Linked(s, x, y) ==
    Has(s, x) /\ Has(s, y) /\ Extends(Tok(s, y), Tok(s, x))

-----------------------------------------------------------------------------
(* The planning half: each call presents a hardware capability with the     *)
(* QUERY right and is denied, with no other effect, without one.            *)
authorize(a) == \E h \in hw : h.id = a.cap /\ h.owner = a.owner

Plan(s, x, ok, t, a) ==
    IF ~authorize(a) THEN s
    ELSE IF ok THEN Mint(Reset(s, x), x, t) ELSE Reset(s, x)

register_ahci_candidate(s, ok) == [Reset(s, "map") EXCEPT !.candidate = ok]

request_ahci_mapping(s, a, ok) ==
    IF s.candidate THEN Plan(s, "map", ok, Started, a) ELSE s

snapshot_ready(s) == Has(s, "snapshot")

(* A new register snapshot leaves the later stages in place. *)
snapshot_ahci_registers(s, a) ==
    IF authorize(a) /\ Has(s, "map") THEN Mint(s, "snapshot", Started) ELSE s

SelectedPort ==
    LET present == {p \in Ports : dev[p] # None}
    IN  Min(IF present # {} THEN present ELSE Ports)

(* The token of a look at the controller: the port selected, its device. *)
Seen(t) == Absorb(Absorb(t, SelectedPort), dev[SelectedPort])

snapshot_ahci_ports(s, a, idle) ==
    Plan(s, "port_snapshot", snapshot_ready(s),
         Absorb(Seen(Started), Flag(idle)), a)

port_snapshot_ready(s) ==
    Has(s, "port_snapshot") /\ Kind(Tok(s, "port_snapshot")) # None

classify_ahci_port(s, a) ==
    Plan(s, "port_policy",
         port_snapshot_ready(s) /\ Idle(Tok(s, "port_snapshot")),
         Tok(s, "port_snapshot"), a)

port_policy_ready(s) == Has(s, "port_policy")

stage_ahci_read_plan(s, a) ==
    Plan(s, "read_plan", port_policy_ready(s), Tok(s, "port_policy"), a)

read_plan_ready(s) == Linked(s, "port_policy", "read_plan")

stage_ahci_command_plan(s, a) ==
    Plan(s, "command_plan", read_plan_ready(s), Tok(s, "read_plan"), a)

command_plan_ready(s) == Linked(s, "read_plan", "command_plan")

(* The page must be all zero; only the first table ever prepared finds it so. *)
stage_ahci_memory_plan(s, a) ==
    Plan(s, "memory_plan",
         command_plan_ready(s) /\ s.page = [table |-> "zero", bounce |-> "zero"],
         Tok(s, "command_plan"), a)

memory_plan_ready(s) == Linked(s, "command_plan", "memory_plan")

prepare_ahci_command_table(s, a) ==
    LET t == [s EXCEPT !.page = [table |-> "prepared", bounce |-> "zero"]]
    IN  IF authorize(a) /\ memory_plan_ready(s)
        THEN Plan(t, "table_plan", TRUE, Tok(s, "memory_plan"), a)
        ELSE Plan(s, "table_plan", FALSE, NoToken, a)

table_plan_ready(s) ==
    /\ Linked(s, "memory_plan", "table_plan")
    /\ s.page = [table |-> "prepared", bounce |-> "zero"]

preflight_ahci_command_issue(s, a) ==
    Plan(s, "issue_plan", table_plan_ready(s) /\ port_policy_ready(s),
         Tok(s, "table_plan"), a)

issue_plan_ready(s) ==
    /\ Linked(s, "table_plan", "issue_plan") /\ Linked(s, "memory_plan", "issue_plan")
    /\ Linked(s, "command_plan", "issue_plan") /\ Linked(s, "read_plan", "issue_plan")

stage_ahci_address_bind_plan(s, a) ==
    Plan(s, "bind_plan",
         issue_plan_ready(s) /\ table_plan_ready(s) /\ memory_plan_ready(s),
         Tok(s, "issue_plan"), a)

bind_plan_ready(s) ==
    Has(s, "bind_plan") /\ s.page = [table |-> "prepared", bounce |-> "zero"]

apply_ahci_private_address_patch(s, a) ==
    LET t == [s EXCEPT !.page = [table |-> "patched", bounce |-> "zero"]]
    IN  IF authorize(a) /\ bind_plan_ready(s)
        THEN Plan(t, "patch_plan", TRUE, Tok(s, "bind_plan"), a)
        ELSE Plan(s, "patch_plan", FALSE, NoToken, a)

patch_plan_ready(s) ==
    /\ Linked(s, "bind_plan", "patch_plan") /\ issue_plan_ready(s)
    /\ s.page = [table |-> "patched", bounce |-> "zero"]

stage_ahci_controller_publish_plan(s, a) ==
    Plan(s, "publish_plan", patch_plan_ready(s), Tok(s, "patch_plan"), a)

publish_plan_ready(s) ==
    /\ Linked(s, "patch_plan", "publish_plan") /\ issue_plan_ready(s)
    /\ s.page = [table |-> "patched", bounce |-> "zero"]

Live == Cardinality(hw)

gate_ahci_controller_publication(s, a) ==
    Plan(s, "publish_gate", publish_plan_ready(s) /\ Live = 1, Tok(s, "publish_plan"), a)

publish_gate_ready(s) == Linked(s, "publish_plan", "publish_gate")

stage_ahci_publish_write_window_policy(s, a) ==
    Plan(s, "publish_window", publish_gate_ready(s) /\ Live = 1, Tok(s, "publish_gate"), a)

publish_window_ready(s) == Linked(s, "publish_gate", "publish_window")

stage_ahci_publish_revocation_plan(s, a) ==
    Plan(s, "publish_revoke_plan", publish_window_ready(s) /\ Live = 1,
         Tok(s, "publish_window"), a)

publish_revoke_plan_ready(s) == Linked(s, "publish_window", "publish_revoke_plan")

try_open_ahci_publish_write_window(s, a) ==
    Plan(s, "publish_open_attempt", publish_revoke_plan_ready(s) /\ Live # 0,
         Absorb(Tok(s, "publish_revoke_plan"), Live), a)

publish_open_attempt_ready(s) ==
    /\ Linked(s, "publish_revoke_plan", "publish_open_attempt")
    /\ OpenLive(Tok(s, "publish_open_attempt")) = 1

request_ahci_publish_exclusive_session(s, a) ==
    Plan(s, "publish_session", publish_open_attempt_ready(s) /\ Live # 0,
         Absorb(Tok(s, "publish_open_attempt"), Live), a)

publish_session_ready(s) ==
    /\ Linked(s, "publish_open_attempt", "publish_session")
    /\ SessionLive(Tok(s, "publish_session")) = 1

(* Ends every hardware handle, the caller's own included. *)
execute_ahci_publish_capability_drain(s, a) ==
    Plan(s, "publish_drain", publish_session_ready(s) /\ Live # 0,
         Tok(s, "publish_session"), a)

DrainedHandles(s, a) ==
    IF authorize(a) /\ publish_session_ready(s) THEN {} ELSE hw

-----------------------------------------------------------------------------
(* The driver's half.  t is the token argument: the token the stage before  *)
(* holds now, another one, or zero.                                         *)
Ready(s, x, t) == Has(s, x) /\ t = "current"

publish_drain_ready(s, t) == Ready(s, "publish_drain", t)

QueryOnly(h, o) == \E c \in hw : c.id = h /\ c.owner = o /\ c.rights = "query"

(* Mutant: whether a handle was granted since the drain is not looked at. *)
HandoffUnchecked(s, a, d) ==
    /\ a.owner = Supervisor /\ d = Driver
    /\ publish_drain_ready(s, a.token)
    /\ used < MaxHandles

(* The supervisor gives one driver principal the only hardware handle.  The *)
(* grant fails when no handle is left.                                      *)
HandoffAllowed(s, a, d) ==
    /\ a.owner = Supervisor /\ d = Driver
    /\ publish_drain_ready(s, a.token) /\ Live = 0
    /\ used < MaxHandles

stage_ahci_publish_driver_handoff(s, a, d) ==
    IF a.owner # Supervisor THEN s
    ELSE IF HandoffAllowed(s, a, d)
    THEN Mint(Reset(s, "publish_handoff"), "publish_handoff",
              Absorb(Tok(s, "publish_drain"), used + 1))
    ELSE Reset(s, "publish_handoff")

publish_handoff_ready(s, t) == Ready(s, "publish_handoff", t)

(* The handle is the one the chain was handed off with, it is live, belongs *)
(* to the driver and carries the QUERY right and no other.                  *)
BoundCap(s, a) ==
    a.cap = Cap(Tok(s, "publish_handoff")) /\ QueryOnly(a.cap, a.owner)

(* What every driver stage does: only the driver may call it; it resets     *)
(* itself and what follows, and mints its token if the stage before is      *)
(* ready and the handle bound.                                              *)
StageIf(s, x, ready, ok, t, a) ==
    IF a.owner # Driver THEN s
    ELSE IF ready /\ BoundCap(s, a) /\ ok
    THEN Mint(Reset(s, x), x, t) ELSE Reset(s, x)

Before(x) == Chain[Index[x] - 1]

Stage(s, x, ready, a) == StageIf(s, x, ready, TRUE, Tok(s, Before(x)), a)
=============================================================================
