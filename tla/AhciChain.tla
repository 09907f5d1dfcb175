----------------------------- MODULE AhciChain -----------------------------
(***************************************************************************)
(* The driver's stages of the staged AHCI read path, from the probe of the  *)
(* handed-off controller to loading programs, and the system: any stage     *)
(* called at any time, with any handle, by the driver or the supervisor,    *)
(* while handles come and go and drives are plugged.  AhciPlan holds the    *)
(* stages up to the hand-off and what all of them share.                    *)
(***************************************************************************)
EXTENDS AhciPlan

(* Reads the controller anew and selects a port by itself. *)
driver_read_probe(s, a, ok) ==
    StageIf(s, "driver_probe", publish_handoff_ready(s, a.token),
            ok /\ dev[SelectedPort] # None,
            Seen(Tok(s, "publish_handoff")), a)

driver_probe_ready(s, t) == Ready(s, "driver_probe", t)
driver_read_intent(s, a) == Stage(s, "driver_intent", driver_probe_ready(s, a.token), a)
driver_intent_ready(s, t) == Ready(s, "driver_intent", t)
driver_read_buffer(s, a) == Stage(s, "driver_buffer", driver_intent_ready(s, a.token), a)
driver_buffer_ready(s, t) == Ready(s, "driver_buffer", t)
driver_read_gate(s, a) == Stage(s, "driver_gate", driver_buffer_ready(s, a.token), a)
driver_gate_ready(s, t) == Ready(s, "driver_gate", t)
driver_read_execute(s, a) == Stage(s, "driver_exec", driver_gate_ready(s, a.token), a)
driver_exec_denied_ready(s, t) == Ready(s, "driver_exec", t)
driver_read_result(s, a) == Stage(s, "driver_result", driver_exec_denied_ready(s, a.token), a)
driver_result_denied_ready(s, t) == Ready(s, "driver_result", t)
driver_block_publish(s, a) == Stage(s, "driver_publish", driver_result_denied_ready(s, a.token), a)
driver_publish_denied_ready(s, t) == Ready(s, "driver_publish", t)
driver_read_grant(s, a) == Stage(s, "driver_read_grant", driver_publish_denied_ready(s, a.token), a)
driver_read_grant_denied_ready(s, t) == Ready(s, "driver_read_grant", t)
driver_media_read(s, a) == Stage(s, "driver_media_read", driver_read_grant_denied_ready(s, a.token), a)
driver_media_read_denied_ready(s, t) == Ready(s, "driver_media_read", t)
driver_complete(s, a) == Stage(s, "driver_complete", driver_media_read_denied_ready(s, a.token), a)
driver_complete_denied_ready(s, t) == Ready(s, "driver_complete", t)
driver_read_cap(s, a) == Stage(s, "driver_read_cap", driver_complete_denied_ready(s, a.token), a)
driver_read_cap_denied_ready(s, t) == Ready(s, "driver_read_cap", t)
driver_read_export(s, a) == Stage(s, "driver_read_export", driver_read_cap_denied_ready(s, a.token), a)
driver_read_export_denied_ready(s, t) == Ready(s, "driver_read_export", t)
driver_read_response(s, a) == Stage(s, "driver_read_response", driver_read_export_denied_ready(s, a.token), a)
driver_read_response_denied_ready(s, t) == Ready(s, "driver_read_response", t)
driver_read_delivery(s, a) == Stage(s, "driver_read_delivery", driver_read_response_denied_ready(s, a.token), a)
driver_read_delivery_denied_ready(s, t) == Ready(s, "driver_read_delivery", t)
driver_read_visible(s, a) == Stage(s, "driver_read_visible", driver_read_delivery_denied_ready(s, a.token), a)
driver_read_visible_denied_ready(s, t) == Ready(s, "driver_read_visible", t)
driver_read_commit(s, a) == Stage(s, "driver_read_commit", driver_read_visible_denied_ready(s, a.token), a)
driver_read_commit_denied_ready(s, t) == Ready(s, "driver_read_commit", t)
driver_read_audit(s, a) == Stage(s, "driver_read_audit", driver_read_commit_denied_ready(s, a.token), a)
driver_read_audit_denied_ready(s, t) == Ready(s, "driver_read_audit", t)
driver_read_upgrade(s, a) == Stage(s, "driver_read_upgrade", driver_read_audit_denied_ready(s, a.token), a)
driver_read_upgrade_denied_ready(s, t) == Ready(s, "driver_read_upgrade", t)
driver_read_activate(s, a) == Stage(s, "driver_read_activate", driver_read_upgrade_denied_ready(s, a.token), a)
driver_read_activate_denied_ready(s, t) == Ready(s, "driver_read_activate", t)
driver_read_arm(s, a) == Stage(s, "driver_read_arm", driver_read_activate_denied_ready(s, a.token), a)
driver_read_arm_denied_ready(s, t) == Ready(s, "driver_read_arm", t)
driver_read_submit(s, a) == Stage(s, "driver_read_submit", driver_read_arm_denied_ready(s, a.token), a)
driver_read_submit_denied_ready(s, t) == Ready(s, "driver_read_submit", t)
driver_read_observe(s, a) == Stage(s, "driver_read_observe", driver_read_submit_denied_ready(s, a.token), a)
driver_read_observe_denied_ready(s, t) == Ready(s, "driver_read_observe", t)
driver_read_retire(s, a) == Stage(s, "driver_read_retire", driver_read_observe_denied_ready(s, a.token), a)
driver_read_retire_denied_ready(s, t) == Ready(s, "driver_read_retire", t)
driver_read_permit(s, a) == Stage(s, "driver_read_permit", driver_read_retire_denied_ready(s, a.token), a)
driver_read_permit_denied_ready(s, t) == Ready(s, "driver_read_permit", t)
driver_read_window(s, a) == Stage(s, "driver_read_window", driver_read_permit_denied_ready(s, a.token), a)
driver_read_window_denied_ready(s, t) == Ready(s, "driver_read_window", t)
driver_read_lease(s, a) == Stage(s, "driver_read_lease", driver_read_window_denied_ready(s, a.token), a)
driver_read_lease_denied_ready(s, t) == Ready(s, "driver_read_lease", t)
driver_read_use(s, a) == Stage(s, "driver_read_use", driver_read_lease_denied_ready(s, a.token), a)
driver_read_use_denied_ready(s, t) == Ready(s, "driver_read_use", t)
driver_read_report(s, a) == Stage(s, "driver_read_report", driver_read_use_denied_ready(s, a.token), a)
driver_read_report_denied_ready(s, t) == Ready(s, "driver_read_report", t)
driver_read_receipt(s, a) == Stage(s, "driver_read_receipt", driver_read_report_denied_ready(s, a.token), a)
driver_read_receipt_denied_ready(s, t) == Ready(s, "driver_read_receipt", t)
driver_read_ack(s, a) == Stage(s, "driver_read_ack", driver_read_receipt_denied_ready(s, a.token), a)
driver_read_ack_denied_ready(s, t) == Ready(s, "driver_read_ack", t)
driver_read_close(s, a) == Stage(s, "driver_read_close", driver_read_ack_denied_ready(s, a.token), a)
driver_read_close_denied_ready(s, t) == Ready(s, "driver_read_close", t)
driver_read_seal(s, a) == Stage(s, "driver_read_seal", driver_read_close_denied_ready(s, a.token), a)
driver_read_seal_denied_ready(s, t) == Ready(s, "driver_read_seal", t)
driver_read_unseal(s, a) == Stage(s, "driver_read_unseal", driver_read_seal_denied_ready(s, a.token), a)
driver_read_unseal_denied_ready(s, t) == Ready(s, "driver_read_unseal", t)
driver_read_discard(s, a) == Stage(s, "driver_read_discard", driver_read_unseal_denied_ready(s, a.token), a)
driver_read_discard_denied_ready(s, t) == Ready(s, "driver_read_discard", t)
driver_read_finalize(s, a) == Stage(s, "driver_read_finalize", driver_read_discard_denied_ready(s, a.token), a)
driver_read_finalize_denied_ready(s, t) == Ready(s, "driver_read_finalize", t)
driver_read_authorize(s, a) == Stage(s, "driver_read_authorize", driver_read_finalize_denied_ready(s, a.token), a)
driver_read_authorize_denied_ready(s, t) == Ready(s, "driver_read_authorize", t)
driver_read_dispatch(s, a) == Stage(s, "driver_read_dispatch", driver_read_authorize_denied_ready(s, a.token), a)
driver_read_dispatch_denied_ready(s, t) == Ready(s, "driver_read_dispatch", t)
driver_read_queue(s, a) == Stage(s, "driver_read_queue", driver_read_dispatch_denied_ready(s, a.token), a)
driver_read_queue_denied_ready(s, t) == Ready(s, "driver_read_queue", t)
driver_read_worker(s, a) == Stage(s, "driver_read_worker", driver_read_queue_denied_ready(s, a.token), a)
driver_read_worker_denied_ready(s, t) == Ready(s, "driver_read_worker", t)
driver_read_schedule(s, a) == Stage(s, "driver_read_schedule", driver_read_worker_denied_ready(s, a.token), a)
driver_read_schedule_denied_ready(s, t) == Ready(s, "driver_read_schedule", t)
driver_read_run(s, a) == Stage(s, "driver_read_run", driver_read_schedule_denied_ready(s, a.token), a)
driver_read_run_denied_ready(s, t) == Ready(s, "driver_read_run", t)
driver_read_body(s, a) == Stage(s, "driver_read_body", driver_read_run_denied_ready(s, a.token), a)
driver_read_body_denied_ready(s, t) == Ready(s, "driver_read_body", t)
driver_read_issue(s, a) == Stage(s, "driver_read_issue", driver_read_body_denied_ready(s, a.token), a)
driver_read_issue_denied_ready(s, t) == Ready(s, "driver_read_issue", t)
driver_read_dma(s, a) == Stage(s, "driver_read_dma", driver_read_issue_denied_ready(s, a.token), a)
driver_read_dma_denied_ready(s, t) == Ready(s, "driver_read_dma", t)
driver_read_irq(s, a) == Stage(s, "driver_read_irq", driver_read_dma_denied_ready(s, a.token), a)
driver_read_irq_denied_ready(s, t) == Ready(s, "driver_read_irq", t)
driver_read_status(s, a) == Stage(s, "driver_read_status", driver_read_irq_denied_ready(s, a.token), a)
driver_read_status_denied_ready(s, t) == Ready(s, "driver_read_status", t)
driver_read_status_result(s, a) == Stage(s, "status_result", driver_read_status_denied_ready(s, a.token), a)
driver_read_status_result_denied_ready(s, t) == Ready(s, "status_result", t)

(* ok: the interrupt, command and error registers read now are acceptable;  *)
(* for clear and resample, also what the stage before recorded.             *)
driver_read_status_sample(s, a, ok) ==
    StageIf(s, "status_sample", driver_read_status_result_denied_ready(s, a.token), ok,
            Tok(s, "status_result"), a)

driver_read_status_sample_ready(s, t) == Ready(s, "status_sample", t)

driver_read_status_clear(s, a, ok) ==
    StageIf(s, "status_clear", driver_read_status_sample_ready(s, a.token), ok,
            Tok(s, "status_sample"), a)

driver_read_status_clear_denied_ready(s, t) == Ready(s, "status_clear", t)
driver_read_status_clear_result(s, a) == Stage(s, "status_clear_result", driver_read_status_clear_denied_ready(s, a.token), a)
driver_read_status_clear_result_ready(s, t) == Ready(s, "status_clear_result", t)

driver_read_status_resample(s, a, ok, same) ==
    StageIf(s, "status_resample", driver_read_status_clear_result_ready(s, a.token), ok,
            Absorb(Tok(s, "status_clear_result"), Flag(same)), a)

driver_read_status_resample_ready(s, t) == Ready(s, "status_resample", t)

driver_read_status_stable(s, a) ==
    StageIf(s, "status_stable", driver_read_status_resample_ready(s, a.token),
            Steady(Tok(s, "status_resample")), Tok(s, "status_resample"), a)

driver_read_status_stable_ready(s, t) == Ready(s, "status_stable", t)
driver_read_status_guard(s, a) == Stage(s, "status_guard", driver_read_status_stable_ready(s, a.token), a)
driver_read_status_guard_ready(s, t) == Ready(s, "status_guard", t)
driver_read_status_buffer(s, a) == Stage(s, "status_buffer", driver_read_status_guard_ready(s, a.token), a)
driver_read_status_buffer_ready(s, t) == Ready(s, "status_buffer", t)
driver_read_status_export(s, a) == Stage(s, "status_export", driver_read_status_buffer_ready(s, a.token), a)
driver_read_status_export_denied_ready(s, t) == Ready(s, "status_export", t)
driver_read_status_report(s, a) == Stage(s, "status_report", driver_read_status_export_denied_ready(s, a.token), a)
driver_read_status_report_denied_ready(s, t) == Ready(s, "status_report", t)
driver_read_status_receipt(s, a) == Stage(s, "status_receipt", driver_read_status_report_denied_ready(s, a.token), a)
driver_read_status_receipt_denied_ready(s, t) == Ready(s, "status_receipt", t)
driver_read_status_ack(s, a) == Stage(s, "status_ack", driver_read_status_receipt_denied_ready(s, a.token), a)
driver_read_status_ack_denied_ready(s, t) == Ready(s, "status_ack", t)
driver_read_status_close(s, a) == Stage(s, "status_close", driver_read_status_ack_denied_ready(s, a.token), a)
driver_read_status_close_denied_ready(s, t) == Ready(s, "status_close", t)
driver_read_status_seal(s, a) == Stage(s, "status_seal", driver_read_status_close_denied_ready(s, a.token), a)
driver_read_status_seal_denied_ready(s, t) == Ready(s, "status_seal", t)
driver_read_status_unseal(s, a) == Stage(s, "status_unseal", driver_read_status_seal_denied_ready(s, a.token), a)
driver_read_status_unseal_denied_ready(s, t) == Ready(s, "status_unseal", t)
driver_read_status_discard(s, a) == Stage(s, "status_discard", driver_read_status_unseal_denied_ready(s, a.token), a)
driver_read_status_discard_denied_ready(s, t) == Ready(s, "status_discard", t)
driver_read_status_finalize(s, a) == Stage(s, "status_finalize", driver_read_status_discard_denied_ready(s, a.token), a)
driver_read_status_finalize_denied_ready(s, t) == Ready(s, "status_finalize", t)
driver_read_status_authorize(s, a) == Stage(s, "status_authorize", driver_read_status_finalize_denied_ready(s, a.token), a)
driver_read_status_authorize_denied_ready(s, t) == Ready(s, "status_authorize", t)
driver_read_status_dispatch(s, a) == Stage(s, "status_dispatch", driver_read_status_authorize_denied_ready(s, a.token), a)
driver_read_status_dispatch_denied_ready(s, t) == Ready(s, "status_dispatch", t)
driver_read_status_queue(s, a) == Stage(s, "status_queue", driver_read_status_dispatch_denied_ready(s, a.token), a)
driver_read_status_queue_denied_ready(s, t) == Ready(s, "status_queue", t)
driver_read_status_worker(s, a) == Stage(s, "status_worker", driver_read_status_queue_denied_ready(s, a.token), a)
driver_read_status_worker_denied_ready(s, t) == Ready(s, "status_worker", t)
driver_read_status_read_authority(s, a) == Stage(s, "status_read_authority", driver_read_status_worker_denied_ready(s, a.token), a)
driver_read_status_read_authority_ready(s, t) == Ready(s, "status_read_authority", t)

(* Only the shape of an ATAPI read passes. *)
driver_read_status_descriptor(s, a) ==
    StageIf(s, "status_descriptor", driver_read_status_read_authority_ready(s, a.token),
            ProbedKind(Tok(s, "status_read_authority")) = Atapi,
            Tok(s, "status_read_authority"), a)

driver_read_status_descriptor_ready(s, t) == Ready(s, "status_descriptor", t)

driver_read_status_command_table(s, a) ==
    StageIf(s, "status_command_table", driver_read_status_descriptor_ready(s, a.token),
            Has(s, "table_plan") /\ Kind(Tok(s, "table_plan")) = Atapi,
            Tok(s, "status_descriptor"), a)

(* The issue plan as it was recorded: staged, and from the present table. *)
IssuePlanned(s) == Linked(s, "table_plan", "issue_plan")

driver_read_status_command_table_ready(s, t) == Ready(s, "status_command_table", t)

driver_read_status_command_issue(s, a) ==
    StageIf(s, "status_command_issue", driver_read_status_command_table_ready(s, a.token),
            IssuePlanned(s), Tok(s, "status_command_table"), a)

driver_read_status_command_issue_denied_ready(s, t) == Ready(s, "status_command_issue", t)

driver_read_status_issue_grant(s, a) ==
    StageIf(s, "status_issue_grant", driver_read_status_command_issue_denied_ready(s, a.token),
            IssuePlanned(s), Tok(s, "status_command_issue"), a)

driver_read_status_issue_grant_denied_ready(s, t) == Ready(s, "status_issue_grant", t)

driver_read_status_arm(s, a) ==
    StageIf(s, "status_arm", driver_read_status_issue_grant_denied_ready(s, a.token),
            IssuePlanned(s), Tok(s, "status_issue_grant"), a)

driver_read_status_arm_denied_ready(s, t) == Ready(s, "status_arm", t)

driver_read_status_exec(s, a) ==
    StageIf(s, "status_exec", driver_read_status_arm_denied_ready(s, a.token),
            IssuePlanned(s), Tok(s, "status_arm"), a)

driver_read_status_exec_denied_ready(s, t) == Ready(s, "status_exec", t)

driver_read_status_dma(s, a) ==
    StageIf(s, "status_dma", driver_read_status_exec_denied_ready(s, a.token),
            IssuePlanned(s), Tok(s, "status_exec"), a)

driver_read_status_dma_denied_ready(s, t) == Ready(s, "status_dma", t)

(* Writes zero to the probed port's interrupt status, which changes nothing.*)
(* A token that is not the current one is denied without a reset.           *)
driver_read_status_mmio(s, a, ok) ==
    IF a.owner = Driver /\ Has(s, "status_dma") /\ a.token # "current" THEN s
    ELSE StageIf(s, "status_mmio", driver_read_status_dma_denied_ready(s, a.token),
                 ok /\ IssuePlanned(s), Tok(s, "status_dma"), a)

driver_read_status_mmio_written_ready(s, t) == Ready(s, "status_mmio", t)

(* The window is bound only if a stale token was denied here before. *)
driver_read_status_dma_window(s, a) ==
    IF a.owner = Driver /\ Has(s, "status_mmio") /\ a.token # "current"
    THEN [s EXCEPT !.stale = TRUE]
    ELSE StageIf(s, "status_dma_window", driver_read_status_mmio_written_ready(s, a.token),
                 /\ s.stale /\ IssuePlanned(s) /\ Has(s, "memory_plan")
                 /\ Kind(Tok(s, "memory_plan")) = Atapi,
                 Tok(s, "status_mmio"), a)

driver_read_status_dma_window_ready(s, t) == Ready(s, "status_dma_window", t)

(* From here on a zero token resets the stage, a wrong one is denied. *)
Denied(s, x, a) ==
    \/ a.owner # Driver \/ a.token = "stale"
    \/ a.token = "current" /\ ~Has(s, Before(x))

(* The command table after the patch, and what a command issued with it     *)
(* leaves in the bounce buffer.                                             *)
Rearmed(table) == IF table = "rerouted" THEN table ELSE "armed"
Fetched(table) == IF table = "rerouted" THEN "stray" ELSE "read"

(* What a checksum recorded by status_read matches. *)
Sealed == {"read", "stray"}

ReadOutcomes == {"unmapped", "busy", "sealed", "timeout", "error", "open", "good"}

(* Mutant: the token is checked, the handle is not. *)
ReadWithoutHandle(s, a) ==
    /\ driver_read_status_dma_window_ready(s, a.token)
    /\ ProbedKind(Tok(s, "status_dma_window")) = Atapi
    /\ Kind(Tok(s, "memory_plan")) = Atapi /\ Has(s, "map")

ReadAllowed(s, a) ==
    /\ driver_read_status_dma_window_ready(s, a.token) /\ BoundCap(s, a)
    /\ ProbedKind(Tok(s, "status_dma_window")) = Atapi
    /\ Kind(Tok(s, "memory_plan")) = Atapi /\ Has(s, "map")

(* The only stage that issues a planned command.  It patches the page       *)
(* before it looks at the port: unmapped, busy and sealed (the aperture     *)
(* stays closed) come before the command, the other outcomes after it.  The *)
(* patch does not write the sector's number: a table that a file's sector   *)
(* was routed through since it was prepared still asks for that sector, and *)
(* the read seals a stray one.                                              *)
driver_read_status_read(s, a, out) ==
    IF Denied(s, "status_read", a) THEN s
    ELSE IF ~ReadAllowed(s, a) THEN Reset(s, "status_read")
    ELSE LET r == Reset(s, "status_read")
             p == [r EXCEPT !.page = [table |-> Rearmed(s.page.table), bounce |-> "zero"]]
             i == [p EXCEPT !.issued = TRUE]
         IN  CASE out \in {"unmapped", "busy", "sealed"} -> p
               [] out = "timeout" -> [i EXCEPT !.late = TRUE]
               [] out \in {"error", "open"} -> i
               [] out = "good" ->
                    Mint([i EXCEPT !.page.bounce = Fetched(p.page.table)],
                         "status_read", Tok(s, "status_dma_window"))


(* Mutant: the bounce buffer is not compared with the checksum of the read. *)
block_without_checksum(s, a) ==
    LET r == Reset(s, "status_block")
        free == BlockSlots - s.blocks
    IN  IF Denied(s, "status_block", a) THEN s
        ELSE IF Ready(s, "status_read", a.token) /\ BoundCap(s, a) /\ free > 2
        THEN Mint([r EXCEPT !.blocks = @ + 2, !.bcap = TRUE, !.buf = s.page.bounce],
                  "status_block", Tok(s, "status_read"))
        ELSE r

(* Mints a block handle and delegates it twice, the second time to revoke   *)
(* that delegate and find it stale: three free slots are needed, two stay   *)
(* taken, and neither is given back when the stage fails or is reset.       *)
driver_read_status_block(s, a) ==
    LET r == Reset(s, "status_block")
        free == BlockSlots - s.blocks
        m == [r EXCEPT !.blocks = @ + Min({free, 2}), !.bcap = free > 0]
        c == [m EXCEPT !.buf = s.page.bounce]
    IN  IF Denied(s, "status_block", a) THEN s
        ELSE IF ~(Ready(s, "status_read", a.token) /\ BoundCap(s, a)) THEN r
        ELSE IF free > 2 /\ s.page.bounce \in Sealed
        THEN Mint(c, "status_block", Tok(s, "status_read"))
        ELSE IF free < 2 THEN m ELSE c


(* Reading sectors through the same page, with the sector's number written  *)
(* into its command table for good.  "unmapped": nothing was touched;       *)
(* "busy": the page is patched but no command issued; "timeout" and "io": a *)
(* command failed; "bad": the sectors are not what the stage expects.       *)
SectorOutcomes == {"unmapped", "busy", "timeout", "io", "bad", "good"}

route_sectors(s, out) ==
    IF out = "unmapped" THEN s
    ELSE [s EXCEPT !.page = [table |-> "rerouted",
                             bounce |-> IF out \in {"bad", "good"} THEN "file" ELSE "zero"],
                   !.late = @ \/ out = "timeout",
                   !.issued = out # "busy"]

Filed(s, x, ready, out, a) ==
    IF Denied(s, x, a) THEN s
    ELSE LET r == Reset(s, x)
             f == route_sectors(r, out)
         IN  IF ~(Ready(s, Before(x), a.token) /\ ready) THEN r
             ELSE IF out = "good" THEN Mint(f, x, Tok(s, Before(x))) ELSE f

(* bound: the handle presented is the block handle minted last. *)
driver_read_status_fs(s, a, bound, out) ==
    Filed(s, "status_fs", bound /\ s.bcap, out, a)


(* ok: the path is readable.  The filesystem handle is minted before the    *)
(* read and stays active if that fails.                                     *)
driver_read_status_fs_user(s, a, ok, out) ==
    LET f == Filed(s, "status_fs_user", ok, out, a)
    IN  IF Denied(s, "status_fs_user", a) THEN s
        ELSE [f EXCEPT !.fscap = ok /\ Ready(s, "status_fs", a.token)]

fs_user_read_allowed(s) == s.fscap


driver_read_status_fs_shell(s, a, out) ==
    Filed(s, "status_fs_shell", fs_user_read_allowed(s), out, a)


(* ok: the image was mapped. *)
driver_read_status_load(s, a, ok, out) ==
    LET f == Filed(s, "status_load", fs_user_read_allowed(s), out, a)
    IN  IF ok \/ Denied(s, "status_load", a) THEN f
        ELSE Mint(f, "status_load", NoToken)

LsResult == 2

load_record_launch(s, r) ==
    IF ~Has(s, "status_load") THEN s
    ELSE Mint([s EXCEPT !.ls = @ \/ r = LsResult], "status_load",
              Absorb(Tok(s, "status_fs_shell"), r))


driver_read_status_load_full(s, a, out) ==
    Filed(s, "status_load_full", s.ls /\ Has(s, "status_fs_shell"), out, a)


-----------------------------------------------------------------------------
(* The state a call starts from: it has not issued a command yet. *)
Now == [chain EXCEPT !.issued = FALSE]

(* A call that changes nothing is no step. *)
Do(s) == s # chain /\ chain' = s /\ UNCHANGED <<hw, used, dev, plugs>>

Call(o, h, t) == [owner |-> o, cap |-> h, token |-> t]

(* Planning calls take no token.  One without a live handle is denied.      *)
PlanCalls == {Call(h.owner, h.id, "zero") : h \in hw} \cup {Call(Driver, 1, "zero")}

SupervisorCalls == {Call(Supervisor, 0, t) : t \in {"current", "stale"}}
                       \cup {Call(Driver, 0, "current")}

(* The driver presents the handle it was given and the present token, or    *)
(* does not: the ladder's stages treat a wrong token and a wrong handle     *)
(* alike, the others are also called with each of them wrong.  A stranger   *)
(* is denied whatever it presents.                                          *)
LadderCalls == {Call(Driver, Cap(Tok(chain, "publish_handoff")), "current"),
                Call(Driver, 1, "stale")}

DriverCalls ==
    LadderCalls \cup {Call(Driver, 1, "current"), Call(Driver, 1, "zero"),
                      Call(Supervisor, 1, "current")}

(* Without the stage before, a stage reads nothing and has no outcomes. *)
Outcomes(x, all) == IF Has(chain, Before(x)) THEN all ELSE {"good"}

Planning(a) ==
    \/ \E ok \in BOOLEAN : Do(register_ahci_candidate(Now, ok))
    \/ \E ok \in BOOLEAN : Do(request_ahci_mapping(Now, a, ok))
    \/ Do(snapshot_ahci_registers(Now, a))
    \/ \E idle \in BOOLEAN : Do(snapshot_ahci_ports(Now, a, idle))
    \/ Do(classify_ahci_port(Now, a))
    \/ Do(stage_ahci_read_plan(Now, a))
    \/ Do(stage_ahci_command_plan(Now, a))
    \/ Do(stage_ahci_memory_plan(Now, a))
    \/ Do(prepare_ahci_command_table(Now, a))
    \/ Do(preflight_ahci_command_issue(Now, a))
    \/ Do(stage_ahci_address_bind_plan(Now, a))
    \/ Do(apply_ahci_private_address_patch(Now, a))
    \/ Do(stage_ahci_controller_publish_plan(Now, a))
    \/ Do(gate_ahci_controller_publication(Now, a))
    \/ Do(stage_ahci_publish_write_window_policy(Now, a))
    \/ Do(stage_ahci_publish_revocation_plan(Now, a))
    \/ Do(try_open_ahci_publish_write_window(Now, a))
    \/ Do(request_ahci_publish_exclusive_session(Now, a))

Drain(a) ==
    /\ chain' = execute_ahci_publish_capability_drain(Now, a)
    /\ hw' = DrainedHandles(Now, a)
    /\ UNCHANGED <<used, dev, plugs>>

Handoff(a) ==
    \E d \in Owners :
        /\ chain' = stage_ahci_publish_driver_handoff(Now, a, d)
        /\ IF HandoffAllowed(Now, a, d)
           THEN /\ used' = used + 1
                /\ hw' = hw \cup {[id |-> used + 1, owner |-> Driver, rights |-> "query"]}
           ELSE UNCHANGED <<hw, used>>
        /\ UNCHANGED <<dev, plugs>>

Ladder(a) ==
    \/ Do(driver_read_intent(Now, a))
    \/ Do(driver_read_buffer(Now, a))
    \/ Do(driver_read_gate(Now, a))
    \/ Do(driver_read_execute(Now, a))
    \/ Do(driver_read_result(Now, a))
    \/ Do(driver_block_publish(Now, a))
    \/ Do(driver_read_grant(Now, a))
    \/ Do(driver_media_read(Now, a))
    \/ Do(driver_complete(Now, a))
    \/ Do(driver_read_cap(Now, a))
    \/ Do(driver_read_export(Now, a))
    \/ Do(driver_read_response(Now, a))
    \/ Do(driver_read_delivery(Now, a))
    \/ Do(driver_read_visible(Now, a))
    \/ Do(driver_read_commit(Now, a))
    \/ Do(driver_read_audit(Now, a))
    \/ Do(driver_read_upgrade(Now, a))
    \/ Do(driver_read_activate(Now, a))
    \/ Do(driver_read_arm(Now, a))
    \/ Do(driver_read_submit(Now, a))
    \/ Do(driver_read_observe(Now, a))
    \/ Do(driver_read_retire(Now, a))
    \/ Do(driver_read_permit(Now, a))
    \/ Do(driver_read_window(Now, a))
    \/ Do(driver_read_lease(Now, a))
    \/ Do(driver_read_use(Now, a))
    \/ Do(driver_read_report(Now, a))
    \/ Do(driver_read_receipt(Now, a))
    \/ Do(driver_read_ack(Now, a))
    \/ Do(driver_read_close(Now, a))
    \/ Do(driver_read_seal(Now, a))
    \/ Do(driver_read_unseal(Now, a))
    \/ Do(driver_read_discard(Now, a))
    \/ Do(driver_read_finalize(Now, a))
    \/ Do(driver_read_authorize(Now, a))
    \/ Do(driver_read_dispatch(Now, a))
    \/ Do(driver_read_queue(Now, a))
    \/ Do(driver_read_worker(Now, a))
    \/ Do(driver_read_schedule(Now, a))
    \/ Do(driver_read_run(Now, a))
    \/ Do(driver_read_body(Now, a))
    \/ Do(driver_read_issue(Now, a))
    \/ Do(driver_read_dma(Now, a))
    \/ Do(driver_read_irq(Now, a))
    \/ Do(driver_read_status(Now, a))
    \/ Do(driver_read_status_result(Now, a))
    \/ Do(driver_read_status_clear_result(Now, a))
    \/ Do(driver_read_status_guard(Now, a))
    \/ Do(driver_read_status_buffer(Now, a))
    \/ Do(driver_read_status_export(Now, a))
    \/ Do(driver_read_status_report(Now, a))
    \/ Do(driver_read_status_receipt(Now, a))
    \/ Do(driver_read_status_ack(Now, a))
    \/ Do(driver_read_status_close(Now, a))
    \/ Do(driver_read_status_seal(Now, a))
    \/ Do(driver_read_status_unseal(Now, a))
    \/ Do(driver_read_status_discard(Now, a))
    \/ Do(driver_read_status_finalize(Now, a))
    \/ Do(driver_read_status_authorize(Now, a))
    \/ Do(driver_read_status_dispatch(Now, a))
    \/ Do(driver_read_status_queue(Now, a))
    \/ Do(driver_read_status_worker(Now, a))
    \/ Do(driver_read_status_read_authority(Now, a))

Hardware(a) ==
    \/ \E ok \in BOOLEAN : Do(driver_read_probe(Now, a, ok))
    \/ \E ok \in BOOLEAN : Do(driver_read_status_sample(Now, a, ok))
    \/ \E ok \in BOOLEAN : Do(driver_read_status_clear(Now, a, ok))
    \/ \E ok, same \in BOOLEAN : Do(driver_read_status_resample(Now, a, ok, same))
    \/ Do(driver_read_status_stable(Now, a))
    \/ Do(driver_read_status_descriptor(Now, a))
    \/ Do(driver_read_status_command_table(Now, a))
    \/ Do(driver_read_status_command_issue(Now, a))
    \/ Do(driver_read_status_issue_grant(Now, a))
    \/ Do(driver_read_status_arm(Now, a))
    \/ Do(driver_read_status_exec(Now, a))
    \/ Do(driver_read_status_dma(Now, a))
    \/ \E ok \in BOOLEAN : Do(driver_read_status_mmio(Now, a, ok))
    \/ Do(driver_read_status_dma_window(Now, a))
    \/ \E out \in Outcomes("status_read", ReadOutcomes) :
           Do(driver_read_status_read(Now, a, out))
    \/ Do(driver_read_status_block(Now, a))

Filesystem(a) ==
    \/ \E bound \in BOOLEAN, out \in Outcomes("status_fs", SectorOutcomes) :
           Do(driver_read_status_fs(Now, a, bound, out))
    \/ \E ok \in BOOLEAN, out \in Outcomes("status_fs_user", SectorOutcomes) :
           Do(driver_read_status_fs_user(Now, a, ok, out))
    \/ \E out \in Outcomes("status_fs_shell", SectorOutcomes) :
           Do(driver_read_status_fs_shell(Now, a, out))
    \/ \E ok \in BOOLEAN, out \in Outcomes("status_load", SectorOutcomes) :
           Do(driver_read_status_load(Now, a, ok, out))
    \/ \E out \in Outcomes("status_load_full", SectorOutcomes) :
           Do(driver_read_status_load_full(Now, a, out))

(* The environment: the launched program reports, a stopped engine finishes *)
(* a transfer late, handles are granted and revoked, devices are plugged.   *)
Environment ==
    \/ \E r \in {LsResult, 1} : Do(load_record_launch(Now, r))
    \/ chain.late /\ Do([Now EXCEPT !.late = FALSE, !.page.bounce = "late"])
    \/ chain.bcap /\ Do([Now EXCEPT !.bcap = FALSE, !.blocks = @ - 1])
    \/ \E h \in hw : hw' = hw \ {h} /\ chain' = Now /\ UNCHANGED <<used, dev, plugs>>
    \/ /\ used < MaxHandles
       /\ used' = used + 1
       /\ \E g \in Grants :
              hw' = hw \cup {[id |-> used + 1, owner |-> g.owner, rights |-> g.rights]}
       /\ chain' = Now /\ UNCHANGED <<dev, plugs>>
    \/ /\ plugs < MaxPlugs /\ plugs' = plugs + 1
       /\ dev' \in Cablings \ {dev}
       /\ chain' = Now /\ UNCHANGED <<hw, used>>

Init ==
    /\ chain = [tok |-> Unstaged, candidate |-> FALSE,
                page |-> [table |-> "zero", bounce |-> "zero"],
                stale |-> FALSE, late |-> FALSE, issued |-> FALSE,
                buf |-> "zero", bcap |-> FALSE, blocks |-> 0,
                fscap |-> FALSE, ls |-> FALSE]
    /\ hw = {[id |-> 1, owner |-> Supervisor, rights |-> "full"]}
    /\ used = 1
    /\ dev \in Cablings /\ plugs = 0

Next ==
    \/ \E a \in PlanCalls : Planning(a) \/ Drain(a)
    \/ \E a \in SupervisorCalls : Handoff(a)
    \/ \E a \in LadderCalls : Ladder(a)
    \/ \E a \in DriverCalls : Hardware(a) \/ Filesystem(a)
    \/ Environment

Spec == Init /\ [][Next]_vars

-----------------------------------------------------------------------------
(* No stage outlives what it was built on: a stage that holds a token has   *)
(* every stage before it staged, and was minted from the token that the one *)
(* before it holds now.  load_full is linked otherwise, since               *)
(* load_record_launch mints load's token anew without resetting it: the     *)
(* programs are registered only after the one loaded first ran.             *)
LinkedChain ==
    /\ \A x \in Range(Chain) \ {"map", "status_load_full"} :
         Has(chain, x) => Linked(chain, Before(x), x)
    /\ Has(chain, "status_load_full") => chain.ls /\ Has(chain, "status_load")

(* Once the driver holds the chain no handle from before the drain is live: *)
(* every live hardware handle was granted with the hand-off or after it.    *)
OldHandlesDead ==
    Has(chain, "publish_handoff") =>
        \A h \in hw : h.id >= Cap(Tok(chain, "publish_handoff"))

(* The published block is what a status_read of this chain fetched, though  *)
(* the filesystem stages and a transfer that ends after its time-out write  *)
(* the same bounce buffer; and it is the planned sector as long as no file  *)
(* was read through the command table since it was prepared.  (After that   *)
(* the code reads and publishes the file's sector until the table is        *)
(* prepared anew, which takes the whole chain back.)                        *)
BlockIsReadSector ==
    Has(chain, "status_block") =>
        /\ chain.buf \in Sealed
        /\ chain.page.table # "rerouted" => chain.buf = "read"

(* A command reaches the controller only with the whole chain staged and    *)
(* only if the drive that the last port snapshot found is an ATAPI one,     *)
(* whatever is plugged and snapshot between the plan, the probe and the     *)
(* read; and the first command of a chain is issued under the driver's own  *)
(* handle, live and query-only at that moment, not merely when the chain    *)
(* was built. *)
CommandsJustified ==
    [][chain'.issued =>
         /\ Has(chain, "status_dma_window")
         /\ Kind(Tok(chain, "port_snapshot")) = Atapi
         /\ ~Has(chain, "status_block") =>
              QueryOnly(Cap(Tok(chain, "publish_handoff")), Driver)]_vars
=============================================================================
