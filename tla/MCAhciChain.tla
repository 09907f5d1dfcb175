---------------------------- MODULE MCAhciChain ----------------------------
(***************************************************************************)
(* A controller with two ports and an ATAPI drive on the second.  Two       *)
(* instances are explored in one run: a SATA drive is plugged into the      *)
(* first port at any moment while the chain is built and followed to its    *)
(* end, with the supervisor's handle and one more; or nothing is plugged,   *)
(* handles are granted to the driver before and after the hand-off, and the *)
(* chain is followed up to the planned read.                                *)
(***************************************************************************)
EXTENDS AhciChain

MCPorts == {0, 1}
MCCablings == {(0 :> None) @@ (1 :> Atapi), (0 :> Sata) @@ (1 :> Atapi)}
MCGrants == {[owner |-> Driver, rights |-> "query"]}

MCInit == Init /\ dev[0] = None

MCSpec == MCInit /\ [][Next]_vars

WithPlugs == used <= 2

WithGrants == plugs = 0 /\ chain.blocks = 0

Explored == WithPlugs \/ WithGrants
=============================================================================
