---------------------------- MODULE MCCapability ----------------------------
(***************************************************************************)
(* Small instances of Capability for TLC.  MCSpec explores two of them in   *)
(* one run: a delegable class under a moving clock (leases, orphans, slot  *)
(* reuse), and two classes with two personas under a still one (class      *)
(* separation, persona tags).                                              *)
(***************************************************************************)
EXTENDS Capability

CONSTANTS sys, p1, unknown, linux, windows, console, ramfs

MCPrincipals == {sys, p1}
MCOwnerArgs == {NoOwner, p1, unknown}
MCRightsArgs == {{}, {"query"}, Rights, {"send", "other"}}
OneClass == {console}
TwoClasses == {console, ramfs}
TwoPersonas == {linux, windows}
NoPersonas == {}
OneHost == {p1}
NoHost == {}

UnderMovingClock ==
    /\ runtime[ramfs] = 0
    /\ \A p \in Principals : persona[p] = NoPersona
    /\ \A s \in Slots : Active(s) => table[s].class = console /\ table[s].persona = NoPersona

WithPersonas == tick = 0 /\ nextHandle <= 3 /\ \A c \in Classes : runtime[c] <= 1

MCSpec == Init /\ [][Next /\ (UnderMovingClock \/ WithPersonas)']_vars
=============================================================================
