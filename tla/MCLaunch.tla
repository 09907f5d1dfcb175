------------------------------ MODULE MCLaunch ------------------------------
(***************************************************************************)
(* Two services: telemetry, which serves class 0 like every manifest that  *)
(* is not launched yet, and the console, whose handles can be delegated.   *)
(***************************************************************************)
EXTENDS Launch

CONSTANTS sys, none, console

MCPrincipals == {sys}
MCClasses == {none, console}
MCDelegable == {console}
MCRightsArgs == {{}, {"send", "delegate"}}
MCServiceClassOf == [m \in Manifests |-> IF m = 0 THEN none ELSE console]
MCBindable == {0, 1}
Nothing == {}
=============================================================================
