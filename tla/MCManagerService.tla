-------------------------- MODULE MCManagerService --------------------------
(* Values of the constants of ManagerService for TLC. *)
EXTENDS ManagerService, TLC

CONSTANTS r1, r2, cmd, daemon, cli, g, h

MCIn        == [t \in Threads |-> IF t = cmd THEN cli ELSE daemon]
MCContent   == <<{10, 11}, {10, 11, 12, 13}>>
MCAppDepots == [x \in Games |-> {10, 12, 20}]
MCLocal     == {20}
MCSibling   == [p \in Procs |-> IF p = cli THEN 1 ELSE 0]
MCDefault   == [f \in Fields |-> 0]
Symmetric   == Permutations({r1, r2})
=============================================================================
