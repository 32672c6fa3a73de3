---------------------------- MODULE MCHotReload -----------------------------
(* Instances of HotReload for TLC. *)
EXTENDS HotReload

CONSTANTS v1, v2, g1, g2

MCUnlocksOf == [v \in {v1, v2} |-> IF v = v1 THEN {g1} ELSE {g1, g2}]
=============================================================================
