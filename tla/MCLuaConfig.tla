---------------------------- MODULE MCLuaConfig -----------------------------
(* Instances of LuaConfig for TLC. *)
EXTENDS LuaConfig

CONSTANTS a, b

C(o, i, v) == [op |-> o, id |-> i, val |-> v]

\* A keyed game with a token; a rival token for the same id; a script that
\* fails half-way; an empty (or absent) file.
MCScripts == { << >>,
               << C("key", 1, a), C("token", 1, a) >>,
               << C("unlock", 2, a), C("token", 1, b), C("raise", 1, a), C("unlock", 1, a) >> }
=============================================================================
