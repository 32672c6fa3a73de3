--------------------------- MODULE MCManifestCodes ---------------------------
(* Values of the constants of ManifestCodes for TLC. *)
EXTENDS ManifestCodes

CONSTANTS m1, m2

\* The third request repeats the first, the second does or is for another.
MCWanted == <<{m1}, {m1, m2}, {m1}>>
=============================================================================
