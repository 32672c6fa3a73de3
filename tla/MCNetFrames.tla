----------------------------- MODULE MCNetFrames -----------------------------
(* Values of the constants of NetFrames for TLC. *)
EXTENDS NetFrames

CONSTANTS a, b

Ask(k, x) == [kind |-> k, app |-> x]

\* Statistics of an app without a donor, a, and of one with its own, b, twice
\* if the second request is another of the kind; then each of the other kinds.
MCAsks == <<
  {Ask("stats", a), Ask("cloud", a), Ask("pics", a)},
  {Ask("stats", a), Ask("stats", b), Ask("cloud", a), Ask("key", a), Ask("ticket", b),
   Ask("legacyStats", b)}>>
=============================================================================
