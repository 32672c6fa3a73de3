---------------------------- MODULE MCCoreProcess ----------------------------
(* Values of the constants of CoreProcess for TLC. *)
EXTENDS CoreProcess, TLC

CONSTANTS f, w, x

\* The pattern of f, in the client, is lost in its second version, for which
\* the documents have x and the database f; w is in steamui.
MCMatches  == (f :> {1}) @@ (w :> {1, 2}) @@ (x :> {})
MCSymbols  == (f :> {}) @@ (w :> {}) @@ (x :> {1})
MCDocument == <<{}, {x}>>
MCRemote   == <<{}, {f}>>
MCOrder    == <<f, w>>
=============================================================================
