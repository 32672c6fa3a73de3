--------------------------- MODULE SnapshotStore ----------------------------
(***************************************************************************)
(* What LuaConfig promises its readers: one snapshot, replaced in a single *)
(* step by the complete result of running one version of every script that *)
(* was read, plus the per-id setters that edit the snapshot in place.      *)
(***************************************************************************)
EXTENDS LuaScripts

CONSTANTS
  Files,      \* the script files of the watched directories
  NotRead     \* marks a file no build has read

VARIABLES
  snapshot,   \* what every getter reads
  source      \* source[f]: the version of f the snapshot was built from

\* data is the result of running source[f] for every f, in some order.  The
\* files' last writers compete for a token; ids in free may hold anything.
BuiltFrom(data, src, free) ==
  LET read == {f \in Files : src[f] # NotRead}
      tokensFor(id) == UNION {LastToken(src[f], id) : f \in read}
  IN  /\ data.unlocked = UNION {UnlockedIn(src[f], Ran(src[f])) : f \in read}
      /\ data.keys = UNION {KeysIn(src[f], Ran(src[f])) : f \in read}
      /\ \A id \in Ids \ free :
            data.tokens[id] \in IF tokensFor(id) = {} THEN {NoValue} ELSE tokensFor(id)

Init ==
  /\ snapshot = EmptyData
  /\ source = [f \in Files |-> NotRead]

Publish ==
  /\ source' \in [Files -> Scripts \cup {NotRead}]
  /\ BuiltFrom(snapshot', source', {})

SetAccessToken ==
  /\ \E id \in Ids, v \in Values \cup {NoValue} :
        snapshot' = [snapshot EXCEPT !.tokens[id] = v]
  /\ UNCHANGED source

Next == Publish \/ SetAccessToken

Spec == Init /\ [][Next]_<<snapshot, source>>
=============================================================================
