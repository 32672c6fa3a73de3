----------------------------- MODULE SaveVault ------------------------------
(***************************************************************************)
(* What the manager promises of the saves it looks after: one operation at *)
(* a time works on an app.  A backup adds to the latest snapshot of the    *)
(* app and may drop the oldest ones or parts of them, a restore puts back  *)
(* files of the latest snapshot on the server, and nothing else touches    *)
(* save or snapshots, except the game.  An operation may end before it is  *)
(* done.                                                                   *)
(***************************************************************************)
EXTENDS Naturals, FiniteSets

CONSTANTS
  Apps, SaveFiles, Versions, Times,
  Missing,      \* in a snapshot: a file it does not have
  NoSnapshot,   \* a time of which there is no snapshot
  Keep          \* local snapshots retained

VARIABLES
  busy,         \* busy[a]: the operation that works on a
  save,         \* save[a]: the version of each file of the game's save
  local, server \* the snapshots of each app by timestamp

vars == <<busy, save, local, server>>

Snapshots == [SaveFiles -> Versions \cup {Missing}] \cup {NoSnapshot}

Existing(repo, a) == {t \in Times : repo[a][t] # NoSnapshot}
IsLatest(t, T) == \A u \in T : u <= t

\* A snapshot may only get a file of the save as it is.
Additions(snapshot, files) ==
  LET had == IF snapshot = NoSnapshot THEN [f \in SaveFiles |-> Missing] ELSE snapshot
  IN  {had} \cup {[had EXCEPT ![f] = files[f]] : f \in SaveFiles}

Init ==
  /\ busy = [a \in Apps |-> "none"]
  /\ save \in [Apps -> [SaveFiles -> Versions]]
  /\ local = [a \in Apps |-> [t \in Times |-> NoSnapshot]]
  /\ server = local

Play(a) ==
  /\ \E v \in Versions : save' = [save EXCEPT ![a] = [f \in SaveFiles |-> v]]
  /\ UNCHANGED <<busy, local, server>>

Begin(a) ==
  /\ busy[a] = "none"
  /\ \E op \in {"backup", "restore"} : busy' = [busy EXCEPT ![a] = op]
  /\ UNCHANGED <<save, local, server>>

\* Operations end, several of them when a process dies.
End(A) ==
  /\ busy' = [a \in Apps |-> IF a \in A THEN "none" ELSE busy[a]]
  /\ UNCHANGED <<save, local, server>>

\* The one snapshot of repo that differs in new.
Adds(repo, new, a) ==
  \E t \in Times :
    /\ IsLatest(t, Existing(repo, a))
    /\ \E snapshot \in Additions(repo[a][t], save[a]) :
         new = [repo EXCEPT ![a] = [@ EXCEPT ![t] = snapshot]]

Copy(a) ==
  /\ busy[a] = "backup"
  /\ \/ Adds(local, local', a) /\ UNCHANGED server
     \/ Adds(server, server', a) /\ UNCHANGED local
  /\ UNCHANGED <<busy, save>>

\* The latest Keep of the local snapshots stay, or all if there are no more.
Retains(K, T) ==
  /\ K = T \/ Cardinality(K) = Keep
  /\ Cardinality(K) <= Keep
  /\ \A t \in K, u \in T \ K : u < t

\* No file of a snapshot that is dropped changes, but some may be left.
Dropped(snapshot) ==
  {NoSnapshot} \cup {[f \in SaveFiles |-> IF f \in F THEN snapshot[f] ELSE Missing] :
                      F \in SUBSET SaveFiles}

Trim(a) ==
  /\ busy[a] = "backup"
  /\ \E K \in SUBSET Existing(local, a), left \in [Times -> Snapshots] :
       /\ Retains(K, Existing(local, a))
       /\ \A t \in Times : IF t \in Existing(local, a) \ K THEN left[t] \in Dropped(local[a][t])
                           ELSE left[t] = local[a][t]
       /\ local' = [local EXCEPT ![a] = left]
  /\ UNCHANGED <<busy, save, server>>

Fetch(a) ==
  /\ busy[a] = "restore"
  /\ \E t \in Existing(server, a), f \in SaveFiles :
       /\ IsLatest(t, Existing(server, a))
       /\ server[a][t][f] # Missing
       /\ save' = [save EXCEPT ![a] = [@ EXCEPT ![f] = server[a][t][f]]]
  /\ UNCHANGED <<busy, local, server>>

Next ==
  \/ \E A \in SUBSET Apps : End(A)
  \/ \E a \in Apps : Play(a) \/ Begin(a) \/ Copy(a) \/ Trim(a) \/ Fetch(a)

Spec == Init /\ [][Next]_vars
=============================================================================
