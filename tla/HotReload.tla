----------------------------- MODULE HotReload ------------------------------
(***************************************************************************)
(* Hot reload from end to end: the manager (ScriptManager.cpp) changes     *)
(* script files, the operating system tells the watch thread of the core   *)
(* (DirectoryWatch.cpp, one implementation per platform), the callback of  *)
(* main.cpp reloads LuaConfig and syncs the licenses.  Two processes, no   *)
(* lock between them: the file system is the whole protocol.               *)
(*                                                                         *)
(* LuaConfig and LicensePackage appear as what they implement: a snapshot  *)
(* that is replaced at once by the versions a scan has read, file by file, *)
(* and a package that a sync makes equal to the unlocks of the snapshot.   *)
(***************************************************************************)
EXTENDS Naturals, Sequences, FiniteSets

CONSTANTS
  Files,      \* the <appid>.lua files of the watched directories
  Nested,     \* those in a subdirectory of one
  Permanent,  \* scripts nobody removes or disables, if there are any
  Versions,   \* complete script contents
  Games,
  UnlocksOf,  \* UnlocksOf[v]: the games version v unlocks
  Empty,      \* a file that was truncated and not yet written
  Absent,     \* no such file
  Backends,   \* which DirectoryWatch may be running
  MaxEdits    \* bound: operations of the manager in one behaviour

Contents == Versions \cup {Empty, Absent}

\* The operations of a file system a watch may be told of.
Entry  == {"create", "delete", "rename"}
Ops    == Entry \cup {"write"}

\* inotify_add_watch asks for no IN_MOVED event; kqueue watches the directory,
\* which a write into a file does not touch; FindFirstChangeNotification asks
\* for names and last writes.  None of the three is recursive.
Signalled ==
  [inotify |-> {"create", "delete", "write"},
   kqueue  |-> Entry,
   windows |-> Ops]

ASSUME HotReloadAssumption ==
  /\ IsFiniteSet(Files) /\ Nested \subseteq Files /\ Permanent \subseteq Files \ Nested
  /\ UnlocksOf \in [Versions -> SUBSET Games]
  /\ Empty \notin Versions /\ Absent \notin Versions /\ Empty # Absent
  /\ Backends \subseteq DOMAIN Signalled
  /\ MaxEdits \in Nat

VARIABLES
  backend,   \* the platform of this behaviour
  disk,      \* disk[f]: the contents of f.lua
  parked,    \* parked[f]: the contents of f.lua.disabled
  saving,    \* saving[f]: what SaveGameUnlock is about to write, or Absent
  edits,     \* operations so far (bounds the model)
  queue,     \* notifications the system holds for the watch thread
  batch,     \* callbacks the watch thread has still to make
  pc,        \* "start", "wait", "scan", "sync"
  todo,      \* files the scan has still to visit
  build,     \* what the scan has read
  snapshot,  \* what LuaConfig serves
  injected,  \* the games in Package 0
  missed     \* files changed without notice since the last notice, or with one that
             \* led to no callback

managerVars == <<disk, parked, saving, edits>>
watchVars   == <<batch, pc, todo, build>>
servedVars  == <<snapshot, injected>>
vars == <<backend, managerVars, queue, watchVars, servedVars, missed>>

UnlocksIn(contents) == IF contents \in Versions THEN UnlocksOf[contents] ELSE {}
Unlocked(map) == UNION {UnlocksIn(map[f]) : f \in Files}
Scripts == {f \in Files : disk[f] # Absent}

Watching == pc # "start"
NothingRead == [f \in Files |-> Absent]

-----------------------------------------------------------------------------
Init ==
  /\ backend \in Backends
  /\ disk \in [Files -> Versions \cup {Absent}]
  /\ \A f \in Permanent : disk[f] # Absent
  /\ parked = NothingRead /\ saving = NothingRead
  /\ edits = 0
  /\ queue = << >> /\ batch = 0
  /\ pc = "start"
  /\ todo = Files
  /\ build = NothingRead /\ snapshot = NothingRead
  /\ injected = {}
  /\ missed = {}

(* The file system. *)

\* What the system queues: inotify one event per name, merged with an equal
\* last one; the others a flag.
Enqueue(f) ==
  LET event == IF backend = "inotify" THEN f ELSE "changed"
  IN  IF queue # << >> /\ queue[Len(queue)] = event THEN queue ELSE Append(queue, event)

Notify(op, f) ==
  IF Watching /\ f \notin Nested /\ op \in Signalled[backend]
    THEN queue' = Enqueue(f) /\ missed' = {}
    ELSE missed' = missed \cup {f} /\ UNCHANGED queue

(* The manager. *)

Begin == edits < MaxEdits /\ edits' = edits + 1

\* SaveGameUnlock opens the script with ios::trunc ...
SaveGameUnlock(f, v) ==
  /\ Begin
  /\ saving[f] = Absent
  /\ disk' = [disk EXCEPT ![f] = Empty]
  /\ saving' = [saving EXCEPT ![f] = v]
  /\ Notify(IF disk[f] = Absent THEN "create" ELSE "write", f)
  /\ UNCHANGED <<backend, parked, watchVars, servedVars>>

\* ... and its bytes arrive when the stream is flushed and closed.
FinishSave(f) ==
  /\ saving[f] # Absent
  /\ disk[f] = Empty
  /\ disk' = [disk EXCEPT ![f] = saving[f]]
  /\ saving' = [saving EXCEPT ![f] = Absent]
  /\ Notify("write", f)
  /\ UNCHANGED <<backend, parked, edits, watchVars, servedVars>>

DeleteScript(f) ==
  /\ Begin
  /\ f \notin Permanent
  /\ disk[f] # Absent /\ saving[f] = Absent
  /\ disk' = [disk EXCEPT ![f] = Absent]
  /\ Notify("delete", f)
  /\ UNCHANGED <<backend, parked, saving, watchVars, servedVars>>

\* DeleteScript of a disabled script: the directory changes, no script does, and
\* the callback ignores a name that does not end in .lua.
DeleteDisabled(f) ==
  /\ Begin
  /\ parked[f] # Absent
  /\ parked' = [parked EXCEPT ![f] = Absent]
  /\ IF Watching /\ f \notin Nested /\ backend # "inotify"
       THEN queue' = Enqueue(f) ELSE UNCHANGED queue
  /\ UNCHANGED <<backend, disk, saving, watchVars, servedVars, missed>>

\* ToggleScript renames f.lua to f.lua.disabled, or back over what is there.
ToggleScript(f, enable) ==
  /\ Begin
  /\ saving[f] = Absent
  /\ IF enable
       THEN /\ parked[f] # Absent
            /\ disk' = [disk EXCEPT ![f] = parked[f]]
            /\ parked' = [parked EXCEPT ![f] = Absent]
       ELSE /\ f \notin Permanent /\ disk[f] # Absent
            /\ parked' = [parked EXCEPT ![f] = disk[f]]
            /\ disk' = [disk EXCEPT ![f] = Absent]
  /\ Notify("rename", f)
  /\ UNCHANGED <<backend, saving, watchVars, servedVars>>

(* The core: init thread (parse, then StartWatch), then watch thread. *)

\* The watch thread takes what is queued: inotify's events name the files, the
\* other two make it call back for every script the directory holds.  When the
\* last one is gone they call back for none, and nothing is reloaded.
TakeEvents ==
  /\ pc = "wait"
  /\ batch = 0
  /\ queue # << >>
  /\ batch' = IF backend = "inotify" THEN Len(queue) ELSE Cardinality(Scripts \ Nested)
  /\ queue' = << >>
  /\ missed' = IF batch' = 0 THEN missed \cup {f \in Files : snapshot[f] # disk[f]} ELSE missed
  /\ UNCHANGED <<backend, managerVars, pc, todo, build, servedVars>>

\* Mutant of OnChange: without an event.
OnChangeUnasked ==
  /\ pc = "wait"
  /\ batch' = batch - 1
  /\ pc' = "scan"
  /\ todo' = Files
  /\ build' = NothingRead
  /\ UNCHANGED <<backend, managerVars, queue, servedVars, missed>>

\* One callback with a .lua path: ReloadDirectories begins.
OnChange ==
  /\ pc = "wait"
  /\ batch > 0
  /\ batch' = batch - 1
  /\ pc' = "scan"
  /\ todo' = Files
  /\ build' = NothingRead
  /\ UNCHANGED <<backend, managerVars, queue, servedVars, missed>>

\* The directory iteration loads one script.
ReadScript(f) ==
  /\ pc \in {"start", "scan"}
  /\ f \in todo
  /\ todo' = todo \ {f}
  /\ build' = [build EXCEPT ![f] = disk[f]]
  /\ UNCHANGED <<backend, managerVars, queue, batch, pc, servedVars, missed>>

\* Mutants of PublishSnapshot: events that came during the scan are dropped as
\* already served; the licenses are not synced.
PublishAndDropEvents ==
  /\ pc \in {"start", "scan"}
  /\ todo = {}
  /\ snapshot' = build
  /\ pc' = "sync"
  /\ queue' = << >>
  /\ UNCHANGED <<backend, managerVars, batch, todo, build, injected, missed>>

PublishWithoutSync ==
  /\ pc \in {"start", "scan"}
  /\ todo = {}
  /\ snapshot' = build
  /\ pc' = "wait"
  /\ UNCHANGED <<backend, managerVars, queue, batch, todo, build, injected, missed>>

\* The staging slot is published (at start: the parsed slot is the active one).
PublishSnapshot ==
  /\ pc \in {"start", "scan"}
  /\ todo = {}
  /\ snapshot' = build
  /\ pc' = "sync"
  /\ UNCHANGED <<backend, managerVars, queue, batch, todo, build, injected, missed>>

\* SyncInjectedLicenses; after the start the hooks inject the same.
SyncInjectedLicenses ==
  /\ pc = "sync"
  /\ injected' = Unlocked(snapshot)
  /\ pc' = "wait"
  /\ UNCHANGED <<backend, managerVars, queue, batch, todo, build, snapshot, missed>>

Core == TakeEvents \/ OnChange \/ (\E f \in Files : ReadScript(f))
          \/ PublishSnapshot \/ SyncInjectedLicenses

Manager ==
  \E f \in Files :
    \/ \E v \in Versions : SaveGameUnlock(f, v)
    \/ FinishSave(f)
    \/ DeleteScript(f)
    \/ \E enable \in BOOLEAN : ToggleScript(f, enable)

Next == Manager \/ (\E f \in Files : DeleteDisabled(f)) \/ Core

Spec == Init /\ [][Next]_vars

\* The watch thread runs, and a save that began ends.
FairSpec == Spec /\ WF_vars(Core) /\ \A f \in Files : WF_vars(FinishSave(f))

-----------------------------------------------------------------------------
TypeOK ==
  /\ backend \in Backends
  /\ disk \in [Files -> Contents]
  /\ parked \in [Files -> Contents]
  /\ saving \in [Files -> Versions \cup {Absent}]
  /\ edits \in 0 .. MaxEdits
  /\ queue \in Seq(Files \cup {"changed"})
  /\ batch \in Nat
  /\ pc \in {"start", "wait", "scan", "sync"}
  /\ todo \subseteq Files
  /\ build \in [Files -> Contents]
  /\ snapshot \in [Files -> Contents]
  /\ injected \subseteq Games
  /\ missed \subseteq Files

\* No change is lost between the notification, the batch and the scan: once
\* the watch thread has nothing to do, LuaConfig serves what is on disk and
\* Package 0 holds its unlocks, unless the change raised no notification, or one
\* that found no script to call back for.
QuietMeansCurrent ==
  (pc = "wait" /\ queue = << >> /\ batch = 0 /\ missed = {}) =>
    snapshot = disk /\ injected = Unlocked(disk)

\* A notified change takes effect ("effective within seconds", README.md),
\* however many saves follow one another.
Current == snapshot = disk /\ injected = Unlocked(disk)
EditsTakeEffect == missed = {} /\ Watching ~> Current \/ missed # {}

\* README.md: ownership has no momentary break during a hot reload.  A game
\* that every version of a script unlocks, a script that is saved again but
\* never removed, stays unlocked once it is.
AlwaysUnlocked == {g \in Games : \A v \in Versions : g \in UnlocksOf[v]}

NoOwnershipOutage ==
  [][Permanent # {} => Unlocked(snapshot) \cap AlwaysUnlocked \subseteq Unlocked(snapshot')]_vars
=============================================================================
