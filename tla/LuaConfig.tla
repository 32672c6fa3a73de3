----------------------------- MODULE LuaConfig ------------------------------
(***************************************************************************)
(* The double-buffered configuration store of the core                     *)
(* (src/Utils/Config/LuaConfig.cpp) with the two threads that drive it     *)
(* (src/main.cpp): the init thread parses into the ACTIVE slot before any  *)
(* hook exists; afterwards ReloadDirectories rebuilds the inactive slot    *)
(* and swaps.  Script files change on disk at any moment.                  *)
(*                                                                         *)
(* Grain: one step per g_luaMutex critical section.  A reload interleaves  *)
(* with edits between any two script files and any two Lua calls.          *)
(***************************************************************************)
EXTENDS LuaScripts, FiniteSets

CONSTANTS
  Files,          \* script files of all watched directories
  InitialFiles,   \* those of the candidate directories, parsed at start
  Reloaders,      \* threads that may call ReloadDirectories
  InitThread,     \* the init thread of main.cpp
  NoThread,       \* g_reloadMutex is free
  NotRead,        \* a build has not read this file
  NoFile,         \* a thread is between two files
  Settable,       \* ids whose token is also set outside any script
  ScanMayFail,    \* whether recursive_directory_iterator may throw
  MaxEdits        \* bound: changes of the disk in one behaviour

Threads == Reloaders \cup {InitThread}

ASSUME ThreadsAssumption ==
  /\ InitThread \notin Reloaders /\ NoThread \notin Threads
  /\ InitialFiles \subseteq Files /\ NoFile \notin Files
  /\ NotRead \notin Scripts /\ Settable \subseteq Ids
  /\ ScanMayFail \in BOOLEAN /\ MaxEdits \in Nat

VARIABLES
  disk,         \* disk[f]: the script now in file f
  edits,        \* changes made so far (bounds the model)
  slots,        \* g_slots
  activeSlot,   \* g_activeSlot
  reloadLock,   \* holder of g_reloadMutex
  pc,           \* "idle", "scan" between files, "run" inside one, "done"
  target,       \* the slot a thread fills (stagingSlot, or the active slot)
  todo,         \* files the directory iteration has still to visit
  cur, pos,     \* the file being run and how many of its calls were made
  read,         \* read[t][f]: the version of f that t's build loaded
  source,       \* what the published snapshot was built from
  overridden,   \* ids set in the published snapshot since its publication
  dirty, stale  \* disk changed since t's build began / since the
                \* published build began

diskVars  == <<disk, edits>>
storeVars == <<slots, activeSlot, reloadLock>>
buildVars == <<pc, target, todo, cur, pos, read>>
ghostVars == <<source, overridden, dirty, stale>>
vars == <<diskVars, storeVars, buildVars, ghostVars>>

NextSlot == activeSlot + 1          \* mutant of Inactive: does not wrap
Inactive == 1 - activeSlot
Visible  == slots[activeSlot]
Serving  == pc[InitThread] = "done"     \* hooks are installed after this

-----------------------------------------------------------------------------
Init ==
  /\ disk \in [Files -> Scripts]
  /\ edits = 0
  /\ slots = [s \in 0 .. 1 |-> EmptyData]
  /\ activeSlot = 0
  /\ reloadLock = NoThread
  /\ pc = [t \in Threads |-> IF t = InitThread THEN "scan" ELSE "idle"]
  /\ target = [t \in Threads |-> 0]
  /\ todo = [t \in Threads |-> IF t = InitThread THEN InitialFiles ELSE {}]
  /\ cur = [t \in Threads |-> NoFile]
  /\ pos = [t \in Threads |-> 0]
  /\ read = [t \in Threads |-> [f \in Files |-> NotRead]]
  /\ source = [f \in Files |-> NotRead]
  /\ overridden = {}
  /\ dirty = [t \in Threads |-> FALSE]
  /\ stale = FALSE

\* The user or the manager writes, replaces or removes a script.
EditScript(f, s) ==
  /\ edits < MaxEdits
  /\ disk[f] # s
  /\ disk' = [disk EXCEPT ![f] = s]
  /\ edits' = edits + 1
  /\ dirty' = [t \in Threads |-> pc[t] \in {"scan", "run"}]
  /\ stale' = TRUE
  /\ UNCHANGED <<storeVars, buildVars, source, overridden>>

\* Mutant of BeginReload: g_reloadMutex is not taken.
BeginReloadUnlocked(t) ==
  /\ Serving
  /\ pc[t] = "idle"
  /\ target' = [target EXCEPT ![t] = Inactive]
  /\ slots' = [slots EXCEPT ![Inactive] = EmptyData]
  /\ pc' = [pc EXCEPT ![t] = "scan"]
  /\ todo' = [todo EXCEPT ![t] = Files]
  /\ UNCHANGED <<diskVars, activeSlot, reloadLock, cur, pos, read, ghostVars>>

\* ReloadDirectories up to the end of its first critical section.
BeginReload(t) ==
  /\ Serving
  /\ pc[t] = "idle"
  /\ reloadLock = NoThread
  /\ reloadLock' = t
  /\ target' = [target EXCEPT ![t] = Inactive]
  /\ slots' = [slots EXCEPT ![Inactive] = EmptyData]
  /\ pc' = [pc EXCEPT ![t] = "scan"]
  /\ todo' = [todo EXCEPT ![t] = Files]
  /\ UNCHANGED <<diskVars, activeSlot, cur, pos, read, ghostVars>>

\* The iterator reaches f and luaL_dofile loads its bytes.
LoadScript(t, f) ==
  /\ pc[t] = "scan"
  /\ f \in todo[t]
  /\ pc' = [pc EXCEPT ![t] = "run"]
  /\ todo' = [todo EXCEPT ![t] = @ \ {f}]
  /\ cur' = [cur EXCEPT ![t] = f]
  /\ pos' = [pos EXCEPT ![t] = 0]
  /\ read' = [read EXCEPT ![t] = [@ EXCEPT ![f] = disk[f]]]
  /\ UNCHANGED <<diskVars, storeVars, target, ghostVars>>

\* The script t is running, as it was loaded, and its next call.
Running(t) == read[t][cur[t]]
AtEnd(t) == pos[t] < Len(Running(t)) => Running(t)[pos[t] + 1].op = "raise"

\* Mutants of RunCall: every call, or only addtoken, writes to the active slot.
RunCallOnActive(t) ==
  /\ pc[t] = "run"
  /\ ~AtEnd(t)
  /\ slots' = [slots EXCEPT ![activeSlot] = Apply(@, Running(t)[pos[t] + 1])]
  /\ pos' = [pos EXCEPT ![t] = @ + 1]
  /\ UNCHANGED <<diskVars, activeSlot, reloadLock, pc, target, todo, cur, read, ghostVars>>

RunTokenOnActive(t) ==
  /\ pc[t] = "run"
  /\ ~AtEnd(t)
  /\ LET c == Running(t)[pos[t] + 1]
         s == IF c.op = "token" THEN activeSlot ELSE target[t]
     IN  slots' = [slots EXCEPT ![s] = Apply(@, c)]
  /\ pos' = [pos EXCEPT ![t] = @ + 1]
  /\ UNCHANGED <<diskVars, activeSlot, reloadLock, pc, target, todo, cur, read, ghostVars>>

\* One registered API function: its write to the target slot, under g_luaMutex.
RunCall(t) ==
  /\ pc[t] = "run"
  /\ ~AtEnd(t)
  /\ slots' = [slots EXCEPT ![target[t]] = Apply(@, Running(t)[pos[t] + 1])]
  /\ pos' = [pos EXCEPT ![t] = @ + 1]
  /\ UNCHANGED <<diskVars, activeSlot, reloadLock, pc, target, todo, cur, read, ghostVars>>

\* Mutant of EndScript: a Lua error is not caught.
EndScriptUnlessError(t) ==
  /\ pc[t] = "run"
  /\ pos[t] = Len(Running(t))
  /\ pc' = [pc EXCEPT ![t] = "scan"]
  /\ cur' = [cur EXCEPT ![t] = NoFile]
  /\ pos' = [pos EXCEPT ![t] = 0]
  /\ UNCHANGED <<diskVars, storeVars, target, todo, read, ghostVars>>

\* The script returned, or raised an error that RunLuaFile logs.
EndScript(t) ==
  /\ pc[t] = "run"
  /\ AtEnd(t)
  /\ pc' = [pc EXCEPT ![t] = "scan"]
  /\ cur' = [cur EXCEPT ![t] = NoFile]
  /\ pos' = [pos EXCEPT ![t] = 0]
  /\ UNCHANGED <<diskVars, storeVars, target, todo, read, ghostVars>>

\* The directory iteration throws (an unreadable or just removed
\* subdirectory): ParseDirectoryInto warns and gives up the rest of it.
ScanFails(t) ==
  /\ ScanMayFail
  /\ pc[t] = "scan"
  /\ \E lost \in SUBSET todo[t] \ {{}} : todo' = [todo EXCEPT ![t] = @ \ lost]
  /\ UNCHANGED <<diskVars, storeVars, pc, target, cur, pos, read, ghostVars>>

\* Mutant of Publish: the active slot is not swapped.
PublishWithoutSwap(t) ==
  /\ t \in Reloaders
  /\ pc[t] = "scan"
  /\ todo[t] = {}
  /\ reloadLock' = NoThread
  /\ pc' = [pc EXCEPT ![t] = "idle"]
  /\ stale' = dirty[t]
  /\ target' = [target EXCEPT ![t] = 0]
  /\ read' = [read EXCEPT ![t] = [f \in Files |-> NotRead]]
  /\ dirty' = [dirty EXCEPT ![t] = FALSE]
  /\ UNCHANGED <<diskVars, slots, activeSlot, todo, cur, pos, source, overridden>>

\* The last critical section of ReloadDirectories: swap, drop the old slot.
Publish(t) ==
  /\ t \in Reloaders
  /\ pc[t] = "scan"
  /\ todo[t] = {}
  /\ activeSlot' = target[t]
  /\ slots' = [slots EXCEPT ![1 - target[t]] = EmptyData]
  /\ reloadLock' = NoThread
  /\ pc' = [pc EXCEPT ![t] = "idle"]
  /\ source' = read[t]
  /\ overridden' = {}
  /\ stale' = dirty[t]
  /\ target' = [target EXCEPT ![t] = 0]
  /\ read' = [read EXCEPT ![t] = [f \in Files |-> NotRead]]
  /\ dirty' = [dirty EXCEPT ![t] = FALSE]
  /\ UNCHANGED <<diskVars, todo, cur, pos>>

\* The init thread has parsed every candidate directory and starts the watch.
FinishInitialParse ==
  /\ pc[InitThread] = "scan"
  /\ todo[InitThread] = {}
  /\ pc' = [pc EXCEPT ![InitThread] = "done"]
  /\ source' = read[InitThread]
  /\ stale' = dirty[InitThread]
  /\ read' = [read EXCEPT ![InitThread] = [f \in Files |-> NotRead]]
  /\ dirty' = [dirty EXCEPT ![InitThread] = FALSE]
  /\ UNCHANGED <<diskVars, storeVars, target, todo, cur, pos, overridden>>

\* SetAccessToken / SetStatSteamId: an in-place edit of the active slot.
SetAccessToken(id, v) ==
  /\ Serving
  /\ slots' = [slots EXCEPT ![activeSlot].tokens[id] = v]
  /\ overridden' = overridden \cup {id}
  /\ UNCHANGED <<diskVars, activeSlot, reloadLock, buildVars, source, dirty, stale>>

\* A thread's own steps: what it does once it has begun.
Step(t) ==
  \/ \E f \in Files : LoadScript(t, f)
  \/ RunCall(t)
  \/ EndScript(t)
  \/ Publish(t)
  \/ t = InitThread /\ FinishInitialParse

Next ==
  \/ \E f \in Files, s \in Scripts : EditScript(f, s)
  \/ \E id \in Settable, v \in Values \cup {NoValue} : SetAccessToken(id, v)
  \/ \E t \in Reloaders : BeginReload(t)
  \/ \E t \in Threads : Step(t) \/ ScanFails(t)

Spec == Init /\ [][Next]_vars

\* Threads run: a build that began is carried on (begin itself is not owed).
FairSpec == Spec /\ \A t \in Threads : WF_vars(Step(t))

-----------------------------------------------------------------------------
TypeOK ==
  /\ disk \in [Files -> Scripts]
  /\ edits \in 0 .. MaxEdits
  /\ slots \in [0 .. 1 -> LuaData]
  /\ activeSlot \in 0 .. 1
  /\ reloadLock \in Reloaders \cup {NoThread}
  /\ pc \in [Threads -> {"idle", "scan", "run", "done"}]
  /\ target \in [Threads -> 0 .. 1]
  /\ todo \in [Threads -> SUBSET Files]
  /\ cur \in [Threads -> Files \cup {NoFile}]
  /\ pos \in [Threads -> Nat]
  /\ read \in [Threads -> [Files -> Scripts \cup {NotRead}]]
  /\ source \in [Files -> Scripts \cup {NotRead}]
  /\ overridden \subseteq Ids
  /\ dirty \in [Threads -> BOOLEAN]
  /\ stale \in BOOLEAN

\* While hooks can read, the slot they read is not the one a reload is
\* filling: ReloadDirectories never writes where Has() or GetUnlockedApps()
\* look, whoever reloads at the same time.
ReadersNeverSeeStaging ==
  \A t \in Reloaders : pc[t] \in {"scan", "run"} => target[t] # activeSlot

\* The unlocks and keys readers see are exactly those of ONE version of each
\* script: nothing is left over from an earlier configuration (a removed
\* game, a replaced key), and no script took effect by half.
UnlocksAreOneBuild ==
  LET readFiles == {f \in Files : source[f] # NotRead}
  IN  Serving =>
        /\ Visible.unlocked = UNION {UnlockedIn(source[f], Ran(source[f])) : f \in readFiles}
        /\ Visible.keys = UNION {KeysIn(source[f], Ran(source[f])) : f \in readFiles}

\* A build that began after the last change of the disk publishes the disk:
\* what a hot reload is for.
SettledSnapshotIsDisk ==
  (Serving /\ ~stale) => \A f \in Files : source[f] \in {disk[f], NotRead}

\* A reload that began ends, so g_reloadMutex is released and the watcher
\* thread returns to its event queue.
ReloadCompletes == \A t \in Reloaders : pc[t] = "scan" ~> pc[t] = "idle"

\* The store implements the single atomic snapshot of SnapshotStore: what
\* readers see changes only when a build is published whole (tokens included,
\* where two scripts that set one id race in directory order) or a setter runs.
Store == INSTANCE SnapshotStore WITH
           snapshot <- IF Serving THEN Visible ELSE EmptyData,
           source   <- source
ImplementsStore == Store!Spec
=============================================================================
