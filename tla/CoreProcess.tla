----------------------------- MODULE CoreProcess -----------------------------
(***************************************************************************)
(* A life of the core in the Steam process: the thread that main.cpp       *)
(* starts waits for the client's module, finds the functions, attaches the *)
(* hooks in one transaction and writes core_status.json; the library's     *)
(* destructor removes that file and the hooks, while the thread may still  *)
(* be at it.  The manager installs and removes the library and reads the   *)
(* status file, which it removes when the process it names is gone.        *)
(*                                                                         *)
(* Process ids are not used again.  The cache directory can be written.    *)
(***************************************************************************)
EXTENDS Signatures, Sequences

CONSTANTS
  HookOrder,    \* the functions to hook, in the order of InstallHooks
  Shown,        \* those core_status.json tells about
  MaxBoots,     \* bounds on the starts of Steam
  MaxInstalls   \* ... and on the manager's installations

NoPid  == 0
Pids   == 1 .. MaxBoots
Hooked == {HookOrder[i] : i \in 1 .. Len(HookOrder)}

\* core_status.json: the process and the hooks it reports as active.
NoStatus == [pid |-> NoPid, green |-> {}]
Statuses == [pid : Pids, green : SUBSET Shown] \cup {NoStatus}

ASSUME CoreAssumption ==
  /\ HookOrder \in Seq(Registered) /\ Shown \subseteq Registered
  /\ MaxBoots \in Nat /\ MaxInstalls \in Nat

VARIABLES
  alive, boots,  \* the Steam process, if it runs
  init, hooks,   \* where the init thread is, and how many hooks it has prepared
  funchook,      \* g_funchook: none, prepared or installed
  prepared,      \* functions in it
  active,        \* g_hookStatus
  committed,     \* the result of CommitTransaction
  exit,          \* where the destructor is
  status,        \* core_status.json
  library,       \* the core's library in the Steam directory
  setup,         \* where InstallCore is
  installs,
  ask, seen,     \* where GetStatus is, and what it has read
  stolen         \* ghost: GetStatus removed another file than it had read

processVars == <<alive, boots, init, hooks, funchook, prepared, active, committed, exit>>
managerVars == <<library, setup, installs, ask, seen, stolen>>
vars == <<signatureVars, processVars, status, managerVars>>

CoreInit ==
  /\ SignatureInit
  /\ alive = NoPid /\ boots = 0 /\ init = "off" /\ hooks = 0
  /\ funchook = "none" /\ prepared = {} /\ active = {} /\ committed = FALSE
  /\ exit = "none" /\ status = NoStatus
  /\ library = "none" /\ setup = "idle" /\ installs = 0
  /\ ask = "idle" /\ seen = NoStatus /\ stolen = FALSE

-----------------------------------------------------------------------------
(* The Steam process.  Between two starts Steam may update its binaries, *)
(* which count from the versions of the first start.                     *)

Boot(c, u) ==
  /\ alive = NoPid /\ boots < MaxBoots /\ library = "new"
  /\ IF boots = 0 THEN c = client /\ u = ui ELSE c >= client /\ u >= ui
  /\ boots' = boots + 1 /\ alive' = boots' /\ client' = c /\ ui' = u
  /\ init' = "wait" /\ stolen' = FALSE
  /\ UNCHANGED <<uiLoaded, addr, cache, deployed, offline, booted, hooks, funchook, prepared,
                 active, committed, exit, status, library, setup, installs, ask, seen>>

\* steamui is loaded at some time.
LoadUi ==
  /\ alive # NoPid /\ exit = "none" /\ ~uiLoaded
  /\ uiLoaded' = TRUE
  /\ UNCHANGED <<client, ui, addr, cache, deployed, offline, booted, processVars, status,
                 managerVars>>

\* The process is gone, after the destructor or without it.
Die ==
  /\ alive # NoPid
  /\ booted' = booted \cup {<<client, ui>>}
  /\ alive' = NoPid /\ init' = "off" /\ exit' = "none"
  /\ uiLoaded' = FALSE /\ addr' = Nowhere /\ offline' = TRUE
  /\ hooks' = 0 /\ funchook' = "none" /\ prepared' = {} /\ active' = {} /\ committed' = FALSE
  /\ UNCHANGED <<client, ui, cache, deployed, boots, status, managerVars>>

(* The init thread. *)

InitGoes(from, to) == init = from /\ init' = to

\* The module is there within a minute, or the thread gives up; Config, the
\* guard and the DLC store are loaded, and the scripts.
WaitForModule ==
  /\ InitGoes("wait", "resolve") \/ InitGoes("wait", "aborted")
  /\ UNCHANGED <<signatureVars, alive, boots, hooks, funchook, prepared, active, committed,
                 exit, status, managerVars>>

\* PatternLoader::Initialize, under g_patternMutex.
Resolve ==
  /\ \E hashed, reachable, saves \in BOOLEAN :
       /\ Initialize(hashed, reachable, saves)
       /\ InitGoes("resolve", IF saves THEN "save" ELSE "attach")
  /\ UNCHANGED <<client, ui, uiLoaded, cache, deployed, booted, alive, boots, hooks, funchook,
                 prepared, active, committed, exit, status, managerVars>>

Save ==
  /\ \/ InitGoes("save", "saving") /\ SaveBegins
     \/ InitGoes("saving", "attach") /\ SaveEnds
  /\ UNCHANGED <<alive, boots, hooks, funchook, prepared, active, committed, exit, status,
                 managerVars>>

\* BeginTransaction, and the address of the next hook.  A late search saves.
LookUp ==
  /\ hooks < Len(HookOrder)
  /\ hooks' = hooks + 1
  /\ \E saves \in BOOLEAN :
       /\ GetFunctionAddress(HookOrder[hooks'], saves)
       /\ InitGoes("attach", IF saves THEN "lateSave" ELSE "prepare")
  /\ funchook' = IF funchook = "none" THEN "prepared" ELSE funchook
  /\ UNCHANGED <<alive, boots, prepared, active, committed, exit, status, managerVars>>

LateSave ==
  /\ \/ InitGoes("lateSave", "lateSaving") /\ SaveBegins
     \/ InitGoes("lateSaving", "prepare") /\ SaveEnds
  /\ UNCHANGED <<alive, boots, hooks, funchook, prepared, active, committed, exit, status,
                 managerVars>>

\* Mutant of AttachHook: the status is set whatever Attach answers.
AttachHookUnchecked ==
  LET n == HookOrder[hooks]
  IN /\ InitGoes("prepare", "attach")
     /\ \/ /\ addr[n] # Unknown
           /\ funchook' = IF funchook = "none" THEN "prepared" ELSE funchook
           /\ prepared' = prepared \cup {n}
        \/ UNCHANGED <<funchook, prepared>>
     /\ active' = active \cup {n}
     /\ UNCHANGED <<signatureVars, alive, boots, hooks, committed, exit, status, managerVars>>

\* ATTACH_HOOK: Detour::Attach prepares the hook, in a transaction made afresh
\* if there is none, and may refuse; the status follows.
AttachHook ==
  LET n == HookOrder[hooks]
  IN /\ InitGoes("prepare", "attach")
     /\ \/ /\ addr[n] # Unknown
           /\ funchook' = IF funchook = "none" THEN "prepared" ELSE funchook
           /\ prepared' = prepared \cup {n}
           /\ active' = active \cup {n}
        \/ /\ active' = active \ {n}
           /\ UNCHANGED <<funchook, prepared>>
     /\ UNCHANGED <<signatureVars, alive, boots, hooks, committed, exit, status, managerVars>>

\* CommitTransaction: all hooks or none; the statuses stay as they are.
Commit ==
  /\ hooks = Len(HookOrder) /\ InitGoes("attach", "report")
  /\ \/ /\ funchook # "none"
        /\ funchook' = "installed" /\ committed' = TRUE /\ UNCHANGED prepared
     \/ funchook' = "none" /\ committed' = FALSE /\ prepared' = {}
  /\ UNCHANGED <<signatureVars, alive, boots, hooks, active, exit, status, managerVars>>

\* UpdateCoreStatus(true) and ReplaceFile, whatever Commit returned.  Where a
\* file cannot be renamed onto another, that is removed first.
Report ==
  /\ \/ /\ init \in {"report", "rename"} /\ init' = "done"
        /\ status' = [pid |-> alive, green |-> active \cap Shown]
     \/ InitGoes("report", "rename") /\ status' = NoStatus
  /\ UNCHANGED <<signatureVars, alive, boots, hooks, funchook, prepared, active, committed,
                 exit, managerVars>>

(* The destructor. *)

\* UpdateCoreStatus(false).
ExitBegins ==
  /\ alive # NoPid /\ exit = "none"
  /\ exit' = "unhook" /\ status' = NoStatus
  /\ UNCHANGED <<signatureVars, alive, boots, init, hooks, funchook, prepared, active,
                 committed, managerVars>>

\* UninstallHooks: the first Detach takes all hooks away, later ones find
\* nothing.  Its lookups wait while the init thread holds g_patternMutex.
UninstallHooks ==
  /\ exit = "unhook" /\ init \notin {"save", "saving", "lateSave", "lateSaving"}
  /\ exit' = "gone"
  /\ IF Known(addr) \cap Hooked = {} THEN UNCHANGED <<funchook, prepared>>
     ELSE funchook' = "none" /\ prepared' = {}
  /\ UNCHANGED <<signatureVars, alive, boots, init, hooks, active, committed, status,
                 managerVars>>

-----------------------------------------------------------------------------
(* The manager.  It does not ask whether Steam is running. *)

InstallBegins ==
  /\ setup = "idle" /\ installs < MaxInstalls
  /\ setup' = "download" /\ installs' = installs + 1
  /\ UNCHANGED <<signatureVars, processVars, status, library, ask, seen, stolen>>

\* The sources are tried in turn, until one has the package with the checksum
\* that goes with it.
Download ==
  /\ setup = "download" /\ setup' \in {"unpack", "idle"}
  /\ UNCHANGED <<signatureVars, processVars, status, library, installs, ask, seen, stolen>>

\* tar is run on the package while the stream that wrote it is still open, so
\* it may lack its end; after a failure no other source is tried.
Unpack ==
  /\ setup = "unpack"
  /\ \/ setup' = "sync" /\ library' = "new"
     \/ setup' = "idle" /\ library' \in {library, "torn"}
  /\ UNCHANGED <<signatureVars, processVars, status, installs, ask, seen, stolen>>

\* SyncSignatureFiles: the documents next to the manager, whatever they are for.
SyncSignatureFiles ==
  /\ setup = "sync" /\ setup' = "idle"
  /\ \E docs \in SUBSET {v \in Versions : Document[v] # {}} : deployed' = deployed \cup docs
  /\ UNCHANGED <<client, ui, uiLoaded, addr, cache, offline, booted, processVars, status,
                 library, installs, ask, seen, stolen>>

UninstallCore ==
  /\ setup = "idle" /\ library # "none"
  /\ library' = "none"
  /\ UNCHANGED <<signatureVars, processVars, status, setup, installs, ask, seen, stolen>>

AskGoes(from, to) == ask = from /\ ask' = to

\* GetStatus reads the file ...
ReadStatus ==
  /\ AskGoes("idle", "check") /\ status # NoStatus
  /\ seen' = status
  /\ UNCHANGED <<signatureVars, processVars, status, library, setup, installs, stolen>>

\* ... asks for the process it names, and reports it running ...
StatusIsLive ==
  /\ seen.pid = alive /\ AskGoes("check", "idle")
  /\ seen' = NoStatus
  /\ UNCHANGED <<signatureVars, processVars, status, library, setup, installs, stolen>>

\* Mutant of StatusIsStale: the process is reported as gone, and that is all.
StatusIsStaleKept ==
  /\ seen.pid # alive /\ AskGoes("check", "idle")
  /\ UNCHANGED <<signatureVars, processVars, status, library, setup, installs, seen,
                 stolen>>

StatusIsStale ==
  /\ seen.pid # alive /\ AskGoes("check", "remove")
  /\ UNCHANGED <<signatureVars, processVars, status, library, setup, installs, seen,
                 stolen>>

\* ... or removes the file, whatever it is by now.
RemoveStale ==
  /\ AskGoes("remove", "idle")
  /\ status' = NoStatus /\ stolen' = (stolen \/ status \notin {seen, NoStatus})
  /\ seen' = NoStatus
  /\ UNCHANGED <<signatureVars, processVars, library, setup, installs>>

InitThread ==
  WaitForModule \/ Resolve \/ Save \/ LookUp \/ LateSave \/ AttachHook \/ Commit \/ Report

GetStatus == ReadStatus \/ StatusIsLive \/ StatusIsStale \/ RemoveStale

Next ==
  \/ \E c, u \in Versions : Boot(c, u)
  \/ LoadUi \/ Die \/ InitThread \/ ExitBegins \/ UninstallHooks
  \/ InstallBegins \/ Download \/ Unpack \/ SyncSignatureFiles \/ UninstallCore
  \/ GetStatus

Spec == CoreInit /\ [][Next]_vars

\* The manager's page asks again and again.
Fairness == WF_vars(GetStatus)

FairSpec == Spec /\ Fairness

-----------------------------------------------------------------------------
TypeOK ==
  /\ SignatureTypeOK
  /\ alive \in Pids \cup {NoPid} /\ boots \in 0 .. MaxBoots
  /\ init \in {"off", "wait", "aborted", "resolve", "save", "saving", "attach", "lateSave",
               "lateSaving", "prepare", "report", "rename", "done"}
  /\ hooks \in 0 .. Len(HookOrder) /\ funchook \in {"none", "prepared", "installed"}
  /\ prepared \subseteq Hooked /\ active \subseteq Hooked /\ committed \in BOOLEAN
  /\ exit \in {"none", "unhook", "gone"}
  /\ status \in Statuses /\ seen \in Statuses
  /\ library \in {"none", "torn", "new"}
  /\ setup \in {"idle", "download", "unpack", "sync"}
  /\ installs \in 0 .. MaxInstalls
  /\ ask \in {"idle", "check", "remove"} /\ stolen \in BOOLEAN

\* The status file tells of the running core, once that has started, unless the
\* manager removed it for a dead one's; and a hook it shows as active is in
\* place, unless the transaction failed.
StatusIsTrue ==
  (init = "done" /\ exit = "none") =>
    /\ status.pid = alive \/ (stolen /\ status = NoStatus)
    /\ committed => status.green \subseteq prepared

\* The status of a process that is gone does not stay while the manager asks.
StaleStatusGoes ==
  \A p \in Pids : (status.pid = p /\ alive # p) ~> (status.pid # p)
=============================================================================
