---------------------------- MODULE GameLifecycle ----------------------------
(***************************************************************************)
(* A game from its launch to its exit (Hooks_Misc.cpp, ProcessInjector,    *)
(* Hooks_IPC.cpp).  The SpawnProcess hook notes the app as the active one, *)
(* lets the client start the game, and starts a thread that looks for a    *)
(* new process with the game's file name, claims it, injects the modules   *)
(* configured for the app, waits for the process to end, clears the active *)
(* app, and tells the manager by an event file and a backup command.       *)
(* Meanwhile the IPC hook answers each game's GetSteamID for the app that  *)
(* is active, and the receive hook gives it an ownership ticket.           *)
(*                                                                         *)
(* The client launches one game at a time, all of them by this hook.  Each *)
(* has one process, which it starts during the call or later.  The process *)
(* id of an ended one may be used again.                                   *)
(***************************************************************************)
EXTENDS Tickets, FiniteSets

CONSTANTS
  Exe,         \* Exe[a]: the file name of a's process
  Comm,        \* Comm[n]: the name the system gives for a process with file
               \* name n: on Linux its first 15 characters
  Pids,
  MaxLaunches, \* bound on the launches
  MaxSignIns,  \* ... and on changes of the account and of loginusers.vdf
  MaxActs,     \* ... and on both, where a launch counts twice
  Fixed,       \* apps launched with -onlinefix
  Configured   \* LuaConfig::Has, which does not change here

Launches == 1 .. MaxLaunches
NoLaunch == 0
NoPid    == 0

ASSUME LifecycleAssumption ==
  /\ NoPid \notin Pids /\ IsFiniteSet(Pids)
  /\ MaxLaunches \in Nat /\ MaxSignIns \in Nat /\ MaxActs \in Nat
  /\ \A a \in Apps : Exe[a] \in DOMAIN Comm
  /\ Fixed \subseteq Apps /\ Configured \subseteq Apps

VARIABLES
  signIns,
  active,    \* g_activeRunningAppId
  realApp,   \* g_OnlineFixRealAppId
  claimed,   \* g_attemptedPids
  launched,  \* how many launches there were
  at,        \* where the SpawnProcess hook is with the last of them
  app,       \* the app of a launch
  due,       \* launches whose process is not there yet
  proc,      \* the launch that a running process is of
  watch, baseline, target,  \* the monitor thread of a launch
  reported,  \* launches whose exit the manager is told of, by event file or backup
  unheard,   \* ghost: launches of which both failed
  shown,     \* ghost: accounts the active game was told of or got a ticket of since
             \* the active app, the account or loginusers.vdf last changed
  met,       \* ghost: launches whose thread claimed their own process
  cleared    \* ghost: launches that may lose the active app other than by the end of
             \* their own process

settingVars == <<signIns, ticketVars>>
spawnVars   == <<realApp, launched, at, app>>
monitorVars == <<watch, baseline, target, claimed, met>>
reportVars  == <<reported, unheard>>
gameVars == <<settingVars, spawnVars, monitorVars, active, due, proc, reportVars, shown,
          cleared>>

Acts == 2 * launched + signIns

Nothing == [p \in Pids |-> {}]

GameInit ==
  /\ TicketInit
  /\ signIns = 0
  /\ active = NoApp /\ realApp = NoApp /\ claimed = {}
  /\ launched = 0 /\ at = "idle"
  /\ app = [l \in Launches |-> NoApp]
  /\ due = {} /\ proc = [p \in Pids |-> NoLaunch]
  /\ watch = [l \in Launches |-> "none"]
  /\ baseline = [l \in Launches |-> {}] /\ target = [l \in Launches |-> NoPid]
  /\ reported = {} /\ unheard = {}
  /\ shown = Nothing /\ met = {} /\ cleared = {}

Running(p) == proc[p] # NoLaunch

\* FindProcessIdsByName: the processes whose name, as the system has it, is the
\* file name.
FindProcessIdsByName(name) ==
  {p \in Pids : Running(p) /\ Comm[Exe[app[proc[p]]]] = name}

-----------------------------------------------------------------------------
(* The SpawnProcess hook. *)

\* The active app and the app behind 480 are set before the game is started.
SpawnProcess(a) ==
  /\ at = "idle" /\ launched < MaxLaunches /\ Acts + 2 <= MaxActs
  /\ launched' = launched + 1 /\ at' = "spawn"
  /\ app' = [app EXCEPT ![launched'] = a]
  /\ active' = a /\ realApp' = IF a \in Fixed THEN a ELSE NoApp
  /\ due' = due \cup {launched'} /\ shown' = Nothing
  /\ cleared' = IF \E l \in Launches : watch[l] = "clear" THEN cleared \cup {launched'}
                ELSE cleared
  /\ UNCHANGED <<settingVars, monitorVars, proc, reportVars>>

\* The process of a launch starts, during the call or after it.
Start(l, p) ==
  /\ l \in due /\ ~Running(p)
  /\ due' = due \ {l} /\ proc' = [proc EXCEPT ![p] = l]
  /\ shown' = [shown EXCEPT ![p] = {}]
  /\ UNCHANGED <<settingVars, spawnVars, monitorVars, active, reportVars, cleared>>

\* The original returns; MonitorGameLifecycle takes the processes that are
\* there by now as the baseline, and starts the thread.
MonitorGameLifecycle ==
  /\ at = "spawn" /\ at' = "idle"
  /\ baseline' = [baseline EXCEPT ![launched] = FindProcessIdsByName(Exe[app[launched]])]
  /\ watch' = [watch EXCEPT ![launched] = "poll"]
  /\ UNCHANGED <<settingVars, realApp, launched, app, target, claimed, met, active, due,
                 proc, reportVars, shown, cleared>>

\* The game ends.
Exit(p) ==
  /\ Running(p)
  /\ proc' = [proc EXCEPT ![p] = NoLaunch]
  /\ UNCHANGED <<settingVars, spawnVars, monitorVars, active, due, reportVars, shown,
                 cleared>>

-----------------------------------------------------------------------------
(* The monitor thread. *)

WatchGoes(l, from, to) ==
  /\ watch[l] = from
  /\ watch' = [watch EXCEPT ![l] = to]

\* The process that the thread has claimed, or one with its number.
Lives(l) == \E p \in Pids : p = target[l] /\ Running(p)

Fresh(l) == FindProcessIdsByName(Exe[app[l]]) \ baseline[l]

\* Mutant of Poll: the process is not claimed.
PollUnclaimed(l) ==
  /\ watch[l] = "poll" /\ \E p \in Fresh(l) :
       /\ WatchGoes(l, "poll", "inject")
       /\ target' = [target EXCEPT ![l] = p]
       /\ met' = IF proc[p] = l THEN met \cup {l} ELSE met
  /\ UNCHANGED <<settingVars, spawnVars, baseline, claimed, active, due, proc, reportVars,
                 shown, cleared>>

\* ClaimPid succeeds for one thread, which goes on with the process; the other
\* one gives up.
Poll(l) ==
  /\ watch[l] = "poll" /\ baseline' = [baseline EXCEPT ![l] = {}] /\ \E p \in Fresh(l) :
       \/ p \in claimed /\ WatchGoes(l, "poll", "over") /\ UNCHANGED <<target, claimed, met>>
       \/ /\ p \notin claimed /\ WatchGoes(l, "poll", "inject")
          /\ claimed' = claimed \cup {p} /\ target' = [target EXCEPT ![l] = p]
          /\ met' = IF proc[p] = l THEN met \cup {l} ELSE met
  /\ UNCHANGED <<settingVars, spawnVars, active, due, proc, reportVars, shown, cleared>>

\* After 75 looks.
GiveUp(l) ==
  /\ WatchGoes(l, "poll", "over") /\ Fresh(l) = {}
  /\ baseline' = [baseline EXCEPT ![l] = {}]
  /\ UNCHANGED <<settingVars, spawnVars, target, claimed, met, active, due, proc,
                 reportVars, shown, cleared>>

\* InjectForApp, for apps with modules: whether it works or not, the thread
\* goes on.
InjectForApp(l) ==
  /\ WatchGoes(l, "inject", "wait")
  /\ UNCHANGED <<settingVars, spawnVars, baseline, target, claimed, met, active, due, proc,
                 reportVars, shown, cleared>>

\* On Windows the process may not be opened: the thread goes on at once, as if
\* it had ended.
OpenFails(l) ==
  /\ WatchGoes(l, "inject", IF active = app[l] THEN "clear" ELSE "report")
  /\ cleared' = IF Lives(l) THEN cleared \cup {l} ELSE cleared
  /\ UNCHANGED <<settingVars, spawnVars, baseline, target, claimed, met, active, due, proc,
                 reportVars, shown>>

\* Mutant of NoticeExit: only the exit of the active app is looked after.
NoticeExitOfActive(l) ==
  /\ WatchGoes(l, "wait", IF active = app[l] THEN "clear" ELSE "over")
  /\ ~Lives(l)
  /\ UNCHANGED <<settingVars, spawnVars, baseline, target, claimed, met, active, due, proc,
                 reportVars, shown, cleared>>

\* Mutant of NoticeExit: the active app is cleared whichever it is.
NoticeExitUnchecked(l) ==
  /\ WatchGoes(l, "wait", "clear")
  /\ ~Lives(l)
  /\ UNCHANGED <<settingVars, spawnVars, baseline, target, claimed, met, active, due, proc,
                 reportVars, shown, cleared>>

\* The process is gone, unless its number is in use again; the active app is
\* compared ...
NoticeExit(l) ==
  /\ WatchGoes(l, "wait", IF active = app[l] THEN "clear" ELSE "report")
  /\ ~Lives(l)
  /\ UNCHANGED <<settingVars, spawnVars, baseline, target, claimed, met, active, due, proc,
                 reportVars, shown, cleared>>

\* ... and then cleared, whichever it is by now.
ClearActive(l) ==
  /\ WatchGoes(l, "clear", "report")
  /\ active' = NoApp /\ shown' = Nothing
  /\ cleared' = cleared \cup {k \in Launches : app[k] = app[l] /\ (k # l \/ l \notin met)}
  /\ UNCHANGED <<settingVars, spawnVars, baseline, target, claimed, met, due, proc, reportVars>>

\* The event file, which may fail, and the backup command, which needs the
\* manager's path and may fail as well.
Report(l) ==
  /\ WatchGoes(l, "report", "over")
  /\ \/ reported' = reported \cup {l} /\ UNCHANGED unheard
     \/ unheard' = unheard \cup {l} /\ UNCHANGED reported
  /\ UNCHANGED <<settingVars, spawnVars, baseline, target, claimed, met, active, due,
                 proc, shown, cleared>>

-----------------------------------------------------------------------------
(* What a game is told, and what changes that. *)

\* An account is shown to a game.  Only the active one is followed.
Show(p, account) ==
  /\ Running(p) /\ active = app[proc[p]]
  /\ shown' = [shown EXCEPT ![p] = @ \cup ({account} \ {NoAccount})]
  /\ UNCHANGED <<settingVars, spawnVars, monitorVars, active, due, proc, reportVars,
                 cleared>>

\* The hook of IPCProcessMessage: the account the active app is spoofed with,
\* or the user's.
IPCProcessMessage(p) ==
  LET spoofed == IF active = NoApp THEN NoAccount ELSE GetSpoofSteamID(active, Configured)
  IN Show(p, IF spoofed = NoAccount THEN user ELSE spoofed)

\* HandleOwnershipTicketResponse, for an app of the configuration that has been
\* refused; a game that goes as 480 asks for the ticket of that.
HandleOwnershipTicketResponse(p) ==
  /\ Running(p) /\ app[proc[p]] \in Configured \ Fixed
  /\ GetAppOwnershipTicket(app[proc[p]]) # NoTicket
  /\ Show(p, GetAppOwnershipTicket(app[proc[p]]))

ChangeUser ==
  /\ signIns < MaxSignIns /\ Acts < MaxActs /\ signIns' = signIns + 1
  /\ (\E c \in Accounts : SignIn(c)) \/ \E c \in Accounts \cup {NoAccount} : RecordLogin(c)
  /\ shown' = Nothing
  /\ UNCHANGED <<spawnVars, monitorVars, active, due, proc, reportVars, cleared>>

Capture ==
  /\ ConfigStoreGetBinary
  /\ UNCHANGED <<signIns, spawnVars, monitorVars, active, due, proc,
                 reportVars, shown, cleared>>

WatchStep(l) ==
  \/ Poll(l) \/ GiveUp(l) \/ InjectForApp(l) \/ OpenFails(l)
  \/ NoticeExit(l) \/ ClearActive(l) \/ Report(l)

GameNext ==
  \/ \E a \in Apps : SpawnProcess(a)
  \/ MonitorGameLifecycle
  \/ \E l \in Launches : WatchStep(l) \/ \E p \in Pids : Start(l, p)
  \/ \E p \in Pids : Exit(p) \/ IPCProcessMessage(p) \/ HandleOwnershipTicketResponse(p)
  \/ ChangeUser \/ Capture

GameSpec == GameInit /\ [][GameNext]_gameVars

\* The threads run.
GameFairSpec == GameSpec /\ \A l \in Launches : WF_gameVars(WatchStep(l))

-----------------------------------------------------------------------------
GameTypeOK ==
  /\ TicketTypeOK
  /\ signIns \in 0 .. MaxSignIns
  /\ active \in Apps \cup {NoApp} /\ realApp \in Apps \cup {NoApp}
  /\ claimed \subseteq Pids /\ launched \in 0 .. MaxLaunches /\ at \in {"idle", "spawn"}
  /\ app \in [Launches -> Apps \cup {NoApp}]
  /\ due \subseteq Launches /\ proc \in [Pids -> Launches \cup {NoLaunch}]
  /\ watch \in [Launches -> {"none", "poll", "inject", "wait", "clear", "report", "over"}]
  /\ baseline \in [Launches -> SUBSET Pids] /\ target \in [Launches -> Pids \cup {NoPid}]
  /\ reported \subseteq Launches /\ unheard \subseteq Launches
  /\ shown \in [Pids -> SUBSET Accounts]
  /\ met \subseteq Launches /\ cleared \subseteq Launches

\* The game launched last is the active one as long as it runs, unless another
\* process of the app ended, one was ending at that very moment, or its own
\* thread could not wait for it (OpenFails); and when all threads are over and
\* each had found the process of its launch, none is active.
ActiveFollowsGames ==
  /\ \A p \in Pids : (proc[p] = launched /\ Running(p)) =>
       active = app[launched] \/ launched \in cleared
  /\ (at = "idle" /\ \A l \in 1 .. launched : l \in met /\ watch[l] = "over") => active = NoApp

\* No two threads inject into the same process and report its exit.
NoDoubleInjection ==
  \A k, l \in Launches : (target[k] = target[l] /\ target[l] # NoPid) => k = l

\* When loginusers.vdf names the user, a game that is the active one meets one
\* account, from the last change of the account, of that file and of the active
\* app on: GetSteamID and the ownership ticket agree.  A ticket with no account
\* in it is not counted.  It does not hold of an app with nothing but an
\* encrypted ticket, nor when that file is out of date: then any base will do.
OneIdentity ==
  recent = user =>
    \A p \in Pids :
      Running(p) => \/ app[proc[p]] \in eTicket \ appTicket
                    \/ Cardinality(shown[p]) <= 1

\* The exit of the process a thread has claimed is reported, by an event or a
\* backup unless both fail, whichever app is active by then, and unless its
\* number was given to another process at once.  A thread whose process has a
\* number that was claimed before has no process to report.
ExitsAreReported ==
  \A l \in Launches :
    (target[l] # NoPid /\ ~Lives(l)) ~> (l \in reported \cup unheard \/ Lives(l))
=============================================================================
