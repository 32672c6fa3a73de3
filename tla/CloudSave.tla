----------------------------- MODULE CloudSave ------------------------------
(***************************************************************************)
(* Cloud saves of the manager (CloudSaveManager.cpp, DaemonService.cpp)    *)
(* and the game-exit trigger of the core (Hooks_Misc.cpp).  A game that    *)
(* ends leaves an event file, which the daemon turns into a backup, and    *)
(* starts a command-line backup as well; web requests back up and restore  *)
(* at any time.  One lock file per app, which the system releases when its *)
(* holder dies, is all that keeps these apart.                             *)
(*                                                                         *)
(* A backup goes to the WebDAV server or, without one, to the local        *)
(* snapshot repository; a snapshot is named by the second it began in.     *)
(* RecordSyncStatus is left out: no operation reads cloud_status.json.     *)
(***************************************************************************)
EXTENDS Naturals, FiniteSets

CONSTANTS
  Apps,
  Located,      \* apps for which LocateSaveDirectories finds something
  Synced,       \* apps for which IsCloudSyncEnabled holds
  SaveFiles,    \* the files of a save directory
  Daemon,       \* the poll thread of the daemon
  WebThreads,   \* threads that serve API requests
  Clis,         \* command-line processes (bound: that many at a time)
  ProcessOf,    \* ProcessOf[w]: the process w is a thread of
  ManagerKnown, \* the core knows the manager's executable
  NoWorker, NoEvent,
  Keep,         \* local snapshots retained (5 in the code)
  MayFail,      \* whether copies, transfers and listings may fail
  MaxTime, MaxPlays, MaxRequests, MaxCrashes   \* bounds of the environment

Workers   == {Daemon} \cup WebThreads \cup Clis
Processes == {ProcessOf[w] : w \in Workers}

Times    == 0 .. MaxTime
Versions == 0 .. MaxPlays
Missing  == MaxPlays + 1          \* a file no backup has copied
Content  == [SaveFiles -> Versions \cup {Missing}]
NoSnapshot == [f \in {} |-> 0]
EmptySnapshot == [f \in SaveFiles |-> Missing]
Repository == [Apps -> [Times -> Content \cup {NoSnapshot}]]
Events == [app : Apps, run : Versions, full : BOOLEAN]

ASSUME CloudSaveAssumption ==
  /\ Apps # {}
  /\ Daemon \notin WebThreads \cup Clis /\ WebThreads \cap Clis = {}
  /\ NoWorker \notin Workers /\ NoEvent \notin Events
  /\ Located \subseteq Apps /\ Synced \subseteq Apps
  /\ ManagerKnown \in BOOLEAN /\ MayFail \in BOOLEAN
  /\ Keep \in Nat \ {0}
  /\ MaxTime \in Nat /\ MaxPlays \in Nat /\ MaxRequests \in Nat /\ MaxCrashes \in Nat

VARIABLES
  config,        \* webdavServerUrl and cloudEnabled: "none" (no url), "disabled", "enabled"
  clock,         \* GetCurrentTimestamp()
  save,          \* save[a]: the version of each file of the game's save
  plays,         \* runs of games that have ended
  hooks,         \* lifecycle threads of ended games: [app, run, at]
  events,        \* event files: [app, run, full]
  requests, crashes,
  lock,          \* lock[a]: holder of cloud_<a>.lock
  local, server, \* the snapshots of each app by timestamp
  pc, job,       \* where each worker is, and at what
  ts, todo, some,\* its timestamp, files to do, whether one was done
  unpruned,      \* apps whose repository was not pruned to the end since a failure
  excused        \* apps whose last exit may lack a backup, see ExitIsBackedUp

envVars  == <<config, clock, save, plays, requests, crashes>>
exitVars == <<hooks, events>>
repoVars == <<local, server>>
workVars == <<pc, job, ts, todo, some>>
ghosts   == <<unpruned, excused>>
vars == <<envVars, exitVars, lock, repoVars, workVars, ghosts>>

AnyApp == CHOOSE a \in Apps : TRUE
Idle == [op |-> "none", app |-> AnyApp, remote |-> FALSE, event |-> NoEvent]

Url     == config # "none"
App(w)  == job[w].app
GoTo(w, place) == pc' = [pc EXCEPT ![w] = place]
Existing(repo, a) == {t \in Times : repo[a][t] # NoSnapshot}
Newest(T) == CHOOSE t \in T : \A u \in T : u <= t

-----------------------------------------------------------------------------
Init ==
  /\ config \in {"none", "disabled", "enabled"}
  /\ clock = 0
  /\ save = [a \in Apps |-> [f \in SaveFiles |-> 0]]
  /\ plays = 0
  /\ hooks = {} /\ events = {}
  /\ requests = 0 /\ crashes = 0
  /\ lock = [a \in Apps |-> NoWorker]
  /\ local = [a \in Apps |-> [t \in Times |-> NoSnapshot]]
  /\ server = local
  /\ pc = [w \in Workers |-> "idle"]
  /\ job = [w \in Workers |-> Idle]
  /\ ts = [w \in Workers |-> 0]
  /\ todo = [w \in Workers |-> {}]
  /\ some = [w \in Workers |-> FALSE]
  /\ unpruned = {} /\ excused = {}

Tick ==
  /\ clock < MaxTime
  /\ clock' = clock + 1
  /\ UNCHANGED <<config, save, plays, requests, crashes, exitVars, lock, repoVars,
                 workVars, ghosts>>

(* The core: a game ends, and its lifecycle thread reports it. *)

GameExits(a) ==
  /\ plays < MaxPlays
  /\ plays' = plays + 1
  /\ save' = [save EXCEPT ![a] = [f \in SaveFiles |-> plays']]
  /\ hooks' = hooks \cup {[app |-> a, run |-> plays', at |-> "open"]}
  /\ excused' = excused \ {a}
  /\ UNCHANGED <<config, clock, requests, crashes, events, lock, repoVars, workVars,
                 unpruned>>

Advance(h, place) == hooks' = (hooks \ {h}) \cup {[h EXCEPT !.at = place]}
EventOf(h, full) == [app |-> h.app, run |-> h.run, full |-> full]

\* The event file is created empty ...
OpenEvent(h) ==
  /\ h.at = "open"
  /\ events' = events \cup {EventOf(h, FALSE)}
  /\ Advance(h, "write")
  /\ UNCHANGED <<envVars, lock, repoVars, workVars, ghosts>>

\* ... and written when the stream is closed; an unlinked one stays unlinked.
WriteEvent(h) ==
  /\ h.at = "write"
  /\ events' = IF EventOf(h, FALSE) \in events
                 THEN (events \ {EventOf(h, FALSE)}) \cup {EventOf(h, TRUE)} ELSE events
  /\ Advance(h, "spawn")
  /\ UNCHANGED <<envVars, lock, repoVars, workVars, ghosts>>

Start(w, j) ==
  /\ pc[w] = "idle"
  /\ GoTo(w, "guard")
  /\ job' = [job EXCEPT ![w] = j]

\* manager backup <appid> --silent: the url counts even if cloud is disabled.
SpawnCli(h) ==
  /\ h.at = "spawn"
  /\ hooks' = hooks \ {h}
  /\ IF ManagerKnown /\ h.app \in Synced
       THEN \E w \in Clis : Start(w, [Idle EXCEPT !.op = "backup", !.app = h.app, !.remote = Url])
       ELSE UNCHANGED <<pc, job>>
  /\ UNCHANGED <<envVars, events, lock, repoVars, ts, todo, some, ghosts>>

(* The manager's entry points. *)

\* Mutant of DaemonTakes: the event is removed before the backup.
DaemonTakesAndRemoves(e) ==
  /\ pc[Daemon] = "idle"
  /\ events' = events \ {e}
  /\ IF e.full
       THEN /\ Start(Daemon, [op |-> "backup", app |-> e.app,
                              remote |-> config = "enabled", event |-> e])
            /\ UNCHANGED excused
       ELSE excused' = excused \cup {e.app} /\ UNCHANGED <<pc, job>>
  /\ UNCHANGED <<envVars, hooks, lock, repoVars, ts, todo, some, unpruned>>

\* ProcessPendingGameExitEvents reads an event; one without an app id, because
\* it is not written yet, is removed and forgotten.
DaemonTakes(e) ==
  /\ pc[Daemon] = "idle"
  /\ IF e.full
       THEN /\ Start(Daemon, [op |-> "backup", app |-> e.app,
                              remote |-> config = "enabled", event |-> e])
            /\ UNCHANGED <<events, excused>>
       ELSE /\ events' = events \ {e}
            /\ excused' = excused \cup {e.app}
            /\ UNCHANGED <<pc, job>>
  /\ UNCHANGED <<envVars, hooks, lock, repoVars, ts, todo, some, unpruned>>

\* POST /api/cloud/backup and /restore, and the commands of that name, which
\* unlike the API ask whether the app is synced, the configuration enabled.
Request(w, op, a) ==
  /\ requests < MaxRequests
  /\ requests' = requests + 1
  /\ w # Daemon
  /\ w \in Clis => IF op = "restore" THEN config = "enabled" ELSE a \in Synced
  /\ Start(w, [op |-> op, app |-> a, remote |-> Url, event |-> NoEvent])
  /\ UNCHANGED <<config, clock, save, plays, crashes, exitVars, lock, repoVars,
                 ts, todo, some, ghosts>>

(* BackupAppSaves, BackupAppSavesLocal and RestoreAppSaves. *)

\* Mutant of Guard: a lock that is held is no obstacle.
GuardIgnoringHolder(w) ==
  /\ pc[w] = "guard"
  /\ lock' = [lock EXCEPT ![App(w)] = w]
  /\ GoTo(w, IF job[w].op = "backup" /\ job[w].remote THEN "safeguard" ELSE "locate")
  /\ UNCHANGED <<envVars, exitVars, repoVars, job, ts, todo, some, ghosts>>

\* AppLockGuard does not wait: if another operation on the app is in progress
\* this one is skipped.
Guard(w) ==
  /\ pc[w] = "guard"
  /\ IF lock[App(w)] = NoWorker
       THEN /\ lock' = [lock EXCEPT ![App(w)] = w]
            /\ GoTo(w, IF job[w].op = "backup" /\ job[w].remote THEN "safeguard" ELSE "locate")
            /\ UNCHANGED excused
       ELSE /\ GoTo(w, "end")
            /\ excused' = IF w = Daemon THEN excused \cup {App(w)} ELSE excused
            /\ UNCHANGED lock
  /\ UNCHANGED <<envVars, exitVars, repoVars, job, ts, todo, some, unpruned>>

\* Mutant of Safeguard: the nested guard waits for the lock.
SafeguardWaits(w) ==
  /\ pc[w] = "safeguard"
  /\ lock[App(w)] = NoWorker
  /\ GoTo(w, "locate")
  /\ UNCHANGED <<envVars, exitVars, lock, repoVars, job, ts, todo, some, ghosts>>

\* BackupAppSaves calls BackupAppSavesLocal, whose own guard opens the same lock
\* file, finds it held (by its caller) and skips.
Safeguard(w) ==
  /\ pc[w] = "safeguard"
  /\ lock[App(w)] # NoWorker
  /\ GoTo(w, "locate")
  /\ UNCHANGED <<envVars, exitVars, lock, repoVars, job, ts, todo, some, ghosts>>

\* LocateSaveDirectories, and for a restore the test of the url.  The
\* timestamp is that of the moment; an upload takes its own a little later.
Locate(w) ==
  /\ pc[w] = "locate"
  /\ IF App(w) \in Located /\ (job[w].op = "restore" => job[w].remote)
       THEN /\ GoTo(w, IF job[w].op = "restore" THEN "list" ELSE "copy")
            /\ todo' = [todo EXCEPT ![w] = SaveFiles]
            /\ ts' = [ts EXCEPT ![w] = clock]
       ELSE GoTo(w, "release") /\ UNCHANGED <<todo, ts>>
  /\ UNCHANGED <<envVars, exitVars, lock, repoVars, job, some, ghosts>>

Stored(repo, w, c) == [repo EXCEPT ![App(w)] = [@ EXCEPT ![ts[w]] = c]]
Begun(repo, w) == IF repo[App(w)][ts[w]] = NoSnapshot THEN EmptySnapshot ELSE repo[App(w)][ts[w]]

\* One file is copied or uploaded, its directory being made first, or is not.
CopyFile(w, f) ==
  /\ pc[w] = "copy"
  /\ f \in todo[w]
  /\ todo' = [todo EXCEPT ![w] = @ \ {f}]
  /\ \E done \in {TRUE} \cup (IF MayFail THEN {FALSE} ELSE {}) :
       LET put(repo) == Stored(repo, w, IF done THEN [Begun(repo, w) EXCEPT ![f] = save[App(w)][f]]
                                                ELSE Begun(repo, w))
       IN  /\ IF job[w].remote
                THEN /\ server' \in {put(server)} \cup (IF done THEN {} ELSE {server})
                     /\ UNCHANGED local
                ELSE local' = put(local) /\ UNCHANGED server
           /\ some' = [some EXCEPT ![w] = @ \/ done]
           /\ excused' = IF done \/ (w # Daemon /\ job[w].remote) THEN excused
                        ELSE excused \cup {App(w)}
  /\ UNCHANGED <<envVars, exitVars, lock, pc, job, ts, unpruned>>

\* The file system throws.  Locating and uploading let it pass, to the caller's
\* handler; a local backup catches it, be it from a copy or from the listing of
\* the snapshots, skips the prune and reports.
Throws(w) ==
  /\ MayFail
  /\ \/ pc[w] = "locate"
     \/ pc[w] = "copy" /\ (todo[w] # {} \/ ~job[w].remote)
  /\ GoTo(w, "release")
  /\ LET caught == pc[w] = "copy" /\ ~job[w].remote
         copied == pc[w] = "copy" /\ todo[w] = {}
     IN  /\ unpruned' = IF caught THEN unpruned \cup {App(w)} ELSE unpruned
         /\ excused' = IF w = Daemon /\ ~copied THEN excused \cup {App(w)} ELSE excused
  /\ UNCHANGED <<envVars, exitVars, lock, repoVars, job, ts, todo, some>>

\* Mutant of Kept: one more.
KeptOneMore(T) == {t \in T : Cardinality({u \in T : u > t}) <= Keep}

\* Mutant of Kept: the first instead of the last.
KeptOldest(T) == {t \in T : Cardinality({u \in T : u < t}) < Keep}

\* The last Keep in the order of their names.
Kept(T) == {t \in T : Cardinality({u \in T : u > t}) < Keep}

\* What remove_all leaves of a snapshot; the code ignores that it fails.
Remains(snapshot) ==
  {NoSnapshot} \cup (IF MayFail
                     THEN {[f \in SaveFiles |-> IF f \in F THEN snapshot[f] ELSE Missing] :
                             F \in SUBSET SaveFiles}
                     ELSE {})

\* Every directory of the repository counts as a snapshot, whatever is in it.
\* The server's are never pruned.
Prune(w) ==
  LET old == Existing(local, App(w))
  IN  /\ pc[w] = "copy"
      /\ todo[w] = {}
      /\ ~job[w].remote
      /\ \E left \in [Times -> Content \cup {NoSnapshot}] :
           /\ \A t \in Times :
                IF t \in old \ Kept(old) THEN left[t] \in Remains(local[App(w)][t])
                ELSE left[t] = local[App(w)][t]
           /\ local' = [local EXCEPT ![App(w)] = left]
           /\ unpruned' = IF \E t \in old \ Kept(old) : left[t] # NoSnapshot
                          THEN unpruned \cup {App(w)} ELSE unpruned \ {App(w)}
      /\ GoTo(w, "release")
      /\ UNCHANGED <<envVars, exitVars, lock, server, job, ts, todo, some, excused>>

\* Mutant of Listed: names of the local save are taken for those of the backup.
ListedLocally(snapshot) == SaveFiles

\* What a recursive PROPFIND of a snapshot finds.
Listed(snapshot) == {f \in SaveFiles : snapshot[f] # Missing}

\* ListRemoteBackups: the newest timestamp on the server, whatever it holds.
List(w) ==
  /\ pc[w] = "list"
  /\ \/ /\ Existing(server, App(w)) # {}
        /\ LET t == Newest(Existing(server, App(w)))
           IN  /\ ts' = [ts EXCEPT ![w] = t]
               /\ todo' = [todo EXCEPT ![w] = Listed(server[App(w)][t])]
        /\ GoTo(w, "fetch")
        /\ excused' = excused \cup {App(w)}
     \/ /\ Existing(server, App(w)) = {} \/ MayFail
        /\ GoTo(w, "release")
        /\ UNCHANGED <<ts, todo, excused>>
  /\ UNCHANGED <<envVars, exitVars, lock, repoVars, job, some, unpruned>>

\* One file is downloaded over the local one, or is not.
FetchFile(w, f) ==
  /\ pc[w] = "fetch"
  /\ f \in todo[w]
  /\ todo' = [todo EXCEPT ![w] = @ \ {f}]
  /\ \/ /\ save' = [save EXCEPT ![App(w)] = [@ EXCEPT ![f] = server[App(w)][ts[w]][f]]]
        /\ some' = [some EXCEPT ![w] = TRUE]
     \/ /\ MayFail
        /\ UNCHANGED <<save, some>>
  /\ UNCHANGED <<config, clock, plays, requests, crashes, exitVars, lock, repoVars, pc,
                 job, ts, ghosts>>

\* The operation is over; one file is enough for a success.
Over(w) ==
  \/ pc[w] = "release"
  \/ pc[w] = "copy" /\ todo[w] = {} /\ job[w].remote
  \/ pc[w] = "fetch" /\ todo[w] = {}
Succeeded(w) == Over(w) /\ some[w]

\* The result is recorded and the guard destroyed.
Release(w) ==
  /\ Over(w)
  /\ lock' = [lock EXCEPT ![App(w)] = NoWorker]
  /\ GoTo(w, "end")
  /\ UNCHANGED <<envVars, exitVars, repoVars, job, ts, todo, some, ghosts>>

\* The caller goes on; the daemon removes the event, whatever became of it.
End(w) ==
  /\ pc[w] = "end"
  /\ events' = events \ {job[w].event}
  /\ GoTo(w, "idle")
  /\ job' = [job EXCEPT ![w] = Idle]
  /\ ts' = [ts EXCEPT ![w] = 0]
  /\ todo' = [todo EXCEPT ![w] = {}]
  /\ some' = [some EXCEPT ![w] = FALSE]
  /\ UNCHANGED <<envVars, hooks, lock, repoVars, ghosts>>

Step(w) ==
  \/ Guard(w) \/ Safeguard(w) \/ Locate(w)
  \/ \E f \in SaveFiles : CopyFile(w, f) \/ FetchFile(w, f)
  \/ Throws(w) \/ Prune(w) \/ List(w)
  \/ Release(w) \/ End(w)

\* A manager process dies: the system drops its locks, files stay as they are.
Crash(p) ==
  LET dead == {w \in Workers : ProcessOf[w] = p}
  IN  /\ crashes < MaxCrashes
      /\ crashes' = crashes + 1
      /\ \E w \in dead : pc[w] # "idle"
      /\ lock' = [a \in Apps |-> IF lock[a] \in dead THEN NoWorker ELSE lock[a]]
      /\ pc' = [w \in Workers |-> IF w \in dead THEN "idle" ELSE pc[w]]
      /\ job' = [w \in Workers |-> IF w \in dead THEN Idle ELSE job[w]]
      /\ ts' = [w \in Workers |-> IF w \in dead THEN 0 ELSE ts[w]]
      /\ todo' = [w \in Workers |-> IF w \in dead THEN {} ELSE todo[w]]
      /\ some' = [w \in Workers |-> IF w \in dead THEN FALSE ELSE some[w]]
      /\ unpruned' = unpruned \cup {App(w) : w \in {v \in dead : pc[v] # "idle"}}
      /\ UNCHANGED <<config, clock, save, plays, requests, exitVars, repoVars, excused>>

HookStep(h) == OpenEvent(h) \/ WriteEvent(h) \/ SpawnCli(h)

Next ==
  \/ Tick
  \/ \E a \in Apps : GameExits(a)
  \/ \E h \in hooks : HookStep(h)
  \/ \E e \in events : DaemonTakes(e)
  \/ \E w \in Workers, op \in {"backup", "restore"}, a \in Apps : Request(w, op, a)
  \/ \E w \in Workers : Step(w)
  \/ \E p \in Processes : Crash(p)

Spec == Init /\ [][Next]_vars

\* Threads run and a request to the server ends (WebDavClient sets a timeout);
\* the daemon is there and polls.  Games, users and crashes owe nothing.
FairSpec ==
  /\ Spec
  /\ WF_vars(\E h \in hooks : HookStep(h))
  /\ WF_vars(\E e \in events : DaemonTakes(e))
  /\ \A w \in Workers : WF_vars(Step(w))

-----------------------------------------------------------------------------
HookRecords == [app : Apps, run : Versions, at : {"open", "write", "spawn"}]
JobRecords  == [op : {"none", "backup", "restore"}, app : Apps, remote : BOOLEAN,
                event : Events \cup {NoEvent}]
Places == {"idle", "guard", "safeguard", "locate", "copy", "list", "fetch", "release", "end"}

TypeOK ==
  /\ config \in {"none", "disabled", "enabled"}
  /\ clock \in Times
  /\ save \in [Apps -> [SaveFiles -> Versions]]
  /\ plays \in 0 .. MaxPlays /\ requests \in 0 .. MaxRequests /\ crashes \in 0 .. MaxCrashes
  /\ hooks \subseteq HookRecords
  /\ events \subseteq Events
  /\ lock \in [Apps -> Workers \cup {NoWorker}]
  /\ local \in Repository /\ server \in Repository
  /\ pc \in [Workers -> Places]
  /\ job \in [Workers -> JobRecords]
  /\ ts \in [Workers -> Times]
  /\ todo \in [Workers -> SUBSET SaveFiles]
  /\ some \in [Workers -> BOOLEAN]
  /\ unpruned \subseteq Apps /\ excused \subseteq Apps

\* No snapshot is taken of a save that a restore is writing: while a backup of
\* an app copies, its files change only because the game runs again.
BackupSeesStillSave ==
  [][\A w \in Workers : (pc[w] = "copy" /\ save'[App(w)] # save[App(w)]) => plays' # plays]_vars

\* "Retain only the most recent 5 snapshots": between operations, and however
\* many more had gathered, once a local backup has listed and removed them all
\* since the last that was cut short, could not list them or could not remove one.
RepositoryBounded ==
  \A a \in Apps : (lock[a] = NoWorker /\ a \notin unpruned) => Cardinality(Existing(local, a)) <= Keep

\* Pruning never takes the snapshot just made: a local backup that is about to
\* report success left a file in the repository.
SuccessIsKept ==
  \A w \in Workers :
    (Succeeded(w) /\ job[w].op = "backup" /\ ~job[w].remote) =>
      local[App(w)][ts[w]] \notin {NoSnapshot, EmptySnapshot}

\* The snapshots retained are something to fall back on: a repository that
\* holds a file of the save never loses the last one.
Usable(a) == \E t \in Times : local[a][t] \notin {NoSnapshot, EmptySnapshot}
FallbackIsKept == [][\A a \in Apps : Usable(a) => Usable(a)']_vars

\* ARCHITECTURE.md: the end of a game triggers a backup.  When all has calmed
\* down the save it left is in a repository, unless its event was read before
\* it was written, another operation held the app's lock, a transfer failed or
\* a restore replaced the save.  A crash of the manager is no excuse.
Quiet == hooks = {} /\ events = {} /\ \A w \in Workers : pc[w] = "idle"
BackedUp(a) == \E repo \in {local, server}, t \in Times : repo[a][t] = save[a]
Played(a) == \E f \in SaveFiles : save[a][f] # 0

ExitIsBackedUp ==
  Quiet => \A a \in Located \ excused : Played(a) => BackedUp(a)

\* The comment in BackupAppSaves: a local snapshot is taken first, as an
\* offline safeguard, when the save is uploaded.
UploadHasLocalCopy ==
  \A w \in Workers :
    (Succeeded(w) /\ job[w].op = "backup" /\ job[w].remote) =>
      Existing(local, App(w)) # {}

\* When games and users stop, so does the manager: every operation ends, none
\* waits for a lock (not even its own), and every event is consumed once
\* whatever became of its backup, crashes included.
ComesToRest == <>[]Quiet

\* The lock files make what daemon, web threads and command lines do one
\* operation per app: threads, crashes and failed transfers included, save and
\* snapshots change only as SaveVault says.
Busy == [a \in Apps |-> IF lock[a] = NoWorker THEN "none" ELSE job[lock[a]].op]
Vault == INSTANCE SaveVault WITH busy <- Busy
ImplementsVault == Vault!Spec
=============================================================================
