------------------------- MODULE CoreThreadsProofs -------------------------
(***************************************************************************)
(* Proofs about the threads that the core starts for itself.               *)
(*                                                                         *)
(* HotReload, for any files, script contents and platforms: when the watch *)
(* thread has come to rest after changes that raised a notification and a  *)
(* callback, the core serves what is on disk.                              *)
(*                                                                         *)
(* GameLifecycle, for any games, process ids, accounts and tickets, and    *)
(* any number of launches: the monitor threads of the games share a set of *)
(* claimed processes and the active app, and no lock is held from a look   *)
(* at either to what follows from it.                                      *)
(***************************************************************************)
EXTENDS HotReload, GameLifecycle, FiniteSetTheorems, WellFoundedInduction, TLAPS

-----------------------------------------------------------------------------
(* HotReload: the inductive invariant. *)

\* Before StartWatch the system queues nothing.
SilentStart == ~Watching => queue = << >>

\* What a scan has read is what is on disk, as long as nothing has changed
\* behind it: a change is in the queue or among the missed ones.
ScanIsCurrent ==
  (pc \in {"start", "scan"} /\ queue = << >> /\ missed = {}) =>
    \A f \in Files \ todo : build[f] = disk[f]

SnapshotIsCurrent ==
  (pc = "sync" /\ queue = << >> /\ missed = {}) => snapshot = disk

RestIsCurrent ==
  (pc = "wait" /\ queue = << >> /\ batch = 0 /\ missed = {}) => snapshot = disk

\* A sync follows every publication.
Synced == pc = "wait" => injected = Unlocked(snapshot)

ReloadInv ==
  /\ TypeOK
  /\ SilentStart
  /\ ScanIsCurrent
  /\ SnapshotIsCurrent
  /\ RestIsCurrent
  /\ Synced

-----------------------------------------------------------------------------
(* HotReload: lemmas about the operators. *)

LEMMA UnlockedAreGames ==
  ASSUME NEW map \in [Files -> Contents]
  PROVE  Unlocked(map) \subseteq Games
BY HotReloadAssumption DEF Unlocked, UnlocksIn

\* A notification leaves an event in the queue; a change without one is noted.
LEMMA NotifyEffect ==
  ASSUME TypeOK, NEW op, NEW f \in Files, Notify(op, f)
  PROVE  /\ queue' \in Seq(Files \cup {"changed"})
         /\ missed' \subseteq Files
         /\ queue' # << >> \/ missed' # {}
         /\ ~Watching => queue' = queue
<1>1. queue \in Seq(Files \cup {"changed"}) /\ missed \subseteq Files
  BY DEF TypeOK
<1> DEFINE event == IF backend = "inotify" THEN f ELSE "changed"
<1>2. event \in Files \cup {"changed"}
  OBVIOUS
<1>3. Enqueue(f) = queue \/ Enqueue(f) = Append(queue, event)
  BY DEF Enqueue
<1>4. Enqueue(f) = queue => queue # << >>
  <2>1. Append(queue, event) # queue
    BY <1>1, <1>2
  <2> QED
    BY <2>1 DEF Enqueue
<1> HIDE DEF event
<1>5. Enqueue(f) \in Seq(Files \cup {"changed"}) /\ Enqueue(f) # << >>
  BY <1>1, <1>2, <1>3, <1>4
<1> QED
  BY <1>1, <1>5 DEF Notify

\* Taking events yields callbacks to make, or files that nobody looks at, or
\* finds the core up to date.
LEMMA TakeEventsEffect ==
  ASSUME TypeOK, TakeEvents
  PROVE  /\ batch' \in Nat /\ missed' \subseteq Files
         /\ batch' # 0 \/ missed' # {} \/ snapshot = disk
<1>1. queue \in Seq(Files \cup {"changed"})
  BY DEF TypeOK
<1>2. Len(queue) \in Nat
  BY <1>1
<1>3. Cardinality(Scripts \ Nested) \in Nat
  <2>1. Scripts \ Nested \subseteq Files
    BY DEF Scripts
  <2> QED
    BY <2>1, FS_Subset, FS_CardinalityType, HotReloadAssumption
<1>4. batch' \in Nat
  BY <1>2, <1>3 DEF TakeEvents
<1>5. missed' = IF batch' = 0 THEN missed \cup {f \in Files : snapshot[f] # disk[f]} ELSE missed
  BY DEF TakeEvents
<1>6. ASSUME \A f \in Files : snapshot[f] = disk[f]
      PROVE  snapshot = disk
  <2>1. snapshot \in [Files -> Contents] /\ disk \in [Files -> Contents]
    BY DEF TypeOK
  <2> QED
    BY <1>6, <2>1
<1> QED
  BY <1>4, <1>5, <1>6 DEF TypeOK

\* A step of the manager: one file changes, with or without notice.
LEMMA ManagerEffect ==
  ASSUME TypeOK, Manager
  PROVE  /\ disk' \in [Files -> Contents]
         /\ parked' \in [Files -> Contents]
         /\ saving' \in [Files -> Versions \cup {Absent}]
         /\ edits' \in 0 .. MaxEdits
         /\ \E f \in Files, op \in Ops : Notify(op, f)
         /\ UNCHANGED <<backend, watchVars, servedVars>>
<1> USE HotReloadAssumption DEF TypeOK, Contents, Begin, Entry, Ops
<1>1. ASSUME NEW f \in Files, NEW v \in Versions, SaveGameUnlock(f, v)
      PROVE  /\ disk' \in [Files -> Contents]
             /\ parked' \in [Files -> Contents]
             /\ saving' \in [Files -> Versions \cup {Absent}]
             /\ edits' \in 0 .. MaxEdits
                 /\ \E g \in Files, op \in Ops : Notify(op, g)
             /\ UNCHANGED <<backend, watchVars, servedVars>>
  <2>1. Notify("create", f) \/ Notify("write", f)
    BY <1>1 DEF SaveGameUnlock
  <2>2. \E g \in Files, op \in Ops : Notify(op, g)
    BY <2>1
  <2> QED
    BY <1>1, <2>2 DEF SaveGameUnlock
<1>2. ASSUME NEW f \in Files, FinishSave(f)
      PROVE  /\ disk' \in [Files -> Contents]
             /\ parked' \in [Files -> Contents]
             /\ saving' \in [Files -> Versions \cup {Absent}]
             /\ edits' \in 0 .. MaxEdits
                 /\ \E g \in Files, op \in Ops : Notify(op, g)
             /\ UNCHANGED <<backend, watchVars, servedVars>>
  BY <1>2 DEF FinishSave
<1>3. ASSUME NEW f \in Files, DeleteScript(f)
      PROVE  /\ disk' \in [Files -> Contents]
             /\ parked' \in [Files -> Contents]
             /\ saving' \in [Files -> Versions \cup {Absent}]
             /\ edits' \in 0 .. MaxEdits
                 /\ \E g \in Files, op \in Ops : Notify(op, g)
             /\ UNCHANGED <<backend, watchVars, servedVars>>
  BY <1>3 DEF DeleteScript
<1>4. ASSUME NEW f \in Files, NEW enable \in BOOLEAN, ToggleScript(f, enable)
      PROVE  /\ disk' \in [Files -> Contents]
             /\ parked' \in [Files -> Contents]
             /\ saving' \in [Files -> Versions \cup {Absent}]
             /\ edits' \in 0 .. MaxEdits
                 /\ \E g \in Files, op \in Ops : Notify(op, g)
             /\ UNCHANGED <<backend, watchVars, servedVars>>
  BY <1>4 DEF ToggleScript
<1> QED
  BY <1>1, <1>2, <1>3, <1>4 DEF Manager

-----------------------------------------------------------------------------
(* HotReload: preservation. *)

LEMMA ReloadInitInv == Init => ReloadInv
<1> SUFFICES ASSUME Init PROVE ReloadInv
  OBVIOUS
<1>1. TypeOK
  BY HotReloadAssumption DEF Init, TypeOK, Contents, NothingRead
<1>2. SilentStart /\ ScanIsCurrent /\ SnapshotIsCurrent /\ RestIsCurrent /\ Synced
  BY DEF Init, SilentStart, ScanIsCurrent, SnapshotIsCurrent, RestIsCurrent,
         Synced, Watching
<1> QED
  BY <1>1, <1>2 DEF ReloadInv

\* A change of the manager makes the claims about rest void: it is queued, or
\* it is missed.
LEMMA ManagerStep ==
  ASSUME ReloadInv, Manager
  PROVE  ReloadInv'
<1>1. TypeOK /\ SilentStart /\ Synced
  BY DEF ReloadInv
<1>2. PICK f \in Files, op \in Ops : Notify(op, f)
  BY <1>1, ManagerEffect
<1>3. UNCHANGED <<backend, watchVars, servedVars>>
  BY <1>1, ManagerEffect
<1>4. queue' # << >> \/ missed' # {}
  BY <1>1, <1>2, NotifyEffect
<1>5. TypeOK'
  BY <1>1, <1>2, <1>3, ManagerEffect, NotifyEffect DEF TypeOK, watchVars, servedVars
<1>6. SilentStart'
  BY <1>1, <1>2, <1>3, NotifyEffect DEF SilentStart, Watching, watchVars
<1>7. ScanIsCurrent' /\ SnapshotIsCurrent' /\ RestIsCurrent'
  BY <1>4 DEF ScanIsCurrent, SnapshotIsCurrent, RestIsCurrent
<1>8. Synced'
  BY <1>1, <1>3 DEF Synced, watchVars, servedVars, Unlocked
<1> QED
  BY <1>3, <1>5, <1>6, <1>7, <1>8 DEF ReloadInv

\* Deleting a disabled script touches the queue alone, and only by an event.
LEMMA DeleteDisabledStep ==
  ASSUME ReloadInv, NEW f \in Files, DeleteDisabled(f)
  PROVE  ReloadInv'
<1>1. TypeOK /\ SilentStart /\ ScanIsCurrent /\ SnapshotIsCurrent
      /\ RestIsCurrent /\ Synced
  BY DEF ReloadInv
<1>2. /\ queue' \in Seq(Files \cup {"changed"})
      /\ queue' = << >> => queue = << >>
      /\ ~Watching => queue' = queue
  <2>1. queue \in Seq(Files \cup {"changed"})
    BY <1>1 DEF TypeOK
  <2> DEFINE event == IF backend = "inotify" THEN f ELSE "changed"
  <2>2. event \in Files \cup {"changed"}
    OBVIOUS
  <2>3. Enqueue(f) = queue \/ Enqueue(f) = Append(queue, event)
    BY DEF Enqueue
  <2> HIDE DEF event
  <2>4. Enqueue(f) \in Seq(Files \cup {"changed"}) /\ (Enqueue(f) = << >> => queue = << >>)
    BY <2>1, <2>2, <2>3
  <2>5. queue' = Enqueue(f) \/ queue' = queue
    BY DEF DeleteDisabled
  <2>6. ~Watching => queue' = queue
    BY DEF DeleteDisabled
  <2> QED
    BY <2>1, <2>4, <2>5, <2>6
<1>3. /\ UNCHANGED <<backend, disk, saving, watchVars, servedVars, missed>>
      /\ parked' \in [Files -> Contents] /\ edits' \in 0 .. MaxEdits
  BY <1>1, HotReloadAssumption DEF DeleteDisabled, Begin, TypeOK, Contents
<1>4. TypeOK'
  BY <1>1, <1>2, <1>3 DEF TypeOK, watchVars, servedVars
<1>5. SilentStart' /\ Synced'
  BY <1>1, <1>2, <1>3 DEF SilentStart, Synced, Watching, Unlocked, watchVars,
     servedVars
<1>6. ScanIsCurrent' /\ SnapshotIsCurrent' /\ RestIsCurrent'
  BY <1>1, <1>2, <1>3 DEF ScanIsCurrent, SnapshotIsCurrent, RestIsCurrent, watchVars, servedVars
<1> QED
  BY <1>4, <1>5, <1>6 DEF ReloadInv

LEMMA CoreStep ==
  ASSUME ReloadInv, Core
  PROVE  ReloadInv'
<1> USE DEF TypeOK, SilentStart, Watching, ScanIsCurrent, SnapshotIsCurrent,
            RestIsCurrent, Synced, managerVars, servedVars
<1>0. TypeOK /\ SilentStart /\ ScanIsCurrent /\ SnapshotIsCurrent
      /\ RestIsCurrent /\ Synced
  BY DEF ReloadInv
<1>1. CASE TakeEvents
  <2>1. /\ batch' \in Nat /\ missed' \subseteq Files
        /\ batch' # 0 \/ missed' # {} \/ snapshot = disk
    BY <1>0, <1>1, TakeEventsEffect
  <2>2. TypeOK'
    BY <1>0, <1>1, <2>1 DEF TakeEvents
  <2>3. pc = "wait" /\ pc' = "wait"
    BY <1>1 DEF TakeEvents
  <2>4. Synced' /\ UNCHANGED <<snapshot, disk>>
    BY <1>0, <1>1 DEF TakeEvents, Unlocked
  <2> QED
    BY <2>1, <2>2, <2>3, <2>4 DEF ReloadInv
<1>2. CASE OnChange
  <2>1. TypeOK'
    BY <1>0, <1>2 DEF OnChange, NothingRead, Contents
  <2> QED
    BY <1>0, <1>2, <2>1 DEF ReloadInv, OnChange
<1>3. ASSUME NEW f \in Files, ReadScript(f) PROVE ReloadInv'
  <2>1. TypeOK'
    BY <1>0, <1>3 DEF ReadScript
  <2>2. ScanIsCurrent'
    BY <1>0, <1>3 DEF ReadScript
  <2> QED
    BY <1>0, <1>3, <2>1, <2>2 DEF ReloadInv, ReadScript
<1>4. CASE PublishSnapshot
  <2>1. TypeOK'
    BY <1>0, <1>4 DEF PublishSnapshot
  <2>2. SnapshotIsCurrent'
    <3> SUFFICES ASSUME queue = << >>, missed = {} PROVE build = disk
      BY <1>4 DEF PublishSnapshot
    <3>1. \A f \in Files : build[f] = disk[f]
      BY <1>0, <1>4 DEF PublishSnapshot
    <3>2. build \in [Files -> Contents] /\ disk \in [Files -> Contents]
      BY <1>0
    <3> QED
      BY <3>1, <3>2
  <2> QED
    BY <1>0, <1>4, <2>1, <2>2 DEF ReloadInv, PublishSnapshot
<1>5. CASE SyncInjectedLicenses
  <2>1. Unlocked(snapshot) \subseteq Games
    BY <1>0, UnlockedAreGames
  <2>2. TypeOK'
    BY <1>0, <1>5, <2>1 DEF SyncInjectedLicenses
  <2>3. Synced'
    BY <1>5 DEF SyncInjectedLicenses, Unlocked
  <2> QED
    BY <1>0, <1>5, <2>2, <2>3 DEF ReloadInv, SyncInjectedLicenses
<1> QED
  BY <1>1, <1>2, <1>3, <1>4, <1>5 DEF Core

-----------------------------------------------------------------------------
(* HotReload: the theorems. *)

\* Every reachable state satisfies the invariant.
THEOREM ReloadInvariance == Spec => []ReloadInv
<1>1. ReloadInv /\ [Next]_vars => ReloadInv'
  <2>1. ASSUME ReloadInv, UNCHANGED vars PROVE ReloadInv'
    BY <2>1 DEF ReloadInv, TypeOK, SilentStart, Watching, ScanIsCurrent,
       SnapshotIsCurrent, RestIsCurrent, Synced, Unlocked, vars, managerVars, watchVars, servedVars
  <2> QED
    BY <2>1, ManagerStep, DeleteDisabledStep, CoreStep DEF Next
<1> QED
  BY <1>1, ReloadInitInv, PTL DEF Spec

\* Types are kept.
THEOREM ReloadTypeCorrect == Spec => []TypeOK
BY ReloadInvariance, PTL DEF ReloadInv

\* A watch thread at rest serves what is on disk, unless a change raised no
\* notification at all, or left no script to call back for: nothing is lost in
\* queue, batch or scan.
THEOREM NothingIsLost == Spec => []QuietMeansCurrent
<1>1. ReloadInv => QuietMeansCurrent
  BY DEF ReloadInv, RestIsCurrent, Synced, QuietMeansCurrent
<1> QED
  BY <1>1, ReloadInvariance, PTL

-----------------------------------------------------------------------------
(* GameLifecycle: the inductive invariant. *)

\* A thread has a process from the moment it claims it, and no process is
\* claimed twice.
ClaimInv ==
  /\ \A l \in Launches : target[l] # NoPid => target[l] \in claimed
  /\ \A l \in Launches : watch[l] \in {"none", "poll"} => target[l] = NoPid
  /\ NoDoubleInjection

\* A launch is under way, or has one process at most, and gets its thread when
\* the SpawnProcess hook comes back.
LaunchInv ==
  /\ due \subseteq 1 .. launched
  /\ \A l \in 1 .. launched : app[l] \in Apps
  /\ at = "spawn" => launched # 0
  /\ \A l \in Launches :
       l > launched \/ (l = launched /\ at = "spawn") => watch[l] = "none"
  /\ \A p \in Pids : proc[p] \in 0 .. launched /\ proc[p] \notin due
  /\ \A p, q \in Pids : (Running(p) /\ proc[p] = proc[q]) => p = q

\* A thread that has claimed the process of its own launch notices the exit of
\* that process and of no other, if it could wait for it.
MetInv ==
  \A l \in met :
    /\ l <= launched /\ l \notin due /\ target[l] # NoPid
    /\ \A p \in Pids : proc[p] = l => p = target[l]
    /\ watch[l] \in {"clear", "report", "over"} =>
         l \in cleared \/ \A p \in Pids : proc[p] # l

\* The active app is that of the last launch until a thread clears it, which is
\* the thread of the same app, or one that looked before the launch.
ActiveInv ==
  /\ active # NoApp => launched # 0 /\ active = app[launched]
  /\ \A l \in Launches :
       watch[l] = "clear" => app[l] = app[launched] \/ launched \in cleared
  /\ (launched \in met /\ watch[launched] \in {"report", "over"}) => active = NoApp
  /\ (launched \in due \/ \E p \in Pids : Running(p) /\ proc[p] = launched) =>
       active = app[launched] \/ launched \in cleared

\* The account an app is to be told of.
Identity(a) ==
  IF a \in Configured \cap appTicket /\ Owner[a] # NoAccount THEN Owner[a] ELSE user

IdentityInv ==
  recent = user =>
    \A p \in Pids :
      Running(p) => \/ app[proc[p]] \in eTicket \ appTicket
                    \/ shown[p] \subseteq {Identity(app[proc[p]])}

GameInv ==
  /\ GameTypeOK
  /\ ClaimInv
  /\ LaunchInv
  /\ MetInv
  /\ ActiveInv
  /\ IdentityInv

-----------------------------------------------------------------------------
(* GameLifecycle: lemmas about the operators. *)

LEMMA FirstOne ==
  ASSUME NEW S \in SUBSET Nat, S # {}
  PROVE  (CHOOSE i \in S : \A j \in S : i <= j) \in S
<1> DEFINE R == {p \in Nat \X Nat : p[1] < p[2]}
<1>1. IsWellFoundedOn(R, Nat)
  BY NatLessThanWellFounded DEF OpToRel
<1>2. PICK m \in S : \A j \in S : <<j, m>> \notin R
  BY <1>1, WFMin
<1>3. ASSUME NEW j \in S PROVE m <= j
  <2>1. <<j, m>> \in Nat \X Nat /\ <<j, m>> \notin R
    BY <1>2
  <2>2. ~(j < m)
    BY <2>1
  <2> QED
    BY <2>2
<1> QED
  BY <1>3

\* A forged ticket carries an account or none.  When loginusers.vdf names the
\* user, it is the user's.
LEMMA ForgedForUser ==
  ASSUME TicketTypeOK, PickForgeBase # NoTicket
  PROVE  /\ PickForgeBase \in Accounts \cup {NoAccount}
         /\ recent = user => PickForgeBase \in {user, NoAccount}
<1> DEFINE local == LocalTickets(ActiveAccount)
           good  == {i \in DOMAIN local : Acceptable(local[i])}
           first == CHOOSE i \in good : \A j \in good : i <= j
<1>0. recent = user => \A c : Acceptable(c) => c \in {user, NoAccount}
  BY TicketAssumption DEF TicketTypeOK, Acceptable, ActiveAccount
<1>1. CASE CacheTicket # NoTicket /\ Acceptable(CacheTicket)
  <2>1. CacheTicket \in Accounts \cup {NoAccount}
    BY <1>1, TicketAssumption DEF TicketTypeOK, CacheTicket
  <2> QED
    BY <1>0, <1>1, <2>1 DEF PickForgeBase
<1>2. CASE ~(CacheTicket # NoTicket /\ Acceptable(CacheTicket)) /\ good # {}
  <2>1. local \in Seq(Accounts \cup {NoAccount})
    BY TicketAssumption DEF TicketTypeOK, LocalTickets, ActiveAccount
  <2>2. good \subseteq Nat
    BY <2>1
  <2>3. first \in good
    BY <1>2, <2>2, FirstOne
  <2>4. local[first] \in Accounts \cup {NoAccount} /\ Acceptable(local[first])
    BY <2>1, <2>3
  <2> QED
    BY <1>0, <1>2, <2>4 DEF PickForgeBase
<1>3. CASE ~(CacheTicket # NoTicket /\ Acceptable(CacheTicket)) /\ good = {}
  BY <1>3 DEF PickForgeBase
<1> QED
  BY <1>1, <1>2, <1>3

\* An imported ticket is its owner's, another the user's.
LEMMA TicketAccount ==
  ASSUME TicketTypeOK, NEW a \in Apps, GetAppOwnershipTicket(a) # NoTicket
  PROVE  /\ GetAppOwnershipTicket(a) \in Accounts \cup {NoAccount}
         /\ (recent = user /\ a \in Configured) =>
              GetAppOwnershipTicket(a) \in {Identity(a), NoAccount}
<1>1. CASE a \in appTicket
  BY <1>1, TicketAssumption DEF TicketTypeOK, GetAppOwnershipTicket, Identity
<1>2. CASE a \notin appTicket
  BY <1>2, ForgedForUser DEF GetAppOwnershipTicket, Identity
<1> QED
  BY <1>1, <1>2

\* GetSteamID answers with the owner of an imported ticket, or with the user.
Told(a) == IF GetSpoofSteamID(a, Configured) = NoAccount THEN user
           ELSE GetSpoofSteamID(a, Configured)

LEMMA ToldAccount ==
  ASSUME TicketTypeOK, NEW a \in Apps
  PROVE  /\ Told(a) \in Accounts
         /\ a \notin eTicket \ appTicket => Told(a) = Identity(a)
BY TicketAssumption DEF TicketTypeOK, GetSpoofSteamID, Identity, Told

\* What a game is shown is an account or none: that of its app, if loginusers.vdf
\* names the user and the app does not go by an encrypted ticket alone.
LEMMA GameShows ==
  ASSUME GameTypeOK, LaunchInv, NEW p \in Pids,
         IPCProcessMessage(p) \/ HandleOwnershipTicketResponse(p)
  PROVE  \E c \in Accounts \cup {NoAccount} :
           /\ Show(p, c)
           /\ (recent = user /\ app[proc[p]] \notin eTicket \ appTicket) =>
                c \in {Identity(app[proc[p]]), NoAccount}
<1>1. TicketTypeOK
  BY DEF GameTypeOK
<1>2. Running(p) /\ active = app[proc[p]]
  BY DEF IPCProcessMessage, HandleOwnershipTicketResponse, Show
<1>3. app[proc[p]] \in Apps /\ app[proc[p]] # NoApp
  BY <1>2, TicketAssumption, LifecycleAssumption
  DEF Running, NoLaunch, LaunchInv, GameTypeOK, Launches
<1>4. CASE IPCProcessMessage(p)
  <2>1. Show(p, Told(app[proc[p]]))
    BY <1>2, <1>3, <1>4 DEF IPCProcessMessage, Told
  <2> QED
    BY <1>1, <1>3, <2>1, ToldAccount
<1>5. CASE HandleOwnershipTicketResponse(p)
  BY <1>1, <1>3, <1>5, TicketAccount DEF HandleOwnershipTicketResponse
<1> QED
  BY <1>4, <1>5

\* A look finds a new process, which another thread has claimed, or which this
\* one claims.
Loses(l) ==
  /\ watch' = [watch EXCEPT ![l] = "over"]
  /\ UNCHANGED <<target, claimed, met>>

Claims(l, p) ==
  /\ p \notin claimed /\ Running(p)
  /\ watch' = [watch EXCEPT ![l] = "inject"]
  /\ target' = [target EXCEPT ![l] = p]
  /\ claimed' = claimed \cup {p}
  /\ met' = IF proc[p] = l THEN met \cup {l} ELSE met

LEMMA PollEffect ==
  ASSUME NEW l \in Launches, Poll(l)
  PROVE  /\ watch[l] = "poll"
         /\ Loses(l) \/ \E p \in Pids : Claims(l, p)
         /\ baseline' = [baseline EXCEPT ![l] = {}]
         /\ UNCHANGED <<settingVars, spawnVars, active, due, proc, reportVars, shown, cleared>>
BY DEF Poll, Fresh, FindProcessIdsByName, WatchGoes, Loses, Claims

\* The other steps of a thread move it on.
LEMMA MonitorEffect ==
  ASSUME NEW l \in Launches, WatchStep(l), ~Poll(l)
  PROVE  /\ \E to \in {"wait", "clear", "report", "over"} : watch' = [watch EXCEPT ![l] = to]
         /\ watch[l] \in {"poll", "inject", "wait", "clear", "report"}
         /\ cleared \subseteq cleared'
         /\ UNCHANGED <<settingVars, spawnVars, target, claimed, met, due, proc>>
BY DEF WatchStep, GiveUp, InjectForApp, OpenFails, NoticeExit, ClearActive, Report, WatchGoes

-----------------------------------------------------------------------------
(* GameLifecycle: preservation, part by part of the invariant. *)

LEMMA GameInitInv == GameInit => GameInv
<1> SUFFICES ASSUME GameInit PROVE GameInv
  OBVIOUS
<1> USE DEF GameInit, TicketInit, Launches, NoLaunch, NoPid, Running
<1>1. GameTypeOK
  BY TicketAssumption, LifecycleAssumption DEF GameTypeOK, TicketTypeOK, Nothing
<1>2. ClaimInv
  BY DEF ClaimInv, NoDoubleInjection
<1>3. LaunchInv
  BY LifecycleAssumption DEF LaunchInv
<1>4. MetInv /\ ActiveInv /\ IdentityInv
  BY DEF MetInv, ActiveInv, IdentityInv
<1> QED
  BY <1>1, <1>2, <1>3, <1>4 DEF GameInv

LEMMA GameTypeStep ==
  ASSUME GameTypeOK, LaunchInv, GameNext
  PROVE  GameTypeOK'
<1> USE LifecycleAssumption DEF GameTypeOK, TicketTypeOK, Launches, NoLaunch, NoPid, Running,
        settingVars, ticketVars, spawnVars, monitorVars, reportVars
<1>1. ASSUME NEW a \in Apps, SpawnProcess(a) PROVE GameTypeOK'
  BY <1>1 DEF SpawnProcess, Nothing
<1>2. CASE MonitorGameLifecycle
  BY <1>2 DEF MonitorGameLifecycle, FindProcessIdsByName, LaunchInv
<1>3. ASSUME NEW l \in Launches, WatchStep(l) PROVE GameTypeOK'
  <2>1. CASE Poll(l)
    <3>1. /\ baseline' = [baseline EXCEPT ![l] = {}]
          /\ UNCHANGED <<settingVars, spawnVars, active, due, proc, reportVars, shown, cleared>>
      BY <2>1, PollEffect
    <3>2. CASE Loses(l)
      BY <3>1, <3>2 DEF Loses
    <3>3. ASSUME NEW p \in Pids, Claims(l, p) PROVE GameTypeOK'
      BY <3>1, <3>3 DEF Claims
    <3> QED
      BY <2>1, <3>2, <3>3, PollEffect
  <2>2. CASE GiveUp(l) \/ InjectForApp(l) \/ OpenFails(l) \/ NoticeExit(l)
    BY <2>2 DEF GiveUp, InjectForApp, OpenFails, NoticeExit, WatchGoes
  <2>3. CASE ClearActive(l)
    BY <2>3 DEF ClearActive, WatchGoes, Nothing
  <2>4. CASE Report(l)
    BY <2>4 DEF Report, WatchGoes
  <2> QED
    BY <1>3, <2>1, <2>2, <2>3, <2>4 DEF WatchStep
<1>4. ASSUME NEW l \in Launches, NEW p \in Pids, Start(l, p) PROVE GameTypeOK'
  BY <1>4 DEF Start
<1>5. ASSUME NEW p \in Pids, Exit(p) PROVE GameTypeOK'
  BY <1>5 DEF Exit
<1>6. ASSUME NEW p \in Pids, NEW c \in Accounts \cup {NoAccount}, Show(p, c)
      PROVE  GameTypeOK'
  BY <1>6 DEF Show
<1>7. ASSUME NEW p \in Pids, IPCProcessMessage(p) \/ HandleOwnershipTicketResponse(p)
      PROVE  GameTypeOK'
  <2>1. \E c \in Accounts \cup {NoAccount} : Show(p, c)
    BY <1>7, GameShows
  <2> QED
    BY <1>6, <2>1
<1>8. CASE ChangeUser
  BY <1>8 DEF ChangeUser, SignIn, RecordLogin, Nothing
<1>9. CASE Capture
  BY <1>9 DEF Capture, ConfigStoreGetBinary
<1> QED
  BY <1>1, <1>2, <1>3, <1>4, <1>5, <1>7, <1>8, <1>9 DEF GameNext

\* Only a thread that polls gets a process, and one that nobody has claimed.
LEMMA ClaimStep ==
  ASSUME GameTypeOK, ClaimInv, LaunchInv, GameNext
  PROVE  ClaimInv'
<1> USE DEF ClaimInv, NoDoubleInjection
<1>1. CASE UNCHANGED <<watch, target, claimed>>
  BY <1>1
<1>2. CASE MonitorGameLifecycle
  <2>1. launched \in Launches /\ watch[launched] = "none"
    BY <1>2 DEF MonitorGameLifecycle, LaunchInv, GameTypeOK, Launches
  <2> QED
    BY <1>2, <2>1 DEF MonitorGameLifecycle, GameTypeOK
<1>3. ASSUME NEW l \in Launches, Poll(l) PROVE ClaimInv'
  <2>1. CASE Loses(l)
    BY <2>1 DEF Loses, GameTypeOK
  <2>2. ASSUME NEW p \in Pids, Claims(l, p) PROVE ClaimInv'
    BY <2>2, LifecycleAssumption DEF Claims, GameTypeOK
  <2> QED
    BY <1>3, <2>1, <2>2, PollEffect
<1>4. ASSUME NEW l \in Launches, WatchStep(l), ~Poll(l) PROVE ClaimInv'
  BY <1>4, MonitorEffect DEF GameTypeOK
<1> QED
  BY <1>1, <1>2, <1>3, <1>4
  DEF GameNext, SpawnProcess, Start, Exit, IPCProcessMessage, HandleOwnershipTicketResponse,
      Show, ChangeUser, Capture, monitorVars

\* A launch gets a number of its own, and one process at most.
LEMMA LaunchStep ==
  ASSUME GameTypeOK, LaunchInv, GameNext
  PROVE  LaunchInv'
<1> USE DEF GameTypeOK, LaunchInv, Launches, NoLaunch, Running
<1>1. ASSUME NEW a \in Apps, SpawnProcess(a) PROVE LaunchInv'
  <2>1. /\ launched + 1 \in Launches /\ launched' = launched + 1
        /\ due' = due \cup {launched + 1}
        /\ UNCHANGED <<proc, watch>>
    BY <1>1, LifecycleAssumption DEF SpawnProcess, monitorVars
  <2>2. \A l \in 1 .. launched' : app'[l] \in Apps
    <3>1. app' = [app EXCEPT ![launched + 1] = a]
      BY <1>1 DEF SpawnProcess
    <3> QED
      BY <2>1, <3>1
  <2>3. at' = "spawn" /\ at = "idle"
    BY <1>1 DEF SpawnProcess
  <2>4. \A l \in Launches :
          l > launched' \/ (l = launched' /\ at' = "spawn") => watch'[l] = "none"
    BY <2>1, <2>3
  <2>5. \A p \in Pids : proc'[p] \in 0 .. launched' /\ proc'[p] \notin due'
    BY <2>1
  <2> QED
    BY <2>1, <2>2, <2>3, <2>4, <2>5
<1>2. CASE MonitorGameLifecycle
  BY <1>2 DEF MonitorGameLifecycle
<1>3. ASSUME NEW l \in Launches, Poll(l) PROVE LaunchInv'
  <2>1. watch[l] = "poll" /\ UNCHANGED <<launched, at, app, due, proc>>
    BY <1>3, PollEffect DEF spawnVars
  <2>2. PICK to \in {"over", "inject"} : watch' = [watch EXCEPT ![l] = to]
    BY <1>3, PollEffect DEF Loses, Claims
  <2> QED
    BY <2>1, <2>2
<1>4. ASSUME NEW l \in Launches, WatchStep(l), ~Poll(l) PROVE LaunchInv'
  <2>1. watch[l] # "none" /\ UNCHANGED <<launched, at, app, due, proc>>
    BY <1>4, MonitorEffect DEF spawnVars
  <2>2. PICK to \in {"wait", "clear", "report", "over"} : watch' = [watch EXCEPT ![l] = to]
    BY <1>4, MonitorEffect
  <2> QED
    BY <2>1, <2>2
<1>5. ASSUME NEW l \in Launches, NEW p \in Pids, Start(l, p) PROVE LaunchInv'
  <2>1. l \in 1 .. launched /\ l \in due
    BY <1>5 DEF Start
  <2>2. UNCHANGED <<launched, at, app, watch>>
    BY <1>5 DEF Start, spawnVars, monitorVars
  <2>3. due' = due \ {l} /\ proc' = [proc EXCEPT ![p] = l]
    BY <1>5 DEF Start
  <2>4. \A q, r \in Pids : (proc'[q] # 0 /\ proc'[q] = proc'[r]) => q = r
    BY <2>1, <2>3
  <2> QED
    BY <2>1, <2>2, <2>3, <2>4
<1>6. ASSUME NEW p \in Pids, Exit(p) PROVE LaunchInv'
  BY <1>6 DEF Exit, spawnVars, monitorVars
<1>7. CASE UNCHANGED <<launched, at, app, due, proc, watch>>
  BY <1>7
<1> QED
  BY <1>1, <1>2, <1>3, <1>4, <1>5, <1>6, <1>7
  DEF GameNext, IPCProcessMessage, HandleOwnershipTicketResponse, Show, ChangeUser, Capture,
      spawnVars, monitorVars

\* The process of a launch that was found by its own thread is watched until it
\* ends: its number is not given to another before.
LEMMA MetStep ==
  ASSUME GameTypeOK, ClaimInv, LaunchInv, MetInv, GameNext
  PROVE  MetInv'
<1> USE DEF MetInv, NoLaunch, Running
<1>a. ASSUME NEW l \in met
      PROVE  l \in Launches /\ l # NoLaunch /\ watch[l] # "poll"
  BY DEF ClaimInv, GameTypeOK, Launches
<1>1. ASSUME NEW a \in Apps, SpawnProcess(a) PROVE MetInv'
  BY <1>1, <1>a DEF SpawnProcess, GameTypeOK, Launches, monitorVars
<1>2. CASE MonitorGameLifecycle
  BY <1>2 DEF MonitorGameLifecycle, GameTypeOK
<1>3. ASSUME NEW l \in Launches, Poll(l) PROVE MetInv'
  <2>1. watch[l] = "poll" /\ l \notin met
    BY <1>3, <1>a, PollEffect
  <2>2. UNCHANGED <<launched, due, proc, cleared>>
    BY <1>3, PollEffect DEF spawnVars
  <2>3. CASE Loses(l)
    BY <2>1, <2>2, <2>3 DEF Loses, GameTypeOK
  <2>4. ASSUME NEW p \in Pids, Claims(l, p) PROVE MetInv'
    <3>1. /\ target' = [target EXCEPT ![l] = p] /\ watch' = [watch EXCEPT ![l] = "inject"]
          /\ met' = IF proc[p] = l THEN met \cup {l} ELSE met
      BY <2>4 DEF Claims
    <3>2. ASSUME NEW k \in met
          PROVE  target'[k] = target[k] /\ watch'[k] = watch[k]
      BY <2>1, <3>1, <1>a DEF GameTypeOK
    <3>3. ASSUME proc[p] = l
          PROVE  /\ l <= launched /\ l \notin due /\ target'[l] # NoPid
                 /\ \A q \in Pids : proc[q] = l => q = target'[l]
                 /\ watch'[l] = "inject"
      BY <3>1, <3>3, LifecycleAssumption DEF LaunchInv, GameTypeOK, Launches
    <3> QED
      BY <2>2, <3>1, <3>2, <3>3
  <2> QED
    BY <1>3, <2>3, <2>4, PollEffect
<1>4. ASSUME NEW l \in Launches, WatchStep(l), ~Poll(l) PROVE MetInv'
  <2>1. UNCHANGED <<launched, due, proc, target, met>> /\ cleared \subseteq cleared'
    BY <1>4, MonitorEffect DEF spawnVars
  <2>2. \/ watch[l] \in {"poll", "clear", "report"} \/ ~Lives(l) \/ watch'[l] = "wait"
        \/ l \in cleared'
    BY <1>4
    DEF WatchStep, GiveUp, InjectForApp, OpenFails, NoticeExit, ClearActive, Report, WatchGoes,
        GameTypeOK
  <2>3. \A k \in met : k # l => watch'[k] = watch[k]
    BY <1>4, <1>a, MonitorEffect DEF GameTypeOK
  <2>4. ASSUME l \in met, watch'[l] # "wait"
        PROVE  l \in cleared' \/ \A p \in Pids : proc[p] # l
    BY <1>a, <2>1, <2>2, <2>4 DEF Lives
  <2> QED
    BY <2>1, <2>3, <2>4
<1>5. ASSUME NEW l \in Launches, NEW p \in Pids, Start(l, p) PROVE MetInv'
  BY <1>5 DEF Start, GameTypeOK, spawnVars, monitorVars
<1>6. ASSUME NEW p \in Pids, Exit(p) PROVE MetInv'
  BY <1>6, <1>a DEF Exit, GameTypeOK, spawnVars, monitorVars
<1>7. CASE UNCHANGED <<launched, due, proc, watch, target, met, cleared>>
  BY <1>7
<1> QED
  BY <1>1, <1>2, <1>3, <1>4, <1>5, <1>6, <1>7
  DEF GameNext, IPCProcessMessage, HandleOwnershipTicketResponse, Show, ChangeUser, Capture,
      spawnVars, monitorVars

\* Whichever thread clears the active app, and whatever was launched between
\* its look and its write.
LEMMA ActiveStep ==
  ASSUME GameTypeOK, ClaimInv, LaunchInv, MetInv, ActiveInv, GameNext
  PROVE  ActiveInv'
<1> USE DEF ActiveInv, NoLaunch, Running
<1>1. ASSUME NEW a \in Apps, SpawnProcess(a) PROVE ActiveInv'
  <2>1. launched' \in Launches /\ launched' # 0 /\ launched' \notin met
    BY <1>1, LifecycleAssumption DEF SpawnProcess, GameTypeOK, Launches, MetInv
  <2>2. active' = a /\ app'[launched'] = a
    BY <1>1, <2>1 DEF SpawnProcess, GameTypeOK
  <2>3. \A l \in Launches : watch'[l] = "clear" => launched' \in cleared'
    BY <1>1 DEF SpawnProcess, monitorVars
  <2>4. UNCHANGED met
    BY <1>1 DEF SpawnProcess, monitorVars
  <2> QED
    BY <2>1, <2>2, <2>3, <2>4
<1>2. CASE MonitorGameLifecycle
  BY <1>2 DEF MonitorGameLifecycle, GameTypeOK
<1>3. ASSUME NEW l \in Launches, Poll(l) PROVE ActiveInv'
  <2>1. watch[l] = "poll" /\ l \notin met
    BY <1>3, PollEffect DEF MetInv, ClaimInv
  <2>2. UNCHANGED <<launched, app, active, due, proc, cleared>>
    BY <1>3, PollEffect DEF spawnVars
  <2>3. \A k \in Launches : watch'[k] = "clear" => watch[k] = "clear"
    BY <1>3, PollEffect DEF Loses, Claims, GameTypeOK
  <2>4. (launched \in met' /\ watch'[launched] \in {"report", "over"}) =>
          launched \in met /\ watch[launched] \in {"report", "over"}
    BY <1>3, <2>1, PollEffect DEF Loses, Claims, GameTypeOK
  <2> QED
    BY <2>2, <2>3, <2>4
<1>4. ASSUME NEW l \in Launches, WatchStep(l), ~Poll(l) PROVE ActiveInv'
  <2>1. UNCHANGED <<launched, app, met, due, proc>> /\ l <= launched /\ app[l] \in Apps
    BY <1>4, MonitorEffect DEF spawnVars, LaunchInv, Launches, GameTypeOK
  <2>2. app[l] # NoApp
    BY <2>1, TicketAssumption
  <2>3. CASE GiveUp(l)
    <3>1. l \notin met
      BY <2>3 DEF GiveUp, WatchGoes, ClaimInv, MetInv
    <3> QED
      BY <2>1, <2>3, <3>1 DEF GiveUp, WatchGoes, GameTypeOK
  <2>4. CASE InjectForApp(l)
    BY <2>1, <2>4 DEF InjectForApp, WatchGoes, GameTypeOK
  <2>5. CASE NoticeExit(l) \/ OpenFails(l)
    BY <2>1, <2>2, <2>5 DEF NoticeExit, OpenFails, WatchGoes, GameTypeOK
  <2>6. CASE ClearActive(l)
    <3>1. active' = NoApp /\ watch[l] = "clear"
      BY <2>6 DEF ClearActive, WatchGoes
    <3>2. /\ watch' = [watch EXCEPT ![l] = "report"]
          /\ cleared' = cleared \cup {k \in Launches : app[k] = app[l] /\ (k # l \/ l \notin met)}
      BY <2>6 DEF ClearActive, WatchGoes
    <3>3. launched \in cleared' \/ (l = launched /\ l \in met)
      BY <2>1, <3>1, <3>2 DEF GameTypeOK, Launches
    <3>4. (l = launched /\ l \in met) =>
            \/ launched \in cleared'
            \/ launched \notin due /\ \A p \in Pids : proc[p] # launched
      BY <3>1, <3>2 DEF MetInv
    <3> QED
      BY <2>1, <3>1, <3>2, <3>3, <3>4 DEF GameTypeOK
  <2>7. CASE Report(l)
    BY <2>1, <2>7 DEF Report, WatchGoes, GameTypeOK
  <2> QED
    BY <1>4, <2>3, <2>4, <2>5, <2>6, <2>7 DEF WatchStep
<1>5. ASSUME NEW l \in Launches, NEW p \in Pids, Start(l, p) PROVE ActiveInv'
  BY <1>5 DEF Start, GameTypeOK, spawnVars, monitorVars
<1>6. ASSUME NEW p \in Pids, Exit(p) PROVE ActiveInv'
  BY <1>6 DEF Exit, GameTypeOK, spawnVars, monitorVars
<1>7. CASE UNCHANGED <<launched, app, active, due, proc, watch, met, cleared>>
  BY <1>7
<1> QED
  BY <1>1, <1>2, <1>3, <1>4, <1>5, <1>6, <1>7
  DEF GameNext, IPCProcessMessage, HandleOwnershipTicketResponse, Show, ChangeUser, Capture,
      spawnVars, monitorVars

\* What is shown to a game stays within one account until the account or the
\* active app changes.
LEMMA IdentityStep ==
  ASSUME GameTypeOK, LaunchInv, IdentityInv, GameNext
  PROVE  IdentityInv'
<1> USE DEF IdentityInv, Running, NoLaunch
<1>1. ASSUME shown' = Nothing PROVE IdentityInv'
  BY <1>1 DEF Nothing
<1>2. ASSUME UNCHANGED <<app, user, recent, appTicket, eTicket, proc, shown>> PROVE IdentityInv'
  BY <1>2 DEF Identity
<1>3. ASSUME NEW l \in Launches, NEW p \in Pids, Start(l, p) PROVE IdentityInv'
  <2>1. /\ proc' = [proc EXCEPT ![p] = l] /\ shown' = [shown EXCEPT ![p] = {}]
        /\ UNCHANGED <<app, user, recent, appTicket, eTicket>>
    BY <1>3 DEF Start, settingVars, ticketVars, spawnVars
  <2> QED
    BY <2>1 DEF Identity, GameTypeOK
<1>4. ASSUME NEW p \in Pids, Exit(p) PROVE IdentityInv'
  <2>1. /\ proc' = [proc EXCEPT ![p] = NoLaunch]
        /\ UNCHANGED <<app, user, recent, appTicket, eTicket, shown>>
    BY <1>4 DEF Exit, settingVars, ticketVars, spawnVars
  <2> QED
    BY <2>1 DEF Identity, GameTypeOK
<1>5. ASSUME NEW p \in Pids, IPCProcessMessage(p) \/ HandleOwnershipTicketResponse(p)
      PROVE  IdentityInv'
  <2>1. PICK c \in Accounts \cup {NoAccount} :
          /\ Show(p, c)
          /\ (recent = user /\ app[proc[p]] \notin eTicket \ appTicket) =>
               c \in {Identity(app[proc[p]]), NoAccount}
    BY <1>5, GameShows
  <2>2. /\ shown' = [shown EXCEPT ![p] = @ \cup ({c} \ {NoAccount})]
        /\ UNCHANGED <<app, user, recent, appTicket, eTicket, proc>>
    BY <2>1 DEF Show, settingVars, ticketVars, spawnVars
  <2> QED
    BY <2>1, <2>2 DEF Identity, GameTypeOK
<1>6. ASSUME NEW l \in Launches, Poll(l) PROVE IdentityInv'
  BY <1>2, <1>6, PollEffect DEF settingVars, ticketVars, spawnVars
<1>7. ASSUME NEW l \in Launches, WatchStep(l), ~Poll(l) PROVE IdentityInv'
  BY <1>1, <1>2, <1>7
  DEF WatchStep, GiveUp, InjectForApp, OpenFails, NoticeExit, ClearActive, Report, settingVars, ticketVars,
      spawnVars
<1> QED
  BY <1>1, <1>2, <1>3, <1>4, <1>5, <1>6, <1>7
  DEF GameNext, SpawnProcess, MonitorGameLifecycle, ChangeUser, Capture, ConfigStoreGetBinary,
      settingVars, ticketVars, spawnVars

-----------------------------------------------------------------------------
(* GameLifecycle: the theorems. *)

\* Every reachable state satisfies the invariant.
THEOREM GameInvariance == GameSpec => []GameInv
<1>1. GameInv /\ [GameNext]_gameVars => GameInv'
  <2>1. ASSUME GameInv, UNCHANGED gameVars PROVE GameInv'
    BY <2>1
    DEF gameVars, settingVars, ticketVars, spawnVars, monitorVars, GameInv, GameTypeOK,
        reportVars, TicketTypeOK, ClaimInv, NoDoubleInjection, LaunchInv, MetInv, ActiveInv, IdentityInv,
        Running, Identity
  <2> QED
    BY <2>1, GameTypeStep, ClaimStep, LaunchStep, MetStep, ActiveStep, IdentityStep DEF GameInv
<1> QED
  BY <1>1, GameInitInv, PTL DEF GameSpec

\* The hooks and the monitor threads keep their types, with the tickets.
THEOREM GameTypeCorrect == GameSpec => []GameTypeOK
BY GameInvariance, PTL DEF GameInv

\* Two monitor threads never inject into the same process nor report its exit
\* twice (ClaimPid of MonitorGameLifecycle), however many games with one file
\* name are launched and however process ids are used again.
THEOREM OneInjectionEach == GameSpec => []NoDoubleInjection
<1>1. GameInv => NoDoubleInjection
  BY DEF GameInv, ClaimInv
<1> QED
  BY <1>1, GameInvariance, PTL

\* g_activeRunningAppId is the app of the last game as long as that runs, unless
\* another process of the app ended, one was ending at the launch, or the game
\* could not be opened to wait for it; and it is none again when all threads are
\* over and each had found the process of its launch.
THEOREM ActiveAppFollows == GameSpec => []ActiveFollowsGames
<1>1. GameInv => ActiveFollowsGames
  <2> SUFFICES ASSUME GameInv PROVE ActiveFollowsGames
    OBVIOUS
  <2>1. \A p \in Pids : (proc[p] = launched /\ Running(p)) =>
          active = app[launched] \/ launched \in cleared
    BY DEF GameInv, ActiveInv
  <2>2. ASSUME at = "idle", \A l \in 1 .. launched : l \in met /\ watch[l] = "over"
        PROVE  active = NoApp
    <3>1. CASE launched = 0
      BY <3>1 DEF GameInv, ActiveInv
    <3>2. CASE launched # 0
      <4>1. launched \in 1 .. launched
        BY <3>2 DEF GameInv, GameTypeOK
      <4> QED
        BY <2>2, <4>1 DEF GameInv, ActiveInv
    <3> QED
      BY <3>1, <3>2
  <2> QED
    BY <2>1, <2>2 DEF ActiveFollowsGames
<1> QED
  BY <1>1, GameInvariance, PTL

\* GetSteamID (Hooks_IPC.cpp) and the ownership ticket (Hooks_NetPacket.cpp)
\* agree on the account of a game, though they look for it in different stores
\* and at different times: as long as loginusers.vdf names the user, a forged
\* ticket carries the user's account or none.
THEOREM OneAccountEach == GameSpec => []OneIdentity
<1>1. GameInv => OneIdentity
  <2> SUFFICES ASSUME GameInv, recent = user, NEW p \in Pids, Running(p),
                      shown[p] \subseteq {Identity(app[proc[p]])}
               PROVE  Cardinality(shown[p]) <= 1
    BY DEF GameInv, IdentityInv, OneIdentity
  <2>1. shown[p] = {} \/ shown[p] = {Identity(app[proc[p]])}
    OBVIOUS
  <2>2. Cardinality({}) = 0 /\ Cardinality({Identity(app[proc[p]])}) = 1
    BY FS_EmptySet, FS_Singleton
  <2> QED
    BY <2>1, <2>2
<1> QED
  BY <1>1, GameInvariance, PTL
=============================================================================
