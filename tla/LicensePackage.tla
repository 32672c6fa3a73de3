--------------------------- MODULE LicensePackage ---------------------------
(***************************************************************************)
(* The license side of the core (src/Hook/Hooks_Package.cpp): the ids that *)
(* the configuration unlocks are appended to the client's Package 0 and    *)
(* removed again as a delta, and the client is told to refresh.            *)
(*                                                                         *)
(* Two kinds of threads meet here: the directory-watch thread, which       *)
(* publishes a configuration and calls SyncInjectedLicenses, and the       *)
(* client's own threads, which enter through the CheckAppOwnership and     *)
(* GetPackageInfo hooks.  A step ends at every lock, at every atomic that  *)
(* another thread tests, and at every call into the client.                *)
(*                                                                         *)
(* The vectors are bags (how often an id occurs): no code reads positions. *)
(***************************************************************************)
EXTENDS Naturals

CONSTANTS
  Ids,            \* app and depot ids
  Native,         \* ids Steam itself puts into Package 0
  Redist,         \* ids for which IsValveRedistributionAppId holds
  Bases,          \* apps the store lists DLCs for
  DlcOf,          \* DlcOf[b]: those DLCs
  Configs,        \* the snapshots LuaConfig may publish
  SteamThreads,   \* client threads that enter the hooks
  Watcher,        \* the directory-watch thread
  NoThread,       \* g_injectMutex is free
  AutoUnlockDlc,  \* Config::IsAutoUnlockDlcEnabled()
  GrowMayFail,    \* whether GrowAndAppend may run out of memory
  RebuildMayHappen, \* whether Steam rewrites Package 0 by itself
  QueueMax        \* bound of the synthetic callback queue (256 in the code)

Threads == SteamThreads \cup {Watcher}
Kinds   == {"apps", "depots"}
IdSets  == [Kinds -> SUBSET Ids]

ASSUME PackageAssumption ==
  /\ Native \subseteq Ids /\ Redist \subseteq Ids
  /\ Bases \subseteq Ids /\ DlcOf \in [Bases -> SUBSET Ids]
  /\ Configs \subseteq IdSets
  /\ \A c \in Configs : c["depots"] \subseteq c["apps"]   \* a keyed id is unlocked too
  /\ Watcher \notin SteamThreads /\ NoThread \notin Threads
  /\ AutoUnlockDlc \in BOOLEAN /\ GrowMayFail \in BOOLEAN
  /\ RebuildMayHappen \in BOOLEAN /\ QueueMax \in Nat

VARIABLES
  config,       \* the published snapshot: unlocked apps and keyed depots
  dlcs,         \* bases whose DLCs DlcStore knows
  available,    \* Package 0 has status Available
  pkg,          \* pkg[k][i]: occurrences of i in AppIdVec / DepotIdVec
  skipped,      \* apps whose CAppData has bSkipFlag set
  injected,     \* g_currentInjectedAppIds(Set), g_currentInjectedDepotIds
  initialized,  \* g_licenseInitialized, and g_pInjectedPackage is set
  cpi, cuser,   \* g_pCPackageInfo, g_pCUser are captured
  pending,      \* g_licenseRefreshPending
  callbacks,    \* length of g_syntheticQueue
  lock,         \* holder of g_injectMutex
  pc,           \* where each thread is
  ret,          \* where TryProcessPendingLicenseRefresh returns to
  newly,        \* newlyCaptured of a thread's CheckAppOwnership
  want,         \* desiredApps, desiredDepots of a thread
  unannounced,  \* the client has not processed the latest delta
  intact        \* no failed append and no rewrite since the last delta

hookVars   == <<injected, initialized, cpi, cuser, pending, callbacks, lock>>
clientVars == <<available, pkg, skipped, unannounced, intact>>
threadVars == <<pc, ret, newly, want>>
vars == <<config, dlcs, hookVars, clientVars, threadVars>>

Nothing == [k \in Kinds |-> {}]
PcValues == {"idle", "init", "lock", "apps", "depots", "apply", "raise",
             "note", "try", "process", "clear"}

Occurs(n) == IF n THEN 1 ELSE 0
NativePkg == [k \in Kinds |-> [i \in Ids |-> Occurs(i \in Native)]]
Present(k) == {i \in Ids : pkg[k][i] > 0}

GoTo(t, place) == pc' = [pc EXCEPT ![t] = place]

-----------------------------------------------------------------------------
(* What the configuration asks for. *)

\* RegisterDlcs never keeps a redistributable.
KnownDlcs(bases) == UNION {DlcOf[b] \ Redist : b \in bases}

DesiredApps ==
  (config["apps"] \cup IF AutoUnlockDlc THEN KnownDlcs(dlcs \cap config["apps"]) ELSE {})
    \ Redist

DesiredDepots == config["depots"]

\* What CheckAppOwnership answers for an app Steam does not own natively.
Grants(app) ==
  \/ app \in config["apps"] \cup config["depots"]       \* LuaConfig::Has
  \/ AutoUnlockDlc /\ app \in KnownDlcs(dlcs)

-----------------------------------------------------------------------------
Init ==
  /\ config \in Configs
  /\ dlcs \in SUBSET Bases       \* the cache of earlier sessions
  /\ available \in BOOLEAN
  /\ pkg = NativePkg
  /\ skipped = {}
  /\ injected = Nothing
  /\ initialized = FALSE /\ cpi = FALSE /\ cuser = FALSE /\ pending = FALSE
  /\ callbacks = 0
  /\ lock = NoThread
  /\ pc = [t \in Threads |-> "idle"]
  /\ ret = [t \in Threads |-> "idle"]
  /\ newly = [t \in Threads |-> FALSE]
  /\ want = [t \in Threads |-> Nothing]
  /\ unannounced = FALSE
  /\ intact = TRUE

(* The environment: the store answers, Steam completes or rewrites Package 0. *)

\* A fetch, perhaps begun under an earlier configuration, has its answer.
RegisterDlcs(b) ==
  /\ dlcs' = dlcs \cup {b}
  /\ UNCHANGED <<config, hookVars, clientVars, threadVars>>

BecomeAvailable ==
  /\ available' = TRUE
  /\ UNCHANGED <<config, dlcs, pkg, skipped, unannounced, intact, hookVars, threadVars>>

RewritePackage ==
  /\ RebuildMayHappen
  /\ pkg' = NativePkg
  /\ unannounced' = FALSE
  /\ intact' = FALSE
  /\ UNCHANGED <<config, dlcs, available, skipped, hookVars, threadVars>>

\* Steam_BGetCallback hands out the oldest synthetic callback.
DeliverCallback ==
  /\ callbacks > 0
  /\ callbacks' = callbacks - 1
  /\ UNCHANGED <<config, dlcs, injected, initialized, cpi, cuser, pending, lock,
                 clientVars, threadVars>>

(* Entry points. *)

\* CheckAppOwnership up to its call of TryInitFakeLicenseOnce.
CheckAppOwnership(t) ==
  /\ t \in SteamThreads
  /\ pc[t] = "idle"
  /\ newly' = [newly EXCEPT ![t] = ~cuser]
  /\ cuser' = TRUE
  /\ GoTo(t, "init")
  /\ UNCHANGED <<config, dlcs, injected, initialized, cpi, pending, callbacks, lock,
                 clientVars, ret, want>>

\* The GetPackageInfo hook for package 0.  A package that is not Available is
\* left alone: injection is deferred.
GetPackageInfo(t) ==
  /\ t \in SteamThreads
  /\ pc[t] = "idle"
  /\ cpi' = TRUE
  /\ IF ~initialized /\ available
       THEN GoTo(t, "lock") /\ ret' = [ret EXCEPT ![t] = "idle"]
       ELSE UNCHANGED <<pc, ret>>
  /\ UNCHANGED <<config, dlcs, injected, initialized, cuser, pending, callbacks, lock,
                 clientVars, newly, want>>

\* ReloadDirectories publishes a snapshot; SyncInjectedLicenses begins.
Reload(c) ==
  /\ pc[Watcher] = "idle"
  /\ config' = c
  /\ GoTo(Watcher, "apps")
  /\ UNCHANGED <<dlcs, hookVars, clientVars, ret, newly, want>>

(* Injection. *)

\* Mutant of TryInit: a deferred injection is not tried again.
TryInitNoRetry(t) ==
  /\ pc[t] = "init"
  /\ GoTo(t, "note")
  /\ UNCHANGED <<config, dlcs, hookVars, clientVars, ret, newly, want>>

\* TryInitFakeLicenseOnce, with the status test of InitFakeLicenseOnce.
TryInit(t) ==
  /\ pc[t] = "init"
  /\ IF initialized \/ ~cpi \/ ~available
       THEN GoTo(t, "note") /\ UNCHANGED ret
       ELSE GoTo(t, "lock") /\ ret' = [ret EXCEPT ![t] = "note"]
  /\ UNCHANGED <<config, dlcs, hookVars, clientVars, newly, want>>

\* Mutant of Acquire: the mutex does not exclude.
AcquireIgnoringHolder(t) ==
  /\ pc[t] = "lock"
  /\ lock' = t
  /\ GoTo(t, IF t = Watcher THEN "apply" ELSE "apps")
  /\ UNCHANGED <<config, dlcs, injected, initialized, cpi, cuser, pending, callbacks,
                 clientVars, ret, newly, want>>

\* g_injectMutex: InitFakeLicenseOnce collects under it, UpdateInjectedPackages
\* has collected before.
Acquire(t) ==
  /\ pc[t] = "lock"
  /\ lock = NoThread
  /\ lock' = t
  /\ GoTo(t, IF t = Watcher THEN "apply" ELSE "apps")
  /\ UNCHANGED <<config, dlcs, injected, initialized, cpi, cuser, pending, callbacks,
                 clientVars, ret, newly, want>>

CollectDesiredAppIds(t) ==
  /\ pc[t] = "apps"
  /\ want' = [want EXCEPT ![t] = [@ EXCEPT !["apps"] = DesiredApps]]
  /\ GoTo(t, "depots")
  /\ UNCHANGED <<config, dlcs, hookVars, clientVars, ret, newly>>

CollectDesiredDepotIds(t) ==
  /\ pc[t] = "depots"
  /\ want' = [want EXCEPT ![t] = [@ EXCEPT !["depots"] = DesiredDepots]]
  /\ GoTo(t, IF t = Watcher THEN "lock" ELSE "apply")
  /\ UNCHANGED <<config, dlcs, hookVars, clientVars, ret, newly>>

\* Mutant of Removed: nothing is taken out.
NoneRemoved(k, desired) == pkg[k]

\* FastRemoveValue of every id we injected and no longer want.
Removed(k, desired) ==
  [i \in Ids |-> IF i \in injected[k] \ desired /\ pkg[k][i] > 0
                   THEN pkg[k][i] - 1 ELSE pkg[k][i]]

\* Mutant of Additions: without the test for presence.
AllDesired(vec, desired) == desired

\* The ids to append after the removals vec.
Additions(vec, desired) == {i \in desired : vec[i] = 0}

\* ApplyDesiredLicenseDelta; grown[k] says that GrowAndAppend succeeded.
ApplyDelta(desired, grown) ==
  LET left == [k \in Kinds |-> Removed(k, desired[k])]
      add  == [k \in Kinds |-> Additions(left[k], desired[k])]
  IN  /\ \A k \in Kinds : grown[k] \/ (GrowMayFail /\ add[k] # {})
      /\ pkg' = [k \in Kinds |-> [i \in Ids |->
                   left[k][i] + Occurs(grown[k] /\ i \in add[k])]]
      /\ injected' = [k \in Kinds |-> IF grown[k] THEN desired[k] ELSE injected[k]]
      /\ intact' = \A k \in Kinds : grown[k]
      /\ unannounced' = (unannounced \/ pkg' # pkg)

\* Mutant of Apply: the refresh runs under g_injectMutex.
ApplyKeepingLock(t) ==
  /\ pc[t] = "apply"
  /\ IF t = Watcher /\ ~initialized
       THEN UNCHANGED <<pkg, injected, intact, unannounced, initialized>>
       ELSE /\ \E grown \in [Kinds -> BOOLEAN] : ApplyDelta(want[t], grown)
            /\ initialized' = TRUE
  /\ want' = [want EXCEPT ![t] = Nothing]
  /\ GoTo(t, "raise")
  /\ UNCHANGED <<config, dlcs, cpi, cuser, pending, callbacks, lock, available, skipped,
                 ret, newly>>

\* The end of the critical section, in both callers.  Before the first
\* injection UpdateInjectedPackages has no package to change.
Apply(t) ==
  /\ pc[t] = "apply"
  /\ IF t = Watcher /\ ~initialized
       THEN UNCHANGED <<pkg, injected, intact, unannounced, initialized>>
       ELSE /\ \E grown \in [Kinds -> BOOLEAN] : ApplyDelta(want[t], grown)
            /\ initialized' = TRUE
  /\ lock' = NoThread
  /\ want' = [want EXCEPT ![t] = Nothing]
  /\ GoTo(t, "raise")
  /\ UNCHANGED <<config, dlcs, cpi, cuser, pending, callbacks, available, skipped,
                 ret, newly>>

(* The refresh. *)

RaisePending(t) ==
  /\ pc[t] = "raise"
  /\ pending' = TRUE
  /\ GoTo(t, "try")
  /\ UNCHANGED <<config, dlcs, injected, initialized, cpi, cuser, callbacks, lock,
                 clientVars, ret, newly, want>>

\* CheckAppOwnership after TryInit: the first capture of the user object.
NoteCapture(t) ==
  /\ pc[t] = "note"
  /\ pending' = (pending \/ newly[t])
  /\ newly' = [newly EXCEPT ![t] = FALSE]
  /\ ret' = [ret EXCEPT ![t] = "idle"]
  /\ GoTo(t, "try")
  /\ UNCHANGED <<config, dlcs, injected, initialized, cpi, cuser, callbacks, lock,
                 clientVars, want>>

\* Mutant of TryProcess: the queue has no limit.
TryProcessUnlimited(t) ==
  /\ pc[t] = "try"
  /\ callbacks' = IF pending THEN callbacks + 1 ELSE callbacks
  /\ GoTo(t, IF pending /\ cuser THEN "process" ELSE ret[t])
  /\ UNCHANGED <<config, dlcs, injected, initialized, cpi, cuser, pending, lock,
                 clientVars, ret, newly, want>>

\* TryProcessPendingLicenseRefresh: the callback is posted (dropped when the
\* queue is full) even if there is no user object to refresh.
TryProcess(t) ==
  /\ pc[t] = "try"
  /\ callbacks' = IF pending /\ callbacks < QueueMax THEN callbacks + 1 ELSE callbacks
  /\ GoTo(t, IF pending /\ cuser THEN "process" ELSE ret[t])
  /\ UNCHANGED <<config, dlcs, injected, initialized, cpi, cuser, pending, lock,
                 clientVars, ret, newly, want>>

\* ProcessPendingLicenseUpdates resolves every entry of AppIdVec.  Those Steam
\* cannot resolve are looked up through the GetOrAddAppData hook, which takes
\* g_injectMutex (IsInjectedAppId) and marks an injected one to be skipped.
LookUp(t, i) ==
  /\ pc[t] = "process"
  /\ lock = NoThread
  /\ i \in (Present("apps") \cap injected["apps"]) \ (Native \cup skipped)
  /\ skipped' = skipped \cup {i}
  /\ UNCHANGED <<config, dlcs, hookVars, available, pkg, unannounced, intact, threadVars>>

\* It returns when no entry is left unresolved.
FinishProcess(t) ==
  /\ pc[t] = "process"
  /\ Present("apps") \subseteq Native \cup skipped
  /\ unannounced' = FALSE
  /\ GoTo(t, "clear")
  /\ UNCHANGED <<config, dlcs, hookVars, available, pkg, skipped, intact, ret, newly, want>>

ClearPending(t) ==
  /\ pc[t] = "clear"
  /\ pending' = FALSE
  /\ GoTo(t, ret[t])
  /\ UNCHANGED <<config, dlcs, injected, initialized, cpi, cuser, callbacks, lock,
                 clientVars, ret, newly, want>>

-----------------------------------------------------------------------------
\* What a thread does once it is inside one of our functions.
Step(t) ==
  \/ TryInit(t) \/ Acquire(t)
  \/ CollectDesiredAppIds(t) \/ CollectDesiredDepotIds(t)
  \/ Apply(t) \/ RaisePending(t) \/ NoteCapture(t)
  \/ TryProcess(t) \/ FinishProcess(t) \/ ClearPending(t)
  \/ \E i \in Ids : LookUp(t, i)

Next ==
  \/ \E b \in Bases : RegisterDlcs(b)
  \/ BecomeAvailable \/ RewritePackage \/ DeliverCallback
  \/ \E t \in SteamThreads : CheckAppOwnership(t) \/ GetPackageInfo(t)
  \/ \E c \in Configs : Reload(c)
  \/ \E t \in Threads : Step(t)

Spec == Init /\ [][Next]_vars

\* Threads run, a mutex that keeps being free is granted, and the client goes
\* on asking about ownership; nobody owes an event of the environment.
FairSpec ==
  /\ Spec
  /\ \A t \in Threads : SF_vars(Step(t))
  /\ \A t \in SteamThreads : WF_vars(CheckAppOwnership(t))

-----------------------------------------------------------------------------
TypeOK ==
  /\ config \in Configs
  /\ dlcs \subseteq Bases
  /\ available \in BOOLEAN
  /\ pkg \in [Kinds -> [Ids -> Nat]]
  /\ skipped \subseteq Ids
  /\ injected \in IdSets
  /\ initialized \in BOOLEAN /\ cpi \in BOOLEAN /\ cuser \in BOOLEAN /\ pending \in BOOLEAN
  /\ callbacks \in 0 .. QueueMax
  /\ lock \in Threads \cup {NoThread}
  /\ pc \in [Threads -> PcValues]
  /\ ret \in [Threads -> {"idle", "note"}]
  /\ newly \in [Threads -> BOOLEAN]
  /\ want \in [Threads -> IdSets]
  /\ unannounced \in BOOLEAN
  /\ intact \in BOOLEAN

\* "repeated invocations (hot reload, racing hook threads) never duplicate
\* entries": two threads that both pass the initialized test, a failed append
\* and a rewrite by Steam included.
NoDuplicateEntries == \A k \in Kinds, i \in Ids : pkg[k][i] <= 1

\* Whatever we put into AppIdVec is in the injected set, so the skip-flag hook
\* recognises it: otherwise the client's refresh waits for its appinfo forever.
EntriesAreAccountedFor ==
  \A k \in Kinds : Present(k) \subseteq Native \cup injected[k]

\* Between reloads Package 0 holds every app and depot the configuration
\* asks for and nothing an earlier configuration left behind (a removed game,
\* the DLC of a removed game), however the threads raced to inject it.
PackageFollowsConfig ==
  (pc[Watcher] = "idle" /\ initialized /\ intact) =>
    /\ config["apps"] \ Redist \subseteq Present("apps")
    /\ config["depots"] \subseteq Present("depots")
    /\ Present("apps") \subseteq Native \cup DesiredApps
    /\ Present("depots") \subseteq Native \cup DesiredDepots

\* Every hook call and every sync returns: the refresh runs outside
\* g_injectMutex, so the client's re-entry into our hooks cannot deadlock.
HooksReturn == \A t \in Threads : pc[t] # "idle" ~> pc[t] = "idle"

\* An injection deferred because Package 0 was not Available is made up for.
DeferredInjectionHappens == (available /\ cpi) ~> initialized

\* ARCHITECTURE.md, runtime step 6 and hot reload: a change of Package 0 ends
\* in MarkLicenseAsChanged and a refreshed UI.
RefreshReachesClient ==
  ((\A t \in Threads : pc[t] = "idle") /\ cuser) => ~unannounced

\* CollectDesiredAppIds: a removed game's DLCs must not go on "unlocking
\* forever (zombie DLCs)".
NoZombieDlc ==
  (pc[Watcher] = "idle" /\ initialized /\ intact) =>
    \A app \in Ids : Grants(app) => app \in config["apps"] \cup config["depots"] \cup DesiredApps
=============================================================================
