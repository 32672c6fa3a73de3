------------------------ MODULE LicensePackageProofs ------------------------
(***************************************************************************)
(* Proofs about LicensePackage, for any ids, configurations and number of  *)
(* client threads: Package 0 never holds an id twice, every entry that is  *)
(* ours is accounted for, and between reloads it follows the configuration.*)
(***************************************************************************)
EXTENDS LicensePackage, TLAPS

-----------------------------------------------------------------------------
(* The inductive invariant. *)

\* Where a thread holds g_injectMutex.
Holds(t) == pc[t] \in (IF t = Watcher THEN {"apply"} ELSE {"apps", "depots", "apply"})

Mutex == \A t \in Threads : Holds(t) <=> lock = t

\* The watcher never runs CheckAppOwnership.
WatcherPlace == pc[Watcher] \notin {"init", "note"} /\ ret[Watcher] = "idle"

\* A snapshot was published and its delta is not applied yet.
SyncOwed == pc[Watcher] \in {"apps", "depots", "lock", "apply"}

\* What a sync or an injection may legitimately want under this configuration.
AppsFit(apps)     == config["apps"] \ Redist \subseteq apps /\ apps \subseteq DesiredApps
DepotsFit(depots) == depots = config["depots"]

\* The watcher wants what it published.
WatcherWants ==
  /\ pc[Watcher] \in {"depots", "lock", "apply"} => AppsFit(want[Watcher]["apps"])
  /\ pc[Watcher] \in {"lock", "apply"} => DepotsFit(want[Watcher]["depots"])

\* A client thread that injects wants what is published, unless a sync is owed:
\* then the delta of that sync, behind the mutex, comes after it.
ClientWants ==
  \A t \in SteamThreads :
    ~SyncOwed =>
      /\ pc[t] \in {"depots", "apply"} => AppsFit(want[t]["apps"])
      /\ pc[t] = "apply" => DepotsFit(want[t]["depots"])

PackageFits ==
  (~SyncOwed /\ initialized /\ intact) =>
    /\ config["apps"] \ Redist \subseteq Present("apps")
    /\ config["depots"] \subseteq Present("depots")
    /\ Present("apps") \subseteq Native \cup DesiredApps
    /\ Present("depots") \subseteq Native \cup DesiredDepots

IInv ==
  /\ TypeOK
  /\ NoDuplicateEntries
  /\ EntriesAreAccountedFor
  /\ Mutex
  /\ WatcherPlace
  /\ WatcherWants
  /\ ClientWants
  /\ PackageFits

-----------------------------------------------------------------------------
(* The data. *)

\* What may be wanted is made of ids.
LEMMA DesiredAreIds ==
  ASSUME TypeOK
  PROVE  DesiredApps \in SUBSET Ids /\ DesiredDepots \in SUBSET Ids
<1>1. config \in IdSets
  BY PackageAssumption DEF TypeOK
<1>2. config["apps"] \in SUBSET Ids /\ config["depots"] \in SUBSET Ids
  BY <1>1 DEF IdSets, Kinds
<1>3. \A b \in Bases : DlcOf[b] \subseteq Ids
  BY PackageAssumption
<1>4. KnownDlcs(dlcs \cap config["apps"]) \subseteq Ids
  BY <1>3 DEF KnownDlcs, TypeOK
<1> QED
  BY <1>2, <1>4 DEF DesiredApps, DesiredDepots

\* Learning about more DLCs only adds to what is wanted.
LEMMA MoreDlcsMoreWanted ==
  ASSUME NEW b, dlcs' = dlcs \cup {b}, config' = config
  PROVE  DesiredApps \subseteq DesiredApps' /\ DesiredDepots' = DesiredDepots
BY DEF DesiredApps, DesiredDepots, KnownDlcs

\* What a delta does: entries stay single and accounted for, and when both
\* appends succeed nothing but the native and the desired ids is left.
LEMMA DeltaEffect ==
  ASSUME TypeOK, NoDuplicateEntries, EntriesAreAccountedFor,
         NEW desired \in IdSets, NEW grown \in [Kinds -> BOOLEAN],
         ApplyDelta(desired, grown)
  PROVE  /\ pkg' \in [Kinds -> [Ids -> Nat]]
         /\ injected' \in IdSets
         /\ intact' \in BOOLEAN
         /\ NoDuplicateEntries'
         /\ EntriesAreAccountedFor'
         /\ intact' => \A k \in Kinds : /\ desired[k] \subseteq Present(k)'
                                       /\ Present(k)' \subseteq Native \cup desired[k]
<1> DEFINE left(k) == Removed(k, desired[k])
<1>1. ASSUME NEW k \in Kinds, NEW i \in Ids
      PROVE  /\ pkg[k][i] \in {0, 1}
             /\ left(k)[i] = IF i \in injected[k] \ desired[k] THEN 0 ELSE pkg[k][i]
             /\ pkg'[k][i] = IF grown[k] /\ i \in desired[k] /\ left(k)[i] = 0
                               THEN 1 ELSE left(k)[i]
  <2>1. pkg[k][i] \in {0, 1}
    <3>1. pkg \in [Kinds -> [Ids -> Nat]]
      BY DEF TypeOK
    <3>2. pkg[k][i] <= 1
      BY DEF NoDuplicateEntries
    <3>3. pkg[k][i] \in Nat
      BY <3>1
    <3> QED
      BY <3>2, <3>3
  <2>2. left(k)[i] = IF i \in injected[k] \ desired[k] THEN 0 ELSE pkg[k][i]
    BY <2>1 DEF Removed
  <2>3. pkg'[k][i] = left(k)[i] + Occurs(grown[k] /\ i \in Additions(left(k), desired[k]))
    BY DEF ApplyDelta
  <2>4. i \in Additions(left(k), desired[k]) <=> i \in desired[k] /\ left(k)[i] = 0
    BY DEF Additions
  <2>5. CASE grown[k] /\ i \in desired[k] /\ left(k)[i] = 0
    <3>1. Occurs(grown[k] /\ i \in Additions(left(k), desired[k])) = 1
      BY <2>4, <2>5 DEF Occurs
    <3> HIDE DEF left
    <3> QED  BY <2>1, <2>2, <2>3, <2>5, <3>1
  <2>6. CASE ~(grown[k] /\ i \in desired[k] /\ left(k)[i] = 0)
    <3>1. Occurs(grown[k] /\ i \in Additions(left(k), desired[k])) = 0
      BY <2>4, <2>6 DEF Occurs
    <3> HIDE DEF left
    <3> QED  BY <2>1, <2>2, <2>3, <2>6, <3>1
  <2> QED
    BY <2>1, <2>2, <2>5, <2>6
<1>2. pkg' = [k \in Kinds |-> [i \in Ids |->
                left(k)[i] + Occurs(grown[k] /\ i \in Additions(left(k), desired[k]))]]
  BY DEF ApplyDelta
<1>3. injected' = [k \in Kinds |-> IF grown[k] THEN desired[k] ELSE injected[k]]
  BY DEF ApplyDelta
<1>4. intact' = \A k \in Kinds : grown[k]
  BY DEF ApplyDelta
<1> HIDE DEF left
<1>5. pkg' \in [Kinds -> [Ids -> Nat]]
  BY <1>1, <1>2
<1>6. injected' \in IdSets
  BY <1>3 DEF IdSets, TypeOK
<1>7. NoDuplicateEntries'
  BY <1>1 DEF NoDuplicateEntries
<1>8. ASSUME NEW k \in Kinds
      PROVE  Present(k)' \subseteq Native \cup injected'[k]
  <2> SUFFICES ASSUME NEW i \in Ids, pkg'[k][i] > 0
               PROVE  i \in Native \cup injected'[k]
    BY DEF Present
  <2>1. pkg[k][i] > 0 => i \in Native \cup injected[k]
    BY DEF EntriesAreAccountedFor, Present
  <2> QED
    BY <1>1, <1>3, <2>1
<1>9. ASSUME intact', NEW k \in Kinds
      PROVE  /\ desired[k] \subseteq Present(k)'
             /\ Present(k)' \subseteq Native \cup desired[k]
  <2>1. grown[k] /\ injected'[k] = desired[k]
    BY <1>3, <1>4, <1>9
  <2>2. desired[k] \subseteq Ids
    BY DEF IdSets
  <2>3. desired[k] \subseteq Present(k)'
    BY <1>1, <2>1, <2>2 DEF Present
  <2> QED
    BY <1>8, <2>1, <2>3
<1> QED
  BY <1>4, <1>5, <1>6, <1>7, <1>8, <1>9 DEF EntriesAreAccountedFor

-----------------------------------------------------------------------------
(* Type correctness and the initial state. *)

\* Every variable keeps its type, given that the entries are single (a delta
\* takes at most one occurrence out).
LEMMA TypeStep ==
  ASSUME TypeOK, NoDuplicateEntries, EntriesAreAccountedFor, [Next]_vars
  PROVE  TypeOK'
<1> USE DEF TypeOK, hookVars, clientVars, threadVars, PcValues, GoTo
<1>1. ASSUME NEW b \in Bases, RegisterDlcs(b) PROVE TypeOK'
  BY <1>1 DEF RegisterDlcs
<1>2. CASE BecomeAvailable
  BY <1>2 DEF BecomeAvailable
<1>3. CASE RewritePackage
  BY <1>3 DEF RewritePackage, NativePkg, Occurs
<1>4. CASE DeliverCallback
  BY <1>4, PackageAssumption DEF DeliverCallback
<1>5. ASSUME NEW t \in SteamThreads, CheckAppOwnership(t) PROVE TypeOK'
  BY <1>5 DEF CheckAppOwnership
<1>6. ASSUME NEW t \in SteamThreads, GetPackageInfo(t) PROVE TypeOK'
  BY <1>6 DEF GetPackageInfo
<1>7. ASSUME NEW c \in Configs, Reload(c) PROVE TypeOK'
  BY <1>7 DEF Reload
<1>8. ASSUME NEW t \in Threads, Step(t) PROVE TypeOK'
  <2>1. CASE TryInit(t)
    BY <2>1 DEF TryInit
  <2>2. CASE Acquire(t)
    BY <2>2 DEF Acquire
  <2>3. CASE CollectDesiredAppIds(t)
    BY <2>3, DesiredAreIds DEF CollectDesiredAppIds, IdSets, Kinds
  <2>4. CASE CollectDesiredDepotIds(t)
    BY <2>4, DesiredAreIds DEF CollectDesiredDepotIds, IdSets, Kinds
  <2>5. CASE Apply(t)
    <3>1. Nothing \in IdSets
      BY DEF Nothing, IdSets
    <3>2. /\ pkg' \in [Kinds -> [Ids -> Nat]]
          /\ injected' \in IdSets
          /\ intact' \in BOOLEAN /\ unannounced' \in BOOLEAN /\ initialized' \in BOOLEAN
      <4>1. CASE t = Watcher /\ ~initialized
        BY <2>5, <4>1 DEF Apply
      <4>2. CASE ~(t = Watcher /\ ~initialized)
        <5>1. PICK grown \in [Kinds -> BOOLEAN] : ApplyDelta(want[t], grown)
          BY <2>5, <4>2 DEF Apply
        <5>2. unannounced' = (unannounced \/ pkg' # pkg) /\ initialized' = TRUE
          BY <2>5, <4>2, <5>1 DEF Apply, ApplyDelta
        <5> QED
          BY <5>1, <5>2, DeltaEffect
      <4> QED
        BY <4>1, <4>2
    <3> QED
      BY <2>5, <3>1, <3>2 DEF Apply
  <2>6. CASE RaisePending(t)
    BY <2>6 DEF RaisePending
  <2>7. CASE NoteCapture(t)
    BY <2>7 DEF NoteCapture
  <2>8. CASE TryProcess(t)
    BY <2>8, PackageAssumption DEF TryProcess
  <2>9. CASE FinishProcess(t)
    BY <2>9 DEF FinishProcess
  <2>10. CASE ClearPending(t)
    BY <2>10 DEF ClearPending
  <2>11. ASSUME NEW i \in Ids, LookUp(t, i) PROVE TypeOK'
    BY <2>11 DEF LookUp
  <2> QED
    BY <1>8, <2>1, <2>2, <2>3, <2>4, <2>5, <2>6, <2>7, <2>8, <2>9, <2>10, <2>11 DEF Step
<1>9. CASE UNCHANGED vars
  BY <1>9 DEF vars
<1> QED
  BY <1>1, <1>2, <1>3, <1>4, <1>5, <1>6, <1>7, <1>8, <1>9 DEF Next

\* Every initial state satisfies the invariant.
LEMMA InitInvariant == Init => IInv
<1> SUFFICES ASSUME Init PROVE IInv
  OBVIOUS
<1>1. TypeOK
  <2>1. NativePkg \in [Kinds -> [Ids -> Nat]]
    BY DEF NativePkg, Occurs
  <2>2. Nothing \in IdSets
    BY DEF Nothing, IdSets
  <2>3. 0 \in 0 .. QueueMax
    BY PackageAssumption
  <2> QED
    BY <2>1, <2>2, <2>3 DEF Init, TypeOK, PcValues
<1>2. NoDuplicateEntries /\ EntriesAreAccountedFor
  BY DEF Init, NoDuplicateEntries, EntriesAreAccountedFor, NativePkg, Occurs, Present
<1>3. \A t \in Threads : pc[t] = "idle"
  BY DEF Init
<1>4. Mutex
  BY <1>3, PackageAssumption DEF Init, Mutex, Holds
<1>5. WatcherWants /\ ClientWants /\ WatcherPlace
  BY <1>3 DEF Init, WatcherWants, ClientWants, WatcherPlace, Threads
<1>6. PackageFits
  BY DEF Init, PackageFits
<1> QED
  BY <1>1, <1>2, <1>4, <1>5, <1>6 DEF IInv

-----------------------------------------------------------------------------
(* The steps. *)

\* Only a delta and a rewrite by Steam touch the vectors.
LEMMA EntriesStep ==
  ASSUME TypeOK, NoDuplicateEntries, EntriesAreAccountedFor, [Next]_vars
  PROVE  NoDuplicateEntries' /\ EntriesAreAccountedFor'
<1>1. CASE UNCHANGED <<pkg, injected>>
  BY <1>1 DEF NoDuplicateEntries, EntriesAreAccountedFor, Present
<1>2. CASE RewritePackage
  BY <1>2 DEF RewritePackage, NativePkg, Occurs, NoDuplicateEntries, EntriesAreAccountedFor, Present
<1>3. ASSUME NEW t \in Threads, Apply(t)
      PROVE  NoDuplicateEntries' /\ EntriesAreAccountedFor'
  <2>1. CASE t = Watcher /\ ~initialized
    BY <1>1, <1>3, <2>1 DEF Apply
  <2>2. CASE ~(t = Watcher /\ ~initialized)
    <3>1. PICK grown \in [Kinds -> BOOLEAN] : ApplyDelta(want[t], grown)
      BY <1>3, <2>2 DEF Apply
    <3>2. want[t] \in IdSets
      BY DEF TypeOK
    <3> QED
      BY <3>1, <3>2, DeltaEffect
  <2> QED
    BY <2>1, <2>2
<1>4. [Next]_vars => \/ UNCHANGED <<pkg, injected>>
                     \/ RewritePackage
                     \/ \E t \in Threads : Apply(t)
  BY DEF Next, Step, RegisterDlcs, BecomeAvailable, DeliverCallback, CheckAppOwnership,
         GetPackageInfo, Reload, TryInit, Acquire, CollectDesiredAppIds,
         CollectDesiredDepotIds, RaisePending, NoteCapture, TryProcess, LookUp,
         FinishProcess, ClearPending, hookVars, clientVars, threadVars, vars
<1> QED
  BY <1>1, <1>2, <1>3, <1>4

\* g_injectMutex excludes.
LEMMA MutexStep ==
  ASSUME TypeOK, Mutex, [Next]_vars
  PROVE  Mutex'
<1> USE DEF TypeOK, Mutex, Holds, hookVars, clientVars, threadVars, GoTo
<1>0. Watcher \in Threads /\ SteamThreads \subseteq Threads /\ NoThread \notin Threads
      /\ Watcher \notin SteamThreads
  BY PackageAssumption DEF Threads
<1>1. CASE UNCHANGED <<pc, lock>>
  BY <1>1
<1>2. ASSUME NEW t \in SteamThreads, CheckAppOwnership(t) PROVE Mutex'
  BY <1>0, <1>2 DEF CheckAppOwnership
<1>3. ASSUME NEW t \in SteamThreads, GetPackageInfo(t) PROVE Mutex'
  BY <1>0, <1>3 DEF GetPackageInfo
<1>4. ASSUME NEW c \in Configs, Reload(c) PROVE Mutex'
  BY <1>0, <1>4 DEF Reload
<1>5. ASSUME NEW t \in Threads, Step(t) PROVE Mutex'
  <2>1. CASE TryInit(t)
    BY <1>0, <2>1 DEF TryInit
  <2>2. CASE Acquire(t)
    BY <1>0, <2>2 DEF Acquire
  <2>3. CASE CollectDesiredAppIds(t)
    BY <1>0, <2>3 DEF CollectDesiredAppIds
  <2>4. CASE CollectDesiredDepotIds(t)
    BY <1>0, <2>4 DEF CollectDesiredDepotIds
  <2>5. CASE Apply(t)
    BY <1>0, <2>5 DEF Apply
  <2>6. CASE RaisePending(t) \/ NoteCapture(t)
    BY <1>0, <2>6 DEF RaisePending, NoteCapture
  <2>7. CASE TryProcess(t) \/ FinishProcess(t) \/ ClearPending(t)
    BY <1>0, <2>7 DEF TryProcess, FinishProcess, ClearPending
  <2>8. ASSUME NEW i \in Ids, LookUp(t, i) PROVE Mutex'
    BY <2>8, <1>1 DEF LookUp
  <2> QED
    BY <1>5, <2>1, <2>2, <2>3, <2>4, <2>5, <2>6, <2>7, <2>8 DEF Step
<1>6. CASE (\E b \in Bases : RegisterDlcs(b)) \/ BecomeAvailable \/ RewritePackage
           \/ DeliverCallback \/ UNCHANGED vars
  BY <1>1, <1>6 DEF RegisterDlcs, BecomeAvailable, RewritePackage, DeliverCallback, vars
<1> QED
  BY <1>2, <1>3, <1>4, <1>5, <1>6 DEF Next

\* The watcher keeps to its own code.
LEMMA WatcherPlaceStep ==
  ASSUME TypeOK, WatcherPlace, [Next]_vars
  PROVE  WatcherPlace'
<1> USE DEF TypeOK, WatcherPlace, hookVars, clientVars, threadVars, GoTo
<1>0. Watcher \in Threads /\ SteamThreads \subseteq Threads /\ Watcher \notin SteamThreads
  BY PackageAssumption DEF Threads
<1>1. CASE UNCHANGED <<pc, ret>>
  BY <1>1
<1>2. ASSUME NEW t \in SteamThreads, CheckAppOwnership(t) \/ GetPackageInfo(t)
      PROVE  WatcherPlace'
  BY <1>0, <1>2 DEF CheckAppOwnership, GetPackageInfo
<1>3. ASSUME NEW c \in Configs, Reload(c) PROVE WatcherPlace'
  BY <1>0, <1>3 DEF Reload
<1>4. ASSUME NEW t \in Threads, Step(t) PROVE WatcherPlace'
  <2>1. CASE TryInit(t) \/ Acquire(t)
    BY <1>0, <2>1 DEF TryInit, Acquire
  <2>2. CASE CollectDesiredAppIds(t) \/ CollectDesiredDepotIds(t) \/ Apply(t)
    BY <1>0, <2>2 DEF CollectDesiredAppIds, CollectDesiredDepotIds, Apply
  <2>3. CASE RaisePending(t) \/ NoteCapture(t)
    BY <1>0, <2>3 DEF RaisePending, NoteCapture
  <2>4. CASE TryProcess(t) \/ FinishProcess(t) \/ ClearPending(t)
    BY <1>0, <2>4 DEF TryProcess, FinishProcess, ClearPending
  <2>5. ASSUME NEW i \in Ids, LookUp(t, i) PROVE WatcherPlace'
    BY <2>5, <1>1 DEF LookUp
  <2> QED
    BY <1>4, <2>1, <2>2, <2>3, <2>4, <2>5 DEF Step
<1>5. CASE (\E b \in Bases : RegisterDlcs(b)) \/ BecomeAvailable \/ RewritePackage
           \/ DeliverCallback \/ UNCHANGED vars
  BY <1>1, <1>5 DEF RegisterDlcs, BecomeAvailable, RewritePackage, DeliverCallback, vars
<1> QED
  BY <1>2, <1>3, <1>4, <1>5 DEF Next

\* The state that says what threads want and may want is left alone.
Unmoved == UNCHANGED <<config, dlcs, pc, want>>

\* The watcher's snapshot cannot change before its delta is applied.
LEMMA WatcherWantsStep ==
  ASSUME TypeOK, WatcherPlace, WatcherWants, [Next]_vars
  PROVE  WatcherWants'
<1> USE DEF TypeOK, WatcherPlace, WatcherWants, AppsFit, DepotsFit, hookVars, clientVars, threadVars, GoTo
<1>0. Watcher \in Threads /\ SteamThreads \subseteq Threads /\ Watcher \notin SteamThreads
  BY PackageAssumption DEF Threads
<1>1. ASSUME Unmoved PROVE WatcherWants'
  BY <1>1 DEF Unmoved, DesiredApps
<1>2. ASSUME NEW b \in Bases, RegisterDlcs(b) PROVE WatcherWants'
  <2>1. DesiredApps \subseteq DesiredApps'
    BY <1>2, MoreDlcsMoreWanted DEF RegisterDlcs
  <2> QED
    BY <1>2, <2>1 DEF RegisterDlcs
<1>3. ASSUME NEW t \in SteamThreads, CheckAppOwnership(t) \/ GetPackageInfo(t)
      PROVE  WatcherWants'
  BY <1>0, <1>3 DEF CheckAppOwnership, GetPackageInfo, DesiredApps
<1>4. ASSUME NEW c \in Configs, Reload(c) PROVE WatcherWants'
  BY <1>0, <1>4 DEF Reload
<1>5. ASSUME NEW t \in Threads, Step(t) PROVE WatcherWants'
  <2>1. CASE TryInit(t) \/ Acquire(t)
    <3>1. UNCHANGED <<config, dlcs, want>> /\ DesiredApps' = DesiredApps
      BY <2>1 DEF TryInit, Acquire, DesiredApps
    <3>2. /\ pc'[Watcher] \in {"depots", "lock", "apply"} => pc[Watcher] \in {"depots", "lock", "apply"}
          /\ pc'[Watcher] \in {"lock", "apply"} => pc[Watcher] \in {"lock", "apply"}
      BY <1>0, <2>1 DEF TryInit, Acquire
    <3> QED
      BY <3>1, <3>2
  <2>2. CASE CollectDesiredAppIds(t)
    <3>1. UNCHANGED <<config, dlcs>> /\ DesiredApps' = DesiredApps
      BY <2>2 DEF CollectDesiredAppIds, DesiredApps
    <3>2. config["apps"] \ Redist \subseteq DesiredApps
      BY DEF DesiredApps
    <3>3. CASE t = Watcher
      <4>1. want'[t]["apps"] = DesiredApps /\ pc'[t] = "depots"
        BY <2>2, <3>3 DEF CollectDesiredAppIds, IdSets, Kinds
      <4> QED
        BY <3>1, <3>2, <3>3, <4>1
    <3>4. CASE t # Watcher
      <4>1. want'[Watcher] = want[Watcher] /\ pc'[Watcher] = pc[Watcher]
        BY <1>0, <2>2, <3>4 DEF CollectDesiredAppIds
      <4> QED
        BY <3>1, <4>1
    <3> QED
      BY <3>3, <3>4
  <2>3. CASE CollectDesiredDepotIds(t)
    <3>1. UNCHANGED <<config, dlcs>> /\ DesiredApps' = DesiredApps
      BY <2>3 DEF CollectDesiredDepotIds, DesiredApps
    <3>2. CASE t = Watcher
      <4>1. /\ want'[t]["apps"] = want[t]["apps"] /\ want'[t]["depots"] = config["depots"]
            /\ pc[t] = "depots" /\ pc'[t] = "lock"
        BY <2>3, <3>2 DEF CollectDesiredDepotIds, DesiredDepots, IdSets, Kinds
      <4> QED
        BY <3>1, <3>2, <4>1
    <3>3. CASE t # Watcher
      <4>1. want'[Watcher] = want[Watcher] /\ pc'[Watcher] = pc[Watcher]
        BY <1>0, <2>3, <3>3 DEF CollectDesiredDepotIds
      <4> QED
        BY <3>1, <4>1
    <3> QED
      BY <3>2, <3>3
  <2>4. CASE Apply(t)
    BY <1>0, <2>4 DEF Apply, DesiredApps
  <2>5. CASE RaisePending(t) \/ NoteCapture(t)
    BY <1>0, <2>5 DEF RaisePending, NoteCapture, DesiredApps
  <2>6. CASE TryProcess(t) \/ FinishProcess(t) \/ ClearPending(t)
    BY <1>0, <2>6 DEF TryProcess, FinishProcess, ClearPending, DesiredApps
  <2>7. ASSUME NEW i \in Ids, LookUp(t, i) PROVE WatcherWants'
    BY <2>7, <1>1 DEF LookUp, Unmoved
  <2> QED
    BY <1>5, <2>1, <2>2, <2>3, <2>4, <2>5, <2>6, <2>7 DEF Step
<1>6. CASE BecomeAvailable \/ RewritePackage \/ DeliverCallback \/ UNCHANGED vars
  BY <1>1, <1>6 DEF BecomeAvailable, RewritePackage, DeliverCallback, Unmoved, vars
<1> QED
  BY <1>2, <1>3, <1>4, <1>5, <1>6 DEF Next

\* A client thread that collects reads the published snapshot; a later one is
\* only published while SyncOwed, and a delta of the sync needs the mutex this
\* thread holds.
LEMMA ClientWantsStep ==
  ASSUME TypeOK, Mutex, WatcherPlace, ClientWants, [Next]_vars
  PROVE  ClientWants'
<1> USE DEF TypeOK, WatcherPlace, ClientWants, SyncOwed, AppsFit, DepotsFit,
            hookVars, clientVars, threadVars, GoTo
<1>0. Watcher \in Threads /\ SteamThreads \subseteq Threads /\ Watcher \notin SteamThreads
  BY PackageAssumption DEF Threads
<1>1. ASSUME Unmoved PROVE ClientWants'
  BY <1>1 DEF Unmoved, DesiredApps
<1>2. ASSUME NEW b \in Bases, RegisterDlcs(b) PROVE ClientWants'
  <2>1. DesiredApps \subseteq DesiredApps'
    BY <1>2, MoreDlcsMoreWanted DEF RegisterDlcs
  <2> QED
    BY <1>2, <2>1 DEF RegisterDlcs
<1>3. ASSUME NEW t \in SteamThreads, CheckAppOwnership(t) \/ GetPackageInfo(t)
      PROVE  ClientWants'
  <2>1. UNCHANGED <<config, dlcs, want>> /\ DesiredApps' = DesiredApps
    BY <1>3 DEF CheckAppOwnership, GetPackageInfo, DesiredApps
  <2>2. pc' = pc \/ pc' = [pc EXCEPT ![t] = "init"] \/ pc' = [pc EXCEPT ![t] = "lock"]
    BY <1>3 DEF CheckAppOwnership, GetPackageInfo
  <2> QED
    BY <1>0, <2>1, <2>2
<1>4. ASSUME NEW c \in Configs, Reload(c) PROVE ClientWants'
  BY <1>0, <1>4 DEF Reload
<1>5. ASSUME NEW t \in Threads, Step(t) PROVE ClientWants'
  <2>0. UNCHANGED <<config, dlcs>> /\ DesiredApps' = DesiredApps
    BY <1>5 DEF Step, TryInit, Acquire, CollectDesiredAppIds, CollectDesiredDepotIds, Apply,
       RaisePending, NoteCapture, TryProcess, FinishProcess, ClearPending, LookUp, DesiredApps
  <2>1. CASE TryInit(t) \/ Acquire(t)
    <3>1. /\ want' = want
          /\ \A s \in SteamThreads : pc'[s] \in {"depots", "apply"} => pc'[s] = pc[s]
      BY <1>0, <2>1 DEF TryInit, Acquire
    <3>2. pc'[Watcher] \in {"apps", "depots", "lock", "apply"} <=> SyncOwed
      BY <1>0, <2>1 DEF TryInit, Acquire
    <3> QED
      BY <1>0, <2>0, <3>1, <3>2
  <2>2. CASE CollectDesiredAppIds(t)
    <3>1. config["apps"] \ Redist \subseteq DesiredApps
      BY DEF DesiredApps
    <3>2. want'[t]["apps"] = DesiredApps /\ pc[t] = "apps" /\ pc'[t] = "depots"
      BY <2>2 DEF CollectDesiredAppIds, IdSets, Kinds
    <3>3. \A s \in Threads \ {t} : want'[s] = want[s] /\ pc'[s] = pc[s]
      BY <2>2 DEF CollectDesiredAppIds
    <3>4. SyncOwed' <=> SyncOwed
      BY <1>0, <3>2, <3>3
    <3> QED
      BY <1>0, <2>0, <3>1, <3>2, <3>3, <3>4
  <2>3. CASE CollectDesiredDepotIds(t)
    <3>1. /\ want'[t]["apps"] = want[t]["apps"] /\ want'[t]["depots"] = config["depots"]
          /\ pc[t] = "depots" /\ pc'[t] \in {"lock", "apply"}
      BY <2>3 DEF CollectDesiredDepotIds, DesiredDepots, IdSets, Kinds
    <3>2. \A s \in Threads \ {t} : want'[s] = want[s] /\ pc'[s] = pc[s]
      BY <2>3 DEF CollectDesiredDepotIds
    <3>3. SyncOwed' <=> SyncOwed
      BY <1>0, <3>1, <3>2
    <3> QED
      BY <1>0, <2>0, <3>1, <3>2, <3>3
  <2>4. CASE Apply(t)
    <3>1. pc[t] = "apply" /\ pc'[t] = "raise"
      BY <2>4 DEF Apply
    <3>2. \A s \in Threads \ {t} : want'[s] = want[s] /\ pc'[s] = pc[s]
      BY <2>4 DEF Apply
    <3>3. CASE t = Watcher
      <4>1. \A s \in SteamThreads : pc'[s] \notin {"depots", "apply"}
        BY <1>0, <3>1, <3>2, <3>3 DEF Mutex, Holds
      <4> QED
        BY <4>1
    <3>4. CASE t # Watcher
      BY <1>0, <2>0, <3>1, <3>2, <3>4
    <3> QED
      BY <3>3, <3>4
  <2>5. CASE RaisePending(t) \/ NoteCapture(t) \/ TryProcess(t) \/ FinishProcess(t)
             \/ ClearPending(t)
    <3>1. /\ want' = want
          /\ pc[t] \in {"raise", "note", "try", "process", "clear"}
          /\ pc'[t] \in {"try", "process", "clear", "idle", "note"}
          /\ \A s \in Threads \ {t} : pc'[s] = pc[s]
      BY <2>5 DEF RaisePending, NoteCapture, TryProcess, FinishProcess, ClearPending
    <3>2. SyncOwed' <=> SyncOwed
      BY <1>0, <3>1
    <3> QED
      BY <1>0, <2>0, <3>1, <3>2
  <2>6. ASSUME NEW i \in Ids, LookUp(t, i) PROVE ClientWants'
    BY <2>6, <1>1 DEF LookUp, Unmoved
  <2> QED
    BY <1>5, <2>1, <2>2, <2>3, <2>4, <2>5, <2>6 DEF Step
<1>6. CASE BecomeAvailable \/ RewritePackage \/ DeliverCallback \/ UNCHANGED vars
  BY <1>1, <1>6 DEF BecomeAvailable, RewritePackage, DeliverCallback, Unmoved, vars
<1> QED
  BY <1>2, <1>3, <1>4, <1>5, <1>6 DEF Next

\* Package 0 fits the configuration once no sync is owed.
LEMMA PackageFitsStep ==
  ASSUME IInv, [Next]_vars
  PROVE  PackageFits'
<1> USE DEF TypeOK, WatcherPlace, PackageFits, SyncOwed, hookVars, clientVars, threadVars, GoTo
<1>0. Watcher \in Threads /\ SteamThreads \subseteq Threads /\ Watcher \notin SteamThreads
  BY PackageAssumption DEF Threads
<1>a. TypeOK /\ WatcherPlace /\ PackageFits
  BY DEF IInv
<1>1. ASSUME UNCHANGED <<config, dlcs, pkg, initialized, intact>>, SyncOwed' <=> SyncOwed
      PROVE  PackageFits'
  BY <1>1, <1>a DEF DesiredApps, DesiredDepots, Present
<1>2. ASSUME NEW b \in Bases, RegisterDlcs(b) PROVE PackageFits'
  <2>1. DesiredApps \subseteq DesiredApps' /\ DesiredDepots' = DesiredDepots
    BY <1>2, MoreDlcsMoreWanted DEF RegisterDlcs
  <2> QED
    BY <1>2, <1>a, <2>1 DEF RegisterDlcs, Present
<1>3. CASE RewritePackage
  BY <1>3 DEF RewritePackage
<1>4. ASSUME NEW c \in Configs, Reload(c) PROVE PackageFits'
  BY <1>0, <1>4, <1>a DEF Reload
<1>5. ASSUME NEW t \in SteamThreads, CheckAppOwnership(t) \/ GetPackageInfo(t)
      PROVE  PackageFits'
  BY <1>0, <1>1, <1>5, <1>a DEF CheckAppOwnership, GetPackageInfo
<1>6. ASSUME NEW t \in Threads, Step(t) PROVE PackageFits'
  <2>1. CASE Apply(t)
    <3>1. CASE t = Watcher /\ ~initialized
      BY <2>1, <3>1 DEF Apply
    <3>2. CASE ~(t = Watcher /\ ~initialized)
      <4> SUFFICES ASSUME ~SyncOwed', intact'
                   PROVE  /\ config["apps"] \ Redist \subseteq Present("apps")'
                          /\ config["depots"] \subseteq Present("depots")'
                          /\ Present("apps")' \subseteq Native \cup DesiredApps
                          /\ Present("depots")' \subseteq Native \cup DesiredDepots
        BY <2>1 DEF Apply, DesiredApps, DesiredDepots
      <4>1. PICK grown \in [Kinds -> BOOLEAN] : ApplyDelta(want[t], grown)
        BY <2>1, <3>2 DEF Apply
      <4>2. want[t] \in IdSets
        BY <1>a
      <4>3. \A k \in Kinds : /\ want[t][k] \subseteq Present(k)'
                             /\ Present(k)' \subseteq Native \cup want[t][k]
        BY <4>1, <4>2, DeltaEffect DEF IInv
      <4>4. AppsFit(want[t]["apps"]) /\ DepotsFit(want[t]["depots"])
        <5>1. pc[t] = "apply"
          BY <2>1 DEF Apply
        <5>2. CASE t = Watcher
          BY <5>1, <5>2 DEF IInv, WatcherWants
        <5>3. CASE t # Watcher
          <6>1. pc'[Watcher] = pc[Watcher]
            BY <1>0, <1>a, <2>1, <5>3 DEF Apply
          <6>2. t \in SteamThreads /\ ~SyncOwed
            BY <5>3, <6>1 DEF Threads
          <6> QED
            BY <5>1, <6>2 DEF IInv, ClientWants
        <5> QED
          BY <5>2, <5>3
      <4> QED
        BY <4>3, <4>4 DEF AppsFit, DepotsFit, DesiredDepots, Kinds
    <3> QED
      BY <3>1, <3>2
  <2>2. CASE TryInit(t) \/ Acquire(t) \/ CollectDesiredAppIds(t) \/ CollectDesiredDepotIds(t)
    <3>1. SyncOwed' <=> SyncOwed
      BY <1>0, <1>a, <2>2 DEF TryInit, Acquire, CollectDesiredAppIds, CollectDesiredDepotIds
    <3> QED
      BY <1>1, <2>2, <3>1 DEF TryInit, Acquire, CollectDesiredAppIds, CollectDesiredDepotIds
  <2>3. CASE RaisePending(t) \/ NoteCapture(t) \/ TryProcess(t) \/ FinishProcess(t)
             \/ ClearPending(t)
    <3>1. SyncOwed' <=> SyncOwed
      BY <1>0, <1>a, <2>3 DEF RaisePending, NoteCapture, TryProcess, FinishProcess, ClearPending
    <3> QED
      BY <1>1, <2>3, <3>1 DEF RaisePending, NoteCapture, TryProcess, FinishProcess, ClearPending
  <2>4. ASSUME NEW i \in Ids, LookUp(t, i) PROVE PackageFits'
    BY <2>4, <1>1 DEF LookUp
  <2> QED
    BY <1>6, <2>1, <2>2, <2>3, <2>4 DEF Step
<1>7. CASE BecomeAvailable \/ DeliverCallback \/ UNCHANGED vars
  BY <1>1, <1>7 DEF BecomeAvailable, DeliverCallback, vars
<1> QED
  BY <1>2, <1>3, <1>4, <1>5, <1>6, <1>7 DEF Next

-----------------------------------------------------------------------------
(* The theorems. *)

\* Every reachable state satisfies the inductive invariant.
THEOREM Invariance == Spec => []IInv
<1>1. Init => IInv
  BY InitInvariant
<1>2. IInv /\ [Next]_vars => IInv'
  <2> SUFFICES ASSUME IInv, [Next]_vars PROVE IInv'
    OBVIOUS
  <2>1. TypeOK /\ NoDuplicateEntries /\ EntriesAreAccountedFor /\ Mutex /\ WatcherPlace
        /\ WatcherWants /\ ClientWants
    BY DEF IInv
  <2>2. TypeOK'
    BY <2>1, TypeStep
  <2>3. NoDuplicateEntries' /\ EntriesAreAccountedFor'
    BY <2>1, EntriesStep
  <2>4. Mutex' /\ WatcherPlace' /\ WatcherWants' /\ ClientWants'
    BY <2>1, MutexStep, WatcherPlaceStep, WatcherWantsStep, ClientWantsStep
  <2>5. PackageFits'
    BY PackageFitsStep
  <2> QED
    BY <2>2, <2>3, <2>4, <2>5 DEF IInv
<1> QED
  BY <1>1, <1>2, PTL DEF Spec

\* The state of the license code has its type in every reachable state.
THEOREM TypeCorrect == Spec => []TypeOK
BY Invariance, PTL DEF IInv

\* No reload, race of hook threads, failed append or rewrite by Steam makes an
\* id occur twice in AppIdVec or DepotIdVec.
THEOREM NeverDuplicated == Spec => []NoDuplicateEntries
BY Invariance, PTL DEF IInv

\* Every entry of Package 0 is Steam's own or in the injected set that the
\* skip-flag hook consults and the next delta removes from.
THEOREM AccountedFor == Spec => []EntriesAreAccountedFor
BY Invariance, PTL DEF IInv

\* While the watcher is idle Package 0 is what the configuration asks for.
THEOREM FollowsConfig == Spec => []PackageFollowsConfig
<1>1. IInv => PackageFollowsConfig
  BY DEF IInv, PackageFits, SyncOwed, PackageFollowsConfig
<1> QED
  BY <1>1, Invariance, PTL
=============================================================================
