------------------------ MODULE ManagerServiceProofs ------------------------
(***************************************************************************)
(* Proofs about ManagerService, for any processes, threads, games, depots  *)
(* and settings: listings are current, settings that were acknowledged     *)
(* stay, and generated scripts have the keys of one whole database.        *)
(***************************************************************************)
EXTENDS ManagerService, FiniteSetTheorems, TLAPS

-----------------------------------------------------------------------------
(* The depot key stores of the processes. *)

Depots == (UNION {Content[d] : d \in Dbs}) \cup Local

\* What a process has in its store, along its start.
StoreHolds(p) ==
  /\ phase[p] \in {"off", "start", "cold"} => records[p] = {}
  /\ phase[p] = "writing" => fetched[p] # NoDb /\ records[p] = Content[fetched[p]]
  /\ phase[p] = "import" => records[p] = {} \/ \E d \in Dbs : records[p] = Content[d]
  /\ phase[p] = "up" => records[p] = Local \/ \E d \in Dbs : records[p] = Content[d] \cup Local
  /\ update[p] \in {"apply", "writing"} => fetched[p] # NoDb
  /\ update[p] # "none" => phase[p] = "up"

DepotsHold ==
  /\ DepotTypeOK
  /\ records \in [Procs -> SUBSET Depots]
  /\ \A p \in Procs : StoreHolds(p)

LEMMA ContentIsDepots ==
  /\ \A d \in Dbs : Content[d] \subseteq Depots /\ (Content[d] \cup Local) \subseteq Depots
  /\ Local \subseteq Depots
<1>1. ASSUME NEW d \in Dbs, NEW n \in Content[d] PROVE n \in Depots
  BY <1>1 DEF Depots
<1>2. ASSUME NEW n \in Local PROVE n \in Depots
  BY <1>2 DEF Depots
<1> QED
  BY <1>1, <1>2

\* A file that is not whole counts as none.
LEMMA ParsedIsWhole ==
  ASSUME NEW d \in Dbs \cup {NoDb}, NEW whole \in BOOLEAN
  PROVE  /\ \/ ParseBinaryContent(d, whole) = {}
            \/ d \in Dbs /\ ParseBinaryContent(d, whole) = Content[d]
         /\ IsFiniteSet(ParseBinaryContent(d, whole))
<1>1. IsFiniteSet({})
  BY FS_EmptySet
<1> QED
  BY <1>1, DepotAssumption DEF ParseBinaryContent

LEMMA DepotsAtFirst == DepotInit => DepotsHold
<1> SUFFICES ASSUME DepotInit PROVE DepotsHold
  OBVIOUS
<1> USE DEF DepotInit
<1>1. 1 \in Dbs /\ 0 \in 0 .. MaxStarts
  BY DepotAssumption DEF Dbs
<1>2. DepotTypeOK
  BY <1>1 DEF DepotTypeOK
<1>3. records \in [Procs -> SUBSET Depots]
  OBVIOUS
<1>4. \A p \in Procs : StoreHolds(p)
  BY DEF StoreHolds
<1> QED
  BY <1>2, <1>3, <1>4 DEF DepotsHold

\* A step of one process: the others' stores are as they were.
LEMMA OthersStay ==
  ASSUME DepotsHold, NEW p \in Procs, NEW q \in Procs, q # p,
         phase'[q] = phase[q], records'[q] = records[q], fetched'[q] = fetched[q],
         update'[q] = update[q]
  PROVE  StoreHolds(q)'
BY DEF DepotsHold, StoreHolds

LEMMA StartKeepsDepots ==
  ASSUME DepotsHold, NEW p \in Procs, StartProcess(p)
  PROVE  DepotsHold'
<1> USE DEF StartProcess
<1>1. DepotTypeOK'
  <2>1. starts' \in 0 .. MaxStarts
    BY DepotAssumption DEF DepotsHold, DepotTypeOK
  <2> QED
    BY <2>1 DEF DepotsHold, DepotTypeOK
<1>2. records' \in [Procs -> SUBSET Depots]
  BY DEF DepotsHold
<1>3. ASSUME NEW q \in Procs PROVE StoreHolds(q)'
  BY OthersStay DEF DepotsHold, DepotTypeOK, StoreHolds
<1> QED
  BY <1>1, <1>2, <1>3 DEF DepotsHold

LEMMA InitializeKeepsDepots ==
  ASSUME DepotsHold, NEW p \in Procs, Initialize(p)
  PROVE  DepotsHold'
<1> DEFINE cached == ParseBinaryContent(cacheDb, cacheWhole)
           local  == IF cached # {} THEN cached ELSE ParseBinaryContent(Sibling[p], TRUE)
<1>1. /\ phase[p] = "start"
      /\ localCount' = [localCount EXCEPT ![p] = Cardinality(local)]
      /\ IF local # {}
         THEN /\ records' = [records EXCEPT ![p] = local \cup Local]
              /\ phase' = [phase EXCEPT ![p] = "up"] /\ update' = [update EXCEPT ![p] = "fetch"]
         ELSE phase' = [phase EXCEPT ![p] = "cold"] /\ records' = records /\ update' = update
      /\ published' = published /\ cacheDb' = cacheDb /\ cacheWhole' = cacheWhole
      /\ fetched' = fetched /\ starts' = starts
  BY DEF Initialize, ImportKeysFromConfigVdf
<1>2. (local = {} \/ \E d \in Dbs : local = Content[d]) /\ IsFiniteSet(local)
  BY ParsedIsWhole, DepotAssumption DEF DepotsHold, DepotTypeOK
<1> HIDE DEF local
<1>3. Cardinality(local) \in Nat
  BY <1>2, FS_CardinalityType
<1>4. DepotTypeOK'
  BY <1>1, <1>3 DEF DepotsHold, DepotTypeOK
<1>5. records' \in [Procs -> SUBSET Depots]
  BY <1>1, <1>2, ContentIsDepots DEF DepotsHold
<1>6. ASSUME NEW q \in Procs PROVE StoreHolds(q)'
  <2>1. CASE q # p
    BY <1>1, <2>1, OthersStay DEF DepotsHold, DepotTypeOK
  <2>2. CASE q = p /\ local # {}
    BY <1>1, <1>2, <2>2 DEF DepotsHold, DepotTypeOK, StoreHolds
  <2>3. CASE q = p /\ local = {}
    BY <1>1, <2>3 DEF DepotsHold, DepotTypeOK, StoreHolds
  <2> QED
    BY <2>1, <2>2, <2>3
<1> QED
  BY <1>4, <1>5, <1>6 DEF DepotsHold

LEMMA ColdStartKeepsDepots ==
  ASSUME DepotsHold, NEW p \in Procs, ColdStart(p)
  PROVE  DepotsHold'
<1> USE DEF WriteBegins, WriteEnds, ImportKeysFromConfigVdf
<1>1. CASE /\ phase[p] = "cold" /\ phase' = [phase EXCEPT ![p] = "writing"]
           /\ records' = [records EXCEPT ![p] = Content[published]]
           /\ fetched' = [fetched EXCEPT ![p] = published] /\ WriteBegins(published)
  <2>1. DepotTypeOK'
    BY <1>1 DEF ColdStart, DepotsHold, DepotTypeOK
  <2>2. records' \in [Procs -> SUBSET Depots]
    BY <1>1, ContentIsDepots DEF DepotsHold, DepotTypeOK
  <2>3. ASSUME NEW q \in Procs PROVE StoreHolds(q)'
    <3>1. published # NoDb /\ update' = update
      BY DEF ColdStart, DepotsHold, DepotTypeOK, Dbs, NoDb
    <3> QED
      BY <1>1, <3>1, OthersStay DEF DepotsHold, DepotTypeOK, StoreHolds
  <2> QED
    BY <2>1, <2>2, <2>3 DEF DepotsHold
<1>2. CASE /\ phase[p] = "cold" /\ phase' = [phase EXCEPT ![p] = "import"]
           /\ records' \in {records, [records EXCEPT ![p] = Content[published]]}
           /\ UNCHANGED <<fetched, cacheDb, cacheWhole>>
  <2>1. DepotTypeOK'
    BY <1>2 DEF ColdStart, DepotsHold, DepotTypeOK
  <2>2. published \in Dbs /\ update' = update
    BY DEF ColdStart, DepotsHold, DepotTypeOK
  <2>3. records' \in [Procs -> SUBSET Depots]
    BY <1>2, <2>2, ContentIsDepots DEF DepotsHold
  <2>4. ASSUME NEW q \in Procs PROVE StoreHolds(q)'
    BY <1>2, <2>2, OthersStay DEF DepotsHold, DepotTypeOK, StoreHolds
  <2> QED
    BY <2>1, <2>3, <2>4 DEF DepotsHold
<1>3. CASE /\ phase[p] = "writing" /\ phase' = [phase EXCEPT ![p] = "import"]
           /\ WriteEnds(fetched[p]) /\ fetched' = [fetched EXCEPT ![p] = NoDb]
           /\ UNCHANGED records
  <2>1. fetched[p] \in Dbs /\ records[p] = Content[fetched[p]]
    BY <1>3 DEF DepotsHold, DepotTypeOK, StoreHolds
  <2>2. DepotTypeOK' /\ records' \in [Procs -> SUBSET Depots]
    BY <1>3, <2>1 DEF ColdStart, DepotsHold, DepotTypeOK
  <2>3. ASSUME NEW q \in Procs PROVE StoreHolds(q)'
    BY <1>3, <2>1, OthersStay DEF ColdStart, DepotsHold, DepotTypeOK, StoreHolds
  <2> QED
    BY <2>2, <2>3 DEF DepotsHold
<1>4. CASE /\ phase[p] = "import" /\ phase' = [phase EXCEPT ![p] = "up"]
           /\ records' = [records EXCEPT ![p] = ImportKeysFromConfigVdf(@)]
           /\ UNCHANGED <<fetched, cacheDb, cacheWhole>>
  <2>1. records[p] = {} \/ \E d \in Dbs : records[p] = Content[d]
    BY <1>4 DEF DepotsHold, StoreHolds
  <2>2. records' = [records EXCEPT ![p] = records[p] \cup Local]
    BY <1>4
  <2>3. DepotTypeOK' /\ records' \in [Procs -> SUBSET Depots]
    BY <1>4, <2>2, ContentIsDepots DEF ColdStart, DepotsHold, DepotTypeOK
  <2>4. ASSUME NEW q \in Procs PROVE StoreHolds(q)'
    <3>1. CASE q # p
      BY <1>4, <2>2, <3>1, OthersStay DEF ColdStart, DepotsHold, DepotTypeOK
    <3>2. CASE q = p
      <4>1. records'[p] = records[p] \cup Local /\ phase'[p] = "up" /\ update' = update
        BY <1>4, <2>2 DEF ColdStart, DepotsHold, DepotTypeOK
      <4>2. records'[p] = Local \/ \E d \in Dbs : records'[p] = Content[d] \cup Local
        BY <2>1, <4>1
      <4>3. update[p] = "none"
        BY <1>4 DEF DepotsHold, StoreHolds
      <4> QED
        BY <3>2, <4>1, <4>2, <4>3 DEF StoreHolds
    <3> QED
      BY <3>1, <3>2
  <2> QED
    BY <2>3, <2>4 DEF DepotsHold
<1> QED
  BY <1>1, <1>2, <1>3, <1>4 DEF ColdStart

LEMMA UpdateKeepsDepots ==
  ASSUME DepotsHold, NEW p \in Procs, Fetch(p) \/ Apply(p)
  PROVE  DepotsHold'
<1> USE DEF WriteBegins, WriteEnds, UpdateGoes
<1>1. CASE Fetch(p)
  <2>1. DepotTypeOK' /\ records' \in [Procs -> SUBSET Depots]
    BY <1>1 DEF Fetch, DepotsHold, DepotTypeOK
  <2>2. published # NoDb
    BY DEF DepotsHold, DepotTypeOK, Dbs, NoDb
  <2>3. ASSUME NEW q \in Procs PROVE StoreHolds(q)'
    BY <1>1, <2>2, OthersStay DEF Fetch, DepotsHold, DepotTypeOK, StoreHolds
  <2> QED
    BY <2>1, <2>3 DEF DepotsHold
<1>2. CASE Apply(p)
  <2>1. fetched[p] \in Dbs /\ phase[p] = "up"
    BY <1>2 DEF Apply, DepotsHold, DepotTypeOK, StoreHolds
  <2>2. /\ \/ update' \in {[update EXCEPT ![p] = "writing"], [update EXCEPT ![p] = "none"]}
              /\ records' = [records EXCEPT ![p] = Content[fetched[p]] \cup Local]
              /\ fetched' = fetched
           \/ update' = [update EXCEPT ![p] = "none"] /\ records' = records
              /\ fetched' = [fetched EXCEPT ![p] = NoDb]
        /\ cacheDb' \in {cacheDb, fetched[p]} /\ cacheWhole' \in BOOLEAN
        /\ published' = published /\ phase' = phase /\ localCount' = localCount
        /\ starts' = starts
    BY <1>2 DEF Apply, ImportKeysFromConfigVdf, DepotsHold, DepotTypeOK
  <2>3. DepotTypeOK'
    BY <2>1, <2>2 DEF DepotsHold, DepotTypeOK
  <2>4. records' \in [Procs -> SUBSET Depots]
    BY <2>1, <2>2, ContentIsDepots DEF DepotsHold
  <2>5. ASSUME NEW q \in Procs PROVE StoreHolds(q)'
    <3>1. CASE q # p
      BY <2>2, <3>1, OthersStay DEF DepotsHold, DepotTypeOK
    <3>2. CASE q = p
      BY <2>1, <2>2, <3>2 DEF DepotsHold, DepotTypeOK, StoreHolds, NoDb, Dbs
    <3> QED
      BY <3>1, <3>2
  <2> QED
    BY <2>3, <2>4, <2>5 DEF DepotsHold
<1> QED
  BY <1>1, <1>2

LEMMA DepotStepKeepsDepots ==
  ASSUME DepotsHold, DepotStep
  PROVE  DepotsHold'
<1>1. CASE Publish
  <2>1. DepotTypeOK' /\ records' \in [Procs -> SUBSET Depots]
    BY <1>1, DepotAssumption DEF Publish, DepotsHold, DepotTypeOK, Dbs
  <2>2. ASSUME NEW q \in Procs PROVE StoreHolds(q)'
    BY <1>1 DEF Publish, DepotsHold, StoreHolds
  <2> QED
    BY <2>1, <2>2 DEF DepotsHold
<1> QED
  BY <1>1, StartKeepsDepots, InitializeKeepsDepots, ColdStartKeepsDepots, UpdateKeepsDepots
  DEF DepotStep

LEMMA ExitKeepsDepots ==
  ASSUME DepotsHold, NEW p \in Procs, EndProcess(p)
  PROVE  DepotsHold'
<1> USE DEF EndProcess
<1>1. DepotTypeOK' /\ records' \in [Procs -> SUBSET Depots]
  BY DEF DepotsHold, DepotTypeOK
<1>2. ASSUME NEW q \in Procs PROVE StoreHolds(q)'
  BY OthersStay DEF DepotsHold, DepotTypeOK, StoreHolds
<1> QED
  BY <1>1, <1>2 DEF DepotsHold

LEMMA DepotsStay ==
  ASSUME DepotsHold, UNCHANGED depotVars
  PROVE  DepotsHold'
<1>1. DepotTypeOK' /\ records' \in [Procs -> SUBSET Depots]
  BY DEF DepotsHold, DepotTypeOK, depotVars
<1>2. ASSUME NEW q \in Procs PROVE StoreHolds(q)'
  BY DEF DepotsHold, StoreHolds, depotVars
<1> QED
  BY <1>1, <1>2 DEF DepotsHold

-----------------------------------------------------------------------------
(* Where the threads are. *)

Stages == Kinds \cup {"idle", "look", "store", "open", "drop", "close", "forget"} \cup Configuring

ThreadsHold ==
  /\ at \in [Threads -> Stages] /\ served \in 0 .. MaxRequests
  /\ game \in [Threads -> Games \cup {NoName}] /\ keys \in [Threads -> SUBSET Depots]
  /\ \A t \in Threads : at[t] \in {"open", "drop", "close"} => game[t] \in Games
  /\ \A t \in Threads : at[t] \in Configuring \cup {"config"} => In[t] = Daemon

LEMMA Moves ==
  ASSUME ThreadsHold, NEW t \in Threads, NEW from, NEW to, Goes(t, from, to)
  PROVE  /\ at[t] = from /\ at'[t] = to /\ at' = [at EXCEPT ![t] = to]
         /\ \A u \in Threads : u # t => at'[u] = at[u]
BY DEF Goes, ThreadsHold

\* A step of thread t, whatever it does, or the end of its process.
LEMMA NextThreads ==
  ASSUME ThreadsHold, DepotsHold, Next
  PROVE  ThreadsHold'
<1> USE DEF ThreadsHold, Goes, Stages, Kinds, Configuring
<1>1. ASSUME NEW t \in Threads, AcceptRequest(t) PROVE ThreadsHold'
  <2>1. served' \in 0 .. MaxRequests
    BY <1>1, ServiceAssumption DEF AcceptRequest
  <2> QED
    BY <1>1, <2>1 DEF AcceptRequest
<1>2. ASSUME NEW t \in Threads, RunCommand(t) PROVE ThreadsHold'
  <2>1. served' \in 0 .. MaxRequests
    BY <1>2, ServiceAssumption DEF RunCommand
  <2> QED
    BY <1>2, <2>1 DEF RunCommand
<1>3. ASSUME NEW t \in Threads, ListScripts(t) PROVE ThreadsHold'
  BY <1>3 DEF ListScripts
<1>4. ASSUME NEW t \in Threads, Unlock(t) PROVE ThreadsHold'
  <2>1. served' = served
    BY <1>4 DEF Unlock
  <2>2. CASE /\ at[t] = "unlock" /\ at' = [at EXCEPT ![t] = "open"]
             /\ \E g \in Games \ Nested :
                  /\ game' = [game EXCEPT ![t] = g]
                  /\ keys' = [keys EXCEPT ![t] = FindKeysForDepotIds(In[t], AppDepots[g])]
    <3>1. PICK g \in Games \ Nested :
            /\ game' = [game EXCEPT ![t] = g]
            /\ keys' = [keys EXCEPT ![t] = FindKeysForDepotIds(In[t], AppDepots[g])]
      BY <2>2
    <3>2. In[t] \in Procs
      BY ListAssumption, ServiceAssumption
    <3>3. FindKeysForDepotIds(In[t], AppDepots[g]) \in SUBSET Depots
      BY <3>2 DEF FindKeysForDepotIds, DepotsHold
    <3> QED
      BY <2>1, <2>2, <3>1, <3>3
  <2>3. CASE /\ game' = game /\ keys' = keys
             /\ \/ at[t] = "open" /\ at' = [at EXCEPT ![t] = "drop"]
                \/ at[t] = "drop" /\ at' = [at EXCEPT ![t] = "close"]
    BY <2>1, <2>3
  <2>4. CASE /\ game' = [game EXCEPT ![t] = NoName] /\ keys' = [keys EXCEPT ![t] = {}]
             /\ at' = [at EXCEPT ![t] = "idle"]
    BY <2>1, <2>4
  <2> QED
    BY <1>4, <2>2, <2>3, <2>4 DEF Unlock
<1>5. ASSUME NEW t \in Threads, Change(t) PROVE ThreadsHold'
  BY <1>5 DEF Change
<1>6. ASSUME NEW t \in Threads, Configure(t) PROVE ThreadsHold'
  BY <1>6 DEF Configure
<1>7. ASSUME NEW p \in Procs, Exit(p) PROVE ThreadsHold'
  BY <1>7 DEF Exit
<1>8. CASE StoreStep
  BY <1>8 DEF StoreStep
<1> QED
  BY <1>1, <1>2, <1>3, <1>4, <1>5, <1>6, <1>7, <1>8 DEF Next

-----------------------------------------------------------------------------
(* The settings. *)

Settings == [Fields -> Values]

\* As long as no two requests to change settings overlap and no write fails: one
\* thread at most writes to the temporary file, that file ends up with the
\* settings of this thread, and these are what was promised, changed; the
\* settings are what was promised, but while the temporary file is copied.
OneAtATime ==
  /\ (\A t \in Savers : opened[t] # "copy") =>
       ReadConfig = promised /\ conf.is \in {"missing", "whole"}
  /\ \A t, u \in Savers : at[t] \in Configuring /\ at[u] \in Configuring => t = u
  /\ \A t \in Savers :
       /\ opened[t] = "none" <=> at[t] \notin {"write", "copy"}
       /\ at[t] = "write" => opened[t] = "tmp" /\ tmp = Blank
       /\ at[t] \in {"rename", "copy"} => tmp = Whole(dto[t])
       /\ at[t] = "copy" => opened[t] = "copy" /\ conf = Blank
       /\ at[t] \in Configuring => dto[t] = Changed(promised, asked[t])

SettingsHold ==
  /\ opened \in [Savers -> {"none", "conf", "tmp", "copy"}]
  /\ dto \in [Savers -> Settings] /\ asked \in [Savers -> Changes]
  /\ crossed \in BOOLEAN /\ hurt \in BOOLEAN
  /\ conf.settings \in Settings /\ tmp.settings \in Settings
  /\ ~crossed /\ ~hurt => OneAtATime

LEMMA ChangedIsSettings ==
  ASSUME NEW s \in Settings, NEW c \in Changes
  PROVE  Changed(s, c) \in Settings
<1>1. CASE c = <<>>
  BY <1>1 DEF Changed
<1>2. CASE c # <<>>
  <2>1. c \in Fields \X Values
    BY <1>2 DEF Changes
  <2> QED
    BY <1>2, <2>1 DEF Changed, Settings
<1> QED
  BY <1>1, <1>2

LEMMA ReadIsSettings == SettingsHold => ReadConfig \in Settings
BY ConfigAssumption DEF SettingsHold, ReadConfig, Settings

LEMMA TextsAreTexts ==
  /\ \A s \in Settings : Whole(s).settings = s /\ Whole(s).is = "whole" /\ Whole(s) # Missing
  /\ \A s \in Settings : \A x \in Cuts(s) : x.settings \in Settings
  /\ \A x \in {Missing, Blank, Garbled} : x.settings \in Settings
  /\ Missing.settings = Default /\ Missing.is = "missing"
<1>1. \A s \in Settings : Whole(s).settings = s /\ Whole(s).is = "whole" /\ Whole(s) # Missing
  BY DEF Whole, Missing, Text
<1>2. ASSUME NEW s \in Settings, NEW x \in Cuts(s) PROVE x.settings \in Settings
  <2>1. PICK kept \in SUBSET Fields :
          x = Text("cut", [f \in Fields |-> IF f \in kept THEN s[f] ELSE Default[f]])
    BY <1>2 DEF Cuts
  <2>2. x.settings = [f \in Fields |-> IF f \in kept THEN s[f] ELSE Default[f]]
    BY <2>1 DEF Text
  <2> QED
    BY <2>2, ConfigAssumption DEF Settings
<1>3. \A x \in {Missing, Blank, Garbled} : x.settings \in Settings
  BY ConfigAssumption DEF Missing, Blank, Garbled, Text, Settings
<1>4. Missing.settings = Default /\ Missing.is = "missing"
  BY DEF Missing, Text
<1> QED
  BY <1>1, <1>2, <1>3, <1>4

LEMMA SettingsAtFirst ==
  ASSUME ConfigInit, at = [t \in Threads |-> "idle"]
  PROVE  SettingsHold
<1> USE DEF ConfigInit
<1>1. \A t \in Savers : at[t] = "idle"
  BY ServiceAssumption
<1>2. Default \in Settings /\ <<>> \in Changes
  BY ConfigAssumption DEF Settings, Changes
<1>3. conf.is = "missing" /\ conf.settings = Default /\ tmp.settings = Default
  BY TextsAreTexts
<1>4. OneAtATime
  BY <1>1, <1>3 DEF OneAtATime, Configuring, ReadConfig
<1> QED
  BY <1>2, <1>3, <1>4 DEF SettingsHold

\* Steps of other requests: they do not enter the stages of this one.
LEMMA SettingsStayed ==
  ASSUME SettingsHold, UNCHANGED configVars,
         \A t \in Savers : at'[t] = at[t] \/ (at'[t] \notin Configuring /\ at[t] \notin Configuring)
  PROVE  SettingsHold'
<1> USE DEF configVars
<1>1. CASE crossed \/ hurt
  BY <1>1 DEF SettingsHold
<1>2. CASE ~crossed /\ ~hurt
  <2>1. OneAtATime
    BY <1>2 DEF SettingsHold
  <2>2. ReadConfig' = ReadConfig
    BY DEF ReadConfig
  <2>3. OneAtATime'
    BY <2>1, <2>2 DEF OneAtATime, Configuring
  <2> QED
    BY <2>3 DEF SettingsHold
<1> QED
  BY <1>1, <1>2

\* The end of a request, with the settings as promised or excused.
LEMMA ChangeEnds ==
  ASSUME SettingsHold, ThreadsHold, NEW t \in Savers, at[t] \in Configuring,
         at' = [at EXCEPT ![t] = "idle"], EndsChange(t),
         opened' \in [Savers -> {"none", "conf", "tmp", "copy"}],
         crossed' = crossed, hurt' \in {hurt, TRUE},
         conf'.settings \in Settings, tmp'.settings \in Settings,
         ~crossed /\ ~hurt' =>
           /\ ReadConfig' = promised' /\ conf'.is \in {"missing", "whole"}
           /\ \A u \in Savers : opened'[u] = "none"
  PROVE  SettingsHold'
<1>1. /\ dto' \in [Savers -> Settings] /\ asked' \in [Savers -> Changes]
  BY ConfigAssumption DEF SettingsHold, EndsChange, Settings, Changes
<1>2. ASSUME ~crossed', ~hurt' PROVE OneAtATime'
  <2>1. OneAtATime
    BY <1>2 DEF SettingsHold
  <2>2. \A u \in Savers : at'[u] \notin Configuring
    BY <2>1, ServiceAssumption DEF OneAtATime, ThreadsHold, Configuring
  <2> QED
    BY <1>2, <2>2 DEF OneAtATime, Configuring
<1> QED
  BY <1>1, <1>2 DEF SettingsHold

\* The steps of a request to change settings, up to its last.
LEMMA ChangeGoesOn ==
  ASSUME SettingsHold, ThreadsHold, NEW t \in Savers, NEW to \in Configuring,
         at' = [at EXCEPT ![t] = to],
         \/ at[t] \in Configuring /\ UNCHANGED <<dto, asked, crossed>>
         \/ \E c \in Changes : BeginChange(t, c, \A u \in Savers : at[u] \notin Configuring),
         \E o \in {"none", "tmp", "copy"} : opened' = [opened EXCEPT ![t] = o],
         promised' = promised, hurt' \in {hurt, TRUE},
         conf'.settings \in Settings, tmp'.settings \in Settings,
         ~crossed' /\ ~hurt' =>
           /\ opened'[t] # "copy" => conf' = conf /\ opened[t] # "copy"
           /\ opened'[t] = "none" <=> to \notin {"write", "copy"}
           /\ to = "write" => opened'[t] = "tmp" /\ tmp' = Blank
           /\ to \in {"rename", "copy"} => tmp' = Whole(dto'[t])
           /\ to = "copy" => opened'[t] = "copy" /\ conf' = Blank
  PROVE  SettingsHold'
<1>1. Savers \subseteq Threads
  BY ServiceAssumption
<1>2. /\ dto' \in [Savers -> Settings] /\ asked' \in [Savers -> Changes]
      /\ crossed' \in BOOLEAN /\ (~crossed' => ~crossed)
  <2>1. CASE UNCHANGED <<dto, asked, crossed>>
    BY <2>1 DEF SettingsHold
  <2>2. ASSUME NEW c \in Changes, BeginChange(t, c, \A u \in Savers : at[u] \notin Configuring)
        PROVE  /\ dto' \in [Savers -> Settings] /\ asked' \in [Savers -> Changes]
               /\ crossed' \in BOOLEAN /\ (~crossed' => ~crossed)
    BY <2>2, ReadIsSettings, ChangedIsSettings DEF BeginChange, SettingsHold
  <2> QED
    BY <2>1, <2>2
<1>3. ASSUME ~crossed', ~hurt' PROVE OneAtATime'
  <2>1. OneAtATime
    BY <1>2, <1>3 DEF SettingsHold
  <2>2. /\ at'[t] = to /\ \A u \in Savers : u # t => at'[u] = at[u] /\ opened'[u] = opened[u]
    BY <1>1 DEF ThreadsHold, SettingsHold
  <2>3. \A u \in Savers : u # t => at[u] \notin Configuring
    <3>1. CASE at[t] \in Configuring
      BY <2>1, <3>1 DEF OneAtATime
    <3>2. ASSUME NEW c \in Changes, BeginChange(t, c, \A u \in Savers : at[u] \notin Configuring)
          PROVE  \A u \in Savers : u # t => at[u] \notin Configuring
      BY <1>3, <3>2 DEF BeginChange
    <3> QED
      BY <3>1, <3>2
  <2>4. \A u \in Savers : u # t => at'[u] \notin Configuring /\ opened'[u] = "none"
    BY <2>1, <2>2, <2>3 DEF OneAtATime, Configuring
  <2>5. dto'[t] = Changed(promised', asked'[t])
    <3>1. CASE at[t] \in Configuring /\ UNCHANGED <<dto, asked, crossed>>
      BY <2>1, <3>1 DEF OneAtATime
    <3>2. ASSUME NEW c \in Changes, BeginChange(t, c, \A u \in Savers : at[u] \notin Configuring)
          PROVE  dto'[t] = Changed(promised', asked'[t])
      <4>1. \A u \in Savers : at[u] \notin Configuring
        BY <1>3, <3>2 DEF BeginChange
      <4>2. \A u \in Savers : opened[u] = "none"
        BY <2>1, <4>1 DEF OneAtATime, Configuring
      <4>3. ReadConfig = promised
        BY <2>1, <4>2 DEF OneAtATime
      <4> QED
        BY <3>2, <4>3 DEF BeginChange, SettingsHold
    <3> QED
      BY <3>1, <3>2
  <2>6. (\A u \in Savers : opened'[u] # "copy") =>
          ReadConfig' = promised' /\ conf'.is \in {"missing", "whole"}
    <3>1. \A u \in Savers : u # t => opened[u] # "copy"
      BY <2>2, <2>4
    <3>2. ASSUME opened'[t] # "copy"
          PROVE  ReadConfig' = promised' /\ conf'.is \in {"missing", "whole"}
      <4>1. conf' = conf /\ \A u \in Savers : opened[u] # "copy"
        BY <1>3, <3>1, <3>2
      <4> QED
        BY <2>1, <4>1 DEF OneAtATime, ReadConfig
    <3> QED
      BY <3>2
  <2>7. \A u, v \in Savers : at'[u] \in Configuring /\ at'[v] \in Configuring => u = v
    BY <2>4
  <2>8. ASSUME NEW u \in Savers
        PROVE  /\ opened'[u] = "none" <=> at'[u] \notin {"write", "copy"}
               /\ at'[u] = "write" => opened'[u] = "tmp" /\ tmp' = Blank
               /\ at'[u] \in {"rename", "copy"} => tmp' = Whole(dto'[u])
               /\ at'[u] = "copy" => opened'[u] = "copy" /\ conf' = Blank
               /\ at'[u] \in Configuring => dto'[u] = Changed(promised', asked'[u])
    <3>1. CASE u = t
      BY <1>3, <2>2, <2>5, <3>1
    <3>2. CASE u # t
      BY <2>4, <3>2 DEF Configuring
    <3> QED
      BY <3>1, <3>2
  <2>9. \A x, c : Changed(x, c)' = Changed(x, c)
    BY DEF Changed
  <2> QED
    BY <2>6, <2>7, <2>8 DEF OneAtATime
<1>4. opened' \in [Savers -> {"none", "conf", "tmp", "copy"}]
  BY DEF SettingsHold
<1>5. hurt' \in BOOLEAN
  BY DEF SettingsHold
<1> QED
  BY <1>2, <1>3, <1>4, <1>5 DEF SettingsHold

LEMMA ConfigureKeepsSettings ==
  ASSUME SettingsHold, ThreadsHold, NEW t \in Threads, Configure(t)
  PROVE  SettingsHold'
<1>1. t \in Savers
  <2>1. at[t] \in Configuring \cup {"config"}
    BY DEF Configure, Goes, Configuring
  <2> QED
    BY <2>1, ServiceAssumption DEF ThreadsHold
<1>2. dto[t] \in Settings /\ conf.settings \in Settings /\ tmp.settings \in Settings
  BY <1>1 DEF SettingsHold
<1>3. (~crossed /\ ~hurt) => OneAtATime
  BY DEF SettingsHold
<1>4. ASSUME Goes(t, "config", "temp"), NEW c \in Changes,
             BeginChange(t, c, \A u \in Savers : at[u] \notin Configuring)
      PROVE  SettingsHold'
  <2>1. /\ conf' = conf /\ tmp' = tmp /\ opened' = opened /\ promised' = promised /\ hurt' = hurt
        /\ crossed' = (crossed \/ ~\A u \in Savers : at[u] \notin Configuring)
    BY <1>4 DEF BeginChange
  <2>2. at[t] = "config" /\ at' = [at EXCEPT ![t] = "temp"] /\ "temp" \in Configuring
    BY <1>4 DEF Goes, Configuring
  <2>3. \/ opened[t] = "none"
        \/ crossed \/ hurt
    BY <1>1, <1>3, <2>2 DEF OneAtATime
  <2>4. CASE opened[t] = "none"
    <3>1. opened' = [opened EXCEPT ![t] = "none"]
      BY <2>1, <2>4 DEF SettingsHold
    <3> QED
      BY <1>1, <1>2, <1>4, <2>1, <2>2, <2>4, <3>1, ChangeGoesOn
  <2>5. CASE crossed \/ hurt
    <3>1. dto' \in [Savers -> Settings] /\ asked' \in [Savers -> Changes]
      BY <1>4, ReadIsSettings, ChangedIsSettings DEF BeginChange, SettingsHold
    <3>2. crossed' \in BOOLEAN
      BY <2>1 DEF SettingsHold
    <3> QED
      BY <2>1, <2>5, <3>1, <3>2 DEF SettingsHold
  <2> QED
    BY <2>3, <2>4, <2>5
<1>5. CASE Goes(t, "temp", "write") /\ OpenTemp(t)
  <2>1. /\ tmp' = Blank /\ opened' = [opened EXCEPT ![t] = "tmp"] /\ conf' = conf
        /\ dto' = dto /\ asked' = asked /\ promised' = promised /\ crossed' = crossed
        /\ hurt' = hurt
    BY <1>5 DEF OpenTemp
  <2>2. /\ at[t] = "temp" /\ at' = [at EXCEPT ![t] = "write"]
        /\ "write" \in Configuring /\ "temp" \in Configuring
    BY <1>5 DEF Goes, Configuring
  <2>3. opened'[t] = "tmp" /\ tmp'.settings \in Settings
    BY <1>1, <2>1, TextsAreTexts DEF SettingsHold
  <2>4. (~crossed /\ ~hurt) => opened[t] # "copy"
    BY <1>1, <1>3, <2>2 DEF OneAtATime
  <2> QED
    BY <1>1, <1>2, <2>1, <2>2, <2>3, <2>4, ChangeGoesOn
<1>6. CASE Goes(t, "temp", "idle") /\ CannotOpen(t)
  <2>1. /\ EndsChange(t) /\ UNCHANGED <<conf, tmp, opened, promised, crossed, hurt>>
    BY <1>6 DEF CannotOpen
  <2>2. at[t] = "temp" /\ at' = [at EXCEPT ![t] = "idle"] /\ "temp" \in Configuring
    BY <1>6 DEF Goes, Configuring
  <2>3. ASSUME ~crossed, ~hurt
        PROVE  /\ ReadConfig' = promised' /\ conf'.is \in {"missing", "whole"}
               /\ \A u \in Savers : opened'[u] = "none"
    <3>1. \A u \in Savers : opened[u] = "none"
      BY <1>1, <1>3, <2>2, <2>3 DEF OneAtATime, Configuring
    <3> QED
      BY <1>3, <2>1, <2>3, <3>1 DEF OneAtATime, ReadConfig
  <2>4. opened' \in [Savers -> {"none", "conf", "tmp", "copy"}]
    BY <2>1 DEF SettingsHold
  <2> QED
    BY <1>1, <1>2, <2>1, <2>2, <2>3, <2>4, ChangeEnds
<1>7. CASE Goes(t, "write", "rename") /\ Write(t)
  <2>1. /\ opened' = [opened EXCEPT ![t] = "none"] /\ hurt' \in {hurt, TRUE}
        /\ dto' = dto /\ asked' = asked /\ promised' = promised /\ crossed' = crossed
        /\ conf' \in {conf} \cup Over(conf, dto[t]) \cup Cuts(dto[t])
        /\ tmp' \in {tmp} \cup Over(tmp, dto[t]) \cup Cuts(dto[t])
        /\ hurt' = TRUE \/
             /\ conf' \in (IF opened[t] = "conf" THEN Over(conf, dto[t]) ELSE {conf})
             /\ tmp' \in (IF opened[t] = "tmp" THEN Over(tmp, dto[t]) ELSE {tmp})
    BY <1>7 DEF Write
  <2>2. /\ at[t] = "write" /\ at' = [at EXCEPT ![t] = "rename"]
        /\ "rename" \in Configuring /\ "write" \in Configuring
    BY <1>7 DEF Goes, Configuring
  <2>3. conf'.settings \in Settings /\ tmp'.settings \in Settings
    <3>1. \A x \in Over(conf, dto[t]) \cup Over(tmp, dto[t]) \cup Cuts(dto[t]) :
            x.settings \in Settings
      BY <1>2, TextsAreTexts DEF Over
    <3> QED
      BY <1>2, <2>1, <3>1
  <2>4. opened'[t] = "none"
    BY <1>1, <2>1 DEF SettingsHold
  <2>5. ASSUME ~crossed, ~hurt' PROVE opened[t] # "copy" /\ conf' = conf /\ tmp' = Whole(dto[t])
    <3>1. OneAtATime
      <4>1. ~hurt
        BY <2>1, <2>5
      <4> QED
        BY <1>3, <2>5, <4>1
    <3>2. opened[t] = "tmp" /\ tmp = Blank
      BY <1>1, <2>2, <3>1 DEF OneAtATime
    <3>3. Over(tmp, dto[t]) = {Whole(dto[t])}
      BY <3>2 DEF Over, Blank, Text
    <3> QED
      BY <2>1, <2>5, <3>2, <3>3
  <2> QED
    BY <1>1, <1>2, <2>1, <2>2, <2>3, <2>4, <2>5, ChangeGoesOn
<1>8. CASE Goes(t, "rename", "idle") /\ RenameTemp(t)
  <2>1. /\ conf' = tmp /\ tmp' = Missing /\ promised' = Changed(promised, asked[t])
        /\ opened' = [u \in Savers |-> IF opened[u] = "tmp" THEN "conf"
                                       ELSE IF opened[u] \in {"conf", "copy"} THEN "none"
                                       ELSE opened[u]]
        /\ EndsChange(t) /\ UNCHANGED <<crossed, hurt>>
    BY <1>8 DEF RenameTemp
  <2>2. at[t] = "rename" /\ at' = [at EXCEPT ![t] = "idle"] /\ "rename" \in Configuring
    BY <1>8 DEF Goes, Configuring
  <2>3. ASSUME ~crossed, ~hurt
        PROVE  /\ ReadConfig' = promised' /\ conf'.is \in {"missing", "whole"}
               /\ \A u \in Savers : opened'[u] = "none"
    <3>1. \A u \in Savers : opened[u] = "none"
      BY <1>1, <1>3, <2>2, <2>3 DEF OneAtATime, Configuring
    <3>2. tmp = Whole(dto[t]) /\ dto[t] = Changed(promised, asked[t])
      BY <1>1, <1>3, <2>2, <2>3 DEF OneAtATime
    <3>3. conf' = Whole(dto[t]) /\ promised' = dto[t]
      BY <2>1, <3>2
    <3> QED
      BY <1>2, <2>1, <3>1, <3>3, TextsAreTexts DEF ReadConfig
  <2>4. opened' \in [Savers -> {"none", "conf", "tmp", "copy"}]
    BY <2>1 DEF SettingsHold
  <2>5. tmp'.settings \in Settings /\ conf'.settings \in Settings
    BY <1>2, <2>1, TextsAreTexts
  <2> QED
    BY <1>1, <2>1, <2>2, <2>3, <2>4, <2>5, ChangeEnds
<1>9. CASE Goes(t, "rename", "idle") /\ CannotSave(t)
  <2>1. /\ tmp = Missing /\ EndsChange(t) /\ UNCHANGED <<conf, tmp, opened, promised, crossed, hurt>>
    BY <1>9 DEF CannotSave
  <2>2. at[t] = "rename" /\ at' = [at EXCEPT ![t] = "idle"] /\ "rename" \in Configuring
    BY <1>9 DEF Goes, Configuring
  <2>3. crossed \/ hurt
    BY <1>1, <1>2, <1>3, <2>1, <2>2, TextsAreTexts DEF OneAtATime
  <2>4. opened' \in [Savers -> {"none", "conf", "tmp", "copy"}]
    BY <2>1 DEF SettingsHold
  <2> QED
    BY <1>1, <1>2, <2>1, <2>2, <2>3, <2>4, ChangeEnds
<1>10. CASE Goes(t, "rename", "copy") /\ BeginCopy(t)
  <2>1. /\ conf' = Blank /\ opened' = [opened EXCEPT ![t] = "copy"] /\ tmp' = tmp
        /\ dto' = dto /\ asked' = asked /\ promised' = promised /\ crossed' = crossed
        /\ hurt' = hurt
    BY <1>10 DEF BeginCopy
  <2>2. /\ at[t] = "rename" /\ at' = [at EXCEPT ![t] = "copy"]
        /\ "rename" \in Configuring /\ "copy" \in Configuring
    BY <1>10 DEF Goes, Configuring
  <2>3. opened'[t] = "copy" /\ conf'.settings \in Settings
    BY <1>1, <2>1, TextsAreTexts DEF SettingsHold
  <2>4. (~crossed /\ ~hurt) => tmp = Whole(dto[t])
    BY <1>1, <1>3, <2>2 DEF OneAtATime
  <2> QED
    BY <1>1, <1>2, <2>1, <2>2, <2>3, <2>4, ChangeGoesOn
<1>11. CASE Goes(t, "copy", "idle") /\ EndCopy(t)
  <2>1. /\ conf' \in Copied(t) /\ tmp' \in {tmp, Missing}
        /\ opened' = [opened EXCEPT ![t] = "none"] /\ promised' = Changed(promised, asked[t])
        /\ EndsChange(t) /\ UNCHANGED <<crossed, hurt>>
    BY <1>11 DEF EndCopy
  <2>2. at[t] = "copy" /\ at' = [at EXCEPT ![t] = "idle"] /\ "copy" \in Configuring
    BY <1>11 DEF Goes, Configuring
  <2>3. ASSUME ~crossed, ~hurt
        PROVE  /\ ReadConfig' = promised' /\ conf'.is \in {"missing", "whole"}
               /\ \A u \in Savers : opened'[u] = "none"
    <3>1. /\ tmp = Whole(dto[t]) /\ dto[t] = Changed(promised, asked[t])
          /\ opened[t] = "copy" /\ conf = Blank
      BY <1>1, <1>3, <2>2, <2>3 DEF OneAtATime
    <3>2. \A u \in Savers \ {t} : opened[u] = "none"
      BY <1>1, <1>3, <2>2, <2>3 DEF OneAtATime, Configuring
    <3>3. tmp # Missing
      BY <1>2, <3>1, TextsAreTexts
    <3>4. Copied(t) = {tmp}
      BY <3>1, <3>2, <3>3 DEF Copied
    <3>5. conf' = Whole(dto[t]) /\ promised' = dto[t]
      BY <2>1, <3>1, <3>4
    <3>6. \A u \in Savers : opened'[u] = "none"
      BY <2>1, <3>2 DEF SettingsHold
    <3> QED
      BY <1>2, <3>5, <3>6, TextsAreTexts DEF ReadConfig
  <2>4. opened' \in [Savers -> {"none", "conf", "tmp", "copy"}]
    BY <2>1 DEF SettingsHold
  <2>5. tmp'.settings \in Settings /\ conf'.settings \in Settings
    BY <1>2, <2>1, TextsAreTexts DEF Copied
  <2> QED
    BY <1>1, <2>1, <2>2, <2>3, <2>4, <2>5, ChangeEnds
<1>12. CASE Goes(t, "copy", "idle") /\ FailCopy(t)
  <2>1. /\ conf' \in (IF opened[t] = "copy" THEN {Blank} \cup Cuts(tmp.settings) ELSE {conf})
        /\ opened' = [opened EXCEPT ![t] = "none"] /\ hurt' = TRUE
        /\ EndsChange(t) /\ UNCHANGED <<tmp, promised, crossed>>
    BY <1>12 DEF FailCopy
  <2>2. at[t] = "copy" /\ at' = [at EXCEPT ![t] = "idle"] /\ "copy" \in Configuring
    BY <1>12 DEF Goes, Configuring
  <2>3. opened' \in [Savers -> {"none", "conf", "tmp", "copy"}]
    BY <2>1 DEF SettingsHold
  <2>4. tmp'.settings \in Settings /\ conf'.settings \in Settings
    BY <1>2, <2>1, TextsAreTexts
  <2> QED
    BY <1>1, <2>1, <2>2, <2>3, <2>4, ChangeEnds
<1> QED
  BY <1>4, <1>5, <1>6, <1>7, <1>8, <1>9, <1>10, <1>11, <1>12 DEF Configure

LEMMA NextSettings ==
  ASSUME SettingsHold, ThreadsHold, Next
  PROVE  SettingsHold'
<1>1. Savers \subseteq Threads
  BY ServiceAssumption
<1>2. ASSUME NEW t \in Threads,
             \/ AcceptRequest(t) \/ RunCommand(t) \/ ListScripts(t) \/ Unlock(t) \/ Change(t)
      PROVE  SettingsHold'
  <2>1. UNCHANGED configVars
    BY <1>2 DEF AcceptRequest, RunCommand, ListScripts, Unlock, Change
  <2>2. \E to \in Stages \ Configuring : at[t] \notin Configuring /\ at' = [at EXCEPT ![t] = to]
    BY <1>2 DEF AcceptRequest, RunCommand, ListScripts, Unlock, Change, Goes, Stages, Kinds,
                Configuring
  <2>3. \A u \in Savers : at'[u] = at[u] \/ (at'[u] \notin Configuring /\ at[u] \notin Configuring)
    BY <1>1, <2>2 DEF ThreadsHold
  <2> QED
    BY <2>1, <2>3, SettingsStayed
<1>3. ASSUME NEW p \in Procs, Exit(p) PROVE SettingsHold'
  <2>1. at' = [t \in Threads |-> IF In[t] = p THEN "idle" ELSE at[t]]
    BY <1>3 DEF Exit
  <2>2. CASE p # Daemon
    <3>1. UNCHANGED configVars /\ \A u \in Savers : at'[u] = at[u]
      BY <1>3, <2>1, <2>2, ServiceAssumption DEF Exit
    <3> QED
      BY <3>1, SettingsStayed
  <2>3. CASE p = Daemon
    <3>1. /\ opened' = [t \in Savers |-> "none"] /\ tmp' = tmp
          /\ dto' = [t \in Savers |-> Default] /\ asked' = [t \in Savers |-> <<>>]
          /\ promised' = promised /\ crossed' = crossed
          /\ \/ conf' = conf /\ hurt' = hurt /\ \A t \in Savers : opened[t] # "copy"
             \/ conf' \in {conf, Blank} \cup Cuts(tmp.settings) /\ hurt' = TRUE
      BY <1>3, <2>3 DEF Exit, ConfigEnds
    <3>2. \A u \in Savers : at'[u] = "idle" /\ opened'[u] = "none"
      BY <2>1, <2>3, <3>1, ServiceAssumption
    <3>3. ASSUME ~crossed', ~hurt' PROVE OneAtATime'
      <4>1. OneAtATime /\ conf' = conf /\ \A t \in Savers : opened[t] # "copy"
        BY <3>1, <3>3 DEF SettingsHold
      <4>2. ReadConfig' = promised' /\ conf'.is \in {"missing", "whole"}
        BY <3>1, <4>1 DEF OneAtATime, ReadConfig
      <4> QED
        BY <3>2, <4>2 DEF OneAtATime, Configuring
    <3>4. dto' \in [Savers -> Settings] /\ asked' \in [Savers -> Changes]
      BY <3>1, ConfigAssumption DEF Settings, Changes
    <3>5. conf'.settings \in Settings /\ hurt' \in BOOLEAN
      BY <3>1, TextsAreTexts DEF SettingsHold
    <3> QED
      BY <3>1, <3>3, <3>4, <3>5 DEF SettingsHold
  <2> QED
    BY <2>2, <2>3
<1>4. CASE StoreStep
  BY <1>4, SettingsStayed DEF StoreStep
<1> QED
  BY <1>2, <1>3, <1>4, ConfigureKeepsSettings DEF Next

-----------------------------------------------------------------------------
(* The script files. *)

Files == [is : {"none", "empty", "torn", "script"}, keys : SUBSET Depots]

\* The keys that a script for game g may have.
Proper(g, k) ==
  \/ k \in {{}, Local \cap AppDepots[g]}
  \/ \E d \in Dbs : k = (Content[d] \cup Local) \cap AppDepots[g]

\* A thread that is at a script writes it for its game, with proper keys, under
\* whatever name the file has by then.
ScriptsHold ==
  /\ files \in [Names -> Files] /\ outs \in [Threads -> Names \cup {NoName}]
  /\ \A n \in Names : files[n].is = "script" => Proper(n[1], files[n].keys)
  /\ \A t \in Threads :
       /\ at[t] \in {"open", "drop", "close"} => Proper(game[t], keys[t])
       /\ outs[t] # NoName => at[t] \in {"drop", "close"} /\ outs[t][1] = game[t]

LEMMA NamesAreNames ==
  /\ NoName \notin Names
  /\ \A n \in Names : Twin(n) \in Names /\ Twin(n) # n /\ Twin(n)[1] = n[1] /\ n[1] \in Games
  /\ \A g \in Games : <<g, "lua">> \in Names /\ <<g, "lua">>[1] = g
<1>1. NoName \notin Names
  BY DEF NoName, Names
<1>2. ASSUME NEW n \in Names
      PROVE  Twin(n) \in Names /\ Twin(n) # n /\ Twin(n)[1] = n[1] /\ n[1] \in Games
  BY <1>2 DEF Twin, Names
<1>3. \A g \in Games : <<g, "lua">> \in Names /\ <<g, "lua">>[1] = g
  BY DEF Names
<1> QED
  BY <1>1, <1>2, <1>3

LEMMA FilesAreFiles ==
  /\ NoFile \in Files /\ Empty \in Files /\ Torn \in Files
  /\ NoFile.is # "script" /\ Empty.is # "script" /\ Torn.is # "script"
  /\ \A k \in SUBSET Depots : Script(k) \in Files /\ Script(k).keys = k
BY DEF NoFile, Empty, Torn, Script, File, Files

LEMMA ScriptsAtFirst ==
  ASSUME ListInit(Known), at = [t \in Threads |-> "idle"]
  PROVE  ScriptsHold
<1> USE DEF ListInit
<1>1. \A n \in Names : files[n] = Script({}) \/ files[n] = NoFile
  OBVIOUS
<1>2. files \in [Names -> Files]
  <2>1. Script({}) \in Files /\ NoFile \in Files
    BY FilesAreFiles
  <2> QED
    BY <2>1
<1>3. \A n \in Names : files[n].is = "script" => files[n].keys = {}
  BY <1>1, FilesAreFiles
<1> QED
  BY <1>2, <1>3 DEF ScriptsHold, Proper

\* A thread's stages, with the files as they are.
LEMMA ScriptsStayed ==
  ASSUME ScriptsHold, files' = files, outs' = outs,
         \A t \in Threads : at'[t] \in {"open", "drop", "close"} =>
           game'[t] = game[t] /\ keys'[t] = keys[t],
         \A t \in Threads : at'[t] = at[t]
           \/ (outs[t] = NoName /\ at'[t] \notin {"open", "drop", "close"})
  PROVE  ScriptsHold'
<1>1. \A n \in Names : files[n].is = "script" => Proper(n[1], files[n].keys)
  BY DEF ScriptsHold
<1>2. ASSUME NEW t \in Threads
      PROVE  /\ at'[t] \in {"open", "drop", "close"} => Proper(game[t], keys[t])
             /\ outs[t] # NoName => at'[t] \in {"drop", "close"} /\ outs[t][1] = game[t]
  BY DEF ScriptsHold
<1>3. ASSUME NEW t \in Threads
      PROVE  /\ at'[t] \in {"open", "drop", "close"} => Proper(game'[t], keys'[t])
             /\ outs[t] # NoName => at'[t] \in {"drop", "close"} /\ outs[t][1] = game'[t]
  BY <1>2
<1>4. \A g, k : Proper(g, k)' <=> Proper(g, k)
  BY DEF Proper
<1> QED
  BY <1>1, <1>3, <1>4 DEF ScriptsHold

LEMMA UnlockKeepsScripts ==
  ASSUME ScriptsHold, ThreadsHold, DepotsHold, NEW t \in Threads, Unlock(t)
  PROVE  ScriptsHold'
<1> USE DEF ScriptsHold
<1>1. \A g, k : Proper(g, k)' <=> Proper(g, k)
  BY DEF Proper
<1>2. CASE /\ Goes(t, "unlock", "open") /\ MayLookUp(In[t])
           /\ \E g \in Games \ Nested :
                /\ game' = [game EXCEPT ![t] = g]
                /\ keys' = [keys EXCEPT ![t] = FindKeysForDepotIds(In[t], AppDepots[g])]
           /\ UNCHANGED listVars
  <2>1. files' = files /\ outs' = outs
    BY <1>2 DEF listVars
  <2>2. PICK g \in Games \ Nested :
          /\ game' = [game EXCEPT ![t] = g]
          /\ keys' = [keys EXCEPT ![t] = FindKeysForDepotIds(In[t], AppDepots[g])]
    BY <1>2
  <2>3. Proper(g, FindKeysForDepotIds(In[t], AppDepots[g]))
    <3>1. In[t] \in Procs /\ phase[In[t]] = "up"
      BY <1>2, ListAssumption, ServiceAssumption DEF MayLookUp
    <3>2. records[In[t]] = Local \/ \E d \in Dbs : records[In[t]] = Content[d] \cup Local
      BY <3>1 DEF DepotsHold, StoreHolds
    <3>3. AppDepots[g] \cap Local = Local \cap AppDepots[g]
      OBVIOUS
    <3>4. \A d \in Dbs : AppDepots[g] \cap (Content[d] \cup Local)
                           = (Content[d] \cup Local) \cap AppDepots[g]
      OBVIOUS
    <3> QED
      BY <3>2, <3>3, <3>4 DEF Proper, FindKeysForDepotIds
  <2>4. at[t] = "unlock" /\ at'[t] = "open" /\ \A u \in Threads : u # t => at'[u] = at[u]
    BY <1>2, Moves
  <2>5. outs[t] = NoName
    BY <2>4
  <2>6. /\ game'[t] = g /\ keys'[t] = FindKeysForDepotIds(In[t], AppDepots[g])
        /\ \A u \in Threads : u # t => game'[u] = game[u] /\ keys'[u] = keys[u]
    BY <2>2 DEF ThreadsHold
  <2>7. ASSUME NEW u \in Threads
        PROVE  /\ at'[u] \in {"open", "drop", "close"} => Proper(game'[u], keys'[u])
               /\ outs[u] # NoName => at'[u] \in {"drop", "close"} /\ outs[u][1] = game'[u]
    BY <2>3, <2>4, <2>5, <2>6
  <2> QED
    BY <1>1, <2>1, <2>7
<1>3. CASE Goes(t, "open", "drop") /\ OpenScript(t, game[t]) /\ UNCHANGED <<game, keys>>
  <2> DEFINE n == <<game[t], "lua">>
  <2>1. at[t] = "open" /\ at'[t] = "drop" /\ \A u \in Threads : u # t => at'[u] = at[u]
    BY <1>3, Moves
  <2>2. n \in Names /\ n[1] = game[t] /\ n # NoName
    BY <2>1, NamesAreNames DEF ThreadsHold
  <2>3. files' = [files EXCEPT ![n] = Empty] /\ outs' = [outs EXCEPT ![t] = n]
    BY <1>3 DEF OpenScript
  <2> HIDE DEF n
  <2>4. files' \in [Names -> Files] /\ outs' \in [Threads -> Names \cup {NoName}]
    BY <2>2, <2>3, FilesAreFiles
  <2>5. \A m \in Names : files'[m].is = "script" => Proper(m[1], files'[m].keys)
    BY <2>2, <2>3, FilesAreFiles
  <2>6. ASSUME NEW u \in Threads
        PROVE  /\ at'[u] \in {"open", "drop", "close"} => Proper(game[u], keys[u])
               /\ outs'[u] # NoName => at'[u] \in {"drop", "close"} /\ outs'[u][1] = game[u]
    BY <2>2, <2>3, <2>1
  <2> QED
    BY <1>1, <1>3, <2>4, <2>5, <2>6
<1>4. CASE /\ Goes(t, "open", "idle") /\ UNCHANGED listVars
           /\ game' = [game EXCEPT ![t] = NoName] /\ keys' = [keys EXCEPT ![t] = {}]
  <2>1. at[t] = "open" /\ at'[t] = "idle" /\ \A u \in Threads : u # t => at'[u] = at[u]
    BY <1>4, Moves
  <2>2. outs[t] = NoName
    BY <2>1
  <2>3. \A u \in Threads : u # t => game'[u] = game[u] /\ keys'[u] = keys[u]
    BY <1>4 DEF ThreadsHold
  <2> QED
    BY <1>4, <2>1, <2>2, <2>3, ScriptsStayed DEF listVars
<1>5. CASE Goes(t, "drop", "close") /\ DropListing(t, game[t]) /\ UNCHANGED <<game, keys>>
  <2>1. at[t] = "drop" /\ at'[t] = "close" /\ \A u \in Threads : u # t => at'[u] = at[u]
    BY <1>5, Moves
  <2>2. files' = files /\ outs' = outs /\ game' = game /\ keys' = keys
    BY <1>5 DEF DropListing
  <2>3. ASSUME NEW u \in Threads
        PROVE  /\ at'[u] \in {"open", "drop", "close"} => Proper(game[u], keys[u])
               /\ outs[u] # NoName => at'[u] \in {"drop", "close"} /\ outs[u][1] = game[u]
    BY <2>1
  <2> QED
    BY <1>1, <2>2, <2>3
<1>6. CASE /\ Goes(t, "close", "idle") /\ CloseScript(t, keys[t])
           /\ game' = [game EXCEPT ![t] = NoName] /\ keys' = [keys EXCEPT ![t] = {}]
  <2>1. at[t] = "close" /\ at'[t] = "idle" /\ \A u \in Threads : u # t => at'[u] = at[u]
    BY <1>6, Moves
  <2>2. /\ outs' = [outs EXCEPT ![t] = NoName]
        /\ \/ files' = files
           \/ /\ outs[t] # NoName
              /\ \E f \in {Script(keys[t]), Torn} : files' = [files EXCEPT ![outs[t]] = f]
    BY <1>6 DEF CloseScript
  <2>3. keys[t] \in SUBSET Depots /\ Proper(game[t], keys[t])
    BY <2>1 DEF ThreadsHold
  <2>4. Script(keys[t]) \in Files /\ Torn \in Files /\ Script(keys[t]).keys = keys[t]
    BY <2>3, FilesAreFiles
  <2>5. files' \in [Names -> Files] /\ outs' \in [Threads -> Names \cup {NoName}]
    BY <2>2, <2>4
  <2>6. ASSUME NEW m \in Names, files'[m].is = "script"
        PROVE  Proper(m[1], files'[m].keys)
    <3>1. CASE files'[m] = files[m]
      BY <2>6, <3>1
    <3>2. CASE files'[m] # files[m]
      <4>1. m = outs[t] /\ outs[t] # NoName /\ files'[m] \in {Script(keys[t]), Torn}
        BY <2>2, <3>2
      <4>2. m[1] = game[t]
        BY <4>1
      <4>3. files'[m] = Script(keys[t])
        BY <2>6, <4>1, FilesAreFiles
      <4> QED
        BY <2>3, <2>4, <4>2, <4>3
    <3> QED
      BY <3>1, <3>2
  <2>7. ASSUME NEW u \in Threads
        PROVE  /\ at'[u] \in {"open", "drop", "close"} => Proper(game'[u], keys'[u])
               /\ outs'[u] # NoName => at'[u] \in {"drop", "close"} /\ outs'[u][1] = game'[u]
    <3>1. u # t => game'[u] = game[u] /\ keys'[u] = keys[u]
      BY <1>6 DEF ThreadsHold
    <3> QED
      BY <2>1, <2>2, <3>1
  <2> QED
    BY <1>1, <2>5, <2>6, <2>7
<1> QED
  BY <1>2, <1>3, <1>4, <1>5, <1>6 DEF Unlock

\* A script keeps its game when it is renamed, and an open stream its script.
LEMMA ChangeKeepsScripts ==
  ASSUME ScriptsHold, ThreadsHold, NEW t \in Threads, Change(t)
  PROVE  ScriptsHold'
<1> USE DEF ScriptsHold
<1>1. \A g, k : Proper(g, k)' <=> Proper(g, k)
  BY DEF Proper
<1>2. game' = game /\ keys' = keys
  BY DEF Change
<1>3. /\ at[t] \in {"toggle", "delete", "forget"} /\ at'[t] \in {"idle", "forget"}
      /\ \A u \in Threads : u # t => at'[u] = at[u]
  BY DEF Change, Goes, ThreadsHold
<1>4. outs[t] = NoName
  BY <1>3
<1>5. CASE files' = files /\ outs' = outs
  BY <1>2, <1>3, <1>4, <1>5, ScriptsStayed
<1>6. ASSUME NEW n \in Names, Rename(t, n) PROVE ScriptsHold'
  <2> DEFINE m == Twin(n)
  <2>1. m \in Names /\ m # n /\ m[1] = n[1] /\ n # NoName /\ m # NoName
    BY NamesAreNames
  <2>2. /\ files' = [files EXCEPT ![n] = NoFile, ![m] = files[n]]
        /\ outs' = [u \in Threads |-> IF outs[u] = n THEN m
                                      ELSE IF outs[u] = m THEN NoName ELSE outs[u]]
    BY <1>6 DEF Rename
  <2> HIDE DEF m
  <2>3. files' \in [Names -> Files] /\ outs' \in [Threads -> Names \cup {NoName}]
    BY <2>1, <2>2, FilesAreFiles
  <2>4. ASSUME NEW x \in Names, files'[x].is = "script"
        PROVE  Proper(x[1], files'[x].keys)
    <3>1. files'[x] = IF x = m THEN files[n] ELSE IF x = n THEN NoFile ELSE files[x]
      BY <2>1, <2>2
    <3> QED
      BY <2>1, <2>4, <3>1, FilesAreFiles
  <2>5. ASSUME NEW u \in Threads
        PROVE  /\ at'[u] \in {"open", "drop", "close"} => Proper(game[u], keys[u])
               /\ outs'[u] # NoName => at'[u] \in {"drop", "close"} /\ outs'[u][1] = game[u]
    BY <1>3, <1>4, <2>1, <2>2
  <2> QED
    BY <1>1, <1>2, <2>3, <2>4, <2>5
<1>7. ASSUME NEW n \in Names, Remove(t, n) PROVE ScriptsHold'
  <2>1. /\ files' = [files EXCEPT ![n] = NoFile]
        /\ outs' = [u \in Threads |-> IF outs[u] = n THEN NoName ELSE outs[u]]
    BY <1>7 DEF Remove
  <2>2. files' \in [Names -> Files] /\ outs' \in [Threads -> Names \cup {NoName}]
    BY <2>1, FilesAreFiles
  <2>3. ASSUME NEW x \in Names, files'[x].is = "script"
        PROVE  Proper(x[1], files'[x].keys)
    BY <2>1, <2>3, FilesAreFiles
  <2>4. ASSUME NEW u \in Threads
        PROVE  /\ at'[u] \in {"open", "drop", "close"} => Proper(game[u], keys[u])
               /\ outs'[u] # NoName => at'[u] \in {"drop", "close"} /\ outs'[u][1] = game[u]
    BY <1>3, <1>4, <2>1
  <2> QED
    BY <1>1, <1>2, <2>2, <2>3, <2>4
<1> QED
  BY <1>5, <1>6, <1>7 DEF Change, Forget, listVars

LEMMA NextScripts ==
  ASSUME ScriptsHold, ThreadsHold, DepotsHold, Next
  PROVE  ScriptsHold'
<1>1. ASSUME NEW t \in Threads,
             AcceptRequest(t) \/ RunCommand(t) \/ ListScripts(t) \/ Configure(t)
      PROVE  ScriptsHold'
  <2>1. files' = files /\ outs' = outs /\ game' = game /\ keys' = keys
    BY <1>1 DEF AcceptRequest, RunCommand, ListScripts, ReadTime, Answer, Scan, Store, Configure, listVars
  <2>2. \E to \in Stages \ {"open", "drop", "close"} :
          at[t] \notin {"open", "drop", "close"} /\ at' = [at EXCEPT ![t] = to]
    BY <1>1 DEF AcceptRequest, RunCommand, ListScripts, Configure, Goes, Stages, Kinds,
                Configuring
  <2>3. outs[t] = NoName
    BY <2>2 DEF ScriptsHold
  <2>4. \A u \in Threads : at'[u] = at[u] \/ (u = t /\ at'[u] \notin {"open", "drop", "close"})
    BY <2>2 DEF ThreadsHold
  <2> QED
    BY <2>1, <2>3, <2>4, ScriptsStayed
<1>2. ASSUME NEW p \in Procs, Exit(p) PROVE ScriptsHold'
  <2>1. /\ files' = files
        /\ game' = [t \in Threads |-> IF In[t] = p THEN NoName ELSE game[t]]
        /\ keys' = [t \in Threads |-> IF In[t] = p THEN {} ELSE keys[t]]
        /\ outs' = [t \in Threads |-> IF In[t] = p THEN NoName ELSE outs[t]]
        /\ at' = [t \in Threads |-> IF In[t] = p THEN "idle" ELSE at[t]]
    BY <1>2 DEF Exit, ListEnds
  <2>2. \A g, k : Proper(g, k)' <=> Proper(g, k)
    BY DEF Proper
  <2>3. ASSUME NEW u \in Threads
        PROVE  /\ at'[u] \in {"open", "drop", "close"} => Proper(game'[u], keys'[u])
               /\ outs'[u] # NoName => at'[u] \in {"drop", "close"} /\ outs'[u][1] = game'[u]
    <3>1. CASE In[u] = p
      BY <2>1, <3>1
    <3>2. CASE In[u] # p
      BY <2>1, <3>2 DEF ScriptsHold
    <3> QED
      BY <3>1, <3>2
  <2> QED
    BY <2>1, <2>2, <2>3 DEF ScriptsHold
<1>3. CASE StoreStep
  BY <1>3, ScriptsStayed DEF StoreStep, listVars
<1> QED
  BY <1>1, <1>2, <1>3, UnlockKeepsScripts, ChangeKeepsScripts DEF Next

-----------------------------------------------------------------------------
(* The listings. *)

Listings == [kept : BOOLEAN, time : Nat, list : [Names -> Files], sure : BOOLEAN]

\* A listing that is as the directory is, or is known not to be.
Current(l) == l.sure /\ l.time = time => l.list = files

\* While a script is being written, every listing is unsure, but for one kept by
\* a process that is about to drop it.
ListsHold ==
  /\ time \in 0 .. MaxChanges /\ manifests \subseteq Games
  /\ caches \in [Owners -> Listings] /\ seen \in [Threads -> Listings]
  /\ \A p \in Owners : caches[p].time <= time
  /\ \A t \in Threads : seen[t].time <= time
  /\ \A t \in Threads : at[t] = "store" => Current(seen[t])
  /\ ListIsCurrent
  /\ (\E t \in Threads : outs[t] # NoName) =>
       /\ \A t \in Threads : at[t] = "store" => ~seen[t].sure
       /\ \A p \in Owners : caches[p].kept /\ caches[p].sure =>
            \E t \in Threads : In[t] = p /\ at[t] = "drop"

LEMMA ListingsAreListings ==
  /\ NoListing \in Listings /\ ~NoListing.kept /\ NoListing.time = 0
  /\ \A l \in Listings : /\ Unsure(l) \in Listings /\ ~Unsure(l).sure
                         /\ Unsure(l).time = l.time /\ Unsure(l).kept = l.kept
  /\ \A n \in Nat : Listing(n, NoList) \in Listings /\ Listing(n, NoList).time = n
<1>1. NoList \in [Names -> Files]
  BY FilesAreFiles DEF NoList
<1>2. NoListing \in Listings /\ ~NoListing.kept /\ NoListing.time = 0
  BY <1>1 DEF NoListing, Listings
<1>3. ASSUME NEW l \in Listings
      PROVE  /\ Unsure(l) \in Listings /\ ~Unsure(l).sure
             /\ Unsure(l).time = l.time /\ Unsure(l).kept = l.kept
  BY <1>1 DEF Unsure, Listings
<1>4. \A n \in Nat : Listing(n, NoList) \in Listings /\ Listing(n, NoList).time = n
  BY <1>1 DEF Listing, Listings
<1> QED
  BY <1>2, <1>3, <1>4

LEMMA ListsAtFirst ==
  ASSUME ListInit(Known), at = [t \in Threads |-> "idle"]
  PROVE  ListsHold
<1> USE DEF ListInit
<1>1. time \in 0 .. MaxChanges /\ 0 <= time
  BY ListAssumption
<1>2. /\ \A p \in Owners : caches[p] = NoListing
      /\ \A t \in Threads : seen[t] = NoListing /\ outs[t] = NoName /\ at[t] = "idle"
  OBVIOUS
<1>3. caches \in [Owners -> Listings] /\ seen \in [Threads -> Listings]
  BY ListingsAreListings
<1>4. ListIsCurrent
  BY <1>2, ListingsAreListings, ServiceAssumption DEF ListIsCurrent
<1> QED
  BY <1>1, <1>2, <1>3, <1>4, ListingsAreListings DEF ListsHold

\* The parts of ListsHold that a step may disturb; ListIsCurrent is spelled out
\* for the processes that ListHold speaks of.
LEMMA CurrentByOwner ==
  ListIsCurrent <=>
    \A p \in Owners :
      (caches[p].kept /\ \A t \in Threads : In[t] = p => at[t] \notin {"drop", "forget"})
        => Current(caches[p])
BY ServiceAssumption DEF ListIsCurrent, Current

\* Steps that leave the lists and scripts alone, and move a thread between
\* stages that do not matter here.
LEMMA ListsStayed ==
  ASSUME ListsHold, files' = files, time' = time, caches' = caches, seen' = seen,
         outs' = outs, manifests' = manifests,
         \A t \in Threads : at'[t] = at[t] \/ (at'[t] # "store" /\ at[t] \notin {"drop", "forget"})
  PROVE  ListsHold'
<1>1. \A l : Current(l)' <=> Current(l)
  BY DEF Current
<1>2. \A t \in Threads : at'[t] = "store" => at[t] = "store"
  OBVIOUS
<1>3. \A t \in Threads : at[t] \in {"drop", "forget"} => at'[t] = at[t]
  OBVIOUS
<1>4. ListIsCurrent'
  <2>1. \A p \in Owners :
          (caches[p].kept /\ \A t \in Threads : In[t] = p => at'[t] \notin {"drop", "forget"})
            => Current(caches[p])
    BY <1>3, CurrentByOwner DEF ListsHold
  <2> QED
    BY <2>1, ServiceAssumption DEF ListIsCurrent, Current
<1> QED
  BY <1>1, <1>2, <1>3, <1>4 DEF ListsHold, Current

\* A listing is dated before it is made, so it is as the directory is at that
\* time, or is known not to be.
LEMMA ListScriptsKeepsLists ==
  ASSUME ListsHold, ScriptsHold, ThreadsHold, NEW t \in Threads, ListScripts(t)
  PROVE  ListsHold'
<1> USE DEF ListsHold
<1>1. /\ files' = files /\ time' = time /\ outs' = outs /\ manifests' = manifests
      /\ In[t] \in Owners
  BY ListAssumption DEF ListScripts, ReadTime, Answer, Scan, Store, listVars
<1>2. \A u \in Threads : u # t => at'[u] = at[u]
  BY DEF ListScripts, Goes, ThreadsHold
<1>3. at[t] \notin {"drop", "forget"} /\ at'[t] \notin {"drop", "forget"}
  BY DEF ListScripts, Goes, ThreadsHold
<1>4. \A p \in Owners : (\E u \in Threads : In[u] = p /\ at[u] = "drop")
                          => \E u \in Threads : In[u] = p /\ at'[u] = "drop"
  BY <1>2, <1>3
<1>5. ASSUME caches' = caches, NEW l \in Listings, l.time <= time,
             seen' = [seen EXCEPT ![t] = l],
             at'[t] = "store" => Current(l) /\ ((\E u \in Threads : outs[u] # NoName) => ~l.sure)
      PROVE  ListsHold'
  <2>1. seen'[t] = l /\ \A u \in Threads : u # t => seen'[u] = seen[u]
    BY <1>5
  <2>2. seen' \in [Threads -> Listings] /\ \A u \in Threads : seen'[u].time <= time
    BY <1>5, <2>1
  <2>3. \A u \in Threads : at'[u] = "store" => Current(seen'[u])
    BY <1>2, <1>5, <2>1
  <2>4. ListIsCurrent'
    BY <1>1, <1>2, <1>3, <1>5, ServiceAssumption DEF ListIsCurrent
  <2>5. ASSUME \E u \in Threads : outs[u] # NoName
        PROVE  \A u \in Threads : at'[u] = "store" => ~seen'[u].sure
    BY <1>2, <1>5, <2>1, <2>5
  <2> QED
    BY <1>1, <1>4, <1>5, <2>2, <2>3, <2>4, <2>5 DEF Current
<1>6. CASE Goes(t, "list", "look") /\ ReadTime(t)
  <2>1. /\ at'[t] = "look" /\ caches' = caches
        /\ seen' = [seen EXCEPT ![t] = Listing(time, NoList)]
    BY <1>6, Moves DEF ReadTime
  <2>2. time \in Nat /\ time <= time
    BY ListAssumption
  <2> QED
    BY <1>5, <2>1, <2>2, ListingsAreListings
<1>7. CASE Goes(t, "look", "idle") /\ Answer(t)
  <2>1. at'[t] = "idle" /\ caches' = caches /\ seen' = [seen EXCEPT ![t] = NoListing]
    BY <1>7, Moves DEF Answer
  <2>2. 0 <= time
    BY ListAssumption
  <2> QED
    BY <1>5, <2>1, <2>2, ListingsAreListings
<1>8. CASE Goes(t, "look", "store") /\ Scan(t)
  <2>1. at'[t] = "store" /\ caches' = caches
    BY <1>8, Moves DEF Scan
  <2>2. seen[t] \in [kept : BOOLEAN, time : Nat, list : [Names -> Files], sure : BOOLEAN]
        /\ seen[t].time <= time /\ files \in [Names -> Files]
    BY DEF Listings, ScriptsHold
  <2>3. CASE /\ seen' = [seen EXCEPT ![t] = [@ EXCEPT !.list = files]]
             /\ \A u \in Threads : outs[u] = NoName
    <3>1. PICK l : l = [kept |-> seen[t].kept, time |-> seen[t].time, list |-> files,
                        sure |-> seen[t].sure]
      OBVIOUS
    <3>2. l = [seen[t] EXCEPT !.list = files]
      BY <2>2, <3>1
    <3>3. l \in Listings /\ l.time <= time /\ Current(l)
      BY <2>2, <3>1 DEF Listings, Current
    <3> QED
      BY <1>5, <2>1, <2>3, <3>2, <3>3
  <2>4. CASE seen' = [seen EXCEPT ![t] = Unsure(@)]
    <3>1. /\ Unsure(seen[t]) \in Listings /\ ~Unsure(seen[t]).sure
          /\ Unsure(seen[t]).time <= time
      BY <2>2, ListingsAreListings
    <3> QED
      BY <1>5, <2>1, <2>4, <3>1 DEF Current
  <2> QED
    BY <1>8, <2>3, <2>4 DEF Scan
<1>9. CASE Goes(t, "store", "idle") /\ Store(t)
  <2>1. /\ at[t] = "store" /\ at'[t] = "idle" /\ seen' = [seen EXCEPT ![t] = NoListing]
        /\ caches' = [caches EXCEPT ![In[t]] = seen[t]]
        /\ 0 <= time
    BY <1>9, Moves, ListAssumption DEF Store
  <2>2. caches' \in [Owners -> Listings] /\ \A p \in Owners : caches'[p].time <= time
    BY <1>1, <2>1
  <2>3. Current(seen[t])
    BY <2>1
  <2>4. ListIsCurrent'
    <3>1. ASSUME NEW p \in Owners, caches'[p].kept,
                 \A u \in Threads : In[u] = p => at'[u] \notin {"drop", "forget"}
          PROVE  Current(caches'[p])
      <4>1. \A u \in Threads : In[u] = p => at[u] \notin {"drop", "forget"}
        BY <1>2, <1>3, <3>1
      <4>2. CASE p = In[t]
        BY <1>1, <2>1, <2>3, <4>2
      <4>3. CASE p # In[t]
        <5>1. caches'[p] = caches[p]
          BY <1>1, <2>1, <4>3
        <5> QED
          BY <3>1, <4>1, <5>1, CurrentByOwner
      <4> QED
        BY <4>2, <4>3
    <3> QED
      BY <1>1, <3>1, ServiceAssumption DEF ListIsCurrent, Current
  <2>5. ASSUME \E u \in Threads : outs[u] # NoName, NEW p \in Owners,
               caches'[p].kept, caches'[p].sure
        PROVE  \E u \in Threads : In[u] = p /\ at'[u] = "drop"
    <3>1. ~seen[t].sure
      BY <2>1, <2>5
    <3>2. caches'[p] = caches[p]
      BY <1>1, <2>1, <2>5, <3>1
    <3> QED
      BY <1>2, <1>3, <2>5, <3>2
  <2>6. \A u \in Threads : at'[u] = "store" => at[u] = "store" /\ seen'[u] = seen[u]
    BY <1>2, <2>1
  <2>7. seen' \in [Threads -> Listings] /\ \A u \in Threads : seen'[u].time <= time
    BY <2>1, ListingsAreListings
  <2> QED
    BY <1>1, <2>1, <2>2, <2>4, <2>5, <2>6, <2>7 DEF Current
<1> QED
  BY <1>6, <1>9, <1>7, <1>8 DEF ListScripts

\* A save makes listings unsure when it opens the script, and drops the own one
\* before it writes.
LEMMA UnlockKeepsLists ==
  ASSUME ListsHold, ScriptsHold, ThreadsHold, NEW t \in Threads, Unlock(t)
  PROVE  ListsHold'
<1> USE DEF ListsHold
<1>1. In[t] \in Owners
  BY ListAssumption
<1>2. CASE /\ Goes(t, "unlock", "open") \/ Goes(t, "open", "idle")
           /\ UNCHANGED listVars
  <2>1. /\ at[t] \in {"unlock", "open"} /\ at'[t] \in {"open", "idle"}
        /\ \A u \in Threads : u # t => at'[u] = at[u]
    BY <1>2, Moves
  <2> QED
    BY <1>2, <2>1, ListsStayed DEF listVars
<1>3. CASE Goes(t, "open", "drop") /\ OpenScript(t, game[t])
  <2> DEFINE n == <<game[t], "lua">>
  <2>1. /\ seen' = [u \in Threads |-> Unsure(seen[u])]
        /\ caches' = [p \in Owners |-> IF p = In[t] THEN caches[p] ELSE Unsure(caches[p])]
        /\ time' = time \/ (time < MaxChanges /\ time' = time + 1)
        /\ manifests' = manifests
    BY <1>3 DEF OpenScript, TimeHides, DirectoryChanges
  <2>2. at'[t] = "drop" /\ at[t] = "open" /\ \A u \in Threads : u # t => at'[u] = at[u]
    BY <1>3, Moves
  <2>4. /\ \A u \in Threads : seen'[u] \in Listings /\ ~seen'[u].sure
                                /\ seen'[u].time = seen[u].time
        /\ \A p \in Owners : /\ caches'[p] \in Listings /\ caches'[p].time = caches[p].time
                             /\ p # In[t] => ~caches'[p].sure
    BY <2>1, ListingsAreListings
  <2>5. caches' \in [Owners -> Listings] /\ seen' \in [Threads -> Listings]
    BY <2>1, <2>4
  <2>6. time' \in 0 .. MaxChanges /\ time <= time'
    BY <2>1, ListAssumption
  <2>7. /\ \A p \in Owners : caches'[p].time <= time'
        /\ \A u \in Threads : seen'[u].time <= time'
    <3>1. \A p \in Owners : caches[p].time \in Nat
      BY DEF Listings
    <3>2. \A u \in Threads : seen[u].time \in Nat
      BY DEF Listings
    <3> QED
      BY <2>4, <2>6, <3>1, <3>2
  <2>8. ListIsCurrent'
    BY <2>2, <2>4, ServiceAssumption DEF ListIsCurrent
  <2>9. \A p \in Owners : caches'[p].sure => In[t] = p /\ at'[t] = "drop"
    BY <2>2, <2>4
  <2> QED
    BY <2>1, <2>4, <2>5, <2>6, <2>7, <2>8, <2>9 DEF Current
<1>4. CASE Goes(t, "drop", "close") /\ DropListing(t, game[t])
  <2>1. /\ caches' = [caches EXCEPT ![In[t]] = NoListing] /\ files' = files /\ time' = time
        /\ seen' = seen /\ outs' = outs /\ manifests' \in {manifests, manifests \cup {game[t]}}
    BY <1>4 DEF DropListing, EnsureAppManifest, Invalidate
  <2>2. at[t] = "drop" /\ at'[t] = "close" /\ \A u \in Threads : u # t => at'[u] = at[u]
    BY <1>4, Moves
  <2>3. caches' \in [Owners -> Listings] /\ \A p \in Owners : caches'[p].time <= time
    BY <1>1, <2>1, ListingsAreListings
  <2>4. /\ ~caches'[In[t]].kept /\ \A p \in Owners : p # In[t] => caches'[p] = caches[p]
        /\ \A p \in Owners, u \in Threads : p # In[t] /\ In[u] = p => at'[u] = at[u]
    BY <1>1, <2>1, <2>2, ListingsAreListings
  <2>5. ListIsCurrent'
    BY <2>1, <2>4, ServiceAssumption DEF ListIsCurrent
  <2>6. manifests' \subseteq Games
    BY <2>1, <2>2 DEF ThreadsHold
  <2>7. \A u \in Threads : at'[u] = "store" => at[u] = "store"
    BY <2>2
  <2>8. ASSUME NEW p \in Owners, caches'[p].kept, caches'[p].sure,
               \E u \in Threads : outs[u] # NoName
        PROVE  \E u \in Threads : In[u] = p /\ at'[u] = "drop"
    BY <2>4, <2>8
  <2> QED
    BY <2>1, <2>3, <2>5, <2>6, <2>7, <2>8 DEF Current
<1>5. CASE Goes(t, "close", "idle") /\ CloseScript(t, keys[t])
  <2>1. /\ outs' = [outs EXCEPT ![t] = NoName] /\ time' = time /\ caches' = caches
        /\ seen' = seen /\ manifests' = manifests
        /\ outs[t] = NoName => files' = files
    BY <1>5 DEF CloseScript
  <2>2. at[t] = "close" /\ at'[t] = "idle" /\ \A u \in Threads : u # t => at'[u] = at[u]
    BY <1>5, Moves
  <2>3. \A u \in Threads : outs'[u] # NoName => outs[u] # NoName
    BY <2>1 DEF ScriptsHold
  <2>4. \A u \in Threads : at'[u] = "store" => at[u] = "store"
    BY <2>2
  <2>5. \A u \in Threads : at[u] \in {"drop", "forget"} <=> at'[u] \in {"drop", "forget"}
    BY <2>2
  <2>6. ASSUME NEW u \in Threads, at'[u] = "store"
        PROVE  Current(seen[u])'
    BY <2>1, <2>4, <2>6 DEF Current
  <2>7. ListIsCurrent'
    <3>1. CASE outs[t] = NoName
      BY <2>1, <2>5, <3>1, ServiceAssumption DEF ListIsCurrent
    <3>2. ASSUME outs[t] # NoName, NEW p \in Owners,
                 \A u \in Threads : In[u] = p => at'[u] \notin {"drop", "forget"}
          PROVE  ~caches'[p].kept \/ ~caches'[p].sure
      <4>1. ~\E u \in Threads : In[u] = p /\ at[u] = "drop"
        BY <2>5, <3>2
      <4> QED
        BY <2>1, <3>2, <4>1
    <3> QED
      BY <3>1, <3>2, ServiceAssumption DEF ListIsCurrent
  <2>8. ASSUME NEW p \in Owners, caches'[p].kept, caches'[p].sure,
               \E u \in Threads : outs'[u] # NoName
        PROVE  \E u \in Threads : In[u] = p /\ at'[u] = "drop"
    <3>1. PICK u \in Threads : In[u] = p /\ at[u] = "drop"
      BY <2>1, <2>3, <2>8
    <3> QED
      BY <2>2, <3>1
  <2> QED
    BY <2>1, <2>3, <2>4, <2>6, <2>7, <2>8
<1> QED
  BY <1>2, <1>3, <1>4, <1>5 DEF Unlock

\* A renamed or removed script gives the directory another time.
LEMMA ChangeKeepsLists ==
  ASSUME ListsHold, ScriptsHold, ThreadsHold, NEW t \in Threads, Change(t)
  PROVE  ListsHold'
<1> USE DEF ListsHold
<1>1. In[t] \in Owners
  BY ListAssumption
<1>2. /\ at[t] \in {"toggle", "delete", "forget"} /\ at'[t] \in {"idle", "forget"}
      /\ \A u \in Threads : u # t => at'[u] = at[u]
  BY DEF Change, Goes, ThreadsHold
<1>4. \A u \in Threads : at'[u] = "store" => at[u] = "store"
  BY <1>2
<1>5. \A u \in Threads : at'[u] = "drop" <=> at[u] = "drop"
  BY <1>2
<1>6. CASE Goes(t, "forget", "idle") /\ Forget(t)
  <2>1. /\ caches' = [caches EXCEPT ![In[t]] = NoListing] /\ files' = files /\ time' = time
        /\ seen' = seen /\ outs' = outs /\ manifests' = manifests
    BY <1>6 DEF Forget, Invalidate
  <2>2. caches' \in [Owners -> Listings] /\ \A p \in Owners : caches'[p].time <= time
    BY <1>1, <2>1, ListingsAreListings
  <2>3. /\ ~caches'[In[t]].kept /\ \A p \in Owners : p # In[t] => caches'[p] = caches[p]
    BY <1>1, <2>1, ListingsAreListings
  <2>4. \A u \in Threads : In[u] # In[t] => at'[u] = at[u]
    BY <1>2
  <2>5. ListIsCurrent'
    BY <2>1, <2>3, <2>4, ServiceAssumption DEF ListIsCurrent
  <2>6. ASSUME NEW p \in Owners, caches'[p].kept, caches'[p].sure,
               \E u \in Threads : outs[u] # NoName
        PROVE  \E u \in Threads : In[u] = p /\ at'[u] = "drop"
    BY <1>5, <2>3, <2>6
  <2> QED
    BY <1>4, <2>1, <2>2, <2>5, <2>6 DEF Current
<1>7. ASSUME NEW n \in Names, Rename(t, n) \/ Remove(t, n), at'[t] = "forget" PROVE ListsHold'
  <2>1. manifests' = manifests /\ EntryChanges(t, n)
    BY <1>7 DEF Rename, Remove
  <2>2. \A u \in Threads : outs'[u] # NoName => outs[u] # NoName
    BY <1>7, NamesAreNames DEF Rename, Remove, ScriptsHold
  <2>3. CASE n[1] \notin Nested
    <3>1. time < MaxChanges /\ time' = time + 1 /\ caches' = caches /\ seen' = seen
      BY <2>1, <2>3 DEF EntryChanges, DirectoryChanges
    <3>2. time' \in 0 .. MaxChanges /\ time \in Nat
      BY <3>1, ListAssumption
    <3>3. \A l \in Listings : l.time <= time => l.time <= time' /\ l.time # time'
      BY <3>1, <3>2 DEF Listings
    <3>4. /\ \A p \in Owners : caches[p].time <= time' /\ caches[p].time # time'
          /\ \A u \in Threads : seen[u].time <= time' /\ seen[u].time # time'
      BY <3>3
    <3>5. ListIsCurrent'
      BY <3>1, <3>4, ServiceAssumption DEF ListIsCurrent
    <3> QED
      BY <1>4, <1>5, <2>1, <2>2, <3>1, <3>2, <3>4, <3>5 DEF Current
  <2>4. CASE n[1] \in Nested
    <3>1. /\ time' = time /\ seen' = [u \in Threads |-> Unsure(seen[u])]
          /\ caches' = [p \in Owners |-> IF p = In[t] THEN caches[p] ELSE Unsure(caches[p])]
      BY <2>1, <2>4 DEF EntryChanges, TimeHides
    <3>2. /\ \A u \in Threads : seen'[u] \in Listings /\ ~seen'[u].sure
                                  /\ seen'[u].time = seen[u].time
          /\ \A p \in Owners : /\ caches'[p] \in Listings /\ caches'[p].time = caches[p].time
                               /\ p # In[t] => ~caches'[p].sure
                               /\ p = In[t] => caches'[p] = caches[p]
      BY <3>1, ListingsAreListings
    <3>3. caches' \in [Owners -> Listings] /\ seen' \in [Threads -> Listings]
      BY <3>1, <3>2
    <3>4. /\ \A p \in Owners : caches'[p].time <= time'
          /\ \A u \in Threads : seen'[u].time <= time'
      BY <3>1, <3>2
    <3>5. ListIsCurrent'
      BY <1>7, <3>2, ServiceAssumption DEF ListIsCurrent
    <3>6. ASSUME NEW p \in Owners, caches'[p].kept, caches'[p].sure,
                 \E u \in Threads : outs'[u] # NoName
          PROVE  \E u \in Threads : In[u] = p /\ at'[u] = "drop"
      BY <1>5, <2>2, <3>2, <3>6
    <3> QED
      BY <2>1, <3>1, <3>2, <3>3, <3>4, <3>5, <3>6 DEF Current
  <2> QED
    BY <2>3, <2>4
<1>9. CASE UNCHANGED listVars /\ at[t] \in {"toggle", "delete"}
  <2>1. \A u \in Threads : at'[u] = at[u] \/ (at'[u] # "store" /\ at[u] \notin {"drop", "forget"})
    BY <1>2, <1>9
  <2> QED
    BY <1>9, <2>1, ListsStayed DEF listVars
<1> QED
  BY <1>6, <1>7, <1>9, Moves DEF Change

LEMMA ExitKeepsLists ==
  ASSUME ListsHold, NEW p \in Procs, Exit(p)
  PROVE  ListsHold'
<1> USE DEF ListsHold
<1>1. /\ caches' = [caches EXCEPT ![p] = NoListing]
      /\ seen' = [t \in Threads |-> IF In[t] = p THEN NoListing ELSE seen[t]]
      /\ outs' = [t \in Threads |-> IF In[t] = p THEN NoName ELSE outs[t]]
      /\ files' = files /\ time' = time /\ manifests' = manifests
      /\ at' = [t \in Threads |-> IF In[t] = p THEN "idle" ELSE at[t]]
      /\ p \in Owners
  BY ServiceAssumption DEF Exit, ListEnds
<1>2. caches' \in [Owners -> Listings] /\ seen' \in [Threads -> Listings]
  BY <1>1, ListingsAreListings
<1>3. /\ \A q \in Owners : caches'[q].time <= time
      /\ \A t \in Threads : seen'[t].time <= time
  BY <1>1, ListingsAreListings, ListAssumption
<1>4. \A t \in Threads : at'[t] = "store" => at[t] = "store" /\ seen'[t] = seen[t]
  BY <1>1
<1>5. \A q \in Owners : caches'[q].kept => q # p /\ caches'[q] = caches[q]
  BY <1>1, ListingsAreListings
<1>6. \A t \in Threads : In[t] # p => at'[t] = at[t]
  BY <1>1
<1>7. ListIsCurrent'
  BY <1>1, <1>5, <1>6, ServiceAssumption DEF ListIsCurrent
<1>8. \A t \in Threads : outs'[t] # NoName => outs[t] # NoName
  BY <1>1
<1>9. ASSUME NEW q \in Owners, caches'[q].kept, caches'[q].sure,
             \E t \in Threads : outs[t] # NoName
      PROVE  \E t \in Threads : In[t] = q /\ at'[t] = "drop"
  BY <1>5, <1>6, <1>9
<1> QED
  BY <1>1, <1>2, <1>3, <1>4, <1>7, <1>8, <1>9 DEF Current

LEMMA NextLists ==
  ASSUME ListsHold, ScriptsHold, ThreadsHold, Next
  PROVE  ListsHold'
<1>1. ASSUME NEW t \in Threads, AcceptRequest(t) \/ RunCommand(t) \/ Configure(t)
      PROVE  ListsHold'
  <2>1. UNCHANGED listVars
    BY <1>1 DEF AcceptRequest, RunCommand, Configure
  <2>2. \E to \in Stages \ {"store"} : at[t] \notin {"drop", "forget"} /\ at' = [at EXCEPT ![t] = to]
    BY <1>1 DEF AcceptRequest, RunCommand, Configure, Goes, Stages, Kinds, Configuring
  <2>3. \A u \in Threads : at'[u] = at[u] \/ (at'[u] # "store" /\ at[u] \notin {"drop", "forget"})
    BY <2>2 DEF ThreadsHold
  <2> QED
    BY <2>1, <2>3, ListsStayed DEF listVars
<1>2. CASE StoreStep
  BY <1>2, ListsStayed DEF StoreStep, listVars
<1> QED
  BY <1>1, <1>2, ListScriptsKeepsLists, UnlockKeepsLists, ChangeKeepsLists, ExitKeepsLists
  DEF Next

-----------------------------------------------------------------------------
(* The theorems. *)

IInv == DepotsHold /\ ThreadsHold /\ SettingsHold /\ ScriptsHold /\ ListsHold

LEMMA InitIInv == Init => IInv
<1> SUFFICES ASSUME Init PROVE IInv
  OBVIOUS
<1>1. /\ DepotInit /\ ListInit(Known) /\ ConfigInit /\ at = [t \in Threads |-> "idle"]
      /\ game = [t \in Threads |-> NoName] /\ keys = [t \in Threads |-> {}] /\ served = 0
  BY DEF Init
<1>2. ThreadsHold
  <2>1. served \in 0 .. MaxRequests
    BY <1>1, ServiceAssumption
  <2> QED
    BY <1>1, <2>1 DEF ThreadsHold, Stages, Configuring
<1> QED
  BY <1>1, <1>2, DepotsAtFirst, SettingsAtFirst, ScriptsAtFirst, ListsAtFirst DEF IInv

LEMMA NextDepots ==
  ASSUME DepotsHold, Next
  PROVE  DepotsHold'
<1>1. ASSUME NEW t \in Threads,
             \/ AcceptRequest(t) \/ RunCommand(t) \/ ListScripts(t) \/ Unlock(t)
             \/ Change(t) \/ Configure(t)
      PROVE  DepotsHold'
  BY <1>1, DepotsStay
  DEF AcceptRequest, RunCommand, ListScripts, Unlock, Change, Configure, depotVars
<1>2. ASSUME NEW p \in Procs, Exit(p) PROVE DepotsHold'
  BY <1>2, ExitKeepsDepots DEF Exit
<1>3. CASE StoreStep
  BY <1>3, DepotStepKeepsDepots DEF StoreStep
<1> QED
  BY <1>1, <1>2, <1>3 DEF Next

LEMMA NextIInv ==
  ASSUME IInv, [Next]_vars
  PROVE  IInv'
<1>1. CASE Next
  BY <1>1, NextDepots, NextThreads, NextSettings, NextScripts, NextLists DEF IInv
<1>2. CASE UNCHANGED vars
  <2> USE <1>2 DEF vars, listVars, depotVars
  <2>1. DepotsHold'
    BY DepotsStay DEF IInv
  <2>2. ThreadsHold'
    BY DEF IInv, ThreadsHold
  <2>3. SettingsHold'
    BY SettingsStayed DEF IInv
  <2>4. ScriptsHold'
    BY ScriptsStayed DEF IInv
  <2>5. ListsHold'
    BY ListsStayed DEF IInv
  <2> QED
    BY <2>1, <2>2, <2>3, <2>4, <2>5 DEF IInv
<1> QED
  BY <1>1, <1>2

LEMMA Inductive == Spec => []IInv
<1> QED
  BY InitIInv, NextIInv, PTL DEF Spec

\* Every variable keeps its type, whatever the processes are at.
THEOREM TypeCorrect == Spec => []TypeOK
<1>1. IInv => TypeOK
  BY DEF IInv, TypeOK, DepotsHold, ThreadsHold, SettingsHold, ScriptsHold, ListsHold, Stages
<1> QED
  BY <1>1, Inductive, PTL

\* A cached listing that would be answered with is the directory as it is
\* (src/apps/manager/src/ScriptManager.cpp:433), for any number of threads and
\* processes, but for the listings that ListIsCurrent excepts.
THEOREM ListingsAreCurrent == Spec => []ListIsCurrent
<1>1. IInv => ListIsCurrent
  BY DEF IInv, ListsHold
<1> QED
  BY <1>1, Inductive, PTL

\* Acknowledged settings outlive any kill of the daemon
\* (src/apps/manager/src/ConfigManager.cpp:115), if requests do not overlap, no
\* write fails and no copy is cut.
THEOREM SettingsOutlive == Spec => []SettingsStay
<1>1. IInv => SettingsStay
  BY DEF IInv, SettingsHold, OneAtATime, SettingsStay
<1> QED
  BY <1>1, Inductive, PTL

\* A generated script has the keys of one whole database and of config.vdf
\* (src/apps/manager/src/DepotKeyStore.cpp:152), for any databases and crashes.
THEOREM ScriptsAreWhole == Spec => []ScriptKeysAreWhole
<1>1. ASSUME DepotsHold PROVE KeysAreWhole
  BY <1>1 DEF DepotsHold, StoreHolds, KeysAreWhole
<1>2. ASSUME ScriptsHold PROVE \A n \in Names : files[n].is = "script" => Proper(n[1], files[n].keys)
  BY <1>2 DEF ScriptsHold
<1>3. IInv => ScriptKeysAreWhole
  BY <1>1, <1>2 DEF IInv, ScriptKeysAreWhole, Proper
<1> QED
  BY <1>3, Inductive, PTL
=============================================================================
