--------------------------- MODULE CloudSaveProofs ---------------------------
(***************************************************************************)
(* Theorems about CloudSave, for any apps, files, workers and bounds: the  *)
(* lock file of an app belongs to the one operation that works on the app, *)
(* and from that follow what backups see and what retention keeps.         *)
(***************************************************************************)
EXTENDS CloudSave, FiniteSetTheorems, TLAPS

\* A worker inside an operation, between its guard and the guard's destructor.
Working(w) == pc[w] \in {"safeguard", "locate", "copy", "list", "fetch", "release"}

\* The lock of an app is held by the worker that works on it, and no other.
LockIsHolders ==
  /\ \A w \in Workers : Working(w) => lock[App(w)] = w
  /\ \A a \in Apps : lock[a] # NoWorker => Working(lock[a]) /\ App(lock[a]) = a

\* Restores alone fetch, and only what was listed of a snapshot that is there.
FetchIsListed ==
  /\ \A w \in Workers : pc[w] \in {"list", "fetch"} => job[w].op = "restore"
  /\ \A w \in Workers : pc[w] = "fetch" =>
       /\ server[App(w)][ts[w]] # NoSnapshot
       /\ todo[w] \subseteq Listed(server[App(w)][ts[w]])

LocalCopy(w) == pc[w] = "copy" /\ ~job[w].remote

\* Retention may be exceeded only by the backup that is about to prune.
BoundedUnlessCopied ==
  \A a \in Apps :
    \/ a \in unpruned
    \/ \E w \in Workers : LocalCopy(w) /\ App(w) = a
    \/ Cardinality(Existing(local, a)) <= Keep

\* The snapshot a backup makes is the newest of its app.
SnapshotIsNewest ==
  /\ \A a \in Apps : \A t \in Existing(local, a) : t <= clock
  /\ \A w \in Workers : LocalCopy(w) => \A t \in Existing(local, App(w)) : t <= ts[w]
  /\ \A w \in Workers : pc[w] = "copy" => ts[w] <= clock

\* A file that was copied is in that snapshot.
CopiedIsStored ==
  /\ \A w \in Workers : pc[w] \in {"idle", "guard", "safeguard", "locate", "list"} => ~some[w]
  /\ \A w \in Workers :
       (pc[w] \in {"copy", "release"} /\ ~job[w].remote /\ some[w]) =>
         local[App(w)][ts[w]] \notin {NoSnapshot, EmptySnapshot}

IInv ==
  /\ TypeOK
  /\ LockIsHolders
  /\ FetchIsListed
  /\ BoundedUnlessCopied
  /\ SnapshotIsNewest
  /\ CopiedIsStored

-----------------------------------------------------------------------------
(* Times, and the snapshots kept of a set of them. *)

LEMMA TimesAreNat == Times \subseteq Nat
BY DEF Times

LEMMA HasNewest ==
  ASSUME NEW T \in SUBSET Times, T # {}
  PROVE  /\ Newest(T) \in T
         /\ \A u \in T : u <= Newest(T)
<1> DEFINE U == {MaxTime - t : t \in T}
           R == {p \in Nat \X Nat : p[1] < p[2]}
<1>1. IsWellFoundedOn(R, Nat)
  BY NatLessThanWellFounded DEF OpToRel
<1>2. U \subseteq Nat /\ U # {} /\ T \subseteq Nat
  <2>1. \A t \in T : t \in Nat /\ MaxTime - t \in Nat
    BY CloudSaveAssumption DEF Times
  <2>2. PICK t \in T : TRUE
    OBVIOUS
  <2>3. MaxTime - t \in U
    OBVIOUS
  <2> QED
    BY <2>1, <2>3
<1>3. PICK x \in U : \A y \in U : <<y, x>> \notin R
  BY <1>1, <1>2, WFMin
<1>4. PICK t \in T : x = MaxTime - t
  OBVIOUS
<1>5. \A u \in T : u <= t
  <2> SUFFICES ASSUME NEW u \in T, ~(u <= t) PROVE FALSE
    OBVIOUS
  <2>1. MaxTime - u \in U /\ MaxTime - u \in Nat /\ x \in Nat
    BY <1>2
  <2>2. MaxTime - u < x
    BY <1>2, <1>4, CloudSaveAssumption
  <2> QED
    BY <1>3, <2>1, <2>2
<1> QED
  BY <1>5 DEF Newest

LEMMA HasOldest ==
  ASSUME NEW T \in SUBSET Times, T # {}
  PROVE  \E t \in T : \A u \in T : t <= u
<1> DEFINE R == {p \in Nat \X Nat : p[1] < p[2]}
<1>1. IsWellFoundedOn(R, Nat)
  BY NatLessThanWellFounded DEF OpToRel
<1>2. T \subseteq Nat
  BY DEF Times
<1>3. PICK x \in T : \A y \in T : <<y, x>> \notin R
  BY <1>1, <1>2, WFMin
<1>4. \A u \in T : x <= u
  <2> SUFFICES ASSUME NEW u \in T, ~(x <= u) PROVE FALSE
    OBVIOUS
  <2>1. u \in Nat /\ x \in Nat /\ u < x
    BY <1>2
  <2> QED
    BY <1>3, <2>1
<1> QED
  BY <1>4

LEMMA TimesFinite ==
  ASSUME NEW T \in SUBSET Times
  PROVE  IsFiniteSet(T) /\ Cardinality(T) \in Nat
<1>1. IsFiniteSet(Times)
  BY FS_Interval, CloudSaveAssumption DEF Times
<1> QED
  BY <1>1, FS_Subset, FS_CardinalityType

\* Retention keeps at most Keep snapshots ...
LEMMA KeptBounded ==
  ASSUME NEW T \in SUBSET Times
  PROVE  Kept(T) \subseteq T /\ Cardinality(Kept(T)) <= Keep
<1>1. Kept(T) \subseteq T
  BY DEF Kept
<1>2. CASE Kept(T) = {}
  BY <1>2, <1>1, FS_EmptySet, CloudSaveAssumption
<1>3. CASE Kept(T) # {}
  <2>1. PICK t \in Kept(T) : \A u \in Kept(T) : t <= u
    BY <1>1, <1>3, HasOldest
  <2> DEFINE later == {u \in T : u > t}
  <2>2. Kept(T) \ {t} \subseteq later
    <3>1. Kept(T) \subseteq Nat
      BY <1>1, TimesAreNat
    <3> SUFFICES ASSUME NEW u \in Kept(T), u # t PROVE u \in T /\ u > t
      OBVIOUS
    <3> QED
      BY <1>1, <2>1, <3>1
  <2>3. IsFiniteSet(later) /\ Cardinality(later) \in Nat
    BY TimesFinite
  <2>4. Cardinality(later) < Keep
    BY <2>1 DEF Kept
  <2>5. Cardinality(Kept(T) \ {t}) <= Cardinality(later)
    BY <2>2, <2>3, FS_Subset
  <2>6. IsFiniteSet(Kept(T)) /\ Cardinality(Kept(T)) \in Nat
    BY <1>1, TimesFinite
  <2>7. Cardinality(Kept(T) \ {t}) = Cardinality(Kept(T)) - 1
    BY <2>1, <2>6, FS_RemoveElement
  <2> QED
    BY <1>1, <2>3, <2>4, <2>5, <2>6, <2>7, CloudSaveAssumption
<1> QED
  BY <1>2, <1>3

\* ... among them the newest.
LEMMA NewestKept ==
  ASSUME NEW T \in SUBSET Times, NEW t \in T, \A u \in T : u <= t
  PROVE  t \in Kept(T)
<1>1. {u \in T : u > t} = {}
  <2> SUFFICES ASSUME NEW u \in T PROVE ~(u > t)
    OBVIOUS
  <2>1. u \in Nat /\ t \in Nat
    BY DEF Times
  <2> QED
    BY <2>1
<1>2. Cardinality({u \in T : u > t}) = 0
  BY <1>1, FS_EmptySet
<1> QED
  BY <1>2, CloudSaveAssumption DEF Kept

-----------------------------------------------------------------------------
(* The invariant holds at first. *)

Rest == LockIsHolders /\ FetchIsListed /\ BoundedUnlessCopied /\ SnapshotIsNewest /\ CopiedIsStored

LEMMA IdleTyped == Idle \in JobRecords
<1>1. AnyApp \in Apps
  BY CloudSaveAssumption DEF AnyApp
<1> QED
  BY <1>1 DEF Idle, JobRecords

LEMMA InitIInv == Init => IInv
<1> SUFFICES ASSUME Init PROVE IInv
  OBVIOUS
<1> USE CloudSaveAssumption DEF Init
<1>1. TypeOK
  <2>1. local \in Repository /\ server \in Repository
    BY DEF Repository
  <2>2. job \in [Workers -> JobRecords]
    BY IdleTyped
  <2>3. save \in [Apps -> [SaveFiles -> Versions]] /\ ts \in [Workers -> Times] /\ clock \in Times
    BY DEF Versions, Times
  <2> QED
    BY <2>1, <2>2, <2>3 DEF TypeOK, Places
<1>2. \A a \in Apps : Existing(local, a) = {}
  BY DEF Existing
<1>3. LockIsHolders /\ FetchIsListed /\ SnapshotIsNewest /\ CopiedIsStored
  BY <1>2 DEF LockIsHolders, FetchIsListed, SnapshotIsNewest, CopiedIsStored, Working, LocalCopy
<1>4. BoundedUnlessCopied
  <2>1. Cardinality({}) = 0 /\ 0 <= Keep
    BY FS_EmptySet
  <2> QED
    BY <1>2, <2>1 DEF BoundedUnlessCopied
<1> QED
  BY <1>1, <1>3, <1>4 DEF IInv

-----------------------------------------------------------------------------
(* Steps of the environment, of the core and of the entry points. *)

\* What is said of the workers, locks and repositories speaks of nothing else
\* but the clock.
LEMMA Frame ==
  ASSUME TypeOK, Rest, UNCHANGED <<lock, repoVars, workVars, unpruned>>,
         clock' \in Nat, clock <= clock'
  PROVE  Rest'
<1> USE DEF Rest, repoVars, workVars
<1>1. LockIsHolders' /\ FetchIsListed'
  BY DEF LockIsHolders, FetchIsListed, Working, App
<1>2. BoundedUnlessCopied' /\ CopiedIsStored'
  BY DEF BoundedUnlessCopied, CopiedIsStored, LocalCopy, App, Existing
<1>3. SnapshotIsNewest'
  <2>1. clock \in Nat /\ \A w \in Workers : ts[w] \in Nat
    BY TimesAreNat DEF TypeOK
  <2>2. \A a \in Apps : \A t \in Existing(local, a) : t \in Nat
    BY TimesAreNat DEF Existing
  <2> QED
    BY <2>1, <2>2 DEF SnapshotIsNewest, LocalCopy, App, Existing
<1> QED
  BY <1>1, <1>2, <1>3

\* A worker that starts has to pass its guard yet.
LEMMA Started ==
  ASSUME TypeOK, Rest, NEW w \in Workers, NEW j, Start(w, j),
         j \in JobRecords,
         UNCHANGED <<clock, lock, repoVars, ts, todo, some, unpruned>>
  PROVE  /\ Rest'
         /\ pc' \in [Workers -> Places] /\ job' \in [Workers -> JobRecords]
<1> USE DEF Rest, repoVars, Start, GoTo
<1>1. /\ pc[w] = "idle" /\ pc'[w] = "guard"
      /\ \A v \in Workers : v # w => pc'[v] = pc[v] /\ job'[v] = job[v]
  BY DEF TypeOK
<1>2. LockIsHolders' /\ FetchIsListed'
  BY <1>1 DEF LockIsHolders, FetchIsListed, Working, App, TypeOK
<1>3. CopiedIsStored' /\ SnapshotIsNewest'
  BY <1>1 DEF CopiedIsStored, SnapshotIsNewest, LocalCopy, App, Existing
<1>4. BoundedUnlessCopied'
  <2> SUFFICES ASSUME NEW a \in Apps, a \notin unpruned,
                      ~(Cardinality(Existing(local, a)) <= Keep)
               PROVE  \E v \in Workers : LocalCopy(v)' /\ App(v)' = a
    BY DEF BoundedUnlessCopied, Existing
  <2> QED
    BY <1>1 DEF BoundedUnlessCopied, LocalCopy, App
<1> QED
  BY <1>2, <1>3, <1>4 DEF TypeOK, Places

LEMMA EnvironmentInv ==
  ASSUME IInv, Tick \/ \E a \in Apps : GameExits(a)
  PROVE  IInv'
<1> USE DEF IInv, Rest
<1>1. CASE Tick
  <2> USE <1>1 DEF Tick
  <2>1. clock' \in Times /\ clock' \in Nat /\ clock <= clock'
    BY CloudSaveAssumption DEF Times, TypeOK
  <2>2. TypeOK'
    BY <2>1 DEF TypeOK, exitVars, repoVars, workVars, ghosts
  <2>3. Rest'
    BY <2>1, Frame DEF ghosts
  <2> QED
    BY <2>2, <2>3
<1>2. ASSUME NEW a \in Apps, GameExits(a) PROVE IInv'
  <2> USE <1>2 DEF GameExits
  <2>1. plays' \in 0 .. MaxPlays /\ plays' \in Versions
    BY CloudSaveAssumption DEF Versions, TypeOK
  <2>2. save' \in [Apps -> [SaveFiles -> Versions]]
    BY <2>1 DEF TypeOK
  <2>3. hooks' \subseteq HookRecords
    BY <2>1 DEF TypeOK, HookRecords
  <2>4. TypeOK'
    BY <2>1, <2>2, <2>3 DEF TypeOK, repoVars, workVars
  <2>5. clock' \in Nat /\ clock <= clock'
    BY TimesAreNat DEF TypeOK
  <2>6. Rest'
    BY <2>5, Frame
  <2> QED
    BY <2>4, <2>6
<1> QED
  BY <1>1, <1>2

LEMMA HookStepInv ==
  ASSUME IInv, NEW h \in hooks, HookStep(h)
  PROVE  IInv'
<1> USE DEF IInv, Rest
<1>1. /\ h \in HookRecords
      /\ clock \in Nat /\ clock <= clock
  BY TimesAreNat DEF TypeOK
<1>2. \A full \in BOOLEAN : EventOf(h, full) \in Events
  BY <1>1 DEF EventOf, Events, HookRecords
<1>3. \A place \in {"open", "write", "spawn"} :
        [h EXCEPT !.at = place] \in HookRecords
  BY <1>1 DEF HookRecords
<1>4. CASE OpenEvent(h) \/ WriteEvent(h)
  <2>1. /\ hooks' \subseteq HookRecords
        /\ events' \subseteq Events
        /\ UNCHANGED <<envVars, lock, repoVars, workVars, ghosts>>
    BY <1>2, <1>3, <1>4 DEF TypeOK, OpenEvent, WriteEvent, Advance
  <2>2. TypeOK'
    BY <2>1 DEF TypeOK, envVars, repoVars, workVars, ghosts
  <2>3. Rest'
    BY <1>1, <2>1, Frame DEF envVars, ghosts
  <2> QED
    BY <2>2, <2>3
<1>5. CASE SpawnCli(h)
  <2> USE <1>5 DEF SpawnCli
  <2>1. CASE ManagerKnown /\ h.app \in Synced
    <3> DEFINE j == [Idle EXCEPT !.op = "backup", !.app = h.app, !.remote = Url]
    <3>1. j \in JobRecords
      BY <1>1, IdleTyped DEF Idle, Url, JobRecords, HookRecords
    <3>2. PICK w \in Clis : Start(w, j)
      BY <2>1
    <3>3. w \in Workers
      BY DEF Workers
    <3> HIDE DEF j
    <3>4. TypeOK /\ Rest /\ UNCHANGED <<clock, lock, repoVars, ts, todo, some, unpruned>>
      BY DEF envVars, ghosts
    <3>5. /\ Rest'
          /\ pc' \in [Workers -> Places] /\ job' \in [Workers -> JobRecords]
      BY ONLY <3>1, <3>2, <3>3, <3>4, Started
    <3>6. TypeOK'
      BY <3>5 DEF TypeOK, envVars, repoVars, ghosts
    <3> QED
      BY <3>5, <3>6
  <2>2. CASE ~(ManagerKnown /\ h.app \in Synced)
    <3>1. UNCHANGED <<envVars, events, lock, repoVars, workVars, ghosts>>
      BY <2>2 DEF workVars
    <3>2. TypeOK'
      BY <3>1 DEF TypeOK, envVars, repoVars, workVars, ghosts
    <3>3. Rest'
      BY <1>1, <3>1, Frame DEF envVars, ghosts
    <3> QED
      BY <3>2, <3>3
  <2> QED
    BY <2>1, <2>2
<1> QED
  BY <1>4, <1>5 DEF HookStep

LEMMA DaemonTakesInv ==
  ASSUME IInv, NEW e \in events, DaemonTakes(e)
  PROVE  IInv'
<1> USE DEF IInv, Rest, DaemonTakes
<1>1. e \in Events /\ clock \in Nat /\ clock <= clock
  BY TimesAreNat DEF TypeOK
<1>2. CASE e.full
  <2> DEFINE j == [op |-> "backup", app |-> e.app, remote |-> config = "enabled", event |-> e]
  <2>1. j \in JobRecords
    BY <1>1 DEF Events, JobRecords
  <2>2. Start(Daemon, j) /\ Daemon \in Workers
    BY <1>2 DEF Workers
  <2> HIDE DEF j
  <2>3. TypeOK /\ Rest /\ UNCHANGED <<clock, lock, repoVars, ts, todo, some, unpruned>>
    BY DEF envVars
  <2>4. /\ Rest'
        /\ pc' \in [Workers -> Places] /\ job' \in [Workers -> JobRecords]
    BY ONLY <2>1, <2>2, <2>3, Started
  <2>5. TypeOK'
    BY <1>2, <2>4 DEF TypeOK, envVars, repoVars
  <2> QED
    BY <2>4, <2>5
<1>3. CASE ~e.full
  <2>1. /\ events' \subseteq Events /\ excused' \subseteq Apps
        /\ UNCHANGED <<envVars, hooks, lock, repoVars, workVars, unpruned>>
    BY <1>1, <1>3 DEF TypeOK, Events, workVars
  <2>2. TypeOK'
    BY <2>1 DEF TypeOK, envVars, repoVars, workVars
  <2>3. Rest'
    BY <1>1, <2>1, Frame DEF envVars
  <2> QED
    BY <2>2, <2>3
<1> QED
  BY <1>2, <1>3

LEMMA RequestInv ==
  ASSUME IInv, NEW w \in Workers, NEW op \in {"backup", "restore"}, NEW a \in Apps,
         Request(w, op, a)
  PROVE  IInv'
<1> USE DEF IInv, Rest, Request
<1> DEFINE j == [op |-> op, app |-> a, remote |-> Url, event |-> NoEvent]
<1>1. j \in JobRecords
  BY DEF Url, JobRecords
<1>2. Start(w, j)
  OBVIOUS
<1> HIDE DEF j
<1>3. TypeOK /\ Rest /\ UNCHANGED <<clock, lock, repoVars, ts, todo, some, unpruned>>
  BY DEF ghosts
<1>4. /\ Rest'
      /\ pc' \in [Workers -> Places] /\ job' \in [Workers -> JobRecords]
  BY ONLY <1>1, <1>2, <1>3, Started
<1>5. requests' \in 0 .. MaxRequests
  BY CloudSaveAssumption DEF TypeOK
<1>6. TypeOK'
  BY <1>4, <1>5 DEF TypeOK, exitVars, repoVars, ghosts
<1> QED
  BY <1>4, <1>6

-----------------------------------------------------------------------------
(* Steps of an operation. *)

LEMMA GuardInv ==
  ASSUME IInv, NEW w \in Workers, Guard(w)
  PROVE  IInv'
<1> USE DEF IInv, Guard, GoTo, repoVars
<1>1. /\ App(w) \in Apps /\ pc[w] = "guard" /\ NoWorker \notin Workers
      /\ \A v \in Workers : v # w => pc'[v] = pc[v]
      /\ \A v \in Workers : App(v)' = App(v) /\ (LocalCopy(v)' <=> LocalCopy(v))
  BY CloudSaveAssumption DEF TypeOK, App, LocalCopy, JobRecords
<1>2. TypeOK'
  <2>1. pc' \in [Workers -> Places]
    BY DEF TypeOK, Places
  <2>2. lock' \in [Apps -> Workers \cup {NoWorker}] /\ excused' \subseteq Apps
    BY <1>1 DEF TypeOK
  <2> QED
    BY <2>1, <2>2 DEF TypeOK, envVars, exitVars
<1>3. LockIsHolders'
  <2>1. CASE lock[App(w)] = NoWorker
    <3>1. /\ lock'[App(w)] = w /\ Working(w)'
          /\ \A a \in Apps : a # App(w) => lock'[a] = lock[a]
      BY <1>1, <2>1 DEF Working, TypeOK
    <3>2. \A v \in Workers : v # w => (Working(v)' <=> Working(v))
      BY <1>1 DEF Working
    <3>3. \A v \in Workers : Working(v) => App(v) # App(w)
      BY <1>1, <2>1 DEF LockIsHolders
    <3>4. \A a \in Apps : lock[a] # NoWorker => lock[a] \in Workers /\ lock[a] # w
      BY <1>1 DEF LockIsHolders, Working, TypeOK
    <3>5. \A v \in Workers : App(v) \in Apps
      BY DEF TypeOK, App, JobRecords
    <3> QED
      BY <1>1, <3>1, <3>2, <3>3, <3>4, <3>5 DEF LockIsHolders
  <2>2. CASE lock[App(w)] # NoWorker
    <3>1. \A v \in Workers : Working(v)' <=> Working(v)
      BY <1>1, <2>2 DEF Working, TypeOK
    <3> QED
      BY <1>1, <2>2, <3>1 DEF LockIsHolders, TypeOK
  <2> QED
    BY <2>1, <2>2
<1>4. FetchIsListed' /\ SnapshotIsNewest'
  BY <1>1 DEF FetchIsListed, SnapshotIsNewest, LocalCopy, App, Existing, TypeOK, envVars
<1>5. BoundedUnlessCopied'
  BY <1>1 DEF BoundedUnlessCopied, Existing
<1>6. CopiedIsStored'
  BY <1>1 DEF CopiedIsStored, App, TypeOK
<1> QED
  BY <1>2, <1>3, <1>4, <1>5, <1>6

LEMMA SafeguardInv ==
  ASSUME IInv, NEW w \in Workers, Safeguard(w)
  PROVE  IInv'
<1> USE DEF IInv, Safeguard, GoTo, repoVars
<1>1. /\ pc[w] = "safeguard" /\ pc'[w] = "locate"
      /\ \A v \in Workers : v # w => pc'[v] = pc[v]
      /\ \A v \in Workers : App(v)' = App(v) /\ (LocalCopy(v)' <=> LocalCopy(v))
  BY DEF TypeOK, App, LocalCopy
<1>2. TypeOK'
  BY <1>1 DEF TypeOK, Places, envVars, exitVars, ghosts
<1>3. LockIsHolders'
  BY <1>1 DEF LockIsHolders, Working, App, TypeOK
<1>4. FetchIsListed' /\ SnapshotIsNewest'
  BY <1>1 DEF FetchIsListed, SnapshotIsNewest, LocalCopy, App, Existing, envVars
<1>5. BoundedUnlessCopied'
  BY <1>1 DEF BoundedUnlessCopied, Existing, ghosts
<1>6. CopiedIsStored'
  BY <1>1 DEF CopiedIsStored, App
<1> QED
  BY <1>2, <1>3, <1>4, <1>5, <1>6

LEMMA LocateInv ==
  ASSUME IInv, NEW w \in Workers, Locate(w)
  PROVE  IInv'
<1> USE DEF IInv, Locate, GoTo, repoVars
<1>1. /\ pc[w] = "locate" /\ pc'[w] \in {"list", "copy", "release"} /\ ~some[w]
      /\ pc'[w] = "list" => job[w].op = "restore"
      /\ pc'[w] = "copy" => ts'[w] = clock
      /\ \A v \in Workers : v # w => /\ pc'[v] = pc[v] /\ ts'[v] = ts[v] /\ todo'[v] = todo[v]
                                     /\ LocalCopy(v)' <=> LocalCopy(v)
      /\ \A v \in Workers : App(v)' = App(v)
  BY DEF TypeOK, App, LocalCopy, CopiedIsStored
<1>2. TypeOK'
  <2>1. pc' \in [Workers -> Places] /\ ts' \in [Workers -> Times]
    BY DEF TypeOK, Places, envVars
  <2>2. todo' \in [Workers -> SUBSET SaveFiles]
    BY DEF TypeOK
  <2> QED
    BY <2>1, <2>2 DEF TypeOK, envVars, exitVars, ghosts
<1>3. LockIsHolders'
  BY <1>1 DEF LockIsHolders, Working, App, TypeOK
<1>4. FetchIsListed'
  BY <1>1 DEF FetchIsListed
<1>5. SnapshotIsNewest'
  <2>1. clock \in Nat /\ App(w) \in Apps /\ UNCHANGED <<clock, local>>
    BY TimesAreNat DEF TypeOK, App, envVars, JobRecords
  <2>2. \A a \in Apps : \A t \in Existing(local, a)' : t <= clock'
    BY <2>1 DEF SnapshotIsNewest, Existing
  <2>3. ASSUME NEW v \in Workers, LocalCopy(v)'
        PROVE  \A t \in Existing(local, App(v))' : t <= ts'[v]
    <3>1. CASE v = w
      BY <1>1, <2>1, <2>2, <2>3, <3>1 DEF LocalCopy, App
    <3>2. CASE v # w
      BY <1>1, <2>1, <2>3, <3>2 DEF SnapshotIsNewest, Existing, App
    <3> QED
      BY <3>1, <3>2
  <2>4. \A v \in Workers : pc'[v] = "copy" => ts'[v] <= clock'
    BY <1>1, <2>1 DEF SnapshotIsNewest
  <2> QED
    BY <2>2, <2>3, <2>4 DEF SnapshotIsNewest
<1>6. BoundedUnlessCopied'
  <2> SUFFICES ASSUME NEW a \in Apps, a \notin unpruned,
                      ~(Cardinality(Existing(local, a)) <= Keep)
               PROVE  \E v \in Workers : LocalCopy(v)' /\ App(v)' = a
    BY DEF BoundedUnlessCopied, Existing, ghosts
  <2> QED
    BY <1>1 DEF BoundedUnlessCopied, LocalCopy
<1>7. CopiedIsStored'
  BY <1>1 DEF CopiedIsStored, App
<1> QED
  BY <1>2, <1>3, <1>4, <1>5, <1>6, <1>7

LEMMA ThrowsInv ==
  ASSUME IInv, NEW w \in Workers, Throws(w)
  PROVE  IInv'
<1> USE DEF IInv, Throws, GoTo, repoVars
<1>1. /\ pc[w] \in {"locate", "copy"} /\ pc'[w] = "release" /\ App(w) \in Apps
      /\ unpruned' = IF LocalCopy(w) THEN unpruned \cup {App(w)} ELSE unpruned
      /\ \A v \in Workers : v # w => pc'[v] = pc[v] /\ (LocalCopy(v)' <=> LocalCopy(v))
      /\ \A v \in Workers : App(v)' = App(v)
  BY DEF TypeOK, App, LocalCopy, JobRecords
<1>2. TypeOK'
  <2>1. pc' \in [Workers -> Places] /\ unpruned' \subseteq Apps /\ excused' \subseteq Apps
    BY <1>1 DEF TypeOK, Places
  <2> QED
    BY <2>1 DEF TypeOK, envVars, exitVars
<1>3. LockIsHolders'
  BY <1>1 DEF LockIsHolders, Working, App, TypeOK
<1>4. FetchIsListed' /\ SnapshotIsNewest'
  BY <1>1 DEF FetchIsListed, SnapshotIsNewest, LocalCopy, App, Existing, envVars
<1>5. BoundedUnlessCopied'
  <2> SUFFICES ASSUME NEW a \in Apps, a \notin unpruned',
                      ~(Cardinality(Existing(local, a)) <= Keep)
               PROVE  \E v \in Workers : LocalCopy(v)' /\ App(v)' = a
    BY DEF BoundedUnlessCopied, Existing
  <2>1. PICK v \in Workers : LocalCopy(v) /\ App(v) = a
    BY <1>1 DEF BoundedUnlessCopied
  <2>2. v # w
    BY <1>1, <2>1
  <2> QED
    BY <1>1, <2>1, <2>2
<1>6. CopiedIsStored'
  BY <1>1 DEF CopiedIsStored, App
<1> QED
  BY <1>2, <1>3, <1>4, <1>5, <1>6

\* Two workers inside operations work on different apps.
LEMMA Exclusive ==
  ASSUME LockIsHolders, NEW v \in Workers, NEW w \in Workers, Working(v), Working(w), v # w
  PROVE  App(v) # App(w)
BY DEF LockIsHolders

\* A repository with one snapshot replaced.
LEMMA StoredSnapshot ==
  ASSUME TypeOK, NEW w \in Workers, NEW repo \in Repository, NEW c \in Content
  PROVE  /\ Stored(repo, w, c) \in Repository
         /\ Stored(repo, w, c)[App(w)][ts[w]] = c
         /\ \A a \in Apps, t \in Times :
              (a # App(w) \/ t # ts[w]) => Stored(repo, w, c)[a][t] = repo[a][t]
<1>1. App(w) \in Apps /\ ts[w] \in Times
  BY DEF TypeOK, App, JobRecords
<1> QED
  BY <1>1 DEF Stored, Repository

\* What a worker writes into its snapshot.
LEMMA WrittenSnapshot ==
  ASSUME TypeOK, NEW w \in Workers, NEW repo \in Repository, NEW f \in SaveFiles
  PROVE  LET c == [Begun(repo, w) EXCEPT ![f] = save[App(w)][f]]
         IN  /\ Begun(repo, w) \in Content /\ Begun(repo, w) # NoSnapshot
             /\ c \in Content /\ c \notin {NoSnapshot, EmptySnapshot}
<1> DEFINE b == Begun(repo, w)
           c == [b EXCEPT ![f] = save[App(w)][f]]
<1>1. /\ App(w) \in Apps /\ ts[w] \in Times /\ repo[App(w)][ts[w]] \in Content \cup {NoSnapshot}
      /\ save[App(w)][f] \in Versions /\ Versions \subseteq Nat /\ MaxPlays \in Nat
  BY CloudSaveAssumption DEF TypeOK, App, JobRecords, Repository, Versions
<1>2. EmptySnapshot \in Content
  BY DEF EmptySnapshot, Content
<1>3. b \in Content
  BY <1>1, <1>2 DEF Begun
<1>4. \A s \in Content : s # NoSnapshot
  BY DEF Content, NoSnapshot
<1>5. save[App(w)][f] # Missing /\ save[App(w)][f] \in Versions \cup {Missing}
  BY <1>1, CloudSaveAssumption DEF Versions, Missing
<1> HIDE DEF b
<1>6. c \in Content /\ c[f] = save[App(w)][f]
  BY <1>3, <1>5 DEF Content
<1>7. c # EmptySnapshot
  BY <1>5, <1>6 DEF EmptySnapshot
<1> QED
  BY <1>3, <1>4, <1>6, <1>7 DEF b

LEMMA CopyFileInv ==
  ASSUME IInv, NEW w \in Workers, NEW f \in SaveFiles, CopyFile(w, f)
  PROVE  IInv'
<1> USE DEF IInv
<1>1. PICK done \in BOOLEAN :
        LET put(repo) == Stored(repo, w, IF done THEN [Begun(repo, w) EXCEPT ![f] = save[App(w)][f]]
                                                 ELSE Begun(repo, w))
        IN  /\ IF job[w].remote
                 THEN server' \in {put(server), server} /\ UNCHANGED local
                 ELSE local' = put(local) /\ UNCHANGED server
            /\ some' = [some EXCEPT ![w] = @ \/ done]
  BY DEF CopyFile
<1> DEFINE written(repo) == IF done THEN [Begun(repo, w) EXCEPT ![f] = save[App(w)][f]]
                                    ELSE Begun(repo, w)
<1>2. /\ pc[w] = "copy" /\ App(w) \in Apps /\ ts[w] \in Times /\ Working(w)
      /\ UNCHANGED <<envVars, exitVars, lock, pc, job, ts, unpruned>>
      /\ todo' = [todo EXCEPT ![w] = @ \ {f}]
      /\ excused' \subseteq Apps
  BY DEF CopyFile, TypeOK, App, JobRecords, Working
<1>3. \A repo \in {local, server} :
        written(repo) \in Content /\ written(repo) # NoSnapshot /\ (done => written(repo) # EmptySnapshot)
  <2>1. local \in Repository /\ server \in Repository
    BY DEF TypeOK
  <2> QED
    BY <2>1, WrittenSnapshot
<1>4. /\ IF job[w].remote
           THEN server' \in {Stored(server, w, written(server)), server} /\ local' = local
           ELSE local' = Stored(local, w, written(local)) /\ server' = server
      /\ some' = [some EXCEPT ![w] = @ \/ done]
  BY <1>1
<1> HIDE DEF written
<1>5. /\ server' \in Repository /\ local' \in Repository
      /\ \A a \in Apps, t \in Times :
           (a # App(w) \/ t # ts[w]) => local'[a][t] = local[a][t] /\ server'[a][t] = server[a][t]
      /\ job[w].remote => local' = local
      /\ ~job[w].remote => local'[App(w)][ts[w]] = written(local)
  <2>1. local \in Repository /\ server \in Repository
    BY DEF TypeOK
  <2> QED
    BY <1>2, <1>3, <1>4, <2>1, StoredSnapshot
<1>6. TypeOK'
  <2>1. some' \in [Workers -> BOOLEAN]
    BY <1>4 DEF TypeOK
  <2>2. todo' \in [Workers -> SUBSET SaveFiles]
    BY <1>2 DEF TypeOK
  <2> QED
    BY <1>2, <1>5, <2>1, <2>2 DEF TypeOK, envVars, exitVars
<1>7. \A v \in Workers : App(v)' = App(v) /\ LocalCopy(v)' = LocalCopy(v) /\ Working(v)' = Working(v)
  BY <1>2 DEF App, LocalCopy, Working
<1>8. LockIsHolders'
  BY <1>2, <1>7 DEF LockIsHolders, TypeOK
<1>9. \A v \in Workers : App(v) \in Apps /\ ts[v] \in Times
  BY DEF TypeOK, App, JobRecords
<1>10. FetchIsListed'
  <2> SUFFICES ASSUME NEW v \in Workers, pc[v] = "fetch"
               PROVE  /\ server'[App(v)][ts[v]] # NoSnapshot
                      /\ todo'[v] \subseteq Listed(server'[App(v)][ts[v]])
    BY <1>2, <1>7 DEF FetchIsListed, Listed
  <2>1. v # w /\ Working(v)
    BY <1>2 DEF Working
  <2>2. server'[App(v)][ts[v]] = server[App(v)][ts[v]] /\ todo'[v] = todo[v]
    BY <1>2, <1>5, <1>9, <2>1, Exclusive DEF TypeOK
  <2> QED
    BY <2>2 DEF FetchIsListed
<1>11. BoundedUnlessCopied'
  <2> SUFFICES ASSUME NEW a \in Apps, a \notin unpruned,
                      ~ \E v \in Workers : LocalCopy(v) /\ App(v) = a
               PROVE  Cardinality(Existing(local', a)) <= Keep
    BY <1>2, <1>7 DEF BoundedUnlessCopied, Existing
  <2>1. job[w].remote \/ a # App(w)
    BY <1>2 DEF LocalCopy
  <2>2. Existing(local', a) = Existing(local, a)
    BY <1>5, <2>1 DEF Existing
  <2> QED
    BY <2>2 DEF BoundedUnlessCopied
<1>12. SnapshotIsNewest'
  <2>1. /\ UNCHANGED clock /\ ts[w] <= clock
        /\ \A t \in Times : t <= t
    BY <1>2, TimesAreNat DEF SnapshotIsNewest, envVars
  <2>2. \A a \in Apps : \A t \in Existing(local', a) :
          t \in Existing(local, a) \/ (a = App(w) /\ t = ts[w])
    BY <1>5 DEF Existing
  <2>3. \A a \in Apps : \A t \in Existing(local', a) : t <= clock
    BY <2>1, <2>2 DEF SnapshotIsNewest
  <2>4. ASSUME NEW v \in Workers, LocalCopy(v)
        PROVE  \A t \in Existing(local', App(v)) : t <= ts[v]
    <3>1. CASE v = w
      BY <1>2, <2>1, <2>2, <2>4, <3>1 DEF SnapshotIsNewest
    <3>2. CASE v # w
      <4>1. App(v) # App(w)
        BY <1>2, <2>4, <3>2, Exclusive DEF LocalCopy, Working
      <4> QED
        BY <1>9, <2>2, <2>4, <4>1 DEF SnapshotIsNewest
    <3> QED
      BY <3>1, <3>2
  <2>5. Existing(local, App(w))' = Existing(local', App(w))
    BY <1>7 DEF Existing
  <2> QED
    BY <1>2, <1>7, <2>1, <2>3, <2>4 DEF SnapshotIsNewest, Existing
<1>13. CopiedIsStored'
  <2>1. \A v \in Workers : v # w => some'[v] = some[v]
    BY <1>4 DEF TypeOK
  <2>2. ASSUME NEW v \in Workers, pc[v] \in {"copy", "release"}, ~job[v].remote, some'[v]
        PROVE  local'[App(v)][ts[v]] \notin {NoSnapshot, EmptySnapshot}
    <3>1. CASE v # w
      <4>1. App(v) # App(w)
        BY <1>2, <2>2, <3>1, Exclusive DEF Working
      <4> QED
        BY <1>5, <1>9, <2>1, <2>2, <3>1, <4>1 DEF CopiedIsStored
    <3>2. CASE v = w /\ done
      BY <1>3, <1>5, <2>2, <3>2
    <3>3. CASE v = w /\ ~done
      <4>1. some[w]
        BY <1>4, <2>2, <3>3 DEF TypeOK
      <4>2. local[App(w)][ts[w]] \notin {NoSnapshot, EmptySnapshot}
        BY <2>2, <3>3, <4>1 DEF CopiedIsStored
      <4>3. written(local) = local[App(w)][ts[w]]
        BY <3>3, <4>2 DEF written, Begun
      <4> QED
        BY <1>5, <2>2, <3>3, <4>2, <4>3
    <3> QED
      BY <3>1, <3>2, <3>3
  <2>3. \A v \in Workers : pc[v] \in {"idle", "guard", "safeguard", "locate", "list"} => ~some'[v]
    BY <1>2, <2>1 DEF CopiedIsStored
  <2> QED
    BY <1>2, <1>7, <2>2, <2>3 DEF CopiedIsStored
<1> QED
  BY <1>6, <1>8, <1>10, <1>11, <1>12, <1>13

\* What a prune leaves alone, and that it is complete unless it says otherwise.
LEMMA PruneLeaves ==
  ASSUME TypeOK, NEW w \in Workers, Prune(w)
  PROVE  /\ \A a \in Apps : a # App(w) => local'[a] = local[a]
         /\ \A t \in Kept(Existing(local, App(w))) : local'[App(w)][t] = local[App(w)][t]
         /\ Existing(local', App(w)) \subseteq Existing(local, App(w))
         /\ App(w) \notin unpruned' =>
              Existing(local', App(w)) = Kept(Existing(local, App(w)))
         /\ local' \in Repository /\ unpruned' \subseteq Apps
         /\ \A a \in Apps : a # App(w) => (a \in unpruned' <=> a \in unpruned)
<1> DEFINE T == Existing(local, App(w))
<1>1. /\ App(w) \in Apps /\ T \in SUBSET Times /\ local \in Repository /\ Kept(T) \subseteq T
      /\ unpruned \subseteq Apps
  BY KeptBounded DEF TypeOK, App, JobRecords, Existing
<1>2. PICK left \in [Times -> Content \cup {NoSnapshot}] :
        /\ \A t \in Times : IF t \in T \ Kept(T) THEN left[t] \in Remains(local[App(w)][t])
                            ELSE left[t] = local[App(w)][t]
        /\ local' = [local EXCEPT ![App(w)] = left]
        /\ unpruned' = IF \E t \in T \ Kept(T) : left[t] # NoSnapshot
                       THEN unpruned \cup {App(w)} ELSE unpruned \ {App(w)}
  BY DEF Prune
<1>3. /\ local'[App(w)] = left /\ \A a \in Apps : a # App(w) => local'[a] = local[a]
      /\ local' \in Repository
  BY <1>1, <1>2 DEF Repository
<1>4. Existing(local', App(w)) \subseteq T
  BY <1>2, <1>3 DEF Existing
<1>5. \A t \in Kept(T) : left[t] = local[App(w)][t]
  BY <1>1, <1>2
<1>6. ASSUME App(w) \notin unpruned' PROVE Existing(local', App(w)) = Kept(T)
  <2>1. \A t \in T \ Kept(T) : left[t] = NoSnapshot
    BY <1>1, <1>2, <1>6
  <2> QED
    BY <1>1, <1>3, <1>4, <1>5, <2>1 DEF Existing
<1> QED
  BY <1>1, <1>2, <1>3, <1>4, <1>5, <1>6

LEMMA PruneInv ==
  ASSUME IInv, NEW w \in Workers, Prune(w)
  PROVE  IInv'
<1> USE DEF IInv, GoTo
<1> DEFINE T == Existing(local, App(w))
<1>1. /\ pc[w] = "copy" /\ ~job[w].remote /\ pc'[w] = "release" /\ Working(w)
      /\ App(w) \in Apps /\ ts[w] \in Times /\ T \in SUBSET Times
      /\ \A v \in Workers : v # w => pc'[v] = pc[v]
      /\ \A v \in Workers : App(v)' = App(v) /\ App(v) \in Apps /\ ts[v] \in Times
      /\ UNCHANGED <<envVars, exitVars, lock, server, job, ts, todo, some, excused>>
  BY DEF Prune, TypeOK, App, JobRecords, Working, Existing
<1>2. /\ \A a \in Apps : a # App(w) => local'[a] = local[a]
      /\ \A t \in Kept(T) : local'[App(w)][t] = local[App(w)][t]
      /\ local' \in Repository /\ unpruned' \subseteq Apps
      /\ \A a \in Apps : a # App(w) => (a \in unpruned' <=> a \in unpruned)
  BY PruneLeaves
<1>3. /\ Existing(local', App(w)) \subseteq T
      /\ App(w) \notin unpruned' => Existing(local', App(w)) = Kept(T)
  BY PruneLeaves
<1>4. TypeOK'
  <2>1. pc' \in [Workers -> Places]
    BY DEF Prune, TypeOK, Places
  <2> QED
    BY <1>1, <1>2, <2>1 DEF TypeOK, envVars, exitVars
<1>5. LockIsHolders'
  BY <1>1 DEF LockIsHolders, Working, TypeOK, App
<1>6. FetchIsListed'
  BY <1>1 DEF FetchIsListed
<1>7. BoundedUnlessCopied'
  <2> SUFFICES ASSUME NEW a \in Apps, a \notin unpruned',
                      ~(Cardinality(Existing(local', a)) <= Keep)
               PROVE  \E v \in Workers : LocalCopy(v)' /\ App(v)' = a
    BY DEF BoundedUnlessCopied, Existing
  <2>1. a # App(w)
    BY <1>1, <1>3, KeptBounded DEF Existing
  <2>2. Existing(local', a) = Existing(local, a)
    BY <1>2, <2>1 DEF Existing
  <2>3. PICK v \in Workers : LocalCopy(v) /\ App(v) = a
    BY <1>2, <2>1, <2>2 DEF BoundedUnlessCopied
  <2> QED
    BY <1>1, <2>1, <2>3 DEF LocalCopy
<1>8. SnapshotIsNewest'
  <2>1. \A a \in Apps : Existing(local', a) \subseteq Existing(local, a)
    BY <1>2, <1>3 DEF Existing
  <2>2. UNCHANGED <<clock, ts, job>> /\ \A v \in Workers : Existing(local, App(v))' = Existing(local', App(v))
    BY <1>1 DEF envVars, Existing
  <2> QED
    BY <1>1, <2>1, <2>2 DEF SnapshotIsNewest, LocalCopy, Existing
<1>9. CopiedIsStored'
  <2> SUFFICES ASSUME NEW v \in Workers, pc'[v] \in {"copy", "release"}, ~job[v].remote, some[v]
               PROVE  local'[App(v)][ts[v]] \notin {NoSnapshot, EmptySnapshot}
    BY <1>1 DEF CopiedIsStored
  <2>1. pc[v] \in {"copy", "release"}
    BY <1>1
  <2>2. local[App(v)][ts[v]] \notin {NoSnapshot, EmptySnapshot}
    BY <2>1 DEF CopiedIsStored
  <2>3. CASE v = w
    <3>1. ts[w] \in T /\ \A t \in T : t <= ts[w]
      BY <1>1, <2>2, <2>3 DEF SnapshotIsNewest, LocalCopy, Existing
    <3>2. ts[w] \in Kept(T)
      BY <1>1, <3>1, NewestKept
    <3> QED
      BY <1>1, <1>2, <2>2, <2>3, <3>2
  <2>4. CASE v # w
    <3>1. App(v) # App(w)
      BY <1>1, <2>1, <2>4, Exclusive DEF Working
    <3> QED
      BY <1>1, <1>2, <2>2, <3>1
  <2> QED
    BY <2>3, <2>4
<1> QED
  BY <1>4, <1>5, <1>6, <1>7, <1>8, <1>9

LEMMA ListInv ==
  ASSUME IInv, NEW w \in Workers, List(w)
  PROVE  IInv'
<1> USE DEF IInv, List, GoTo, repoVars
<1>1. /\ pc[w] = "list" /\ pc'[w] \in {"fetch", "release"} /\ ~some[w] /\ App(w) \in Apps
      /\ \A v \in Workers : v # w => pc'[v] = pc[v] /\ ts'[v] = ts[v] /\ todo'[v] = todo[v]
      /\ \A v \in Workers : App(v)' = App(v) /\ (LocalCopy(v)' <=> LocalCopy(v))
      /\ Existing(server, App(w)) \in SUBSET Times
  BY DEF TypeOK, App, JobRecords, LocalCopy, CopiedIsStored, Existing
<1> DEFINE Typed == /\ ts' \in [Workers -> Times] /\ todo' \in [Workers -> SUBSET SaveFiles]
                    /\ FetchIsListed'
<1>2. ASSUME pc' = [pc EXCEPT ![w] = "fetch"], Existing(server, App(w)) # {},
             ts' = [ts EXCEPT ![w] = Newest(Existing(server, App(w)))],
             todo' = [todo EXCEPT ![w] = Listed(server[App(w)][Newest(Existing(server, App(w)))])]
      PROVE  Typed
  <2> DEFINE t == Newest(Existing(server, App(w)))
  <2>1. /\ Existing(server, App(w)) # {} /\ ts' = [ts EXCEPT ![w] = t]
        /\ todo' = [todo EXCEPT ![w] = Listed(server[App(w)][t])]
    BY <1>2
  <2>2. t \in Times /\ server[App(w)][t] # NoSnapshot
    <3>1. t \in Existing(server, App(w))
      BY <1>1, <2>1, HasNewest
    <3> QED
      BY <3>1 DEF Existing
  <2> HIDE DEF t
  <2>3. ts' \in [Workers -> Times] /\ ts'[w] = t
    BY <2>1, <2>2 DEF TypeOK
  <2>4. todo' \in [Workers -> SUBSET SaveFiles] /\ todo'[w] = Listed(server[App(w)][t])
    BY <2>1 DEF TypeOK, Listed
  <2>5. FetchIsListed'
    BY <1>1, <2>2, <2>3, <2>4 DEF FetchIsListed, Listed
  <2> QED
    BY <2>3, <2>4, <2>5
<1>3. ASSUME pc' = [pc EXCEPT ![w] = "release"], UNCHANGED <<ts, todo>>
      PROVE  Typed
  <2>1. pc'[w] = "release"
    BY <1>3 DEF TypeOK
  <2>2. FetchIsListed'
    BY <1>1, <1>3, <2>1 DEF FetchIsListed
  <2> QED
    BY <1>3, <2>2 DEF TypeOK
<1>4. Typed
  BY <1>2, <1>3
<1>5. TypeOK'
  <2>1. pc' \in [Workers -> Places] /\ excused' \subseteq Apps
    BY <1>1 DEF TypeOK, Places
  <2> QED
    BY <1>4, <2>1 DEF TypeOK, envVars, exitVars
<1>6. LockIsHolders'
  BY <1>1 DEF LockIsHolders, Working, TypeOK
<1>7. BoundedUnlessCopied'
  BY <1>1 DEF BoundedUnlessCopied, Existing
<1>8. SnapshotIsNewest'
  BY <1>1 DEF SnapshotIsNewest, LocalCopy, Existing, envVars
<1>9. CopiedIsStored'
  BY <1>1 DEF CopiedIsStored
<1> QED
  BY <1>4, <1>5, <1>6, <1>7, <1>8, <1>9

LEMMA FetchFileInv ==
  ASSUME IInv, NEW w \in Workers, NEW f \in SaveFiles, FetchFile(w, f)
  PROVE  IInv'
<1> USE DEF IInv, FetchFile, repoVars, exitVars
<1>1. /\ pc[w] = "fetch" /\ f \in todo[w] /\ App(w) \in Apps /\ ts[w] \in Times
      /\ UNCHANGED <<clock, local, server, lock, pc, job, ts, unpruned>>
      /\ todo' = [todo EXCEPT ![w] = @ \ {f}]
      /\ \A v \in Workers : v # w => some'[v] = some[v]
      /\ \A v \in Workers : App(v)' = App(v)
  BY DEF TypeOK, App, JobRecords, ghosts
<1>2. server[App(w)][ts[w]][f] \in Versions
  <2>1. server[App(w)][ts[w]] \in Content /\ f \in Listed(server[App(w)][ts[w]])
    BY <1>1 DEF FetchIsListed, TypeOK, Repository
  <2> QED
    BY <2>1 DEF Content, Listed
<1>3. TypeOK'
  <2>1. save' \in [Apps -> [SaveFiles -> Versions]]
    <3> DEFINE fetched == server[App(w)][ts[w]][f]
               a == App(w)
    <3>1. \/ save' = [save EXCEPT ![a] = [@ EXCEPT ![f] = fetched]]
          \/ save' = save
      OBVIOUS
    <3>2. a \in Apps /\ fetched \in Versions /\ save \in [Apps -> [SaveFiles -> Versions]]
      BY <1>1, <1>2 DEF TypeOK
    <3> HIDE DEF fetched, a
    <3> QED
      BY ONLY <3>1, <3>2
  <2>2. todo' \in [Workers -> SUBSET SaveFiles] /\ some' \in [Workers -> BOOLEAN]
    BY <1>1 DEF TypeOK
  <2> QED
    BY <2>1, <2>2 DEF TypeOK, ghosts
<1>4. LockIsHolders' /\ BoundedUnlessCopied'
  BY <1>1 DEF LockIsHolders, Working, App, BoundedUnlessCopied, LocalCopy, Existing
<1>5. FetchIsListed'
  <2>1. \A v \in Workers : todo'[v] \subseteq todo[v]
    BY <1>1 DEF TypeOK
  <2> QED
    BY <1>1, <2>1 DEF FetchIsListed, Listed
<1>6. SnapshotIsNewest'
  BY <1>1 DEF SnapshotIsNewest, LocalCopy, App, Existing
<1>7. CopiedIsStored'
  BY <1>1 DEF CopiedIsStored
<1> QED
  BY <1>3, <1>4, <1>5, <1>6, <1>7

LEMMA ReleaseInv ==
  ASSUME IInv, NEW w \in Workers, Release(w)
  PROVE  IInv'
<1> USE DEF IInv, Release, GoTo, repoVars
<1>1. /\ Working(w) /\ ~LocalCopy(w) /\ pc'[w] = "end" /\ App(w) \in Apps
      /\ \A v \in Workers : v # w => pc'[v] = pc[v]
      /\ \A v \in Workers : App(v)' = App(v) /\ (LocalCopy(v)' <=> LocalCopy(v))
      /\ \A v \in Workers : App(v) \in Apps
  BY DEF TypeOK, App, JobRecords, Working, LocalCopy, Over
<1>2. /\ lock'[App(w)] = NoWorker /\ \A a \in Apps : a # App(w) => lock'[a] = lock[a]
      /\ lock' \in [Apps -> Workers \cup {NoWorker}]
  BY <1>1 DEF TypeOK
<1>3. TypeOK'
  <2>1. pc' \in [Workers -> Places]
    BY DEF TypeOK, Places
  <2> QED
    BY <1>2, <2>1 DEF TypeOK, envVars, exitVars, ghosts
<1>4. LockIsHolders'
  <2>1. ASSUME NEW v \in Workers, Working(v)' PROVE lock'[App(v)] = v
    <3>1. v # w /\ Working(v)
      BY <1>1, <2>1 DEF Working
    <3> QED
      BY <1>1, <1>2, <3>1, Exclusive DEF LockIsHolders
  <2>2. ASSUME NEW a \in Apps, lock'[a] # NoWorker
        PROVE  Working(lock[a])' /\ App(lock[a])' = a
    <3>1. a # App(w) /\ lock'[a] = lock[a]
      BY <1>2, <2>2
    <3>2. Working(lock[a]) /\ App(lock[a]) = a /\ lock[a] \in Workers
      BY <2>2, <3>1 DEF LockIsHolders, TypeOK
    <3>3. pc'[lock[a]] = pc[lock[a]] /\ job' = job
      BY <1>1, <3>1, <3>2
    <3> QED
      BY <3>1, <3>2, <3>3 DEF Working, App
  <2>3. \A a \in Apps : lock'[a] # NoWorker => lock'[a] \in Workers
    BY <1>2
  <2> QED
    BY <1>1, <2>1, <2>2, <2>3 DEF LockIsHolders, App
<1>5. FetchIsListed' /\ SnapshotIsNewest'
  BY <1>1 DEF FetchIsListed, SnapshotIsNewest, LocalCopy, Existing, envVars
<1>6. BoundedUnlessCopied'
  BY <1>1 DEF BoundedUnlessCopied, Existing, ghosts
<1>7. CopiedIsStored'
  BY <1>1 DEF CopiedIsStored
<1> QED
  BY <1>3, <1>4, <1>5, <1>6, <1>7

LEMMA EndInv ==
  ASSUME IInv, NEW w \in Workers, End(w)
  PROVE  IInv'
<1> USE DEF IInv, End, GoTo, repoVars
<1>1. /\ pc[w] = "end" /\ pc'[w] = "idle" /\ ~some'[w]
      /\ \A v \in Workers : v # w => /\ pc'[v] = pc[v] /\ job'[v] = job[v] /\ ts'[v] = ts[v]
                                     /\ todo'[v] = todo[v] /\ some'[v] = some[v]
  BY DEF TypeOK
<1>2. \A v \in Workers : v # w => App(v)' = App(v) /\ (LocalCopy(v)' <=> LocalCopy(v))
  BY <1>1 DEF App, LocalCopy
<1>3. ~Working(w) /\ ~Working(w)' /\ ~LocalCopy(w) /\ ~LocalCopy(w)'
  BY <1>1 DEF Working, LocalCopy
<1>4. TypeOK'
  <2>1. job' \in [Workers -> JobRecords]
    BY IdleTyped DEF TypeOK
  <2>2. ts' \in [Workers -> Times] /\ pc' \in [Workers -> Places]
    BY CloudSaveAssumption DEF TypeOK, Times, Places
  <2>3. todo' \in [Workers -> SUBSET SaveFiles] /\ some' \in [Workers -> BOOLEAN]
    BY DEF TypeOK
  <2> QED
    BY <2>1, <2>2, <2>3 DEF TypeOK, envVars, ghosts
<1>5. LockIsHolders'
  BY <1>1, <1>2, <1>3 DEF LockIsHolders, Working, TypeOK
<1>6. FetchIsListed'
  BY <1>1, <1>2 DEF FetchIsListed
<1>7. BoundedUnlessCopied'
  <2> SUFFICES ASSUME NEW a \in Apps, a \notin unpruned,
                      ~(Cardinality(Existing(local, a)) <= Keep)
               PROVE  \E v \in Workers : LocalCopy(v)' /\ App(v)' = a
    BY DEF BoundedUnlessCopied, Existing, ghosts
  <2> QED
    BY <1>2, <1>3 DEF BoundedUnlessCopied
<1>8. SnapshotIsNewest'
  <2>1. \A v \in Workers : LocalCopy(v)' => v # w
    BY <1>3
  <2> QED
    BY <1>1, <1>2, <2>1 DEF SnapshotIsNewest, Existing, envVars
<1>9. CopiedIsStored'
  BY <1>1, <1>2 DEF CopiedIsStored
<1> QED
  BY <1>4, <1>5, <1>6, <1>7, <1>8, <1>9

LEMMA StepInv ==
  ASSUME IInv, NEW w \in Workers, Step(w)
  PROVE  IInv'
BY GuardInv, SafeguardInv, LocateInv, CopyFileInv, FetchFileInv, ThrowsInv, PruneInv, ListInv,
   ReleaseInv, EndInv DEF Step

LEMMA CrashInv ==
  ASSUME IInv, NEW p \in Processes, Crash(p)
  PROVE  IInv'
<1> USE DEF IInv, repoVars
<1> DEFINE dead == {w \in Workers : ProcessOf[w] = p}
<1>1. /\ crashes < MaxCrashes /\ crashes' = crashes + 1
      /\ lock' = [a \in Apps |-> IF lock[a] \in dead THEN NoWorker ELSE lock[a]]
      /\ pc' = [w \in Workers |-> IF w \in dead THEN "idle" ELSE pc[w]]
      /\ job' = [w \in Workers |-> IF w \in dead THEN Idle ELSE job[w]]
      /\ ts' = [w \in Workers |-> IF w \in dead THEN 0 ELSE ts[w]]
      /\ todo' = [w \in Workers |-> IF w \in dead THEN {} ELSE todo[w]]
      /\ some' = [w \in Workers |-> IF w \in dead THEN FALSE ELSE some[w]]
      /\ unpruned' = unpruned \cup {App(w) : w \in {v \in dead : pc[v] # "idle"}}
      /\ UNCHANGED <<config, clock, save, plays, requests, exitVars, repoVars, excused>>
      /\ dead \subseteq Workers
  BY DEF Crash
<1> HIDE DEF dead
<1>2. \A v \in Workers \ dead : /\ pc'[v] = pc[v] /\ job'[v] = job[v] /\ ts'[v] = ts[v]
                                /\ todo'[v] = todo[v] /\ some'[v] = some[v]
                                /\ App(v)' = App(v) /\ (LocalCopy(v)' <=> LocalCopy(v))
                                /\ (Working(v)' <=> Working(v))
  BY <1>1 DEF App, LocalCopy, Working
<1>3. \A v \in dead : /\ pc'[v] = "idle" /\ ~some'[v] /\ ~Working(v)' /\ ~LocalCopy(v)'
                      /\ v \in Workers
  BY <1>1 DEF Working, LocalCopy
<1>4. \A v \in Workers : App(v) \in Apps
  BY DEF TypeOK, App, JobRecords
<1>5. TypeOK'
  <2>1. job' \in [Workers -> JobRecords]
    BY <1>1, IdleTyped DEF TypeOK
  <2>2. ts' \in [Workers -> Times]
    BY <1>1, CloudSaveAssumption DEF TypeOK, Times
  <2>3. pc' \in [Workers -> Places] /\ lock' \in [Apps -> Workers \cup {NoWorker}]
    BY <1>1 DEF TypeOK, Places
  <2>4. todo' \in [Workers -> SUBSET SaveFiles] /\ some' \in [Workers -> BOOLEAN]
    BY <1>1 DEF TypeOK
  <2>5. crashes' \in 0 .. MaxCrashes /\ unpruned' \subseteq Apps
    BY <1>1, <1>4, CloudSaveAssumption DEF TypeOK
  <2> QED
    BY <1>1, <2>1, <2>2, <2>3, <2>4, <2>5 DEF TypeOK, exitVars
<1>6. LockIsHolders'
  <2>1. ASSUME NEW v \in Workers, Working(v)' PROVE lock'[App(v)'] = v
    <3>1. v \notin dead /\ Working(v) /\ App(v)' = App(v)
      BY <1>2, <1>3, <2>1
    <3>2. lock[App(v)] = v
      BY <3>1 DEF LockIsHolders
    <3> QED
      BY <1>1, <1>4, <3>1, <3>2
  <2>2. ASSUME NEW a \in Apps, lock'[a] # NoWorker
        PROVE  Working(lock[a])' /\ App(lock[a])' = a
    <3>1. lock'[a] = lock[a] /\ lock[a] \in Workers \ dead
      BY <1>1, <2>2 DEF TypeOK
    <3>2. Working(lock[a]) /\ App(lock[a]) = a
      BY <2>2, <3>1 DEF LockIsHolders
    <3>3. pc'[lock[a]] = pc[lock[a]] /\ job'[lock[a]] = job[lock[a]]
      BY <1>2, <3>1
    <3> QED
      BY <3>1, <3>2, <3>3 DEF Working, App
  <2> QED
    BY <2>1, <2>2 DEF LockIsHolders, App
<1>7. FetchIsListed'
  BY <1>1, <1>2, <1>3 DEF FetchIsListed, Listed
<1>8. BoundedUnlessCopied'
  <2> SUFFICES ASSUME NEW a \in Apps, a \notin unpruned',
                      ~(Cardinality(Existing(local, a)) <= Keep)
               PROVE  \E v \in Workers : LocalCopy(v)' /\ App(v)' = a
    BY <1>1 DEF BoundedUnlessCopied, Existing
  <2>1. PICK v \in Workers : LocalCopy(v) /\ App(v) = a
    BY <1>1 DEF BoundedUnlessCopied
  <2>2. v \notin dead
    BY <1>1, <2>1 DEF LocalCopy
  <2> QED
    BY <1>2, <2>1, <2>2
<1>9. SnapshotIsNewest'
  BY <1>1, <1>2, <1>3 DEF SnapshotIsNewest, Existing
<1>10. CopiedIsStored'
  BY <1>1, <1>2, <1>3 DEF CopiedIsStored
<1> QED
  BY <1>5, <1>6, <1>7, <1>8, <1>9, <1>10

LEMMA NextIInv ==
  ASSUME IInv, [Next]_vars
  PROVE  IInv'
<1>1. CASE Next
  <2>1. Tick \/ (\E a \in Apps : GameExits(a)) => IInv'
    BY EnvironmentInv
  <2>2. (\E h \in hooks : HookStep(h)) \/ (\E e \in events : DaemonTakes(e)) => IInv'
    BY HookStepInv, DaemonTakesInv
  <2>3. (\E w \in Workers, op \in {"backup", "restore"}, a \in Apps : Request(w, op, a)) => IInv'
    BY RequestInv
  <2>4. (\E w \in Workers : Step(w)) \/ (\E p \in Processes : Crash(p)) => IInv'
    BY StepInv, CrashInv
  <2> QED
    BY <1>1, <2>1, <2>2, <2>3, <2>4 DEF Next
<1>2. CASE UNCHANGED vars
  <2>1. TypeOK'
    BY <1>2 DEF IInv, TypeOK, vars, envVars, exitVars, repoVars, workVars, ghosts
  <2>2. clock' \in Nat /\ clock <= clock' /\ UNCHANGED <<lock, repoVars, workVars, unpruned>>
    BY <1>2, TimesAreNat DEF IInv, TypeOK, vars, envVars, ghosts
  <2>3. Rest'
    BY <2>2, Frame DEF IInv, Rest
  <2> QED
    BY <2>1, <2>3 DEF IInv, Rest
<1> QED
  BY <1>1, <1>2

LEMMA Inductive == Spec => []IInv
<1>1. Init => IInv
  BY InitIInv
<1>2. IInv /\ [Next]_vars => IInv'
  BY NextIInv
<1> QED
  BY <1>1, <1>2, PTL DEF Spec

-----------------------------------------------------------------------------
(* That exits are backed up rests on a second invariant: the backup of the *)
(* last run is owed by a hook, an event or the daemon until it exists.     *)

\* A run of a game is reported by one hook, whose event is not written yet.
HookRuns ==
  /\ \A e \in events : e.run <= plays
  /\ \A h \in hooks : h.run <= plays /\ (h.at \in {"open", "write"} => EventOf(h, TRUE) \notin events)
  /\ \A g, h \in hooks : g.run = h.run => g = h

\* The daemon backs up the app of an event it has not removed; the others'
\* jobs have none.
DaemonServes ==
  /\ pc[Daemon] # "idle" =>
       /\ job[Daemon].op = "backup"
       /\ job[Daemon].event \in events
       /\ job[Daemon].event.full /\ job[Daemon].event.app = App(Daemon)
  /\ \A w \in Workers \ {Daemon} : job[w].event = NoEvent

\* An exit of the game is still to be taken up by the daemon.
Pending(a) ==
  \/ \E h \in hooks : h.app = a /\ (h.at = "open" \/ (h.at = "write" /\ EventOf(h, FALSE) \in events))
  \/ \E e \in events : e.full /\ e.app = a /\ (pc[Daemon] \in {"idle", "guard"} \/ job[Daemon].event # e)

\* The daemon has the app's lock and has not finished.
InProgress(a) == pc[Daemon] \in {"safeguard", "locate", "copy"} /\ App(Daemon) = a

RepositoryOf(w) == IF job[w].remote THEN server ELSE local

\* What a worker has copied is what the save still is.
Matches(w) ==
  \A f \in SaveFiles \ todo[w] :
    /\ RepositoryOf(w)[App(w)][ts[w]] # NoSnapshot
    /\ RepositoryOf(w)[App(w)][ts[w]][f] = save[App(w)][f]

CopiesMatch ==
  \A w \in Workers, a \in Apps \ excused :
    (pc[w] = "copy" /\ (w = Daemon \/ ~job[w].remote) /\ App(w) = a) => Pending(a) \/ Matches(w)

\* A restore replaces a save only if that is excused, or the next run pending.
FetchesOwed ==
  \A w \in Workers, a \in Apps \ excused : (pc[w] = "fetch" /\ App(w) = a) => Pending(a)

\* The last exit of a game is pending, being backed up, or backed up.
ExitsOwed ==
  \A a \in Located \ excused : Played(a) => Pending(a) \/ InProgress(a) \/ BackedUp(a)

EInv == HookRuns /\ DaemonServes /\ CopiesMatch /\ FetchesOwed /\ ExitsOwed

\* Steps that change neither saves nor repositories keep it, if they keep what
\* is pending and in progress.
LEMMA ExitFrame ==
  ASSUME IInv, EInv, UNCHANGED <<save, plays, local, server>>,
         events' \subseteq events, hooks' \subseteq hooks, excused \subseteq excused',
         DaemonServes',
         \A a \in Apps : Pending(a) => a \in excused' \/ Pending(a)',
         \A w \in Workers : (pc'[w] = "copy" /\ (w = Daemon \/ ~job'[w].remote)) =>
           \/ todo'[w] = SaveFiles
           \/ pc[w] = "copy" /\ UNCHANGED <<job[w], ts[w], todo[w]>>,
         \A w \in Workers : pc'[w] = "fetch" =>
           App(w)' \in excused' \/ (pc[w] = "fetch" /\ UNCHANGED job[w]),
         \A a \in Located \ excused' : (InProgress(a) /\ Played(a)) =>
           InProgress(a)' \/ Pending(a)' \/ BackedUp(a)
  PROVE  EInv'
<1> USE DEF EInv
<1>1. HookRuns'
  BY DEF HookRuns, EventOf
<1>2. \A w \in Workers : App(w) \in Apps
  BY DEF IInv, TypeOK, App, JobRecords
<1>3. CopiesMatch'
  <2> SUFFICES ASSUME NEW w \in Workers, pc'[w] = "copy", w = Daemon \/ ~job'[w].remote,
                      NEW a \in Apps, App(w)' = a, a \notin excused', ~Pending(a)'
               PROVE  Matches(w)'
    BY DEF CopiesMatch
  <2>1. CASE todo'[w] = SaveFiles
    BY <2>1 DEF Matches
  <2>2. CASE pc[w] = "copy" /\ UNCHANGED <<job[w], ts[w], todo[w]>>
    <3>1. App(w) = a /\ a \notin excused /\ ~Pending(a)
      BY <2>2 DEF App
    <3>2. Matches(w)
      BY <2>2, <3>1 DEF CopiesMatch
    <3> QED
      BY <2>2, <3>2 DEF Matches, RepositoryOf, App
  <2> QED
    BY <2>1, <2>2
<1>4. FetchesOwed'
  BY <1>2 DEF FetchesOwed, App
<1>5. ExitsOwed'
  <2>1. \A a \in Apps : (Played(a)' <=> Played(a)) /\ (BackedUp(a)' <=> BackedUp(a))
    BY DEF Played, BackedUp
  <2> QED
    BY <2>1, CloudSaveAssumption DEF ExitsOwed
<1> QED
  BY <1>1, <1>3, <1>4, <1>5

\* What is pending stays so while the daemon's place and job do.
LEMMA PendingKept ==
  ASSUME UNCHANGED events, \A h \in hooks : h.at # "spawn" => h \in hooks',
         pc'[Daemon] = pc[Daemon], job'[Daemon] = job[Daemon]
  PROVE  \A a : Pending(a) => Pending(a)'
BY DEF Pending, EventOf

LEMMA TickExits ==
  ASSUME IInv, EInv, Tick
  PROVE  EInv'
<1> USE DEF Tick, exitVars, repoVars, workVars, ghosts
<1>1. \A a : Pending(a) => Pending(a)'
  BY PendingKept
<1>2. DaemonServes'
  BY DEF EInv, DaemonServes, App
<1>3. \A a : InProgress(a) => InProgress(a)'
  BY DEF InProgress, App
<1> QED
  BY <1>1, <1>2, <1>3, ExitFrame

\* A worker other than the daemon starts.
LEMMA StartedExits ==
  ASSUME IInv, EInv, NEW w \in Workers \ {Daemon}, NEW j, Start(w, j), j.event = NoEvent,
         UNCHANGED <<save, plays, local, server, events, ts, todo, excused>>,
         hooks' \subseteq hooks, \A h \in hooks : h.at # "spawn" => h \in hooks'
  PROVE  EInv'
<1> USE DEF Start, GoTo
<1>1. /\ pc'[w] = "guard" /\ job'[w] = j
      /\ \A v \in Workers : v # w => pc'[v] = pc[v] /\ job'[v] = job[v]
      /\ Daemon \in Workers
  BY DEF IInv, TypeOK, Workers
<1>2. \A a : Pending(a) => Pending(a)'
  BY <1>1, PendingKept
<1>3. DaemonServes'
  BY <1>1 DEF EInv, DaemonServes, App
<1>4. \A a : InProgress(a) => InProgress(a)'
  BY <1>1 DEF InProgress, App
<1>5. \A v \in Workers : pc'[v] = "copy" =>
        pc[v] = "copy" /\ UNCHANGED <<job[v], ts[v], todo[v]>>
  BY <1>1
<1>6. \A v \in Workers : pc'[v] = "fetch" => pc[v] = "fetch" /\ UNCHANGED job[v]
  BY <1>1
<1> HIDE DEF Start, GoTo
<1> QED
  BY <1>2, <1>3, <1>4, <1>5, <1>6, ExitFrame

LEMMA RequestExits ==
  ASSUME IInv, EInv, NEW w \in Workers, NEW op \in {"backup", "restore"}, NEW a \in Apps,
         Request(w, op, a)
  PROVE  EInv'
<1> DEFINE j == [op |-> op, app |-> a, remote |-> Url, event |-> NoEvent]
<1>1. Start(w, j) /\ w # Daemon /\ j.event = NoEvent
  BY DEF Request
<1>2. UNCHANGED <<save, plays, local, server, events, ts, todo, excused, hooks>>
  BY DEF Request, exitVars, repoVars, ghosts
<1> HIDE DEF j
<1> QED
  BY <1>1, <1>2, StartedExits

LEMMA SpawnCliExits ==
  ASSUME IInv, EInv, NEW h \in hooks, SpawnCli(h)
  PROVE  EInv'
<1>1. /\ hooks' = hooks \ {h} /\ h.at = "spawn"
      /\ UNCHANGED <<save, plays, local, server, events, ts, todo, excused, some>>
  BY DEF SpawnCli, envVars, repoVars, ghosts
<1>2. CASE ManagerKnown /\ h.app \in Synced
  <2> DEFINE j == [Idle EXCEPT !.op = "backup", !.app = h.app, !.remote = Url]
  <2>1. PICK w \in Clis : Start(w, j)
    BY <1>2 DEF SpawnCli
  <2>2. w \in Workers \ {Daemon} /\ j.event = NoEvent
    BY CloudSaveAssumption DEF Workers, Idle
  <2> HIDE DEF j
  <2> QED
    BY <1>1, <2>1, <2>2, StartedExits
<1>3. CASE ~(ManagerKnown /\ h.app \in Synced)
  <2>1. UNCHANGED <<pc, job>>
    BY <1>3 DEF SpawnCli
  <2>2. \A a : Pending(a) => Pending(a)'
    BY <1>1, <2>1, PendingKept
  <2>3. DaemonServes'
    BY <1>1, <2>1 DEF EInv, DaemonServes, App
  <2>4. \A a : InProgress(a) => InProgress(a)'
    BY <2>1 DEF InProgress, App
  <2> QED
    BY <1>1, <2>1, <2>2, <2>3, <2>4, ExitFrame
<1> QED
  BY <1>2, <1>3

LEMMA GameExitsExits ==
  ASSUME IInv, EInv, NEW b \in Apps, GameExits(b)
  PROVE  EInv'
<1> USE DEF EInv, GameExits, repoVars, workVars
<1> DEFINE h == [app |-> b, run |-> plays', at |-> "open"]
<1>1. /\ plays \in Nat /\ plays' = plays + 1 /\ hooks' = hooks \cup {h}
      /\ \A e \in events : e.run \in Nat
      /\ \A g \in hooks : g.run \in Nat
  BY CloudSaveAssumption DEF IInv, TypeOK, Events, HookRecords, Versions
<1>2. HookRuns'
  <2>1. h \in hooks' /\ h.app = b /\ h.run = plays + 1 /\ h.at = "open"
    BY <1>1
  <2> HIDE DEF h
  <2>2. EventOf(h, TRUE).run = plays + 1
    BY <2>1 DEF EventOf
  <2>3. \A e \in events : e.run <= plays /\ e.run # plays + 1 /\ e.run <= plays'
    BY <1>1 DEF HookRuns
  <2>4. \A g \in hooks : g.run <= plays /\ g.run # plays + 1 /\ g.run <= plays'
    <3>1. \A g \in hooks : g.run <= plays
      BY DEF HookRuns
    <3> QED
      BY ONLY <1>1, <3>1
  <2>5. EventOf(h, TRUE) \notin events /\ plays + 1 <= plays'
    <3>1. EventOf(h, TRUE) \notin events
      BY ONLY <2>2, <2>3
    <3>2. plays + 1 <= plays'
      BY ONLY <1>1
    <3> QED
      BY <3>1, <3>2
  <2>6. events' = events /\ \A g \in hooks' : g \in hooks \/ g = h
    BY <1>1
  <2>7. \A f, g \in hooks' : f.run = g.run => f = g
    BY <2>1, <2>4, <2>6 DEF HookRuns
  <2>8. \A g \in hooks' : g.run <= plays' /\ (g.at \in {"open", "write"} => EventOf(g, TRUE) \notin events')
    BY <2>1, <2>4, <2>5, <2>6 DEF HookRuns, EventOf
  <2> QED
    BY <2>3, <2>6, <2>7, <2>8 DEF HookRuns, EventOf
<1>3. DaemonServes'
  BY DEF DaemonServes, App
<1>4. \A a : Pending(a) => Pending(a)'
  BY <1>1, PendingKept
<1>5. Pending(b)'
  <2>1. h \in hooks' /\ h.app = b /\ h.at = "open"
    BY <1>1
  <2> HIDE DEF h
  <2> QED
    BY <2>1 DEF Pending
<1>6. \A a \in Apps : a # b => save'[a] = save[a] /\ (a \notin excused' => a \notin excused)
  BY DEF IInv, TypeOK
<1>7. CopiesMatch' /\ FetchesOwed'
  <2>1. \A w \in Workers : App(w)' = App(w) /\ App(w) \in Apps
    BY DEF IInv, TypeOK, App, JobRecords
  <2>2. \A w \in Workers : App(w) # b => (Matches(w)' <=> Matches(w))
    BY <1>6, <2>1 DEF Matches, RepositoryOf
  <2> QED
    BY <1>4, <1>5, <1>6, <2>1, <2>2 DEF CopiesMatch, FetchesOwed
<1>8. ExitsOwed'
  <2>1. \A a \in Apps : a # b => (Played(a)' <=> Played(a)) /\ (BackedUp(a)' <=> BackedUp(a))
    BY <1>6 DEF Played, BackedUp
  <2>2. \A a : InProgress(a)' <=> InProgress(a)
    BY DEF InProgress, App
  <2> QED
    BY <1>4, <1>5, <1>6, <2>1, <2>2, CloudSaveAssumption DEF ExitsOwed
<1> QED
  BY <1>2, <1>3, <1>7, <1>8

\* The event file is created or written: the exit goes on to be pending.
LEMMA EventFileExits ==
  ASSUME IInv, EInv, NEW h \in hooks, OpenEvent(h) \/ WriteEvent(h)
  PROVE  EInv'
<1> USE DEF EInv, envVars, repoVars, workVars, ghosts
<1> DEFINE place == IF h.at = "open" THEN "write" ELSE "spawn"
           g == [h EXCEPT !.at = place]
<1>1. /\ h \in HookRecords /\ hooks' = (hooks \ {h}) \cup {g} /\ h.at \in {"open", "write"}
      /\ UNCHANGED <<envVars, lock, repoVars, workVars, ghosts>>
  BY DEF IInv, TypeOK, OpenEvent, WriteEvent, Advance
<1>2. g.app = h.app /\ g.run = h.run /\ g.at = place
  BY <1>1 DEF HookRecords
<1>3. \/ h.at = "open" /\ events' = events \cup {EventOf(h, FALSE)}
      \/ h.at = "write" /\ EventOf(h, FALSE) \notin events /\ events' = events
      \/ /\ h.at = "write" /\ EventOf(h, FALSE) \in events
         /\ events' = (events \ {EventOf(h, FALSE)}) \cup {EventOf(h, TRUE)}
  BY DEF OpenEvent, WriteEvent
<1> HIDE DEF g
<1>4. \A f \in hooks : f.run = h.run => f = h
  BY DEF HookRuns
<1>5. HookRuns'
  <2>1. \A e \in events' : e.run <= plays
    <3>1. h.run <= plays /\ \A full : EventOf(h, full).run = h.run
      BY DEF HookRuns, EventOf
    <3> QED
      BY <1>3, <3>1 DEF HookRuns
  <2>2. ASSUME NEW f \in hooks', f.at \in {"open", "write"} PROVE EventOf(f, TRUE) \notin events'
    <3>1. CASE f \in hooks /\ f # h
      BY <1>3, <1>4, <2>2, <3>1 DEF HookRuns, EventOf
    <3>2. CASE f = g
      BY <1>2, <1>3, <2>2, <3>2 DEF HookRuns, EventOf
    <3> QED
      BY <1>1, <3>1, <3>2
  <2>3. \A f \in hooks' : f.run <= plays
    BY <1>1, <1>2 DEF HookRuns
  <2>4. \A e, f \in hooks' : e.run = f.run => e = f
    BY <1>1, <1>2, <1>4 DEF HookRuns
  <2> QED
    BY <1>1, <2>1, <2>2, <2>3, <2>4 DEF HookRuns
<1>6. EventOf(h, TRUE) \notin events /\ EventOf(h, TRUE).full /\ ~EventOf(h, FALSE).full
  BY <1>1 DEF HookRuns, EventOf
<1>7. DaemonServes'
  BY <1>1, <1>3, <1>6 DEF DaemonServes, App
<1>8. ASSUME NEW a, Pending(a) PROVE Pending(a)'
  <2>1. CASE \E e \in events : e.full /\ e.app = a /\ (pc[Daemon] \in {"idle", "guard"} \/ job[Daemon].event # e)
    BY <1>1, <1>3, <1>6, <2>1 DEF Pending
  <2>2. ASSUME NEW f \in hooks, f # h, f.app = a,
               f.at = "open" \/ (f.at = "write" /\ EventOf(f, FALSE) \in events)
        PROVE  Pending(a)'
    <3>1. EventOf(f, FALSE) # EventOf(h, FALSE)
      BY <1>4, <2>2 DEF EventOf
    <3> QED
      BY <1>1, <1>3, <2>2, <3>1 DEF Pending, EventOf
  <2>3. CASE h.app = a /\ h.at = "open"
    <3>1. g \in hooks' /\ g.at = "write" /\ EventOf(g, FALSE) \in events' /\ g.app = a
      BY <1>1, <1>2, <1>3, <2>3 DEF EventOf
    <3> QED
      BY <3>1 DEF Pending, EventOf
  <2>4. CASE h.app = a /\ h.at = "write" /\ EventOf(h, FALSE) \in events
    <3>1. EventOf(h, TRUE) \in events' /\ EventOf(h, TRUE).app = a
      BY <1>3, <2>4 DEF EventOf
    <3>2. pc[Daemon] = "idle" \/ job[Daemon].event # EventOf(h, TRUE)
      BY <1>6 DEF DaemonServes
    <3> QED
      BY <1>1, <1>6, <3>1, <3>2 DEF Pending
  <2> QED
    BY <1>8, <2>1, <2>2, <2>3, <2>4 DEF Pending
<1>9. CopiesMatch' /\ FetchesOwed'
  BY <1>1, <1>8 DEF CopiesMatch, FetchesOwed, Matches, RepositoryOf, App
<1>10. ExitsOwed'
  BY <1>1, <1>8, CloudSaveAssumption DEF ExitsOwed, Played, BackedUp, InProgress, App
<1> QED
  BY <1>5, <1>7, <1>9, <1>10

LEMMA DaemonTakesExits ==
  ASSUME IInv, EInv, NEW e \in events, DaemonTakes(e)
  PROVE  EInv'
<1>1. /\ pc[Daemon] = "idle" /\ e \in Events /\ excused \subseteq excused' /\ Daemon \in Workers
      /\ UNCHANGED <<save, plays, local, server, hooks, ts, todo>>
      /\ pc \in [Workers -> Places] /\ job \in [Workers -> JobRecords]
  BY DEF IInv, TypeOK, DaemonTakes, envVars, repoVars, Workers
<1>2. \A a : ~InProgress(a)
  BY <1>1 DEF InProgress
<1>3. CASE e.full
  <2> DEFINE j == [op |-> "backup", app |-> e.app, remote |-> config = "enabled", event |-> e]
  <2>1. /\ pc' = [pc EXCEPT ![Daemon] = "guard"] /\ job' = [job EXCEPT ![Daemon] = j]
        /\ UNCHANGED <<events, excused>>
    BY <1>3 DEF DaemonTakes, Start, GoTo
  <2>2. /\ pc'[Daemon] = "guard" /\ job'[Daemon] = j
        /\ \A v \in Workers : v # Daemon => pc'[v] = pc[v] /\ job'[v] = job[v]
    BY <1>1, <2>1
  <2>3. DaemonServes'
    BY <1>3, <2>1, <2>2 DEF EInv, DaemonServes, App
  <2>4. \A a : Pending(a) => Pending(a)'
    BY <1>1, <2>1, <2>2 DEF Pending, EventOf
  <2>5. \A v \in Workers : pc'[v] = "copy" =>
          pc[v] = "copy" /\ UNCHANGED <<job[v], ts[v], todo[v]>>
    BY <1>1, <2>2
  <2>6. \A v \in Workers : pc'[v] = "fetch" => pc[v] = "fetch" /\ UNCHANGED job[v]
    BY <2>2
  <2> QED
    BY <1>1, <1>2, <2>1, <2>3, <2>4, <2>5, <2>6, ExitFrame
<1>4. CASE ~e.full
  <2>1. events' = events \ {e} /\ excused' = excused \cup {e.app} /\ UNCHANGED <<pc, job>>
    BY <1>4 DEF DaemonTakes
  <2>2. DaemonServes'
    BY <1>1, <2>1 DEF EInv, DaemonServes
  <2>3. ASSUME NEW a, Pending(a), a \notin excused' PROVE Pending(a)'
    <3>1. \A h \in hooks : h.app = a => EventOf(h, FALSE) # e
      BY <2>1, <2>3 DEF EventOf
    <3> QED
      BY <1>1, <1>4, <2>1, <2>3, <3>1 DEF Pending, EventOf
  <2> QED
    BY <1>1, <1>2, <2>1, <2>2, <2>3, ExitFrame
<1> QED
  BY <1>3, <1>4

LEMMA GuardExits ==
  ASSUME IInv, EInv, NEW w \in Workers, Guard(w)
  PROVE  EInv'
<1> USE DEF GoTo
<1>1. /\ pc[w] = "guard" /\ excused \subseteq excused' /\ pc'[w] \in {"safeguard", "locate", "end"}
      /\ UNCHANGED <<save, plays, local, server, hooks, events, job, ts, todo>>
      /\ \A v \in Workers : v # w => pc'[v] = pc[v]
      /\ Daemon \in Workers
  BY DEF Guard, IInv, TypeOK, envVars, exitVars, repoVars, Workers
<1>2. DaemonServes'
  BY <1>1 DEF EInv, DaemonServes, App
<1>3. ASSUME NEW a \in Apps, Pending(a), a \notin excused'
      PROVE  Pending(a)' \/ (w = Daemon /\ App(w) = a /\ pc'[w] \in {"safeguard", "locate"})
  <2>1. CASE w # Daemon
    BY <1>1, <1>3, <2>1, PendingKept
  <2>2. CASE w = Daemon /\ App(w) = a
    <3>1. lock[App(w)] = NoWorker
      BY <1>3, <2>2 DEF Guard
    <3>2. pc' = [pc EXCEPT ![w] = IF job[w].op = "backup" /\ job[w].remote THEN "safeguard" ELSE "locate"]
      BY <3>1 DEF Guard
    <3> QED
      BY <2>2, <3>2 DEF IInv, TypeOK
  <2>3. CASE w = Daemon /\ App(w) # a
    <3>1. \A e \in events : e.app = a => job[Daemon].event # e
      BY <1>1, <2>3 DEF EInv, DaemonServes
    <3> QED
      BY <1>1, <1>3, <3>1 DEF Pending, EventOf
  <2> QED
    BY <2>1, <2>2, <2>3
<1>4. ASSUME w = Daemon, pc'[w] \in {"safeguard", "locate"}
      PROVE  lock[App(w)] = NoWorker
  <2>1. CASE lock[App(w)] # NoWorker
    <3>1. pc' = [pc EXCEPT ![w] = "end"]
      BY <2>1 DEF Guard
    <3>2. pc'[w] = "end"
      BY <3>1 DEF IInv, TypeOK
    <3> QED
      BY <1>4, <3>2
  <2> QED
    BY <2>1
<1>5. ASSUME w = Daemon, pc'[w] \in {"safeguard", "locate"}, NEW v \in Workers,
             pc[v] \in {"copy", "fetch"}
      PROVE  App(v) # App(w)
  BY <1>4, <1>5, CloudSaveAssumption DEF IInv, LockIsHolders, Working
<1> USE DEF EInv
<1>6. HookRuns'
  BY <1>1 DEF HookRuns, EventOf
<1>7. CopiesMatch'
  <2> SUFFICES ASSUME NEW v \in Workers, NEW a \in Apps, a \notin excused', pc'[v] = "copy",
                      v = Daemon \/ ~job[v].remote, App(v) = a, ~Pending(a)'
               PROVE  Matches(v)
    BY <1>1 DEF CopiesMatch, App, Matches, RepositoryOf
  <2>1. pc[v] = "copy" /\ v # w
    BY <1>1
  <2>2. ~Pending(a)
    BY <1>3, <1>5, <2>1
  <2> QED
    BY <1>1, <2>1, <2>2 DEF CopiesMatch
<1>8. FetchesOwed'
  <2> SUFFICES ASSUME NEW v \in Workers, NEW a \in Apps, a \notin excused', pc'[v] = "fetch", App(v) = a
               PROVE  Pending(a)'
    BY <1>1 DEF FetchesOwed, App
  <2>1. pc[v] = "fetch" /\ Pending(a)
    BY <1>1 DEF FetchesOwed
  <2> QED
    BY <1>3, <1>5, <2>1
<1>9. ExitsOwed'
  <2>1. \A a \in Apps : InProgress(a) => InProgress(a)'
    BY <1>1 DEF InProgress, App
  <2>2. \A a \in Apps : (w = Daemon /\ App(w) = a /\ pc'[w] \in {"safeguard", "locate"}) => InProgress(a)'
    BY <1>1 DEF InProgress, App
  <2>3. \A a \in Apps : (Played(a)' <=> Played(a)) /\ (BackedUp(a)' <=> BackedUp(a))
    BY <1>1 DEF Played, BackedUp
  <2> QED
    BY <1>1, <1>3, <2>1, <2>2, <2>3, CloudSaveAssumption DEF ExitsOwed
<1> QED
  BY <1>2, <1>6, <1>7, <1>8, <1>9

LEMMA OperationExits ==
  ASSUME IInv, EInv, NEW w \in Workers, Safeguard(w) \/ Locate(w) \/ Throws(w) \/ List(w),
         ~(pc[w] = "copy" /\ todo[w] = {})
  PROVE  EInv'
<1> USE DEF GoTo
<1>1. /\ excused \subseteq excused' /\ pc[w] \in {"safeguard", "locate", "copy", "list"}
      /\ UNCHANGED <<save, plays, local, server, hooks, events, job>>
      /\ pc'[w] \in {"locate", "list", "copy", "fetch", "release"}
      /\ \A v \in Workers : v # w => pc'[v] = pc[v] /\ ts'[v] = ts[v] /\ todo'[v] = todo[v]
      /\ Daemon \in Workers
  <2>1. pc \in [Workers -> Places] /\ ts \in [Workers -> Times] /\ todo \in [Workers -> SUBSET SaveFiles]
    BY DEF IInv, TypeOK
  <2>2. CASE Safeguard(w)
    BY <2>1, <2>2 DEF Safeguard, envVars, exitVars, repoVars, ghosts, Workers
  <2>3. CASE Locate(w)
    BY <2>1, <2>3 DEF Locate, envVars, exitVars, repoVars, ghosts, Workers
  <2>4. CASE Throws(w)
    BY <2>1, <2>4 DEF Throws, envVars, exitVars, repoVars, Workers
  <2>5. CASE List(w)
    BY <2>1, <2>5 DEF List, envVars, exitVars, repoVars, Workers
  <2> QED
    BY <2>2, <2>3, <2>4, <2>5
<1>2. DaemonServes'
  BY <1>1 DEF EInv, DaemonServes, App
<1>3. \A a \in Apps : Pending(a) => Pending(a)'
  <2>1. pc[Daemon] \in {"idle", "guard"} => pc'[Daemon] = pc[Daemon]
    BY <1>1
  <2> QED
    BY <1>1, <2>1 DEF Pending, EventOf
<1>4. pc'[w] = "copy" => todo'[w] = SaveFiles
  BY <1>1 DEF IInv, TypeOK, Safeguard, Locate, Throws, List
<1>5. pc'[w] = "fetch" => App(w)' \in excused'
  BY <1>1 DEF IInv, TypeOK, Safeguard, Locate, Throws, List, App
<1>6. ASSUME NEW a \in Located \ excused', InProgress(a) PROVE InProgress(a)'
  <2>1. CASE w # Daemon
    BY <1>1, <1>6, <2>1 DEF InProgress, App
  <2>2. CASE w = Daemon /\ (Safeguard(w) \/ Throws(w))
    BY <1>1, <1>6, <2>2 DEF InProgress, App, Safeguard, Throws, IInv, TypeOK
  <2>3. CASE w = Daemon /\ Locate(w)
    <3>1. App(w) \in Located /\ job[w].op = "backup"
      BY <1>6, <2>3 DEF InProgress, EInv, DaemonServes
    <3>2. pc' = [pc EXCEPT ![w] = "copy"]
      BY <2>3, <3>1 DEF Locate
    <3> QED
      BY <1>1, <1>6, <2>3, <3>2 DEF InProgress, App, IInv, TypeOK
  <2>4. CASE w = Daemon /\ List(w)
    BY <1>6, <2>4 DEF InProgress, List
  <2> QED
    BY <2>1, <2>2, <2>3, <2>4
<1> QED
  BY <1>1, <1>2, <1>3, <1>4, <1>5, <1>6, ExitFrame

\* All files were copied and are still what they were.
LEMMA MatchingIsBackedUp ==
  ASSUME IInv, NEW w \in Workers, todo[w] = {}, Matches(w), Played(App(w))
  PROVE  RepositoryOf(w)[App(w)][ts[w]] = save[App(w)] /\ BackedUp(App(w))
<1> DEFINE s == RepositoryOf(w)[App(w)][ts[w]]
<1>1. PICK f \in SaveFiles : TRUE
  BY DEF Played
<1>2. /\ App(w) \in Apps /\ ts[w] \in Times /\ save[App(w)] \in [SaveFiles -> Versions]
      /\ RepositoryOf(w) \in Repository
  BY DEF IInv, TypeOK, App, JobRecords, RepositoryOf
<1>3. s \in Content \cup {NoSnapshot} /\ s # NoSnapshot /\ \A g \in SaveFiles : s[g] = save[App(w)][g]
  BY <1>1, <1>2 DEF Matches, Repository
<1>4. s = save[App(w)]
  BY <1>2, <1>3 DEF Content
<1> QED
  BY <1>2, <1>4 DEF BackedUp, RepositoryOf

\* The operation ends, or the listing of the snapshots throws after the last copy.
LEMMA ReleaseExits ==
  ASSUME IInv, EInv, NEW w \in Workers,
         Release(w) \/ (Throws(w) /\ pc[w] = "copy" /\ todo[w] = {})
  PROVE  EInv'
<1>1. /\ pc[w] \in {"release", "copy", "fetch"} /\ pc'[w] \in {"release", "end"} /\ Daemon \in Workers
      /\ pc[w] = "copy" => todo[w] = {}
      /\ UNCHANGED <<save, plays, local, server, hooks, events, job, ts, todo, excused>>
      /\ \A v \in Workers : v # w => pc'[v] = pc[v]
  BY DEF Release, Throws, Over, GoTo, IInv, TypeOK, envVars, exitVars, repoVars, ghosts, Workers
<1>2. DaemonServes'
  BY <1>1 DEF EInv, DaemonServes, App
<1>3. \A a \in Apps : Pending(a) => Pending(a)'
  <2>1. pc[Daemon] \in {"idle", "guard"} => pc'[Daemon] = pc[Daemon]
    BY <1>1
  <2> QED
    BY <1>1, <2>1 DEF Pending, EventOf
<1>4. ASSUME NEW a \in Located \ excused', InProgress(a), Played(a)
      PROVE  InProgress(a)' \/ Pending(a)' \/ BackedUp(a)
  <2>1. CASE w # Daemon
    BY <1>1, <1>4, <2>1 DEF InProgress, App
  <2>2. CASE w = Daemon
    <3>1. pc[w] = "copy" /\ App(w) = a /\ todo[w] = {} /\ a \in Apps
      BY <1>1, <1>4, <2>2, CloudSaveAssumption DEF InProgress
    <3>2. Pending(a) \/ Matches(w)
      BY <1>1, <2>2, <3>1 DEF EInv, CopiesMatch
    <3> QED
      BY <1>3, <1>4, <3>1, <3>2, MatchingIsBackedUp
  <2> QED
    BY <2>1, <2>2
<1> QED
  BY <1>1, <1>2, <1>3, <1>4, ExitFrame

LEMMA EndExits ==
  ASSUME IInv, EInv, NEW w \in Workers, End(w)
  PROVE  EInv'
<1>1. /\ pc[w] = "end" /\ pc'[w] = "idle" /\ job'[w] = Idle /\ Daemon \in Workers
      /\ UNCHANGED <<save, plays, local, server, hooks, excused>>
      /\ events' = events \ {job[w].event}
      /\ \A v \in Workers : v # w => /\ pc'[v] = pc[v] /\ job'[v] = job[v]
                                     /\ ts'[v] = ts[v] /\ todo'[v] = todo[v]
  BY DEF End, GoTo, IInv, TypeOK, envVars, repoVars, ghosts, Workers
<1>2. w # Daemon => events' = events
  BY <1>1, CloudSaveAssumption DEF EInv, DaemonServes, IInv, TypeOK
<1>3. DaemonServes'
  BY <1>1, <1>2 DEF EInv, DaemonServes, App, Idle
<1>4. ASSUME NEW a \in Apps, Pending(a) PROVE Pending(a)'
  <2>1. CASE w # Daemon
    BY <1>1, <1>2, <1>4, <2>1 DEF Pending, EventOf
  <2>2. CASE w = Daemon
    <3>1. \A h : EventOf(h, FALSE) # job[w].event
      BY <1>1, <2>2 DEF EInv, DaemonServes, EventOf
    <3> QED
      BY <1>1, <1>4, <2>2, <3>1 DEF Pending, EventOf
  <2> QED
    BY <2>1, <2>2
<1>5. \A a : InProgress(a) => InProgress(a)'
  BY <1>1 DEF InProgress, App
<1> QED
  BY <1>1, <1>3, <1>4, <1>5, ExitFrame

LEMMA CrashExits ==
  ASSUME IInv, EInv, NEW p \in Processes, Crash(p)
  PROVE  EInv'
<1> DEFINE dead == {w \in Workers : ProcessOf[w] = p}
<1>1. /\ UNCHANGED <<save, plays, local, server, hooks, events, excused>>
      /\ \A w \in Workers : w \in dead => pc'[w] = "idle" /\ job'[w] = Idle
      /\ \A w \in Workers : w \notin dead => /\ pc'[w] = pc[w] /\ job'[w] = job[w]
                                             /\ ts'[w] = ts[w] /\ todo'[w] = todo[w]
      /\ Daemon \in Workers
  BY DEF Crash, exitVars, repoVars, Workers
<1> HIDE DEF dead
<1>2. DaemonServes'
  BY <1>1 DEF EInv, DaemonServes, App, Idle
<1>3. \A a \in Apps : Pending(a) => Pending(a)'
  <2>1. pc'[Daemon] = "idle" \/ (pc'[Daemon] = pc[Daemon] /\ job'[Daemon] = job[Daemon])
    BY <1>1
  <2> QED
    BY <1>1, <2>1 DEF Pending, EventOf
<1>4. ASSUME NEW a, InProgress(a) PROVE InProgress(a)' \/ Pending(a)'
  <2>1. CASE Daemon \notin dead
    BY <1>1, <1>4, <2>1 DEF InProgress, App
  <2>2. CASE Daemon \in dead
    <3>1. /\ job[Daemon].event \in events' /\ job[Daemon].event.full
          /\ job[Daemon].event.app = a /\ pc'[Daemon] = "idle"
      BY <1>1, <1>4, <2>2 DEF InProgress, EInv, DaemonServes
    <3> QED
      BY <3>1 DEF Pending
  <2> QED
    BY <2>1, <2>2
<1> QED
  BY <1>1, <1>2, <1>3, <1>4, ExitFrame

LEMMA CopyFileExits ==
  ASSUME IInv, EInv, NEW w \in Workers, NEW f \in SaveFiles, CopyFile(w, f)
  PROVE  EInv'
<1> DEFINE written(repo, done) == IF done THEN [Begun(repo, w) EXCEPT ![f] = save[App(w)][f]]
                                          ELSE Begun(repo, w)
<1>1. PICK done \in BOOLEAN :
        /\ IF job[w].remote
             THEN local' = local /\ (server' = Stored(server, w, written(server, done))
                                     \/ (~done /\ server' = server))
             ELSE local' = Stored(local, w, written(local, done)) /\ server' = server
        /\ excused' = IF done \/ (w # Daemon /\ job[w].remote) THEN excused ELSE excused \cup {App(w)}
  BY DEF CopyFile
<1>2. /\ pc[w] = "copy" /\ f \in todo[w] /\ Working(w) /\ Daemon \in Workers
      /\ UNCHANGED <<save, plays, hooks, events, pc, job, ts>>
      /\ todo' = [todo EXCEPT ![w] = @ \ {f}] /\ excused \subseteq excused'
      /\ App(w) \in Apps /\ ts[w] \in Times
      /\ \A v \in Workers : App(v)' = App(v) /\ App(v) \in Apps /\ ts[v] \in Times
      /\ save \in [Apps -> [SaveFiles -> Versions]]
      /\ local \in Repository /\ server \in Repository
  BY DEF CopyFile, IInv, TypeOK, envVars, exitVars, App, JobRecords, Working, Workers
<1>3. \A repo \in {local, server} : written(repo, done) \in Content /\ written(repo, done) # NoSnapshot
  BY <1>2, WrittenSnapshot DEF IInv
<1>4. \A repo \in {local, server} : done => written(repo, done)[f] = save[App(w)][f]
  <2>1. \A repo \in {local, server} : Begun(repo, w) \in Content
    BY <1>2, WrittenSnapshot DEF IInv
  <2> QED
    BY <2>1 DEF Content
<1>5. \A repo \in {local, server}, g \in SaveFiles :
        (g # f \/ ~done) => written(repo, done)[g] = Begun(repo, w)[g]
  <2>1. \A repo \in {local, server} : Begun(repo, w) \in Content
    BY <1>2, WrittenSnapshot DEF IInv
  <2> QED
    BY <2>1 DEF Content
<1> HIDE DEF written
<1>6. /\ local' \in {local, Stored(local, w, written(local, done))}
      /\ server' \in {server, Stored(server, w, written(server, done))}
      /\ (done \/ ~job[w].remote) => RepositoryOf(w)' = Stored(RepositoryOf(w), w, written(RepositoryOf(w), done))
  BY <1>1, <1>2 DEF RepositoryOf
<1>7. \A repo \in {local, server} :
        /\ Stored(repo, w, written(repo, done)) \in Repository
        /\ Stored(repo, w, written(repo, done))[App(w)][ts[w]] = written(repo, done)
        /\ \A a \in Apps, t \in Times :
             (a # App(w) \/ t # ts[w]) => Stored(repo, w, written(repo, done))[a][t] = repo[a][t]
  <2> SUFFICES ASSUME NEW repo \in {local, server}
               PROVE  /\ Stored(repo, w, written(repo, done)) \in Repository
                      /\ Stored(repo, w, written(repo, done))[App(w)][ts[w]] = written(repo, done)
                      /\ \A a \in Apps, t \in Times : (a # App(w) \/ t # ts[w]) =>
                           Stored(repo, w, written(repo, done))[a][t] = repo[a][t]
    OBVIOUS
  <2>1. repo \in Repository /\ written(repo, done) \in Content /\ TypeOK
    BY <1>2, <1>3 DEF IInv
  <2> QED
    BY ONLY <2>1, StoredSnapshot
<1>8. HookRuns' /\ DaemonServes'
  BY <1>2 DEF EInv, HookRuns, DaemonServes, EventOf, App
<1>9. \A a : (Pending(a)' <=> Pending(a)) /\ (InProgress(a)' <=> InProgress(a))
  BY <1>2 DEF Pending, InProgress, EventOf, App
<1>10. FetchesOwed'
  BY <1>2, <1>9 DEF EInv, FetchesOwed
<1>11. CopiesMatch'
  <2> SUFFICES ASSUME NEW v \in Workers, NEW a \in Apps, a \notin excused', pc[v] = "copy",
                      v = Daemon \/ ~job[v].remote, App(v) = a, ~Pending(a),
                      NEW g \in SaveFiles \ todo'[v]
               PROVE  /\ RepositoryOf(v)'[a][ts[v]] # NoSnapshot
                      /\ RepositoryOf(v)'[a][ts[v]][g] = save[a][g]
    BY <1>2, <1>9 DEF CopiesMatch, Matches
  <2>1. Matches(v)
    BY <1>2 DEF EInv, CopiesMatch
  <2>2. CASE v # w
    <3>1. App(v) # App(w)
      BY <1>2, <2>2, Exclusive DEF IInv, Working
    <3>2. RepositoryOf(v)'[a][ts[v]] = RepositoryOf(v)[a][ts[v]]
      BY <1>2, <1>6, <1>7, <3>1 DEF RepositoryOf
    <3>3. todo'[v] = todo[v]
      BY <1>2, <2>2 DEF IInv, TypeOK
    <3> QED
      BY <2>1, <3>2, <3>3 DEF Matches
  <2>3. CASE v = w
    <3>1. done /\ RepositoryOf(w) \in {local, server}
      BY <1>1, <2>3 DEF RepositoryOf
    <3>2. RepositoryOf(w)'[a][ts[w]] = written(RepositoryOf(w), done)
      BY <1>6, <1>7, <2>3, <3>1
    <3>3. g = f \/ g \notin todo[w]
      BY <1>2, <2>3 DEF IInv, TypeOK
    <3>4. CASE g = f
      BY <1>3, <1>4, <2>3, <3>1, <3>2, <3>4
    <3>5. CASE g # f
      <4>1. Begun(RepositoryOf(w), w) = RepositoryOf(w)[a][ts[w]]
            /\ RepositoryOf(w)[a][ts[w]][g] = save[a][g]
        BY <2>1, <2>3, <3>3, <3>5 DEF Matches, Begun
      <4> QED
        BY <1>3, <1>5, <2>3, <3>1, <3>2, <3>5, <4>1
    <3> QED
      BY <3>4, <3>5
  <2> QED
    BY <2>2, <2>3
<1>12. ASSUME NEW a \in Apps, BackedUp(a), Played(a) PROVE BackedUp(a)'
  <2>1. PICK repo \in {local, server}, t \in Times : repo[a][t] = save[a]
    BY <1>12 DEF BackedUp
  <2>2. save[a] # NoSnapshot
    BY <1>2, <1>12 DEF Played, NoSnapshot
  <2>3. Stored(repo, w, written(repo, done))[a][t] = save[a]
    <3>1. CASE a # App(w) \/ t # ts[w]
      BY <1>7, <2>1, <3>1
    <3>2. CASE a = App(w) /\ t = ts[w]
      <4>1. Begun(repo, w) = save[a]
        BY <2>1, <2>2, <3>2 DEF Begun
      <4>2. \A g \in SaveFiles : written(repo, done)[g] = save[a][g]
        BY <1>4, <1>5, <3>2, <4>1
      <4>3. written(repo, done) \in Content
        BY <1>3
      <4>4. written(repo, done) = save[a]
        BY <1>2, <4>2, <4>3 DEF Content
      <4> QED
        BY <1>7, <3>2, <4>4
    <3> QED
      BY <3>1, <3>2
  <2>4. \E r \in {local', server'} : r[a][t] = save[a]
    BY <1>6, <2>1, <2>3
  <2> QED
    BY <1>2, <2>4 DEF BackedUp
<1>13. ExitsOwed'
  BY <1>2, <1>9, <1>12, CloudSaveAssumption DEF EInv, ExitsOwed, Played
<1> QED
  BY <1>8, <1>10, <1>11, <1>13 DEF EInv

LEMMA PruneExits ==
  ASSUME IInv, EInv, NEW w \in Workers, Prune(w)
  PROVE  EInv'
<1> DEFINE T == Existing(local, App(w))
<1>1. /\ pc[w] = "copy" /\ todo[w] = {} /\ ~job[w].remote /\ pc'[w] = "release" /\ Working(w)
      /\ UNCHANGED <<save, plays, hooks, events, server, job, ts, todo, excused>>
      /\ Daemon \in Workers /\ App(w) \in Apps /\ ts[w] \in Times /\ T \in SUBSET Times
      /\ \A v \in Workers : v # w => pc'[v] = pc[v]
      /\ \A v \in Workers : App(v)' = App(v) /\ App(v) \in Apps /\ ts[v] \in Times
      /\ save \in [Apps -> [SaveFiles -> Versions]]
  BY DEF Prune, GoTo, IInv, TypeOK, App, JobRecords, Working, Existing, Workers, envVars, exitVars
<1>2. /\ \A a \in Apps : a # App(w) => local'[a] = local[a]
      /\ \A t \in Kept(T) : local'[App(w)][t] = local[App(w)][t]
  BY PruneLeaves DEF IInv
<1>3. HookRuns' /\ DaemonServes'
  BY <1>1 DEF EInv, HookRuns, DaemonServes, EventOf, App
<1>4. \A a : Pending(a) => Pending(a)'
  <2>1. pc[Daemon] \in {"idle", "guard"} => pc'[Daemon] = pc[Daemon]
    BY <1>1
  <2> QED
    BY <1>1, <2>1 DEF Pending, EventOf
<1>5. FetchesOwed'
  BY <1>1, <1>4 DEF EInv, FetchesOwed
<1>6. CopiesMatch'
  <2> SUFFICES ASSUME NEW v \in Workers, NEW a \in Apps, a \notin excused, pc'[v] = "copy",
                      v = Daemon \/ ~job[v].remote, App(v) = a, ~Pending(a)'
               PROVE  Matches(v)'
    BY <1>1 DEF CopiesMatch
  <2>1. v # w /\ pc[v] = "copy" /\ Matches(v)
    BY <1>1, <1>4 DEF EInv, CopiesMatch
  <2>2. App(v) # App(w)
    BY <1>1, <2>1, Exclusive DEF IInv, Working
  <2>3. local'[a] = local[a]
    BY <1>2, <2>2
  <2> QED
    BY <1>1, <2>1, <2>3 DEF Matches, RepositoryOf, App
<1>7. ASSUME NEW a \in Located \ excused, Played(a)
      PROVE  Pending(a)' \/ InProgress(a)' \/ BackedUp(a)'
  <2>1. a \in Apps /\ (Pending(a) \/ InProgress(a) \/ BackedUp(a))
    BY <1>7, CloudSaveAssumption DEF EInv, ExitsOwed
  <2>2. CASE a = App(w)
    <3>1. ASSUME Matches(w) PROVE BackedUp(a)'
      <4>1. local[a][ts[w]] = save[a]
        BY <1>1, <1>7, <2>2, <3>1, MatchingIsBackedUp DEF RepositoryOf
      <4>2. save[a] # NoSnapshot
        BY <1>1, <1>7, <2>1 DEF Played, NoSnapshot
      <4>3. ts[w] \in T /\ \A t \in T : t <= ts[w]
        BY <1>1, <2>2, <4>1, <4>2 DEF IInv, SnapshotIsNewest, LocalCopy, Existing
      <4>4. ts[w] \in Kept(T)
        BY <1>1, <4>3, NewestKept
      <4>5. local'[a][ts[w]] = save[a]
        BY <1>1, <1>2, <2>2, <4>1, <4>4
      <4> QED
        BY <1>1, <4>5 DEF BackedUp
    <3> QED
      BY <1>1, <1>4, <1>7, <2>1, <2>2, <3>1 DEF EInv, CopiesMatch
  <2>3. CASE a # App(w)
    <3>1. BackedUp(a) => BackedUp(a)'
      BY <1>1, <1>2, <2>1, <2>3 DEF BackedUp
    <3>2. InProgress(a) => InProgress(a)'
      BY <1>1, <2>3 DEF InProgress, App
    <3> QED
      BY <1>4, <2>1, <3>1, <3>2
  <2> QED
    BY <2>2, <2>3
<1>8. ExitsOwed'
  BY <1>1, <1>7 DEF ExitsOwed, Played
<1> QED
  BY <1>3, <1>5, <1>6, <1>8 DEF EInv

LEMMA FetchFileExits ==
  ASSUME IInv, EInv, NEW w \in Workers, NEW f \in SaveFiles, FetchFile(w, f)
  PROVE  EInv'
<1>1. /\ pc[w] = "fetch" /\ Working(w) /\ Daemon \in Workers /\ App(w) \in Apps
      /\ UNCHANGED <<plays, hooks, events, local, server, pc, job, ts, excused>>
      /\ \A v \in Workers : v # w => todo'[v] = todo[v]
      /\ \A v \in Workers : App(v)' = App(v) /\ App(v) \in Apps
  BY DEF FetchFile, IInv, TypeOK, App, JobRecords, Working, Workers, exitVars, repoVars, ghosts
<1>2. \A a \in Apps : a # App(w) => save'[a] = save[a]
  <2>1. \/ save' = [save EXCEPT ![App(w)] = [@ EXCEPT ![f] = server[App(w)][ts[w]][f]]]
        \/ save' = save
    BY DEF FetchFile
  <2>2. save \in [Apps -> [SaveFiles -> Versions]]
    BY DEF IInv, TypeOK
  <2> QED
    BY ONLY <2>1, <2>2
<1>3. HookRuns' /\ DaemonServes'
  BY <1>1 DEF EInv, HookRuns, DaemonServes, EventOf, App
<1>4. \A a : (Pending(a)' <=> Pending(a)) /\ (InProgress(a)' <=> InProgress(a))
  BY <1>1 DEF Pending, InProgress, EventOf, App
<1>5. FetchesOwed'
  BY <1>1, <1>4 DEF EInv, FetchesOwed
<1>6. CopiesMatch'
  <2> SUFFICES ASSUME NEW v \in Workers, NEW a \in Apps, a \notin excused, pc[v] = "copy",
                      v = Daemon \/ ~job[v].remote, App(v) = a, ~Pending(a)
               PROVE  Matches(v)'
    BY <1>1, <1>4 DEF CopiesMatch
  <2>1. v # w /\ Matches(v)
    BY <1>1 DEF EInv, CopiesMatch
  <2>2. save'[a] = save[a]
    BY <1>1, <1>2, <2>1, Exclusive DEF IInv, Working
  <2> QED
    BY <1>1, <2>1, <2>2 DEF Matches, RepositoryOf, App
<1>7. ExitsOwed'
  <2> SUFFICES ASSUME NEW a \in Located \ excused, Played(a)', ~Pending(a)
               PROVE  InProgress(a) \/ BackedUp(a)'
    BY <1>1, <1>4 DEF ExitsOwed
  <2>1. a \in Apps /\ a # App(w)
    BY <1>1, CloudSaveAssumption DEF EInv, FetchesOwed
  <2>2. save'[a] = save[a]
    BY <1>2, <2>1
  <2> QED
    BY <1>1, <2>2 DEF EInv, ExitsOwed, Played, BackedUp
<1> QED
  BY <1>3, <1>5, <1>6, <1>7 DEF EInv

LEMMA NextEInv ==
  ASSUME IInv, EInv, [Next]_vars
  PROVE  EInv'
<1>1. CASE Next
  <2>1. (\E a \in Apps : GameExits(a)) \/ Tick => EInv'
    BY GameExitsExits, TickExits
  <2>2. (\E h \in hooks : HookStep(h)) \/ (\E e \in events : DaemonTakes(e)) => EInv'
    BY EventFileExits, SpawnCliExits, DaemonTakesExits DEF HookStep
  <2>3. (\E w \in Workers, op \in {"backup", "restore"}, a \in Apps : Request(w, op, a)) => EInv'
    BY RequestExits
  <2>4. ASSUME NEW w \in Workers, Step(w) PROVE EInv'
    <3>1. CASE Safeguard(w) \/ Locate(w) \/ List(w)
      BY <3>1, OperationExits DEF Safeguard, Locate, List
    <3>2. CASE Throws(w)
      BY <3>2, OperationExits, ReleaseExits
    <3> QED
      BY <2>4, <3>1, <3>2, GuardExits, CopyFileExits, FetchFileExits, PruneExits, ReleaseExits,
         EndExits DEF Step
  <2> QED
    BY <1>1, <2>1, <2>2, <2>3, <2>4, CrashExits DEF Next
<1>2. CASE UNCHANGED vars
  <2> USE <1>2 DEF EInv, vars, envVars, exitVars, repoVars, workVars, ghosts
  <2>1. HookRuns' /\ DaemonServes' /\ FetchesOwed'
    BY DEF HookRuns, DaemonServes, FetchesOwed, Pending, EventOf, App
  <2>2. \A a : (Pending(a)' <=> Pending(a)) /\ (InProgress(a)' <=> InProgress(a))
    BY DEF Pending, InProgress, EventOf, App
  <2>3. \A a : (Played(a)' <=> Played(a)) /\ (BackedUp(a)' <=> BackedUp(a))
    BY DEF Played, BackedUp
  <2>4. \A w \in Workers : App(w)' = App(w) /\ (Matches(w)' <=> Matches(w))
    BY DEF Matches, RepositoryOf, App
  <2>5. CopiesMatch' /\ ExitsOwed'
    BY <2>2, <2>3, <2>4 DEF CopiesMatch, ExitsOwed
  <2> QED
    BY <2>1, <2>5
<1> QED
  BY <1>1, <1>2

LEMMA InitEInv == Init => EInv
<1> SUFFICES ASSUME Init PROVE EInv
  OBVIOUS
<1> USE DEF Init
<1>1. Daemon \in Workers
  BY DEF Workers
<1>2. HookRuns /\ DaemonServes
  BY <1>1 DEF HookRuns, DaemonServes, Idle
<1>3. CopiesMatch /\ FetchesOwed
  BY DEF CopiesMatch, FetchesOwed
<1>4. \A a \in Apps : ~Played(a)
  BY DEF Played
<1> QED
  BY <1>2, <1>3, <1>4, CloudSaveAssumption DEF EInv, ExitsOwed

LEMMA InductiveExits == Spec => []EInv
<1>1. Init => EInv
  BY InitEInv
<1>2. IInv /\ EInv /\ [Next]_vars => EInv'
  BY NextEInv
<1> QED
  BY <1>1, <1>2, Inductive, PTL DEF Spec

-----------------------------------------------------------------------------
(* That the manager implements SaveVault: the operation that holds an      *)
(* app's lock is the one that is busy with the app.                        *)

\* A worker that is not idle has an operation, and copies only in a backup.
OperationIsKnown ==
  /\ \A w \in Workers : pc[w] # "idle" => job[w].op \in {"backup", "restore"}
  /\ \A w \in Workers : pc[w] \in {"safeguard", "copy"} => job[w].op = "backup"

\* An upload too goes to the newest snapshot of its app.
UploadIsNewest ==
  /\ \A a \in Apps : \A t \in Existing(server, a) : t <= clock
  /\ \A w \in Workers : (pc[w] = "copy" /\ job[w].remote) =>
       \A t \in Existing(server, App(w)) : t <= ts[w]

\* No snapshot gets newer while a restore fetches the newest one.
FetchIsNewest ==
  \A w \in Workers : pc[w] = "fetch" => \A t \in Existing(server, App(w)) : t <= ts[w]

VInv == OperationIsKnown /\ UploadIsNewest /\ FetchIsNewest

LEMMA InitVInv == Init => VInv
BY DEF Init, VInv, OperationIsKnown, UploadIsNewest, FetchIsNewest, Existing

\* The invariant speaks of workers, of the server and of the clock.
LEMMA VaultFrame ==
  ASSUME TypeOK, VInv, UNCHANGED <<pc, job, ts, server>>, clock' \in Nat, clock <= clock'
  PROVE  VInv'
<1>1. OperationIsKnown' /\ FetchIsNewest'
  BY DEF VInv, OperationIsKnown, FetchIsNewest, App, Existing
<1>2. UploadIsNewest'
  <2>1. clock \in Nat /\ \A a \in Apps : \A t \in Existing(server, a) : t \in Nat
    BY TimesAreNat DEF TypeOK, Existing
  <2> QED
    BY <2>1 DEF VInv, UploadIsNewest, App, Existing
<1> QED
  BY <1>1, <1>2 DEF VInv

\* A worker that goes on has an operation still, and copies in a backup only.
LEMMA VaultMoves ==
  ASSUME TypeOK, VInv, NEW w \in Workers, NEW place \in Places \ {"idle", "copy", "fetch"},
         GoTo(w, place), pc[w] # "idle", UNCHANGED <<job, server, clock>>,
         \A v \in Workers : v # w => ts'[v] = ts[v],
         place = "safeguard" => job[w].op = "backup"
  PROVE  VInv'
<1> USE DEF VInv, GoTo
<1>1. pc'[w] = place /\ \A v \in Workers : v # w => pc'[v] = pc[v]
  BY DEF TypeOK
<1>2. OperationIsKnown'
  BY <1>1 DEF OperationIsKnown
<1>3. \A v \in Workers : App(v)' = App(v)
  BY DEF App
<1>4. UploadIsNewest' /\ FetchIsNewest'
  BY <1>1, <1>3 DEF UploadIsNewest, FetchIsNewest, Existing
<1> QED
  BY <1>2, <1>4

LEMMA VaultStarted ==
  ASSUME TypeOK, VInv, NEW w \in Workers, NEW j, Start(w, j), j.op \in {"backup", "restore"},
         UNCHANGED <<server, clock, ts>>
  PROVE  VInv'
<1> USE DEF VInv, Start, GoTo
<1>1. /\ pc'[w] = "guard" /\ job'[w].op \in {"backup", "restore"}
      /\ \A v \in Workers : v # w => pc'[v] = pc[v] /\ job'[v] = job[v] /\ App(v)' = App(v)
  BY DEF TypeOK, App
<1>2. OperationIsKnown'
  BY <1>1 DEF OperationIsKnown
<1>3. UploadIsNewest' /\ FetchIsNewest'
  BY <1>1 DEF UploadIsNewest, FetchIsNewest, Existing
<1> QED
  BY <1>2, <1>3

LEMMA VaultEntry ==
  ASSUME IInv, VInv,
         \/ \E h \in hooks : HookStep(h)
         \/ \E e \in events : DaemonTakes(e)
         \/ \E w \in Workers, op \in {"backup", "restore"}, a \in Apps : Request(w, op, a)
  PROVE  VInv'
<1>0. TypeOK /\ clock \in Nat /\ clock <= clock
  BY TimesAreNat DEF IInv, TypeOK
<1>1. ASSUME NEW h \in hooks, OpenEvent(h) \/ WriteEvent(h) PROVE VInv'
  BY <1>0, <1>1, VaultFrame DEF OpenEvent, WriteEvent, envVars, repoVars, workVars
<1>2. ASSUME NEW h \in hooks, SpawnCli(h) PROVE VInv'
  <2> DEFINE j == [Idle EXCEPT !.op = "backup", !.app = h.app, !.remote = Url]
  <2>1. j.op = "backup"
    BY DEF Idle
  <2>2. UNCHANGED <<server, clock, ts>>
    BY <1>2 DEF SpawnCli, envVars, repoVars
  <2>3. (\E w \in Clis : Start(w, j)) \/ UNCHANGED <<pc, job>>
    BY <1>2 DEF SpawnCli
  <2> HIDE DEF j
  <2>4. Clis \subseteq Workers
    BY DEF Workers
  <2> QED
    BY <1>0, <2>1, <2>2, <2>3, <2>4, VaultStarted, VaultFrame
<1>3. ASSUME NEW e \in events, DaemonTakes(e) PROVE VInv'
  <2> DEFINE j == [op |-> "backup", app |-> e.app, remote |-> config = "enabled", event |-> e]
  <2>1. UNCHANGED <<server, clock, ts>>
    BY <1>3 DEF DaemonTakes, envVars, repoVars
  <2>2. Start(Daemon, j) \/ UNCHANGED <<pc, job>>
    BY <1>3 DEF DaemonTakes
  <2>3. j.op = "backup" /\ Daemon \in Workers
    BY DEF Workers
  <2> HIDE DEF j
  <2> QED
    BY <1>0, <2>1, <2>2, <2>3, VaultStarted, VaultFrame
<1>4. ASSUME NEW w \in Workers, NEW op \in {"backup", "restore"}, NEW a \in Apps, Request(w, op, a)
      PROVE  VInv'
  <2> DEFINE j == [op |-> op, app |-> a, remote |-> Url, event |-> NoEvent]
  <2>1. j.op \in {"backup", "restore"} /\ Start(w, j) /\ UNCHANGED <<server, clock, ts>>
    BY <1>4 DEF Request, repoVars
  <2> HIDE DEF j
  <2> QED
    BY <1>0, <2>1, VaultStarted
<1> QED
  BY <1>1, <1>2, <1>3, <1>4 DEF HookStep

LEMMA VaultLocates ==
  ASSUME IInv, VInv, NEW w \in Workers, Locate(w)
  PROVE  VInv'
<1> USE DEF IInv, VInv, Locate, GoTo
<1>1. /\ pc[w] = "locate" /\ UNCHANGED <<job, server, clock>>
      /\ pc'[w] \in {"list", "copy", "release"} /\ (pc'[w] = "copy" => ts'[w] = clock)
      /\ pc'[w] = "copy" => job[w].op # "restore"
      /\ App(w) \in Apps
      /\ \A v \in Workers : v # w => pc'[v] = pc[v] /\ ts'[v] = ts[v]
      /\ \A v \in Workers : App(v)' = App(v)
  BY DEF TypeOK, App, JobRecords, envVars, repoVars
<1>2. OperationIsKnown'
  BY <1>1 DEF OperationIsKnown
<1>3. UploadIsNewest' /\ FetchIsNewest'
  BY <1>1 DEF UploadIsNewest, FetchIsNewest, Existing
<1> QED
  BY <1>2, <1>3

LEMMA VaultLists ==
  ASSUME IInv, VInv, NEW w \in Workers, List(w)
  PROVE  VInv'
<1> USE DEF IInv, VInv, List, GoTo
<1>1. /\ pc[w] = "list" /\ UNCHANGED <<job, server, clock>>
      /\ pc'[w] \in {"fetch", "release"}
      /\ pc'[w] = "fetch" => /\ Existing(server, App(w)) # {}
                             /\ ts'[w] = Newest(Existing(server, App(w)))
      /\ \A v \in Workers : v # w => pc'[v] = pc[v] /\ ts'[v] = ts[v]
      /\ \A v \in Workers : App(v)' = App(v)
  BY DEF TypeOK, App, envVars, repoVars
<1>2. pc'[w] = "fetch" => \A t \in Existing(server, App(w)) : t <= ts'[w]
  <2>1. Existing(server, App(w)) \in SUBSET Times
    BY DEF Existing
  <2> QED
    BY <1>1, <2>1, HasNewest
<1>3. OperationIsKnown'
  BY <1>1 DEF OperationIsKnown
<1>4. UploadIsNewest' /\ FetchIsNewest'
  BY <1>1, <1>2 DEF UploadIsNewest, FetchIsNewest, Existing
<1> QED
  BY <1>3, <1>4

\* What a copy does to a repository: the snapshot of the worker gets nothing or
\* the file.
LEMMA CopyEffect ==
  ASSUME IInv, NEW w \in Workers, NEW f \in SaveFiles, CopyFile(w, f)
  PROVE  /\ pc[w] = "copy" /\ Working(w) /\ App(w) \in Apps /\ ts[w] \in Times
         /\ UNCHANGED <<clock, save, lock, pc, job, ts>>
         /\ \E done \in BOOLEAN :
              LET put(repo) ==
                    Stored(repo, w, IF done THEN [Begun(repo, w) EXCEPT ![f] = save[App(w)][f]]
                                            ELSE Begun(repo, w))
              IN  IF job[w].remote THEN server' \in {put(server), server} /\ local' = local
                                   ELSE local' = put(local) /\ server' = server
BY DEF IInv, CopyFile, TypeOK, App, JobRecords, Working, envVars

LEMMA VaultCopies ==
  ASSUME IInv, VInv, NEW w \in Workers, NEW f \in SaveFiles, CopyFile(w, f)
  PROVE  VInv'
<1> USE DEF VInv
<1>1. /\ pc[w] = "copy" /\ Working(w) /\ App(w) \in Apps /\ ts[w] \in Times
      /\ UNCHANGED <<clock, save, lock, pc, job, ts>>
      /\ \A v \in Workers : App(v)' = App(v) /\ App(v) \in Apps
      /\ ts[w] <= clock
  BY CopyEffect DEF App, IInv, TypeOK, JobRecords, SnapshotIsNewest
<1>2. /\ \A a \in Apps, t \in Times :
           (a # App(w) \/ t # ts[w]) => server'[a][t] = server[a][t]
      /\ ~job[w].remote => server' = server
  <2>1. PICK done \in BOOLEAN :
          LET put(repo) ==
                Stored(repo, w, IF done THEN [Begun(repo, w) EXCEPT ![f] = save[App(w)][f]]
                                        ELSE Begun(repo, w))
          IN  IF job[w].remote THEN server' \in {put(server), server} ELSE server' = server
    BY CopyEffect
  <2> DEFINE c == IF done THEN [Begun(server, w) EXCEPT ![f] = save[App(w)][f]]
                          ELSE Begun(server, w)
  <2>2. c \in Content /\ server \in Repository
    BY WrittenSnapshot DEF IInv, TypeOK
  <2>3. IF job[w].remote THEN server' \in {Stored(server, w, c), server} ELSE server' = server
    BY <2>1
  <2> HIDE DEF c
  <2> QED
    BY <2>2, <2>3, StoredSnapshot DEF IInv
<1>3. \A a \in Apps : \A t \in Existing(server', a) :
        t \in Existing(server, a) \/ (a = App(w) /\ t = ts[w])
  BY <1>2 DEF Existing
<1>4. OperationIsKnown'
  BY <1>1 DEF OperationIsKnown
<1>5. \A v \in Workers : (v # w /\ pc[v] \in {"copy", "fetch"}) =>
        Existing(server', App(v)) \subseteq Existing(server, App(v))
  <2> SUFFICES ASSUME NEW v \in Workers, v # w, pc[v] \in {"copy", "fetch"}
               PROVE  Existing(server', App(v)) \subseteq Existing(server, App(v))
    OBVIOUS
  <2>1. App(v) # App(w)
    BY <1>1, Exclusive DEF IInv, Working
  <2> QED
    BY <1>1, <1>3, <2>1
<1>6. UploadIsNewest'
  <2>1. ts[w] \in Nat /\ ts[w] <= ts[w]
    BY <1>1, TimesAreNat
  <2>2. \A v \in Workers : (pc[v] = "copy" /\ job[v].remote) =>
          \A t \in Existing(server', App(v)) : t <= ts[v]
    BY <1>1, <1>3, <1>5, <2>1 DEF UploadIsNewest
  <2>3. \A a \in Apps : \A t \in Existing(server', a) : t <= clock
    BY <1>1, <1>3 DEF UploadIsNewest
  <2> QED
    BY <1>1, <2>2, <2>3 DEF UploadIsNewest, Existing
<1>7. FetchIsNewest'
  BY <1>1, <1>5 DEF FetchIsNewest, Existing
<1> QED
  BY <1>4, <1>6, <1>7

LEMMA VaultStep ==
  ASSUME IInv, VInv, NEW w \in Workers, Step(w)
  PROVE  VInv'
<1>0. TypeOK /\ clock \in Nat /\ clock <= clock
  BY TimesAreNat DEF IInv, TypeOK
<1>1. CASE Guard(w) \/ Safeguard(w) \/ Throws(w) \/ Prune(w) \/ Release(w)
  <2>1. pc[w] # "idle" /\ UNCHANGED <<job, server, clock, ts>>
    BY <1>1 DEF Guard, Safeguard, Throws, Prune, Release, Over, envVars, repoVars
  <2>2. \E place \in {"safeguard", "locate", "release", "end"} :
          GoTo(w, place) /\ (place = "safeguard" => job[w].op = "backup")
    BY <1>1 DEF Guard, Safeguard, Throws, Prune, Release
  <2> QED
    BY <1>0, <2>1, <2>2, VaultMoves DEF Places
<1>2. ASSUME NEW f \in SaveFiles, FetchFile(w, f) PROVE VInv'
  BY <1>0, <1>2, VaultFrame DEF FetchFile, repoVars
<1>3. CASE End(w)
  <2>1. /\ pc'[w] = "idle" /\ UNCHANGED <<server, clock>>
        /\ \A v \in Workers : v # w => /\ pc'[v] = pc[v] /\ job'[v] = job[v] /\ ts'[v] = ts[v]
                                       /\ App(v)' = App(v)
    BY <1>0, <1>3 DEF End, GoTo, TypeOK, App, envVars, repoVars
  <2>2. OperationIsKnown'
    BY <2>1 DEF VInv, OperationIsKnown
  <2>3. UploadIsNewest' /\ FetchIsNewest'
    BY <2>1 DEF VInv, UploadIsNewest, FetchIsNewest, Existing
  <2> QED
    BY <2>2, <2>3 DEF VInv
<1> QED
  BY <1>1, <1>2, <1>3, VaultLocates, VaultLists, VaultCopies DEF Step

LEMMA NextVInv ==
  ASSUME IInv, VInv, [Next]_vars
  PROVE  VInv'
<1>0. TypeOK /\ clock \in Nat /\ clock <= clock
  BY TimesAreNat DEF IInv, TypeOK
<1>1. CASE Tick \/ (\E a \in Apps : GameExits(a)) \/ UNCHANGED vars
  <2>1. UNCHANGED <<pc, job, ts, server>> /\ clock' \in {clock, clock + 1}
    BY <1>1 DEF Tick, GameExits, vars, envVars, repoVars, workVars
  <2>2. clock' \in Nat /\ clock <= clock'
    BY <1>0, <2>1
  <2> QED
    BY <1>0, <2>1, <2>2, VaultFrame
<1>2. ASSUME NEW p \in Processes, Crash(p) PROVE VInv'
  <2>1. /\ UNCHANGED <<server, clock>>
        /\ \A v \in Workers : \/ pc'[v] = "idle"
                              \/ /\ pc'[v] = pc[v] /\ job'[v] = job[v] /\ ts'[v] = ts[v]
                                 /\ App(v)' = App(v)
    BY <1>2 DEF Crash, App, repoVars
  <2>2. OperationIsKnown'
    BY <2>1 DEF VInv, OperationIsKnown
  <2>3. UploadIsNewest' /\ FetchIsNewest'
    BY <2>1 DEF VInv, UploadIsNewest, FetchIsNewest, Existing
  <2> QED
    BY <2>2, <2>3 DEF VInv
<1> QED
  BY <1>1, <1>2, VaultEntry, VaultStep DEF Next

LEMMA InductiveVault == Spec => []VInv
BY InitVInv, NextVInv, Inductive, PTL DEF Spec

\* The operators of the instance are those of the model.
LEMMA VaultExisting ==
  ASSUME NEW repo, NEW a
  PROVE  Vault!Existing(repo, a) = Existing(repo, a)
BY DEF Vault!Existing, Existing

\* The mapping sees who holds a lock, and what the holder is at.
LEMMA BusyKept ==
  ASSUME UNCHANGED lock, \A a \in Apps : lock[a] # NoWorker => job'[lock[a]] = job[lock[a]]
  PROVE  Busy' = Busy
BY DEF Busy

\* Work of a thread that holds no lock yet shows nowhere.
LEMMA StartIsHidden ==
  ASSUME IInv, NEW w \in Workers, NEW j, Start(w, j), UNCHANGED lock
  PROVE  Busy' = Busy
<1>1. \A a \in Apps : lock[a] # NoWorker => lock[a] \in Workers \ {w}
  BY DEF IInv, TypeOK, LockIsHolders, Working, Start
<1>2. \A v \in Workers \ {w} : job'[v] = job[v]
  BY DEF Start, IInv, TypeOK
<1> QED
  BY <1>1, <1>2, BusyKept

\* Its cardinalities too.
LEMMA VaultCardinality ==
  ASSUME NEW S
  PROVE  Vault!Cardinality(S) = Cardinality(S)
BY DEF Vault!Cardinality, Cardinality

\* A worker that copies, prunes or fetches is the one that is busy with its app.
LEMMA CopyIsVaultCopy ==
  ASSUME IInv, VInv, NEW w \in Workers, NEW f \in SaveFiles, CopyFile(w, f)
  PROVE  Vault!Copy(App(w)) \/ UNCHANGED <<Busy, save, local, server>>
<1>1. /\ pc[w] = "copy" /\ Working(w) /\ App(w) \in Apps /\ ts[w] \in Times
      /\ UNCHANGED <<clock, save, lock, pc, job, ts>>
  BY CopyEffect
<1>2. Busy[App(w)] = "backup" /\ Busy' = Busy
  <2>1. lock[App(w)] = w /\ w # NoWorker /\ job[w].op = "backup"
    BY <1>1, CloudSaveAssumption DEF IInv, LockIsHolders, VInv, OperationIsKnown
  <2> QED
    BY <1>1, <2>1, BusyKept DEF Busy
<1>3. PICK done \in BOOLEAN :
        LET put(repo) ==
              Stored(repo, w, IF done THEN [Begun(repo, w) EXCEPT ![f] = save[App(w)][f]]
                                      ELSE Begun(repo, w))
        IN  IF job[w].remote THEN server' \in {put(server), server} /\ local' = local
                             ELSE local' = put(local) /\ server' = server
  BY CopyEffect
<1> DEFINE c(repo) == IF done THEN [Begun(repo, w) EXCEPT ![f] = save[App(w)][f]]
                              ELSE Begun(repo, w)
<1>4. \A repo : c(repo) \in Vault!Additions(repo[App(w)][ts[w]], save[App(w)])
  BY DEF Vault!Additions, Begun, EmptySnapshot
<1>5. IF job[w].remote THEN server' \in {Stored(server, w, c(server)), server} /\ local' = local
                       ELSE local' = Stored(local, w, c(local)) /\ server' = server
  BY <1>3
<1> HIDE DEF c
<1>6. ASSUME NEW repo, NEW new, new = Stored(repo, w, c(repo)),
             \A t \in Existing(repo, App(w)) : t <= ts[w]
      PROVE  Vault!Adds(repo, new, App(w))
  <2>1. Vault!IsLatest(ts[w], Vault!Existing(repo, App(w)))
    BY <1>6, VaultExisting DEF Vault!IsLatest
  <2>2. new = [repo EXCEPT ![App(w)] = [@ EXCEPT ![ts[w]] = c(repo)]]
    BY <1>6 DEF Stored
  <2> QED
    BY <1>1, <1>4, <2>1, <2>2 DEF Vault!Adds
<1>7. CASE job[w].remote
  <2>1. \A t \in Existing(server, App(w)) : t <= ts[w]
    BY <1>1, <1>7 DEF VInv, UploadIsNewest
  <2>2. CASE server' = Stored(server, w, c(server))
    <3>1. Vault!Adds(server, server', App(w)) /\ local' = local
      BY <1>5, <1>6, <1>7, <2>1, <2>2
    <3> QED
      BY <1>1, <1>2, <3>1 DEF Vault!Copy
  <2> QED
    BY <1>1, <1>2, <1>5, <1>7, <2>2
<1>8. CASE ~job[w].remote
  <2>1. \A t \in Existing(local, App(w)) : t <= ts[w]
    BY <1>1, <1>8 DEF IInv, SnapshotIsNewest, LocalCopy
  <2>2. Vault!Adds(local, local', App(w)) /\ server' = server
    BY <1>5, <1>6, <1>8, <2>1
  <2> QED
    BY <1>1, <1>2, <2>2 DEF Vault!Copy
<1> QED
  BY <1>7, <1>8

\* A snapshot is dropped only if there are Keep later ones.
LEMMA KeptRetains ==
  ASSUME NEW T \in SUBSET Times
  PROVE  Vault!Retains(Kept(T), T)
<1>1. Kept(T) \subseteq T /\ Cardinality(Kept(T)) <= Keep
  BY KeptBounded
<1>2. ASSUME NEW t \in Kept(T), NEW u \in T \ Kept(T) PROVE u < t
  <2>1. t \in Nat /\ u \in Nat /\ T \subseteq Nat
    BY <1>1, TimesAreNat
  <2>2. CASE t <= u
    <3>1. {v \in T : v > u} \subseteq {v \in T : v > t}
      <4> SUFFICES ASSUME NEW v \in T, v > u PROVE v > t
        OBVIOUS
      <4>1. v \in Nat
        BY <2>1
      <4> QED
        BY <2>1, <2>2, <4>1
    <3>2. /\ IsFiniteSet({v \in T : v > t}) /\ Cardinality({v \in T : v > t}) \in Nat
          /\ Cardinality({v \in T : v > u}) \in Nat
      BY TimesFinite
    <3>3. Cardinality({v \in T : v > u}) <= Cardinality({v \in T : v > t})
      BY <3>1, <3>2, FS_Subset
    <3>4. Cardinality({v \in T : v > t}) < Keep /\ ~(Cardinality({v \in T : v > u}) < Keep)
      BY <1>1, <1>2 DEF Kept
    <3> QED
      BY <3>2, <3>3, <3>4, CloudSaveAssumption
  <2> QED
    BY <2>1, <2>2
<1>3. Kept(T) = T \/ Cardinality(Kept(T)) = Keep
  <2> SUFFICES ASSUME Kept(T) # T PROVE Cardinality(Kept(T)) = Keep
    OBVIOUS
  <2>1. T \ Kept(T) \in SUBSET Times /\ T \ Kept(T) # {}
    BY <1>1
  <2>2. PICK d \in T \ Kept(T) : \A u \in T \ Kept(T) : u <= d
    BY <2>1, HasNewest
  <2>3. {v \in T : v > d} \subseteq Kept(T)
    <3> SUFFICES ASSUME NEW v \in T, v > d, v \notin Kept(T) PROVE FALSE
      OBVIOUS
    <3>1. v <= d /\ v \in Nat /\ d \in Nat
      BY <2>2, TimesAreNat
    <3> QED
      BY <3>1
  <2>4. /\ IsFiniteSet(Kept(T)) /\ Cardinality(Kept(T)) \in Nat
        /\ Cardinality({v \in T : v > d}) \in Nat
    BY <1>1, TimesFinite
  <2>5. Cardinality({v \in T : v > d}) <= Cardinality(Kept(T))
    BY <2>3, <2>4, FS_Subset
  <2>6. ~(Cardinality({v \in T : v > d}) < Keep)
    BY <2>2 DEF Kept
  <2> QED
    BY <1>1, <2>4, <2>5, <2>6, CloudSaveAssumption
<1> QED
  BY <1>1, <1>2, <1>3, VaultCardinality DEF Vault!Retains

LEMMA PruneIsVaultTrim ==
  ASSUME IInv, VInv, NEW w \in Workers, Prune(w)
  PROVE  Vault!Trim(App(w))
<1> DEFINE T == Existing(local, App(w))
<1>1. /\ pc[w] = "copy" /\ Working(w) /\ UNCHANGED <<save, lock, job, server>>
      /\ T \in SUBSET Times
  BY DEF Prune, Working, Existing, envVars
<1>2. Busy[App(w)] = "backup" /\ Busy' = Busy
  <2>1. lock[App(w)] = w /\ w # NoWorker /\ job[w].op = "backup" /\ App(w) \in Apps
    BY <1>1, CloudSaveAssumption
    DEF IInv, LockIsHolders, VInv, OperationIsKnown, TypeOK, App, JobRecords
  <2> QED
    BY <1>1, <2>1, BusyKept DEF Busy
<1>3. \E left \in [Times -> Vault!Snapshots] :
        /\ \A t \in Times : IF t \in T \ Kept(T) THEN left[t] \in Vault!Dropped(local[App(w)][t])
                            ELSE left[t] = local[App(w)][t]
        /\ local' = [local EXCEPT ![App(w)] = left]
  BY DEF Prune, Remains, Vault!Dropped, Vault!Snapshots, Content
<1>4. Kept(T) \in SUBSET T /\ Vault!Retains(Kept(T), T)
  BY <1>1, KeptBounded, KeptRetains
<1> HIDE DEF T
<1>5. Vault!Existing(local, App(w)) = T
  BY VaultExisting DEF T
<1> QED
  BY <1>1, <1>2, <1>3, <1>4, <1>5 DEF Vault!Trim

LEMMA FetchIsVaultFetch ==
  ASSUME IInv, VInv, NEW w \in Workers, NEW f \in SaveFiles, FetchFile(w, f)
  PROVE  Vault!Fetch(App(w)) \/ UNCHANGED <<Busy, save, local, server>>
<1>1. /\ pc[w] = "fetch" /\ Working(w) /\ f \in todo[w]
      /\ UNCHANGED <<lock, job, local, server>>
      /\ App(w) \in Apps /\ ts[w] \in Times
  BY DEF FetchFile, Working, repoVars, IInv, TypeOK, App, JobRecords
<1>2. Busy[App(w)] = "restore" /\ Busy' = Busy
  <2>1. lock[App(w)] = w /\ w # NoWorker /\ job[w].op = "restore"
    BY <1>1, CloudSaveAssumption DEF IInv, LockIsHolders, FetchIsListed
  <2> QED
    BY <1>1, <2>1, BusyKept DEF Busy
<1>3. ts[w] \in Existing(server, App(w)) /\ server[App(w)][ts[w]][f] # Missing
  BY <1>1 DEF IInv, FetchIsListed, Listed, Existing
<1>4. \A t \in Existing(server, App(w)) : t <= ts[w]
  BY <1>1 DEF VInv, FetchIsNewest
<1>5. \/ save' = [save EXCEPT ![App(w)] = [@ EXCEPT ![f] = server[App(w)][ts[w]][f]]]
      \/ save' = save
  BY DEF FetchFile
<1>6. /\ ts[w] \in Vault!Existing(server, App(w))
      /\ Vault!IsLatest(ts[w], Vault!Existing(server, App(w)))
  BY <1>3, <1>4, VaultExisting DEF Vault!IsLatest
<1>7. CASE save' = [save EXCEPT ![App(w)] = [@ EXCEPT ![f] = server[App(w)][ts[w]][f]]]
  BY <1>1, <1>2, <1>3, <1>6, <1>7 DEF Vault!Fetch
<1> QED
  BY <1>1, <1>2, <1>5, <1>7

LEMMA GuardIsVaultBegin ==
  ASSUME IInv, VInv, NEW w \in Workers, Guard(w)
  PROVE  Vault!Begin(App(w)) \/ UNCHANGED <<Busy, save, local, server>>
<1>1. /\ App(w) \in Apps /\ job[w].op \in {"backup", "restore"}
      /\ UNCHANGED <<save, local, server, job>>
      /\ lock \in [Apps -> Workers \cup {NoWorker}]
  BY DEF IInv, VInv, OperationIsKnown, TypeOK, App, JobRecords, Guard, envVars, repoVars
<1>2. CASE lock[App(w)] = NoWorker
  <2>1. lock' = [lock EXCEPT ![App(w)] = w] /\ w # NoWorker
    BY <1>2, CloudSaveAssumption DEF Guard
  <2>2. Busy[App(w)] = "none"
    BY <1>1, <1>2 DEF Busy
  <2>3. Busy' = [Busy EXCEPT ![App(w)] = job[w].op]
    BY <1>1, <2>1 DEF Busy
  <2> QED
    BY <1>1, <2>2, <2>3 DEF Vault!Begin
<1>3. CASE lock[App(w)] # NoWorker
  <2>1. lock' = lock
    BY <1>3 DEF Guard
  <2> QED
    BY <1>1, <2>1, BusyKept
<1> QED
  BY <1>2, <1>3

LEMMA ReleaseIsVaultEnd ==
  ASSUME IInv, NEW w \in Workers, Release(w)
  PROVE  Vault!End({App(w)})
<1>1. /\ lock' = [lock EXCEPT ![App(w)] = NoWorker] /\ UNCHANGED <<save, local, server, job>>
      /\ lock \in [Apps -> Workers \cup {NoWorker}] /\ App(w) \in Apps
  BY DEF Release, IInv, TypeOK, App, JobRecords, envVars, repoVars
<1>2. Busy' = [a \in Apps |-> IF a \in {App(w)} THEN "none" ELSE Busy[a]]
  BY <1>1 DEF Busy
<1> QED
  BY <1>1, <1>2 DEF Vault!End

LEMMA CrashIsVaultEnd ==
  ASSUME IInv, NEW p \in Processes, Crash(p)
  PROVE  \E A \in SUBSET Apps : Vault!End(A)
<1> DEFINE dead == {w \in Workers : ProcessOf[w] = p}
           A    == {a \in Apps : lock[a] \in dead}
<1>1. /\ lock' = [a \in Apps |-> IF lock[a] \in dead THEN NoWorker ELSE lock[a]]
      /\ job' = [w \in Workers |-> IF w \in dead THEN Idle ELSE job[w]]
      /\ UNCHANGED <<save, local, server>>
      /\ lock \in [Apps -> Workers \cup {NoWorker}]
      /\ NoWorker \notin Workers
  BY CloudSaveAssumption DEF Crash, IInv, TypeOK, repoVars
<1>2. \A v \in Workers : v \notin dead => job'[v] = job[v]
  BY <1>1
<1> HIDE DEF dead
<1>3. Busy' = [a \in Apps |-> IF a \in A THEN "none" ELSE Busy[a]]
  BY <1>1, <1>2 DEF Busy
<1>4. Vault!End(A)
  BY <1>1, <1>3 DEF Vault!End
<1> QED
  BY <1>4

\* What the mapping makes of a step: one of SaveVault, or nothing.
LEMMA StepIsVaultStep ==
  ASSUME IInv, VInv, [Next]_vars
  PROVE  [Vault!Next]_<<Busy, save, local, server>>
<1> DEFINE Same == UNCHANGED <<Busy, save, local, server>>
<1>0. \A w \in Workers : App(w) \in Apps
  BY DEF IInv, TypeOK, App, JobRecords
<1>1. CASE Tick \/ UNCHANGED vars
  <2>1. UNCHANGED <<lock, job, save, local, server>>
    BY <1>1 DEF Tick, vars, envVars, repoVars, workVars
  <2> QED
    BY <2>1, BusyKept
<1>2. ASSUME NEW a \in Apps, GameExits(a) PROVE Vault!Play(a)
  <2>1. UNCHANGED <<lock, job, local, server>>
    BY <1>2 DEF GameExits, repoVars, workVars
  <2>2. plays' \in Versions /\ save' = [save EXCEPT ![a] = [f \in SaveFiles |-> plays']]
    BY <1>2, CloudSaveAssumption DEF GameExits, IInv, TypeOK, Versions
  <2> QED
    BY <2>1, <2>2, BusyKept DEF Vault!Play
<1>3. ASSUME NEW h \in hooks, HookStep(h) PROVE Same
  <2>1. UNCHANGED <<lock, save, local, server>>
    BY <1>3 DEF HookStep, OpenEvent, WriteEvent, SpawnCli, envVars, repoVars
  <2>2. UNCHANGED job \/ \E w \in Clis : \E j : Start(w, j)
    BY <1>3 DEF HookStep, OpenEvent, WriteEvent, SpawnCli, workVars
  <2> QED
    BY <2>1, <2>2, BusyKept, StartIsHidden DEF Workers
<1>4. ASSUME NEW e \in events, DaemonTakes(e) PROVE Same
  <2>1. UNCHANGED <<lock, save, local, server>>
    BY <1>4 DEF DaemonTakes, envVars, repoVars
  <2>2. UNCHANGED job \/ \E j : Start(Daemon, j)
    BY <1>4 DEF DaemonTakes
  <2> QED
    BY <2>1, <2>2, BusyKept, StartIsHidden DEF Workers
<1>5. ASSUME NEW w \in Workers, NEW op \in {"backup", "restore"}, NEW a \in Apps, Request(w, op, a)
      PROVE  Same
  <2>1. UNCHANGED <<lock, save, local, server>> /\ \E j : Start(w, j)
    BY <1>5 DEF Request, repoVars
  <2> QED
    BY <2>1, StartIsHidden
<1>6. ASSUME NEW w \in Workers, Step(w) PROVE Vault!Next \/ Same
  <2>1. CASE Safeguard(w) \/ Locate(w) \/ Throws(w) \/ List(w)
    <3>1. UNCHANGED <<lock, job, save, local, server>>
      BY <2>1 DEF Safeguard, Locate, Throws, List, envVars, repoVars
    <3> QED
      BY <3>1, BusyKept
  <2>2. CASE End(w)
    <3>1. UNCHANGED <<lock, save, local, server>>
      BY <2>2 DEF End, envVars, repoVars
    <3>2. \A a \in Apps : lock[a] # NoWorker => lock[a] \in Workers \ {w}
      BY <2>2 DEF End, IInv, TypeOK, LockIsHolders, Working
    <3>3. \A v \in Workers \ {w} : job'[v] = job[v]
      BY <2>2 DEF End, IInv, TypeOK
    <3> QED
      BY <3>1, <3>2, <3>3, BusyKept
  <2>3. CASE \E f \in SaveFiles : CopyFile(w, f) \/ FetchFile(w, f)
    BY <1>0, <2>3, CopyIsVaultCopy, FetchIsVaultFetch DEF Vault!Next
  <2>4. CASE Guard(w) \/ Prune(w)
    BY <1>0, <2>4, GuardIsVaultBegin, PruneIsVaultTrim DEF Vault!Next
  <2>5. CASE Release(w)
    BY <1>0, <2>5, ReleaseIsVaultEnd DEF Vault!Next
  <2> QED
    BY <1>6, <2>1, <2>2, <2>3, <2>4, <2>5 DEF Step
<1>7. ASSUME NEW p \in Processes, Crash(p) PROVE Vault!Next
  BY <1>7, CrashIsVaultEnd DEF Vault!Next
<1> QED
  BY <1>1, <1>2, <1>3, <1>4, <1>5, <1>6, <1>7 DEF Next, Vault!Next

-----------------------------------------------------------------------------
(* The theorems. *)

\* The variables of the manager keep their types; among others, a restore
\* writes only versions of a file that the game has made.
THEOREM TypeCorrect == Spec => []TypeOK
<1>1. IInv => TypeOK
  BY DEF IInv
<1> QED
  BY <1>1, Inductive, PTL

\* Between operations on an app no more snapshots of it are kept than
\* BackupAppSavesLocal is to retain, once one has pruned to the end after the last
\* that was cut short or failed to list or remove what it should.
THEOREM RetentionBounded == Spec => []RepositoryBounded
<1>1. IInv => RepositoryBounded
  <2> SUFFICES ASSUME IInv, NEW a \in Apps, lock[a] = NoWorker, a \notin unpruned
               PROVE  Cardinality(Existing(local, a)) <= Keep
    BY DEF RepositoryBounded
  <2>1. \A w \in Workers : LocalCopy(w) => App(w) # a
    BY CloudSaveAssumption DEF IInv, LockIsHolders, LocalCopy, Working
  <2> QED
    BY <2>1 DEF IInv, BoundedUnlessCopied
<1> QED
  BY <1>1, Inductive, PTL

\* The prune of a local backup never takes the snapshot that backup has made.
THEOREM SuccessSurvivesPrune == Spec => []SuccessIsKept
<1>1. IInv => SuccessIsKept
  <2> SUFFICES ASSUME IInv, NEW w \in Workers, Succeeded(w), job[w].op = "backup", ~job[w].remote
               PROVE  local[App(w)][ts[w]] \notin {NoSnapshot, EmptySnapshot}
    BY DEF SuccessIsKept
  <2>1. CASE pc[w] \in {"copy", "release"}
    BY <2>1 DEF IInv, CopiedIsStored, Succeeded
  <2>2. CASE pc[w] = "fetch"
    BY <2>2 DEF IInv, FetchIsListed
  <2> QED
    BY <2>1, <2>2 DEF Succeeded, Over
<1> QED
  BY <1>1, Inductive, PTL

\* While a backup copies the save of an app no restore of that app writes it,
\* whatever processes and threads they run in.
THEOREM BackupsAreConsistent == Spec => BackupSeesStillSave
<1> DEFINE Still == \A w \in Workers : (pc[w] = "copy" /\ save'[App(w)] # save[App(w)]) => plays' # plays
<1>1. IInv /\ [Next]_vars => [Still]_vars
  <2> SUFFICES ASSUME IInv, Next, NEW w \in Workers, pc[w] = "copy", plays' = plays
               PROVE  save'[App(w)] = save[App(w)]
    OBVIOUS
  <2>1. ASSUME NEW a \in Apps, GameExits(a) PROVE FALSE
    <3>1. plays \in Nat /\ plays' = plays + 1
      BY <2>1, CloudSaveAssumption DEF IInv, TypeOK, GameExits
    <3> QED
      BY <3>1
  <2>2. ASSUME NEW v \in Workers, NEW f \in SaveFiles, FetchFile(v, f)
        PROVE  save'[App(w)] = save[App(w)]
    <3>1. App(v) # App(w)
      BY <2>2, Exclusive DEF IInv, Working, FetchFile
    <3>2. App(w) \in Apps /\ save \in [Apps -> [SaveFiles -> Versions]]
      BY DEF IInv, TypeOK, App, JobRecords
    <3>3. \/ save' = [save EXCEPT ![App(v)] = [@ EXCEPT ![f] = server[App(v)][ts[v]][f]]]
          \/ save' = save
      BY <2>2 DEF FetchFile
    <3> QED
      BY ONLY <3>1, <3>2, <3>3
  <2>3. CASE \E v \in Workers : Step(v) /\ ~ \E f \in SaveFiles : FetchFile(v, f)
    BY <2>3 DEF Step, Guard, Safeguard, Locate, CopyFile, Throws, Prune, List, Release, End, envVars
  <2>4. CASE (\E h \in hooks : HookStep(h)) \/ (\E e \in events : DaemonTakes(e)) \/ Tick
    BY <2>4 DEF HookStep, OpenEvent, WriteEvent, SpawnCli, DaemonTakes, Tick, envVars
  <2>5. CASE \/ \E v \in Workers, op \in {"backup", "restore"}, a \in Apps : Request(v, op, a)
             \/ \E p \in Processes : Crash(p)
    BY <2>5 DEF Request, Crash
  <2> QED
    BY <2>1, <2>2, <2>3, <2>4, <2>5 DEF Next
<1> QED
  BY <1>1, Inductive, PTL DEF Spec, BackupSeesStillSave

\* When all has calmed down the save that the last run of a game left is in a
\* repository, crashes of the manager notwithstanding, unless one of the
\* excuses holds that ExitIsBackedUp names.
THEOREM ExitsAreBackedUp == Spec => []ExitIsBackedUp
<1>1. EInv => ExitIsBackedUp
  <2> SUFFICES ASSUME EInv, Quiet, NEW a \in Located \ excused, Played(a)
               PROVE  BackedUp(a)
    BY DEF ExitIsBackedUp
  <2>1. pc[Daemon] = "idle" /\ hooks = {} /\ events = {}
    BY DEF Quiet, Workers
  <2>2. ~Pending(a) /\ ~InProgress(a)
    BY <2>1 DEF Pending, InProgress
  <2> QED
    BY <2>2 DEF EInv, ExitsOwed
<1> QED
  BY <1>1, InductiveExits, PTL

\* Daemon, web threads and command lines, with crashes and failures at any
\* point, do to saves and snapshots what one operation per app would do: backups
\* add to the latest snapshot, retention drops the oldest ones, restores put
\* back files of the server's latest.
THEOREM VaultRefinement == Spec => ImplementsVault
<1>1. Init => Vault!Init
  <2> SUFFICES ASSUME Init PROVE Vault!Init
    OBVIOUS
  <2>1. save \in [Apps -> [SaveFiles -> Versions]]
    BY CloudSaveAssumption DEF Init, Versions
  <2>2. Busy = [a \in Apps |-> "none"]
    BY DEF Init, Busy
  <2> QED
    BY <2>1, <2>2 DEF Init, Vault!Init
<1>2. IInv /\ VInv /\ [Next]_vars => [Vault!Next]_<<Busy, save, local, server>>
  BY StepIsVaultStep
<1> QED
  BY <1>1, <1>2, Inductive, InductiveVault, PTL DEF Spec, ImplementsVault, Vault!Spec, Vault!vars
=============================================================================
