-------------------------- MODULE LuaConfigProofs ---------------------------
(***************************************************************************)
(* TLAPS proofs about LuaConfig: for any set of files, ids, scripts and    *)
(* reload threads, and any number of edits, readers see one complete build *)
(* and never the slot a reload is filling.                                 *)
(***************************************************************************)
EXTENDS LuaConfig, TLAPS

\* The calls of file f that t's build has made so far.
DoneIn(t, f) == IF f = cur[t] THEN 1 .. pos[t] ELSE Ran(read[t][f])

\* A thread between begin and publication.
Building(t) == pc[t] \in {"scan", "run"}

\* Where each thread is inside its files.
CursorInv ==
  \A t \in Threads :
    /\ pc[t] # "run" => cur[t] = NoFile
    /\ pc[t] = "run" => /\ cur[t] \in Files
                        /\ read[t][cur[t]] \in Scripts
                        /\ pos[t] <= Len(read[t][cur[t]])
                        /\ \A j \in 1 .. pos[t] : read[t][cur[t]][j].op # "raise"
    /\ ~Building(t) => read[t] = [f \in Files |-> NotRead]
    /\ \A f \in todo[t] : read[t][f] = NotRead

\* The init thread owns the active slot until hooks are installed; after that
\* only the holder of g_reloadMutex builds, and it builds the other slot.
OwnerInv ==
  /\ pc[InitThread] # "idle"
  /\ ~Serving => target[InitThread] = activeSlot
  /\ \A t \in Reloaders :
       /\ pc[t] # "done"
       /\ Building(t) => /\ Serving
                         /\ reloadLock = t
                         /\ target[t] = 1 - activeSlot

\* A slot under construction holds exactly what the calls made so far put in.
BuildInv ==
  \A t \in Threads : Building(t) =>
    \A i \in Ids :
      /\ i \in slots[target[t]].unlocked <=>
           \E f \in Files : read[t][f] # NotRead /\ i \in UnlockedIn(read[t][f], DoneIn(t, f))
      /\ i \in slots[target[t]].keys <=>
           \E f \in Files : read[t][f] # NotRead /\ i \in KeysIn(read[t][f], DoneIn(t, f))

\* UnlocksAreOneBuild, id by id.
PublishedInv ==
  Serving =>
    \A i \in Ids :
      /\ i \in Visible.unlocked <=>
           \E f \in Files : source[f] # NotRead /\ i \in UnlockedIn(source[f], Ran(source[f]))
      /\ i \in Visible.keys <=>
           \E f \in Files : source[f] # NotRead /\ i \in KeysIn(source[f], Ran(source[f]))

\* A build whose start no edit followed has read the disk.
FreshInv ==
  /\ SettledSnapshotIsDisk
  /\ \A t \in Threads :
       (Building(t) /\ ~dirty[t]) => \A f \in Files : read[t][f] \in {disk[f], NotRead}

IndInv == TypeOK /\ CursorInv /\ OwnerInv /\ BuildInv /\ PublishedInv /\ FreshInv

-----------------------------------------------------------------------------
\* One call changes a slot's two id sets as the script runner intends.
LEMMA ApplyType ==
  ASSUME NEW d \in LuaData, NEW c \in Call
  PROVE  /\ Apply(d, c) \in LuaData
         /\ Apply(d, c).unlocked = IF Unlocks(c) THEN d.unlocked \cup {c.id} ELSE d.unlocked
         /\ Apply(d, c).keys = IF c.op = "key" THEN d.keys \cup {c.id} ELSE d.keys
  BY DEF Apply, LuaData, Call, Unlocks

\* The next call of a running script is a call.
LEMMA NextCallType ==
  ASSUME TypeOK, CursorInv, NEW t \in Threads, pc[t] = "run", ~AtEnd(t)
  PROVE  /\ Running(t) \in Seq(Call)
         /\ pos[t] + 1 \in 1 .. Len(Running(t))
         /\ Running(t)[pos[t] + 1] \in Call
         /\ Running(t)[pos[t] + 1].op # "raise"
  <1>1. Running(t) \in Seq(Call)
    BY ScriptsAssumption DEF CursorInv, Running
  <1>2. pos[t] < Len(Running(t)) /\ Running(t)[pos[t] + 1].op # "raise"
    BY DEF AtEnd
  <1>3. pos[t] \in Nat
    BY DEF TypeOK
  <1> QED
    BY <1>1, <1>2, <1>3

\* A script that is at its end has made exactly the calls it ever makes.
LEMMA EndIsRan ==
  ASSUME TypeOK, CursorInv, NEW t \in Threads, pc[t] = "run", AtEnd(t)
  PROVE  1 .. pos[t] = Ran(Running(t))
  <1> DEFINE s == Running(t)
  <1>1. s \in Seq(Call) /\ Len(s) \in Nat
    BY ScriptsAssumption DEF CursorInv, Running
  <1>2. pos[t] \in Nat /\ pos[t] <= Len(s) /\ \A j \in 1 .. pos[t] : s[j].op # "raise"
    BY DEF CursorInv, TypeOK, Running
  <1>3. pos[t] < Len(s) => s[pos[t] + 1].op = "raise"
    BY DEF AtEnd
  <1> HIDE DEF s
  <1>4. ASSUME NEW i \in 1 .. pos[t] PROVE i \in Ran(s)
    BY <1>1, <1>2 DEF Ran
  <1>5. ASSUME NEW i \in Ran(s) PROVE i \in 1 .. pos[t]
    <2>1. i \in 1 .. Len(s) /\ \A j \in 1 .. i : s[j].op # "raise"
      BY DEF Ran
    <2>2. CASE i > pos[t]
      <3>1. pos[t] + 1 \in 1 .. i /\ pos[t] < Len(s)
        BY <1>1, <1>2, <2>1, <2>2
      <3> QED
        BY <1>3, <2>1, <3>1
    <2> QED
      BY <1>2, <2>1, <2>2
  <1>6. Ran(s) \subseteq 1 .. pos[t] /\ 1 .. pos[t] \subseteq Ran(s)
    BY <1>4, <1>5
  <1> QED
    BY <1>6 DEF s

LEMMA InitType == Init => TypeOK
  <1> SUFFICES ASSUME Init PROVE TypeOK
    OBVIOUS
  <1>1. EmptyData \in LuaData
    BY DEF EmptyData, LuaData
  <1>2. InitThread \in Threads /\ InitialFiles \in SUBSET Files /\ 0 \in 0 .. MaxEdits
    BY ThreadsAssumption DEF Threads
  <1>3. todo \in [Threads -> SUBSET Files]
    BY <1>2 DEF Init
  <1>4. read \in [Threads -> [Files -> Scripts \cup {NotRead}]] /\ source \in [Files -> Scripts \cup {NotRead}]
    BY DEF Init
  <1>5. pc \in [Threads -> {"idle", "scan", "run", "done"}]
    BY DEF Init
  <1> QED
    <2>1. /\ slots \in [0 .. 1 -> LuaData] /\ target \in [Threads -> 0 .. 1]
          /\ activeSlot \in 0 .. 1 /\ pos \in [Threads -> Nat] /\ edits \in 0 .. MaxEdits
      BY <1>1, <1>2 DEF Init
    <2>2. cur \in [Threads -> Files \cup {NoFile}] /\ dirty \in [Threads -> BOOLEAN]
      BY DEF Init
    <2> QED
      BY <1>3, <1>4, <1>5, <2>1, <2>2 DEF Init, TypeOK

LEMMA TypeStep == TypeOK /\ CursorInv /\ [Next]_vars => TypeOK'
  <1> SUFFICES ASSUME TypeOK, CursorInv, [Next]_vars PROVE TypeOK'
    OBVIOUS
  <1> USE DEF TypeOK, diskVars, storeVars, buildVars, ghostVars
  <1>0. EmptyData \in LuaData
    BY DEF EmptyData, LuaData
  <1>1. ASSUME NEW f \in Files, NEW s \in Scripts, EditScript(f, s) PROVE TypeOK'
    BY <1>1, ThreadsAssumption DEF EditScript
  <1>2. ASSUME NEW id \in Settable, NEW v \in Values \cup {NoValue}, SetAccessToken(id, v)
        PROVE TypeOK'
    <2>1. id \in Ids
      BY ThreadsAssumption
    <2>2. [slots EXCEPT ![activeSlot].tokens[id] = v] \in [0 .. 1 -> LuaData]
      BY <2>1 DEF LuaData
    <2> QED
      BY <1>2, <2>1, <2>2 DEF SetAccessToken
  <1>3. ASSUME NEW t \in Reloaders, BeginReload(t) PROVE TypeOK'
    BY <1>0, <1>3 DEF BeginReload, Threads, Inactive
  <1>4. ASSUME NEW t \in Threads, NEW f \in Files, LoadScript(t, f) PROVE TypeOK'
    BY <1>4 DEF LoadScript
  <1>5. ASSUME NEW t \in Threads, RunCall(t) PROVE TypeOK'
    <2>1. Running(t)[pos[t] + 1] \in Call
      BY <1>5, NextCallType DEF RunCall
    <2>2. Apply(slots[target[t]], Running(t)[pos[t] + 1]) \in LuaData
      BY <2>1, ApplyType
    <2> QED
      BY <1>5, <2>2 DEF RunCall
  <1>6. ASSUME NEW t \in Threads, EndScript(t) PROVE TypeOK'
    BY <1>6 DEF EndScript
  <1>7. ASSUME NEW t \in Threads, ScanFails(t) PROVE TypeOK'
    <2>1. PICK lost \in SUBSET todo[t] : todo' = [todo EXCEPT ![t] = @ \ lost]
      BY <1>7 DEF ScanFails
    <2>2. todo[t] \ lost \in SUBSET Files
      BY DEF TypeOK
    <2>3. todo' \in [Threads -> SUBSET Files]
      BY <2>1, <2>2
    <2> QED
      BY <1>7, <2>3 DEF ScanFails
  <1>8. ASSUME NEW t \in Threads, Publish(t) PROVE TypeOK'
    <2>1. [f \in Files |-> NotRead] \in [Files -> Scripts \cup {NotRead}]
      OBVIOUS
    <2>2. t \in Threads /\ 1 - target[t] \in 0 .. 1
      OBVIOUS
    <2>3. slots' \in [0 .. 1 -> LuaData] /\ activeSlot' \in 0 .. 1
      BY <1>0, <1>8, <2>2 DEF Publish
    <2>4. read' \in [Threads -> [Files -> Scripts \cup {NotRead}]]
      BY <1>8, <2>1 DEF Publish
    <2>5. source' \in [Files -> Scripts \cup {NotRead}] /\ stale' \in BOOLEAN
      BY <1>8 DEF Publish
    <2> QED
      BY <1>8, <2>3, <2>4, <2>5 DEF Publish
  <1>9. ASSUME FinishInitialParse PROVE TypeOK'
    BY <1>9 DEF FinishInitialParse, Threads
  <1>10. CASE UNCHANGED vars
    BY <1>10 DEF vars
  <1> QED
    BY <1>1, <1>2, <1>3, <1>4, <1>5, <1>6, <1>7, <1>8, <1>9, <1>10 DEF Next, Step

-----------------------------------------------------------------------------
\* Each step keeps every thread's place in its files well defined.
LEMMA CursorStep == TypeOK /\ CursorInv /\ OwnerInv /\ [Next]_vars => CursorInv'
  <1> SUFFICES ASSUME TypeOK, CursorInv, OwnerInv, [Next]_vars PROVE CursorInv'
    OBVIOUS
  <1> USE DEF CursorInv, Building, diskVars, storeVars, buildVars, ghostVars
  <1>1. ASSUME NEW f \in Files, NEW s \in Scripts, EditScript(f, s) PROVE CursorInv'
    BY <1>1 DEF EditScript
  <1>2. ASSUME NEW id \in Settable, NEW v \in Values \cup {NoValue}, SetAccessToken(id, v)
        PROVE CursorInv'
    BY <1>2 DEF SetAccessToken
  <1>3. ASSUME NEW t \in Reloaders, BeginReload(t) PROVE CursorInv'
    <2>1. t \in Threads /\ read[t] = [f \in Files |-> NotRead] /\ cur[t] = NoFile
      BY <1>3 DEF BeginReload, Threads
    <2>2. pc' = [pc EXCEPT ![t] = "scan"] /\ todo' = [todo EXCEPT ![t] = Files]
          /\ UNCHANGED <<cur, pos, read>>
      BY <1>3 DEF BeginReload
    <2> QED
      BY <2>1, <2>2 DEF TypeOK
  <1>4. ASSUME NEW t \in Threads, NEW f \in Files, LoadScript(t, f) PROVE CursorInv'
    <2>1. /\ pc[t] = "scan" /\ f \in todo[t]
          /\ pc' = [pc EXCEPT ![t] = "run"] /\ todo' = [todo EXCEPT ![t] = @ \ {f}]
          /\ cur' = [cur EXCEPT ![t] = f] /\ pos' = [pos EXCEPT ![t] = 0]
          /\ read' = [read EXCEPT ![t] = [@ EXCEPT ![f] = disk[f]]]
      BY <1>4 DEF LoadScript
    <2>2. disk[f] \in Scripts /\ Len(disk[f]) \in Nat
      BY ScriptsAssumption DEF TypeOK
    <2>3. read'[t] = [read[t] EXCEPT ![f] = disk[f]]
      BY <2>1 DEF TypeOK
    <2> SUFFICES ASSUME NEW u \in Threads
                 PROVE  /\ pc'[u] # "run" => cur'[u] = NoFile
                        /\ pc'[u] = "run" => /\ cur'[u] \in Files
                                             /\ read'[u][cur'[u]] \in Scripts
                                             /\ pos'[u] <= Len(read'[u][cur'[u]])
                                             /\ \A j \in 1 .. pos'[u] : read'[u][cur'[u]][j].op # "raise"
                        /\ pc'[u] \notin {"scan", "run"} => read'[u] = [g \in Files |-> NotRead]
                        /\ \A g \in todo'[u] : read'[u][g] = NotRead
      BY DEF TypeOK
    <2>4. CASE u = t
      <3>1. cur'[u] = f /\ pos'[u] = 0 /\ pc'[u] = "run" /\ todo'[u] = todo[u] \ {f}
        BY <2>1, <2>4 DEF TypeOK
      <3>2. read'[u][f] = disk[f] /\ \A g \in Files \ {f} : read'[u][g] = read[u][g]
        BY <2>3, <2>4 DEF TypeOK
      <3> QED
        BY <2>2, <2>4, <3>1, <3>2 DEF TypeOK
    <2>5. CASE u # t
      <3>1. pc'[u] = pc[u] /\ cur'[u] = cur[u] /\ pos'[u] = pos[u] /\ todo'[u] = todo[u]
            /\ read'[u] = read[u]
        BY <2>1, <2>5 DEF TypeOK
      <3> QED
        BY <3>1
    <2> QED
      BY <2>4, <2>5
  <1>5. ASSUME NEW t \in Threads, RunCall(t) PROVE CursorInv'
    <2>1. /\ pc[t] = "run" /\ pos' = [pos EXCEPT ![t] = @ + 1]
          /\ UNCHANGED <<pc, todo, cur, read>>
      BY <1>5 DEF RunCall
    <2>2. /\ pos[t] + 1 \in 1 .. Len(read[t][cur[t]])
          /\ read[t][cur[t]][pos[t] + 1].op # "raise"
      BY <1>5, NextCallType DEF RunCall, Running
    <2>3. \A j \in 1 .. (pos[t] + 1) : read[t][cur[t]][j].op # "raise"
      BY <2>1, <2>2 DEF TypeOK
    <2>4. pos'[t] = pos[t] + 1 /\ \A u \in Threads \ {t} : pos'[u] = pos[u]
      BY <2>1 DEF TypeOK
    <2>5. pos[t] + 1 <= Len(read[t][cur[t]])
      BY <2>2 DEF TypeOK
    <2> QED
      BY <2>1, <2>3, <2>4, <2>5
  <1>6. ASSUME NEW t \in Threads, EndScript(t) PROVE CursorInv'
    BY <1>6 DEF EndScript, TypeOK
  <1>7. ASSUME NEW t \in Threads, ScanFails(t) PROVE CursorInv'
    <2>1. PICK lost \in SUBSET todo[t] : todo' = [todo EXCEPT ![t] = @ \ lost]
      BY <1>7 DEF ScanFails
    <2>2. \A u \in Threads : todo'[u] \subseteq todo[u]
      BY <2>1 DEF TypeOK
    <2> QED
      BY <1>7, <2>2 DEF ScanFails
  <1>8. ASSUME NEW t \in Threads, Publish(t) PROVE CursorInv'
    BY <1>8 DEF Publish, TypeOK
  <1>9. ASSUME FinishInitialParse PROVE CursorInv'
    BY <1>9 DEF FinishInitialParse, TypeOK
  <1>10. CASE UNCHANGED vars
    BY <1>10 DEF vars
  <1> QED
    BY <1>1, <1>2, <1>3, <1>4, <1>5, <1>6, <1>7, <1>8, <1>9, <1>10 DEF Next, Step

\* Mutual exclusion of builds: a consequence of g_reloadMutex and of starting
\* the watch only after the initial parse.
LEMMA OwnerStep == TypeOK /\ OwnerInv /\ [Next]_vars => OwnerInv'
  <1> SUFFICES ASSUME TypeOK, OwnerInv, [Next]_vars PROVE OwnerInv'
    OBVIOUS
  <1> USE ThreadsAssumption DEF OwnerInv, Building, Serving, diskVars, storeVars, buildVars, ghostVars
  <1>1. ASSUME NEW f \in Files, NEW s \in Scripts, EditScript(f, s) PROVE OwnerInv'
    BY <1>1 DEF EditScript
  <1>2. ASSUME NEW id \in Settable, NEW v \in Values \cup {NoValue}, SetAccessToken(id, v)
        PROVE OwnerInv'
    BY <1>2 DEF SetAccessToken
  <1>3. ASSUME NEW t \in Reloaders, BeginReload(t) PROVE OwnerInv'
    BY <1>3 DEF BeginReload, TypeOK, Threads, Inactive
  <1>4. ASSUME NEW t \in Threads, NEW f \in Files, LoadScript(t, f) PROVE OwnerInv'
    BY <1>4 DEF LoadScript, TypeOK, Threads
  <1>5. ASSUME NEW t \in Threads, RunCall(t) PROVE OwnerInv'
    BY <1>5 DEF RunCall
  <1>6. ASSUME NEW t \in Threads, EndScript(t) PROVE OwnerInv'
    BY <1>6 DEF EndScript, TypeOK, Threads
  <1>7. ASSUME NEW t \in Threads, ScanFails(t) PROVE OwnerInv'
    BY <1>7 DEF ScanFails
  <1>8. ASSUME NEW t \in Threads, Publish(t) PROVE OwnerInv'
    <2>1. t \in Reloaders /\ pc[t] = "scan" /\ Serving
      BY <1>8 DEF Publish
    <2>2. \A u \in Reloaders \ {t} : ~Building(u)
      BY <2>1
    <2> QED
      BY <1>8, <2>1, <2>2 DEF Publish, TypeOK, Threads
  <1>9. ASSUME FinishInitialParse PROVE OwnerInv'
    BY <1>9 DEF FinishInitialParse, TypeOK, Threads
  <1>10. CASE UNCHANGED vars
    BY <1>10 DEF vars
  <1> QED
    BY <1>1, <1>2, <1>3, <1>4, <1>5, <1>6, <1>7, <1>8, <1>9, <1>10 DEF Next, Step

-----------------------------------------------------------------------------
\* What one more call adds to the ids a script has unlocked and keyed.
LEMMA OneMoreCall ==
  ASSUME NEW s \in Seq(Call), NEW n \in Nat, n + 1 \in 1 .. Len(s)
  PROVE  /\ UnlockedIn(s, 1 .. (n + 1)) =
              IF Unlocks(s[n + 1]) THEN UnlockedIn(s, 1 .. n) \cup {s[n + 1].id}
                                   ELSE UnlockedIn(s, 1 .. n)
         /\ KeysIn(s, 1 .. (n + 1)) =
              IF s[n + 1].op = "key" THEN KeysIn(s, 1 .. n) \cup {s[n + 1].id}
                                     ELSE KeysIn(s, 1 .. n)
  <1>1. 1 .. (n + 1) = (1 .. n) \cup {n + 1}
    OBVIOUS
  <1> QED
    BY <1>1 DEF UnlockedIn, KeysIn

\* The threads other than t keep their slot's contents when t writes its own:
\* no two threads ever build at the same time.
LEMMA SoleBuilder ==
  ASSUME OwnerInv, NEW t \in Threads, NEW u \in Threads, Building(t), Building(u)
  PROVE  t = u
  BY ThreadsAssumption DEF OwnerInv, Building, Serving, Threads

LEMMA BuildStep == IndInv /\ [Next]_vars => BuildInv'
  <1> SUFFICES ASSUME IndInv, [Next]_vars PROVE BuildInv'
    OBVIOUS
  <1> USE DEF IndInv, diskVars, storeVars, buildVars, ghostVars
  <1>1. ASSUME NEW f \in Files, NEW s \in Scripts, EditScript(f, s) PROVE BuildInv'
    BY <1>1 DEF EditScript, BuildInv, Building, DoneIn
  <1>2. ASSUME NEW id \in Settable, NEW v \in Values \cup {NoValue}, SetAccessToken(id, v)
        PROVE BuildInv'
    <2>1. \A k \in 0 .. 1 : slots'[k].unlocked = slots[k].unlocked /\ slots'[k].keys = slots[k].keys
      BY <1>2 DEF SetAccessToken, TypeOK, LuaData
    <2> QED
      BY <1>2, <2>1 DEF SetAccessToken, BuildInv, Building, DoneIn, TypeOK
  <1>3. ASSUME NEW t \in Reloaders, BeginReload(t) PROVE BuildInv'
    <2>1. t \in Threads /\ read'[t] = [f \in Files |-> NotRead] /\ pc' = [pc EXCEPT ![t] = "scan"]
          /\ target' = [target EXCEPT ![t] = Inactive]
          /\ slots' = [slots EXCEPT ![Inactive] = EmptyData]
      BY <1>3 DEF BeginReload, Threads, CursorInv, Building
    <2>2. slots'[target'[t]] = EmptyData
      BY <2>1 DEF TypeOK, Inactive
    <2>3. ASSUME NEW u \in Threads, Building(u)' PROVE u = t
      <3>1. OwnerInv'
        BY OwnerStep
      <3>2. Building(t)'
        BY <2>1 DEF Building, TypeOK
      <3> QED
        BY <2>1, <2>3, <3>1, <3>2, ThreadsAssumption DEF OwnerInv, Building, Serving, Threads
    <2> QED
      BY <2>1, <2>2, <2>3 DEF BuildInv, EmptyData
  <1>4. ASSUME NEW t \in Threads, NEW f \in Files, LoadScript(t, f) PROVE BuildInv'
    <2>1. /\ pc[t] = "scan" /\ f \in todo[t] /\ cur[t] = NoFile /\ read[t][f] = NotRead
          /\ cur'[t] = f /\ pos'[t] = 0 /\ read'[t][f] = disk[f] /\ slots' = slots /\ target' = target
          /\ \A g \in Files \ {f} : read'[t][g] = read[t][g]
      BY <1>4 DEF LoadScript, TypeOK, CursorInv
    <2>2. \A u \in Threads \ {t} : ~Building(u)'
      BY <1>4, <2>1, SoleBuilder DEF LoadScript, Building, TypeOK
    <2>3. UnlockedIn(read'[t][f], DoneIn(t, f)') = {} /\ KeysIn(read'[t][f], DoneIn(t, f)') = {}
      <3>1. DoneIn(t, f)' = 1 .. 0
        BY <2>1 DEF DoneIn
      <3>2. DoneIn(t, f)' = {}
        BY <3>1
      <3> QED
        BY <3>2 DEF UnlockedIn, KeysIn
    <2>4. \A g \in Files \ {f} : DoneIn(t, g)' = DoneIn(t, g)
      BY <2>1, ThreadsAssumption DEF DoneIn
    <2>5. Building(t)
      BY <2>1 DEF Building
    <2> QED
      BY <2>1, <2>2, <2>3, <2>4, <2>5 DEF BuildInv
  <1>5. ASSUME NEW t \in Threads, RunCall(t) PROVE BuildInv'
    <2> DEFINE s == read[t][cur[t]]
               c == s[pos[t] + 1]
    <2>1. /\ pc[t] = "run" /\ cur[t] \in Files /\ s \in Scripts /\ s \in Seq(Call)
          /\ pos[t] \in Nat /\ pos[t] + 1 \in 1 .. Len(s) /\ c \in Call
      BY <1>5, NextCallType DEF RunCall, CursorInv, Running, TypeOK
    <2>2. /\ slots'[target'[t]] = Apply(slots[target[t]], c)
          /\ pos'[t] = pos[t] + 1 /\ UNCHANGED <<pc, cur, read, target>>
      BY <1>5 DEF RunCall, Running, TypeOK
    <2>3. \A u \in Threads \ {t} : ~Building(u)'
      BY <2>1, <2>2, SoleBuilder DEF Building
    <2>4. /\ slots'[target'[t]].unlocked = IF Unlocks(c) THEN slots[target[t]].unlocked \cup {c.id}
                                                          ELSE slots[target[t]].unlocked
          /\ slots'[target'[t]].keys = IF c.op = "key" THEN slots[target[t]].keys \cup {c.id}
                                                       ELSE slots[target[t]].keys
      <3>1. slots[target[t]] \in LuaData
        BY DEF TypeOK
      <3> HIDE DEF c
      <3>2. /\ Apply(slots[target[t]], c).unlocked =
                 IF Unlocks(c) THEN slots[target[t]].unlocked \cup {c.id} ELSE slots[target[t]].unlocked
            /\ Apply(slots[target[t]], c).keys =
                 IF c.op = "key" THEN slots[target[t]].keys \cup {c.id} ELSE slots[target[t]].keys
        BY <2>1, <3>1, ApplyType
      <3> QED
        BY <2>2, <3>2
    <2>5. /\ UnlockedIn(s, DoneIn(t, cur[t])') =
               IF Unlocks(c) THEN UnlockedIn(s, DoneIn(t, cur[t])) \cup {c.id}
                             ELSE UnlockedIn(s, DoneIn(t, cur[t]))
          /\ KeysIn(s, DoneIn(t, cur[t])') =
               IF c.op = "key" THEN KeysIn(s, DoneIn(t, cur[t])) \cup {c.id}
                               ELSE KeysIn(s, DoneIn(t, cur[t]))
      <3>1. DoneIn(t, cur[t]) = 1 .. pos[t] /\ DoneIn(t, cur[t])' = 1 .. (pos[t] + 1)
        BY <2>2 DEF DoneIn
      <3> QED
        BY <2>1, <3>1, OneMoreCall
    <2>6. \A g \in Files \ {cur[t]} : DoneIn(t, g)' = DoneIn(t, g)
      BY <2>2 DEF DoneIn
    <2>7. Building(t) /\ s # NotRead
      BY <2>1, ThreadsAssumption DEF Building
    <2> HIDE DEF c
    <2> QED
      BY <2>1, <2>2, <2>3, <2>4, <2>5, <2>6, <2>7 DEF BuildInv
  <1>6. ASSUME NEW t \in Threads, EndScript(t) PROVE BuildInv'
    <2>1. /\ pc[t] = "run" /\ cur[t] \in Files /\ cur'[t] = NoFile
          /\ UNCHANGED <<slots, target, read>>
      BY <1>6 DEF EndScript, CursorInv, TypeOK
    <2>2. \A u \in Threads \ {t} : ~Building(u)'
      BY <1>6, <2>1, SoleBuilder DEF EndScript, Building, TypeOK
    <2>3. 1 .. pos[t] = Ran(read[t][cur[t]])
      BY <1>6, EndIsRan DEF EndScript, Running
    <2>4. \A g \in Files : DoneIn(t, g)' = DoneIn(t, g)
      BY <2>1, <2>3, ThreadsAssumption DEF DoneIn
    <2>5. Building(t)
      BY <2>1 DEF Building
    <2> QED
      BY <2>1, <2>2, <2>4, <2>5 DEF BuildInv
  <1>7. ASSUME NEW t \in Threads, ScanFails(t) PROVE BuildInv'
    BY <1>7 DEF ScanFails, BuildInv, Building, DoneIn
  <1>8. ASSUME NEW t \in Threads, Publish(t) PROVE BuildInv'
    <2>1. \A u \in Threads : ~Building(u)'
      BY <1>8, SoleBuilder DEF Publish, Building, TypeOK
    <2> QED
      BY <2>1 DEF BuildInv
  <1>9. ASSUME FinishInitialParse PROVE BuildInv'
    <2>1. InitThread \in Threads /\ Building(InitThread) /\ pc' = [pc EXCEPT ![InitThread] = "done"]
      BY <1>9 DEF FinishInitialParse, Building, Threads
    <2>2. \A u \in Threads : ~Building(u)'
      BY <2>1, SoleBuilder DEF Building, TypeOK
    <2> QED
      BY <2>2 DEF BuildInv
  <1>10. CASE UNCHANGED vars
    BY <1>10 DEF vars, BuildInv, Building, DoneIn
  <1> QED
    BY <1>1, <1>2, <1>3, <1>4, <1>5, <1>6, <1>7, <1>8, <1>9, <1>10 DEF Next, Step

\* The published part: it changes only when a build becomes the snapshot.
LEMMA PublishedStep == IndInv /\ [Next]_vars => PublishedInv'
  <1> SUFFICES ASSUME IndInv, [Next]_vars PROVE PublishedInv'
    OBVIOUS
  <1> USE DEF IndInv, diskVars, storeVars, buildVars, ghostVars
  <1> DEFINE SameView == /\ Visible.unlocked' = Visible.unlocked
                         /\ Visible.keys' = Visible.keys
                         /\ source' = source
                         /\ Serving' = Serving
  <1>0. ASSUME SameView PROVE PublishedInv'
    BY <1>0 DEF PublishedInv
  <1>1. ASSUME NEW f \in Files, NEW s \in Scripts, EditScript(f, s) PROVE SameView
    BY <1>1 DEF EditScript, Visible, Serving
  <1>2. ASSUME NEW id \in Settable, NEW v \in Values \cup {NoValue}, SetAccessToken(id, v)
        PROVE SameView
    <2>1. \A k \in 0 .. 1 : slots'[k].unlocked = slots[k].unlocked /\ slots'[k].keys = slots[k].keys
      BY <1>2 DEF SetAccessToken, TypeOK, LuaData
    <2> QED
      BY <1>2, <2>1 DEF SetAccessToken, Visible, Serving, TypeOK
  <1>3. ASSUME NEW t \in Reloaders, BeginReload(t) PROVE SameView
    <2>1. slots'[activeSlot] = slots[activeSlot] /\ activeSlot' = activeSlot /\ source' = source
      BY <1>3 DEF BeginReload, Inactive, TypeOK
    <2>2. Serving' = Serving
      BY <1>3, ThreadsAssumption DEF BeginReload, Serving, TypeOK, Threads
    <2> QED
      BY <2>1, <2>2 DEF Visible
  <1>4. ASSUME NEW t \in Threads, NEW f \in Files, LoadScript(t, f) PROVE SameView
    <2>1. Serving' = Serving
      BY <1>4 DEF LoadScript, Serving, TypeOK, Threads
    <2> QED
      BY <1>4, <2>1 DEF LoadScript, Visible
  <1>5. ASSUME NEW t \in Threads, RunCall(t) PROVE PublishedInv'
    <2>1. CASE ~Serving
      BY <1>5, <2>1 DEF RunCall, Serving, PublishedInv
    <2>2. CASE Serving
      <3>1. target[t] # activeSlot
        BY <1>5, <2>2 DEF RunCall, OwnerInv, Building, Serving, Threads, TypeOK
      <3>2. SameView
        BY <1>5, <3>1 DEF RunCall, Visible, Serving, TypeOK
      <3> QED
        BY <1>0, <3>2
    <2> QED
      BY <2>1, <2>2
  <1>6. ASSUME NEW t \in Threads, EndScript(t) PROVE SameView
    <2>1. Serving' = Serving
      BY <1>6 DEF EndScript, Serving, TypeOK, Threads
    <2> QED
      BY <1>6, <2>1 DEF EndScript, Visible
  <1>7. ASSUME NEW t \in Threads, ScanFails(t) PROVE SameView
    BY <1>7 DEF ScanFails, Visible, Serving
  <1>8. ASSUME NEW t \in Threads, Publish(t) PROVE PublishedInv'
    <2>1. /\ Building(t) /\ cur[t] = NoFile /\ source' = read[t] /\ read[t] \in [Files -> Scripts \cup {NotRead}]
          /\ Visible' = slots[target[t]]
      BY <1>8 DEF Publish, Building, CursorInv, Visible, TypeOK
    <2>2. \A f \in Files : DoneIn(t, f) = Ran(read[t][f])
      BY <2>1, ThreadsAssumption DEF DoneIn
    <2> QED
      BY <2>1, <2>2 DEF PublishedInv, BuildInv
  <1>9. ASSUME FinishInitialParse PROVE PublishedInv'
    <2> DEFINE t == InitThread
    <2>1. /\ t \in Threads /\ Building(t) /\ cur[t] = NoFile /\ source' = read[t]
          /\ Visible' = slots[target[t]]
      BY <1>9 DEF FinishInitialParse, Building, CursorInv, Visible, TypeOK, Threads, OwnerInv, Serving
    <2>2. \A f \in Files : DoneIn(t, f) = Ran(read[t][f])
      BY <2>1, ThreadsAssumption DEF DoneIn
    <2> QED
      BY <2>1, <2>2 DEF PublishedInv, BuildInv
  <1>10. CASE UNCHANGED vars
    BY <1>10 DEF vars, PublishedInv, Visible, Serving
  <1> HIDE DEF SameView
  <1> QED
    BY <1>0, <1>1, <1>2, <1>3, <1>4, <1>5, <1>6, <1>7, <1>8, <1>9, <1>10 DEF Next, Step

\* Edits mark every build in progress; nothing else separates a build from
\* the disk it reads.
LEMMA FreshStep == IndInv /\ [Next]_vars => FreshInv'
  <1> SUFFICES ASSUME IndInv, [Next]_vars PROVE FreshInv'
    OBVIOUS
  <1> USE DEF IndInv, FreshInv, SettledSnapshotIsDisk, Serving, Building, diskVars, storeVars, buildVars, ghostVars
  <1>1. ASSUME NEW f \in Files, NEW s \in Scripts, EditScript(f, s) PROVE FreshInv'
    BY <1>1 DEF EditScript, TypeOK
  <1>2. ASSUME NEW id \in Settable, NEW v \in Values \cup {NoValue}, SetAccessToken(id, v)
        PROVE FreshInv'
    BY <1>2 DEF SetAccessToken
  <1>3. ASSUME NEW t \in Reloaders, BeginReload(t) PROVE FreshInv'
    <2>1. t \in Threads /\ read'[t] = [f \in Files |-> NotRead]
      BY <1>3 DEF BeginReload, Threads, CursorInv
    <2> QED
      BY <1>3, <2>1, ThreadsAssumption DEF BeginReload, TypeOK, Threads
  <1>4. ASSUME NEW t \in Threads, NEW f \in Files, LoadScript(t, f) PROVE FreshInv'
    <2>1. /\ pc[t] = "scan" /\ pc' = [pc EXCEPT ![t] = "run"]
          /\ read'[t][f] = disk[f]
          /\ \A g \in Files \ {f} : read'[t][g] = read[t][g]
          /\ \A u \in Threads \ {t} : read'[u] = read[u]
          /\ UNCHANGED <<disk, source, dirty, stale>>
      BY <1>4 DEF LoadScript, TypeOK
    <2> QED
      BY <2>1 DEF TypeOK, Threads
  <1>5. ASSUME NEW t \in Threads, RunCall(t) PROVE FreshInv'
    BY <1>5 DEF RunCall
  <1>6. ASSUME NEW t \in Threads, EndScript(t) PROVE FreshInv'
    BY <1>6 DEF EndScript, TypeOK, Threads
  <1>7. ASSUME NEW t \in Threads, ScanFails(t) PROVE FreshInv'
    BY <1>7 DEF ScanFails
  <1>8. ASSUME NEW t \in Threads, Publish(t) PROVE FreshInv'
    BY <1>8, ThreadsAssumption DEF Publish, TypeOK, Threads
  <1>9. ASSUME FinishInitialParse PROVE FreshInv'
    <2>1. InitThread \in Threads
      BY DEF Threads
    <2> QED
      BY <1>9, <2>1 DEF FinishInitialParse, TypeOK
  <1>10. CASE UNCHANGED vars
    BY <1>10 DEF vars
  <1> QED
    BY <1>1, <1>2, <1>3, <1>4, <1>5, <1>6, <1>7, <1>8, <1>9, <1>10 DEF Next, Step

-----------------------------------------------------------------------------
LEMMA InitIndInv == Init => IndInv
  <1> SUFFICES ASSUME Init PROVE IndInv
    OBVIOUS
  <1>1. TypeOK
    BY InitType
  <1>2. /\ InitThread \in Threads /\ Reloaders \subseteq Threads
        /\ \A t \in Threads : read[t] = [f \in Files |-> NotRead] /\ cur[t] = NoFile
        /\ pc[InitThread] = "scan" /\ target[InitThread] = activeSlot
        /\ \A t \in Reloaders : pc[t] = "idle"
        /\ \A t \in Threads : pc[t] # "run"
    BY ThreadsAssumption DEF Init, Threads
  <1>3. CursorInv
    BY <1>1, <1>2 DEF CursorInv, TypeOK
  <1>4. OwnerInv
    BY <1>2 DEF OwnerInv, Building, Serving
  <1>5. BuildInv
    <2>1. \A k \in 0 .. 1 : slots[k] = EmptyData
      BY DEF Init
    <2>2. \A t \in Threads : target[t] \in 0 .. 1
      BY <1>1 DEF TypeOK
    <2>3. \A t \in Threads : slots[target[t]].unlocked = {} /\ slots[target[t]].keys = {}
      BY <2>1, <2>2 DEF EmptyData
    <2>4. \A t \in Threads, f \in Files : read[t][f] = NotRead
      BY <1>2
    <2> QED
      BY <2>3, <2>4 DEF BuildInv
  <1>6. PublishedInv /\ FreshInv
    BY <1>2 DEF PublishedInv, FreshInv, SettledSnapshotIsDisk, Serving
  <1> QED
    BY <1>1, <1>3, <1>4, <1>5, <1>6 DEF IndInv

LEMMA IndInvStep == IndInv /\ [Next]_vars => IndInv'
  BY TypeStep, CursorStep, OwnerStep, BuildStep, PublishedStep, FreshStep DEF IndInv

\* The inductive invariant holds in every reachable state.
THEOREM Invariance == Spec => []IndInv
  BY InitIndInv, IndInvStep, PTL DEF Spec

\* Every variable keeps its type.
THEOREM TypeCorrect == Spec => []TypeOK
  <1>1. IndInv => TypeOK
    BY DEF IndInv
  <1> QED
    BY <1>1, Invariance, PTL

\* Readers never read the slot a reload is filling.
THEOREM ReadersIsolated == Spec => []ReadersNeverSeeStaging
  <1>1. IndInv => ReadersNeverSeeStaging
    BY DEF IndInv, OwnerInv, Building, ReadersNeverSeeStaging, TypeOK
  <1> QED
    BY <1>1, Invariance, PTL

\* What the invariant says id by id, said of the sets.
LEMMA ServedIsOneBuild ==
  ASSUME IndInv
  PROVE  UnlocksAreOneBuild
  <1> SUFFICES ASSUME Serving PROVE UnlocksAreOneBuild
    BY DEF UnlocksAreOneBuild
  <1> DEFINE R == {f \in Files : source[f] # NotRead}
             U == UNION {UnlockedIn(source[f], Ran(source[f])) : f \in R}
             K == UNION {KeysIn(source[f], Ran(source[f])) : f \in R}
  <1>1. Visible \in LuaData
    BY DEF IndInv, TypeOK, Visible
  <1>2. \A f \in R : UnlockedIn(source[f], Ran(source[f])) \subseteq Ids
                     /\ KeysIn(source[f], Ran(source[f])) \subseteq Ids
    <2> TAKE f \in R
    <2>1. source[f] \in Seq(Call)
      BY ScriptsAssumption DEF IndInv, TypeOK
    <2>2. \A k \in Ran(source[f]) : source[f][k] \in Call
      BY <2>1 DEF Ran
    <2>3. \A c \in Call : c.id \in Ids
      BY DEF Call
    <2> QED
      BY <2>2, <2>3 DEF UnlockedIn, KeysIn
  <1>3. \A i : i \in Visible.unlocked <=> i \in U
    BY <1>1, <1>2 DEF IndInv, PublishedInv, LuaData
  <1>4. \A i : i \in Visible.keys <=> i \in K
    BY <1>1, <1>2 DEF IndInv, PublishedInv, LuaData
  <1>5. Visible.unlocked = U /\ Visible.keys = K
    BY <1>3, <1>4
  <1> QED
    BY <1>5 DEF UnlocksAreOneBuild

\* Readers always see the unlocks and keys of one complete run of one version
\* of each script that was read.
THEOREM SnapshotConsistent == Spec => []UnlocksAreOneBuild
  <1>1. IndInv => UnlocksAreOneBuild
    BY ServedIsOneBuild
  <1> QED
    BY <1>1, Invariance, PTL

\* A build that began after the last edit publishes what is on disk.
THEOREM SettledIsDisk == Spec => []SettledSnapshotIsDisk
  <1>1. IndInv => SettledSnapshotIsDisk
    BY DEF IndInv, FreshInv
  <1> QED
    BY <1>1, Invariance, PTL

-----------------------------------------------------------------------------
(* The store implements SnapshotStore. *)

\* Call i of script s gives id a token, and no later one of I does.
Gives(s, i, id) == s[i].op = "token" /\ s[i].id = id
LastGives(s, I, id, v) ==
  \E i \in I : Gives(s, i, id) /\ s[i].val = v /\ \A k \in I : Gives(s, k, id) => k <= i

\* A token in the slot under construction was the last one that some script has
\* given to its id so far, and an id without one was given none.  The scripts
\* compete, so no more is known: the directory iteration orders them.
TokenFrom(id, v, t) ==
  \/ v = NoValue /\ \A f \in Files : read[t][f] # NotRead =>
                      \A i \in DoneIn(t, f) : ~Gives(read[t][f], i, id)
  \/ \E f \in Files : read[t][f] # NotRead /\ LastGives(read[t][f], DoneIn(t, f), id, v)

TokenInv ==
  \A t \in Threads : Building(t) =>
    \A id \in Ids : TokenFrom(id, slots[target[t]].tokens[id], t)

\* The effect of a call on the tokens.
LEMMA ApplyTokens ==
  ASSUME NEW d \in LuaData, NEW c \in Call, NEW id \in Ids
  PROVE  Apply(d, c).tokens[id] = IF c.op = "token" /\ c.id = id THEN c.val ELSE d.tokens[id]
  BY DEF Apply, LuaData, Call

\* A call keeps TokenInv: no other thread builds, and the tokens of other files stay.
LEMMA TokenCall ==
  ASSUME IndInv, TokenInv, NEW t \in Threads, RunCall(t)
  PROVE  TokenInv'
  <1> DEFINE s == read[t][cur[t]]
             n == pos[t]
             c == s[n + 1]
  <1>1. /\ pc[t] = "run" /\ cur[t] \in Files /\ s \in Scripts /\ s \in Seq(Call)
        /\ n \in Nat /\ n + 1 \in 1 .. Len(s) /\ c \in Call
    BY NextCallType DEF RunCall, IndInv, CursorInv, Running, TypeOK
  <1>2. /\ slots'[target'[t]] = Apply(slots[target[t]], c) /\ slots[target[t]] \in LuaData
        /\ pos'[t] = n + 1 /\ UNCHANGED <<pc, cur, read, target>>
    BY DEF RunCall, Running, IndInv, TypeOK
  <1>3. Building(t) /\ s # NotRead
    BY <1>1, ThreadsAssumption DEF Building
  <1>4. \A u \in Threads \ {t} : ~Building(u)'
    BY <1>2, <1>3, SoleBuilder DEF Building, IndInv
  <1>5. DoneIn(t, cur[t]) = 1 .. n /\ DoneIn(t, cur[t])' = 1 .. (n + 1)
    BY <1>2 DEF DoneIn
  <1>6. \A f \in Files \ {cur[t]} : DoneIn(t, f)' = DoneIn(t, f)
    BY <1>2 DEF DoneIn
  <1> SUFFICES ASSUME NEW id \in Ids
               PROVE  TokenFrom(id, slots[target[t]].tokens[id], t)'
    BY <1>4 DEF TokenInv
  <1>7. slots'[target'[t]].tokens[id] =
          IF Gives(s, n + 1, id) THEN c.val ELSE slots[target[t]].tokens[id]
    <2> HIDE DEF c
    <2>1. Apply(slots[target[t]], c).tokens[id] =
            IF c.op = "token" /\ c.id = id THEN c.val ELSE slots[target[t]].tokens[id]
      BY <1>1, <1>2, ApplyTokens
    <2> QED
      BY <1>2, <2>1 DEF Gives, c
  <1>8. CASE Gives(s, n + 1, id)
    <2>1. LastGives(s, 1 .. (n + 1), id, c.val)
      BY <1>1, <1>8 DEF LastGives
    <2> QED
      BY <1>1, <1>2, <1>3, <1>5, <1>7, <1>8, <2>1 DEF TokenFrom
  <1>9. CASE ~Gives(s, n + 1, id)
    <2> DEFINE v == slots[target[t]].tokens[id]
    <2>1. v = slots'[target'[t]].tokens[id] /\ TokenFrom(id, v, t)
      BY <1>3, <1>7, <1>9 DEF TokenInv
    <2>2. \A k \in 1 .. (n + 1) : k \in 1 .. n \/ k = n + 1
      BY <1>1
    <2>3. \A k \in 1 .. n : k \in 1 .. (n + 1)
      BY <1>1
    <2>4. LastGives(s, 1 .. n, id, v) => LastGives(s, 1 .. (n + 1), id, v)
      BY <1>9, <2>2, <2>3 DEF LastGives
    <2>5. (\A i \in 1 .. n : ~Gives(s, i, id)) => \A i \in 1 .. (n + 1) : ~Gives(s, i, id)
      BY <1>9, <2>2
    <2> HIDE DEF v
    <2>6. CASE v = NoValue /\ \A f \in Files : read[t][f] # NotRead =>
                                \A i \in DoneIn(t, f) : ~Gives(read[t][f], i, id)
      <3>1. \A f \in Files : read'[t][f] # NotRead =>
              \A i \in DoneIn(t, f)' : ~Gives(read'[t][f], i, id)
        BY <1>1, <1>2, <1>3, <1>5, <1>6, <2>5, <2>6
      <3> QED
        BY <2>1, <2>6, <3>1 DEF TokenFrom
    <2>7. CASE \E f \in Files : read[t][f] # NotRead /\ LastGives(read[t][f], DoneIn(t, f), id, v)
      <3>1. PICK f \in Files : read[t][f] # NotRead /\ LastGives(read[t][f], DoneIn(t, f), id, v)
        BY <2>7
      <3>2. read'[t][f] # NotRead /\ LastGives(read'[t][f], DoneIn(t, f)', id, v)
        BY <1>1, <1>2, <1>5, <1>6, <2>4, <3>1
      <3> QED
        BY <2>1, <3>2 DEF TokenFrom
    <2> QED
      BY <2>1, <2>6, <2>7 DEF TokenFrom
  <1> QED
    BY <1>8, <1>9

LEMMA TokenStep == IndInv /\ TokenInv /\ [Next]_vars => TokenInv'
  <1> SUFFICES ASSUME IndInv, TokenInv, [Next]_vars PROVE TokenInv'
    OBVIOUS
  <1>0. TypeOK /\ CursorInv /\ OwnerInv
    BY DEF IndInv
  <1> USE DEF diskVars, storeVars, buildVars, ghostVars
  <1> DEFINE Same(u) == /\ Building(u)' => Building(u) /\ slots'[target'[u]].tokens = slots[target[u]].tokens
                        /\ read'[u] = read[u] /\ \A f \in Files : DoneIn(u, f)' = DoneIn(u, f)
  <1>a. ASSUME \A u \in Threads : Building(u)' => Same(u) PROVE TokenInv'
    BY <1>a DEF TokenInv, TokenFrom
  <1>1. ASSUME NEW f \in Files, NEW s \in Scripts, EditScript(f, s) PROVE TokenInv'
    BY <1>1, <1>a DEF EditScript, Building, DoneIn
  <1>2. ASSUME NEW id \in Settable, NEW v \in Values \cup {NoValue}, SetAccessToken(id, v)
        PROVE TokenInv'
    <2>1. ASSUME NEW u \in Threads, Building(u)' PROVE target[u] = 1 - activeSlot
      BY <1>0, <1>2, <2>1 DEF SetAccessToken, OwnerInv, Building, Serving, Threads
    <2>2. \A u \in Threads : Building(u)' => slots'[target'[u]] = slots[target[u]]
      BY <1>0, <1>2, <2>1 DEF SetAccessToken, TypeOK
    <2> QED
      BY <1>2, <2>2, <1>a DEF SetAccessToken, Building, DoneIn
  <1>3. ASSUME NEW t \in Reloaders, BeginReload(t) PROVE TokenInv'
    <2>1. /\ t \in Threads /\ read'[t] = [f \in Files |-> NotRead] /\ pc' = [pc EXCEPT ![t] = "scan"]
          /\ target' = [target EXCEPT ![t] = Inactive]
          /\ slots' = [slots EXCEPT ![Inactive] = EmptyData]
      BY <1>0, <1>3 DEF BeginReload, Threads, CursorInv, Building
    <2>2. slots'[target'[t]] = EmptyData
      BY <1>0, <2>1 DEF TypeOK, Inactive
    <2>3. ASSUME NEW u \in Threads, Building(u)' PROVE u = t
      <3>1. OwnerInv' /\ Building(t)'
        BY <1>0, <2>1, OwnerStep DEF Building, TypeOK
      <3> QED
        BY <2>1, <2>3, <3>1, ThreadsAssumption DEF OwnerInv, Building, Serving, Threads
    <2> QED
      BY <2>1, <2>2, <2>3 DEF TokenInv, TokenFrom, EmptyData
  <1>4. ASSUME NEW t \in Threads, NEW f \in Files, LoadScript(t, f) PROVE TokenInv'
    <2>1. /\ pc[t] = "scan" /\ f \in todo[t] /\ cur[t] = NoFile /\ read[t][f] = NotRead
          /\ cur'[t] = f /\ pos'[t] = 0 /\ read'[t][f] = disk[f] /\ slots' = slots /\ target' = target
          /\ \A g \in Files \ {f} : read'[t][g] = read[t][g]
      BY <1>0, <1>4 DEF LoadScript, TypeOK, CursorInv
    <2>2. \A u \in Threads \ {t} : ~Building(u)'
      BY <1>0, <1>4, <2>1, SoleBuilder DEF LoadScript, Building, TypeOK
    <2>3. DoneIn(t, f)' = {}
      <3>1. DoneIn(t, f)' = 1 .. 0
        BY <2>1 DEF DoneIn
      <3> QED
        BY <3>1
    <2>4. \A g \in Files \ {f} : DoneIn(t, g)' = DoneIn(t, g)
      BY <2>1, ThreadsAssumption DEF DoneIn
    <2>5. Building(t)
      BY <2>1 DEF Building
    <2> SUFFICES ASSUME NEW id \in Ids
                 PROVE  TokenFrom(id, slots[target[t]].tokens[id], t)'
      BY <2>2 DEF TokenInv
    <2> DEFINE v == slots[target[t]].tokens[id]
    <2>6. TokenFrom(id, v, t) /\ v' = v
      BY <2>1, <2>5 DEF TokenInv
    <2> HIDE DEF v
    <2>7. CASE v = NoValue /\ \A g \in Files : read[t][g] # NotRead =>
                                \A i \in DoneIn(t, g) : ~Gives(read[t][g], i, id)
      BY <2>1, <2>3, <2>4, <2>6, <2>7 DEF TokenFrom, v
    <2>8. CASE \E g \in Files : read[t][g] # NotRead /\ LastGives(read[t][g], DoneIn(t, g), id, v)
      <3>1. PICK g \in Files : read[t][g] # NotRead /\ LastGives(read[t][g], DoneIn(t, g), id, v)
        BY <2>8
      <3>2. g # f
        BY <2>1, <3>1
      <3>3. read'[t][g] # NotRead /\ LastGives(read'[t][g], DoneIn(t, g)', id, v)
        BY <2>1, <2>4, <3>1, <3>2
      <3> QED
        BY <2>6, <3>3 DEF TokenFrom, v
    <2> QED
      BY <2>6, <2>7, <2>8 DEF TokenFrom
  <1>5. ASSUME NEW t \in Threads, RunCall(t) PROVE TokenInv'
    BY <1>5, TokenCall
  <1>6. ASSUME NEW t \in Threads, EndScript(t) PROVE TokenInv'
    <2>1. /\ pc[t] = "run" /\ cur[t] \in Files /\ cur'[t] = NoFile
          /\ UNCHANGED <<slots, target, read>>
      BY <1>0, <1>6 DEF EndScript, CursorInv, TypeOK
    <2>2. \A u \in Threads \ {t} : ~Building(u)'
      BY <1>0, <1>6, <2>1, SoleBuilder DEF EndScript, Building, TypeOK
    <2>3. 1 .. pos[t] = Ran(read[t][cur[t]])
      BY <1>0, <1>6, EndIsRan DEF EndScript, Running
    <2>4. \A g \in Files : DoneIn(t, g)' = DoneIn(t, g)
      BY <2>1, <2>3, ThreadsAssumption DEF DoneIn
    <2>5. Building(t)
      BY <2>1 DEF Building
    <2> QED
      BY <2>1, <2>2, <2>4, <2>5, <1>a
  <1>7. ASSUME NEW t \in Threads, ScanFails(t) PROVE TokenInv'
    BY <1>7, <1>a DEF ScanFails, Building, DoneIn
  <1>8. ASSUME NEW t \in Threads, Publish(t) PROVE TokenInv'
    <2>1. \A u \in Threads : ~Building(u)'
      BY <1>0, <1>8, SoleBuilder DEF Publish, Building, TypeOK
    <2> QED
      BY <2>1 DEF TokenInv
  <1>9. ASSUME FinishInitialParse PROVE TokenInv'
    <2>1. InitThread \in Threads /\ Building(InitThread) /\ pc' = [pc EXCEPT ![InitThread] = "done"]
      BY <1>9 DEF FinishInitialParse, Building, Threads
    <2>2. \A u \in Threads : ~Building(u)'
      BY <1>0, <2>1, SoleBuilder DEF Building, TypeOK
    <2> QED
      BY <2>2 DEF TokenInv
  <1>10. CASE UNCHANGED vars
    BY <1>10, <1>a DEF vars, Building, DoneIn
  <1> QED
    BY <1>1, <1>2, <1>3, <1>4, <1>5, <1>6, <1>7, <1>8, <1>9, <1>10 DEF Next, Step

LEMMA InitTokens == Init => TokenInv
  <1> SUFFICES ASSUME Init PROVE TokenInv
    OBVIOUS
  <1>1. \A t \in Threads, f \in Files : read[t][f] = NotRead
    BY DEF Init
  <1>2. \A t \in Threads, id \in Ids : slots[target[t]].tokens[id] = NoValue
    BY DEF Init, EmptyData
  <1> QED
    BY <1>1, <1>2 DEF TokenInv, TokenFrom

\* The instance has definitions of its own for what a script does.
LEMMA StoreOperators ==
  /\ Store!EmptyData = EmptyData
  /\ \A s : Store!Ran(s) = Ran(s)
  /\ \A s, I : Store!UnlockedIn(s, I) = UnlockedIn(s, I) /\ Store!KeysIn(s, I) = KeysIn(s, I)
  /\ \A s, id : Store!LastToken(s, id) = LastToken(s, id)
  BY DEF Store!EmptyData, EmptyData, Store!Ran, Ran, Store!UnlockedIn, UnlockedIn,
         Store!Unlocks, Unlocks, Store!KeysIn, KeysIn, Store!LastToken, LastToken

\* What is last by Gives is what LastToken finds.
LEMMA LastTokenGives ==
  ASSUME NEW s, NEW id
  PROVE  /\ \A v : LastGives(s, Ran(s), id, v) => v \in LastToken(s, id)
         /\ (\A i \in Ran(s) : ~Gives(s, i, id)) => LastToken(s, id) = {}
  BY DEF LastGives, Gives, LastToken

\* A build that has visited its files becomes a snapshot of SnapshotStore.
LEMMA BuildIsSnapshot ==
  ASSUME IndInv, TokenInv, UnlocksAreOneBuild', Serving', NEW t \in Threads,
         pc[t] = "scan", source' = read[t], Visible' = slots[target[t]]
  PROVE  Store!BuiltFrom(Visible', source', {})
  <1>1. Building(t) /\ cur[t] = NoFile
    BY DEF Building, IndInv, CursorInv
  <1>2. \A f \in Files : DoneIn(t, f) = Ran(source'[f])
    BY <1>1, ThreadsAssumption DEF DoneIn
  <1> DEFINE files == {f \in Files : source'[f] # NotRead}
             given(id) == UNION {LastToken(source'[f], id) : f \in files}
  <1>3. /\ Visible'.unlocked = UNION {UnlockedIn(source'[f], Ran(source'[f])) : f \in files}
        /\ Visible'.keys = UNION {KeysIn(source'[f], Ran(source'[f])) : f \in files}
    BY DEF UnlocksAreOneBuild
  <1>4. ASSUME NEW id \in Ids
        PROVE  Visible'.tokens[id] \in IF given(id) = {} THEN {NoValue} ELSE given(id)
    <2>1. TokenFrom(id, Visible'.tokens[id], t)
      BY <1>1 DEF TokenInv
    <2>2. CASE \E f \in Files : read[t][f] # NotRead
                 /\ LastGives(read[t][f], DoneIn(t, f), id, Visible'.tokens[id])
      BY <1>2, <2>2, LastTokenGives
    <2>3. CASE /\ Visible'.tokens[id] = NoValue
               /\ \A f \in Files : read[t][f] # NotRead =>
                    \A i \in DoneIn(t, f) : ~Gives(read[t][f], i, id)
      <3>1. \A f \in files : LastToken(source'[f], id) = {}
        BY <1>2, <2>3, LastTokenGives
      <3>2. given(id) = {}
        BY <3>1
      <3> QED
        BY <2>3, <3>2
    <2> QED
      BY <2>1, <2>2, <2>3 DEF TokenFrom
  <1>5. /\ \A f \in files : /\ Store!UnlockedIn(source'[f], Store!Ran(source'[f]))
                                  = UnlockedIn(source'[f], Ran(source'[f]))
                             /\ Store!KeysIn(source'[f], Store!Ran(source'[f]))
                                  = KeysIn(source'[f], Ran(source'[f]))
        /\ \A id : \A f \in files : Store!LastToken(source'[f], id) = LastToken(source'[f], id)
    BY StoreOperators
  <1>6. /\ UNION {Store!UnlockedIn(source'[f], Store!Ran(source'[f])) : f \in files}
             = UNION {UnlockedIn(source'[f], Ran(source'[f])) : f \in files}
        /\ UNION {Store!KeysIn(source'[f], Store!Ran(source'[f])) : f \in files}
             = UNION {KeysIn(source'[f], Ran(source'[f])) : f \in files}
        /\ \A id : UNION {Store!LastToken(source'[f], id) : f \in files} = given(id)
    BY <1>5
  <1> HIDE DEF given
  <1>7. \A id \in Ids :
          Visible'.tokens[id] \in
            IF UNION {Store!LastToken(source'[f], id) : f \in files} = {} THEN {NoValue}
            ELSE UNION {Store!LastToken(source'[f], id) : f \in files}
    BY <1>4, <1>6
  <1> QED
    BY <1>3, <1>6, <1>7 DEF Store!BuiltFrom

\* What the mapping makes of a step: a new snapshot, a setter's change, or nothing.
LEMMA StepIsStoreStep ==
  ASSUME IndInv, IndInv', TokenInv, UnlocksAreOneBuild', [Next]_vars
  PROVE  [Store!Next]_<<IF Serving THEN Visible ELSE EmptyData, source>>
  <1> DEFINE view == IF Serving THEN Visible ELSE EmptyData
             Same == view' = view /\ source' = source
  <1>0. TypeOK /\ CursorInv /\ OwnerInv /\ TypeOK'
    BY DEF IndInv
  <1> USE DEF diskVars, storeVars, buildVars, ghostVars
  <1>1. ASSUME NEW f \in Files, NEW s \in Scripts, EditScript(f, s) PROVE Same
    BY <1>1 DEF EditScript, Visible, Serving
  <1>2. ASSUME NEW id \in Settable, NEW v \in Values \cup {NoValue}, SetAccessToken(id, v)
        PROVE Store!SetAccessToken
    <2>1. id \in Ids /\ Serving /\ Serving'
      BY <1>2, ThreadsAssumption DEF SetAccessToken, Serving
    <2>2. slots' = [slots EXCEPT ![activeSlot].tokens[id] = v] /\ activeSlot' = activeSlot
          /\ source' = source
      BY <1>2 DEF SetAccessToken
    <2>3. Visible' = [Visible EXCEPT !.tokens[id] = v]
      BY <1>0, <2>2 DEF Visible, TypeOK
    <2> QED
      BY <2>1, <2>2, <2>3 DEF Store!SetAccessToken
  <1>3. ASSUME NEW t \in Reloaders, BeginReload(t) PROVE Same
    <2>1. slots'[activeSlot] = slots[activeSlot] /\ activeSlot' = activeSlot /\ source' = source
      BY <1>0, <1>3 DEF BeginReload, Inactive, TypeOK
    <2>2. Serving' = Serving
      BY <1>0, <1>3, ThreadsAssumption DEF BeginReload, Serving, TypeOK, Threads
    <2> QED
      BY <2>1, <2>2 DEF Visible
  <1>4. ASSUME NEW t \in Threads, NEW f \in Files, LoadScript(t, f) PROVE Same
    <2>1. Serving' = Serving
      BY <1>0, <1>4 DEF LoadScript, Serving, TypeOK, Threads
    <2> QED
      BY <1>4, <2>1 DEF LoadScript, Visible
  <1>5. ASSUME NEW t \in Threads, RunCall(t) PROVE Same
    <2>1. CASE ~Serving
      BY <1>5, <2>1 DEF RunCall, Serving
    <2>2. CASE Serving
      <3>1. target[t] # activeSlot
        BY <1>0, <1>5, <2>2 DEF RunCall, OwnerInv, Building, Serving, Threads, TypeOK
      <3> QED
        BY <1>0, <1>5, <3>1 DEF RunCall, Visible, Serving, TypeOK
    <2> QED
      BY <2>1, <2>2
  <1>6. ASSUME NEW t \in Threads, EndScript(t) PROVE Same
    <2>1. Serving' = Serving
      BY <1>0, <1>6 DEF EndScript, Serving, TypeOK, Threads
    <2> QED
      BY <1>6, <2>1 DEF EndScript, Visible
  <1>7. ASSUME NEW t \in Threads, ScanFails(t) PROVE Same
    BY <1>7 DEF ScanFails, Visible, Serving
  <1>a. ASSUME NEW t \in Threads, pc[t] = "scan", source' = read[t],
               Visible' = slots[target[t]], Serving'
        PROVE  Store!Publish
    <2>1. Store!BuiltFrom(Visible', source', {})
      BY <1>a, BuildIsSnapshot
    <2>2. source' \in [Files -> Scripts \cup {NotRead}]
      BY <1>0 DEF TypeOK
    <2> QED
      BY <1>a, <2>1, <2>2 DEF Store!Publish
  <1>8. ASSUME NEW t \in Threads, Publish(t) PROVE Store!Publish
    <2>1. pc[t] = "scan" /\ source' = read[t] /\ Visible' = slots[target[t]]
      BY <1>0, <1>8 DEF Publish, Visible, TypeOK
    <2>2. Serving'
      BY <1>0, <1>8, ThreadsAssumption DEF Publish, OwnerInv, Building, Serving, TypeOK, Threads
    <2> QED
      BY <1>a, <2>1, <2>2
  <1>9. ASSUME FinishInitialParse PROVE Store!Publish
    <2>1. InitThread \in Threads /\ pc[InitThread] = "scan" /\ source' = read[InitThread]
          /\ Visible' = slots[target[InitThread]] /\ Serving'
      BY <1>0, <1>9 DEF FinishInitialParse, Visible, TypeOK, Threads, OwnerInv, Serving
    <2> QED
      BY <1>a, <2>1
  <1>10. CASE UNCHANGED vars
    BY <1>10 DEF vars, Visible, Serving
  <1> QED
    BY <1>1, <1>2, <1>3, <1>4, <1>5, <1>6, <1>7, <1>8, <1>9, <1>10
    DEF Next, Step, Store!Next

\* The double-buffered store, read through its active slot, is one snapshot that
\* is replaced whole: tokens included, where scripts compete for an id.
THEOREM Refinement == Spec => ImplementsStore
  <1>1. Init => Store!Init
    <2> SUFFICES ASSUME Init PROVE Store!Init
      OBVIOUS
    <2>1. ~Serving /\ source = [f \in Files |-> NotRead]
      BY DEF Init, Serving, Threads
    <2> QED
      BY <2>1, StoreOperators DEF Store!Init
  <1>2. IndInv => UnlocksAreOneBuild
    BY ServedIsOneBuild
  <1>3. IndInv /\ IndInv' /\ TokenInv /\ UnlocksAreOneBuild' /\ [Next]_vars
          => [Store!Next]_<<IF Serving THEN Visible ELSE EmptyData, source>>
    BY StepIsStoreStep
  <1> QED
    BY <1>1, <1>2, <1>3, Invariance, InitTokens, TokenStep, PTL
    DEF Spec, ImplementsStore, Store!Spec
=============================================================================
