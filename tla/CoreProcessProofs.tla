-------------------------- MODULE CoreProcessProofs --------------------------
(***************************************************************************)
(* Proofs about CoreProcess and Signatures, for any versions, functions,   *)
(* hooks and starts of Steam: a function that is hooked is where it is     *)
(* thought to be, the database is not left out without a reason, and       *)
(* core_status.json tells the truth.                                       *)
(***************************************************************************)
EXTENDS CoreProcess, FiniteSetTheorems, TLAPS

-----------------------------------------------------------------------------
(* The inductive invariant. *)

\* Addresses, as the loaded binaries have them or an older steamui had.
Right(a) ==
  \A n \in Names :
    \/ a[n] \in {Unknown, Base(n)}
    \/ n \in UiNames /\ a[n] \in Versions \ {ui} /\ <<client, a[n]>> \in booted

\* Versions of steamui that client v has run with, up to now.
MetWith(v, u) == <<v, u>> \in booted \/ (alive # NoPid /\ v = client /\ u = ui)

CacheIsRight ==
  \A v \in Versions, n \in Names :
    LET u == cache[v].rvas[n]
    IN u = Unknown \/ (IF n \in UiNames THEN MetWith(v, u) ELSE u = v)

\* No process, nothing of it.
DeadIsGone ==
  alive = NoPid => /\ init = "off" /\ exit = "none"
                   /\ addr = Nowhere /\ ~uiLoaded /\ offline

\* Process ids grow; the manager removes a status only for a process that was
\* gone when it asked.
PidsGrow ==
  /\ alive # NoPid => alive = boots
  /\ status.pid <= boots /\ seen.pid <= boots
  /\ ask # "idle" => seen.pid # NoPid
  /\ ask = "remove" => seen.pid # alive

\* A hook counts as active when it is in the transaction, until that fails.
ActiveIsPrepared ==
  /\ (exit = "none" /\ (committed \/ init \notin {"report", "rename", "done"}))
       => active \subseteq prepared
  /\ init \in {"lateSave", "lateSaving", "prepare"} => hooks \in 1 .. Len(HookOrder)

IInv ==
  /\ TypeOK
  /\ CacheIsRight
  /\ AddressesAreRight
  /\ UnknownIsNowhere
  /\ DeadIsGone
  /\ PidsGrow
  /\ ActiveIsPrepared
  /\ StatusIsTrue

-----------------------------------------------------------------------------
(* The sources of addresses. *)

LEMMA RightIsRight == AddressesAreRight <=> Right(addr)
BY DEF AddressesAreRight, Right

\* What the cache file has is right for the loaded client, but for the steamui.
LEMMA CachedIsRight ==
  ASSUME SignatureTypeOK, CacheIsRight, NEW read \in SUBSET Names
  PROVE  LoadRvaCache(read) \in Addresses /\ Right(LoadRvaCache(read))
<1> DEFINE a == LoadRvaCache(read)
<1>1. a \in Addresses
  BY DEF LoadRvaCache, SignatureTypeOK, Addresses
<1>2. ASSUME NEW n \in Names
      PROVE  \/ a[n] \in {Unknown, Base(n)}
             \/ n \in UiNames /\ a[n] \in Versions \ {ui} /\ <<client, a[n]>> \in booted
  <2>1. a[n] = IF n \in read /\ Base(n) # Unknown THEN cache[client].rvas[n] ELSE Unknown
    BY DEF LoadRvaCache
  <2>2. CASE n \in read /\ Base(n) # Unknown
    <3>1. a[n] = cache[client].rvas[n] /\ client \in Versions
      BY <2>1, <2>2 DEF SignatureTypeOK
    <3>2. a[n] = Unknown \/ (IF n \in UiNames THEN MetWith(client, a[n]) ELSE a[n] = client)
      BY <3>1 DEF CacheIsRight
    <3>3. a[n] \in Versions \cup {Unknown}
      BY <1>1 DEF Addresses
    <3> HIDE DEF a
    <3> QED
      BY <2>2, <3>2, <3>3 DEF MetWith, Base
  <2>3. CASE ~(n \in read /\ Base(n) # Unknown)
    BY <2>1, <2>3
  <2> QED
    BY <2>2, <2>3
<1> HIDE DEF a
<1>3. Right(a)
  BY <1>2 DEF Right
<1> QED
  BY <1>1, <1>3 DEF a

\* Documents, symbols, patterns and the database add addresses that are right.
LEMMA SourcesAreRight ==
  ASSUME SignatureTypeOK, NEW a \in Addresses, Right(a), NEW reachable \in BOOLEAN,
         NEW b \in {LoadExternalSignatures(a), ResolveViaSymbolTable(a), Scan(a),
                    FetchRemoteSignatures(a, reachable)}
  PROVE  b \in Addresses /\ Right(b)
<1>1. ASSUME NEW n \in Names
      PROVE  b[n] = a[n] \/ b[n] = Base(n) \/ b[n] = Unknown
  <2>1. b = LoadExternalSignatures(a) => b[n] = a[n] \/ (n \in Document[client] /\ b[n] = client)
    BY <1>1 DEF LoadExternalSignatures
  <2>2. b = ResolveViaSymbolTable(a) => b[n] = a[n] \/ (client \in Symbols[n] /\ b[n] = client)
    BY <1>1 DEF ResolveViaSymbolTable
  <2>3. b = Scan(a) => b[n] = a[n] \/ b[n] = Base(n) \/ b[n] = Unknown
    BY <1>1 DEF Scan, Found
  <2>4. b = FetchRemoteSignatures(a, reachable) =>
          b[n] = a[n] \/ (n \in Remote[client] /\ b[n] = client)
    BY <1>1 DEF FetchRemoteSignatures
  <2>5. n \notin UiNames => Base(n) = client
    BY DEF Base
  <2>6. n \in UiNames => n \notin Document[client] /\ n \notin Remote[client] /\ client \notin Symbols[n]
    BY SignatureAssumption DEF SignatureTypeOK
  <2> QED
    BY <2>1, <2>2, <2>3, <2>4, <2>5, <2>6
<1>2. \A n \in Names : Base(n) \in Versions \cup {Unknown}
  BY DEF Base, SignatureTypeOK
<1>3. DOMAIN b = Names /\ b = [n \in Names |-> b[n]]
  BY DEF LoadExternalSignatures, ResolveViaSymbolTable, Scan, FetchRemoteSignatures
<1>4. \A n \in Names : b[n] \in Versions \cup {Unknown}
  BY <1>1, <1>2 DEF Addresses
<1>5. b \in Addresses
  BY <1>3, <1>4 DEF Addresses
<1>6. Right(b)
  BY <1>1 DEF Right
<1> QED
  BY <1>5, <1>6

\* If there are as many addresses as patterns, functions without a pattern have
\* as many of them as are unknown.
LEMMA EnoughIsFromExtra ==
  ASSUME NEW a \in Addresses, Enough(a)
  PROVE  Cardinality(Known(a) \cap Extra) >= Cardinality(Registered \ Known(a))
<1> DEFINE K == Known(a)
<1>1. K \subseteq Names /\ Names = Registered \cup Extra
  BY DEF Known, Names
<1>2. Cardinality(K) >= Cardinality(Registered)
  BY DEF Enough
<1> HIDE DEF K
<1>3. IsFiniteSet(Registered) /\ IsFiniteSet(K)
  <2>1. Registered \subseteq Names
    BY <1>1
  <2> QED
    BY <1>1, <2>1, SignatureAssumption, FS_Subset
<1>4. /\ IsFiniteSet(K \cap Extra) /\ IsFiniteSet(Registered \cap K)
      /\ IsFiniteSet((K \cap Extra) \cap (Registered \cap K))
  BY <1>3, FS_Subset
<1>5. K = (K \cap Extra) \cup (Registered \cap K)
  BY <1>1
<1>6. Cardinality(K) = Cardinality(K \cap Extra) + Cardinality(Registered \cap K)
                       - Cardinality((K \cap Extra) \cap (Registered \cap K))
  BY <1>4, <1>5, FS_Union
<1>7. Cardinality(Registered \ K) = Cardinality(Registered) - Cardinality(Registered \cap K)
  BY <1>3, FS_Difference
<1>8. /\ Cardinality(K \cap Extra) \in Nat /\ Cardinality(Registered \cap K) \in Nat
      /\ Cardinality((K \cap Extra) \cap (Registered \cap K)) \in Nat
      /\ Cardinality(K) \in Nat /\ Cardinality(Registered) \in Nat
  BY <1>3, <1>4, FS_CardinalityType
<1>9. Cardinality(K \cap Extra) >= Cardinality(Registered \ K)
  BY <1>2, <1>6, <1>7, <1>8
<1> QED
  BY <1>9 DEF K

\* So Initialize ends with addresses that are right, and has asked the database
\* for the others if it could and the number told it to.
LEMMA InitializeIsRight ==
  ASSUME SignatureTypeOK, CacheIsRight, NEW hashed \in BOOLEAN, NEW reachable \in BOOLEAN,
         NEW saves \in BOOLEAN, Initialize(hashed, reachable, saves),
         NEW b, b = addr'
  PROVE  /\ b \in Addresses /\ Right(b)
         /\ \A n \in Registered \ Known(b) :
              \/ offline'
              \/ n \notin Remote[client]
              \/ Cardinality(Known(b) \cap Extra) >= Cardinality(Registered \ Known(b))
<1>1. PICK read \in SUBSET Names :
        LET topped == LoadExternalSignatures(LoadRvaCache(read))
            local  == Scan(ResolveViaSymbolTable(topped))
        IN /\ hashed /\ ~saves => AllRegisteredTargetsResolved(topped)
           /\ offline' = ~(hashed /\ reachable)
           /\ addr' = IF ~hashed THEN Nowhere
                      ELSE IF ~saves THEN topped
                      ELSE IF Enough(local) THEN local
                      ELSE FetchRemoteSignatures(local, reachable)
  BY DEF Initialize
<1> DEFINE cached == LoadRvaCache(read)
           topped == LoadExternalSignatures(cached)
           named  == ResolveViaSymbolTable(topped)
           local  == Scan(named)
           remote == FetchRemoteSignatures(local, reachable)
<1>2. /\ hashed /\ ~saves => AllRegisteredTargetsResolved(topped)
      /\ offline' = ~(hashed /\ reachable)
      /\ b = IF ~hashed THEN Nowhere ELSE IF ~saves THEN topped
             ELSE IF Enough(local) THEN local ELSE remote
  BY <1>1
<1>3. \A n \in Names : reachable /\ n \in Remote[client] => remote[n] = client
  BY DEF FetchRemoteSignatures
<1>4. cached \in Addresses /\ Right(cached)
  BY CachedIsRight
<1> HIDE DEF cached
<1>5. topped \in Addresses /\ Right(topped)
  BY <1>4, SourcesAreRight
<1> HIDE DEF topped
<1>6. named \in Addresses /\ Right(named)
  BY <1>5, SourcesAreRight
<1> HIDE DEF named
<1>7. local \in Addresses /\ Right(local)
  BY <1>6, SourcesAreRight
<1> HIDE DEF local
<1>8. remote \in Addresses /\ Right(remote)
  BY <1>7, SourcesAreRight
<1> HIDE DEF remote
<1>9. Nowhere \in Addresses /\ Right(Nowhere)
  BY DEF Nowhere, Addresses, Right
<1>10. b \in Addresses /\ Right(b)
  BY <1>2, <1>5, <1>7, <1>8, <1>9
<1>11. ASSUME NEW n \in Registered \ Known(b), ~offline', n \in Remote[client]
       PROVE  Cardinality(Known(b) \cap Extra) >= Cardinality(Registered \ Known(b))
  <2>1. hashed /\ reachable
    BY <1>2, <1>11
  <2>2. CASE ~saves
    <3>1. b = topped /\ Registered \subseteq Known(topped)
      BY <1>2, <2>1, <2>2 DEF AllRegisteredTargetsResolved
    <3> QED
      BY <1>11, <3>1
  <2>3. CASE saves /\ Enough(local)
    BY <1>2, <1>7, <2>1, <2>3, EnoughIsFromExtra
  <2>4. CASE saves /\ ~Enough(local)
    <3>1. b = remote /\ n \in Names
      BY <1>2, <2>1, <2>4, <1>11 DEF Names
    <3>2. b[n] = client /\ client # Unknown
      BY <1>3, <1>11, <2>1, <3>1 DEF SignatureTypeOK, Versions, Unknown
    <3> QED
      BY <1>11, <3>1, <3>2 DEF Known
  <2> QED
    BY <2>2, <2>3, <2>4
<1> QED
  BY <1>10, <1>11

-----------------------------------------------------------------------------
(* The invariant holds at first. *)

LEMMA InitIInv == CoreInit => IInv
<1> SUFFICES ASSUME CoreInit PROVE IInv
  OBVIOUS
<1> USE DEF CoreInit, SignatureInit
<1>1. SignatureTypeOK
  <2>1. 1 \in Versions
    BY SignatureAssumption DEF Versions
  <2>2. Nowhere \in Addresses
    BY DEF Nowhere, Addresses
  <2>3. cache \in [Versions -> [whole : BOOLEAN, rvas : Addresses]]
    BY <2>2
  <2> QED
    BY <2>1, <2>2, <2>3 DEF SignatureTypeOK
<1>2. TypeOK
  <2>1. 0 \in 0 .. MaxBoots /\ 0 \in 0 .. MaxInstalls /\ 0 \in 0 .. Len(HookOrder)
    <3>1. Len(HookOrder) \in Nat
      BY CoreAssumption
    <3> QED
      BY <3>1, CoreAssumption
  <2>2. NoStatus \in Statuses
    BY DEF Statuses
  <2> QED
    BY <1>1, <2>1, <2>2 DEF TypeOK
<1>3. CacheIsRight
  BY DEF CacheIsRight, Nowhere
<1>4. AddressesAreRight /\ UnknownIsNowhere
  BY DEF AddressesAreRight, UnknownIsNowhere, Nowhere
<1>5. DeadIsGone /\ PidsGrow /\ ActiveIsPrepared /\ StatusIsTrue
  BY DEF DeadIsGone, PidsGrow, ActiveIsPrepared, StatusIsTrue, NoStatus, NoPid
<1> QED
  BY <1>2, <1>3, <1>4, <1>5 DEF IInv

-----------------------------------------------------------------------------
(* Every step keeps what is said of addresses. *)

SignaturesHold ==
  SignatureTypeOK /\ CacheIsRight /\ AddressesAreRight /\ UnknownIsNowhere /\ DeadIsGone

\* Steps outside PatternLoader.
LEMMA SignaturesStay ==
  ASSUME SignaturesHold, UNCHANGED <<client, ui, uiLoaded, addr, cache, offline, booted, alive>>,
         deployed' \subseteq Versions, alive = NoPid => init' = init /\ exit' = exit
  PROVE  SignaturesHold'
<1> USE DEF SignaturesHold
<1>1. SignatureTypeOK'
  BY DEF SignatureTypeOK
<1>2. \A n \in Names : Base(n)' = Base(n)
  BY DEF Base
<1>3. CacheIsRight'
  BY DEF CacheIsRight, MetWith
<1>4. AddressesAreRight'
  BY <1>2 DEF AddressesAreRight
<1>5. UnknownIsNowhere'
  BY DEF UnknownIsNowhere, Known
<1>6. DeadIsGone'
  BY DEF DeadIsGone
<1> QED
  BY <1>1, <1>3, <1>4, <1>5, <1>6

LEMMA BootSignatures ==
  ASSUME SignaturesHold, boots \in Nat, NEW c \in Versions, NEW u \in Versions, Boot(c, u)
  PROVE  SignaturesHold'
<1> USE DEF Boot, SignaturesHold
<1>1. alive = NoPid /\ addr = Nowhere /\ addr' = Nowhere /\ alive' # NoPid
  BY DEF DeadIsGone, SignatureTypeOK, NoPid
<1>2. SignatureTypeOK'
  BY DEF SignatureTypeOK
<1>3. CacheIsRight'
  BY <1>1 DEF CacheIsRight, MetWith
<1>4. AddressesAreRight'
  BY <1>1 DEF AddressesAreRight, Nowhere
<1>5. UnknownIsNowhere'
  <2>1. offline
    BY DEF DeadIsGone
  <2> QED
    BY <2>1 DEF UnknownIsNowhere
<1> QED
  BY <1>1, <1>2, <1>3, <1>4, <1>5 DEF DeadIsGone

LEMMA LoadUiSignatures ==
  ASSUME SignaturesHold, LoadUi
  PROVE  SignaturesHold'
<1> USE DEF LoadUi, SignaturesHold, processVars
<1>1. SignatureTypeOK' /\ DeadIsGone'
  BY DEF SignatureTypeOK, DeadIsGone
<1>2. CacheIsRight'
  BY DEF CacheIsRight, MetWith
<1>3. AddressesAreRight'
  <2>1. \A n \in Names : Base(n)' = Base(n) \/ Base(n) = Unknown
    BY DEF Base
  <2> QED
    BY <2>1 DEF AddressesAreRight
<1>4. UnknownIsNowhere'
  BY DEF UnknownIsNowhere, Known
<1> QED
  BY <1>1, <1>2, <1>3, <1>4

LEMMA DieSignatures ==
  ASSUME SignaturesHold, Die
  PROVE  SignaturesHold'
<1> USE DEF Die, SignaturesHold
<1>1. SignatureTypeOK'
  <2>1. Nowhere \in Addresses
    BY DEF Nowhere, Addresses
  <2>2. booted' \subseteq Versions \X Versions
    BY DEF SignatureTypeOK
  <2> QED
    BY <2>1, <2>2 DEF SignatureTypeOK
<1>2. CacheIsRight'
  BY DEF CacheIsRight, MetWith
<1>3. AddressesAreRight' /\ UnknownIsNowhere' /\ DeadIsGone'
  BY DEF AddressesAreRight, UnknownIsNowhere, DeadIsGone, Nowhere
<1> QED
  BY <1>1, <1>2, <1>3

\* The address cache is looked up for the client it was saved for.
LEMMA SavesAreRight ==
  ASSUME SignaturesHold, SaveBegins \/ SaveEnds, alive # NoPid, alive' = alive
  PROVE  SignaturesHold'
<1> USE DEF SignaturesHold
<1>1. /\ client' = client /\ ui' = ui /\ uiLoaded' = uiLoaded /\ addr' = addr
      /\ deployed' = deployed /\ offline' = offline /\ booted' = booted
  BY DEF SaveBegins, SaveEnds
<1>2. Saved \in Addresses
  BY DEF Saved, Addresses, SignatureTypeOK
<1>3. ASSUME NEW n \in Names
      PROVE  Saved[n] = Unknown \/ (IF n \in UiNames THEN MetWith(client, Saved[n])
                                    ELSE Saved[n] = client)
  <2>1. Saved[n] = Unknown \/ (Saved[n] = addr[n] /\ Base(n) # Unknown)
    BY DEF Saved
  <2>2. \/ addr[n] \in {Unknown, Base(n)}
        \/ n \in UiNames /\ <<client, addr[n]>> \in booted
    BY DEF AddressesAreRight
  <2> QED
    BY <2>1, <2>2 DEF MetWith, Base
<1>4. \/ cache' = cache
      \/ cache' = [cache EXCEPT ![client] = [whole |-> FALSE, rvas |-> Saved]]
      \/ cache' = [cache EXCEPT ![client].whole = TRUE]
  BY DEF SaveBegins, SaveEnds
<1>5. SignatureTypeOK'
  <2>1. cache' \in [Versions -> [whole : BOOLEAN, rvas : Addresses]]
    <3>1. CASE cache' = cache
      BY <3>1 DEF SignatureTypeOK
    <3>2. CASE cache' = [cache EXCEPT ![client] = [whole |-> FALSE, rvas |-> Saved]]
      <4>1. [whole |-> FALSE, rvas |-> Saved] \in [whole : BOOLEAN, rvas : Addresses]
        BY <1>2
      <4> QED
        BY <3>2, <4>1 DEF SignatureTypeOK
    <3>3. CASE cache' = [cache EXCEPT ![client].whole = TRUE]
      <4>1. [cache[client] EXCEPT !.whole = TRUE] \in [whole : BOOLEAN, rvas : Addresses]
        BY DEF SignatureTypeOK
      <4> QED
        BY <3>3, <4>1 DEF SignatureTypeOK
    <3> QED
      BY <1>4, <3>1, <3>2, <3>3
  <2>2. addr' \in Addresses
    BY <1>1 DEF SignatureTypeOK
  <2> QED
    BY <1>1, <2>1, <2>2 DEF SignatureTypeOK
<1>6. CacheIsRight'
  <2>1. ASSUME NEW v \in Versions, NEW n \in Names, NEW u, u = cache'[v].rvas[n]
        PROVE  u = Unknown \/ (IF n \in UiNames THEN MetWith(v, u) ELSE u = v)
    <3>1. u = cache[v].rvas[n] \/ (v = client /\ u = Saved[n])
      BY <1>4, <2>1 DEF SignatureTypeOK
    <3> QED
      BY <1>3, <3>1 DEF CacheIsRight
  <2>2. \A v \in Versions : \A u : MetWith(v, u)' <=> MetWith(v, u)
    BY <1>1 DEF MetWith
  <2> QED
    BY <2>1, <2>2 DEF CacheIsRight
<1>7. AddressesAreRight' /\ UnknownIsNowhere'
  <2>1. \A n \in Names : Base(n)' = Base(n)
    BY <1>1 DEF Base
  <2>2. Known(addr)' = Known(addr)
    BY <1>1
  <2> QED
    BY <1>1, <2>1, <2>2 DEF AddressesAreRight, UnknownIsNowhere
<1> QED
  BY <1>5, <1>6, <1>7 DEF DeadIsGone

\* Initialize: what it finds, and what it has asked for.
LEMMA ResolveSignatures ==
  ASSUME SignaturesHold, Resolve
  PROVE  SignaturesHold'
<1> USE DEF SignaturesHold
<1>1. PICK hashed \in BOOLEAN, reachable \in BOOLEAN, saves \in BOOLEAN :
        /\ Initialize(hashed, reachable, saves)
        /\ InitGoes("resolve", IF saves THEN "save" ELSE "attach")
  BY DEF Resolve
<1>2. /\ client' = client /\ ui' = ui /\ uiLoaded' = uiLoaded /\ cache' = cache
      /\ deployed' = deployed /\ booted' = booted /\ alive' = alive /\ alive # NoPid
  BY <1>1 DEF Resolve, InitGoes, DeadIsGone
<1>3. /\ addr' \in Addresses /\ Right(addr')
      /\ \A n \in Registered \ Known(addr') :
           \/ offline'
           \/ n \notin Remote[client]
           \/ Cardinality(Known(addr') \cap Extra) >= Cardinality(Registered \ Known(addr'))
  BY <1>1, InitializeIsRight
<1>4. SignatureTypeOK'
  <2>1. offline' \in BOOLEAN
    BY <1>1 DEF Initialize
  <2> QED
    BY <1>2, <1>3, <2>1 DEF SignatureTypeOK
<1>5. CacheIsRight'
  BY <1>2 DEF CacheIsRight, MetWith
<1>6. AddressesAreRight'
  <2>1. \A n \in Names : Base(n)' = Base(n)
    BY <1>2 DEF Base
  <2> QED
    BY <1>2, <1>3, <2>1 DEF AddressesAreRight, Right
<1>7. UnknownIsNowhere'
  BY <1>2, <1>3 DEF UnknownIsNowhere
<1> QED
  BY <1>2, <1>4, <1>5, <1>6, <1>7 DEF DeadIsGone

\* A late search finds one more function, and no fewer are known.
LEMMA LookUpSignatures ==
  ASSUME SignaturesHold, LookUp
  PROVE  SignaturesHold'
<1> USE DEF SignaturesHold
<1> DEFINE m == HookOrder[hooks']
<1>1. /\ client' = client /\ ui' = ui /\ uiLoaded' = uiLoaded /\ cache' = cache
      /\ deployed' = deployed /\ booted' = booted /\ offline' = offline
      /\ alive' = alive /\ alive # NoPid
  BY DEF LookUp, GetFunctionAddress, InitGoes, DeadIsGone
<1>2. addr' = addr \/ (addr[m] = Unknown /\ addr' = [addr EXCEPT ![m] = Found(m)])
  BY DEF LookUp, GetFunctionAddress
<1>3. addr \in Addresses
  BY DEF SignatureTypeOK
<1> HIDE DEF m
<1>4. \A n \in Names : Base(n) \in Versions \cup {Unknown}
  BY DEF Base, SignatureTypeOK
<1>5. \A n \in Names : addr'[n] = addr[n] \/ (addr[n] = Unknown /\ addr'[n] \in {Unknown, Base(n)})
  BY <1>2, <1>3 DEF Found, Addresses
<1>6. addr' \in Addresses
  <2>1. DOMAIN addr' = Names /\ addr' = [n \in Names |-> addr'[n]]
    BY <1>2, <1>3 DEF Addresses
  <2> QED
    BY <1>3, <1>4, <1>5, <2>1 DEF Addresses
<1>7. SignatureTypeOK'
  BY <1>1, <1>6 DEF SignatureTypeOK
<1>8. CacheIsRight'
  BY <1>1 DEF CacheIsRight, MetWith
<1>9. AddressesAreRight'
  <2>1. \A n \in Names : Base(n)' = Base(n)
    BY <1>1 DEF Base
  <2> QED
    BY <1>1, <1>5, <2>1 DEF AddressesAreRight
<1>10. UnknownIsNowhere'
  <2>1. Known(addr) \subseteq Known(addr') /\ Known(addr') \subseteq Names
    BY <1>5 DEF Known
  <2>2. /\ Registered \ Known(addr') \subseteq Registered \ Known(addr)
        /\ Known(addr) \cap Extra \subseteq Known(addr') \cap Extra
    BY <2>1
  <2>3. IsFiniteSet(Registered \ Known(addr)) /\ IsFiniteSet(Known(addr') \cap Extra)
    <3>1. /\ Registered \ Known(addr) \subseteq Names
          /\ Known(addr') \cap Extra \subseteq Names
      BY DEF Names
    <3> QED
      BY <3>1, SignatureAssumption, FS_Subset
  <2>4. /\ Cardinality(Registered \ Known(addr')) <= Cardinality(Registered \ Known(addr))
        /\ Cardinality(Known(addr) \cap Extra) <= Cardinality(Known(addr') \cap Extra)
        /\ IsFiniteSet(Registered \ Known(addr')) /\ IsFiniteSet(Known(addr) \cap Extra)
    BY <2>2, <2>3, FS_Subset
  <2>5. /\ Cardinality(Registered \ Known(addr')) \in Nat
        /\ Cardinality(Registered \ Known(addr)) \in Nat
        /\ Cardinality(Known(addr') \cap Extra) \in Nat
        /\ Cardinality(Known(addr) \cap Extra) \in Nat
    BY <2>3, <2>4, FS_CardinalityType
  <2>6. ASSUME NEW n \in Registered \ Known(addr')
        PROVE  \/ offline \/ n \notin Remote[client]
               \/ Cardinality(Known(addr') \cap Extra) >= Cardinality(Registered \ Known(addr'))
    <3>1. \/ offline \/ n \notin Remote[client]
          \/ Cardinality(Known(addr) \cap Extra) >= Cardinality(Registered \ Known(addr))
      BY <2>2, <2>6 DEF UnknownIsNowhere
    <3> QED
      BY <2>4, <2>5, <3>1
  <2> QED
    BY <1>1, <2>6 DEF UnknownIsNowhere
<1> QED
  BY <1>1, <1>7, <1>8, <1>9, <1>10 DEF DeadIsGone

\* The steps that change what SignaturesHold speaks of, and those that do not.
LEMMA NextSignatures ==
  ASSUME SignaturesHold, boots \in Nat, Next
  PROVE  SignaturesHold'
<1>1. ASSUME NEW c \in Versions, NEW u \in Versions, Boot(c, u) PROVE SignaturesHold'
  BY <1>1, BootSignatures
<1>2. CASE LoadUi
  BY <1>2, LoadUiSignatures
<1>3. CASE Die
  BY <1>3, DieSignatures
<1>4. CASE Resolve
  BY <1>4, ResolveSignatures
<1>5. CASE LookUp
  BY <1>5, LookUpSignatures
<1>6. CASE Save \/ LateSave
  <2>1. alive # NoPid /\ alive' = alive /\ (SaveBegins \/ SaveEnds)
    BY <1>6 DEF Save, LateSave, InitGoes, SignaturesHold, DeadIsGone
  <2> QED
    BY <2>1, SavesAreRight
<1>7. CASE WaitForModule \/ AttachHook \/ Commit \/ Report \/ ExitBegins \/ UninstallHooks
  <2>1. alive # NoPid
    BY <1>7 DEF WaitForModule, AttachHook, Commit, Report, ExitBegins, UninstallHooks, InitGoes,
                SignaturesHold, DeadIsGone
  <2>2. UNCHANGED <<client, ui, uiLoaded, addr, cache, deployed, offline, booted, alive>>
    BY <1>7 DEF WaitForModule, AttachHook, Commit, Report, ExitBegins, UninstallHooks,
                signatureVars
  <2> QED
    BY <2>1, <2>2, SignaturesStay DEF SignaturesHold, SignatureTypeOK
<1>8. CASE \/ InstallBegins \/ Download \/ Unpack \/ SyncSignatureFiles \/ UninstallCore
           \/ GetStatus
  <2> USE DEF InstallBegins, Download, Unpack, SyncSignatureFiles, UninstallCore, GetStatus,
              ReadStatus, StatusIsLive, StatusIsStale, RemoveStale, processVars, signatureVars
  <2>1. UNCHANGED <<client, ui, uiLoaded, addr, cache, offline, booted, alive, init, exit>>
    BY <1>8
  <2>2. deployed' = deployed \/ \E docs \in SUBSET Versions : deployed' = deployed \cup docs
    BY <1>8
  <2>3. deployed' \subseteq Versions
    BY <2>2 DEF SignaturesHold, SignatureTypeOK
  <2> QED
    BY <2>1, <2>3, SignaturesStay
<1> QED
  BY <1>1, <1>2, <1>3, <1>4, <1>5, <1>6, <1>7, <1>8 DEF Next, InitThread

-----------------------------------------------------------------------------
(* Every step keeps what is said of the process and its status file. *)

\* TypeOK, without the part about signatures.
ProcessTypeOK ==
  /\ alive \in Pids \cup {NoPid} /\ boots \in 0 .. MaxBoots
  /\ init \in {"off", "wait", "aborted", "resolve", "save", "saving", "attach", "lateSave",
               "lateSaving", "prepare", "report", "rename", "done"}
  /\ hooks \in 0 .. Len(HookOrder) /\ funchook \in {"none", "prepared", "installed"}
  /\ prepared \subseteq Hooked /\ active \subseteq Hooked /\ committed \in BOOLEAN
  /\ exit \in {"none", "unhook", "gone"}
  /\ status \in Statuses /\ seen \in Statuses
  /\ library \in {"none", "torn", "new"}
  /\ setup \in {"idle", "download", "unpack", "sync"}
  /\ installs \in 0 .. MaxInstalls
  /\ ask \in {"idle", "check", "remove"} /\ stolen \in BOOLEAN

LEMMA TypeParts == TypeOK <=> SignatureTypeOK /\ ProcessTypeOK
BY DEF TypeOK, ProcessTypeOK

ProcessHolds == ProcessTypeOK /\ DeadIsGone /\ PidsGrow /\ ActiveIsPrepared /\ StatusIsTrue

LEMMA Bounds ==
  ASSUME ProcessTypeOK
  PROVE  /\ MaxBoots \in Nat /\ MaxInstalls \in Nat /\ Len(HookOrder) \in Nat
         /\ boots \in Nat /\ hooks \in Nat /\ alive \in Nat /\ installs \in Nat
         /\ status.pid \in Nat /\ seen.pid \in Nat
         /\ status # NoStatus => status.pid # NoPid
         /\ seen # NoStatus => seen.pid # NoPid
BY CoreAssumption DEF ProcessTypeOK, Statuses, NoStatus, Pids, NoPid

LEMMA BootProcess ==
  ASSUME ProcessHolds, NEW c \in Versions, NEW u \in Versions, Boot(c, u)
  PROVE  (ProcessTypeOK /\ PidsGrow /\ ActiveIsPrepared /\ StatusIsTrue)'
<1> USE DEF Boot, ProcessHolds
<1>1. /\ boots' = boots + 1 /\ alive' = boots' /\ init' = "wait" /\ stolen' = FALSE
      /\ hooks' = hooks /\ funchook' = funchook /\ prepared' = prepared /\ active' = active
      /\ committed' = committed /\ exit' = exit /\ status' = status /\ library' = library
      /\ setup' = setup /\ installs' = installs /\ ask' = ask /\ seen' = seen
      /\ boots < MaxBoots
  OBVIOUS
<1>2. ProcessTypeOK'
  <2>1. boots' \in 0 .. MaxBoots /\ alive' \in Pids
    BY <1>1, Bounds DEF Pids
  <2> QED
    BY <1>1, <2>1 DEF ProcessTypeOK
<1>3. PidsGrow'
  BY <1>1, Bounds DEF PidsGrow
<1>4. ActiveIsPrepared' /\ StatusIsTrue'
  BY <1>1 DEF ActiveIsPrepared, StatusIsTrue, DeadIsGone
<1> QED
  BY <1>2, <1>3, <1>4

LEMMA DieProcess ==
  ASSUME ProcessHolds, Die
  PROVE  (ProcessTypeOK /\ PidsGrow /\ ActiveIsPrepared /\ StatusIsTrue)'
<1> USE DEF Die, ProcessHolds
<1>1. /\ alive' = NoPid /\ boots' = boots /\ init' = "off" /\ exit' = "none" /\ hooks' = 0
      /\ funchook' = "none" /\ prepared' = {} /\ active' = {} /\ committed' = FALSE
      /\ status' = status /\ library' = library /\ setup' = setup /\ installs' = installs
      /\ ask' = ask /\ seen' = seen /\ stolen' = stolen
  BY DEF managerVars
<1>2. ProcessTypeOK'
  <2>1. 0 \in 0 .. Len(HookOrder)
    BY Bounds
  <2> QED
    BY <1>1, <2>1 DEF ProcessTypeOK
<1>3. PidsGrow' /\ ActiveIsPrepared' /\ StatusIsTrue'
  BY <1>1 DEF PidsGrow, ActiveIsPrepared, StatusIsTrue
<1> QED
  BY <1>2, <1>3

\* The init thread, but for its end.
LEMMA ThreadProcess ==
  ASSUME ProcessHolds, WaitForModule \/ Resolve \/ Save \/ LookUp \/ LateSave
  PROVE  (ProcessTypeOK /\ PidsGrow /\ ActiveIsPrepared /\ StatusIsTrue)'
<1> USE DEF ProcessHolds
<1>1. /\ alive' = alive /\ boots' = boots /\ prepared' = prepared /\ active' = active
      /\ committed' = committed /\ exit' = exit /\ status' = status /\ library' = library
      /\ setup' = setup /\ installs' = installs /\ ask' = ask /\ seen' = seen
      /\ stolen' = stolen
  BY DEF WaitForModule, Resolve, Save, LookUp, LateSave, managerVars
<1>2. /\ init \notin {"report", "rename", "done"}
      /\ init' \in {"aborted", "resolve", "save", "saving", "attach", "lateSave", "lateSaving",
                    "prepare"}
      /\ funchook' \in {funchook, "prepared"}
  BY DEF WaitForModule, Resolve, Save, LookUp, LateSave, InitGoes
<1>3. \/ hooks' = hooks /\ (init' \in {"lateSaving", "prepare"}
                              => init \in {"lateSave", "lateSaving", "prepare"})
                        /\ init' # "lateSave"
      \/ hooks < Len(HookOrder) /\ hooks' = hooks + 1
  BY DEF WaitForModule, Resolve, Save, LookUp, LateSave, InitGoes
<1>4. /\ hooks' \in 0 .. Len(HookOrder)
      /\ init' \in {"lateSave", "lateSaving", "prepare"} => hooks' \in 1 .. Len(HookOrder)
  BY <1>3, Bounds DEF ProcessTypeOK, ActiveIsPrepared
<1>5. ProcessTypeOK'
  BY <1>1, <1>2, <1>4 DEF ProcessTypeOK
<1>6. PidsGrow' /\ ActiveIsPrepared' /\ StatusIsTrue'
  BY <1>1, <1>2, <1>4 DEF PidsGrow, ActiveIsPrepared, StatusIsTrue
<1> QED
  BY <1>5, <1>6

\* ATTACH_HOOK keeps the statuses within the transaction.
LEMMA AttachProcess ==
  ASSUME ProcessHolds, AttachHook
  PROVE  (ProcessTypeOK /\ PidsGrow /\ ActiveIsPrepared /\ StatusIsTrue)'
<1> USE DEF ProcessHolds
<1> DEFINE m == HookOrder[hooks]
<1>1. /\ init = "prepare" /\ init' = "attach"
      /\ \/ /\ funchook' \in {funchook, "prepared"} /\ prepared' = prepared \cup {m}
            /\ active' = active \cup {m}
         \/ active' = active \ {m} /\ funchook' = funchook /\ prepared' = prepared
      /\ alive' = alive /\ boots' = boots /\ hooks' = hooks
      /\ committed' = committed /\ exit' = exit /\ status' = status /\ library' = library
      /\ setup' = setup /\ installs' = installs /\ ask' = ask /\ seen' = seen
      /\ stolen' = stolen
  BY DEF AttachHook, InitGoes, managerVars
<1>2. m \in Hooked
  BY <1>1 DEF ActiveIsPrepared, Hooked
<1> HIDE DEF m
<1>3. ProcessTypeOK'
  BY <1>1, <1>2 DEF ProcessTypeOK
<1>4. PidsGrow' /\ ActiveIsPrepared' /\ StatusIsTrue'
  BY <1>1 DEF PidsGrow, ActiveIsPrepared, StatusIsTrue
<1> QED
  BY <1>3, <1>4

LEMMA CommitProcess ==
  ASSUME ProcessHolds, Commit
  PROVE  (ProcessTypeOK /\ PidsGrow /\ ActiveIsPrepared /\ StatusIsTrue)'
<1> USE DEF ProcessHolds
<1>1. /\ init = "attach" /\ init' = "report"
      /\ \/ funchook' = "installed" /\ committed' = TRUE /\ prepared' = prepared
         \/ funchook' = "none" /\ committed' = FALSE /\ prepared' = {}
      /\ alive' = alive /\ boots' = boots /\ hooks' = hooks /\ active' = active
      /\ exit' = exit /\ status' = status /\ library' = library
      /\ setup' = setup /\ installs' = installs /\ ask' = ask /\ seen' = seen
      /\ stolen' = stolen
  BY DEF Commit, InitGoes, managerVars
<1>2. ProcessTypeOK'
  BY <1>1 DEF ProcessTypeOK
<1>3. PidsGrow' /\ ActiveIsPrepared' /\ StatusIsTrue'
  BY <1>1 DEF PidsGrow, ActiveIsPrepared, StatusIsTrue
<1> QED
  BY <1>2, <1>3

\* UpdateCoreStatus(true) tells of this process.
LEMMA ReportProcess ==
  ASSUME ProcessHolds, Report
  PROVE  (ProcessTypeOK /\ PidsGrow /\ ActiveIsPrepared /\ StatusIsTrue)'
<1> USE DEF ProcessHolds
<1> DEFINE told == [pid |-> alive, green |-> active \cap Shown]
<1>1. /\ init \in {"report", "rename"}
      /\ \/ init' = "done" /\ status' = told
         \/ init' = "rename" /\ status' = NoStatus
      /\ alive' = alive /\ boots' = boots /\ hooks' = hooks /\ funchook' = funchook
      /\ prepared' = prepared /\ active' = active /\ committed' = committed /\ exit' = exit
      /\ library' = library /\ setup' = setup /\ installs' = installs
      /\ ask' = ask /\ seen' = seen /\ stolen' = stolen
  BY DEF Report, InitGoes, managerVars
<1>2. alive # NoPid /\ alive \in Pids /\ alive = boots
  BY <1>1 DEF DeadIsGone, ProcessTypeOK, PidsGrow
<1>3. told \in Statuses /\ NoStatus \in Statuses /\ told.pid = alive
      /\ told.green = active \cap Shown /\ NoStatus.pid = NoPid
  BY <1>2 DEF Statuses, NoStatus
<1> HIDE DEF told
<1>4. ProcessTypeOK'
  BY <1>1, <1>3 DEF ProcessTypeOK
<1>5. PidsGrow'
  BY <1>1, <1>2, <1>3, Bounds DEF PidsGrow, NoPid
<1>6. ActiveIsPrepared' /\ StatusIsTrue'
  BY <1>1, <1>3 DEF ActiveIsPrepared, StatusIsTrue
<1> QED
  BY <1>4, <1>5, <1>6

LEMMA ExitProcess ==
  ASSUME ProcessHolds, ExitBegins \/ UninstallHooks
  PROVE  (ProcessTypeOK /\ PidsGrow /\ ActiveIsPrepared /\ StatusIsTrue)'
<1> USE DEF ProcessHolds
<1>1. /\ exit' \in {"unhook", "gone"} /\ status' \in {status, NoStatus}
      /\ prepared' \in {prepared, {}} /\ funchook' \in {funchook, "none"}
      /\ alive' = alive /\ boots' = boots /\ init' = init /\ hooks' = hooks
      /\ active' = active /\ committed' = committed
      /\ library' = library /\ setup' = setup /\ installs' = installs
      /\ ask' = ask /\ seen' = seen /\ stolen' = stolen
  BY DEF ExitBegins, UninstallHooks, managerVars
<1>2. NoStatus \in Statuses /\ NoStatus.pid <= boots
  BY Bounds DEF Statuses, NoStatus, NoPid
<1>3. ProcessTypeOK'
  BY <1>1, <1>2 DEF ProcessTypeOK
<1>4. PidsGrow' /\ ActiveIsPrepared' /\ StatusIsTrue'
  BY <1>1, <1>2 DEF PidsGrow, ActiveIsPrepared, StatusIsTrue
<1> QED
  BY <1>3, <1>4

\* The manager's installations, and steamui, do not touch the process.
LEMMA SetupProcess ==
  ASSUME ProcessHolds,
         \/ LoadUi \/ InstallBegins \/ Download \/ Unpack \/ SyncSignatureFiles
         \/ UninstallCore
  PROVE  (ProcessTypeOK /\ PidsGrow /\ ActiveIsPrepared /\ StatusIsTrue)'
<1> USE DEF ProcessHolds
<1>1. /\ alive' = alive /\ boots' = boots /\ init' = init /\ hooks' = hooks
      /\ funchook' = funchook /\ prepared' = prepared /\ active' = active
      /\ committed' = committed /\ exit' = exit /\ status' = status
      /\ ask' = ask /\ seen' = seen /\ stolen' = stolen
  BY DEF LoadUi, InstallBegins, Download, Unpack, SyncSignatureFiles, UninstallCore,
         processVars, managerVars
<1>2. /\ library' \in {library, "none", "torn", "new"}
      /\ setup' \in {setup, "idle", "download", "unpack", "sync"}
      /\ installs' = installs \/ (installs < MaxInstalls /\ installs' = installs + 1)
  BY DEF LoadUi, InstallBegins, Download, Unpack, SyncSignatureFiles, UninstallCore,
         processVars, managerVars
<1>3. installs' \in 0 .. MaxInstalls
  BY <1>2, Bounds DEF ProcessTypeOK
<1>4. ProcessTypeOK'
  BY <1>1, <1>2, <1>3 DEF ProcessTypeOK
<1>5. PidsGrow' /\ ActiveIsPrepared' /\ StatusIsTrue'
  BY <1>1 DEF PidsGrow, ActiveIsPrepared, StatusIsTrue
<1> QED
  BY <1>4, <1>5

\* GetStatus removes the file of a process that is gone, or has stolen it.
LEMMA StatusProcess ==
  ASSUME ProcessHolds, GetStatus
  PROVE  (ProcessTypeOK /\ PidsGrow /\ ActiveIsPrepared /\ StatusIsTrue)'
<1> USE DEF ProcessHolds
<1>1. /\ alive' = alive /\ boots' = boots /\ init' = init /\ hooks' = hooks
      /\ funchook' = funchook /\ prepared' = prepared /\ active' = active
      /\ committed' = committed /\ exit' = exit /\ library' = library
      /\ setup' = setup /\ installs' = installs
  BY DEF GetStatus, ReadStatus, StatusIsLive, StatusIsStale, RemoveStale, processVars
<1>2. /\ NoStatus \in Statuses /\ NoStatus.pid = NoPid /\ NoStatus.green = {}
      /\ NoPid <= boots
  BY Bounds DEF Statuses, NoStatus, NoPid
<1>3. CASE ReadStatus
  <2>1. /\ ask' = "check" /\ status # NoStatus /\ seen' = status /\ status' = status
        /\ stolen' = stolen
    BY <1>3 DEF ReadStatus, AskGoes
  <2>2. ProcessTypeOK'
    BY <1>1, <2>1 DEF ProcessTypeOK
  <2> QED
    BY <1>1, <2>1, <2>2, Bounds DEF PidsGrow, ActiveIsPrepared, StatusIsTrue
<1>4. CASE StatusIsLive
  <2>1. ask' = "idle" /\ seen' = NoStatus /\ status' = status /\ stolen' = stolen
    BY <1>4 DEF StatusIsLive, AskGoes
  <2>2. ProcessTypeOK'
    BY <1>1, <1>2, <2>1 DEF ProcessTypeOK
  <2> QED
    BY <1>1, <1>2, <2>1, <2>2 DEF PidsGrow, ActiveIsPrepared, StatusIsTrue
<1>5. CASE StatusIsStale
  <2>1. /\ ask = "check" /\ ask' = "remove" /\ seen.pid # alive /\ seen' = seen
        /\ status' = status /\ stolen' = stolen
    BY <1>5 DEF StatusIsStale, AskGoes
  <2>2. ProcessTypeOK'
    BY <1>1, <2>1 DEF ProcessTypeOK
  <2> QED
    BY <1>1, <2>1, <2>2 DEF PidsGrow, ActiveIsPrepared, StatusIsTrue
<1>6. CASE RemoveStale
  <2>1. /\ ask = "remove" /\ ask' = "idle" /\ status' = NoStatus /\ seen' = NoStatus
        /\ stolen' = (stolen \/ status \notin {seen, NoStatus})
    BY <1>6 DEF RemoveStale, AskGoes
  <2>2. ProcessTypeOK'
    <3>1. stolen' \in BOOLEAN
      BY <2>1
    <3> QED
      BY <1>1, <1>2, <2>1, <3>1 DEF ProcessTypeOK
  <2>3. (init = "done" /\ exit = "none") => stolen'
    <3>1. ASSUME init = "done", exit = "none", ~stolen PROVE stolen'
      <4>1. alive # NoPid /\ status.pid = alive
        BY <3>1 DEF StatusIsTrue, DeadIsGone
      <4>2. status # seen /\ status # NoStatus
        BY <1>2, <2>1, <4>1 DEF PidsGrow
      <4> QED
        BY <2>1, <4>2
    <3> QED
      BY <2>1, <3>1
  <2> QED
    BY <1>1, <1>2, <2>1, <2>2, <2>3 DEF PidsGrow, ActiveIsPrepared, StatusIsTrue
<1> QED
  BY <1>3, <1>4, <1>5, <1>6 DEF GetStatus

LEMMA NextProcess ==
  ASSUME ProcessHolds, Next
  PROVE  (ProcessTypeOK /\ PidsGrow /\ ActiveIsPrepared /\ StatusIsTrue)'
<1>1. ASSUME NEW c \in Versions, NEW u \in Versions, Boot(c, u)
      PROVE  (ProcessTypeOK /\ PidsGrow /\ ActiveIsPrepared /\ StatusIsTrue)'
  BY <1>1, BootProcess
<1>2. CASE Die
  BY <1>2, DieProcess
<1>3. CASE InitThread
  BY <1>3, ThreadProcess, AttachProcess, CommitProcess, ReportProcess DEF InitThread
<1>4. CASE ExitBegins \/ UninstallHooks
  BY <1>4, ExitProcess
<1>5. CASE \/ LoadUi \/ InstallBegins \/ Download \/ Unpack \/ SyncSignatureFiles
           \/ UninstallCore
  BY <1>5, SetupProcess
<1>6. CASE GetStatus
  BY <1>6, StatusProcess
<1> QED
  BY <1>1, <1>2, <1>3, <1>4, <1>5, <1>6 DEF Next

-----------------------------------------------------------------------------
(* The theorems. *)

LEMMA NextIInv ==
  ASSUME IInv, [Next]_vars
  PROVE  IInv'
<1>1. CASE Next
  <2>1. SignaturesHold /\ ProcessHolds
    BY TypeParts DEF IInv, SignaturesHold, ProcessHolds
  <2>2. boots \in Nat
    BY <2>1, Bounds DEF ProcessHolds
  <2>3. SignaturesHold'
    BY <1>1, <2>1, <2>2, NextSignatures
  <2>4. (ProcessTypeOK /\ PidsGrow /\ ActiveIsPrepared /\ StatusIsTrue)'
    BY <1>1, <2>1, NextProcess
  <2> QED
    BY <2>3, <2>4 DEF IInv, SignaturesHold, TypeOK, ProcessTypeOK
<1>2. CASE UNCHANGED vars
  <2> USE <1>2 DEF vars, signatureVars, processVars, managerVars
  <2>1. SignatureTypeOK' /\ ProcessTypeOK'
    BY TypeParts DEF IInv, SignatureTypeOK, ProcessTypeOK
  <2>2. CacheIsRight' /\ AddressesAreRight' /\ UnknownIsNowhere'
    BY DEF IInv, CacheIsRight, MetWith, AddressesAreRight, Base, UnknownIsNowhere, Known
  <2>3. DeadIsGone' /\ PidsGrow' /\ ActiveIsPrepared' /\ StatusIsTrue'
    BY DEF IInv, DeadIsGone, PidsGrow, ActiveIsPrepared, StatusIsTrue
  <2> QED
    BY <2>1, <2>2, <2>3 DEF IInv, TypeOK, ProcessTypeOK
<1> QED
  BY <1>1, <1>2

LEMMA Inductive == Spec => []IInv
<1> QED
  BY InitIInv, NextIInv, PTL DEF Spec

\* Every variable keeps its type, in every life of the core and the manager.
THEOREM TypeCorrect == Spec => []TypeOK
<1>1. IInv => TypeOK
  BY DEF IInv
<1> QED
  BY <1>1, Inductive, PTL

\* No source of PatternLoader puts a hook in a wrong place, whatever was cached,
\* cut short or updated between two starts, but for functions of a steamui that
\* the same client had before (src/src/Utils/Metadata/PatternLoader.cpp:106).
THEOREM HooksAreInPlace == Spec => []AddressesAreRight
<1>1. IInv => AddressesAreRight
  BY DEF IInv
<1> QED
  BY <1>1, Inductive, PTL

\* Initialize leaves out the signature database only if it cannot be reached, has
\* nothing, or functions without a pattern make up the number.
THEOREM DatabaseIsAsked == Spec => []UnknownIsNowhere
<1>1. IInv => UnknownIsNowhere
  BY DEF IInv
<1> QED
  BY <1>1, Inductive, PTL

\* core_status.json tells of the running core and of hooks that are in place.
THEOREM StatusTellsTruth == Spec => []StatusIsTrue
<1>1. IInv => StatusIsTrue
  BY DEF IInv
<1> QED
  BY <1>1, Inductive, PTL
=============================================================================
