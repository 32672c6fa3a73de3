------------------------------ MODULE Signatures ------------------------------
(***************************************************************************)
(* PatternLoader: where the functions to hook are in the client's binaries.*)
(* They come from a cache file per client binary, from signature documents *)
(* for that binary, from its symbol table, from a search for byte patterns *)
(* and, if too few are known then, from the signature database.            *)
(*                                                                         *)
(* An address is the version of the binary it was found in, added to the   *)
(* base of the one that is loaded; it is right if the versions are equal.  *)
(* Documents, symbols and patterns are right for the version they are of.  *)
(***************************************************************************)
EXTENDS Naturals, FiniteSets

CONSTANTS
  MaxVersion,  \* bound on the versions of a binary
  Registered,  \* functions with a pattern, g_patterns
  UiNames,     \* those in steamui instead of steamclient
  Extra,       \* functions of the documents that have no pattern
  Matches,     \* Matches[n]: versions in which the pattern of n is found
  Symbols,     \* Symbols[n]: client versions whose symbols name n, once
  Document,    \* Document[v]: names in the documents for client version v
  Remote       \* Remote[v]: names the signature database has for it

Versions == 1 .. MaxVersion
Names    == Registered \cup Extra
Unknown  == 0

\* Only Windows registers patterns, and there UiNames has FillInAppOverview.
\* Its name is also looked up among the client's symbols (kSymbolTargets) and
\* documents, which are taken not to have it: an address from there would be
\* put to the client's base.
ASSUME SignatureAssumption ==
  /\ MaxVersion \in Nat \ {0} /\ UiNames \subseteq Registered /\ IsFiniteSet(Names)
  /\ Matches \in [Names -> SUBSET Versions] /\ Symbols \in [Names -> SUBSET Versions]
  /\ \A n \in UiNames : Symbols[n] = {}
  /\ Document \in [Versions -> SUBSET (Names \ UiNames)]
  /\ Remote \in [Versions -> SUBSET (Names \ UiNames)]

VARIABLES
  client, ui,  \* versions of the two binaries
  uiLoaded,    \* steamui is in the process
  addr,        \* g_resolvedAddresses
  cache,       \* the cache file of each client version, and whether it is whole
  deployed,    \* client versions with documents in the signature directory
  offline,     \* ghost: the database could not be asked
  booted       \* ghost: versions of the binaries the core has met

signatureVars == <<client, ui, uiLoaded, addr, cache, deployed, offline, booted>>

Addresses == [Names -> Versions \cup {Unknown}]
Nowhere   == [n \in Names |-> Unknown]

SignatureInit ==
  /\ client = 1 /\ ui = 1 /\ uiLoaded = FALSE
  /\ addr = Nowhere
  /\ cache = [v \in Versions |-> [whole |-> TRUE, rvas |-> Nowhere]]
  /\ deployed = {} /\ offline = TRUE /\ booted = {}

SignatureTypeOK ==
  /\ client \in Versions /\ ui \in Versions /\ uiLoaded \in BOOLEAN
  /\ addr \in Addresses
  /\ cache \in [Versions -> [whole : BOOLEAN, rvas : Addresses]]
  /\ deployed \subseteq Versions /\ offline \in BOOLEAN
  /\ booted \subseteq Versions \X Versions

\* ModuleBaseFor: the version that is loaded, if it is.
Base(n) == IF n \notin UiNames THEN client ELSE IF uiLoaded THEN ui ELSE Unknown

Known(a) == {n \in Names : a[n] # Unknown}

\* Mutant of LoadRvaCache: entries of whatever client version are taken.
LoadRvaCacheAny(read) ==
  [n \in Names |-> IF n \in read /\ Base(n) # Unknown THEN cache[1].rvas[n] ELSE Unknown]

\* LoadRvaCache: the entries read, the file's all or those before it breaks
\* off; an entry of a binary that is not loaded is skipped.
LoadRvaCache(read) ==
  [n \in Names |-> IF n \in read /\ Base(n) # Unknown THEN cache[client].rvas[n] ELSE Unknown]

\* LoadExternalSignatures, with DeclaresMatchingHash: the documents of the
\* signature directory that are for the loaded client.
LoadExternalSignatures(a) ==
  [n \in Names |-> IF client \in deployed /\ n \in Document[client] THEN client ELSE a[n]]

\* ResolveViaSymbolTable.
ResolveViaSymbolTable(a) == [n \in Names |-> IF client \in Symbols[n] THEN client ELSE a[n]]

\* FindPatternInModule, for a name of g_patterns.
Found(n) == IF n \in Registered /\ Base(n) \in Matches[n] THEN Base(n) ELSE Unknown

\* The scan for what is not resolved yet.
Scan(a) == [n \in Names |-> IF a[n] = Unknown THEN Found(n) ELSE a[n]]

\* Mutant of Enough: any address will do.
EnoughAny(a) == Known(a) # {}

\* The database is asked only if there are fewer addresses than patterns,
\* whatever functions the addresses are of.
Enough(a) == Cardinality(Known(a)) >= Cardinality(Registered)

\* FetchRemoteSignatures, if a mirror answers.
FetchRemoteSignatures(a, reachable) ==
  [n \in Names |-> IF reachable /\ n \in Remote[client] THEN client ELSE a[n]]

\* AllRegisteredTargetsResolved.
AllRegisteredTargetsResolved(a) == Registered \subseteq Known(a)

\* Initialize up to SaveRvaCache; saves is whether it gets there.  A client
\* that cannot be hashed leaves everything to GetFunctionAddress.
Initialize(hashed, reachable, saves) ==
  \E read \in IF cache[client].whole THEN {Names} ELSE SUBSET Names :
    LET cached == LoadRvaCache(read)
        topped == LoadExternalSignatures(cached)
        hit    == cache[client].whole /\ Known(cached) # {}
        local  == Scan(ResolveViaSymbolTable(topped))
    IN /\ saves <=> hashed /\ ~(hit /\ AllRegisteredTargetsResolved(topped))
       /\ offline' = ~(hashed /\ reachable)
       /\ addr' = IF ~hashed THEN Nowhere
                  ELSE IF ~saves THEN topped
                  ELSE IF Enough(local) THEN local
                  ELSE FetchRemoteSignatures(local, reachable)

\* What SaveRvaCache writes: functions with a pattern, of a loaded binary.
\* An RVA is the address less the base of the binary it is now put to.
Saved == [n \in Names |-> IF n \in Registered /\ Base(n) # Unknown THEN addr[n] ELSE Unknown]

\* The file is truncated and written; a reader after a crash finds some of it.
SaveBegins ==
  /\ cache' = IF Known(Saved) = {} THEN cache
              ELSE [cache EXCEPT ![client] = [whole |-> FALSE, rvas |-> Saved]]
  /\ UNCHANGED <<client, ui, uiLoaded, addr, deployed, offline, booted>>

SaveEnds ==
  /\ cache' = IF Known(Saved) = {} THEN cache ELSE [cache EXCEPT ![client].whole = TRUE]
  /\ UNCHANGED <<client, ui, uiLoaded, addr, deployed, offline, booted>>

\* GetFunctionAddress: what is known, or a late search; what that finds is
\* saved, if the client can be hashed.  A function that steamclient exports
\* counts as found, and is not saved.
GetFunctionAddress(n, saves) ==
  /\ addr' = IF addr[n] = Unknown THEN [addr EXCEPT ![n] = Found(n)] ELSE addr
  /\ saves => addr' # addr
  /\ UNCHANGED <<client, ui, uiLoaded, cache, deployed, offline, booted>>

\* A function is where the hook goes, but for one of steamui that was cached
\* when the same client ran with another steamui: the file is keyed by the
\* client alone.
AddressesAreRight ==
  \A n \in Names : addr[n] \in {Unknown, Base(n)} \/ \E v \in Versions \ {ui} :
    n \in UiNames /\ addr[n] = v /\ <<client, v>> \in booted

\* A function that is still unknown after Initialize is not in the database, or
\* the database could not be asked, or was not because functions without a
\* pattern made up the number.
UnknownIsNowhere ==
  \A n \in Registered \ Known(addr) :
    \/ offline \/ n \notin Remote[client]
    \/ Cardinality(Known(addr) \cap Extra) >= Cardinality(Registered \ Known(addr))
=============================================================================
