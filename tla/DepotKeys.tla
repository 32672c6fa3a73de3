------------------------------ MODULE DepotKeys ------------------------------
(***************************************************************************)
(* DepotKeyStore: the depots whose keys a manager process knows.  They     *)
(* come from a published database, by way of a cache file that all manager *)
(* processes share, and from the Steam client's config.vdf.  A process     *)
(* that finds a database at its start looks for a newer one in a thread of *)
(* its own; one that finds none waits for the download.                    *)
(*                                                                         *)
(* A database is its number; only which depots it has keys for matters.    *)
(***************************************************************************)
EXTENDS Naturals, FiniteSets

CONSTANTS
  Procs,     \* manager processes: the daemon, a command line
  MaxDb,     \* bound on the published databases
  Content,   \* Content[d]: the depots of database d
  Sibling,   \* the database next to a process's executable or in its
             \* working directory, or none
  Local,     \* the depots of config.vdf
  MaxStarts  \* bound on the starts of processes

Dbs  == 1 .. MaxDb
NoDb == 0

ASSUME DepotAssumption ==
  /\ MaxDb \in Nat \ {0} /\ MaxStarts \in Nat /\ Sibling \in [Procs -> Dbs \cup {NoDb}]
  /\ DOMAIN Content = Dbs /\ \A d \in Dbs : IsFiniteSet(Content[d])
  /\ IsFiniteSet(Local)

VARIABLES
  published,  \* the newest database
  cacheDb, cacheWhole,  \* depotkeys.bin, and whether it has all its records
  phase,      \* where a process is with Initialize
  records,    \* g_records
  localCount, \* the size of the database it found
  update,     \* where the thread is
  fetched,    \* the database it has
  starts

depotVars == <<published, cacheDb, cacheWhole, phase, records, localCount, update, fetched,
               starts>>

DepotInit ==
  /\ published = 1 /\ cacheDb = NoDb /\ cacheWhole = TRUE
  /\ phase = [p \in Procs |-> "off"] /\ records = [p \in Procs |-> {}]
  /\ localCount = [p \in Procs |-> 0] /\ update = [p \in Procs |-> "none"]
  /\ fetched = [p \in Procs |-> NoDb] /\ starts = 0

DepotTypeOK ==
  /\ published \in Dbs /\ cacheDb \in Dbs \cup {NoDb} /\ cacheWhole \in BOOLEAN
  /\ phase \in [Procs -> {"off", "start", "cold", "writing", "import", "up"}]
  /\ localCount \in [Procs -> Nat] /\ fetched \in [Procs -> Dbs \cup {NoDb}]
  /\ update \in [Procs -> {"none", "fetch", "apply", "writing"}]
  /\ starts \in 0 .. MaxStarts

Publish ==
  /\ published < MaxDb /\ published' = published + 1
  /\ UNCHANGED <<cacheDb, cacheWhole, phase, records, localCount, update, fetched, starts>>

StartProcess(p) ==
  /\ phase[p] = "off" /\ starts < MaxStarts
  /\ starts' = starts + 1 /\ phase' = [phase EXCEPT ![p] = "start"]
  /\ records' = [records EXCEPT ![p] = {}]
  /\ UNCHANGED <<published, cacheDb, cacheWhole, localCount, update, fetched>>

\* The process ends, with whatever it is at.
EndProcess(p) ==
  /\ phase[p] # "off" /\ phase' = [phase EXCEPT ![p] = "off"]
  /\ records' = [records EXCEPT ![p] = {}] /\ localCount' = [localCount EXCEPT ![p] = 0]
  /\ update' = [update EXCEPT ![p] = "none"] /\ fetched' = [fetched EXCEPT ![p] = NoDb]
  /\ UNCHANGED <<published, cacheDb, cacheWhole, starts>>

\* Mutant of ParseBinaryContent: the size is not compared with the count.
ParseBinaryAnySize(d, whole) ==
  IF d = NoDb THEN {} ELSE IF whole THEN Content[d] ELSE {CHOOSE n \in Content[d] : TRUE}

\* ParseBinaryContent: all records of a file that has as many as it says.
ParseBinaryContent(d, whole) == IF d = NoDb \/ ~whole THEN {} ELSE Content[d]

\* ImportKeysFromConfigVdf: depots that have no record yet.
ImportKeysFromConfigVdf(keys) == keys \cup Local

\* Initialize, under g_storeMutex: the first database there is, the cache's or
\* another's; the thread starts.
Initialize(p) ==
  LET cached == ParseBinaryContent(cacheDb, cacheWhole)
      local  == IF cached # {} THEN cached ELSE ParseBinaryContent(Sibling[p], TRUE)
  IN /\ phase[p] = "start"
     /\ localCount' = [localCount EXCEPT ![p] = Cardinality(local)]
     /\ IF local # {}
        THEN /\ records' = [records EXCEPT ![p] = ImportKeysFromConfigVdf(local)]
             /\ phase' = [phase EXCEPT ![p] = "up"] /\ update' = [update EXCEPT ![p] = "fetch"]
        ELSE phase' = [phase EXCEPT ![p] = "cold"] /\ UNCHANGED <<records, update>>
     /\ UNCHANGED <<published, cacheDb, cacheWhole, fetched, starts>>

\* The cache file is truncated, and is whole when the stream is closed, unless
\* the write has failed, which nobody looks at.  A database is one write: those
\* of two processes do not mix within it.
WriteBegins(d) == cacheDb' = d /\ cacheWhole' = FALSE
WriteEnds(d)   == \/ cacheDb' = d /\ cacheWhole' = TRUE
                  \/ UNCHANGED <<cacheDb, cacheWhole>>

\* Without a database, the first mirror's, if one answers; the cache file may
\* not open.
ColdStart(p) ==
  /\ \/ /\ phase[p] = "cold"
        /\ \/ /\ records' = [records EXCEPT ![p] = Content[published]]
              /\ fetched' = [fetched EXCEPT ![p] = published]
              /\ WriteBegins(published) /\ phase' = [phase EXCEPT ![p] = "writing"]
           \/ /\ records' \in {records, [records EXCEPT ![p] = Content[published]]}
              /\ phase' = [phase EXCEPT ![p] = "import"]
              /\ UNCHANGED <<fetched, cacheDb, cacheWhole>>
     \/ /\ phase[p] = "writing" /\ phase' = [phase EXCEPT ![p] = "import"]
        /\ WriteEnds(fetched[p]) /\ fetched' = [fetched EXCEPT ![p] = NoDb] /\ UNCHANGED records
     \/ /\ phase[p] = "import" /\ phase' = [phase EXCEPT ![p] = "up"]
        /\ records' = [records EXCEPT ![p] = ImportKeysFromConfigVdf(@)]
        /\ UNCHANGED <<fetched, cacheDb, cacheWhole>>
  /\ UNCHANGED <<published, localCount, update, starts>>

(* TriggerAsyncBackgroundUpdate. *)

UpdateGoes(p, from, to) == update[p] = from /\ update' = [update EXCEPT ![p] = to]

\* A mirror answers with a database of more records, or that is all.
Fetch(p) ==
  /\ \/ /\ Cardinality(Content[published]) > localCount[p]
        /\ UpdateGoes(p, "fetch", "apply") /\ fetched' = [fetched EXCEPT ![p] = published]
     \/ UpdateGoes(p, "fetch", "none") /\ UNCHANGED fetched
  /\ UNCHANGED <<published, cacheDb, cacheWhole, phase, records, localCount, starts>>

\* Under g_storeMutex, which is held until the file is written.
Apply(p) ==
  /\ \/ /\ \/ UpdateGoes(p, "apply", "writing") /\ WriteBegins(fetched[p])
           \/ UpdateGoes(p, "apply", "none") /\ UNCHANGED <<cacheDb, cacheWhole>>
        /\ records' = [records EXCEPT ![p] = ImportKeysFromConfigVdf(Content[fetched[p]])]
        /\ UNCHANGED fetched
     \/ /\ UpdateGoes(p, "writing", "none") /\ WriteEnds(fetched[p])
        /\ fetched' = [fetched EXCEPT ![p] = NoDb] /\ UNCHANGED records
  /\ UNCHANGED <<published, phase, localCount, starts>>

\* FindKeysForDepotIds, which waits for the mutex.
MayLookUp(p) == phase[p] = "up" /\ update[p] # "writing"
FindKeysForDepotIds(p, depots) == depots \cap records[p]

DepotStep ==
  \/ Publish
  \/ \E p \in Procs : StartProcess(p) \/ Initialize(p) \/ ColdStart(p) \/ Fetch(p) \/ Apply(p)

\* A process that is up knows the keys of config.vdf and a database in full, or
\* no database at all if it was never online, whatever was in the cache file.
KeysAreWhole ==
  \A p \in Procs : phase[p] = "up" =>
    \/ records[p] = Local
    \/ \E d \in Dbs : records[p] = Content[d] \cup Local
=============================================================================
