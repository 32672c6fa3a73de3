----------------------------- MODULE StatsDonors -----------------------------
(***************************************************************************)
(* StatsClient: the account whose statistics the client is shown for an    *)
(* app that it does not own, its donor.  Donors are remembered in memory   *)
(* and in a file; an unknown one is asked for over HTTP by a thread of its *)
(* own, and a failure is remembered for ten minutes.                       *)
(*                                                                         *)
(* The value of a donor does not matter here, an app has one or has none.  *)
(* The statistics service is enabled, and the cache below its 16384        *)
(* entries, so that the file is rewritten only when it is missing.  A      *)
(* thread that rewrites it walks the cache without the mutex (a data race  *)
(* with one that inserts): it finds any of the entries.                    *)
(***************************************************************************)
EXTENDS Naturals, Sequences

CONSTANTS
  MaxJobs,   \* bound on the requests of the client
  Apps,
  NoApp,
  Overrides  \* apps with a donor of their own in the configuration

Jobs == 1 .. MaxJobs  \* in the order in which the client makes them

ASSUME DonorAssumption ==
  MaxJobs \in Nat /\ NoApp \notin Apps /\ Overrides \subseteq Apps

VARIABLES
  donors,    \* g_cache
  failed,    \* g_failures, those younger than ten minutes
  inFlight,  \* g_inFlight
  loaded,    \* g_diskLoaded
  filed,     \* does stats_steamids.bin exist?
  recorded,  \* ... and the apps in it
  fetch,     \* where the thread is that the send hook started for a job
  fetchApp   \* the app it asks for

donorVars == <<donors, failed, inFlight, loaded, filed, recorded, fetch, fetchApp>>

DonorInit ==
  /\ donors = {} /\ failed = {} /\ inFlight = {} /\ loaded = FALSE
  /\ filed \in BOOLEAN
  /\ recorded \in IF filed THEN SUBSET (Apps \ Overrides) ELSE {{}}
  /\ fetch = [j \in Jobs |-> "none"]
  /\ fetchApp = [j \in Jobs |-> NoApp]

DonorTypeOK ==
  /\ donors \subseteq Apps /\ failed \subseteq Apps /\ inFlight \subseteq Apps
  /\ loaded \in BOOLEAN /\ filed \in BOOLEAN /\ recorded \subseteq Apps
  /\ fetch \in [Jobs -> {"none", "start", "ask", "store", "append", "rewrite", "extend",
                         "failed", "end"}]
  /\ fetchApp \in [Jobs -> Apps \cup {NoApp}]

\* LoadDiskCacheLocked: the file is read once, by the first lookup in the cache.
Load ==
  /\ loaded' = TRUE
  /\ donors' = IF loaded THEN donors ELSE donors \cup recorded

\* GetCachedSteamId.
Cached(a, found) == Load /\ (found <=> a \in donors')

\* TryGetDonorSteamId: the configuration's donor, or the cached one.
TryDonor(a, found) ==
  \/ a \in Overrides /\ found /\ UNCHANGED <<donors, loaded>>
  \/ a \notin Overrides /\ Cached(a, found)

\* PrefetchDonorSteamId, once it has seen that the donor is not cached: a thread
\* asks, unless the last question failed lately or a thread for the app is under
\* way.  The donor may have come and that thread have ended since the look.
Prefetch(j, a) ==
  /\ IF a \in failed \cup inFlight
     THEN UNCHANGED <<inFlight, fetch, fetchApp>>
     ELSE /\ inFlight' = inFlight \cup {a}
          /\ fetch' = [fetch EXCEPT ![j] = "start"]
          /\ fetchApp' = [fetchApp EXCEPT ![j] = a]
  /\ UNCHANGED <<donors, failed, loaded, filed, recorded>>

FailureExpires(a) ==
  /\ a \in failed
  /\ failed' = failed \ {a}
  /\ UNCHANGED <<donors, inFlight, loaded, filed, recorded, fetch, fetchApp>>

(* The thread: GetDonorSteamId, then the end of the lambda. *)

FetchGoes(j, from, to) ==
  /\ fetch[j] = from
  /\ fetch' = [fetch EXCEPT ![j] = to]
  /\ UNCHANGED fetchApp

\* The donor may be known by now, or its last question have failed.
FetchBegins(j) ==
  \E found \in BOOLEAN :
    /\ TryDonor(fetchApp[j], found)
    /\ FetchGoes(j, "start", IF found \/ fetchApp[j] \in failed THEN "end" ELSE "ask")
    /\ UNCHANGED <<failed, inFlight, filed, recorded>>

\* Mutant of FetchAnswer: the app is free for the next thread at once.
FetchAnswerFreesApp(j) ==
  /\ \/ FetchGoes(j, "ask", "store")
     \/ FetchGoes(j, "ask", "failed")
  /\ inFlight' = inFlight \ {fetchApp[j]}
  /\ UNCHANGED <<donors, failed, loaded, filed, recorded>>

\* The answer of the service: 200 with a number, or anything else.
FetchAnswer(j) ==
  /\ \/ FetchGoes(j, "ask", "store")
     \/ FetchGoes(j, "ask", "failed")
  /\ UNCHANGED <<donors, failed, inFlight, loaded, filed, recorded>>

\* StoreSteamId, under g_mutex; the file is not read here.
FetchStore(j) ==
  /\ FetchGoes(j, "store", "append")
  /\ failed' = failed \ {fetchApp[j]}
  /\ donors' = donors \cup {fetchApp[j]}
  /\ UNCHANGED <<inFlight, loaded, filed, recorded>>

\* AppendRecord, without the mutex: does the file exist?
FetchAppend(j) ==
  /\ FetchGoes(j, "append", IF filed THEN "extend" ELSE "rewrite")
  /\ UNCHANGED <<donors, failed, inFlight, loaded, filed, recorded>>

\* A missing one, or one that another thread has made since, gets what the walk
\* finds of the cache; one that exists gets the app.  Neither is sure to open.
FetchWrite(j) ==
  /\ \/ /\ FetchGoes(j, "rewrite", "end")
        /\ \E walked \in SUBSET donors : recorded' = walked
        /\ filed' = TRUE
     \/ /\ FetchGoes(j, "extend", "end")
        /\ recorded' = recorded \cup {fetchApp[j]}
        /\ filed' = TRUE
     \/ /\ FetchGoes(j, "rewrite", "end") \/ FetchGoes(j, "extend", "end")
        /\ UNCHANGED <<filed, recorded>>
  /\ UNCHANGED <<donors, failed, inFlight, loaded>>

FetchFails(j) ==
  /\ FetchGoes(j, "failed", "end")
  /\ failed' = failed \cup {fetchApp[j]}
  /\ UNCHANGED <<donors, inFlight, loaded, filed, recorded>>

FetchEnds(j) ==
  /\ FetchGoes(j, "end", "none")
  /\ inFlight' = inFlight \ {fetchApp[j]}
  /\ UNCHANGED <<donors, failed, loaded, filed, recorded>>

Fetch(j) ==
  \/ FetchBegins(j) \/ FetchAnswer(j) \/ FetchStore(j)
  \/ FetchAppend(j) \/ FetchWrite(j) \/ FetchFails(j) \/ FetchEnds(j)

\* The service is asked by one thread at a time for an app, and never for one
\* whose donor is known: the second look and the mark in flight work together.
AsksOnceForUnknown ==
  \A i, j \in Jobs :
    fetch[i] = "ask" =>
      /\ fetchApp[i] \notin donors
      /\ (fetch[j] = "ask" /\ fetchApp[j] = fetchApp[i]) => i = j
=============================================================================
