---------------------------- MODULE ManifestCodes ----------------------------
(***************************************************************************)
(* Manifest request codes (Hooks_NetPacket.cpp, ManifestClient.cpp).  When *)
(* the client asks the Steam server for the code of a manifest, the send   *)
(* hook looks for it in a cache or starts a thread that asks the upstream  *)
(* providers; the receive hook, on the one thread that reads the           *)
(* connection, puts the code into the server's answer to the same job.     *)
(*                                                                         *)
(* A manifest stands for its code too.  Which provider answers, and the    *)
(* memory of the last that did, is left out: it orders the questions only. *)
(* So are the 65536 entries a cache may have; the frames fit their slots.  *)
(***************************************************************************)
EXTENDS Naturals, Sequences

CONSTANTS
  MaxJobs,     \* bound on the requests of the client
  Wanted,      \* Wanted[j]: the manifests that request j may be for
  Manifests,
  NoCode,      \* no code; as an answer, the server's own left as it is
  MaxRestarts  \* bound on ends of the client's process

Jobs  == 1 .. MaxJobs  \* jobs in the order of their requests
NoJob == 0
Codes == Manifests \cup {NoCode}

ASSUME ManifestAssumption ==
  /\ NoCode \notin Manifests /\ "none" \notin Codes
  /\ \A j \in Jobs : Wanted[j] \subseteq Manifests
  /\ MaxJobs \in Nat /\ MaxRestarts \in Nat

VARIABLES
  positive, negative, \* g_positiveCache, g_negativeCache
  loaded,             \* g_diskLoaded
  disk,               \* manifest_request_codes.bin
  instant,            \* g_ManifestInstantCodes
  futures,            \* jobs in g_ManifestFutures; the thread is fetch[j]
  order,              \* g_ManifestJobOrder
  wants,              \* the manifest a job asks for
  send,               \* where the send hook is with a job
  fetch,              \* where the thread that fetches a job's code is
  handled, at,        \* the job the receive hook waits for, and how
  answer,             \* what the client was handed in answer to a job
  restarts,
  resolved,           \* ghost: manifests whose code a fetch has returned
  saved,              \* ghost: those whose append to the file succeeded
  known, expired      \* ghosts: jobs for a resolved manifest; jobs pruned

cacheVars  == <<positive, negative, loaded, disk>>
jobVars    == <<instant, futures, order>>
clientVars == <<wants, send>>
recvVars   == <<handled, at, answer>>
ghosts     == <<resolved, saved, known, expired>>
vars == <<cacheVars, jobVars, clientVars, fetch, recvVars, restarts, ghosts>>

Elements(s) == {s[i] : i \in DOMAIN s}
Ended(j) == fetch[j] \in {"none", "found", "failed"}

Init ==
  /\ positive = {} /\ negative = {} /\ loaded = FALSE /\ disk = {}
  /\ instant = [j \in Jobs |-> NoCode] /\ futures = {} /\ order = <<>>
  /\ wants = [j \in Jobs |-> NoCode]
  /\ send = [j \in Jobs |-> "new"]
  /\ fetch = [j \in Jobs |-> "none"]
  /\ handled = NoJob /\ at = "idle"
  /\ answer = [j \in Jobs |-> "none"]
  /\ restarts = 0
  /\ resolved = {} /\ saved = {} /\ known = {} /\ expired = {}

-----------------------------------------------------------------------------
(* ManifestClient: each operation is one section under g_cacheMutex. *)

\* LoadDiskCacheLocked: the file is read once, by the first lookup.
Load ==
  /\ loaded' = TRUE
  /\ positive' = IF loaded THEN positive ELSE positive \cup disk

\* IsNegativeCached: an entry holds for ten minutes, that is, as long as it
\* does not expire; one that has is erased.
NegativeHolds(m) == m \in negative /\ UNCHANGED negative
NegativeIsOver(m) == negative' = negative \ {m}

(* The send hook, BBuildAndAsyncSendFrame. *)

\* Mutant of Request: a failure that is remembered comes before the cache.
RequestUnlessFailed(j, m) ==
  /\ send[j] = "new" /\ \A i \in 1 .. j - 1 : send[i] # "new"
  /\ wants' = [wants EXCEPT ![j] = m]
  /\ Load
  /\ \/ NegativeHolds(m) /\ send' = [send EXCEPT ![j] = "sent"]
     \/ /\ NegativeIsOver(m)
        /\ send' = [send EXCEPT ![j] = IF m \in positive' THEN "cached" ELSE "missed"]
  /\ known' = IF m \in resolved THEN known \cup {j} ELSE known
  /\ UNCHANGED <<disk, jobVars, fetch, recvVars, restarts, resolved, saved, expired>>

\* A request is intercepted: GetCachedRequestCode.
Request(j, m) ==
  /\ send[j] = "new" /\ \A i \in 1 .. j - 1 : send[i] # "new"
  /\ wants' = [wants EXCEPT ![j] = m]
  /\ Load
  /\ send' = [send EXCEPT ![j] = IF m \in positive' THEN "cached" ELSE "missed"]
  /\ known' = IF m \in resolved THEN known \cup {j} ELSE known
  /\ UNCHANGED <<negative, disk, jobVars, fetch, recvVars, restarts, resolved, saved, expired>>

\* Not cached: IsNegativeCached, and std::async unless the manifest failed lately.
CheckNegative(j) ==
  /\ send[j] = "missed"
  /\ \/ /\ NegativeHolds(wants[j])
        /\ send' = [send EXCEPT ![j] = "sent"]
        /\ UNCHANGED fetch
     \/ /\ NegativeIsOver(wants[j])
        /\ send' = [send EXCEPT ![j] = "launched"]
        /\ fetch' = [fetch EXCEPT ![j] = "cache"]
  /\ UNCHANGED <<positive, loaded, disk, jobVars, wants, recvVars, restarts, ghosts>>

\* PruneStaleManifestJobs: the oldest k jobs of s are 120 s old.  A fetch ends
\* sooner (three providers, 6 s each), so that no future is waited for here.
Stale(s, k) == {s[i] : i \in 1 .. k}
Prunable(s, k) == \A j \in Stale(s, k) : Ended(j)

\* Mutant of Register: a job answered from the cache is not noted.
RegisterFutureOnly(j) ==
  /\ send[j] \in {"cached", "launched"}
  /\ \E k \in 0 .. Len(order) :
       /\ Prunable(order, k)
       /\ order' = IF send[j] = "cached" THEN SubSeq(order, k + 1, Len(order))
                   ELSE Append(SubSeq(order, k + 1, Len(order)), j)
       /\ instant' = [i \in Jobs |-> IF i = j /\ send[j] = "cached" THEN wants[j]
                                     ELSE IF i \in Stale(order, k) THEN NoCode ELSE instant[i]]
       /\ futures' = (futures \cup (IF send[j] = "launched" THEN {j} ELSE {})) \ Stale(order, k)
       /\ expired' = expired \cup {i \in Stale(order, k) : answer[i] = "none"}
  /\ send' = [send EXCEPT ![j] = "sent"]
  /\ UNCHANGED <<cacheVars, wants, fetch, recvVars, restarts, resolved, saved, known>>

\* Under g_ManifestMutex the job is noted, with its code or its future, and
\* stale ones are dropped; then the request is sent on.
Register(j) ==
  /\ send[j] \in {"cached", "launched"}
  /\ \E k \in 0 .. Len(order) :
       /\ Prunable(order, k)
       /\ order' = Append(SubSeq(order, k + 1, Len(order)), j)
       /\ instant' = [i \in Jobs |-> IF i = j /\ send[j] = "cached" THEN wants[j]
                                     ELSE IF i \in Stale(order, k) THEN NoCode ELSE instant[i]]
       /\ futures' = (futures \cup (IF send[j] = "launched" THEN {j} ELSE {})) \ Stale(order, k)
       /\ expired' = expired \cup {i \in Stale(order, k) : answer[i] = "none"}
  /\ send' = [send EXCEPT ![j] = "sent"]
  /\ UNCHANGED <<cacheVars, wants, fetch, recvVars, restarts, resolved, saved, known>>

(* The thread that fetches: FetchManifestRequestCode. *)

FetchGoes(j, place) == fetch' = [fetch EXCEPT ![j] = place]

\* It returns the code, which from now on is known.
Found(j) == FetchGoes(j, "found") /\ resolved' = resolved \cup {wants[j]}

FetchLooksUp(j) ==
  /\ fetch[j] = "cache"
  /\ Load
  /\ IF wants[j] \in positive' THEN Found(j) ELSE FetchGoes(j, "negative") /\ UNCHANGED resolved
  /\ UNCHANGED <<negative, disk, jobVars, clientVars, recvVars, restarts, saved, known, expired>>

FetchChecksNegative(j) ==
  /\ fetch[j] = "negative"
  /\ \/ NegativeHolds(wants[j]) /\ FetchGoes(j, "failed")
     \/ NegativeIsOver(wants[j]) /\ FetchGoes(j, "ask")
  /\ UNCHANGED <<positive, loaded, disk, jobVars, clientVars, recvVars, restarts, ghosts>>

\* Mutant of StoreRequestCode: a code of 0 is stored as well.
StoreWithoutTest(j) ==
  /\ fetch[j] = "ask"
  /\ negative' = negative \ {wants[j]}
  /\ \E code \in {wants[j], NoCode} : positive' = positive \cup {code}
  /\ FetchGoes(j, "append")
  /\ UNCHANGED <<loaded, disk, jobVars, clientVars, recvVars, restarts, ghosts>>

\* A provider answers, and the code is stored.
StoreRequestCode(j) ==
  /\ fetch[j] = "ask"
  /\ negative' = negative \ {wants[j]}
  /\ positive' = positive \cup {wants[j]}
  /\ FetchGoes(j, "append")
  /\ UNCHANGED <<loaded, disk, jobVars, clientVars, recvVars, restarts, ghosts>>

\* Mutant of MarkRequestCodeFailed: the thread does not give up.
MarkAndRetry(j) ==
  /\ fetch[j] = "ask"
  /\ negative' = negative \cup {wants[j]}
  /\ FetchGoes(j, "cache")
  /\ UNCHANGED <<positive, loaded, disk, jobVars, clientVars, recvVars, restarts, ghosts>>

\* None answers within its 6 s.
MarkRequestCodeFailed(j) ==
  /\ fetch[j] = "ask"
  /\ negative' = negative \cup {wants[j]}
  /\ FetchGoes(j, "failed")
  /\ UNCHANGED <<positive, loaded, disk, jobVars, clientVars, recvVars, restarts, ghosts>>

\* A missing file is written anew from the cache, others are appended to; an
\* error is swallowed.
AppendDiskCache(j) ==
  /\ fetch[j] = "append"
  /\ \/ /\ disk' = IF disk = {} THEN positive ELSE disk \cup {wants[j]}
        /\ saved' = saved \cup {wants[j]}
     \/ UNCHANGED <<disk, saved>>
  /\ Found(j)
  /\ UNCHANGED <<positive, negative, loaded, jobVars, clientVars, recvVars, restarts, known,
                 expired>>

FetchStep(j) ==
  \/ FetchLooksUp(j) \/ FetchChecksNegative(j)
  \/ StoreRequestCode(j) \/ AppendDiskCache(j) \/ MarkRequestCodeFailed(j)

(* The receive hook, RecvPkt and HandleManifestResponse. *)

Deliver(j, code) == answer' = [answer EXCEPT ![j] = code]
Returns == handled' = NoJob /\ at' = "idle"

\* The server's answer arrives, if it is not lost.  Under g_ManifestMutex the
\* job's code or, without one, its future is taken out.
Receive(j) ==
  /\ at = "idle"
  /\ send[j] = "sent" /\ answer[j] = "none"
  /\ instant' = [instant EXCEPT ![j] = NoCode]
  /\ IF instant[j] = NoCode /\ j \in futures
       THEN /\ futures' = futures \ {j}
            /\ handled' = j /\ at' = "wait"
            /\ UNCHANGED answer
       ELSE Deliver(j, instant[j]) /\ UNCHANGED <<futures, handled, at>>
  /\ UNCHANGED <<cacheVars, order, clientVars, fetch, restarts, ghosts>>

\* The future is ready within kManifestRecvWait ...
WaitEnds ==
  /\ at = "wait"
  /\ Ended(handled)
  /\ Deliver(handled, IF fetch[handled] = "found" THEN wants[handled] ELSE NoCode)
  /\ Returns
  /\ UNCHANGED <<cacheVars, jobVars, clientVars, fetch, restarts, ghosts>>

\* ... or it is not, and the hook returns: the local future, the last that
\* refers to the state std::async made, is destroyed ...
WaitTimesOut ==
  /\ at = "wait"
  /\ ~Ended(handled)
  /\ at' = "drop"
  /\ UNCHANGED <<cacheVars, jobVars, clientVars, fetch, handled, answer, restarts, ghosts>>

\* ... which joins the thread.  The answer is left as it is.
DropFuture ==
  /\ at = "drop"
  /\ Ended(handled)
  /\ Deliver(handled, NoCode)
  /\ Returns
  /\ UNCHANGED <<cacheVars, jobVars, clientVars, fetch, restarts, ghosts>>

RecvStep == WaitEnds \/ WaitTimesOut \/ DropFuture

\* The client's process ends and starts again; only the file is left.
Restart ==
  /\ restarts < MaxRestarts
  /\ restarts' = restarts + 1
  /\ positive' = {} /\ negative' = {} /\ loaded' = FALSE
  /\ instant' = [j \in Jobs |-> NoCode] /\ futures' = {} /\ order' = <<>>
  /\ wants' = [j \in Jobs |-> NoCode]
  /\ send' = [j \in Jobs |-> IF send[j] = "new" THEN "new" ELSE "gone"]
  /\ fetch' = [j \in Jobs |-> "none"]
  /\ handled' = NoJob /\ at' = "idle"
  /\ answer' = [j \in Jobs |-> "none"]
  /\ resolved' = resolved \cap saved
  /\ known' = {} /\ expired' = {}
  /\ UNCHANGED <<disk, saved>>

SendStep(j) == CheckNegative(j) \/ Register(j)

Next ==
  \/ \E j \in Jobs :
       \/ \E m \in Wanted[j] : Request(j, m)
       \/ SendStep(j) \/ FetchStep(j) \/ Receive(j)
  \/ RecvStep
  \/ Restart

Spec == Init /\ [][Next]_vars

\* The hooks and the threads they start run; client, server and user owe nothing.
FairSpec ==
  /\ Spec
  /\ \A j \in Jobs : WF_vars(SendStep(j)) /\ WF_vars(FetchStep(j))
  /\ WF_vars(RecvStep)

-----------------------------------------------------------------------------
TypeOK ==
  /\ positive \subseteq Manifests /\ negative \subseteq Manifests /\ disk \subseteq Manifests
  /\ loaded \in BOOLEAN
  /\ instant \in [Jobs -> Codes] /\ futures \subseteq Jobs /\ order \in Seq(Jobs)
  /\ wants \in [Jobs -> Codes]
  /\ send \in [Jobs -> {"new", "cached", "missed", "launched", "sent", "gone"}]
  /\ fetch \in [Jobs -> {"none", "cache", "negative", "ask", "append", "found", "failed"}]
  /\ handled \in Jobs \cup {NoJob}
  /\ at \in {"idle", "wait", "drop"}
  /\ at # "idle" => handled \in Jobs
  /\ answer \in [Jobs -> Codes \cup {"none"}]
  /\ restarts \in 0 .. MaxRestarts
  /\ resolved \subseteq Manifests /\ saved \subseteq Manifests
  /\ known \subseteq Jobs /\ expired \subseteq Jobs

\* "Steam jobs that never receive a response would otherwise grow both maps
\* without bound": whatever is kept for a job, the pruning will find.
JobsAreTracked ==
  {j \in Jobs : instant[j] # NoCode} \cup futures \subseteq Elements(order)

\* "Guaranteeing convergence on the next attempt": once a fetch has returned
\* the code of a manifest, each later request for it is answered with that code,
\* after a restart too if it could be written to the file, and even if a
\* concurrent fetch of the same manifest failed; unless the server took more
\* than 120 s.  And no request is ever answered with the code of another manifest.
AnswersConverge ==
  \A j \in Jobs :
    /\ answer[j] \in Manifests => answer[j] = wants[j]
    /\ (answer[j] = NoCode /\ j \in known) => j \in expired

\* The thread that reads the connection always gets back to it.
ReceiveReturns == at # "idle" ~> at = "idle"

\* ROADMAP.md, of RecvPkt: bounded wait of 2.5 s.  When that time is over the hook
\* waits for nothing else.
ReceiveIsBounded == at = "drop" => Ended(handled)

\* To the client the hooks, the fetching threads, the cache and its file are one
\* service: a request for a code that is stored when it is sent is answered with
\* it, each request once, and what is in the file survives the process.
Owed == {j \in Jobs : send[j] = "cached" \/ instant[j] # NoCode}
Service == INSTANCE CodeService WITH
             stored <- positive \cup disk,
             kept   <- disk,
             owed   <- Owed
ImplementsService == Service!Spec
=============================================================================
