------------------------------ MODULE NetFrames ------------------------------
(***************************************************************************)
(* The packet hooks (Hooks_NetPacket.cpp) without the manifest codes       *)
(* (ManifestCodes) and rich presence (RichPresence).  The send hook        *)
(* answers some requests itself and queues the answer, gives statistics    *)
(* requests the donor's account, and adds access tokens; the receive hook  *)
(* first hands the client the queued answers, borrowing the packet that    *)
(* just arrived, and then rewrites that packet if it answers such a        *)
(* request.  Rewritten frames live in a pool whose slots are reused in     *)
(* turn.  The client sends on several threads and receives on one.         *)
(*                                                                         *)
(* A packet is its kind and the job it belongs to: what UnpackRaw,         *)
(* ParseProtoHeader and the field readers get out of its bytes.  Packets   *)
(* are well formed and fit their slots.  A slot is taken under a mutex but *)
(* filled after it is released: threads that fill one slot at a time, or   *)
(* one that reads it meanwhile, may meet a mixture, which is taken for no  *)
(* job's frame.                                                            *)
(***************************************************************************)
EXTENDS StatsDonors, FiniteSets

CONSTANTS
  PoolSize,    \* kPacketPoolSize
  QueueLimit,  \* the 64 answers a queue may hold; legacy keys have no limit
  NotedLimit,  \* the 512 jobs g_StatsJobToAppId may hold, and one more
  Asks,        \* Asks[j]: the requests that job j may be
  Ticketed,    \* apps with a stored or forged ticket
  Tokens,      \* apps with a configured access token
  MaxReloads,  \* bound on changes of the configuration
  MaxKicks     \* bound on SharedLibraryStopPlaying packets

\* GetUserStats as a service and as a message of its own, cloud methods, the
\* legacy key, a ticket, product information, anything else.
Kinds    == {"stats", "legacyStats", "cloud", "key", "ticket", "pics", "other"}
Requests == [kind : Kinds, app : Apps]
NoAsk    == [kind |-> "none", app |-> NoApp]

NoJob  == 0
Slots  == 0 .. PoolSize - 1
NoSlot == PoolSize  \* the buffer of the packet itself

\* What a slot is filled with, for a job.
Frames  == [job : Jobs \cup {NoJob}, what : {"empty", "mixed", "request", "answer", "rewrite"}]
NoFrame == [job |-> NoJob, what |-> "empty"]
Mixture == [job |-> NoJob, what |-> "mixed"]

\* Packets from the server: an answer to a job, or a push.
Answer(j) == [kind |-> "answer", job |-> j]
Packets   == [kind : {"answer"}, job : Jobs] \cup [kind : {"push", "kick"}, job : {NoJob}]
NoPacket  == [kind |-> "none", job |-> NoJob]

Queues == {"key", "cloud", "stats"}

ASSUME FrameAssumption ==
  /\ PoolSize \in Nat \ {0, 1} /\ QueueLimit \in Nat /\ NotedLimit \in Nat
  /\ \A j \in Jobs : Asks[j] \subseteq Requests
  /\ Ticketed \subseteq Apps /\ Tokens \subseteq Apps
  /\ MaxReloads \in Nat /\ MaxKicks \in Nat

VARIABLES
  configured,  \* LuaConfig::Has
  reloads,
  next, slot,  \* g_RecvPacketPoolIdx, g_RecvPacketPool
  crossed,     \* slots given away while an earlier taker had still to fill them
  queue,       \* g_LegacyKeyQueue, g_CloudResponseQueue, g_StatsResponseQueue
  noted,       \* jobs in g_StatsJobToAppId
  ask,         \* what the client asks for with a job
  send, held,  \* where the send hook is with a job, and the slot it holds
  asked,       \* the account the server was asked for with a job
  carrier,     \* the packet in the receive hook
  data,        \* the slot its m_pubData points to, or is about to
  at, popped,  \* where the receive hook is, and the answer it delivers
  got,         \* what the client was handed for a job
  kicks,
  built, stamp, recvStamp,  \* ghosts: slots taken, when the held ones were
  torn, forgotten           \* ghosts: a frame was read overwritten; jobs whose
                            \* note was dropped or whose app was removed

configVars == <<configured, reloads>>
poolVars   == <<next, slot, crossed, built>>
sendVars   == <<ask, send, held, stamp>>
recvVars   == <<carrier, data, at, popped, recvStamp, kicks>>
vars == <<donorVars, configVars, poolVars, queue, noted, sendVars, recvVars,
          asked, got, torn, forgotten>>

Init ==
  /\ DonorInit
  /\ configured = Apps /\ reloads = 0
  /\ next = 0 /\ slot = [s \in Slots |-> NoFrame]
  /\ crossed = {} /\ built = 0
  /\ queue = [q \in Queues |-> <<>>] /\ noted = {}
  /\ ask = [j \in Jobs |-> NoAsk] /\ send = [j \in Jobs |-> "new"]
  /\ held = [j \in Jobs |-> NoSlot] /\ stamp = [j \in Jobs |-> 0]
  /\ asked = [j \in Jobs |-> "none"]
  /\ carrier = NoPacket /\ data = NoSlot /\ at = "idle" /\ popped = NoJob
  /\ recvStamp = 0 /\ kicks = 0
  /\ got = [j \in Jobs |-> "none"]
  /\ torn = FALSE /\ forgotten = {}

-----------------------------------------------------------------------------
(* The pool. *)

\* A thread has taken slot s and has still to fill it.
Filling(s) ==
  \/ \E j \in Jobs : send[j] = "fill" /\ held[j] = s
  \/ at \in {"fill", "refill"} /\ data = s

\* Mutant of AcquireSlot: the index wraps one slot early.
AcquireSlotShort ==
  /\ next' = IF next + 2 >= PoolSize THEN 0 ELSE next + 1
  /\ crossed' = IF Filling(next) THEN crossed \cup {next} ELSE crossed \ {next}
  /\ built' = built + 1
  /\ UNCHANGED slot

\* AcquirePacketSlot, under g_PoolMutex: the next slot in turn, whoever still
\* reads from it or has still to fill it.
AcquireSlot ==
  /\ next' = IF next + 1 = PoolSize THEN 0 ELSE next + 1
  /\ crossed' = IF Filling(next) THEN crossed \cup {next} ELSE crossed \ {next}
  /\ built' = built + 1
  /\ UNCHANGED slot

\* The copy into the slot, without the mutex.
FillSlot(s, f) ==
  /\ \E g \in {f} \cup (IF s \in crossed THEN {Mixture} ELSE {}) :
       slot' = [slot EXCEPT ![s] = g]
  /\ UNCHANGED <<next, crossed, built>>

\* What the original function may read out of slot s.
Readable(s) == {slot[s]} \cup (IF Filling(s) THEN {Mixture} ELSE {})

(* The send hook, BBuildAndAsyncSendFrame. *)

SendGoes(j, from, to) ==
  /\ send[j] = from
  /\ send' = [send EXCEPT ![j] = to]

\* Which branch a request takes: is its app in the configuration, or does it
\* ask for product information with a token configured?
Branch(r) ==
  CASE r.kind = "pics" -> IF r.app \in Tokens THEN "patch" ELSE "pass"
    [] r.app \notin configured \/ r.kind \in {"ticket", "other"} -> "pass"
    [] r.kind \in {"key", "cloud"} -> "answer"
    [] OTHER -> "lookup"

Send(j, r) ==
  /\ \A i \in 1 .. j - 1 : send[i] # "new"
  /\ SendGoes(j, "new", Branch(r))
  /\ ask' = [ask EXCEPT ![j] = r]
  /\ UNCHANGED <<donorVars, configVars, poolVars, queue, noted, held, stamp, recvVars,
                 asked, got, torn, forgotten>>

\* Statistics: TryGetDonorSteamId; without a donor it is fetched for the next
\* request, and this one is answered here.
LookUp(j) ==
  /\ \/ TryDonor(ask[j].app, TRUE) /\ SendGoes(j, "lookup", "patch")
     \/ TryDonor(ask[j].app, FALSE) /\ SendGoes(j, "lookup", "cold")
  /\ UNCHANGED <<failed, inFlight, filed, recorded, fetch, fetchApp, configVars, poolVars,
                 queue, noted, ask, held, stamp, recvVars, asked, got, torn, forgotten>>

WarmUp(j) ==
  /\ \/ /\ \/ Cached(ask[j].app, TRUE) /\ SendGoes(j, "cold", "answer")
           \/ Cached(ask[j].app, FALSE) /\ SendGoes(j, "cold", "claim")
        /\ UNCHANGED <<failed, inFlight, filed, recorded, fetch, fetchApp>>
     \/ SendGoes(j, "claim", "answer") /\ Prefetch(j, ask[j].app)
  /\ UNCHANGED <<configVars, poolVars, queue, noted, ask, held, stamp, recvVars,
                 asked, got, torn, forgotten>>

QueueOf(r) ==
  CASE r.kind = "key" -> "key" [] r.kind = "cloud" -> "cloud" [] OTHER -> "stats"

\* Mutant of AnswerHere: a full queue makes room for the new answer.
AnswerHereAfresh(j) ==
  LET q == QueueOf(ask[j])
      room == q = "key" \/ Len(queue[q]) < QueueLimit
  IN /\ SendGoes(j, "answer", "suppressed")
     /\ queue' = [queue EXCEPT ![q] = IF room THEN Append(@, j) ELSE <<j>>]
     /\ UNCHANGED <<donorVars, configVars, poolVars, noted, ask, held, stamp, recvVars,
                    asked, got, torn, forgotten>>

\* Mutant of AnswerHere: the request is sent on as well.
AnswerHereAndSend(j) ==
  LET q == QueueOf(ask[j])
      room == q = "key" \/ Len(queue[q]) < QueueLimit
  IN /\ SendGoes(j, "answer", "pass")
     /\ queue' = IF room THEN [queue EXCEPT ![q] = Append(@, j)] ELSE queue
     /\ UNCHANGED <<donorVars, configVars, poolVars, noted, ask, held, stamp, recvVars,
                    asked, got, torn, forgotten>>

\* The answer is queued and the request is not sent; an answer that finds its
\* queue full is dropped, and the request is not sent either.
AnswerHere(j) ==
  LET q == QueueOf(ask[j])
      room == q = "key" \/ Len(queue[q]) < QueueLimit
  IN /\ SendGoes(j, "answer", IF room THEN "suppressed" ELSE "dropped")
     /\ queue' = IF room THEN [queue EXCEPT ![q] = Append(@, j)] ELSE queue
     /\ UNCHANGED <<donorVars, configVars, poolVars, noted, ask, held, stamp, recvVars,
                    asked, got, torn, forgotten>>

\* Mutant of Patch: the job of the request is not remembered.
PatchUnnoted(j) ==
  /\ SendGoes(j, "patch", "fill")
  /\ UNCHANGED <<noted, forgotten>>
  /\ AcquireSlot
  /\ held' = [held EXCEPT ![j] = next]
  /\ stamp' = [stamp EXCEPT ![j] = built']
  /\ UNCHANGED <<donorVars, configVars, queue, ask, recvVars, asked, got, torn>>

\* RememberStatsJob (a map that has grown too large is emptied first), then
\* BuildPooledFrame takes a slot ...
Patch(j) ==
  /\ SendGoes(j, "patch", "fill")
  /\ IF ask[j].kind # "stats" THEN UNCHANGED <<noted, forgotten>>
     ELSE IF Cardinality(noted) >= NotedLimit
          THEN noted' = {j} /\ forgotten' = forgotten \cup noted
          ELSE noted' = noted \cup {j} /\ UNCHANGED forgotten
  /\ AcquireSlot
  /\ held' = [held EXCEPT ![j] = next]
  /\ stamp' = [stamp EXCEPT ![j] = built']
  /\ UNCHANGED <<donorVars, configVars, queue, ask, recvVars, asked, got, torn>>

\* ... for the request with the donor's account, or with the token.
FillRequest(j) ==
  /\ SendGoes(j, "fill", "patched")
  /\ FillSlot(held[j], [job |-> j, what |-> "request"])
  /\ UNCHANGED <<donorVars, configVars, queue, noted, ask, held, stamp, recvVars, asked, got,
                 torn, forgotten>>

\* The account the server is asked for with a request in a slot.
Account(f) == IF ask[f.job].kind = "pics" THEN "own" ELSE "donor"

\* oBBuildAndAsyncSendFrame reads the frame, whatever is in the slot by now.
SendPatched(j) ==
  /\ SendGoes(j, "patched", "sent")
  /\ \E f \in Readable(held[j]) :
       /\ asked' = IF f.what = "request" /\ asked[f.job] = "none"
                   THEN [asked EXCEPT ![f.job] = Account(f)] ELSE asked
       /\ torn' = (torn \/ f # [job |-> j, what |-> "request"])
  /\ held' = [held EXCEPT ![j] = NoSlot] /\ stamp' = [stamp EXCEPT ![j] = 0]
  /\ UNCHANGED <<donorVars, configVars, poolVars, queue, noted, ask, recvVars, got,
                 forgotten>>

\* ... or the client's own frame.
SendPlain(j) ==
  /\ SendGoes(j, "pass", "sent")
  /\ asked' = [asked EXCEPT ![j] = "own"]
  /\ UNCHANGED <<donorVars, configVars, poolVars, queue, noted, ask, held, stamp, recvVars,
                 got, torn, forgotten>>

\* A hot reload adds or removes an app.
Reload(a) ==
  /\ reloads < MaxReloads
  /\ reloads' = reloads + 1
  /\ \/ a \notin configured /\ configured' = configured \cup {a} /\ UNCHANGED forgotten
     \/ /\ a \in configured /\ configured' = configured \ {a}
        /\ forgotten' = forgotten \cup {j \in Jobs : ask[j].app = a}
  /\ UNCHANGED <<donorVars, poolVars, queue, noted, sendVars, recvVars, asked, got, torn>>

-----------------------------------------------------------------------------
(* The receive hook, RecvPkt. *)

\* A packet from the server.
Receive(p) ==
  /\ at = "idle"
  /\ p.kind = "answer" => asked[p.job] # "none" /\ got[p.job] = "none"
  /\ p.kind = "kick" => kicks < MaxKicks
  /\ kicks' = IF p.kind = "kick" THEN kicks + 1 ELSE kicks
  /\ carrier' = p /\ at' = "key"
  /\ UNCHANGED <<donorVars, configVars, poolVars, queue, noted, sendVars, data, popped,
                 recvStamp, asked, got, torn, forgotten>>

After(q) == CASE q = "key" -> "cloud" [] q = "cloud" -> "stats" [] OTHER -> "rewrite"

\* The frame that the receive hook puts into the packet's place.
RecvFrame == IF at \in {"fill", "borrowed"} THEN [job |-> popped, what |-> "answer"]
             ELSE [job |-> carrier.job, what |-> "rewrite"]

\* TryDeliverQueue: the next answer of the queue takes the packet's place ...
Borrow(q) ==
  /\ at = q
  /\ \/ /\ queue[q] = <<>>
        /\ at' = After(q)
        /\ UNCHANGED <<queue, poolVars, data, popped, recvStamp>>
     \/ /\ queue[q] # <<>>
        /\ popped' = Head(queue[q])
        /\ queue' = [queue EXCEPT ![q] = Tail(@)]
        /\ AcquireSlot
        /\ data' = next /\ recvStamp' = built' /\ at' = "fill"
  /\ UNCHANGED <<donorVars, configVars, noted, sendVars, carrier, kicks, asked, got, torn,
                 forgotten>>

\* ... once it is copied into its slot; a rewritten packet likewise.
FillRecv ==
  /\ \/ at = "fill" /\ at' = "borrowed"
     \/ at = "refill" /\ at' = "hand"
  /\ FillSlot(data, RecvFrame)
  /\ UNCHANGED <<donorVars, configVars, queue, noted, sendVars, carrier, data, popped,
                 recvStamp, kicks, asked, got, torn, forgotten>>

\* ... for one call of oRecvPkt, and gets its own buffer back.
Deliver(q) ==
  /\ at = "borrowed" /\ QueueOf(ask[popped]) = q
  /\ \E f \in Readable(data) :
       /\ got' = [got EXCEPT ![popped] = IF f = RecvFrame THEN "local" ELSE "garbled"]
       /\ torn' = (torn \/ f # RecvFrame)
  /\ data' = NoSlot /\ recvStamp' = 0
  /\ popped' = NoJob /\ at' = q
  /\ UNCHANGED <<donorVars, configVars, poolVars, queue, noted, sendVars, carrier, kicks,
                 asked, forgotten>>

\* Whether the packet is replaced: statistics of a job that is noted, or of an
\* app that is configured; a ticket that was refused, if there is one to put
\* in; the end of a family member's turn, always.
Rewritable(p) ==
  \/ p.kind = "kick"
  \/ /\ p.kind = "answer" /\ ask[p.job].app \in configured
     /\ CASE ask[p.job].kind = "stats" -> p.job \in noted
          [] ask[p.job].kind = "legacyStats" -> TRUE
          [] ask[p.job].kind = "ticket" -> ask[p.job].app \in Ticketed
          [] OTHER -> FALSE

\* HandleGetUserStatsResponse, HandleGetUserStatsLegacyResponse and the ticket
\* and family handlers.
Rewrite ==
  /\ at = "rewrite"
  /\ noted' = IF carrier.kind = "answer" /\ ask[carrier.job].kind = "stats"
              THEN noted \ {carrier.job} ELSE noted
  /\ \/ /\ Rewritable(carrier)
        /\ AcquireSlot
        /\ data' = next /\ recvStamp' = built' /\ at' = "refill"
     \/ /\ ~Rewritable(carrier) \/ (carrier.kind = "answer" /\ ask[carrier.job].kind = "ticket")
        /\ at' = "hand"
        /\ UNCHANGED <<poolVars, data, recvStamp>>
  /\ UNCHANGED <<donorVars, configVars, queue, sendVars, carrier, popped, kicks, asked, got,
                 torn, forgotten>>

\* What the client makes of the packet's own buffer ...
Plain(p) == IF ask[p.job].kind \in {"stats", "legacyStats"} THEN asked[p.job] ELSE "own"

\* ... or of the frame in a slot, when oRecvPkt gets the packet, at last.
HandOver ==
  /\ at = "hand" /\ at' = "idle"
  /\ \E f \in IF data = NoSlot THEN {NoFrame} ELSE Readable(data) :
       /\ got' = IF carrier.kind # "answer" THEN got
                 ELSE [got EXCEPT ![carrier.job] =
                         IF data = NoSlot THEN Plain(carrier)
                         ELSE IF f = RecvFrame THEN "rewritten" ELSE "garbled"]
       /\ torn' = (torn \/ (data # NoSlot /\ f # RecvFrame))
  /\ carrier' = NoPacket /\ data' = NoSlot /\ recvStamp' = 0
  /\ UNCHANGED <<donorVars, configVars, poolVars, queue, noted, sendVars, popped, kicks,
                 asked, forgotten>>

-----------------------------------------------------------------------------
SendStep(j) ==
  \/ LookUp(j) \/ WarmUp(j) \/ AnswerHere(j) \/ Patch(j) \/ FillRequest(j)
  \/ SendPatched(j) \/ SendPlain(j)

FetchStep(j) ==
  /\ Fetch(j)
  /\ UNCHANGED <<configVars, poolVars, queue, noted, sendVars, recvVars, asked, got, torn,
                 forgotten>>

Expire(a) ==
  /\ FailureExpires(a)
  /\ UNCHANGED <<configVars, poolVars, queue, noted, sendVars, recvVars, asked, got, torn,
                 forgotten>>

RecvStep == Rewrite \/ FillRecv \/ HandOver \/ \E q \in Queues : Borrow(q) \/ Deliver(q)

Next ==
  \/ \E j \in Jobs : \/ \E r \in Asks[j] : Send(j, r)
                     \/ SendStep(j) \/ FetchStep(j)
  \/ \E a \in Apps : Reload(a) \/ Expire(a)
  \/ \E p \in Packets : Receive(p)
  \/ RecvStep

Spec == Init /\ [][Next]_vars

\* The receive hook runs; the server sends packets again and again.
Fairness ==
  /\ WF_vars(RecvStep)
  /\ WF_vars(\E p \in Packets : Receive(p))

FairSpec == Spec /\ Fairness

-----------------------------------------------------------------------------
TypeOK ==
  /\ DonorTypeOK
  /\ configured \subseteq Apps /\ reloads \in 0 .. MaxReloads
  /\ next \in Slots /\ slot \in [Slots -> Frames]
  /\ crossed \subseteq Slots /\ built \in Nat
  /\ queue \in [Queues -> Seq(Jobs)] /\ noted \subseteq Jobs
  /\ ask \in [Jobs -> Requests \cup {NoAsk}]
  /\ send \in [Jobs -> {"new", "pass", "lookup", "cold", "claim", "answer", "patch", "fill",
                        "patched", "sent", "suppressed", "dropped"}]
  /\ held \in [Jobs -> Slots \cup {NoSlot}] /\ stamp \in [Jobs -> Nat]
  /\ asked \in [Jobs -> {"none", "own", "donor"}]
  /\ carrier \in Packets \cup {NoPacket} /\ data \in Slots \cup {NoSlot}
  /\ at \in Queues \cup {"idle", "fill", "borrowed", "rewrite", "refill", "hand"}
  /\ popped \in Jobs \cup {NoJob} /\ recvStamp \in Nat /\ kicks \in 0 .. MaxKicks
  /\ got \in [Jobs -> {"none", "own", "donor", "rewritten", "local", "garbled"}]
  /\ torn \in BOOLEAN /\ forgotten \subseteq Jobs

\* A frame that has been copied and is still to be read keeps its content while
\* fewer than PoolSize slots are taken after its own, by whatever threads, unless
\* the thread that took its slot before was still to fill it then (crossed): the
\* copy is not under g_PoolMutex, and a thread held up before it spoils a newer
\* frame.
FramesSurvive ==
  /\ \A j \in Jobs :
       send[j] = "patched" /\ built - stamp[j] < PoolSize /\ held[j] \notin crossed
         => Readable(held[j]) = {[job |-> j, what |-> "request"]}
  /\ at \in {"borrowed", "hand"} /\ data # NoSlot /\ built - recvStamp < PoolSize
       /\ data \notin crossed => Readable(data) = {RecvFrame}

\* The client is never handed a donor's own statistics for its own, unless the
\* note of the job was dropped, or the app left the configuration meanwhile.
DonorStatsAreStripped ==
  \A j \in Jobs : got[j] = "donor" => torn \/ j \in forgotten

\* A job gets one answer, from one side: one that is answered here is queued once,
\* is never asked of the server, not even by a frame that another thread sends
\* out of an overwritten slot, and no answer is on its way to a job that has one.
Queued(j) == \E q \in Queues : \E i \in DOMAIN queue[q] : queue[q][i] = j

OneAnswerEach ==
  /\ \A q \in Queues : \A i, k \in DOMAIN queue[q] : queue[q][i] = queue[q][k] => i = k
  /\ \A j \in Jobs :
       /\ Queued(j) \/ popped = j => asked[j] = "none" /\ got[j] = "none"
       /\ ~(Queued(j) /\ popped = j)
       /\ carrier = Answer(j) => got[j] = "none"

\* An answer that was queued, and the server's answer once it has come, reach
\* the client.
AnswersArrive ==
  \A j \in Jobs : (send[j] = "suppressed" \/ carrier = Answer(j)) ~> (got[j] # "none")
=============================================================================
