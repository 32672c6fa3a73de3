--------------------------- MODULE NetFramesProofs ---------------------------
(***************************************************************************)
(* Proofs about NetFrames, for any number of requests, apps and slots: a   *)
(* frame is read intact while fewer than PoolSize slots are taken after    *)
(* its own and no thread still fills that one, the donor of an app is      *)
(* asked for by one thread at a time, the client is not handed a donor's   *)
(* statistics for its own, and a job gets one answer.                      *)
(***************************************************************************)
EXTENDS NetFrames, TLAPS

-----------------------------------------------------------------------------
(* The inductive invariant. *)

\* Who takes slots: a sender for its job, and the receive hook, which stands for
\* NoJob.
Holders == Jobs \cup {NoJob}

Holds(i) == IF i = NoJob THEN data # NoSlot ELSE send[i] \in {"fill", "patched"}
Fills(i) == IF i = NoJob THEN at \in {"fill", "refill"} /\ data # NoSlot
            ELSE send[i] = "fill"
Place(i) == IF i = NoJob THEN data ELSE held[i]
Since(i) == IF i = NoJob THEN recvStamp ELSE stamp[i]
Frame(i) == IF i = NoJob THEN RecvFrame ELSE [job |-> i, what |-> "request"]

\* Slot s was the t-th to be taken: while fewer than PoolSize have followed, the
\* index is that many slots further, round the pool, and has not come back to s.
Ring(s, t) ==
  /\ s \in Slots /\ t \in Nat /\ t <= built
  /\ built - t < PoolSize =>
       \/ next = s + 1 + (built - t)
       \/ next = s + 1 + (built - t) - PoolSize

Clean(i) == built - Since(i) < PoolSize /\ Place(i) \notin crossed

Alone(i) == \A k \in Holders : k # i /\ Fills(k) => Place(k) # Place(i)

FramesHold ==
  \A i \in Holders : Holds(i) =>
    /\ Ring(Place(i), Since(i))
    /\ Clean(i) => Alone(i) /\ (Fills(i) \/ slot[Place(i)] = Frame(i))

ReceiverHolds == data # NoSlot => at \in {"fill", "borrowed", "refill", "hand"}

\* The mark in flight is a lock on the app, and the cache file has been read
\* before anyone takes it.
DonorsConsistent ==
  /\ \A j \in Jobs :
       /\ send[j] = "claim" => loaded
       /\ fetch[j] # "none" => loaded /\ fetchApp[j] \in inFlight
       /\ fetch[j] \in {"ask", "store"} => fetchApp[j] \notin donors
  /\ \A i, j \in Jobs :
       (fetch[i] # "none" /\ fetch[j] # "none" /\ fetchApp[i] = fetchApp[j]) => i = j

RequestsAreReal == \A j \in Jobs : send[j] # "new" => ask[j] \in Requests

\* Only jobs answered here are queued.
QueuedAreSuppressed ==
  /\ \A q \in Queues : \A i \in 1 .. Len(queue[q]) : send[queue[q][i]] = "suppressed"
  /\ at \in {"fill", "borrowed"} => popped \in Jobs /\ send[popped] = "suppressed"

StatsKinds == {"stats", "legacyStats"}
Ahead      == {"lookup", "cold", "claim", "patch", "fill", "patched"}

Carried(j) == carrier.kind = "answer" /\ carrier.job = j

\* What the hooks know of job j while no frame was read overwritten: which
\* requests are sent with a donor's account, and that their jobs are noted until
\* the response is rewritten.
Remembered(j) ==
  /\ asked[j] # "none" => send[j] = "sent"
  /\ send[j] \in {"lookup", "cold", "claim"} => ask[j].kind \in StatsKinds
  /\ send[j] \in {"patch", "fill", "patched"} => ask[j].kind \in StatsKinds \cup {"pics"}
  /\ asked[j] = "donor" => ask[j].kind \in StatsKinds
  /\ (send[j] \in Ahead \/ asked[j] = "donor") /\ ask[j].kind \in StatsKinds =>
       ask[j].app \in configured \/ j \in forgotten
  /\ send[j] \in {"fill", "patched"} /\ ask[j].kind = "stats" => j \in noted \cup forgotten
  /\ asked[j] = "donor" /\ ask[j].kind = "stats" =>
       \/ j \in noted \cup forgotten
       \/ got[j] # "none"
       \/ at \in {"refill", "hand"} /\ Carried(j)
  /\ Carried(j) => asked[j] # "none" /\ got[j] = "none"
  /\ at \in {"refill", "hand"} /\ Carried(j) /\ data = NoSlot /\ asked[j] = "donor" => j \in forgotten
  /\ got[j] = "donor" => j \in forgotten

JobsRemembered == ~torn => \A j \in Jobs : Remembered(j)

IInv ==
  /\ TypeOK
  /\ RequestsAreReal
  /\ FramesHold
  /\ ReceiverHolds
  /\ DonorsConsistent
  /\ QueuedAreSuppressed
  /\ JobsRemembered

-----------------------------------------------------------------------------
(* The pool. *)

\* A slot is being filled if one of its holders is filling it.
LEMMA FillersHold ==
  ASSUME NEW s \in Slots
  PROVE  Filling(s) <=> \E k \in Holders : Fills(k) /\ Place(k) = s
<1>1. \A j \in Jobs : j # NoJob
  BY DEF Jobs, NoJob
<1>2. s # NoSlot
  BY FrameAssumption DEF Slots, NoSlot
<1> QED
  BY <1>1, <1>2 DEF Filling, Holders, Fills, Place

\* Taking a slot moves the index on, and does not reach the slots taken less
\* than PoolSize - 1 before.
LEMMA AcquireKeeps ==
  ASSUME TypeOK, AcquireSlot
  PROVE  /\ next' \in Slots /\ slot' = slot /\ built' = built + 1 /\ crossed' \subseteq Slots
         /\ \A s, t : s = next /\ t = built' => Ring(s, t)'
         /\ \A s, t : Ring(s, t) =>
              Ring(s, t)' /\ (built' - t < PoolSize => s # next /\ built - t < PoolSize)
<1> USE DEF AcquireSlot
<1>1. /\ PoolSize \in Nat /\ PoolSize > 1 /\ next \in 0 .. PoolSize - 1
      /\ built \in Nat /\ built' = built + 1
  BY FrameAssumption DEF TypeOK, Slots
<1>2. next' \in 0 .. PoolSize - 1 /\ (next' = next + 1 \/ next' = next + 1 - PoolSize)
  BY <1>1
<1>3. slot' = slot /\ crossed' \subseteq Slots
  BY DEF TypeOK
<1>4. ASSUME NEW s, NEW t, s = next, t = built'
      PROVE  Ring(s, t)'
  <2>1. s \in Slots
    BY <1>1, <1>4 DEF Slots
  <2>2. built' - t = 0 /\ t <= built' /\ t \in Nat
    BY <1>1, <1>4
  <2> QED
    BY <1>1, <1>2, <1>4, <2>1, <2>2 DEF Ring
<1>5. ASSUME NEW s, NEW t, Ring(s, t)
      PROVE  /\ Ring(s, t)'
             /\ built' - t < PoolSize => s # next /\ built - t < PoolSize
  <2>1. s \in 0 .. PoolSize - 1 /\ t \in Nat /\ t <= built
    BY <1>5 DEF Ring, Slots
  <2>2. t <= built'
    BY <1>1, <2>1
  <2>3. ASSUME built' - t < PoolSize
        PROVE  /\ next # s /\ built - t < PoolSize
               /\ \/ next' = s + 1 + (built' - t)
                  \/ next' = s + 1 + (built' - t) - PoolSize
    <3>1. built - t < PoolSize /\ built' - t = (built - t) + 1 /\ built - t \in Nat
      BY <1>1, <2>1, <2>3
    <3>2. next = s + 1 + (built - t) \/ next = s + 1 + (built - t) - PoolSize
      BY <1>5, <3>1 DEF Ring
    <3> QED
      BY <1>1, <1>2, <2>1, <2>3, <3>1, <3>2
  <2> QED
    BY <2>1, <2>2, <2>3 DEF Ring, Slots
<1> QED
  BY <1>1, <1>2, <1>3, <1>4, <1>5 DEF Slots

-----------------------------------------------------------------------------
(* The invariant holds at first. *)

LEMMA InitIInv == Init => IInv
<1> SUFFICES ASSUME Init PROVE IInv
  OBVIOUS
<1> USE FrameAssumption, DonorAssumption DEF Init, DonorInit
<1>1. TypeOK
  <2>1. DonorTypeOK
    BY DEF DonorTypeOK
  <2>2. NoFrame \in Frames /\ 0 \in Slots /\ NoSlot \notin Slots
    BY DEF NoFrame, Frames, Slots, NoSlot
  <2>3. queue \in [Queues -> Seq(Jobs)]
    OBVIOUS
  <2>4. slot \in [Slots -> Frames] /\ next \in Slots /\ held \in [Jobs -> Slots \cup {NoSlot}]
    BY <2>2
  <2>5. /\ reloads \in 0 .. MaxReloads /\ kicks \in 0 .. MaxKicks
        /\ built \in Nat /\ recvStamp \in Nat /\ stamp \in [Jobs -> Nat]
    OBVIOUS
  <2>6. /\ ask \in [Jobs -> Requests \cup {NoAsk}] /\ asked \in [Jobs -> {"none", "own", "donor"}]
        /\ send \in [Jobs -> {"new", "pass", "lookup", "cold", "claim", "answer", "patch", "fill",
                              "patched", "sent", "suppressed", "dropped"}]
        /\ got \in [Jobs -> {"none", "own", "donor", "rewritten", "local", "garbled"}]
    OBVIOUS
  <2> QED
    BY <2>1, <2>3, <2>4, <2>5, <2>6 DEF TypeOK, NoJob
<1>2. RequestsAreReal /\ FramesHold /\ ReceiverHolds
  BY DEF RequestsAreReal, FramesHold, Holds, Holders, ReceiverHolds
<1>3. DonorsConsistent /\ QueuedAreSuppressed
  BY DEF DonorsConsistent, QueuedAreSuppressed, Queues
<1>4. JobsRemembered
  BY DEF JobsRemembered, Remembered, Carried, NoPacket, NoAsk, StatsKinds, Ahead
<1> QED
  BY <1>1, <1>2, <1>3, <1>4 DEF IInv

-----------------------------------------------------------------------------
(* Every step keeps the types. *)

LEMMA SendTypes ==
  ASSUME TypeOK, NEW j \in Jobs, NEW r \in Asks[j], Send(j, r)
  PROVE  TypeOK'
<1>1. r \in Requests
  BY FrameAssumption
<1>2. Branch(r) \in {"pass", "answer", "lookup", "patch"}
  BY DEF Branch
<1> QED
  BY <1>1, <1>2 DEF TypeOK, Send, SendGoes, donorVars, configVars, poolVars, recvVars, DonorTypeOK

LEMMA PrefetchTypes ==
  ASSUME DonorTypeOK, NEW j \in Jobs, NEW x \in Apps, Prefetch(j, x)
  PROVE  DonorTypeOK'
<1>1. CASE x \in failed \cup inFlight
  BY <1>1 DEF Prefetch, DonorTypeOK
<1>2. CASE x \notin failed \cup inFlight
  <2>1. /\ inFlight' = inFlight \cup {x} /\ fetch' = [fetch EXCEPT ![j] = "start"]
        /\ fetchApp' = [fetchApp EXCEPT ![j] = x]
        /\ UNCHANGED <<donors, failed, loaded, filed, recorded>>
    BY <1>2 DEF Prefetch
  <2> QED
    BY <2>1 DEF DonorTypeOK
<1> QED
  BY <1>1, <1>2

LEMMA LookUpTypes ==
  ASSUME TypeOK, RequestsAreReal, NEW j \in Jobs, LookUp(j) \/ WarmUp(j)
  PROVE  TypeOK'
<1> USE DEF TypeOK, SendGoes, configVars, poolVars, recvVars
<1>1. CASE LookUp(j)
  <2>1. DonorTypeOK'
    BY <1>1 DEF LookUp, TryDonor, Cached, Load, DonorTypeOK
  <2> QED
    BY <1>1, <2>1 DEF LookUp
<1>2. CASE WarmUp(j)
  <2>1. CASE SendGoes(j, "claim", "answer") /\ Prefetch(j, ask[j].app)
    <3>1. ask[j].app \in Apps
      BY <2>1 DEF RequestsAreReal, Requests
    <3>2. DonorTypeOK'
      BY <2>1, <3>1, PrefetchTypes
    <3> QED
      BY <1>2, <2>1, <3>2 DEF WarmUp, Prefetch
  <2>2. CASE ~(SendGoes(j, "claim", "answer") /\ Prefetch(j, ask[j].app))
    <3>1. DonorTypeOK'
      BY <1>2, <2>2 DEF WarmUp, Cached, Load, DonorTypeOK
    <3> QED
      BY <1>2, <2>2, <3>1 DEF WarmUp
  <2> QED
    BY <2>1, <2>2
<1> QED
  BY <1>1, <1>2

LEMMA FillTypes ==
  ASSUME TypeOK, NEW s, NEW f \in Frames, FillSlot(s, f)
  PROVE  slot' \in [Slots -> Frames] /\ UNCHANGED <<next, crossed, built>>
<1>1. Mixture \in Frames
  BY DEF Mixture, Frames
<1> QED
  BY <1>1 DEF FillSlot, TypeOK

LEMMA SendingTypes ==
  ASSUME TypeOK, NEW j \in Jobs,
         AnswerHere(j) \/ Patch(j) \/ FillRequest(j) \/ SendPatched(j) \/ SendPlain(j)
  PROVE  TypeOK'
<1> USE DEF TypeOK, SendGoes, donorVars, configVars, recvVars, DonorTypeOK
<1>1. CASE AnswerHere(j)
  <2>1. queue' \in [Queues -> Seq(Jobs)]
    <3>1. QueueOf(ask[j]) \in Queues
      BY DEF QueueOf, Queues
    <3>2. Append(queue[QueueOf(ask[j])], j) \in Seq(Jobs)
      BY <3>1
    <3> QED
      BY <1>1, <3>1, <3>2 DEF AnswerHere
  <2> QED
    BY <1>1, <2>1 DEF AnswerHere, poolVars
<1>2. CASE Patch(j)
  <2>1. AcquireSlot
    BY <1>2 DEF Patch
  <2>2. next' \in Slots /\ slot' = slot /\ built' = built + 1 /\ crossed' \subseteq Slots
    BY <2>1, AcquireKeeps
  <2>3. noted' \subseteq Jobs /\ forgotten' \subseteq Jobs
    BY <1>2 DEF Patch
  <2> QED
    BY <1>2, <2>2, <2>3 DEF Patch
<1>3. CASE FillRequest(j)
  <2>1. [job |-> j, what |-> "request"] \in Frames
    BY DEF Frames
  <2>2. slot' \in [Slots -> Frames] /\ UNCHANGED <<next, crossed, built>>
    BY <1>3, <2>1, FillTypes DEF FillRequest
  <2> QED
    BY <1>3, <2>2 DEF FillRequest
<1>4. CASE SendPatched(j)
  BY <1>4 DEF SendPatched, Account, poolVars
<1>5. CASE SendPlain(j)
  BY <1>5 DEF SendPlain, poolVars
<1> QED
  BY <1>1, <1>2, <1>3, <1>4, <1>5

LEMMA FetchTypes ==
  ASSUME TypeOK, DonorsConsistent, NEW j \in Jobs, FetchStep(j)
  PROVE  TypeOK'
<1> USE DEF FetchGoes, DonorTypeOK, TypeOK
<1>0. fetch[j] # "none" => fetchApp[j] \in Apps
  BY DEF DonorsConsistent
<1>1. DonorTypeOK'
  <2>1. CASE FetchBegins(j)
    BY <2>1 DEF FetchBegins, TryDonor, Cached, Load
  <2>2. CASE FetchAnswer(j) \/ FetchFails(j) \/ FetchEnds(j)
    BY <1>0, <2>2 DEF FetchAnswer, FetchFails, FetchEnds
  <2>3. CASE FetchStore(j) \/ FetchAppend(j) \/ FetchWrite(j)
    BY <1>0, <2>3 DEF FetchStore, FetchAppend, FetchWrite
  <2> QED
    BY <2>1, <2>2, <2>3 DEF FetchStep, Fetch
<1> QED
  BY <1>1 DEF FetchStep, configVars, poolVars, sendVars, recvVars

LEMMA ReceivingTypes ==
  ASSUME TypeOK, QueuedAreSuppressed, RecvStep \/ \E p \in Packets : Receive(p)
  PROVE  TypeOK'
<1> USE DEF TypeOK, donorVars, configVars, sendVars, DonorTypeOK
<1>1. ASSUME NEW p \in Packets, Receive(p)
      PROVE  TypeOK'
  <2>1. kicks' \in 0 .. MaxKicks
    BY <1>1, FrameAssumption DEF Receive
  <2> QED
    BY <1>1, <2>1 DEF Receive, poolVars, Queues
<1>2. ASSUME NEW q \in Queues, Borrow(q)
      PROVE  TypeOK'
  <2>1. CASE queue[q] = <<>> /\ at' = After(q) /\ UNCHANGED <<queue, poolVars, data, popped, recvStamp>>
    BY <1>2, <2>1 DEF Borrow, After, Queues, poolVars
  <2>2. CASE queue[q] # <<>> /\ popped' = Head(queue[q])
    <3>1. queue[q] \in Seq(Jobs) /\ Head(queue[q]) \in Jobs /\ Tail(queue[q]) \in Seq(Jobs)
      BY <2>2
    <3>3. /\ AcquireSlot
          /\ queue' = [queue EXCEPT ![q] = Tail(@)]
          /\ data' = next /\ recvStamp' = built' /\ at' = "fill"
      BY <1>2, <2>2 DEF Borrow
    <3>4. next' \in Slots /\ slot' = slot /\ built' = built + 1 /\ crossed' \subseteq Slots
      BY <3>3, AcquireKeeps
    <3>5. queue' \in [Queues -> Seq(Jobs)]
      BY <3>1, <3>3
    <3> QED
      BY <1>2, <2>2, <3>1, <3>3, <3>4, <3>5 DEF Borrow
  <2> QED
    BY <1>2, <2>1, <2>2 DEF Borrow
<1>3. ASSUME NEW q \in Queues, Deliver(q)
      PROVE  TypeOK'
  BY <1>3 DEF Deliver, poolVars, NoJob
<1>4. CASE Rewrite
  <2>1. CASE AcquireSlot /\ data' = next /\ recvStamp' = built' /\ at' = "refill"
    <3>1. next' \in Slots /\ slot' = slot /\ built' = built + 1 /\ crossed' \subseteq Slots
      BY <2>1, AcquireKeeps
    <3> QED
      BY <1>4, <2>1, <3>1 DEF Rewrite
  <2>2. CASE UNCHANGED <<poolVars, data, recvStamp>> /\ at' = "hand"
    BY <1>4, <2>2 DEF Rewrite, poolVars
  <2> QED
    BY <1>4, <2>1, <2>2 DEF Rewrite
<1>5. CASE FillRecv
  <2>1. carrier.job \in Jobs \cup {NoJob}
    BY DEF Packets, NoPacket
  <2>2. RecvFrame \in Frames
    BY <2>1 DEF RecvFrame, Frames
  <2>3. slot' \in [Slots -> Frames] /\ UNCHANGED <<next, crossed, built>>
    BY <1>5, <2>2, FillTypes DEF FillRecv
  <2> QED
    BY <1>5, <2>3 DEF FillRecv
<1>6. CASE HandOver
  <2>1. got' \in [Jobs -> {"none", "own", "donor", "rewritten", "local", "garbled"}]
    <3>1. Plain(carrier) \in {"none", "own", "donor"} \/ carrier.kind # "answer"
      BY DEF Plain, Packets, NoPacket
    <3> QED
      BY <1>6, <3>1 DEF HandOver
  <2>2. torn' \in BOOLEAN
    BY <1>6 DEF HandOver
  <2> QED
    BY <1>6, <2>1, <2>2 DEF HandOver, poolVars
<1> QED
  BY <1>1, <1>2, <1>3, <1>4, <1>5, <1>6 DEF RecvStep

LEMMA ReloadTypes ==
  ASSUME TypeOK, NEW a \in Apps, Reload(a) \/ Expire(a)
  PROVE  TypeOK'
<1> USE DEF TypeOK, poolVars, sendVars, recvVars, DonorTypeOK
<1>1. CASE Reload(a)
  <2>1. reloads' \in 0 .. MaxReloads
    BY <1>1, FrameAssumption DEF Reload
  <2> QED
    BY <1>1, <2>1 DEF Reload, donorVars
<1>2. CASE Expire(a)
  BY <1>2 DEF Expire, FailureExpires, configVars
<1> QED
  BY <1>1, <1>2

\* All steps together.
LEMMA NextTypes ==
  ASSUME IInv, Next
  PROVE  TypeOK'
<1> USE DEF IInv
<1>1. ASSUME NEW j \in Jobs, (\E r \in Asks[j] : Send(j, r)) \/ SendStep(j) \/ FetchStep(j)
      PROVE  TypeOK'
  BY <1>1, SendTypes, LookUpTypes, SendingTypes, FetchTypes DEF SendStep
<1>2. ASSUME NEW a \in Apps, Reload(a) \/ Expire(a)
      PROVE  TypeOK'
  BY <1>2, ReloadTypes
<1>3. CASE RecvStep \/ \E p \in Packets : Receive(p)
  BY <1>3, ReceivingTypes
<1> QED
  BY <1>1, <1>2, <1>3 DEF Next

-----------------------------------------------------------------------------
(* Every step keeps the frames that are still to be read. *)

LEMMA NextRequests ==
  ASSUME TypeOK, RequestsAreReal, Next
  PROVE  RequestsAreReal'
<1> USE DEF TypeOK, RequestsAreReal, SendGoes
<1>1. ASSUME NEW j \in Jobs, NEW r \in Asks[j], Send(j, r)
      PROVE  RequestsAreReal'
  <2>1. r \in Requests
    BY FrameAssumption
  <2> QED
    BY <1>1, <2>1 DEF Send
<1>2. ASSUME NEW j \in Jobs, SendStep(j)
      PROVE  RequestsAreReal'
  BY <1>2 DEF SendStep, LookUp, WarmUp, AnswerHere, Patch, FillRequest, SendPatched, SendPlain
<1>3. ASSUME NEW j \in Jobs, FetchStep(j)
      PROVE  RequestsAreReal'
  BY <1>3 DEF FetchStep, sendVars
<1>4. ASSUME NEW a \in Apps, Reload(a) \/ Expire(a)
      PROVE  RequestsAreReal'
  BY <1>4 DEF Reload, Expire, sendVars
<1>5. CASE RecvStep \/ \E p \in Packets : Receive(p)
  BY <1>5 DEF RecvStep, Receive, Borrow, Deliver, Rewrite, FillRecv, HandOver, sendVars
<1> QED
  BY <1>1, <1>2, <1>3, <1>4, <1>5 DEF Next

\* Steps of holder y, or of none: the others hold what they held.
Others(y) ==
  \A i \in Holders : i # y /\ Holds(i)' =>
    /\ Holds(i) /\ (Fills(i)' <=> Fills(i))
    /\ Place(i)' = Place(i) /\ Since(i)' = Since(i) /\ Frame(i)' = Frame(i)

LEMMA FillersAreHolders ==
  \A i \in Holders : (Fills(i) => Holds(i)) /\ (Fills(i)' => Holds(i)')
BY DEF Fills, Holds

\* y takes no slot and fills none; it may let its own go.
LEMMA IdleFrames ==
  ASSUME FramesHold, UNCHANGED poolVars, NEW y, Others(y),
         Holds(y)' => /\ Holds(y) /\ (Fills(y)' <=> Fills(y))
                      /\ Place(y)' = Place(y) /\ Since(y)' = Since(y) /\ Frame(y)' = Frame(y)
  PROVE  FramesHold'
<1> SUFFICES ASSUME NEW i \in Holders, Holds(i)'
             PROVE  /\ Ring(Place(i), Since(i))'
                    /\ Clean(i)' => Alone(i)' /\ (Fills(i)' \/ slot'[Place(i)'] = Frame(i)')
  BY DEF FramesHold
<1>1. \A k \in Holders : Holds(k)' => /\ Holds(k) /\ (Fills(k)' <=> Fills(k)) /\ Frame(k)' = Frame(k)
                                       /\ Place(k)' = Place(k) /\ Since(k)' = Since(k)
  BY DEF Others
<1>2. UNCHANGED <<next, slot, crossed, built>>
  BY DEF poolVars
<1>3. \A k \in Holders : Fills(k)' => Fills(k) /\ Place(k)' = Place(k)
  BY <1>1, FillersAreHolders
<1>4. Ring(Place(i), Since(i))'
  BY <1>1, <1>2 DEF FramesHold, Ring
<1>5. Clean(i)' => Clean(i)
  BY <1>1, <1>2 DEF Clean
<1>6. Alone(i) => Alone(i)'
  BY <1>1, <1>3 DEF Alone
<1> QED
  BY <1>1, <1>2, <1>4, <1>5, <1>6 DEF FramesHold

\* y takes a slot, which it is then to fill.
LEMMA TakeFrames ==
  ASSUME TypeOK, FramesHold, AcquireSlot, NEW y \in Holders, Others(y),
         ~Fills(y), Fills(y)', Place(y)' = next, Since(y)' = built'
  PROVE  FramesHold'
<1> SUFFICES ASSUME NEW i \in Holders, Holds(i)'
             PROVE  /\ Ring(Place(i), Since(i))'
                    /\ Clean(i)' => Alone(i)' /\ (Fills(i)' \/ slot'[Place(i)'] = Frame(i)')
  BY DEF FramesHold
<1>1. /\ slot' = slot /\ next \in Slots
      /\ \A s, t : s = next /\ t = built' => Ring(s, t)'
      /\ \A s, t : Ring(s, t) =>
           Ring(s, t)' /\ (built' - t < PoolSize => s # next /\ built - t < PoolSize)
  BY AcquireKeeps DEF TypeOK
<1>2. crossed' = IF Filling(next) THEN crossed \cup {next} ELSE crossed \ {next}
  BY DEF AcquireSlot
<1>3. \A k \in Holders : k # y /\ Fills(k)' => Fills(k) /\ Place(k)' = Place(k)
  BY FillersAreHolders DEF Others
<1>4. CASE i = y
  <2>1. Ring(Place(i), Since(i))'
    <3>1. ASSUME NEW s, NEW t, s = next, t = built' PROVE Ring(s, t)'
      BY <1>1, <3>1
    <3> QED
      BY <1>4, <3>1 DEF Ring
  <2>2. Clean(i)' => ~Filling(next)
    BY <1>2, <1>4 DEF Clean
  <2>3. ~Filling(next) => Alone(i)'
    BY <1>1, <1>3, <1>4, FillersHold DEF Alone
  <2> QED
    BY <1>4, <2>1, <2>2, <2>3
<1>5. CASE i # y
  <2>1. /\ Holds(i) /\ (Fills(i)' <=> Fills(i)) /\ Frame(i)' = Frame(i)
        /\ Place(i)' = Place(i) /\ Since(i)' = Since(i)
    BY <1>5 DEF Others
  <2>2. PICK s, t : s = Place(i) /\ t = Since(i)
    OBVIOUS
  <2>3. Ring(s, t)
    BY <2>1, <2>2 DEF FramesHold
  <2>4. Ring(s, t)' /\ (built' - t < PoolSize => s # next /\ built - t < PoolSize)
    BY <1>1, <2>3
  <2>5. Ring(Place(i), Since(i))'
    BY <2>1, <2>2, <2>4 DEF Ring
  <2>6. Clean(i)' => Clean(i) /\ s # next
    BY <1>2, <2>1, <2>2, <2>4 DEF Clean
  <2>7. Alone(i) /\ s # next => Alone(i)'
    BY <1>3, <2>1, <2>2 DEF Alone
  <2> QED
    BY <1>1, <2>1, <2>5, <2>6, <2>7 DEF FramesHold
<1> QED
  BY <1>4, <1>5

\* y fills its slot.
LEMMA FilledFrames ==
  ASSUME TypeOK, FramesHold, NEW y \in Holders, Others(y),
         FillSlot(Place(y), Frame(y)), Fills(y), ~Fills(y)',
         Place(y)' = Place(y), Since(y)' = Since(y), Frame(y)' = Frame(y)
  PROVE  FramesHold'
<1> SUFFICES ASSUME NEW i \in Holders, Holds(i)'
             PROVE  /\ Ring(Place(i), Since(i))'
                    /\ Clean(i)' => Alone(i)' /\ (Fills(i)' \/ slot'[Place(i)'] = Frame(i)')
  BY DEF FramesHold
<1>1. UNCHANGED <<next, crossed, built>> /\ slot \in [Slots -> Frames]
  BY DEF FillSlot, TypeOK
<1>2. PICK g : /\ slot' = [slot EXCEPT ![Place(y)] = g]
               /\ Place(y) \notin crossed => g = Frame(y)
  BY DEF FillSlot
<1>3. Holds(i) /\ Place(i)' = Place(i) /\ Since(i)' = Since(i) /\ Frame(i)' = Frame(i)
  BY FillersAreHolders DEF Others
<1>4. \A k \in Holders : Fills(k)' => Fills(k) /\ Place(k)' = Place(k)
  BY FillersAreHolders DEF Others
<1>5. Ring(Place(i), Since(i))' /\ Place(i) \in Slots
  BY <1>1, <1>3 DEF FramesHold, Ring
<1>6. Clean(i)' => Clean(i)
  BY <1>1, <1>3 DEF Clean
<1>7. Alone(i) => Alone(i)'
  BY <1>3, <1>4 DEF Alone
<1>8. ASSUME Clean(i), ~Fills(i)'
      PROVE  slot'[Place(i)] = Frame(i)
  <2>1. Alone(i) /\ (Fills(i) \/ slot[Place(i)] = Frame(i))
    BY <1>3, <1>8 DEF FramesHold
  <2>2. CASE i = y
    BY <1>1, <1>2, <1>5, <1>8, <2>2 DEF Clean
  <2>3. CASE i # y
    <3>1. Place(y) # Place(i)
      BY <2>1, <2>3 DEF Alone
    <3>2. ~Fills(i)
      BY <1>8, <2>3 DEF Others
    <3> QED
      BY <1>2, <2>1, <3>1, <3>2
  <2> QED
    BY <2>2, <2>3
<1> QED
  BY <1>3, <1>5, <1>6, <1>7, <1>8 DEF FramesHold

LEMMA StillFrames ==
  ASSUME FramesHold, ReceiverHolds, UNCHANGED poolVars, UNCHANGED sendVars, UNCHANGED recvVars
  PROVE  FramesHold' /\ ReceiverHolds'
<1>1. \A i \in Holders : /\ Holds(i)' = Holds(i) /\ (Fills(i)' <=> Fills(i))
                         /\ Place(i)' = Place(i) /\ Since(i)' = Since(i) /\ Frame(i)' = Frame(i)
  BY DEF sendVars, recvVars, Holds, Fills, Place, Since, Frame, RecvFrame
<1>2. Others(NoJob) /\ NoJob \in Holders
  BY <1>1 DEF Others, Holders
<1>3. FramesHold'
  BY <1>1, <1>2, IdleFrames
<1> QED
  BY <1>3 DEF ReceiverHolds, recvVars

LEMMA JobsHold ==
  \A j \in Jobs : j \in Holders /\ j # NoJob
BY DEF Holders, Jobs, NoJob

LEMMA SendFrames ==
  ASSUME TypeOK, FramesHold, NEW j \in Jobs, (\E r \in Asks[j] : Send(j, r)) \/ SendStep(j)
  PROVE  FramesHold'
<1> USE DEF SendGoes
<1>1. UNCHANGED <<carrier, data, at, popped, recvStamp>>
  BY DEF SendStep, Send, LookUp, WarmUp, AnswerHere, Patch, FillRequest, SendPatched, SendPlain,
         recvVars
<1>2. \A i \in Jobs : i # j => send'[i] = send[i] /\ held'[i] = held[i] /\ stamp'[i] = stamp[i]
  BY DEF SendStep, Send, LookUp, WarmUp, AnswerHere, Patch, FillRequest, SendPatched, SendPlain,
         TypeOK
<1>3. Others(j)
  BY <1>1, <1>2 DEF Others, Holders, Holds, Fills, Place, Since, Frame, RecvFrame
<1>4. CASE Patch(j)
  <2>1. /\ AcquireSlot /\ send[j] = "patch" /\ send'[j] = "fill"
        /\ held'[j] = next /\ stamp'[j] = built'
    BY <1>4 DEF Patch, TypeOK
  <2>2. ~Fills(j) /\ Fills(j)' /\ Place(j)' = next /\ Since(j)' = built'
    BY <2>1, JobsHold DEF Fills, Place, Since
  <2> QED
    BY <1>3, <2>1, <2>2, TakeFrames, JobsHold
<1>5. CASE FillRequest(j)
  <2>1. /\ FillSlot(held[j], [job |-> j, what |-> "request"])
        /\ send[j] = "fill" /\ send'[j] = "patched" /\ UNCHANGED <<held, stamp>>
    BY <1>5 DEF FillRequest, TypeOK
  <2>2. /\ FillSlot(Place(j), Frame(j)) /\ Fills(j) /\ ~Fills(j)' /\ Place(j)' = Place(j)
        /\ Since(j)' = Since(j) /\ Frame(j)' = Frame(j)
    BY <2>1, JobsHold DEF Fills, Place, Since, Frame
  <2> QED
    BY <1>3, <2>2, FilledFrames, JobsHold
<1>6. CASE ~Patch(j) /\ ~FillRequest(j)
  <2>1. UNCHANGED poolVars
    BY <1>6 DEF SendStep, Send, LookUp, WarmUp, AnswerHere, SendPatched, SendPlain
  <2>2. send'[j] \notin {"fill", "patched"}
    <3>1. \A r \in Asks[j] : Branch(r) \notin {"fill", "patched"}
      BY DEF Branch
    <3> QED
      BY <1>6, <3>1 DEF SendStep, Send, LookUp, WarmUp, AnswerHere, SendPatched, SendPlain, TypeOK
  <2>3. ~Holds(j)'
    BY <2>2, JobsHold DEF Holds
  <2> QED
    BY <1>3, <2>1, <2>3, IdleFrames
<1> QED
  BY <1>4, <1>5, <1>6

LEMMA RecvFrames ==
  ASSUME TypeOK, FramesHold, ReceiverHolds, RecvStep \/ \E p \in Packets : Receive(p)
  PROVE  FramesHold' /\ ReceiverHolds'
<1> USE DEF NoJob
<1>1. UNCHANGED sendVars
  BY DEF RecvStep, Receive, Borrow, Deliver, Rewrite, FillRecv, HandOver
<1>2. Others(NoJob) /\ NoJob \in Holders
  BY <1>1 DEF Others, Holders, Holds, Fills, Place, Since, Frame, sendVars
<1>3. next # NoSlot
  BY FrameAssumption DEF TypeOK, NoSlot, Slots
<1>4. CASE AcquireSlot /\ data' = next /\ recvStamp' = built' /\ at' \in {"fill", "refill"}
           /\ data = NoSlot
  <2>1. ~Fills(NoJob) /\ Fills(NoJob)' /\ Place(NoJob)' = next /\ Since(NoJob)' = built'
    BY <1>3, <1>4 DEF Fills, Place, Since
  <2> QED
    BY <1>2, <1>4, <2>1, TakeFrames DEF ReceiverHolds
<1>5. CASE FillRecv
  <2>1. /\ FillSlot(data, RecvFrame) /\ UNCHANGED <<data, recvStamp, carrier, popped>>
        /\ \/ at = "fill" /\ at' = "borrowed"
           \/ at = "refill" /\ at' = "hand"
    BY <1>5 DEF FillRecv
  <2>2. ReceiverHolds' /\ RecvFrame' = RecvFrame
    BY <2>1 DEF ReceiverHolds, RecvFrame
  <2>3. CASE data # NoSlot
    <3>1. /\ FillSlot(Place(NoJob), Frame(NoJob)) /\ Fills(NoJob) /\ ~Fills(NoJob)'
          /\ Place(NoJob)' = Place(NoJob) /\ Since(NoJob)' = Since(NoJob)
          /\ Frame(NoJob)' = Frame(NoJob)
      BY <2>1, <2>2, <2>3 DEF Fills, Place, Since, Frame
    <3> QED
      BY <1>2, <2>2, <3>1, FilledFrames
  <2>4. CASE data = NoSlot
    <3>1. slot' = slot
      <4>1. NoSlot \notin Slots
        BY FrameAssumption DEF Slots, NoSlot
      <4> QED
        BY <2>1, <2>4, <4>1 DEF FillSlot, TypeOK
    <3>2. UNCHANGED poolVars /\ ~Holds(NoJob)'
      BY <2>1, <2>4, <3>1 DEF FillSlot, poolVars, Holds
    <3> QED
      BY <1>2, <2>2, <3>2, IdleFrames
  <2> QED
    BY <2>3, <2>4
<1>6. CASE UNCHANGED poolVars /\ data' = NoSlot
  <2>1. ~Holds(NoJob)' /\ ReceiverHolds'
    BY <1>6 DEF Holds, ReceiverHolds
  <2> QED
    BY <1>2, <1>6, <2>1, IdleFrames
<1>7. ASSUME NEW p \in Packets, Receive(p)
      PROVE  UNCHANGED poolVars /\ data' = NoSlot
  BY <1>7 DEF Receive, ReceiverHolds
<1>8. ASSUME NEW q \in Queues, Borrow(q)
      PROVE  \/ UNCHANGED poolVars /\ data' = NoSlot
             \/ AcquireSlot /\ data' = next /\ recvStamp' = built' /\ at' \in {"fill", "refill"}
                /\ data = NoSlot
  BY <1>8 DEF Borrow, ReceiverHolds, Queues
<1>9. ASSUME Rewrite
      PROVE  \/ UNCHANGED poolVars /\ data' = NoSlot
             \/ AcquireSlot /\ data' = next /\ recvStamp' = built' /\ at' \in {"fill", "refill"}
                /\ data = NoSlot
  BY <1>9 DEF Rewrite, ReceiverHolds
<1>10. ASSUME HandOver \/ \E q \in Queues : Deliver(q)
       PROVE  UNCHANGED poolVars /\ data' = NoSlot
  BY <1>10 DEF HandOver, Deliver
<1> QED
  BY <1>4, <1>5, <1>6, <1>7, <1>8, <1>9, <1>10 DEF RecvStep

LEMMA NextFrames ==
  ASSUME IInv, Next
  PROVE  FramesHold' /\ ReceiverHolds'
<1>1. TypeOK /\ FramesHold /\ ReceiverHolds
  BY DEF IInv
<1>2. ASSUME NEW j \in Jobs, (\E r \in Asks[j] : Send(j, r)) \/ SendStep(j)
      PROVE  FramesHold' /\ ReceiverHolds'
  <2>1. UNCHANGED <<data, at>>
    BY <1>2 DEF SendStep, Send, LookUp, WarmUp, AnswerHere, Patch, FillRequest, SendPatched,
                SendPlain, recvVars
  <2> QED
    BY <1>1, <1>2, <2>1, SendFrames DEF ReceiverHolds
<1>3. ASSUME UNCHANGED poolVars, UNCHANGED sendVars, UNCHANGED recvVars
      PROVE  FramesHold' /\ ReceiverHolds'
  BY <1>1, <1>3, StillFrames
<1>4. ASSUME \/ \E j \in Jobs : FetchStep(j)
             \/ \E a \in Apps : Reload(a) \/ Expire(a)
      PROVE  FramesHold' /\ ReceiverHolds'
  BY <1>3, <1>4 DEF FetchStep, Reload, Expire
<1>5. CASE RecvStep \/ \E p \in Packets : Receive(p)
  BY <1>1, <1>5, RecvFrames
<1> QED
  BY <1>2, <1>4, <1>5 DEF Next

-----------------------------------------------------------------------------
(* Every step keeps the marks in flight. *)

LEMMA SendDonors ==
  ASSUME TypeOK, RequestsAreReal, DonorsConsistent, NEW j \in Jobs,
         (\E r \in Asks[j] : Send(j, r)) \/ SendStep(j)
  PROVE  DonorsConsistent'
<1>1. CASE SendGoes(j, "claim", "answer") /\ Prefetch(j, ask[j].app)
  <2> DEFINE x == ask[j].app
  <2>1. CASE x \in failed \cup inFlight
    BY <1>1, <2>1 DEF SendGoes, Prefetch, DonorsConsistent, TypeOK
  <2>2. CASE x \notin failed \cup inFlight
    <3>1. /\ inFlight' = inFlight \cup {x} /\ fetch' = [fetch EXCEPT ![j] = "start"]
          /\ fetchApp' = [fetchApp EXCEPT ![j] = x]
          /\ UNCHANGED <<donors, failed, loaded, filed, recorded>> /\ loaded
          /\ send' = [send EXCEPT ![j] = "answer"]
      BY <1>1, <2>2 DEF SendGoes, Prefetch, DonorsConsistent
    <3> HIDE DEF x
    <3>2. \A i \in Jobs : i # j => fetch'[i] = fetch[i] /\ fetchApp'[i] = fetchApp[i]
      BY <3>1 DEF TypeOK, DonorTypeOK
    <3>3. fetch'[j] = "start" /\ fetchApp'[j] = x
      BY <3>1 DEF TypeOK, DonorTypeOK
    <3>4. \A i \in Jobs : fetch[i] # "none" => fetchApp[i] # x
      BY <2>2 DEF DonorsConsistent
    <3>5. \A i \in Jobs : send'[i] = "claim" => send[i] = "claim"
      BY <3>1 DEF TypeOK
    <3> QED
      BY <3>1, <3>2, <3>3, <3>4, <3>5 DEF DonorsConsistent
  <2> QED
    BY <2>1, <2>2
<1>2. CASE ~(SendGoes(j, "claim", "answer") /\ Prefetch(j, ask[j].app))
  <2>1. /\ UNCHANGED <<inFlight, fetch, fetchApp>>
        /\ loaded => loaded' /\ donors' = donors
        /\ send'[j] = "claim" => loaded'
        /\ \A i \in Jobs : i # j => send'[i] = send[i]
    <3>1. CASE \E r \in Asks[j] : Send(j, r)
      <4>1. \A r \in Asks[j] : Branch(r) # "claim"
        BY DEF Branch
      <4> QED
        BY <3>1, <4>1 DEF Send, SendGoes, donorVars, TypeOK
    <3>2. CASE LookUp(j)
      BY <3>2 DEF LookUp, SendGoes, TryDonor, Cached, Load, TypeOK
    <3>3. CASE WarmUp(j)
      BY <1>2, <3>3 DEF WarmUp, SendGoes, Cached, Load, TypeOK
    <3>4. CASE AnswerHere(j) \/ Patch(j) \/ FillRequest(j) \/ SendPatched(j) \/ SendPlain(j)
      BY <3>4 DEF AnswerHere, Patch, FillRequest, SendPatched, SendPlain, SendGoes, donorVars, TypeOK
    <3> QED
      BY <3>1, <3>2, <3>3, <3>4 DEF SendStep
  <2>2. \A i \in Jobs : fetch[i] # "none" => loaded
    BY DEF DonorsConsistent
  <2> QED
    BY <2>1, <2>2 DEF DonorsConsistent
<1> QED
  BY <1>1, <1>2

LEMMA FetchDonors ==
  ASSUME TypeOK, DonorsConsistent, NEW j \in Jobs, FetchStep(j)
  PROVE  DonorsConsistent'
<1> USE DEF FetchGoes
<1>1. /\ UNCHANGED <<send, fetchApp>> /\ loaded'
      /\ fetch[j] # "none" /\ fetchApp[j] \in inFlight
      /\ \A i \in Jobs : i # j => fetch'[i] = fetch[i]
      /\ \A i \in Jobs : i # j /\ fetch[i] # "none" => fetchApp[i] # fetchApp[j]
  <2>1. /\ UNCHANGED <<send, fetchApp>> /\ fetch[j] # "none"
        /\ \A i \in Jobs : i # j => fetch'[i] = fetch[i]
    BY DEF FetchStep, sendVars, Fetch, FetchBegins, FetchAnswer, FetchStore, FetchAppend,
           FetchWrite, FetchFails, FetchEnds, TypeOK, DonorTypeOK
  <2>2. loaded => loaded'
    BY DEF FetchStep, Fetch, FetchBegins, TryDonor, Cached, Load, FetchAnswer, FetchStore,
           FetchAppend, FetchWrite, FetchFails, FetchEnds
  <2> QED
    BY <2>1, <2>2 DEF DonorsConsistent
<1>2. CASE FetchBegins(j)
  <2>1. PICK found \in BOOLEAN :
          /\ TryDonor(fetchApp[j], found)
          /\ fetch' = [fetch EXCEPT ![j] =
               IF found \/ fetchApp[j] \in failed THEN "end" ELSE "ask"]
          /\ UNCHANGED inFlight
    BY <1>2 DEF FetchBegins
  <2>2. donors' = donors
    BY <1>1, <2>1 DEF TryDonor, Cached, Load, DonorsConsistent
  <2>3. fetch'[j] \in {"ask", "store"} => fetchApp[j] \notin donors'
    BY <2>1 DEF TryDonor, Cached, TypeOK, DonorTypeOK
  <2> QED
    BY <1>1, <2>1, <2>2, <2>3 DEF DonorsConsistent
<1>3. CASE FetchAnswer(j)
  <2>1. UNCHANGED <<donors, inFlight>> /\ fetch[j] = "ask"
    BY <1>3 DEF FetchAnswer
  <2> QED
    BY <1>1, <2>1 DEF DonorsConsistent
<1>4. CASE FetchStore(j)
  <2>1. /\ inFlight' = inFlight /\ donors' = donors \cup {fetchApp[j]}
        /\ fetch' = [fetch EXCEPT ![j] = "append"]
    BY <1>4 DEF FetchStore
  <2>2. fetch'[j] = "append"
    BY <2>1 DEF TypeOK, DonorTypeOK
  <2> QED
    BY <1>1, <2>1, <2>2 DEF DonorsConsistent
<1>5. CASE FetchAppend(j) \/ FetchWrite(j) \/ FetchFails(j)
  <2>1. UNCHANGED <<donors, inFlight>> /\ fetch'[j] \in {"extend", "rewrite", "end"}
    BY <1>5 DEF FetchAppend, FetchWrite, FetchFails, TypeOK, DonorTypeOK
  <2> QED
    BY <1>1, <2>1 DEF DonorsConsistent
<1>6. CASE FetchEnds(j)
  <2>1. donors' = donors /\ inFlight' = inFlight \ {fetchApp[j]} /\ fetch'[j] = "none"
    BY <1>6 DEF FetchEnds, TypeOK, DonorTypeOK
  <2> QED
    BY <1>1, <2>1 DEF DonorsConsistent
<1> QED
  BY <1>2, <1>3, <1>4, <1>5, <1>6 DEF FetchStep, Fetch

LEMMA NextDonors ==
  ASSUME IInv, Next
  PROVE  DonorsConsistent'
<1>1. TypeOK /\ RequestsAreReal /\ DonorsConsistent
  BY DEF IInv
<1>2. ASSUME NEW j \in Jobs, (\E r \in Asks[j] : Send(j, r)) \/ SendStep(j) \/ FetchStep(j)
      PROVE  DonorsConsistent'
  BY <1>1, <1>2, SendDonors, FetchDonors
<1>3. ASSUME UNCHANGED <<donors, inFlight, loaded, fetch, fetchApp, send>>
      PROVE  DonorsConsistent'
  BY <1>1, <1>3 DEF DonorsConsistent
<1>4. ASSUME NEW a \in Apps, Reload(a) \/ Expire(a)
      PROVE  DonorsConsistent'
  BY <1>3, <1>4 DEF Reload, Expire, FailureExpires, donorVars, sendVars
<1>5. CASE RecvStep \/ \E p \in Packets : Receive(p)
  BY <1>3, <1>5 DEF RecvStep, Receive, Borrow, Deliver, Rewrite, FillRecv, HandOver, donorVars, sendVars
<1> QED
  BY <1>2, <1>4, <1>5 DEF Next

-----------------------------------------------------------------------------
(* Every step keeps what is queued. *)

LEMMA NextQueued ==
  ASSUME IInv, Next
  PROVE  QueuedAreSuppressed'
<1> USE DEF IInv
<1>1. ASSUME NEW j \in Jobs, (\E r \in Asks[j] : Send(j, r)) \/ SendStep(j), ~AnswerHere(j)
      PROVE  QueuedAreSuppressed'
  <2>1. /\ UNCHANGED <<queue, at, popped>> /\ send[j] # "suppressed"
        /\ \A i \in Jobs : i # j => send'[i] = send[i]
    BY <1>1 DEF Send, SendStep, LookUp, WarmUp, Patch, FillRequest, SendPatched, SendPlain, SendGoes,
                recvVars, TypeOK
  <2>2. \A q \in Queues : queue[q] \in Seq(Jobs)
    BY DEF TypeOK
  <2> QED
    BY <2>1, <2>2 DEF QueuedAreSuppressed
<1>2. ASSUME NEW j \in Jobs, AnswerHere(j)
      PROVE  QueuedAreSuppressed'
  <2>1. /\ UNCHANGED <<at, popped>> /\ send[j] = "answer"
        /\ \A i \in Jobs : i # j => send'[i] = send[i]
    BY <1>2 DEF AnswerHere, SendGoes, recvVars, TypeOK
  <2>2. \A q \in Queues : queue[q] \in Seq(Jobs)
    BY DEF TypeOK
  <2>3. \A q \in Queues : \A i \in 1 .. Len(queue[q]) : send'[queue[q][i]] = "suppressed"
    BY <2>1, <2>2 DEF QueuedAreSuppressed
  <2>4. CASE queue' = queue
    BY <2>1, <2>3, <2>4 DEF QueuedAreSuppressed
  <2>5. CASE queue' # queue
    <3> DEFINE q == QueueOf(ask[j])
    <3>1. q \in Queues /\ queue' = [queue EXCEPT ![q] = Append(@, j)] /\ send'[j] = "suppressed"
      BY <1>2, <2>5 DEF AnswerHere, SendGoes, QueueOf, Queues, TypeOK
    <3> HIDE DEF q
    <3>2. /\ queue'[q] = Append(queue[q], j)
          /\ \A p \in Queues : p # q => queue'[p] = queue[p]
      BY <3>1 DEF TypeOK
    <3>3. \A i \in 1 .. Len(queue'[q]) : queue'[q][i] = j \/ (i \in 1 .. Len(queue[q]) /\ queue'[q][i] = queue[q][i])
      BY <2>2, <3>1, <3>2
    <3>4. \A i \in 1 .. Len(queue'[q]) : send'[queue'[q][i]] = "suppressed"
      BY <2>3, <3>1, <3>3
    <3> QED
      BY <2>1, <2>3, <3>1, <3>2, <3>4 DEF QueuedAreSuppressed
  <2> QED
    BY <2>4, <2>5
<1>3. ASSUME UNCHANGED <<queue, send>>,
             at' \in {"fill", "borrowed"} => at \in {"fill", "borrowed"} /\ popped' = popped
      PROVE  QueuedAreSuppressed'
  BY <1>3 DEF QueuedAreSuppressed
<1>4. ASSUME NEW j \in Jobs, FetchStep(j)
      PROVE  QueuedAreSuppressed'
  BY <1>3, <1>4 DEF FetchStep, sendVars, recvVars
<1>5. ASSUME NEW a \in Apps, Reload(a) \/ Expire(a)
      PROVE  QueuedAreSuppressed'
  BY <1>3, <1>5 DEF Reload, Expire, sendVars, recvVars
<1>6. ASSUME NEW q \in Queues, Borrow(q), queue[q] # <<>>
      PROVE  QueuedAreSuppressed'
  <2>1. /\ popped' = Head(queue[q]) /\ queue' = [queue EXCEPT ![q] = Tail(@)]
        /\ UNCHANGED send /\ at' = "fill"
    BY <1>6 DEF Borrow, sendVars
  <2>2. queue[q] \in Seq(Jobs) /\ queue[q] # <<>>
    BY <1>6 DEF TypeOK
  <2>3. popped' \in Jobs /\ popped' = queue[q][1] /\ 1 \in 1 .. Len(queue[q])
    BY <2>1, <2>2
  <2>4. \A i \in 1 .. Len(Tail(queue[q])) :
          Tail(queue[q])[i] = queue[q][i + 1] /\ i + 1 \in 1 .. Len(queue[q])
    BY <2>2
  <2>5. /\ queue'[q] = Tail(queue[q])
        /\ \A p \in Queues : p # q => queue'[p] = queue[p]
    BY <2>1 DEF TypeOK
  <2>6. ASSUME NEW p \in Queues, NEW i \in 1 .. Len(queue'[p])
        PROVE  send[queue'[p][i]] = "suppressed"
    <3>1. CASE p = q
      <4>1. queue'[p][i] = queue[q][i + 1] /\ i + 1 \in 1 .. Len(queue[q])
        BY <2>4, <2>5, <2>6, <3>1
      <4> QED
        BY <4>1 DEF QueuedAreSuppressed
    <3>2. CASE p # q
      BY <2>5, <2>6, <3>2 DEF QueuedAreSuppressed
    <3> QED
      BY <3>1, <3>2
  <2> QED
    BY <2>1, <2>3, <2>6 DEF QueuedAreSuppressed
<1>7. ASSUME \/ \E p \in Packets : Receive(p)
             \/ \E q \in Queues : Deliver(q) \/ (Borrow(q) /\ queue[q] = <<>>)
             \/ Rewrite \/ FillRecv \/ HandOver
      PROVE  QueuedAreSuppressed'
  <2>1. /\ UNCHANGED <<queue, send>>
        /\ at' \in {"fill", "borrowed"} => at \in {"fill", "borrowed"} /\ popped' = popped
    BY <1>7 DEF Receive, Borrow, Deliver, Rewrite, FillRecv, HandOver, sendVars, After, Queues
  <2> QED
    BY <1>3, <2>1
<1> QED
  BY <1>1, <1>2, <1>4, <1>5, <1>6, <1>7 DEF Next, RecvStep

-----------------------------------------------------------------------------
(* Every step keeps what the hooks know of a job. *)

Untorn(j) == ~torn => Remembered(j)

\* Steps that leave alone all that a job's condition is about, and may forget it.
LEMMA IdleRemembered ==
  ASSUME NEW j \in Jobs, Untorn(j), torn \/ torn' = torn, torn => torn',
         ask'[j] = ask[j], send'[j] = send[j], asked'[j] = asked[j], got'[j] = got[j],
         UNCHANGED <<noted, carrier, at, data, configured>>, j \in forgotten => j \in forgotten'
  PROVE  Untorn(j)'
BY DEF Untorn, Remembered, Carried

\* The send hook, with job j, and another job i.
LEMMA SendRemembered ==
  ASSUME IInv, NEW j \in Jobs, (\E r \in Asks[j] : Send(j, r)) \/ SendStep(j), NEW i \in Jobs
  PROVE  Untorn(i)'
<1> USE DEF IInv, SendGoes
<1>1. Untorn(i)
  BY DEF JobsRemembered, Untorn
<1>2. UNCHANGED <<carrier, at, data, got, configured>>
  BY DEF Send, SendStep, LookUp, WarmUp, AnswerHere, Patch, FillRequest, SendPatched, SendPlain, recvVars, configVars
<1>3. CASE \E r \in Asks[j] : Send(j, r)
  <2>1. PICK r \in Asks[j] : Send(j, r)
    BY <1>3
  <2>2. UNCHANGED <<torn, noted, forgotten, asked>> /\ send[j] = "new"
    BY <2>1 DEF Send
  <2>3. CASE i # j
    <3>1. ask'[i] = ask[i] /\ send'[i] = send[i]
      BY <2>1, <2>3 DEF Send, TypeOK
    <3> QED
      BY <1>1, <1>2, <2>2, <3>1, IdleRemembered
  <2>4. CASE i = j
    <3>1. send'[j] = Branch(r) /\ ask'[j] = r /\ r \in Requests
      BY <2>1, FrameAssumption DEF Send, TypeOK
    <3>2. /\ Branch(r) \in {"pass", "answer", "lookup", "patch"}
          /\ Branch(r) = "lookup" => r.kind \in StatsKinds /\ r.app \in configured
          /\ Branch(r) = "patch" => r.kind = "pics"
      BY <3>1 DEF Branch, Requests, Kinds, StatsKinds
    <3> QED
      BY <1>1, <1>2, <2>2, <2>4, <3>1, <3>2 DEF Untorn, Remembered, Carried, StatsKinds, Ahead
  <2> QED
    BY <2>3, <2>4
<1>4. CASE LookUp(j) \/ WarmUp(j) \/ AnswerHere(j)
  <2>1. UNCHANGED <<torn, noted, forgotten, asked, ask>>
    BY <1>4 DEF LookUp, WarmUp, AnswerHere
  <2>2. CASE i # j
    <3>1. send'[i] = send[i]
      BY <1>4, <2>2 DEF LookUp, WarmUp, AnswerHere, TypeOK
    <3> QED
      BY <1>1, <1>2, <2>1, <3>1, IdleRemembered
  <2>3. CASE i = j
    <3>1. /\ send[j] \in {"lookup", "cold", "claim", "answer"}
          /\ \/ send[j] = "lookup" /\ send'[j] \in {"patch", "cold"}
             \/ send[j] = "cold" /\ send'[j] \in {"answer", "claim"}
             \/ send[j] = "claim" /\ send'[j] = "answer"
             \/ send[j] = "answer" /\ send'[j] \in {"suppressed", "dropped"}
      BY <1>4 DEF LookUp, WarmUp, AnswerHere, TypeOK
    <3> QED
      BY <1>1, <1>2, <2>1, <2>3, <3>1 DEF Untorn, Remembered, Carried, StatsKinds, Ahead
  <2> QED
    BY <2>2, <2>3
<1>5. CASE Patch(j)
  <2>1. /\ UNCHANGED <<torn, asked, ask>>
        /\ send[j] = "patch" /\ send'[j] = "fill"
        /\ i # j => send'[i] = send[i]
    BY <1>5 DEF Patch, TypeOK
  <2>2. /\ noted \cup forgotten \subseteq noted' \cup forgotten' /\ forgotten \subseteq forgotten'
        /\ ask[j].kind = "stats" => j \in noted'
    BY <1>5 DEF Patch
  <2> QED
    BY <1>1, <1>2, <2>1, <2>2 DEF Untorn, Remembered, Carried, StatsKinds, Ahead
<1>6. CASE SendPatched(j)
  <2> SUFFICES ASSUME ~torn'
               PROVE  Remembered(i)'
    BY DEF Untorn
  <2>1. ~torn
    BY <1>6 DEF SendPatched
  <2>2. Remembered(i) /\ Remembered(j)
    BY <2>1 DEF JobsRemembered
  <2>3. /\ noted' = noted /\ forgotten' = forgotten /\ ask' = ask
        /\ send[j] = "patched" /\ send' = [send EXCEPT ![j] = "sent"]
    BY <1>6 DEF SendPatched
  <2>4. PICK f \in Readable(held[j]) :
          /\ f = [job |-> j, what |-> "request"]
          /\ asked' = IF f.what = "request" /\ asked[f.job] = "none"
                      THEN [asked EXCEPT ![f.job] = Account(f)] ELSE asked
    BY <1>6 DEF SendPatched
  <2>5. asked[j] = "none"
    BY <2>2, <2>3 DEF Remembered
  <2>6. asked' = [asked EXCEPT ![j] = IF ask[j].kind = "pics" THEN "own" ELSE "donor"]
    BY <2>4, <2>5 DEF Account
  <2>7. CASE i = j
    <3>1. /\ send'[j] = "sent" /\ asked'[j] \in {"own", "donor"}
          /\ asked'[j] = "donor" => ask[j].kind # "pics"
      BY <2>3, <2>6 DEF TypeOK
    <3>2. asked'[j] = "donor" => ask[j].kind \in StatsKinds
      BY <2>2, <2>3, <3>1 DEF Remembered
    <3> HIDE DEF IInv
    <3> QED
      BY <1>2, <2>2, <2>3, <2>5, <2>7, <3>1, <3>2 DEF Remembered, Carried, Ahead
  <2>8. CASE i # j
    <3>1. send'[i] = send[i] /\ asked'[i] = asked[i]
      BY <2>3, <2>6, <2>8 DEF TypeOK
    <3> QED
      BY <1>2, <2>2, <2>3, <3>1 DEF Remembered, Carried
  <2> QED
    BY <2>7, <2>8
<1>7. CASE SendPlain(j)
  <2>1. /\ UNCHANGED <<torn, noted, forgotten, ask>>
        /\ send[j] = "pass" /\ send'[j] = "sent" /\ asked'[j] = "own"
        /\ i # j => send'[i] = send[i] /\ asked'[i] = asked[i]
    BY <1>7 DEF SendPlain, TypeOK
  <2> QED
    BY <1>1, <1>2, <2>1 DEF Untorn, Remembered, Carried, StatsKinds, Ahead
<1>8. CASE FillRequest(j)
  <2>1. /\ UNCHANGED <<torn, noted, forgotten, asked, ask>>
        /\ send[j] = "fill" /\ send'[j] = "patched"
        /\ i # j => send'[i] = send[i]
    BY <1>8 DEF FillRequest, TypeOK
  <2> QED
    BY <1>1, <1>2, <2>1 DEF Untorn, Remembered, Carried, StatsKinds, Ahead
<1> QED
  BY <1>3, <1>4, <1>5, <1>6, <1>7, <1>8 DEF SendStep

LEMMA RecvRemembered ==
  ASSUME IInv, RecvStep \/ \E p \in Packets : Receive(p), NEW i \in Jobs
  PROVE  Untorn(i)'
<1> USE DEF IInv
<1> SUFFICES ASSUME ~torn'
             PROVE  Remembered(i)'
  BY DEF Untorn
<1>1. Remembered(i)
  <2>1. torn => torn'
    BY DEF RecvStep, Receive, Borrow, Deliver, Rewrite, FillRecv, HandOver
  <2> QED
    BY <2>1 DEF JobsRemembered
<1>2. /\ ask' = ask /\ send' = send /\ asked' = asked
      /\ configured' = configured /\ forgotten' = forgotten
  BY DEF RecvStep, Receive, Borrow, Deliver, Rewrite, FillRecv, HandOver, sendVars, configVars
<1>3. ASSUME NEW p \in Packets, Receive(p)
      PROVE  Remembered(i)'
  <2>1. /\ noted' = noted /\ got' = got /\ data' = data
        /\ carrier' = p /\ at' = "key" /\ at = "idle"
        /\ p.kind = "answer" => asked[p.job] # "none" /\ got[p.job] = "none"
    BY <1>3 DEF Receive
  <2> QED
    BY <1>1, <1>2, <2>1 DEF Remembered, Carried
<1>4. ASSUME NEW q \in Queues, Borrow(q)
      PROVE  Remembered(i)'
  <2>1. noted' = noted /\ got' = got /\ carrier' = carrier /\ at \notin {"refill", "hand"}
        /\ at' \notin {"refill", "hand"}
    BY <1>4 DEF Borrow, After, Queues
  <2> QED
    BY <1>1, <1>2, <2>1 DEF Remembered, Carried
<1>5. ASSUME NEW q \in Queues, Deliver(q)
      PROVE  Remembered(i)'
  <2>1. /\ noted' = noted /\ carrier' = carrier /\ at \notin {"refill", "hand"}
        /\ at' \notin {"refill", "hand"}
        /\ i # popped => got'[i] = got[i]
        /\ got'[i] \notin {"none", "donor"} \/ got'[i] = got[i]
    BY <1>5 DEF Deliver, Queues, TypeOK
  <2>2. at = "borrowed" /\ send[popped] = "suppressed"
    BY <1>5 DEF Deliver, QueuedAreSuppressed
  <2> QED
    BY <1>1, <1>2, <2>1, <2>2 DEF Remembered, Carried
<1>6. CASE Rewrite
  <2>1. /\ got' = got /\ carrier' = carrier /\ at = "rewrite" /\ at' \in {"refill", "hand"}
        /\ at' = "refill" => Rewritable(carrier)
        /\ noted' \subseteq noted
        /\ i \in noted \ noted' => Carried(i) /\ ask[i].kind = "stats"
    BY <1>6 DEF Rewrite, Carried
  <2>2. data = NoSlot
    BY <2>1 DEF ReceiverHolds
  <2>3. data' = NoSlot /\ Carried(i) =>
          \/ ~Rewritable(carrier) \/ ask[i].kind = "ticket"
    BY <1>6, FrameAssumption DEF Rewrite, Carried, TypeOK, Slots, NoSlot
  <2>4. ASSUME data' = NoSlot, Carried(i), asked[i] = "donor"
        PROVE  i \in forgotten
    <3>1. ask[i].kind \in StatsKinds /\ got[i] = "none"
      BY <1>1, <2>4 DEF Remembered
    <3>2. ~Rewritable(carrier)
      BY <2>3, <2>4, <3>1 DEF StatsKinds
    <3>3. ask[i].app \notin configured \/ (ask[i].kind = "stats" /\ i \notin noted)
      BY <2>4, <3>1, <3>2 DEF Rewritable, Carried, StatsKinds
    <3>4. at \notin {"refill", "hand"}
      BY <2>1
    <3> QED
      BY <1>1, <2>4, <3>1, <3>3, <3>4 DEF Remembered
  <2>5. Carried(i)' <=> Carried(i)
    BY <2>1 DEF Carried
  <2> QED
    BY <1>1, <1>2, <2>1, <2>4, <2>5 DEF Remembered
<1>7. CASE HandOver
  <2>1. /\ noted' = noted /\ at = "hand" /\ at' = "idle" /\ ~Carried(i)'
        /\ ~Carried(i) => got'[i] = got[i]
        /\ Carried(i) => got'[i] \in {Plain(carrier), "rewritten", "garbled"}
                         /\ (data # NoSlot => got'[i] \in {"rewritten", "garbled"})
    BY <1>7 DEF HandOver, Carried, NoPacket, TypeOK, Packets
  <2>2. Carried(i) /\ got'[i] = "donor" => data = NoSlot /\ asked[i] = "donor"
    BY <2>1 DEF Plain, Carried
  <2>3. Carried(i) => got'[i] # "none"
    BY <1>1, <2>1 DEF Plain, Carried, Remembered
  <2> QED
    BY <1>1, <1>2, <2>1, <2>2, <2>3 DEF Remembered
<1>8. CASE FillRecv
  <2>1. /\ noted' = noted /\ got' = got /\ carrier' = carrier /\ data' = data
        /\ at' = "hand" => at = "refill"
        /\ at \in {"fill", "refill"} /\ at' \in {"borrowed", "hand"}
        /\ at = "refill" => at' = "hand"
    BY <1>8 DEF FillRecv
  <2> QED
    BY <1>1, <1>2, <2>1 DEF Remembered, Carried
<1> QED
  BY <1>3, <1>4, <1>5, <1>6, <1>7, <1>8 DEF RecvStep

LEMMA NextRemembered ==
  ASSUME IInv, Next
  PROVE  JobsRemembered'
<1> SUFFICES ASSUME NEW i \in Jobs
             PROVE  Untorn(i)'
  BY DEF JobsRemembered, Untorn
<1>1. Untorn(i)
  BY DEF IInv, JobsRemembered, Untorn
<1>2. ASSUME NEW j \in Jobs, (\E r \in Asks[j] : Send(j, r)) \/ SendStep(j)
      PROVE  Untorn(i)'
  BY <1>2, SendRemembered
<1>3. ASSUME NEW j \in Jobs, FetchStep(j)
      PROVE  Untorn(i)'
  BY <1>1, <1>3, IdleRemembered DEF FetchStep, configVars, sendVars, recvVars
<1>4. ASSUME NEW a \in Apps, Expire(a)
      PROVE  Untorn(i)'
  BY <1>1, <1>4, IdleRemembered DEF Expire, configVars, sendVars, recvVars
<1>5. ASSUME NEW a \in Apps, Reload(a)
      PROVE  Untorn(i)'
  <2>1. /\ UNCHANGED <<torn, noted, ask, send, asked, got, carrier, at, data>>
        /\ forgotten \subseteq forgotten'
        /\ ask[i].app \in configured \ configured' => i \in forgotten'
    BY <1>5 DEF Reload, sendVars, recvVars
  <2> QED
    BY <1>1, <2>1 DEF Untorn, Remembered, Carried
<1>6. CASE RecvStep \/ \E p \in Packets : Receive(p)
  BY <1>6, RecvRemembered
<1> QED
  BY <1>2, <1>3, <1>4, <1>5, <1>6 DEF Next

LEMMA NextIInv ==
  ASSUME IInv, [Next]_vars
  PROVE  IInv'
<1>1. CASE Next
  <2>1. TypeOK' /\ RequestsAreReal'
    BY <1>1, NextTypes, NextRequests DEF IInv
  <2>2. FramesHold' /\ ReceiverHolds'
    BY <1>1, NextFrames
  <2>3. DonorsConsistent' /\ QueuedAreSuppressed' /\ JobsRemembered'
    BY <1>1, NextDonors, NextQueued, NextRemembered
  <2> QED
    BY <2>1, <2>2, <2>3 DEF IInv
<1>2. CASE UNCHANGED vars
  <2> USE <1>2 DEF IInv, vars, donorVars, configVars, poolVars, sendVars, recvVars
  <2>1. TypeOK' /\ RequestsAreReal'
    BY DEF TypeOK, DonorTypeOK, RequestsAreReal
  <2>2. FramesHold' /\ ReceiverHolds'
    BY StillFrames
  <2>3. DonorsConsistent' /\ QueuedAreSuppressed'
    BY DEF DonorsConsistent, QueuedAreSuppressed
  <2>4. JobsRemembered'
    BY DEF JobsRemembered, Remembered, Carried
  <2> QED
    BY <2>1, <2>2, <2>3, <2>4
<1> QED
  BY <1>1, <1>2

LEMMA Inductive == Spec => []IInv
<1>1. Init => IInv
  BY InitIInv
<1>2. IInv /\ [Next]_vars => IInv'
  BY NextIInv
<1> QED
  BY <1>1, <1>2, PTL DEF Spec

-----------------------------------------------------------------------------
(* That a job gets one answer.                                             *)

\* Who is asked for and who is answered: only requests in a frame are asked for,
\* and a job that the server was asked for is not answered here.
SidesInv ==
  /\ \A q \in Queues : \A i \in 1 .. Len(queue[q]) : QueueOf(ask[queue[q][i]]) = q
  /\ \A j \in Jobs : asked[j] # "none" => send[j] \in {"patched", "sent"}
  /\ \A s \in Slots : slot[s].what = "request" =>
       slot[s].job \in Jobs /\ send[slot[s].job] \in {"patched", "sent"}
  /\ \A j \in Jobs : got[j] # "none" => send[j] \in {"suppressed", "patched", "sent"}
  /\ popped # NoJob => at \in {"fill", "borrowed"}
  /\ carrier.kind = "answer" => asked[carrier.job] # "none" /\ got[carrier.job] = "none"

AInv == SidesInv /\ OneAnswerEach

LEMMA InitAInv == Init => AInv
<1> SUFFICES ASSUME Init PROVE AInv
  OBVIOUS
<1>1. SidesInv
  BY DEF Init, SidesInv, NoFrame, NoPacket, Queues
<1>2. OneAnswerEach
  BY DEF Init, OneAnswerEach, Queued, NoPacket, Answer, NoJob, Jobs, Queues
<1> QED
  BY <1>1, <1>2 DEF AInv

\* A request that was suppressed stays it, and one whose frame was built is sent.
SendsGoOn ==
  \A j \in Jobs :
    /\ send[j] = "suppressed" => send'[j] = "suppressed" /\ ask'[j] = ask[j]
    /\ send[j] \in {"patched", "sent"} => send'[j] \in {"patched", "sent"}

LEMMA NextSendsGoOn ==
  ASSUME IInv, Next
  PROVE  SendsGoOn
<1>1. CASE UNCHANGED sendVars
  BY <1>1 DEF SendsGoOn, sendVars
<1>2. ASSUME NEW j \in Jobs, (\E r \in Asks[j] : Send(j, r)) \/ SendStep(j)
      PROVE  SendsGoOn
  BY <1>2 DEF SendsGoOn, Send, SendStep, LookUp, WarmUp, AnswerHere, Patch, FillRequest,
              SendPatched, SendPlain, SendGoes, IInv, TypeOK
<1> QED
  BY <1>1, <1>2 DEF Next, FetchStep, Reload, Expire, Receive, RecvStep, Rewrite, FillRecv,
                    HandOver, Borrow, Deliver

\* What stands in queues and with the receiver.
LEMMA QueuedJobs ==
  ASSUME IInv, AInv
  PROVE  /\ \A q \in Queues : /\ queue[q] \in Seq(Jobs) /\ DOMAIN queue[q] = 1 .. Len(queue[q])
                              /\ \A i \in DOMAIN queue[q] : send[queue[q][i]] = "suppressed"
         /\ \A j \in Jobs : Queued(j) \/ popped = j => send[j] = "suppressed"
         /\ \A j \in Jobs : carrier = Answer(j) =>
              send[j] \in {"patched", "sent"} /\ got[j] = "none"
<1>1. \A q \in Queues : queue[q] \in Seq(Jobs) /\ DOMAIN queue[q] = 1 .. Len(queue[q])
  BY DEF IInv, TypeOK
<1>2. \A q \in Queues : \A i \in DOMAIN queue[q] : send[queue[q][i]] = "suppressed"
  BY <1>1 DEF IInv, QueuedAreSuppressed
<1>3. \A j \in Jobs : popped = j => send[j] = "suppressed"
  BY DEF IInv, QueuedAreSuppressed, AInv, SidesInv, NoJob, Jobs
<1>4. \A j \in Jobs : carrier = Answer(j) => asked[j] # "none" /\ got[j] = "none"
  BY DEF AInv, SidesInv, Answer
<1> QED
  BY <1>1, <1>2, <1>3, <1>4 DEF Queued, AInv, SidesInv

\* Steps that leave the queues alone, and answer only jobs that the server was
\* asked for.
LEMMA QuietAnswers ==
  ASSUME IInv, AInv, SendsGoOn, UNCHANGED <<queue, popped>>,
         popped # NoJob => at' \in {"fill", "borrowed"},
         \A j \in Jobs : asked'[j] = asked[j] \/ send'[j] \in {"patched", "sent"},
         \A j \in Jobs : got'[j] = got[j] \/ send[j] \in {"patched", "sent"},
         \A s \in Slots : slot'[s].what = "request" =>
            \/ slot'[s] = slot[s]
            \/ slot'[s].job \in Jobs /\ send'[slot'[s].job] \in {"patched", "sent"},
         carrier'.kind = "answer" =>
            carrier'.job \in Jobs /\ asked'[carrier'.job] # "none" /\ got'[carrier'.job] = "none"
  PROVE  AInv'
<1>1. \A q \in Queues : \A i \in 1 .. Len(queue[q]) :
        queue[q][i] \in Jobs /\ send[queue[q][i]] = "suppressed"
  BY QueuedJobs
<1>2. SidesInv'
  <2>1. \A q \in Queues : \A i \in 1 .. Len(queue'[q]) : QueueOf(ask'[queue'[q][i]]) = q
    BY <1>1 DEF AInv, SidesInv, SendsGoOn
  <2>2. \A j \in Jobs : asked'[j] # "none" => send'[j] \in {"patched", "sent"}
    BY DEF AInv, SidesInv, SendsGoOn
  <2>3. \A s \in Slots : slot'[s].what = "request" =>
          slot'[s].job \in Jobs /\ send'[slot'[s].job] \in {"patched", "sent"}
    BY DEF AInv, SidesInv, SendsGoOn
  <2>4. \A j \in Jobs : got'[j] # "none" => send'[j] \in {"suppressed", "patched", "sent"}
    BY DEF AInv, SidesInv, SendsGoOn
  <2>5. popped' # NoJob => at' \in {"fill", "borrowed"}
    OBVIOUS
  <2> QED
    BY <2>1, <2>2, <2>3, <2>4, <2>5 DEF SidesInv, QueueOf
<1>3. ASSUME NEW j \in Jobs, Queued(j) \/ popped = j
      PROVE  asked'[j] = "none" /\ got'[j] = "none"
  <2>1. send[j] = "suppressed" /\ send'[j] = "suppressed"
    BY <1>3, QueuedJobs DEF SendsGoOn
  <2> QED
    BY <1>3, <2>1 DEF AInv, OneAnswerEach
<1>4. \A j \in Jobs : carrier' = Answer(j) => got'[j] = "none"
  BY DEF Answer
<1>5. OneAnswerEach'
  BY <1>3, <1>4 DEF AInv, OneAnswerEach, Queued, Answer
<1> QED
  BY <1>2, <1>5 DEF AInv

LEMMA SendAnswers ==
  ASSUME IInv, AInv, SendsGoOn, NEW j \in Jobs,
         (\E r \in Asks[j] : Send(j, r)) \/ LookUp(j) \/ WarmUp(j) \/ Patch(j)
           \/ FillRequest(j) \/ SendPatched(j) \/ SendPlain(j) \/ FetchStep(j)
  PROVE  AInv'
<1>1. /\ DOMAIN send = Jobs /\ DOMAIN asked = Jobs /\ slot \in [Slots -> Frames]
      /\ carrier.kind = "answer" => carrier.job \in Jobs
  BY DEF IInv, TypeOK, Packets, NoPacket
<1>2. CASE UNCHANGED <<asked, slot>>
  BY <1>1, <1>2, QuietAnswers
     DEF Send, LookUp, WarmUp, Patch, FillRequest, SendPatched, SendPlain, FetchStep, recvVars, AInv, SidesInv
<1>3. CASE FillRequest(j)
  <2>1. PICK g : /\ slot' = [slot EXCEPT ![held[j]] = g]
                 /\ g \in {[job |-> j, what |-> "request"], Mixture}
    BY <1>3 DEF FillRequest, FillSlot
  <2>2. UNCHANGED <<queue, carrier, at, popped, asked, got>> /\ send'[j] = "patched"
    BY <1>1, <1>3 DEF FillRequest, recvVars, SendGoes
  <2>3. \A s \in Slots : slot'[s].what = "request" =>
          \/ slot'[s] = slot[s]
          \/ slot'[s].job \in Jobs /\ send'[slot'[s].job] \in {"patched", "sent"}
    BY <1>1, <2>1, <2>2 DEF Mixture
  <2> QED
    BY <1>1, <2>2, <2>3, QuietAnswers DEF AInv, SidesInv
<1>4. CASE SendPatched(j)
  <2>1. held[j] \in Slots
    BY <1>4, JobsHold DEF SendPatched, SendGoes, IInv, FramesHold, Holds, Place, Ring
  <2>2. PICK f \in Readable(held[j]) :
          asked' = IF f.what = "request" /\ asked[f.job] = "none"
                   THEN [asked EXCEPT ![f.job] = Account(f)] ELSE asked
    BY <1>4 DEF SendPatched
  <2>3. f.what = "request" => f.job \in Jobs /\ send[f.job] \in {"patched", "sent"}
    BY <2>1, <2>2 DEF Readable, Mixture, AInv, SidesInv
  <2>4. /\ UNCHANGED <<queue, slot, carrier, at, popped, got>>
        /\ \A i \in Jobs : asked'[i] = asked[i]
                           \/ (f.what = "request" /\ i = f.job /\ asked[i] = "none"
                               /\ asked'[i] # "none")
    BY <1>1, <1>4, <2>2 DEF SendPatched, poolVars, recvVars, Account
  <2>5. \A i \in Jobs : asked'[i] = asked[i] \/ send'[i] \in {"patched", "sent"}
    BY <2>3, <2>4 DEF SendsGoOn
  <2> QED
    BY <1>1, <2>4, <2>5, QuietAnswers DEF AInv, SidesInv
<1>5. CASE SendPlain(j)
  <2>1. /\ UNCHANGED <<queue, slot, carrier, at, popped, got>> /\ send'[j] = "sent"
        /\ \A i \in Jobs : asked'[i] = IF i = j THEN "own" ELSE asked[i]
    BY <1>1, <1>5 DEF SendPlain, poolVars, recvVars, SendGoes
  <2> QED
    BY <1>1, <2>1, QuietAnswers DEF AInv, SidesInv
<1> QED
  BY <1>2, <1>3, <1>4, <1>5 DEF Send, LookUp, WarmUp, Patch, AcquireSlot, FetchStep, poolVars

LEMMA ReloadAnswers ==
  ASSUME IInv, AInv, SendsGoOn, NEW a \in Apps, Reload(a) \/ Expire(a)
  PROVE  AInv'
<1>1. UNCHANGED <<queue, slot, carrier, at, popped, asked, got>>
  BY DEF Reload, Expire, poolVars, recvVars
<1>2. carrier.kind = "answer" => carrier.job \in Jobs
  BY DEF IInv, TypeOK, Packets, NoPacket
<1> QED
  BY <1>1, <1>2, QuietAnswers DEF AInv, SidesInv

\* The answer goes into the queue of a request that nobody has answered.
LEMMA QueueAnswers ==
  ASSUME IInv, AInv, SendsGoOn, NEW j \in Jobs, AnswerHere(j)
  PROVE  AInv'
<1> DEFINE q == QueueOf(ask[j])
<1>1. CASE UNCHANGED queue
  BY <1>1, QuietAnswers DEF AnswerHere, poolVars, recvVars, AInv, SidesInv, IInv, TypeOK,
                            Packets, NoPacket
<1>2. CASE queue' = [queue EXCEPT ![q] = Append(@, j)] /\ send'[j] = "suppressed"
  <2>1. /\ UNCHANGED <<slot, carrier, at, popped, asked, got, ask>>
        /\ send[j] = "answer" /\ send' = [send EXCEPT ![j] = "suppressed"]
    BY <1>2 DEF AnswerHere, poolVars, recvVars, SendGoes, IInv, TypeOK
  <2>2. /\ q \in Queues /\ queue \in [Queues -> Seq(Jobs)]
        /\ DOMAIN send = Jobs
    BY DEF QueueOf, Queues, IInv, TypeOK
  <2>3. \A p \in Queues : \A i \in 1 .. Len(queue'[p]) :
          \/ i \in 1 .. Len(queue[p]) /\ queue'[p][i] = queue[p][i]
          \/ p = q /\ i = Len(queue[p]) + 1 /\ queue'[p][i] = j
    BY <1>2, <2>2
  <2>4. \A p \in Queues : queue'[p] \in Seq(Jobs) /\ DOMAIN queue'[p] = 1 .. Len(queue'[p])
    BY <1>2, <2>2
  <2>5. asked[j] = "none" /\ got[j] = "none" /\ ~Queued(j) /\ popped # j
    BY <2>1, QueuedJobs DEF AInv, SidesInv
  <2>6. \A i \in Jobs : Queued(i)' => Queued(i) \/ i = j
    BY <2>3, <2>4 DEF Queued
  <2>7. SidesInv'
    <3>1. \A p \in Queues : \A i \in 1 .. Len(queue'[p]) : QueueOf(ask'[queue'[p][i]]) = p
      BY <2>1, <2>3 DEF AInv, SidesInv
    <3> QED
      BY <2>1, <2>2, <3>1 DEF AInv, SidesInv, SendsGoOn
  <2>8. \A p \in Queues : \A i, k \in DOMAIN queue'[p] : queue'[p][i] = queue'[p][k] => i = k
    <3>1. \A p \in Queues : DOMAIN queue[p] = 1 .. Len(queue[p])
      BY <2>2
    <3>2. \A p \in Queues : \A i \in 1 .. Len(queue[p]) : queue[p][i] # j
      BY <2>5, <3>1 DEF Queued
    <3> QED
      BY <2>3, <2>4, <3>1, <3>2 DEF AInv, OneAnswerEach
  <2>9. OneAnswerEach'
    BY <2>1, <2>5, <2>6, <2>8 DEF AInv, OneAnswerEach, Answer
  <2> QED
    BY <2>7, <2>9 DEF AInv
<1> QED
  BY <1>1, <1>2 DEF AnswerHere, SendGoes, IInv, TypeOK

LEMMA Tails ==
  ASSUME NEW S, NEW s \in Seq(S), s # <<>>
  PROVE  /\ Head(s) = s[1] /\ Head(s) \in S /\ 1 \in 1 .. Len(s) /\ Tail(s) \in Seq(S)
         /\ \A i \in 1 .. Len(Tail(s)) :
              i \in Nat /\ i + 1 \in 1 .. Len(s) /\ Tail(s)[i] = s[i + 1]
<1>1. Len(s) \in Nat /\ Len(s) > 0 /\ Len(Tail(s)) = Len(s) - 1
  OBVIOUS
<1> QED
  BY <1>1

\* The answer leaves the queue for the packet's place ...
LEMMA BorrowAnswers ==
  ASSUME IInv, AInv, SendsGoOn, NEW q \in Queues, Borrow(q)
  PROVE  AInv'
<1>1. popped = NoJob
  BY DEF Borrow, AInv, SidesInv, Queues
<1>2. /\ UNCHANGED <<carrier, asked, got, ask, send>>
      /\ slot \in [Slots -> Frames] /\ queue \in [Queues -> Seq(Jobs)]
      /\ carrier.kind = "answer" => carrier.job \in Jobs
  BY DEF Borrow, sendVars, IInv, TypeOK, Packets, NoPacket
<1>3. CASE UNCHANGED <<queue, slot, popped>>
  BY <1>1, <1>2, <1>3, QuietAnswers DEF AInv, SidesInv
<1>4. CASE queue[q] # <<>>
  <2>0. PICK j \in Jobs : j = Head(queue[q])
    BY <1>2, <1>4
  <2>1. /\ popped' = j /\ queue' = [queue EXCEPT ![q] = Tail(@)] /\ at' = "fill"
        /\ slot' = slot
    BY <1>4, <2>0 DEF Borrow, AcquireSlot
  <2>2. /\ j \in Jobs /\ j = queue[q][1] /\ 1 \in 1 .. Len(queue[q]) /\ Tail(queue[q]) \in Seq(Jobs)
        /\ \A i \in 1 .. Len(Tail(queue[q])) :
             /\ i \in Nat /\ i + 1 \in 1 .. Len(queue[q])
             /\ Tail(queue[q])[i] = queue[q][i + 1]
    BY <1>2, <1>4, <2>0, Tails
  <2>3. \A p \in Queues : queue'[p] = IF p = q THEN Tail(queue[q]) ELSE queue[p]
    BY <1>2, <2>1
  <2>4. \A p \in Queues : /\ queue[p] \in Seq(Jobs) /\ DOMAIN queue[p] = 1 .. Len(queue[p])
                          /\ Len(queue[p]) \in Nat
                          /\ queue'[p] \in Seq(Jobs) /\ DOMAIN queue'[p] = 1 .. Len(queue'[p])
    <3>1. \A p \in Queues : queue[p] \in Seq(Jobs)
      BY <1>2
    <3>2. \A p \in Queues : queue'[p] \in Seq(Jobs)
      BY <2>2, <2>3, <3>1
    <3> QED
      BY <3>1, <3>2
  <2>5. \A p \in Queues : \A i \in 1 .. Len(queue'[p]) :
          IF p = q THEN i + 1 \in 1 .. Len(queue[p]) /\ queue'[p][i] = queue[p][i + 1]
          ELSE i \in 1 .. Len(queue[p]) /\ queue'[p][i] = queue[p][i]
    <3> SUFFICES ASSUME NEW p \in Queues, NEW i \in 1 .. Len(queue'[p])
                 PROVE  IF p = q THEN i + 1 \in 1 .. Len(queue[p]) /\ queue'[p][i] = queue[p][i + 1]
                        ELSE i \in 1 .. Len(queue[p]) /\ queue'[p][i] = queue[p][i]
      OBVIOUS
    <3>1. CASE p = q
      <4>1. queue'[p] = Tail(queue[q])
        BY <2>3, <3>1
      <4> QED
        BY <2>2, <3>1, <4>1
    <3>2. CASE p # q
      BY <2>3, <3>2
    <3> QED
      BY <3>1, <3>2
  <2>6. Queued(j) /\ send[j] = "suppressed" /\ asked[j] = "none" /\ got[j] = "none"
    <3>1. Queued(j)
      BY <2>2, <2>4 DEF Queued
    <3> QED
      BY <2>2, <3>1, QueuedJobs DEF AInv, OneAnswerEach
  <2>7. \A n \in Jobs : Queued(n)' => Queued(n)
    <3> SUFFICES ASSUME NEW n \in Jobs, NEW p \in Queues, NEW i \in DOMAIN queue'[p],
                        queue'[p][i] = n
                 PROVE  Queued(n)
      BY DEF Queued
    <3>1. \E k \in 1 .. Len(queue[p]) : queue[p][k] = n
      BY <2>4, <2>5
    <3> QED
      BY <2>4, <3>1 DEF Queued
  <2>8. ~Queued(j)'
    <3>0. \A p \in Queues : DOMAIN queue'[p] = 1 .. Len(queue'[p])
      BY <2>4
    <3> SUFFICES ASSUME NEW p \in Queues, NEW i \in 1 .. Len(queue'[p]), queue'[p][i] = j
                 PROVE  FALSE
      BY <3>0 DEF Queued
    <3>1. CASE p = q
      <4>1. i + 1 \in DOMAIN queue[q] /\ queue[q][i + 1] = queue[q][1] /\ 1 \in DOMAIN queue[q]
        BY <2>2, <2>4, <2>5, <3>1
      <4>2. i + 1 = 1
        BY <4>1 DEF AInv, OneAnswerEach
      <4> QED
        BY <4>2
    <3>2. CASE p # q
      <4>1. i \in 1 .. Len(queue[p]) /\ queue[p][i] = j /\ 1 \in 1 .. Len(queue[q])
        BY <2>2, <2>5, <3>2
      <4>2. QueueOf(ask[j]) = p /\ QueueOf(ask[j]) = q
        BY <2>2, <4>1 DEF AInv, SidesInv
      <4> QED
        BY <3>2, <4>2
    <3> QED
      BY <3>1, <3>2
  <2>9. SidesInv'
    <3>1. \A p \in Queues : \A i \in 1 .. Len(queue'[p]) : QueueOf(ask'[queue'[p][i]]) = p
      BY <1>2, <2>5 DEF AInv, SidesInv
    <3>2. \A s \in Slots : slot'[s].what = "request" => slot'[s] = slot[s]
      BY <1>2, <2>1
    <3> QED
      BY <1>2, <2>1, <3>1, <3>2 DEF AInv, SidesInv
  <2>10. \A p \in Queues : \A i, k \in DOMAIN queue'[p] : queue'[p][i] = queue'[p][k] => i = k
    <3> SUFFICES ASSUME NEW p \in Queues, NEW i \in 1 .. Len(queue'[p]),
                        NEW k \in 1 .. Len(queue'[p]), queue'[p][i] = queue'[p][k]
                 PROVE  i = k
      BY <2>4
    <3>1. CASE p = q
      <4>1. /\ i + 1 \in DOMAIN queue[p] /\ k + 1 \in DOMAIN queue[p]
            /\ queue[p][i + 1] = queue[p][k + 1]
        BY <2>4, <2>5, <3>1
      <4>2. i + 1 = k + 1
        BY <4>1 DEF AInv, OneAnswerEach
      <4> QED
        BY <4>2
    <3>2. CASE p # q
      <4>1. /\ i \in DOMAIN queue[p] /\ k \in DOMAIN queue[p]
            /\ queue[p][i] = queue[p][k]
        BY <2>4, <2>5, <3>2
      <4> QED
        BY <4>1 DEF AInv, OneAnswerEach
    <3> QED
      BY <3>1, <3>2
  <2>11. \A i \in Jobs : Queued(i)' \/ popped' = i => asked'[i] = "none" /\ got'[i] = "none"
    BY <1>2, <2>1, <2>6, <2>7 DEF AInv, OneAnswerEach
  <2>12. \A i \in Jobs : ~(Queued(i)' /\ popped' = i)
    BY <2>1, <2>8
  <2> QED
    BY <1>2, <2>9, <2>10, <2>11, <2>12 DEF AInv, OneAnswerEach, Answer
<1> QED
  BY <1>3, <1>4 DEF Borrow, poolVars

\* ... and is delivered from there.
LEMMA DeliverAnswers ==
  ASSUME IInv, AInv, SendsGoOn, NEW q \in Queues, Deliver(q)
  PROVE  AInv'
<1>1. /\ popped \in Jobs /\ send[popped] = "suppressed" /\ ~Queued(popped)
      /\ DOMAIN got = Jobs
  <2>1. popped \in Jobs /\ send[popped] = "suppressed"
    BY DEF Deliver, IInv, QueuedAreSuppressed
  <2>2. ~Queued(popped)
    BY <2>1 DEF AInv, OneAnswerEach
  <2>3. DOMAIN got = Jobs
    BY DEF IInv, TypeOK
  <2> QED
    BY <2>1, <2>2, <2>3
<1>2. /\ UNCHANGED <<queue, slot, carrier, asked, ask, send>> /\ popped' = NoJob
      /\ \A i \in Jobs : got'[i] = got[i] \/ i = popped
  BY <1>1 DEF Deliver, poolVars, sendVars
<1>3. carrier.kind = "answer" => carrier.job \in Jobs /\ carrier.job # popped
  <2>1. carrier.kind = "answer" => carrier.job \in Jobs
    BY DEF IInv, TypeOK, Packets, NoPacket
  <2> QED
    BY <1>1, <2>1 DEF AInv, SidesInv
<1>4. SidesInv'
  BY <1>1, <1>2, <1>3 DEF AInv, SidesInv
<1>5. \A i \in Jobs : popped' # i
  BY <1>2 DEF NoJob, Jobs
<1>6. OneAnswerEach'
  BY <1>1, <1>2, <1>3, <1>5 DEF AInv, OneAnswerEach, Queued, Answer
<1> QED
  BY <1>4, <1>6 DEF AInv

LEMMA RecvAnswers ==
  ASSUME IInv, AInv, SendsGoOn, (\E p \in Packets : Receive(p)) \/ RecvStep
  PROVE  AInv'
<1>1. /\ slot \in [Slots -> Frames] /\ DOMAIN got = Jobs
      /\ carrier \in Packets \cup {NoPacket}
      /\ carrier.kind = "answer" => carrier.job \in Jobs
  BY DEF IInv, TypeOK, Packets, NoPacket
<1>2. ASSUME NEW p \in Packets, Receive(p)
      PROVE  AInv'
  <2>1. p.kind = "answer" => p.job \in Jobs
    BY DEF Packets
  <2>2. popped = NoJob /\ carrier' = p /\ UNCHANGED <<queue, popped, asked, got, slot>>
    BY <1>2 DEF Receive, AInv, SidesInv, poolVars
  <2>3. p.kind = "answer" => asked[p.job] # "none" /\ got[p.job] = "none"
    BY <1>2 DEF Receive
  <2> QED
    BY <2>1, <2>2, <2>3, QuietAnswers
<1>3. CASE Rewrite
  <2>1. popped = NoJob /\ UNCHANGED <<queue, popped, asked, got, carrier>>
    BY <1>3 DEF Rewrite, AInv, SidesInv
  <2>2. slot' = slot
    BY <1>3 DEF Rewrite, AcquireSlot, poolVars
  <2> QED
    BY <1>1, <2>1, <2>2, QuietAnswers DEF AInv, SidesInv
<1>5. CASE FillRecv
  <2>1. /\ UNCHANGED <<queue, popped, asked, got, carrier>>
        /\ (at = "fill" /\ at' = "borrowed") \/ at = "refill"
    BY <1>5 DEF FillRecv
  <2>2. popped # NoJob => at' \in {"fill", "borrowed"}
    BY <2>1 DEF AInv, SidesInv
  <2>3. \A s \in Slots : slot'[s].what = "request" => slot'[s] = slot[s]
    <3>1. PICK g : slot' = [slot EXCEPT ![data] = g] /\ g \in {RecvFrame, Mixture}
      BY <1>5 DEF FillRecv, FillSlot
    <3>2. g.what # "request"
      BY <3>1 DEF RecvFrame, Mixture
    <3> QED
      BY <1>1, <3>1, <3>2
  <2> QED
    BY <1>1, <2>1, <2>2, <2>3, QuietAnswers DEF AInv, SidesInv
<1>4. CASE HandOver
  <2>1. /\ popped = NoJob /\ UNCHANGED <<queue, popped, asked, slot>> /\ carrier' = NoPacket
        /\ \A i \in Jobs : got'[i] = got[i] \/ (carrier.kind = "answer" /\ i = carrier.job)
    BY <1>1, <1>4 DEF HandOver, AInv, SidesInv, poolVars
  <2>2. \A i \in Jobs : got'[i] = got[i] \/ send[i] \in {"patched", "sent"}
    BY <2>1 DEF AInv, SidesInv
  <2>3. carrier'.kind # "answer"
    BY <2>1 DEF NoPacket
  <2> QED
    BY <2>1, <2>2, <2>3, QuietAnswers
<1> QED
  BY <1>2, <1>3, <1>4, <1>5, BorrowAnswers, DeliverAnswers DEF RecvStep

LEMMA NextAInv ==
  ASSUME IInv, AInv, [Next]_vars
  PROVE  AInv'
<1>1. CASE Next
  <2>1. SendsGoOn
    BY <1>1, NextSendsGoOn
  <2>2. ASSUME NEW a \in Apps, Reload(a) \/ Expire(a) PROVE AInv'
    BY <2>1, <2>2, ReloadAnswers
  <2> QED
    BY <1>1, <2>1, <2>2, SendAnswers, QueueAnswers, RecvAnswers DEF Next, SendStep
<1>2. CASE UNCHANGED vars
  BY <1>2 DEF vars, sendVars, recvVars, poolVars, AInv, SidesInv, OneAnswerEach, Queued, QueueOf
<1> QED
  BY <1>1, <1>2

LEMMA InductiveAnswers == Spec => []AInv
<1>1. Init => AInv
  BY InitAInv
<1>2. IInv /\ AInv /\ [Next]_vars => AInv'
  BY NextAInv
<1> QED
  BY <1>1, <1>2, Inductive, PTL DEF Spec

-----------------------------------------------------------------------------
(* The theorems. *)

\* The variables of the hooks, of the pool and of the donors keep their types.
THEOREM TypeCorrect == Spec => []TypeOK
<1>1. IInv => TypeOK
  BY DEF IInv
<1> QED
  BY <1>1, Inductive, PTL

\* AcquirePacketSlot gives a slot away again only after PoolSize - 1 others: a
\* frame that is read before is read as it was built, unless a thread that took
\* its slot a whole round earlier had still to copy its own frame into it.
THEOREM FramesAreIntact == Spec => []FramesSurvive
<1>1. IInv => FramesSurvive
  <2> SUFFICES ASSUME IInv PROVE FramesSurvive
    OBVIOUS
  <2>1. ASSUME NEW i \in Holders, Holds(i), ~Fills(i), Clean(i)
        PROVE  Readable(Place(i)) = {Frame(i)}
    <3>1. Place(i) \in Slots /\ Alone(i) /\ slot[Place(i)] = Frame(i)
      BY <2>1 DEF IInv, FramesHold, Ring
    <3>2. ~Filling(Place(i))
      BY <2>1, <3>1, FillersHold DEF Alone
    <3> QED
      BY <3>1, <3>2 DEF Readable
  <2>2. ASSUME NEW j \in Jobs, send[j] = "patched", built - stamp[j] < PoolSize,
               held[j] \notin crossed
        PROVE  Readable(held[j]) = {[job |-> j, what |-> "request"]}
    BY <2>1, <2>2, JobsHold DEF Holds, Fills, Clean, Place, Since, Frame
  <2>3. ASSUME at \in {"borrowed", "hand"}, data # NoSlot, built - recvStamp < PoolSize,
               data \notin crossed
        PROVE  Readable(data) = {RecvFrame}
    BY <2>1, <2>3 DEF Holders, Holds, Fills, Clean, Place, Since, Frame
  <2> QED
    BY <2>2, <2>3 DEF FramesSurvive
<1> QED
  BY <1>1, Inductive, PTL

\* However sends and donor threads interleave, the donor of an app is asked for
\* by one thread at a time, and only while it is not known.
THEOREM DonorAskedOnce == Spec => []AsksOnceForUnknown
<1>1. IInv => AsksOnceForUnknown
  BY DEF IInv, DonorsConsistent, AsksOnceForUnknown
<1> QED
  BY <1>1, Inductive, PTL

\* A response to a request for a donor's statistics is rewritten before the
\* client sees it, unless the hooks were made to forget the request.
THEOREM DonorsStayHidden == Spec => []DonorStatsAreStripped
<1>1. IInv => DonorStatsAreStripped
  BY DEF IInv, JobsRemembered, Remembered, DonorStatsAreStripped
<1> QED
  BY <1>1, Inductive, PTL

\* A job gets one answer, from one side: one that the send hook answers
\* (EnqueueSyntheticResponse) is queued once and never asked of the server, and no
\* answer of the server is handed over to it, or to a job that has one.
THEOREM OneAnswer == Spec => []OneAnswerEach
<1>1. AInv => OneAnswerEach
  BY DEF AInv
<1> QED
  BY <1>1, InductiveAnswers, PTL
=============================================================================
