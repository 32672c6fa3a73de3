------------------------- MODULE ManifestCodesProofs -------------------------
(***************************************************************************)
(* Proofs about ManifestCodes, for any number of requests, manifests and   *)
(* restarts: what is kept for a job can be pruned, and a code once fetched *)
(* reaches every later request for it.                                     *)
(***************************************************************************)
EXTENDS ManifestCodes, SequenceTheorems, TLAPS

-----------------------------------------------------------------------------
(* The inductive invariant. *)

\* The hook's and the thread's own state: what a job asks for, and that the
\* file has been read before anything is looked up.
JobsConsistent ==
  \A j \in Jobs :
    /\ send[j] \in {"cached", "missed", "launched", "sent"} => wants[j] \in Manifests
    /\ send[j] # "sent" => instant[j] = NoCode /\ answer[j] = "none"
    /\ instant[j] # NoCode => instant[j] = wants[j] /\ answer[j] = "none"
    /\ fetch[j] # "none" => send[j] \in {"launched", "sent"}
    /\ fetch[j] \notin {"none", "cache"} => loaded
    /\ fetch[j] = "append" => wants[j] \in positive

\* Only jobs whose request went out are noted.
OrderIsSent == \A j \in Elements(order) : send[j] = "sent"

\* What a fetch returned is in the cache, or in the file that is not read yet;
\* so is what was written to it.
ResolvedIsCached ==
  /\ resolved \subseteq IF loaded THEN positive ELSE disk
  /\ saved \subseteq disk

\* The hook waits for a job that it has not answered and has no code for.
HandledIsOpen ==
  at # "idle" =>
    send[handled] = "sent" /\ answer[handled] = "none" /\ instant[handled] = NoCode

\* A request for such a manifest is on its way to an answer from the cache.
KnownIsServed ==
  \A j \in known :
    /\ send[j] \in {"cached", "sent"}
    /\ (send[j] = "sent" /\ answer[j] = "none" /\ j \notin expired) =>
         instant[j] # NoCode /\ ~(at # "idle" /\ handled = j)

IInv ==
  /\ TypeOK
  /\ JobsConsistent
  /\ OrderIsSent
  /\ ResolvedIsCached
  /\ HandledIsOpen
  /\ KnownIsServed
  /\ JobsAreTracked
  /\ AnswersConverge

-----------------------------------------------------------------------------
(* Lemmas about the list of jobs. *)

\* What is left of the list after its first k jobs, and a new one.
LEMMA PrunedElements ==
  ASSUME NEW s \in Seq(Jobs), NEW k \in 0 .. Len(s), NEW j \in Jobs
  PROVE  LET t == Append(SubSeq(s, k + 1, Len(s)), j) IN
         /\ t \in Seq(Jobs)
         /\ Elements(t) \subseteq Elements(s) \cup {j}
         /\ (Elements(s) \ Stale(s, k)) \cup {j} \subseteq Elements(t)
<1> DEFINE r == SubSeq(s, k + 1, Len(s))
           t == Append(r, j)
<1>1. /\ r \in Seq(Jobs)
      /\ Len(r) = Len(s) - k
      /\ \A i \in 1 .. Len(r) : r[i] = s[i + k]
  <2>1. /\ Len(s) \in Nat /\ k \in Nat /\ k <= Len(s)
        /\ \A i \in k + 1 .. Len(s) : s[i] \in Jobs
    OBVIOUS
  <2>2. /\ r \in Seq(Jobs)
        /\ Len(r) = IF k + 1 <= Len(s) THEN Len(s) - (k + 1) + 1 ELSE 0
        /\ \A i \in 1 .. Len(s) - (k + 1) + 1 : r[i] = s[(k + 1) + i - 1]
    BY <2>1, SubSeqProperties
  <2>3. Len(r) = Len(s) - k
    BY <2>1, <2>2
  <2>4. ASSUME NEW i \in 1 .. Len(r)
        PROVE  r[i] = s[i + k]
    <3>1. i \in 1 .. Len(s) - (k + 1) + 1 /\ (k + 1) + i - 1 = i + k
      BY <2>1, <2>3
    <3> HIDE DEF r
    <3> QED
      BY <2>2, <3>1
  <2> QED
    BY <2>2, <2>3, <2>4
<1> HIDE DEF r
<1>2. /\ t \in Seq(Jobs)
      /\ DOMAIN t = 1 .. (Len(s) - k + 1)
      /\ \A i \in 1 .. (Len(s) - k) : t[i] = s[i + k]
      /\ t[Len(s) - k + 1] = j
  BY <1>1
<1> HIDE DEF t
<1>3. Elements(t) \subseteq Elements(s) \cup {j}
  <2> SUFFICES ASSUME NEW i \in 1 .. (Len(s) - k + 1)
               PROVE  t[i] \in Elements(s) \cup {j}
    BY <1>2 DEF Elements
  <2>1. CASE i = Len(s) - k + 1
    BY <1>2, <2>1
  <2>2. CASE i # Len(s) - k + 1
    <3>1. i \in 1 .. (Len(s) - k) /\ i + k \in DOMAIN s
      BY <2>2
    <3> QED
      BY <1>2, <3>1 DEF Elements
  <2> QED
    BY <2>1, <2>2
<1>4. ASSUME NEW x \in Elements(s), x \notin Stale(s, k)
      PROVE  x \in Elements(t)
  <2>1. PICK i \in 1 .. Len(s) : x = s[i]
    BY <1>4 DEF Elements
  <2>2. i \notin 1 .. k
    BY <1>4, <2>1 DEF Stale
  <2>3. i - k \in 1 .. (Len(s) - k) /\ (i - k) + k = i
    BY <2>2
  <2>4. t[i - k] = x /\ i - k \in DOMAIN t
    BY <1>2, <2>1, <2>3
  <2> QED
    BY <2>4 DEF Elements
<1>5. j \in Elements(t)
  <2>1. Len(s) - k + 1 \in DOMAIN t
    BY <1>2
  <2> QED
    BY <1>2, <2>1 DEF Elements
<1> QED
  BY <1>2, <1>3, <1>4, <1>5 DEF t, r

-----------------------------------------------------------------------------
(* The invariant holds at first. *)

LEMMA InitIInv == Init => IInv
<1> SUFFICES ASSUME Init PROVE IInv
  OBVIOUS
<1> USE ManifestAssumption DEF Init
<1>1. TypeOK
  <2>1. restarts \in 0 .. MaxRestarts /\ handled = NoJob
    OBVIOUS
  <2>2. NoCode \in Codes /\ "none" \in Codes \cup {"none"}
    BY DEF Codes
  <2>3. order \in Seq(Jobs)
    OBVIOUS
  <2>4. /\ instant \in [Jobs -> Codes] /\ wants \in [Jobs -> Codes]
        /\ answer \in [Jobs -> Codes \cup {"none"}]
    BY <2>2
  <2> QED
    BY <2>1, <2>3, <2>4 DEF TypeOK
<1>2. Elements(order) = {}
  BY DEF Elements
<1>3. JobsConsistent /\ OrderIsSent /\ ResolvedIsCached /\ HandledIsOpen /\ KnownIsServed
  BY <1>2 DEF JobsConsistent, OrderIsSent, ResolvedIsCached, HandledIsOpen, KnownIsServed
<1>4. JobsAreTracked /\ AnswersConverge
  BY <1>2 DEF JobsAreTracked, AnswersConverge, Codes
<1> QED
  BY <1>1, <1>3, <1>4 DEF IInv

-----------------------------------------------------------------------------
(* Every step preserves it. *)

LEMMA RequestInv ==
  ASSUME IInv, NEW j \in Jobs, NEW m \in Wanted[j], Request(j, m)
  PROVE  IInv'
<1> USE DEF IInv, Request, Load, cacheVars, jobVars, recvVars
<1>1. m \in Manifests /\ send[j] = "new"
  BY ManifestAssumption
<1>2. TypeOK'
  BY <1>1 DEF TypeOK, Codes
<1>3. positive \subseteq positive' /\ resolved \subseteq positive' /\ loaded'
  BY DEF ResolvedIsCached, TypeOK
<1>4. \A i \in Jobs : i # j => wants'[i] = wants[i] /\ send'[i] = send[i]
  BY DEF TypeOK
<1>5. wants'[j] = m /\ send'[j] \in {"cached", "missed"} /\ (m \in resolved => send'[j] = "cached")
  BY <1>3 DEF TypeOK
<1>6. j \notin known /\ fetch[j] = "none" /\ instant[j] = NoCode /\ answer[j] = "none"
  BY <1>1 DEF KnownIsServed, JobsConsistent, TypeOK
<1>7. JobsConsistent'
  BY <1>1, <1>3, <1>4, <1>5, <1>6 DEF JobsConsistent
<1>8. OrderIsSent' /\ j \notin Elements(order)
  BY <1>1, <1>4 DEF OrderIsSent, Elements, TypeOK
<1>9. ResolvedIsCached'
  BY <1>3 DEF ResolvedIsCached
<1>10. HandledIsOpen'
  BY <1>1, <1>4 DEF HandledIsOpen, TypeOK
<1>11. KnownIsServed'
  BY <1>1, <1>4, <1>5, <1>6 DEF KnownIsServed, TypeOK
<1>12. JobsAreTracked' /\ AnswersConverge'
  BY <1>4, <1>6, ManifestAssumption DEF JobsAreTracked, AnswersConverge, Elements, Codes
<1> QED
  BY <1>2, <1>7, <1>8, <1>9, <1>10, <1>11, <1>12

LEMMA CheckNegativeInv ==
  ASSUME IInv, NEW j \in Jobs, CheckNegative(j)
  PROVE  IInv'
<1> USE DEF IInv, CheckNegative, NegativeHolds, NegativeIsOver, jobVars, recvVars, ghosts
<1>1. j \notin known /\ wants[j] \in Manifests /\ send[j] = "missed"
  BY DEF KnownIsServed, JobsConsistent
<1>2. TypeOK'
  BY DEF TypeOK
<1>3. \A i \in Jobs : i # j => send'[i] = send[i] /\ fetch'[i] = fetch[i]
  BY DEF TypeOK
<1>4. \/ send'[j] = "sent" /\ fetch'[j] = fetch[j] /\ fetch[j] = "none"
      \/ send'[j] = "launched" /\ fetch'[j] = "cache"
  BY DEF TypeOK, JobsConsistent
<1>5. JobsConsistent'
  BY <1>1, <1>3, <1>4 DEF JobsConsistent
<1>6. OrderIsSent'
  BY <1>1, <1>3 DEF OrderIsSent, Elements, TypeOK
<1>7. ResolvedIsCached'
  BY DEF ResolvedIsCached
<1>8. HandledIsOpen'
  BY <1>1, <1>3 DEF HandledIsOpen, TypeOK
<1>9. KnownIsServed'
  BY <1>1, <1>3 DEF KnownIsServed, TypeOK
<1>10. JobsAreTracked' /\ AnswersConverge'
  BY DEF JobsAreTracked, AnswersConverge, Elements
<1> QED
  BY <1>2, <1>5, <1>6, <1>7, <1>8, <1>9, <1>10

LEMMA RegisterInv ==
  ASSUME IInv, NEW j \in Jobs, Register(j)
  PROVE  IInv'
<1> USE DEF IInv, cacheVars, recvVars
<1>1. PICK k \in 0 .. Len(order) :
        /\ order' = Append(SubSeq(order, k + 1, Len(order)), j)
        /\ instant' = [i \in Jobs |-> IF i = j /\ send[j] = "cached" THEN wants[j]
                                      ELSE IF i \in Stale(order, k) THEN NoCode ELSE instant[i]]
        /\ futures' = (futures \cup (IF send[j] = "launched" THEN {j} ELSE {})) \ Stale(order, k)
        /\ expired' = expired \cup {i \in Stale(order, k) : answer[i] = "none"}
  BY DEF Register
<1>2. /\ order \in Seq(Jobs)
      /\ order' \in Seq(Jobs)
      /\ Elements(order') \subseteq Elements(order) \cup {j}
      /\ (Elements(order) \ Stale(order, k)) \cup {j} \subseteq Elements(order')
  <2>1. order \in Seq(Jobs)
    BY DEF TypeOK
  <2> QED
    BY <1>1, <2>1, PrunedElements
<1>3. Stale(order, k) \subseteq Elements(order) /\ Elements(order) \subseteq Jobs
  BY <1>2 DEF Stale, Elements
<1>4. /\ send[j] \in {"cached", "launched"} /\ wants[j] \in Manifests
      /\ instant[j] = NoCode /\ answer[j] = "none" /\ j \notin Elements(order)
  BY DEF Register, JobsConsistent, OrderIsSent
<1>5. send' = [send EXCEPT ![j] = "sent"] /\ UNCHANGED <<cacheVars, wants, fetch, recvVars,
                                                        restarts, resolved, saved, known>>
  BY DEF Register
<1>6. send'[j] = "sent" /\ \A i \in Jobs : i # j => send'[i] = send[i]
  BY <1>5 DEF TypeOK
<1>7. \A i \in Jobs : i # j => instant'[i] = IF i \in Stale(order, k) THEN NoCode ELSE instant[i]
  BY <1>1
<1>8. instant'[j] = IF send[j] = "cached" THEN wants[j] ELSE NoCode
  BY <1>1, <1>3, <1>4
<1>9. TypeOK'
  <2>1. instant' \in [Jobs -> Codes]
    BY <1>1, <1>4 DEF TypeOK, Codes
  <2>2. futures' \subseteq Jobs /\ expired' \subseteq Jobs
    BY <1>1, <1>3 DEF TypeOK
  <2> QED
    BY <1>2, <1>5, <2>1, <2>2 DEF TypeOK
<1>10. JobsConsistent'
  BY <1>4, <1>5, <1>6, <1>7, <1>8 DEF JobsConsistent
<1>11. OrderIsSent'
  BY <1>2, <1>3, <1>6 DEF OrderIsSent
<1>12. ResolvedIsCached' /\ AnswersConverge'
  BY <1>1, <1>5 DEF ResolvedIsCached, AnswersConverge
<1>13. HandledIsOpen'
  BY <1>4, <1>5, <1>6, <1>7 DEF HandledIsOpen, TypeOK
<1>14. KnownIsServed'
  <2> SUFFICES ASSUME NEW i \in known
               PROVE  /\ send'[i] \in {"cached", "sent"}
                      /\ (send'[i] = "sent" /\ answer[i] = "none" /\ i \notin expired') =>
                           instant'[i] # NoCode /\ ~(at # "idle" /\ handled = i)
    BY <1>5 DEF KnownIsServed
  <2>1. CASE i = j
    <3>1. send[j] = "cached"
      BY <1>4, <2>1 DEF KnownIsServed
    <3>2. instant'[j] # NoCode
      BY <1>4, <1>8, <3>1, ManifestAssumption
    <3>3. ~(at # "idle" /\ handled = j)
      BY <1>4 DEF HandledIsOpen
    <3> QED
      BY <1>6, <2>1, <3>2, <3>3
  <2>2. CASE i # j
    BY <1>1, <1>6, <1>7, <2>2 DEF KnownIsServed, TypeOK
  <2> QED
    BY <2>1, <2>2
<1>15. JobsAreTracked'
  BY <1>1, <1>2, <1>3, <1>7 DEF JobsAreTracked
<1> QED
  BY <1>9, <1>10, <1>11, <1>12, <1>13, <1>14, <1>15

LEMMA FetchLooksUpInv ==
  ASSUME IInv, NEW j \in Jobs, FetchLooksUp(j)
  PROVE  IInv'
<1> USE DEF IInv, FetchLooksUp, Load, Found, FetchGoes, jobVars, clientVars, recvVars
<1>1. wants[j] \in Manifests /\ send[j] \in {"launched", "sent"}
  BY DEF JobsConsistent
<1>2. /\ positive \subseteq positive' /\ positive' \subseteq Manifests /\ loaded'
      /\ resolved \subseteq positive'
  BY DEF ResolvedIsCached, TypeOK
<1>3. /\ fetch'[j] \in {"found", "negative"}
      /\ \A i \in Jobs : i # j => fetch'[i] = fetch[i]
  BY DEF TypeOK
<1>4. resolved' \subseteq positive' /\ resolved' \subseteq Manifests
  BY <1>1, <1>2 DEF TypeOK
<1>5. TypeOK'
  BY <1>2, <1>4 DEF TypeOK
<1>6. JobsConsistent'
  BY <1>1, <1>2, <1>3 DEF JobsConsistent
<1>7. ResolvedIsCached'
  BY <1>2, <1>4 DEF ResolvedIsCached
<1>8. OrderIsSent' /\ HandledIsOpen' /\ KnownIsServed' /\ JobsAreTracked' /\ AnswersConverge'
  BY DEF OrderIsSent, HandledIsOpen, KnownIsServed, JobsAreTracked, AnswersConverge, Elements
<1> QED
  BY <1>5, <1>6, <1>7, <1>8

LEMMA FetchChecksNegativeInv ==
  ASSUME IInv, NEW j \in Jobs, FetchChecksNegative(j)
  PROVE  IInv'
<1> USE DEF IInv, FetchChecksNegative, NegativeHolds, NegativeIsOver, FetchGoes,
            jobVars, clientVars, recvVars, ghosts
<1>1. /\ fetch'[j] \in {"failed", "ask"}
      /\ \A i \in Jobs : i # j => fetch'[i] = fetch[i]
  BY DEF TypeOK
<1>2. TypeOK'
  BY DEF TypeOK
<1>3. JobsConsistent'
  BY <1>1 DEF JobsConsistent
<1>4. OrderIsSent' /\ ResolvedIsCached' /\ HandledIsOpen' /\ KnownIsServed'
  BY DEF OrderIsSent, ResolvedIsCached, HandledIsOpen, KnownIsServed, Elements
<1>5. JobsAreTracked' /\ AnswersConverge'
  BY DEF JobsAreTracked, AnswersConverge, Elements
<1> QED
  BY <1>2, <1>3, <1>4, <1>5

LEMMA StoreRequestCodeInv ==
  ASSUME IInv, NEW j \in Jobs, StoreRequestCode(j)
  PROVE  IInv'
<1> USE DEF IInv, StoreRequestCode, FetchGoes, jobVars, clientVars, recvVars, ghosts
<1>1. wants[j] \in Manifests /\ loaded /\ send[j] \in {"launched", "sent"}
  BY DEF JobsConsistent
<1>2. /\ fetch'[j] = "append"
      /\ \A i \in Jobs : i # j => fetch'[i] = fetch[i]
  BY DEF TypeOK
<1>3. TypeOK'
  BY <1>1 DEF TypeOK
<1>4. JobsConsistent'
  BY <1>1, <1>2 DEF JobsConsistent
<1>5. ResolvedIsCached'
  BY <1>1 DEF ResolvedIsCached
<1>6. OrderIsSent' /\ HandledIsOpen' /\ KnownIsServed' /\ JobsAreTracked' /\ AnswersConverge'
  BY DEF OrderIsSent, HandledIsOpen, KnownIsServed, JobsAreTracked, AnswersConverge, Elements
<1> QED
  BY <1>3, <1>4, <1>5, <1>6

LEMMA AppendDiskCacheInv ==
  ASSUME IInv, NEW j \in Jobs, AppendDiskCache(j)
  PROVE  IInv'
<1> USE DEF IInv, AppendDiskCache, Found, FetchGoes, jobVars, clientVars, recvVars
<1>1. wants[j] \in positive /\ loaded /\ send[j] \in {"launched", "sent"}
  BY DEF JobsConsistent
<1>2. /\ fetch'[j] = "found"
      /\ \A i \in Jobs : i # j => fetch'[i] = fetch[i]
  BY DEF TypeOK
<1>3. TypeOK'
  BY <1>1 DEF TypeOK
<1>4. JobsConsistent'
  BY <1>1, <1>2 DEF JobsConsistent
<1>5. ResolvedIsCached'
  <2>1. resolved' \subseteq positive'
    BY <1>1 DEF ResolvedIsCached
  <2>2. saved' \subseteq disk'
    BY <1>1 DEF ResolvedIsCached
  <2> QED
    BY <1>1, <2>1, <2>2 DEF ResolvedIsCached
<1>6. OrderIsSent' /\ HandledIsOpen' /\ KnownIsServed' /\ JobsAreTracked' /\ AnswersConverge'
  BY DEF OrderIsSent, HandledIsOpen, KnownIsServed, JobsAreTracked, AnswersConverge, Elements
<1> QED
  BY <1>3, <1>4, <1>5, <1>6

LEMMA MarkRequestCodeFailedInv ==
  ASSUME IInv, NEW j \in Jobs, MarkRequestCodeFailed(j)
  PROVE  IInv'
<1> USE DEF IInv, MarkRequestCodeFailed, FetchGoes, jobVars, clientVars, recvVars, ghosts
<1>1. wants[j] \in Manifests
  BY DEF JobsConsistent
<1>2. /\ fetch'[j] = "failed"
      /\ \A i \in Jobs : i # j => fetch'[i] = fetch[i]
  BY DEF TypeOK
<1>3. TypeOK'
  BY <1>1 DEF TypeOK
<1>4. JobsConsistent'
  BY <1>2 DEF JobsConsistent
<1>5. OrderIsSent' /\ ResolvedIsCached' /\ HandledIsOpen' /\ KnownIsServed'
  BY DEF OrderIsSent, ResolvedIsCached, HandledIsOpen, KnownIsServed, Elements
<1>6. JobsAreTracked' /\ AnswersConverge'
  BY DEF JobsAreTracked, AnswersConverge, Elements
<1> QED
  BY <1>3, <1>4, <1>5, <1>6

LEMMA FetchStepInv ==
  ASSUME IInv, NEW j \in Jobs, FetchStep(j)
  PROVE  IInv'
BY FetchLooksUpInv, FetchChecksNegativeInv, StoreRequestCodeInv, AppendDiskCacheInv,
   MarkRequestCodeFailedInv DEF FetchStep

LEMMA ReceiveInv ==
  ASSUME IInv, NEW j \in Jobs, Receive(j)
  PROVE  IInv'
<1> USE DEF IInv, Receive, Deliver, cacheVars, clientVars, ghosts
<1>1. /\ at = "idle" /\ send[j] = "sent" /\ answer[j] = "none" /\ wants[j] \in Manifests
      /\ instant[j] # NoCode => instant[j] = wants[j]
      /\ j \in known => instant[j] # NoCode \/ j \in expired
  BY DEF JobsConsistent, KnownIsServed
<1>2. instant[j] \in Codes /\ NoCode \in Codes
  BY DEF TypeOK, Codes
<1>3. instant' = [instant EXCEPT ![j] = NoCode]
  OBVIOUS
<1>4. instant'[j] = NoCode /\ \A i \in Jobs : i # j => instant'[i] = instant[i]
  BY <1>3 DEF TypeOK
<1>5. \/ /\ instant[j] = NoCode /\ UNCHANGED answer
         /\ futures' = futures \ {j} /\ handled' = j /\ at' = "wait"
      \/ /\ answer' = [answer EXCEPT ![j] = instant[j]]
         /\ UNCHANGED <<futures, handled, at>>
  OBVIOUS
<1>6. \A i \in Jobs : i # j => answer'[i] = answer[i]
  BY <1>5 DEF TypeOK
<1>7. TypeOK'
  <2>1. answer' \in [Jobs -> Codes \cup {"none"}] /\ instant' \in [Jobs -> Codes]
    BY <1>2, <1>3, <1>5 DEF TypeOK
  <2>2. futures' \subseteq Jobs
    BY <1>5 DEF TypeOK
  <2>3. handled' \in Jobs \cup {NoJob} /\ at' \in {"idle", "wait", "drop"} /\ (at' # "idle" => handled' \in Jobs)
    BY <1>5 DEF TypeOK
  <2> QED
    BY <2>1, <2>2, <2>3 DEF TypeOK
<1>8. JobsConsistent'
  BY <1>1, <1>4, <1>6 DEF JobsConsistent
<1>9. OrderIsSent' /\ ResolvedIsCached'
  BY DEF OrderIsSent, ResolvedIsCached, Elements
<1>10. HandledIsOpen'
  BY <1>1, <1>4, <1>5 DEF HandledIsOpen
<1>11. KnownIsServed'
  <2> SUFFICES ASSUME NEW i \in known, send[i] = "sent", answer'[i] = "none", i \notin expired
               PROVE  instant'[i] # NoCode /\ ~(at' # "idle" /\ handled' = i)
    BY DEF KnownIsServed
  <2>1. i # j
    <3> SUFFICES ASSUME i = j PROVE FALSE
      OBVIOUS
    <3>1. instant[j] # NoCode
      BY <1>1
    <3>2. answer'[j] = instant[j]
      BY <1>5, <3>1 DEF TypeOK
    <3>3. instant[j] # "none"
      BY <1>2, ManifestAssumption
    <3> QED
      BY <3>2, <3>3
  <2> QED
    BY <1>1, <1>4, <1>5, <1>6, <2>1 DEF KnownIsServed, TypeOK
<1>12. JobsAreTracked'
  BY <1>4, <1>5 DEF JobsAreTracked, Elements
<1>13. AnswersConverge'
  <2>1. answer'[j] \in {"none", instant[j]}
    BY <1>1, <1>5 DEF TypeOK
  <2>2. /\ answer'[j] \in Manifests => answer'[j] = wants[j]
        /\ (answer'[j] = NoCode /\ j \in known) => j \in expired
    BY <1>1, <2>1, ManifestAssumption DEF Codes
  <2> QED
    BY <1>6, <2>2 DEF AnswersConverge
<1> QED
  BY <1>7, <1>8, <1>9, <1>10, <1>11, <1>12, <1>13

\* The hook returns from the job it handles with an answer that it may give.
LEMMA ReturnInv ==
  ASSUME IInv, at # "idle", Returns,
         NEW code \in Codes, Deliver(handled, code),
         code \in Manifests => code = wants[handled],
         UNCHANGED <<cacheVars, jobVars, clientVars, fetch, restarts, ghosts>>
  PROVE  IInv'
<1> USE DEF IInv, Deliver, Returns, cacheVars, jobVars, clientVars, ghosts
<1>1. handled \in Jobs /\ send[handled] = "sent" /\ answer[handled] = "none"
  BY DEF HandledIsOpen, TypeOK
<1>2. answer'[handled] = code /\ \A i \in Jobs : i # handled => answer'[i] = answer[i]
  BY <1>1 DEF TypeOK
<1>3. TypeOK'
  BY <1>1 DEF TypeOK
<1>4. ResolvedIsCached' /\ OrderIsSent' /\ HandledIsOpen' /\ JobsAreTracked'
  BY DEF ResolvedIsCached, OrderIsSent, HandledIsOpen, JobsAreTracked, Elements
<1>5. handled \in known => handled \in expired
  BY <1>1 DEF KnownIsServed
<1>6. AnswersConverge' /\ JobsConsistent'
  BY <1>1, <1>2, <1>5 DEF AnswersConverge, JobsConsistent, HandledIsOpen
<1>7. KnownIsServed'
  BY <1>1, <1>2, <1>5 DEF KnownIsServed, TypeOK
<1> QED
  BY <1>3, <1>4, <1>6, <1>7
LEMMA RecvStepInv ==
  ASSUME IInv, RecvStep
  PROVE  IInv'
<1> USE DEF IInv
<1>1. CASE WaitEnds
  <2> DEFINE code == IF fetch[handled] = "found" THEN wants[handled] ELSE NoCode
  <2>1. handled \in Jobs /\ wants[handled] \in Manifests
    BY <1>1 DEF WaitEnds, HandledIsOpen, JobsConsistent, TypeOK
  <2>2. code \in Codes /\ (code \in Manifests => code = wants[handled])
    BY <2>1, ManifestAssumption DEF Codes
  <2> QED
    BY <1>1, <2>2, ReturnInv DEF WaitEnds
<1>2. CASE WaitTimesOut
  <2> USE <1>2 DEF WaitTimesOut, cacheVars, jobVars, clientVars, ghosts
  <2>1. TypeOK'
    BY DEF TypeOK
  <2>2. JobsConsistent' /\ OrderIsSent' /\ ResolvedIsCached' /\ HandledIsOpen'
    BY DEF JobsConsistent, OrderIsSent, ResolvedIsCached, HandledIsOpen, Elements
  <2>3. KnownIsServed' /\ JobsAreTracked' /\ AnswersConverge'
    BY DEF KnownIsServed, JobsAreTracked, AnswersConverge, Elements
  <2> QED
    BY <2>1, <2>2, <2>3
<1>3. CASE DropFuture
  <2>1. NoCode \in Codes /\ NoCode \notin Manifests
    BY ManifestAssumption DEF Codes
  <2> QED
    BY <1>3, <2>1, ReturnInv DEF DropFuture
<1> QED
  BY <1>1, <1>2, <1>3 DEF RecvStep

LEMMA RestartInv ==
  ASSUME IInv, Restart
  PROVE  IInv'
<1> USE DEF IInv, Restart
<1>1. order' = <<>> /\ Elements(order') = {}
  BY DEF Elements
<1>2. TypeOK'
  <2>1. /\ instant' \in [Jobs -> Codes] /\ wants' \in [Jobs -> Codes]
        /\ answer' \in [Jobs -> Codes \cup {"none"}] /\ order' \in Seq(Jobs)
    BY DEF Codes
  <2>2. restarts' \in 0 .. MaxRestarts
    BY ManifestAssumption DEF TypeOK
  <2>3. send' \in [Jobs -> {"new", "gone"}] /\ fetch' \in [Jobs -> {"none"}]
    OBVIOUS
  <2> QED
    BY <2>1, <2>2, <2>3 DEF TypeOK
<1>3. \A j \in Jobs : /\ send'[j] \in {"new", "gone"} /\ fetch'[j] = "none"
                      /\ instant'[j] = NoCode /\ answer'[j] = "none"
  OBVIOUS
<1>4. JobsConsistent' /\ OrderIsSent'
  BY <1>1, <1>3 DEF JobsConsistent, OrderIsSent
<1>5. ResolvedIsCached'
  BY DEF ResolvedIsCached
<1>6. HandledIsOpen' /\ KnownIsServed'
  BY DEF HandledIsOpen, KnownIsServed
<1>7. JobsAreTracked' /\ AnswersConverge'
  BY <1>1, <1>3, ManifestAssumption DEF JobsAreTracked, AnswersConverge, Codes
<1> QED
  BY <1>2, <1>4, <1>5, <1>6, <1>7

LEMMA NextIInv ==
  ASSUME IInv, [Next]_vars
  PROVE  IInv'
<1>1. CASE Next
  <2>1. ASSUME NEW j \in Jobs, NEW m \in Wanted[j], Request(j, m)
        PROVE  IInv'
    BY <2>1, RequestInv
  <2>2. ASSUME NEW j \in Jobs, SendStep(j) \/ FetchStep(j) \/ Receive(j)
        PROVE  IInv'
    BY <2>2, CheckNegativeInv, RegisterInv, FetchStepInv, ReceiveInv DEF SendStep
  <2> QED
    BY <1>1, <2>1, <2>2, RecvStepInv, RestartInv DEF Next
<1>2. CASE UNCHANGED vars
  <2> USE <1>2 DEF IInv, vars, cacheVars, jobVars, clientVars, recvVars, ghosts
  <2>1. TypeOK'
    BY DEF TypeOK
  <2>2. JobsConsistent' /\ OrderIsSent' /\ ResolvedIsCached' /\ HandledIsOpen'
    BY DEF JobsConsistent, OrderIsSent, ResolvedIsCached, HandledIsOpen, Elements
  <2>3. KnownIsServed' /\ JobsAreTracked' /\ AnswersConverge'
    BY DEF KnownIsServed, JobsAreTracked, AnswersConverge, Elements
  <2> QED
    BY <2>1, <2>2, <2>3
<1> QED
  BY <1>1, <1>2

LEMMA Inductive == Spec => []IInv
<1>1. Init => IInv
  BY InitIInv
<1>2. IInv /\ [Next]_vars => IInv'
  BY NextIInv
<1> QED
  BY <1>1, <1>2, PTL DEF Spec

-----------------------------------------------------------------------------
(* That hooks, threads and cache implement CodeService.                    *)

\* What the file has, the cache has once it was read; and codes on their way to
\* a job are in the cache.
ServedFromCache ==
  /\ loaded => disk \subseteq positive
  /\ \A j \in Jobs : send[j] = "new" => wants[j] = NoCode
  /\ \A j \in Jobs :
       (j \in Owed \/ fetch[j] = "found") => wants[j] \in positive

LEMMA InitServed == Init => ServedFromCache
BY DEF Init, ServedFromCache, Owed

\* Reading the file changes what the cache has, not what is stored.
LEMMA LoadedOnce ==
  ASSUME ServedFromCache, Load
  PROVE  positive' = positive \cup disk /\ loaded'
BY DEF ServedFromCache, Load

LEMMA RequestServed ==
  ASSUME IInv, ServedFromCache, NEW j \in Jobs, NEW m \in Wanted[j], Request(j, m)
  PROVE  ServedFromCache'
<1>1. /\ positive' = positive \cup disk /\ UNCHANGED <<disk, instant, fetch>>
      /\ wants' = [wants EXCEPT ![j] = m]
      /\ send' = [send EXCEPT ![j] = IF m \in positive' THEN "cached" ELSE "missed"]
      /\ fetch[j] = "none" /\ instant[j] = NoCode
  BY LoadedOnce DEF Request, jobVars, IInv, JobsConsistent
<1> QED
  BY <1>1 DEF ServedFromCache, Owed, IInv, TypeOK

LEMMA RegisterServed ==
  ASSUME IInv, ServedFromCache, NEW j \in Jobs, Register(j)
  PROVE  /\ ServedFromCache'
         /\ Owed' \subseteq Owed
<1>1. PICK k \in 0 .. Len(order) :
        instant' = [i \in Jobs |-> IF i = j /\ send[j] = "cached" THEN wants[j]
                                   ELSE IF i \in Stale(order, k) THEN NoCode ELSE instant[i]]
  BY DEF Register
<1>2. /\ send[j] \in {"cached", "launched"} /\ send' = [send EXCEPT ![j] = "sent"]
      /\ UNCHANGED <<positive, disk, loaded, wants, fetch>>
  BY DEF Register, cacheVars
<1>3. Owed' \subseteq Owed
  BY <1>1, <1>2 DEF Owed, IInv, TypeOK
<1> QED
  BY <1>2, <1>3 DEF ServedFromCache, IInv, TypeOK

\* Only a fetch that found the code ends as found.
LEMMA FetchServed ==
  ASSUME IInv, ServedFromCache, NEW j \in Jobs, FetchStep(j)
  PROVE  ServedFromCache'
<1>0. /\ UNCHANGED <<instant, send, wants>> /\ Owed' = Owed
      /\ positive \subseteq positive'
  BY DEF FetchStep, FetchLooksUp, FetchChecksNegative, StoreRequestCode, AppendDiskCache,
         MarkRequestCodeFailed, Load, jobVars, clientVars, Owed
<1>1. loaded' => disk' \subseteq positive'
  <2>1. CASE FetchLooksUp(j)
    BY <2>1, LoadedOnce DEF FetchLooksUp
  <2>2. CASE FetchChecksNegative(j) \/ StoreRequestCode(j) \/ MarkRequestCodeFailed(j)
    BY <2>2 DEF FetchChecksNegative, StoreRequestCode, MarkRequestCodeFailed, ServedFromCache
  <2>3. CASE AppendDiskCache(j)
    BY <2>3 DEF AppendDiskCache, ServedFromCache, IInv, JobsConsistent
  <2> QED
    BY <2>1, <2>2, <2>3 DEF FetchStep
<1>2. \A i \in Jobs : fetch'[i] = "found" => fetch[i] = "found" \/ (i = j /\ wants[j] \in positive')
  BY DEF FetchStep, FetchLooksUp, FetchChecksNegative, StoreRequestCode, AppendDiskCache,
         MarkRequestCodeFailed, Found, FetchGoes, IInv, TypeOK, JobsConsistent
<1> QED
  BY <1>0, <1>1, <1>2 DEF ServedFromCache

LEMMA NextServed ==
  ASSUME IInv, ServedFromCache, [Next]_vars
  PROVE  ServedFromCache'
<1>1. ASSUME NEW j \in Jobs, CheckNegative(j) PROVE ServedFromCache'
  <2>1. /\ UNCHANGED <<positive, disk, loaded, instant, wants>> /\ send[j] = "missed"
        /\ send'[j] \in {"sent", "launched"} /\ \A i \in Jobs : i # j => send'[i] = send[i]
        /\ \A i \in Jobs : fetch'[i] = "found" => fetch[i] = "found"
    BY <1>1 DEF CheckNegative, NegativeHolds, NegativeIsOver, jobVars, IInv, TypeOK
  <2>2. Owed' \subseteq Owed
    BY <2>1 DEF Owed
  <2> QED
    BY <2>1, <2>2 DEF ServedFromCache
<1>2. ASSUME NEW j \in Jobs, Receive(j) PROVE ServedFromCache'
  <2>1. UNCHANGED <<positive, disk, loaded, wants, send, fetch>> /\ Owed' \subseteq Owed
    BY <1>2 DEF Receive, cacheVars, clientVars, Owed, IInv, TypeOK
  <2> QED
    BY <2>1 DEF ServedFromCache
<1>3. CASE RecvStep \/ UNCHANGED vars
  <2>1. UNCHANGED <<positive, disk, loaded, wants, send, fetch, instant>>
    BY <1>3 DEF RecvStep, WaitEnds, WaitTimesOut, DropFuture, vars, cacheVars, clientVars, jobVars
  <2> QED
    BY <2>1 DEF ServedFromCache, Owed
<1>4. CASE Restart
  BY <1>4 DEF Restart, ServedFromCache, Owed
<1> QED
  BY <1>1, <1>2, <1>3, <1>4, RequestServed, RegisterServed, FetchServed DEF Next, SendStep

LEMMA InductiveServed == Spec => []ServedFromCache
BY InitServed, NextServed, Inductive, PTL DEF Spec

\* A request is owed the code if that is stored.
LEMMA RequestIsAsk ==
  ASSUME IInv, ServedFromCache, NEW j \in Jobs, NEW m \in Wanted[j], Request(j, m)
  PROVE  Service!Ask(j, m)
<1>1. /\ positive' = positive \cup disk /\ UNCHANGED <<disk, instant, answer>>
      /\ send[j] = "new" /\ wants[j] = NoCode /\ instant[j] = NoCode
      /\ wants' = [wants EXCEPT ![j] = m]
      /\ send' = [send EXCEPT ![j] = IF m \in positive' THEN "cached" ELSE "missed"]
  BY LoadedOnce DEF Request, jobVars, recvVars, IInv, JobsConsistent, ServedFromCache
<1>2. Owed' = IF m \in positive \cup disk THEN Owed \cup {j} ELSE Owed
  BY <1>1 DEF Owed, IInv, TypeOK
<1> QED
  BY <1>1, <1>2 DEF Service!Ask

LEMMA FetchIsFind ==
  ASSUME IInv, ServedFromCache, NEW j \in Jobs, FetchStep(j)
  PROVE  \/ Service!Find(j) \/ Service!Write
         \/ UNCHANGED <<positive \cup disk, disk, wants, Owed, answer>>
<1>0. UNCHANGED <<instant, send, wants, answer>> /\ Owed' = Owed
  BY DEF FetchStep, FetchLooksUp, FetchChecksNegative, StoreRequestCode, AppendDiskCache,
         MarkRequestCodeFailed, jobVars, clientVars, recvVars, Owed
<1>1. CASE FetchLooksUp(j)
  <2>1. positive' = positive \cup disk /\ disk' = disk
    BY <1>1, LoadedOnce DEF FetchLooksUp
  <2> QED
    BY <1>0, <2>1
<1>2. CASE FetchChecksNegative(j) \/ MarkRequestCodeFailed(j)
  BY <1>0, <1>2 DEF FetchChecksNegative, MarkRequestCodeFailed
<1>3. CASE StoreRequestCode(j)
  <2>1. wants[j] # NoCode
    BY <1>3, ManifestAssumption DEF StoreRequestCode, IInv, JobsConsistent
  <2>2. positive' = positive \cup {wants[j]} /\ disk' = disk
    BY <1>3 DEF StoreRequestCode
  <2> QED
    BY <1>0, <2>1, <2>2 DEF Service!Find
<1>4. CASE AppendDiskCache(j)
  <2>1. loaded /\ wants[j] \in positive /\ disk \subseteq positive /\ positive' = positive
    BY <1>4 DEF AppendDiskCache, IInv, JobsConsistent, ServedFromCache
  <2>2. disk' \in {disk, positive, disk \cup {wants[j]}}
    BY <1>4 DEF AppendDiskCache
  <2>3. disk \subseteq disk' /\ disk' \subseteq positive
    BY <2>1, <2>2
  <2> QED
    BY <1>0, <2>1, <2>3 DEF Service!Write
<1> QED
  BY <1>1, <1>2, <1>3, <1>4 DEF FetchStep

\* What the receive hook hands out is a code that is stored, or none is owed.
LEMMA ReceiveIsAnswer ==
  ASSUME IInv, ServedFromCache, NEW j \in Jobs, Receive(j)
  PROVE  Service!Answer(j) \/ UNCHANGED <<positive \cup disk, disk, wants, Owed, answer>>
<1>1. /\ UNCHANGED <<positive, disk, wants, send>> /\ send[j] = "sent" /\ answer[j] = "none"
      /\ instant' = [instant EXCEPT ![j] = NoCode] /\ wants[j] # NoCode
      /\ instant \in [Jobs -> Codes]
  BY ManifestAssumption
  DEF Receive, cacheVars, clientVars, IInv, JobsConsistent, TypeOK
<1>2. Owed' = Owed \ {j}
  BY <1>1 DEF Owed
<1>3. CASE instant[j] = NoCode /\ j \in futures
  <2>1. j \notin Owed /\ answer' = answer
    BY <1>1, <1>3 DEF Receive, Owed
  <2> QED
    BY <1>1, <1>2, <2>1
<1>4. CASE ~(instant[j] = NoCode /\ j \in futures)
  <2>1. answer' = [answer EXCEPT ![j] = instant[j]]
    BY <1>4 DEF Receive, Deliver
  <2>2. CASE instant[j] = NoCode
    <3>1. j \notin Owed
      BY <1>1, <2>2 DEF Owed
    <3> QED
      BY <1>1, <1>2, <2>1, <2>2, <3>1 DEF Service!Answer
  <2>3. CASE instant[j] # NoCode
    <3>1. instant[j] = wants[j] /\ wants[j] \in positive
      BY <2>3 DEF IInv, JobsConsistent, ServedFromCache, Owed
    <3> QED
      BY <1>1, <1>2, <2>1, <3>1 DEF Service!Answer
  <2> QED
    BY <2>2, <2>3
<1> QED
  BY <1>3, <1>4

LEMMA ReturnIsAnswer ==
  ASSUME IInv, ServedFromCache, RecvStep
  PROVE  \/ \E j \in Jobs : Service!Answer(j)
         \/ UNCHANGED <<positive \cup disk, disk, wants, Owed, answer>>
<1>1. UNCHANGED <<positive, disk, wants, send, instant>> /\ Owed' = Owed
  BY DEF RecvStep, WaitEnds, WaitTimesOut, DropFuture, cacheVars, clientVars, jobVars, Owed
<1>2. CASE WaitTimesOut
  BY <1>1, <1>2 DEF WaitTimesOut
<1>3. CASE WaitEnds \/ DropFuture
  <2>1. /\ handled \in Jobs /\ answer[handled] = "none" /\ wants[handled] # NoCode
        /\ handled \notin Owed
    BY <1>3, ManifestAssumption
    DEF WaitEnds, DropFuture, IInv, TypeOK, HandledIsOpen, JobsConsistent, Owed
  <2>2. Owed \ {handled} = Owed
    BY <2>1
  <2>3. \/ answer' = [answer EXCEPT ![handled] = NoCode]
        \/ fetch[handled] = "found" /\ answer' = [answer EXCEPT ![handled] = wants[handled]]
    BY <1>3 DEF WaitEnds, DropFuture, Deliver
  <2>4. fetch[handled] = "found" => wants[handled] \in positive
    BY <2>1 DEF ServedFromCache
  <2>5. Service!Answer(handled)
    BY <1>1, <2>1, <2>2, <2>3, <2>4 DEF Service!Answer
  <2> QED
    BY <2>1, <2>5
<1> QED
  BY <1>2, <1>3 DEF RecvStep

LEMMA RestartIsRestart ==
  ASSUME Restart
  PROVE  Service!Restart
<1>1. positive' = {} /\ disk' = disk
  BY DEF Restart
<1>2. wants' = [j \in Jobs |-> NoCode] /\ answer' = [j \in Jobs |-> "none"] /\ Owed' = {}
  BY DEF Restart, Owed
<1> QED
  BY <1>1, <1>2 DEF Service!Restart, Service!Nothing

LEMMA StepIsServiceStep ==
  ASSUME IInv, ServedFromCache, [Next]_vars
  PROVE  [Service!Next]_<<positive \cup disk, disk, wants, Owed, answer>>
<1>1. ASSUME NEW j \in Jobs, NEW m \in Wanted[j], Request(j, m) PROVE Service!Next
  <2>1. m \in Manifests
    BY ManifestAssumption
  <2> QED
    BY <1>1, <2>1, RequestIsAsk DEF Service!Next
<1>2. ASSUME NEW j \in Jobs, CheckNegative(j)
      PROVE  UNCHANGED <<positive \cup disk, disk, wants, Owed, answer>>
  <2>1. /\ UNCHANGED <<positive, disk, instant, wants, answer>> /\ send[j] = "missed"
        /\ send'[j] \in {"sent", "launched"} /\ \A i \in Jobs : i # j => send'[i] = send[i]
    BY <1>2 DEF CheckNegative, jobVars, recvVars, IInv, TypeOK
  <2>2. Owed' = Owed
    BY <2>1 DEF Owed
  <2> QED
    BY <2>1, <2>2
<1>3. ASSUME NEW j \in Jobs, Register(j) PROVE Service!Next
  <2>1. UNCHANGED <<positive, disk, wants, answer>> /\ Owed' \subseteq Owed
    BY <1>3, RegisterServed DEF Register, cacheVars, recvVars
  <2> QED
    BY <2>1 DEF Service!Lapse, Service!Next
<1>4. ASSUME NEW j \in Jobs, FetchStep(j)
      PROVE  Service!Next \/ UNCHANGED <<positive \cup disk, disk, wants, Owed, answer>>
  BY <1>4, FetchIsFind DEF Service!Next
<1>5. ASSUME NEW j \in Jobs, Receive(j)
      PROVE  Service!Next \/ UNCHANGED <<positive \cup disk, disk, wants, Owed, answer>>
  BY <1>5, ReceiveIsAnswer DEF Service!Next
<1>6. CASE RecvStep
  BY <1>6, ReturnIsAnswer DEF Service!Next
<1>7. CASE Restart
  BY <1>7, RestartIsRestart DEF Service!Next
<1>8. CASE UNCHANGED vars
  BY <1>8 DEF vars, cacheVars, jobVars, clientVars, recvVars, Owed
<1> QED
  BY <1>1, <1>2, <1>3, <1>4, <1>5, <1>6, <1>7, <1>8 DEF Next, SendStep

-----------------------------------------------------------------------------
(* The theorems. *)

\* The variables of the hooks and of the cache keep their types.
THEOREM TypeCorrect == Spec => []TypeOK
<1>1. IInv => TypeOK
  BY DEF IInv
<1> QED
  BY <1>1, Inductive, PTL

\* Whatever the hooks keep for a job, PruneStaleManifestJobs will find it.
THEOREM JobTablesArePrunable == Spec => []JobsAreTracked
<1>1. IInv => JobsAreTracked
  BY DEF IInv
<1> QED
  BY <1>1, Inductive, PTL

\* A code that was fetched once reaches every later request for its manifest,
\* concurrent failures and restarts notwithstanding.
THEOREM LookupsConverge == Spec => []AnswersConverge
<1>1. IInv => AnswersConverge
  BY DEF IInv
<1> QED
  BY <1>1, Inductive, PTL

\* The hooks on the client's threads, the threads that fetch, the caches and the
\* file, with failures, time-outs and restarts anywhere, are one service to
\* the client: a request for a stored code gets that code, and every request
\* one answer.
THEOREM ServiceRefinement == Spec => ImplementsService
<1>1. Init => Service!Init
  <2> SUFFICES ASSUME Init PROVE Service!Init
    OBVIOUS
  <2>1. Owed = {} /\ positive \cup disk = {} /\ disk = {}
    BY DEF Init, Owed
  <2> QED
    BY <2>1 DEF Init, Service!Init, Service!Nothing
<1>2. IInv /\ ServedFromCache /\ [Next]_vars
        => [Service!Next]_<<positive \cup disk, disk, wants, Owed, answer>>
  BY StepIsServiceStep
<1> QED
  BY <1>1, <1>2, Inductive, InductiveServed, PTL
  DEF Spec, ImplementsService, Service!Spec, Service!vars
=============================================================================
