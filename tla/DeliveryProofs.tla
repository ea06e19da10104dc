--------------------------- MODULE DeliveryProofs ---------------------------
(***************************************************************************)
(* Proofs about the delivery of the spool (module Delivery), for every     *)
(* number of frames, sizes, limits, attempts, crashes and failed writes,   *)
(* and whatever goes wrong with an exchange.                               *)
(*                                                                         *)
(*   WatermarkBehindCollector   Spec => []AckBehindCollector               *)
(*   DeliverySound              Spec => []DeliveryInv                      *)
(*   WatermarkMovesUp           Spec => [][ackFile' >= ackFile]_ackFile    *)
(*                                                                         *)
(* The second assumes that the local limits are within the Collector's,    *)
(* without which OverLimitsAlone is false.  PassInv, which is inductive by *)
(* itself, carries the rest.                                               *)
(***************************************************************************)
EXTENDS Delivery, NatBounds, TLAPS

PassInv == TypeOK /\ PassShape /\ AckStateAgrees /\ AckBehindCollector

----------------------------------------------------------------------------
\* The sequences are within the spool.
Ranges ==
  /\ Top \in Nat /\ Top <= MaxSeq
  /\ ackFile \in 0..Top /\ acked \in 0..Top /\ high \in 0..Top /\ inFlight \in 0..Top
  /\ stored \in 0..Top /\ late \in 0..Top /\ failed \in 0..Top

LEMMA Numbers ==
  ASSUME TypeOK
  PROVE  Ranges
<1>1. Len(frames) \in Nat
  BY DEF TypeOK
<1> QED BY <1>1 DEF TypeOK, Top, Ranges

\* The bytes up to a sequence are a number.
LEMMA OffsetNat ==
  ASSUME TypeOK, NEW n \in 0..Top
  PROVE  Offset(n) \in Nat
BY DEF TypeOK, Top, Offset

\* The bytes of a range are an integer.
LEMMA BytesInt ==
  ASSUME TypeOK, NEW n \in 0..Top, NEW last \in 0..Top
  PROVE  Bytes(n + 1, last) \in Int
<1>1. n + 1 - 1 = n
  BY DEF TypeOK, Top
<1>2. Offset(n) \in Nat /\ Offset(last) \in Nat
  BY OffsetNat
<1> QED BY <1>1, <1>2 DEF Bytes

\* byteBudgetCut keeps at least one frame and at most what it was given, and what it keeps of more
\* than one frame fits.
LEMMA CutInRange ==
  ASSUME TypeOK, NEW first \in 1..Top, NEW last \in first..Top
  PROVE  /\ ByteBudgetCut(first, last) \in first..last
         /\ \/ ByteBudgetCut(first, last) = first
            \/ Bytes(first, ByteBudgetCut(first, last)) <= MaxBatchBytes
<1> USE DeliveryAssumption
<1> DEFINE Fits(n) == n = first \/ Bytes(first, n) <= MaxBatchBytes
           S == {n \in first..last : Fits(n)}
<1>1. \A n \in first..last : Bytes(first, n) \in Int
  <2> TAKE n \in first..last
  <2>1. n \in 0..Top /\ first - 1 \in 0..Top
    BY Numbers DEF Ranges
  <2>2. Offset(n) \in Nat /\ Offset(first - 1) \in Nat
    BY <2>1, OffsetNat
  <2> QED BY <2>2 DEF Bytes
<1>2. S \subseteq 0..Top /\ S # {} /\ Top \in Nat
  <2>1. first \in S
    BY Numbers DEF Ranges
  <2> QED BY <2>1, Numbers DEF Ranges
<1>3. PICK n \in S : \A x \in S : x <= n
  BY <1>2, GreatestExists
<1>4. \A m \in (n + 1)..last : Bytes(first, m) > MaxBatchBytes
  <2> TAKE m \in (n + 1)..last
  <2>1. m \in first..last /\ ~(m <= n)
    OBVIOUS
  <2>2. ~Fits(m)
    BY <1>3, <2>1
  <2> QED BY <1>1, <2>1, <2>2
<1>5. \E k \in first..last :
        /\ k = first \/ Bytes(first, k) <= MaxBatchBytes
        /\ \A m \in (k + 1)..last : Bytes(first, m) > MaxBatchBytes
  BY <1>3, <1>4
<1> QED BY <1>5 DEF ByteBudgetCut

\* An append leaves the bytes of every range below it as they were.
LEMMA BytesKept ==
  ASSUME TypeOK, NEW z \in Sizes, AppendFrame(z)
  PROVE  /\ Top' = Top + 1 /\ frames' \in Seq(Nat)
         /\ \A first \in 1..Top, last \in 1..Top : Bytes(first, last)' = Bytes(first, last)
<1> USE DeliveryAssumption
<1>1. Offset(Top) \in Nat /\ z \in Nat
  BY DEF TypeOK, Offset, Top
<1>2. frames' = Append(frames, Offset(Top) + z) /\ frames \in Seq(Nat) /\ Offset(Top) + z \in Nat
  BY <1>1 DEF AppendFrame, TypeOK
<1>3. /\ frames' \in Seq(Nat) /\ Len(frames') = Len(frames) + 1
      /\ \A i \in 1..Len(frames) : frames'[i] = frames[i]
  BY <1>2
<1>4. \A n \in 0..Top : Offset(n)' = Offset(n)
  BY <1>3, Numbers DEF Offset, Top, Ranges
<1>5. \A first \in 1..Top, last \in 1..Top : first - 1 \in 0..Top /\ last \in 0..Top
  BY Numbers DEF Ranges
<1> QED BY <1>3, <1>4, <1>5 DEF Top, Bytes

----------------------------------------------------------------------------
(* One lemma per group of steps *)

\* The end of a pass forgets the AckState, whatever it was.
LEMMA PassEndsStep ==
  ASSUME PassInv, NEW how \in Endings \ {"planRefused", "ackRefused"}, PassEnds(how),
         UNCHANGED <<frames, external>>, ackFile' \in 0..Top, ackFile' <= stored,
         failed' \in 0..Top, crashes' \in 0..MaxCrashes, faults' \in 0..MaxFaults
  PROVE  PassInv'
<1> USE DeliveryAssumption DEF PassInv, PassEnds, external
<1>1. TypeOK'
  BY DEF TypeOK, Top, Bare, Reply, RetryStatuses
<1>2. PassShape'
  BY DEF PassShape, Bare
<1>3. AckStateAgrees' /\ AckBehindCollector'
  BY DEF AckStateAgrees, AckBehindCollector, TypeOK, Top
<1> QED BY <1>1, <1>2, <1>3

\* An append leaves a pass alone.
LEMMA AppendStep ==
  ASSUME PassInv, NEW z \in Sizes, AppendFrame(z)
  PROVE  PassInv'
<1> USE DeliveryAssumption DEF PassInv
<1>1. /\ Top' = Top + 1 /\ frames' \in Seq(Nat) /\ Top \in Nat
      /\ \A first \in 1..Top, last \in 1..Top : Bytes(first, last)' = Bytes(first, last)
  BY BytesKept DEF TypeOK, Top
<1>2. /\ UNCHANGED <<ackFile, pc, acked, high, inFlight, attempt, reply, stored, late, ended, failed,
                    crashes, faults>>
      /\ Top < MaxSeq
  BY DEF AppendFrame, ackState, external, budget
<1>3. TypeOK'
  BY <1>1, <1>2 DEF TypeOK, Reply
<1>4. PassShape'
  <2>1. inFlight # 0 => acked + 1 \in 1..Top /\ inFlight \in 1..Top
    BY <1>1 DEF PassShape, TypeOK
  <2>2. inFlight # 0 => Bytes(acked + 1, inFlight)' = Bytes(acked + 1, inFlight)
    BY <1>1, <1>2, <2>1 DEF Bytes, Offset
  <2> QED BY <1>2, <2>2 DEF PassShape, Bare, Validated
<1>5. AckStateAgrees' /\ AckBehindCollector'
  BY <1>2 DEF AckStateAgrees, AckBehindCollector
<1> QED BY <1>3, <1>4, <1>5

\* The start of a pass and the choice of a batch: SetInFlight accepts it.
LEMMA PlanStep ==
  ASSUME PassInv, PassBegins \/ NothingOwed \/ PlanNext
  PROVE  PassInv'
<1> USE DeliveryAssumption DEF PassInv, external, budget
<1>n. Ranges
  BY Numbers
<1>1. CASE PassBegins
  <2>1. high' \in 0..Top /\ ackFile <= high'
    BY <1>n, <1>1 DEF PassBegins, Max2, TypeOK, Ranges
  <2>2. TypeOK'
    BY <1>n, <1>1, <2>1 DEF PassBegins, TypeOK, PassShape, Top, Ranges
  <2>3. PassShape'
    BY <1>n, <1>1, <2>1 DEF PassBegins, PassShape, Bare, Ranges
  <2> QED BY <1>n, <1>1, <2>2, <2>3 DEF PassBegins, AckStateAgrees, AckBehindCollector, Ranges
<1>2. CASE NothingOwed
  BY <1>n, <1>2, PassEndsStep DEF NothingOwed, Endings, TypeOK, AckBehindCollector, Top, Ranges
<1>3. CASE PlanNext
  <2> DEFINE first == acked + 1
             most == Min2(first + MaxObservations - 1, high)
             last == ByteBudgetCut(first, most)
  <2>1. first \in 1..Top /\ most \in first..Top /\ most <= high /\ most - first + 1 <= MaxObservations
    BY <1>n, <1>3 DEF PlanNext, TypeOK, Min2, Ranges
  <2>2. last \in first..most /\ (last = first \/ Bytes(first, last) <= MaxBatchBytes)
    BY <2>1, CutInRange
  <2> HIDE DEF last, most
  <2>3. SetInFlightAccepts(first, last)
    BY <1>n, <2>1, <2>2 DEF SetInFlightAccepts, TypeOK, Ranges
  <2>4. /\ inFlight' = last /\ pc' = "send" /\ attempt' = 1
        /\ UNCHANGED <<frames, ackFile, acked, high, reply, stored, late, ended, failed, crashes, faults>>
    BY <1>n, <1>3, <2>3 DEF PlanNext, last, most, Ranges
  <2>5. last \in 1..Top /\ last \in Nat
    BY <1>n, <2>1, <2>2 DEF Ranges
  <2>6. TypeOK'
    BY <1>n, <2>4, <2>5 DEF TypeOK, Top, Reply, Ranges
  <2>7. PassShape'
    BY <1>n, <1>3, <2>1, <2>2, <2>4, <2>5 DEF PlanNext, PassShape, Bare, Bytes, Offset, TypeOK, Ranges
  <2> QED BY <1>n, <2>4, <2>6, <2>7 DEF AckStateAgrees, AckBehindCollector, Ranges
<1> QED BY <1>1, <1>2, <1>3

\* One exchange: a reply that would be validated means that the Collector holds the batch.
LEMMA ExchangeStep ==
  ASSUME PassInv, Store \/ StoreUnheard \/ Reject \/ Refuse \/ Misanswer \/ TimeOut \/ ArriveLate
  PROVE  PassInv'
<1> USE DeliveryAssumption DEF PassInv
<1>n. Ranges
  BY Numbers
<1>1. ASSUME NEW r \in Reply, Replied(r), pc = "send", stored' \in 0..Top, late' \in 0..Top,
             stored <= stored', r.status = 200 /\ Validated(r) => inFlight <= stored'
      PROVE  PassInv'
  <2>1. UNCHANGED <<frames, ackFile, acked, high, inFlight, attempt, ended, failed, crashes, faults>>
          /\ reply' = r /\ pc' = "reply"
    BY <1>n, <1>1 DEF Replied, ackState, budget, Ranges
  <2>2. TypeOK'
    BY <1>n, <1>1, <2>1 DEF TypeOK, Top, Ranges
  <2>3. PassShape'
    BY <1>n, <1>1, <2>1 DEF PassShape, Bytes, Offset, Validated, Ranges
  <2>4. AckBehindCollector'
    BY <1>n, <1>1, <2>1 DEF AckBehindCollector, TypeOK, Ranges
  <2> QED BY <1>n, <2>1, <2>2, <2>3, <2>4 DEF AckStateAgrees, Ranges
<1>2. /\ \A s \in {0, 401, 413, 422, 429, 503} : Bare(s) \in Reply /\ Bare(s).status = s
      /\ \A r \in Reply : r.status # 200 => ~(r.status = 200 /\ Validated(r))
  BY <1>n DEF Bare, Reply, RetryStatuses, HoldStatuses, Ranges
<1>3. pc = "send" => inFlight \in 1..Top /\ acked \in 0..Top /\ acked < inFlight /\ Top <= MaxSeq
  BY <1>n DEF TypeOK, PassShape, Ranges
<1>4. CASE Store
  <2>1. Ack \in Reply
    BY <1>n, <1>3, <1>4 DEF Store, Ack, Reply, Ranges
  <2>2. stored' \in 0..Top /\ stored <= stored' /\ inFlight <= stored' /\ late' \in 0..Top
    BY <1>n, <1>3, <1>4 DEF Store, Max2, TypeOK, Ranges
  <2> QED BY <1>n, <1>1, <1>4, <2>1, <2>2 DEF Store, Ranges
<1>5. CASE StoreUnheard
  <2>1. stored' \in 0..Top /\ stored <= stored' /\ late' \in 0..Top
    BY <1>n, <1>3, <1>5 DEF StoreUnheard, Max2, TypeOK, Ranges
  <2>2. PICK s \in {0, 503} : Replied(Bare(s))
    BY <1>n, <1>5 DEF StoreUnheard, Ranges
  <2> QED BY <1>n, <1>1, <1>2, <1>5, <2>1, <2>2 DEF StoreUnheard, Ranges
<1>6. CASE Reject
  <2>1. PICK s \in {413, 422} : Replied(Bare(s))
    BY <1>n, <1>6 DEF Reject, Ranges
  <2> QED BY <1>n, <1>1, <1>2, <1>6, <2>1 DEF Reject, external, TypeOK, Ranges
<1>7. CASE Refuse
  <2>1. PICK s \in {0, 401, 429, 503} : Replied(Bare(s))
    BY <1>n, <1>7 DEF Refuse, Ranges
  <2> QED BY <1>n, <1>1, <1>2, <1>7, <2>1 DEF Refuse, external, TypeOK, Ranges
<1>8. CASE Misanswer
  <2>1. PICK r \in Corrupt : Replied(r)
    BY <1>n, <1>8 DEF Misanswer, Ranges
  <2>2. r \in Reply /\ ~Validated(r)
    <3> DEFINE Ans(own, head, n) == [status |-> 200, ownSource |-> own, through |-> head, count |-> n]
    <3>1. r \in {Ans(FALSE, inFlight, inFlight - acked), Ans(TRUE, inFlight + 1, inFlight - acked),
                 Ans(TRUE, inFlight - 1, inFlight - acked), Ans(TRUE, inFlight, inFlight - acked + 1)}
      BY <2>1 DEF Corrupt, Ack
    <3>2. \A own \in BOOLEAN, head \in 0..MaxSeq + 1, n \in 0..MaxSeq + 1 : Ans(own, head, n) \in Reply
      BY DEF Reply
    <3>3. /\ inFlight \in 0..MaxSeq + 1 /\ inFlight - 1 \in 0..MaxSeq + 1 /\ inFlight + 1 \in 0..MaxSeq + 1
          /\ inFlight - acked \in 0..MaxSeq + 1 /\ inFlight - acked + 1 \in 0..MaxSeq + 1
      BY <1>n, <1>3, <1>8 DEF Misanswer, Ranges
    <3>4. r \in Reply
      <4> HIDE DEF Ans
      <4> QED BY <3>1, <3>2, <3>3, Zenon
    <3>5. ~Validated(r)
      BY <3>1, <3>3 DEF Validated
    <3> QED BY <3>4, <3>5
  <2> QED BY <1>n, <1>1, <1>8, <2>1, <2>2 DEF Misanswer, external, TypeOK, Ranges
<1>9. CASE TimeOut
  BY <1>n, <1>1, <1>2, <1>3, <1>9 DEF TimeOut, TypeOK, Ranges
<1>10. CASE ArriveLate
  <2>1. UNCHANGED <<frames, ackFile, pc, acked, high, inFlight, attempt, reply, ended, failed, crashes, faults>>
    BY <1>n, <1>10 DEF ArriveLate, ackState, budget, Ranges
  <2>2. stored' \in 0..Top /\ stored <= stored' /\ late' \in 0..Top
    BY <1>n, <1>10 DEF ArriveLate, Max2, TypeOK, Ranges
  <2>3. TypeOK'
    BY <1>n, <2>1, <2>2 DEF TypeOK, Top, Reply, Ranges
  <2>4. PassShape'
    BY <1>n, <2>1, <2>2 DEF PassShape, Bytes, Offset, Validated, Bare, TypeOK, Ranges
  <2> QED BY <1>n, <2>1, <2>2, <2>3, <2>4 DEF AckStateAgrees, AckBehindCollector, TypeOK, Ranges
<1> QED BY <1>4, <1>5, <1>6, <1>7, <1>8, <1>9, <1>10

\* A validated reply: AckState accepts the head, and only a range the Collector holds is acknowledged.
LEMMA AcknowledgeStep ==
  ASSUME PassInv, Acknowledge \/ PersistFails
  PROVE  PassInv'
<1> USE DeliveryAssumption DEF PassInv
<1>n. Ranges
  BY Numbers
<1>1. /\ pc = "reply" /\ reply.status = 200 /\ Validated(reply) /\ reply.through = inFlight
      /\ inFlight \in 1..Top /\ inFlight <= stored /\ inFlight <= high /\ acked < inFlight
  BY <1>n DEF Acknowledge, PersistFails, Validated, PassShape, TypeOK, Ranges
<1>2. AcknowledgeAccepts(reply.through)
  BY <1>n, <1>1 DEF AcknowledgeAccepts, TypeOK, Ranges
<1>3. CASE Acknowledge
  <2>1. /\ ackFile' = inFlight /\ acked' = inFlight /\ inFlight' = 0 /\ pc' = "planning" /\ attempt' = 0
        /\ reply' = Bare(0) /\ failed' = 0 /\ UNCHANGED <<high, ended, frames, stored, late, crashes, faults>>
    BY <1>n, <1>1, <1>2, <1>3 DEF Acknowledge, external, budget, Ranges
  <2>2. TypeOK'
    BY <1>n, <1>1, <2>1 DEF TypeOK, Top, Bare, Reply, RetryStatuses, Ranges
  <2>3. PassShape'
    BY <1>n, <1>1, <2>1 DEF PassShape, Bare, TypeOK, Ranges
  <2> QED BY <1>n, <1>1, <2>1, <2>2, <2>3 DEF AckStateAgrees, AckBehindCollector, Ranges
<1>4. CASE PersistFails
  <2>1. ackFile' \in 0..Top /\ ackFile' <= stored /\ failed' \in 0..Top /\ faults' \in 0..MaxFaults
          /\ crashes' \in 0..MaxCrashes
    BY <1>n, <1>1, <1>4 DEF PersistFails, TypeOK, AckBehindCollector, Ranges
  <2> QED BY <1>n, <1>4, <2>1, PassEndsStep DEF PersistFails, Endings, Ranges
<1> QED BY <1>3, <1>4

\* The other outcomes of a reply.
LEMMA ReplyStep ==
  ASSUME PassInv, Hold \/ Retry \/ RetriesExhausted \/ Interrupted
  PROVE  PassInv'
<1> USE DeliveryAssumption DEF PassInv
<1>n. Ranges
  BY Numbers
<1>0. ackFile <= stored
  BY <1>n DEF AckBehindCollector, Ranges
<1>1. CASE Hold
  BY <1>n, <1>0, <1>1, PassEndsStep DEF Hold, Endings, TypeOK, budget, Ranges
<1>2. CASE Retry
  <2>1. /\ attempt' = attempt + 1 /\ attempt < MaxAttempts /\ pc' = "send" /\ pc = "reply" /\ reply' = Bare(0)
        /\ UNCHANGED <<frames, ackFile, acked, high, inFlight, stored, late, ended, failed, crashes, faults>>
    BY <1>n, <1>2 DEF Retry, ackState, external, budget, Ranges
  <2>2. TypeOK'
    BY <1>n, <1>0, <2>1 DEF TypeOK, Top, Bare, Reply, RetryStatuses, Ranges
  <2>3. PassShape'
    BY <1>n, <2>1 DEF PassShape, Bytes, Offset, Bare, Ranges
  <2> QED BY <1>n, <2>1, <2>2, <2>3 DEF AckStateAgrees, AckBehindCollector, Ranges
<1>3. CASE RetriesExhausted
  BY <1>n, <1>0, <1>3, PassEndsStep DEF RetriesExhausted, Endings, TypeOK, budget, Ranges
<1>4. CASE Interrupted
  <2>1. crashes' \in 0..MaxCrashes
    BY <1>n, <1>4 DEF Interrupted, TypeOK, Ranges
  <2> QED BY <1>n, <1>0, <1>4, <2>1, PassEndsStep DEF Interrupted, Endings, TypeOK, Ranges
<1> QED BY <1>1, <1>2, <1>3, <1>4

----------------------------------------------------------------------------
\* Every step keeps the invariant of a pass.
LEMMA PassInvHolds == Spec => []PassInv
<1>1. Init => PassInv
  BY DeliveryAssumption DEF Init, PassInv, TypeOK, PassShape, AckStateAgrees, AckBehindCollector, Top,
       Bare, Reply, RetryStatuses, Endings
<1>2. PassInv /\ [Next]_vars => PassInv'
  <2> SUFFICES ASSUME PassInv, [Next]_vars PROVE PassInv'
    OBVIOUS
  <2>1. CASE UNCHANGED vars
    BY <2>1 DEF PassInv, TypeOK, PassShape, AckStateAgrees, AckBehindCollector, Top, Bytes, Offset,
         Validated, Bare, Reply, vars, ackState, external, budget
  <2>2. CASE Next
    BY <2>2, AppendStep, PlanStep, ExchangeStep, AcknowledgeStep, ReplyStep DEF Next
  <2> QED BY <2>1, <2>2
<1> QED BY <1>1, <1>2, PTL DEF Spec

\* The acknowledgement on disk and in memory never runs ahead of what the Collector holds, under any
\* lost, late, refused or corrupt reply, failed sidecar write or crash (acknowledge, Acknowledge).
THEOREM WatermarkBehindCollector == Spec => []AckBehindCollector
<1>1. PassInv => AckBehindCollector
  BY DEF PassInv
<1> QED BY <1>1, PassInvHolds, PTL

\* The watermark on disk never moves back: each pass loads it anew and a retry, a hold or an
\* interruption leaves it (writeAck, LoadAckState).
THEOREM WatermarkMovesUp == Spec => [][ackFile' >= ackFile]_ackFile
<1>1. PassInv /\ [Next]_vars => [ackFile' >= ackFile]_ackFile
  <2> SUFFICES ASSUME PassInv, [Next]_vars, ackFile' # ackFile PROVE ackFile' >= ackFile
    OBVIOUS
  <2>1. Acknowledge \/ PersistFails
    BY DEF Next, AppendFrame, PassBegins, NothingOwed, PlanNext, Store, StoreUnheard, Reject, Refuse,
         Misanswer, TimeOut, ArriveLate, Hold, Retry, RetriesExhausted, Interrupted, Replied, vars
  <2>2. AcknowledgeAccepts(reply.through) /\ ackFile' = reply.through /\ acked = ackFile
    BY <2>1 DEF Acknowledge, PersistFails, PassInv, PassShape
  <2>3. reply.through \in Int /\ ackFile \in Int
    BY DEF PassInv, TypeOK, Reply, Top
  <2> QED BY <2>2, <2>3 DEF AcknowledgeAccepts
<1> QED BY <1>1, PassInvHolds, PTL DEF Spec

\* While the local limits are within the Collector's, only a batch of one frame is refused as too
\* large, and everything else a pass relies on holds (byteBudgetCut, CapsFromCapabilities).
THEOREM DeliverySound ==
  ASSUME MaxObservations <= ServerObservations, MaxBatchBytes <= ServerBytes
  PROVE  Spec => []DeliveryInv
<1> USE DeliveryAssumption
<1>1. Init => OverLimitsAlone
  BY DEF Init, OverLimitsAlone, Bare
<1>2. PassInv /\ OverLimitsAlone /\ [Next]_vars => OverLimitsAlone'
  <2> SUFFICES ASSUME PassInv, OverLimitsAlone, [Next]_vars, reply'.status = 413
               PROVE  inFlight' = acked' + 1
    BY DEF OverLimitsAlone
  <2>1. CASE Reject /\ OverLimits
    <3>1. /\ inFlight \in Int /\ acked \in Int /\ Bytes(acked + 1, inFlight) \in Int
          /\ pc = "send" /\ inFlight # 0
      <4>3. Bytes(acked + 1, inFlight) \in Int
        BY BytesInt, Numbers DEF PassInv, Ranges
      <4>4. inFlight \in Int /\ acked \in Int
        BY Numbers DEF PassInv, Ranges
      <4>5. pc = "send"
        BY <2>1 DEF Reject
      <4>6. inFlight # 0
        BY <4>5 DEF PassInv, TypeOK
      <4> QED BY <4>3, <4>4, <4>5, <4>6
    <3>2. inFlight = acked + 1
      BY <2>1, <3>1 DEF OverLimits, PassInv, PassShape
    <3> QED BY <2>1, <3>2 DEF Reject, Replied, ackState
  <2>2. CASE UNCHANGED <<reply, acked, inFlight>>
    BY <2>2 DEF OverLimitsAlone
  <2>3. reply' # Bare(0)
    BY DEF Bare
  <2>4. CASE Store \/ StoreUnheard \/ (Reject /\ ~OverLimits) \/ Refuse \/ Misanswer \/ TimeOut
    <3>1. \A s \in {0, 401, 422, 429, 503} : Bare(s).status # 413
      BY DEF Bare
    <3>2. Ack.status # 413 /\ \A r \in Corrupt : r.status # 413
      BY DEF Ack, Corrupt
    <3>3. FALSE
      BY <2>4, <3>1, <3>2 DEF Store, StoreUnheard, Reject, Refuse, Misanswer, TimeOut, Replied
    <3> QED BY <3>3
  <2>5. CASE (\E z \in Sizes : AppendFrame(z)) \/ ArriveLate \/ UNCHANGED vars
    BY <2>2, <2>5 DEF AppendFrame, ArriveLate, vars, ackState
  <2>6. CASE PassBegins
    BY <2>6 DEF PassBegins, PassInv, PassShape, Bare
  <2>7. CASE PlanNext
    BY <2>3, <2>7 DEF PlanNext, PassInv, PassShape, Bare, PassEnds
  <2>8. CASE NothingOwed \/ Acknowledge \/ PersistFails \/ Hold \/ Retry \/ RetriesExhausted \/ Interrupted
    BY <2>3, <2>8 DEF NothingOwed, Acknowledge, PersistFails, Hold, Retry, RetriesExhausted, Interrupted, PassEnds
  <2> QED BY <2>1, <2>4, <2>5, <2>6, <2>7, <2>8 DEF Next
<1>3. PassInv /\ OverLimitsAlone => DeliveryInv
  BY DEF PassInv, DeliveryInv
<1> QED BY <1>1, <1>2, <1>3, PassInvHolds, PTL DEF Spec

=============================================================================
