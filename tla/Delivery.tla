------------------------------ MODULE Delivery ------------------------------
(***************************************************************************)
(* Delivery of the spool to the Collector: uploadLoop.drain (daemon), the  *)
(* planner that forms batches, the deliverer that retries and validates    *)
(* acknowledgements (internal/observer/upload), and the AckState they      *)
(* share (internal/observer/spool).                                        *)
(*                                                                         *)
(* A frame is its sequence and the bytes it adds to a batch body; payloads *)
(* and what consent does to them are in ConsentFence.  The Collector is    *)
(* external: it takes a batch whole or not at all, refuses one over its    *)
(* limits or with a gap, and its reply may be lost, be an error although   *)
(* the batch was stored, or be a 200 that does not match what was sent.    *)
(***************************************************************************)
EXTENDS Integers, Sequences

CONSTANTS
  MaxSeq,              \* bound on appended sequences
  Sizes,               \* the bytes a frame may add to a batch body
  MaxObservations,     \* Caps.MaxObservations, resolved
  MaxBatchBytes,       \* Caps.MaxBatchBytes, resolved, less the fixed skeleton
  MaxInFlight,         \* AckState.maxInFlight
  ServerObservations,  \* external: the Collector's limit on observations
  ServerBytes,         \* external: the Collector's limit on bytes
  MaxAttempts,         \* RetryPolicy.maxAttempts
  Faulty,              \* external: what goes wrong with an exchange, a subset of
                       \* {"lost", "late", "refused", "corrupt"}
  MaxCrashes,          \* bound on crashes and cancelled passes
  MaxFaults            \* bound on failed writes of the ack sidecar

\* The defaults are 1000 for both counts, and CapsFromCapabilities only lowers
\* MaxObservations.
ASSUME DeliveryAssumption ==
  /\ MaxSeq \in Nat \ {0} /\ MaxAttempts \in Nat \ {0}
  /\ MaxObservations \in Nat \ {0} /\ MaxInFlight \in Nat /\ MaxObservations <= MaxInFlight
  /\ MaxBatchBytes \in Nat /\ ServerObservations \in Nat /\ ServerBytes \in Nat
  /\ MaxCrashes \in Nat /\ MaxFaults \in Nat
  /\ Sizes \subseteq Nat \ {0}

VARIABLES
  frames,    \* the durable frames: by sequence, the bytes that they and all before add to a body
  ackFile,   \* the ack sidecar
  pc,        \* the upload loop: idle, planning, send, reply
  acked,     \* AckState.acknowledgedThrough
  high,      \* AckState.highestDurable
  inFlight,  \* AckState.inFlight: last sequence of the range, 0 for none
  attempt,   \* the deliverer's attempt
  reply,     \* the outcome of the last attempt
  stored,    \* external: the Collector holds the sequences 1..stored
  late,      \* external: last sequence of a batch still on its way, or 0
  ended,     \* history: how the last pass ended
  failed,    \* history: last sequence of the batch a transient failure left
             \* unacknowledged, 0 for none
  crashes, faults

ackState == <<acked, high, inFlight>>
external == <<stored, late>>
budget == <<crashes, faults>>
vars == <<frames, ackFile, pc, ackState, attempt, reply, external, ended, failed, budget>>

----------------------------------------------------------------------------
RetryStatuses == {0, 429, 503}
HoldStatuses == {401, 413, 422}
Endings == {"none", "nothingOwed", "planRefused", "held", "ackRefused", "persistFailed",
            "exhausted", "cancelled"}

\* A 200 carries an IngestAck; status 0 is a transport failure.
Reply == [status : RetryStatuses \cup HoldStatuses \cup {200},
          ownSource : BOOLEAN, through : 0..MaxSeq + 1, count : 0..MaxSeq + 1]
Bare(s) == [status |-> s, ownSource |-> FALSE, through |-> 0, count |-> 0]

Top == Len(frames)
Max2(a, b) == IF a >= b THEN a ELSE b
Min2(a, b) == IF a <= b THEN a ELSE b

\* bodyByteLen of the range.
Offset(n) == IF n = 0 THEN 0 ELSE frames[n]
Bytes(first, last) == Offset(last) - Offset(first - 1)

TypeOK ==
  /\ frames \in Seq(Nat) /\ Top <= MaxSeq
  /\ pc \in {"idle", "planning", "send", "reply"}
  /\ {ackFile, acked, high, inFlight, stored, late, failed} \subseteq 0..Top
  /\ (pc \in {"send", "reply"}) = (inFlight # 0)
  /\ attempt \in 0..MaxAttempts
  /\ reply \in Reply
  /\ ended \in Endings
  /\ crashes \in 0..MaxCrashes /\ faults \in 0..MaxFaults

Init ==
  /\ frames = <<>> /\ ackFile = 0 /\ pc = "idle"
  /\ acked = 0 /\ high = 0 /\ inFlight = 0
  /\ attempt = 0 /\ reply = Bare(0)
  /\ stored = 0 /\ late = 0
  /\ ended = "none" /\ failed = 0 /\ crashes = 0 /\ faults = 0

\* drain returns: its AckState, the in-flight range with it, is dropped.
PassEnds(how) ==
  /\ pc' = "idle" /\ acked' = 0 /\ high' = 0 /\ inFlight' = 0
  /\ attempt' = 0 /\ reply' = Bare(0)
  /\ ended' = how

----------------------------------------------------------------------------
(* The writer, seen from the upload loop *)

AppendFrame(z) ==
  /\ Top < MaxSeq
  /\ frames' = Append(frames, Offset(Top) + z)
  /\ UNCHANGED <<ackFile, pc, ackState, attempt, reply, external, ended, failed, budget>>

----------------------------------------------------------------------------
(* drain: load the AckState, then plan and deliver until nothing is owed *)

\* highestDurable and LoadAckState.
PassBegins ==
  /\ pc = "idle"
  /\ pc' = "planning"
  /\ acked' = ackFile
  /\ high' = Max2(Top, ackFile)
  /\ inFlight' = 0
  /\ UNCHANGED <<frames, ackFile, attempt, reply, external, ended, failed, budget>>

NothingOwed ==
  /\ pc = "planning"
  /\ acked + 1 > high
  /\ PassEnds("nothingOwed")
  /\ UNCHANGED <<frames, ackFile, external, failed, budget>>

\* Mutant: byteBudgetCut starts from zero records.
ByteBudgetCutEmpty(first, last) ==
  CHOOSE n \in (first - 1)..last :
    /\ n = first - 1 \/ Bytes(first, n) <= MaxBatchBytes
    /\ \A m \in (n + 1)..last : Bytes(first, m) > MaxBatchBytes

\* The last sequence byteBudgetCut keeps of first..last: as many as fit, and
\* at least one.
ByteBudgetCut(first, last) ==
  CHOOSE n \in first..last :
    /\ n = first \/ Bytes(first, n) <= MaxBatchBytes
    /\ \A m \in (n + 1)..last : Bytes(first, m) > MaxBatchBytes

\* The conditions of SetInFlight, with no range in flight.
SetInFlightAccepts(first, last) ==
  /\ first >= 1 /\ last >= first
  /\ last <= high
  /\ last - first + 1 <= MaxInFlight
  /\ first = acked + 1

\* Planner.Next with nothing in flight and something owed.  The other branch
\* of Next is never taken: Deliver clears the range or ends the pass.
PlanNext ==
  /\ pc = "planning"
  /\ acked + 1 <= high
  /\ LET first == acked + 1
         last == ByteBudgetCut(first, Min2(first + MaxObservations - 1, high))
     IN IF SetInFlightAccepts(first, last)
        THEN /\ inFlight' = last /\ pc' = "send" /\ attempt' = 1
             /\ UNCHANGED <<acked, high, reply, ended>>
        ELSE PassEnds("planRefused")
  /\ UNCHANGED <<frames, ackFile, external, failed, budget>>

----------------------------------------------------------------------------
(* One exchange with the Collector *)

OverLimits ==
  \/ inFlight - acked > ServerObservations
  \/ Bytes(acked + 1, inFlight) > ServerBytes

Gap == acked > stored

\* The IngestAck of a Collector that holds the batch.
Ack == [status |-> 200, ownSource |-> TRUE, through |-> inFlight, count |-> inFlight - acked]

\* A 200 of a wrong source, head or count, or with an undecodable body.
Corrupt == {[Ack EXCEPT !.ownSource = FALSE], [Ack EXCEPT !.through = inFlight + 1],
            [Ack EXCEPT !.through = inFlight - 1], [Ack EXCEPT !.count = @ + 1]}

Replied(r) ==
  /\ reply' = r /\ pc' = "reply"
  /\ UNCHANGED <<frames, ackFile, ackState, attempt, ended, failed, budget>>

\* The Collector takes the batch and says so.
Store ==
  /\ pc = "send" /\ ~OverLimits /\ ~Gap
  /\ stored' = Max2(stored, inFlight)
  /\ UNCHANGED late
  /\ Replied(Ack)

\* The Collector takes the batch, and the answer is lost or is an error.
StoreUnheard ==
  /\ pc = "send" /\ ~OverLimits /\ ~Gap
  /\ "lost" \in Faulty
  /\ stored' = Max2(stored, inFlight)
  /\ UNCHANGED late
  /\ \E s \in {0, 503} : Replied(Bare(s))

\* The Collector cannot take the batch.
Reject ==
  /\ pc = "send" /\ (OverLimits \/ Gap)
  /\ UNCHANGED external
  /\ Replied(Bare(IF OverLimits THEN 413 ELSE 422))

\* Nothing is stored: the network, the credential, the rate or the server.
Refuse ==
  /\ pc = "send"
  /\ "refused" \in Faulty
  /\ UNCHANGED external
  /\ \E s \in {0, 401, 429, 503} : Replied(Bare(s))

\* A 200 that does not answer this batch, which was not stored.
Misanswer ==
  /\ pc = "send"
  /\ "corrupt" \in Faulty
  /\ UNCHANGED external
  /\ \E r \in Corrupt : Replied(r)

\* The attempt times out while the request is still on its way ...
TimeOut ==
  /\ pc = "send" /\ ~OverLimits /\ ~Gap
  /\ "late" \in Faulty /\ late = 0
  /\ late' = inFlight
  /\ UNCHANGED stored
  /\ Replied(Bare(0))

\* ... and the Collector stores it after the client went on.
ArriveLate ==
  /\ late # 0
  /\ stored' = Max2(stored, late) /\ late' = 0
  /\ UNCHANGED <<frames, ackFile, pc, ackState, attempt, reply, ended, failed, budget>>

----------------------------------------------------------------------------
(* Deliver: Classify the reply *)

\* Mutant: acknowledge trusts the head of any 200 of its own source.
ValidatedAnyHead(r) == r.ownSource /\ r.count = inFlight - acked

\* acknowledge validates a 200 against the sent range.
Validated(r) ==
  /\ r.ownSource
  /\ r.through = inFlight
  /\ r.count = inFlight - acked

\* AckState.Acknowledge lets the watermark advance.
AcknowledgeAccepts(through) ==
  /\ through > acked
  /\ through <= high
  /\ through <= inFlight

\* acknowledge: persist first, then advance.
Acknowledge ==
  /\ pc = "reply" /\ reply.status = 200 /\ Validated(reply)
  /\ IF AcknowledgeAccepts(reply.through)
     THEN /\ ackFile' = reply.through /\ acked' = reply.through
          /\ inFlight' = 0 /\ pc' = "planning" /\ attempt' = 0 /\ reply' = Bare(0)
          /\ failed' = 0
          /\ UNCHANGED <<high, ended>>
     ELSE PassEnds("ackRefused") /\ failed' = 0 /\ UNCHANGED ackFile
  /\ UNCHANGED <<frames, external, budget>>

\* writeAck fails, before or after the rename; the pass ends.
PersistFails ==
  /\ pc = "reply" /\ reply.status = 200 /\ Validated(reply)
  /\ AcknowledgeAccepts(reply.through)
  /\ faults < MaxFaults /\ faults' = faults + 1
  /\ ackFile' \in {ackFile, reply.through}
  /\ failed' = IF ackFile' = ackFile THEN inFlight ELSE 0
  /\ PassEnds("persistFailed")
  /\ UNCHANGED <<frames, external, crashes>>

\* A hold: a corrupt acknowledgement, or a status that retrying cannot help.
Hold ==
  /\ pc = "reply"
  /\ \/ reply.status \in HoldStatuses
     \/ reply.status = 200 /\ ~Validated(reply)
  /\ PassEnds("held")
  /\ failed' = 0
  /\ UNCHANGED <<frames, ackFile, external, budget>>

Retry ==
  /\ pc = "reply" /\ reply.status \in RetryStatuses
  /\ attempt < MaxAttempts
  /\ attempt' = attempt + 1 /\ pc' = "send" /\ reply' = Bare(0)
  /\ UNCHANGED <<frames, ackFile, ackState, external, ended, failed, budget>>

RetriesExhausted ==
  /\ pc = "reply" /\ reply.status \in RetryStatuses
  /\ attempt = MaxAttempts
  /\ failed' = inFlight
  /\ PassEnds("exhausted")
  /\ UNCHANGED <<frames, ackFile, external, budget>>

----------------------------------------------------------------------------
\* The context is cancelled between batches or during a backoff, or the
\* process dies anywhere in a pass.  The sidecar and the frames survive.
Interrupted ==
  /\ pc # "idle"
  /\ crashes < MaxCrashes /\ crashes' = crashes + 1
  /\ PassEnds("cancelled")
  /\ failed' = 0
  /\ UNCHANGED <<frames, ackFile, external, faults>>

Next ==
  \/ \E z \in Sizes : AppendFrame(z)
  \/ PassBegins \/ NothingOwed \/ PlanNext
  \/ Store \/ StoreUnheard \/ Reject \/ Refuse \/ Misanswer \/ TimeOut \/ ArriveLate
  \/ Acknowledge \/ PersistFails \/ Hold \/ Retry \/ RetriesExhausted
  \/ Interrupted

Spec == Init /\ [][Next]_vars

\* The ticker runs drain again and again and no step of a pass blocks (every
\* request and backoff is bounded in time).  The Collector is assumed to take
\* and confirm a batch that is offered again and again.
Pass == PassBegins \/ NothingOwed \/ PlanNext \/ Store \/ StoreUnheard \/ Reject \/ Refuse
        \/ Misanswer \/ TimeOut \/ Acknowledge \/ PersistFails \/ Hold \/ Retry \/ RetriesExhausted

FairSpec == Spec /\ WF_vars(Pass) /\ SF_vars(Store)

----------------------------------------------------------------------------
(* Properties *)

\* The acknowledgement on disk never runs ahead of what the Collector holds,
\* whatever replies are lost, late, duplicated or corrupt and wherever the
\* process stops: nothing owed is skipped (acknowledge, AckState.Acknowledge).
AckBehindCollector == ackFile <= stored /\ acked <= stored

\* Only a batch of one frame can be over the Collector's limits: a longer one
\* is cut to them (byteBudgetCut, CapsFromCapabilities).
OverLimitsAlone == reply.status = 413 => inFlight = acked + 1

\* AckState's own checks never fire against the planner and the deliverer:
\* SetInFlight accepts every planned range, Acknowledge every validated one,
\* though each pass builds its AckState anew.
AckStateAgrees == ended \notin {"planRefused", "ackRefused"}

\* A pass works on the AckState it loaded: the sidecar is its watermark, the range in flight follows
\* that watermark within the local limits, and a reply that would be validated answers a batch which
\* the Collector holds (LoadAckState, Planner.Next, Deliver).
PassShape ==
  /\ pc = "idle" => acked = 0 /\ high = 0
  /\ pc # "idle" => acked = ackFile /\ acked <= high
  /\ inFlight # 0 =>
       /\ acked < inFlight /\ inFlight <= high
       /\ inFlight - acked <= MaxObservations
       /\ inFlight = acked + 1 \/ Bytes(acked + 1, inFlight) <= MaxBatchBytes
  /\ pc # "reply" => reply = Bare(0)
  /\ pc = "reply" /\ reply.status = 200 /\ Validated(reply) => inFlight <= stored

\* The invariant of a pass: types, AckState and planner in agreement, batches cut to the limits,
\* and the watermark behind the Collector (Planner.Next, SetInFlight, Acknowledge).
DeliveryInv == TypeOK /\ PassShape /\ AckStateAgrees /\ OverLimitsAlone /\ AckBehindCollector

\* A batch that a transient failure left unacknowledged is offered again
\* unchanged: the comments of ErrRetriesExhausted and of drain.
ReplayedUnchanged == [][(pc = "planning" /\ pc' = "send" /\ failed # 0) => inFlight' = failed]_vars

\* Every durable frame is eventually acknowledged, across exhausted retries,
\* holds, failed sidecar writes and interrupted passes (drain), unless it or an
\* earlier one alone is more than the Collector takes.
OwedDelivered ==
  \A n \in 1..MaxSeq : (Top >= n /\ \A i \in 1..n : Bytes(i, i) <= ServerBytes) ~> (ackFile >= n)
=============================================================================
