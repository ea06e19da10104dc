------------------------- MODULE ConsentFenceProofs -------------------------
(***************************************************************************)
(* Proofs about the consent fence (module ConsentFence), for every number  *)
(* of roots, generations, frames, crashes, failed ledger writes and stray  *)
(* appends, and whichever way the daemon starts.                           *)
(*                                                                         *)
(*   FenceSound         Spec => []FenceInv                                 *)
(*   NeverConflicts     Spec => [](asides = 0 => NoConflict)               *)
(*   WithdrawalReaches  Spec => ConsentRespected                           *)
(*   OnlyWithdrawn      Spec => [](asides = 0 => OnlyWithdrawnWithheld)    *)
(*                                                                         *)
(* FenceInv is inductive by itself: it says what the lane, the ledger and  *)
(* the shutdown record know of each other.  The other three each add one   *)
(* conjunct to it: DecisionShape (a decision stays until its frame is      *)
(* acknowledged), OriginShape (where the origin of a frame is kept) and    *)
(* WithheldShape (a consent that is gone stays gone).  These three need    *)
(* asides = 0: a run drops decisions on frames that were moved aside in    *)
(* memory only, so a later run may apply them to the sequences' new        *)
(* frames.                                                                 *)
(***************************************************************************)
EXTENDS ConsentFence, NatBounds, TLAPS

\* An active entry has a generation, and the entry is its two fields.
LEMMA EntryFields ==
  ASSUME NEW e \in Entry
  PROVE  /\ e.gen \in 0..MaxGen /\ e.active \in BOOLEAN
         /\ e.active => e.gen \in 1..MaxGen
         /\ e.gen \in 1..MaxGen => [e EXCEPT !.active = FALSE] \in Entry
<1>1. CASE e \in [gen : 1..MaxGen, active : BOOLEAN]
  <2>1. e.gen \in 1..MaxGen /\ e.active \in BOOLEAN
    BY <1>1
  <2>2. [e EXCEPT !.active = FALSE] \in [gen : 1..MaxGen, active : BOOLEAN]
    BY <1>1
  <2> QED BY <2>1, <2>2, FenceAssumption DEF Entry
<1>2. CASE e = [gen |-> 0, active |-> FALSE]
  BY <1>2, FenceAssumption
<1> QED BY <1>1, <1>2 DEF Entry

\* The steps that move only the owner's policy, what was published of it and the watcher's admission.
LEMMA PolicySteps ==
  ASSUME FenceInv,
         \/ \E r \in Roots : OwnerWithdraws(r) \/ OwnerRegisters(r) \/ Admit(r)
         \/ CheckPolicy \/ PollTranscripts
  PROVE  FenceInv'
<1> USE FenceAssumption DEF FenceInv
<1>1. /\ UNCHANGED <<top, cap, ackFile, ledger, svc, mode, wseq, late, upc, uhigh, blast, ph,
                     origins, withheld, attempted, applied, dirty, pending, recorded, sent,
                     tried, untracked, safe, unsure, unsynced>>
      /\ \/ wpc' # "durable" /\ wpc = "idle"
         \/ UNCHANGED <<wpc, worigin>>
      /\ svc # "down" \/ UNCHANGED wpc
  BY DEF OwnerWithdraws, OwnerRegisters, Admit, CheckPolicy, PollTranscripts, fence, watch, lane,
         policy, hist, bounds, failed
<1>2. TypeOK'
  <2>1. file' \in Policy
    <3>1. ASSUME NEW r \in Roots, OwnerWithdraws(r)
          PROVE  file' \in Policy
      <4>1. [file[r] EXCEPT !.active = FALSE] \in Entry
        BY <3>1, EntryFields DEF OwnerWithdraws, TypeOK, Policy
      <4>2. file' = [file EXCEPT ![r] = [file[r] EXCEPT !.active = FALSE]]
        BY <3>1 DEF OwnerWithdraws
      <4> QED BY <4>1, <4>2 DEF TypeOK, Policy
    <3>2. ASSUME NEW r \in Roots, OwnerRegisters(r)
          PROVE  file' \in Policy
      <4>1. [gen |-> file[r].gen + 1, active |-> TRUE] \in Entry
        BY <3>2, EntryFields DEF OwnerRegisters, TypeOK, Policy, Entry
      <4> QED BY <3>2, <4>1 DEF OwnerRegisters, TypeOK, Policy
    <3>3. ASSUME CheckPolicy \/ PollTranscripts \/ \E r \in Roots : Admit(r)
          PROVE  file' = file
      BY <3>3 DEF CheckPolicy, PollTranscripts, Admit, policy
    <3> QED BY <3>1, <3>2, <3>3 DEF TypeOK
  <2>2. pub' \in Policy /\ ver' \in Nat /\ ver <= ver' /\ (gens' = gens \/ gens' = pub')
    <3>1. CASE CheckPolicy \/ PollTranscripts
      BY <3>1 DEF CheckPolicy, PollTranscripts, Current, TypeOK, watch
    <3>2. CASE \E r \in Roots : OwnerWithdraws(r) \/ OwnerRegisters(r) \/ Admit(r)
      BY <3>2 DEF OwnerWithdraws, OwnerRegisters, Admit, TypeOK, policy, watch
    <3> QED BY <3>1, <3>2
  <2>3. wpc' \in {"idle", "admitted", "durable"} /\ worigin' \in Origin \cup {NoOrigin}
    <3>1. ASSUME NEW r \in Roots, Admit(r)
          PROVE  wpc' = "admitted" /\ worigin' \in Origin
      <4>1. gens[r].gen \in 1..MaxGen
        BY <3>1, EntryFields DEF Admit, TypeOK, Policy
      <4> QED BY <3>1, <4>1 DEF Admit, Origin
    <3>2. ASSUME CheckPolicy \/ PollTranscripts \/ \E r \in Roots : OwnerWithdraws(r) \/ OwnerRegisters(r)
          PROVE  UNCHANGED <<wpc, worigin>>
      BY <3>2 DEF CheckPolicy, PollTranscripts, OwnerWithdraws, OwnerRegisters, watch
    <3> QED BY <3>1, <3>2 DEF TypeOK
  <2> QED BY <1>1, <2>1, <2>2, <2>3 DEF TypeOK
<1>3. PlaceholderRecorded' /\ RecordExact'
  BY <1>1 DEF PlaceholderRecorded, RecordExact
<1>4. LaneShape'
  BY <1>1 DEF LaneShape
<1>5. SentShape' /\ RecordShape'
  BY <1>1 DEF SentShape, RecordShape
<1>6. RecordHonest'
  BY <1>1 DEF RecordHonest, Honest
<1> QED BY <1>2, <1>3, <1>4, <1>5, <1>6

\* A frame above the spool's top leaves what a record says of those below it.
LEMMA FrameAdded ==
  ASSUME TypeOK, NEW sh \in Record, Honest(sh), NEW o,
         top' = top + 1, cap' = [cap EXCEPT ![top + 1] = o]
  PROVE  Honest(sh)'
BY FenceAssumption DEF Honest, TypeOK, Seqs, Record

\* A frame becomes durable above everything the fence and the lane know.
LEMMA AppendDurableStep ==
  ASSUME FenceInv, AppendDurable
  PROVE  FenceInv'
<1> USE FenceAssumption DEF FenceInv
<1>1. /\ UNCHANGED <<ackFile, ledger, svc, mode, file, pub, ver, gens, worigin, late, upc, uhigh,
                     blast, ph, origins, withheld, attempted, applied, dirty, pending, recorded,
                     sent, tried, untracked, safe, unsure, unsynced>>
      /\ svc # "down" /\ wpc' = "durable" /\ wseq' = top + 1 /\ top' = top + 1
      /\ top + 1 \in Seqs /\ cap' = [cap EXCEPT ![top + 1] = worigin]
  BY DEF AppendDurable, fence, lane, policy, hist, failed, TypeOK, Seqs
<1>2. TypeOK'
  BY <1>1 DEF TypeOK, Seqs
<1>3. PlaceholderRecorded' /\ RecordExact'
  BY <1>1 DEF PlaceholderRecorded, RecordExact
<1>4. LaneShape'
  <2>1. uhigh <= top /\ attempted <= top /\ cap'[top + 1] = worigin
    BY <1>1 DEF LaneShape, SentShape, TypeOK
  <2> QED BY <1>1, <2>1 DEF LaneShape, TypeOK
<1>5. SentShape' /\ RecordShape'
  BY <1>1 DEF SentShape, RecordShape, TypeOK, Seqs
<1>6. RecordHonest'
  <2>1. ASSUME NEW sh \in Record, Honest(sh)
        PROVE  Honest(sh)'
    BY <1>1, <2>1, FrameAdded DEF TypeOK
  <2> QED BY <1>1, <2>1 DEF RecordHonest, TypeOK
<1> QED BY <1>2, <1>3, <1>4, <1>5, <1>6

\* The steps of the other producers: a frame without an origin, or an append given up.
LEMMA StraySteps ==
  ASSUME FenceInv, AppendTimesOut \/ LateAppend \/ LocalAppend
  PROVE  FenceInv'
<1> USE FenceAssumption DEF FenceInv
<1>1. /\ UNCHANGED <<ackFile, ledger, svc, mode, file, pub, ver, gens, upc, uhigh,
                     blast, ph, origins, withheld, attempted, applied, dirty, pending, recorded,
                     sent, tried, safe, unsure, unsynced>>
      /\ svc # "down"
  BY DEF AppendTimesOut, LateAppend, LocalAppend, watch, fence, lane, policy, hist, failed
<1>2. \/ UNCHANGED <<wpc, worigin, wseq>>
      \/ wpc' = "idle" /\ worigin' = NoOrigin /\ wseq' = 0
  BY DEF AppendTimesOut, LateAppend, LocalAppend, watch, AppendDone
<1>3. \/ UNCHANGED <<top, cap>>
      \/ /\ top' = top + 1 /\ top + 1 \in Seqs
         /\ \E o \in Origin \cup {NoOrigin} : cap' = [cap EXCEPT ![top + 1] = o]
  BY DEF AppendTimesOut, LateAppend, LocalAppend, Room, TypeOK, Seqs
<1>4. untracked' \subseteq Seqs /\ late' \in Origin \cup {NoOrigin}
  <2>1. CASE AppendTimesOut
    <3>1. wpc = "durable" => wseq \in Seqs
      BY DEF TypeOK, LaneShape, Seqs
    <3>2. \/ untracked' = untracked
          \/ wpc = "durable" /\ untracked' = untracked \cup {wseq}
      BY <2>1 DEF AppendTimesOut
    <3>3. late' = late \/ late' = worigin
      BY <2>1 DEF AppendTimesOut
    <3> QED BY <3>1, <3>2, <3>3 DEF TypeOK
  <2>2. CASE LateAppend
    <3>1. late' = NoOrigin
      BY <2>2 DEF LateAppend
    <3>2. \/ untracked' = untracked
          \/ top < Room /\ untracked' = untracked \cup {top + 1}
      BY <2>2 DEF LateAppend
    <3>3. top < Room => top + 1 \in Seqs
      BY DEF TypeOK, Seqs, Room
    <3> QED BY <3>1, <3>2, <3>3 DEF TypeOK
  <2>3. CASE LocalAppend
    BY <2>3 DEF LocalAppend, TypeOK, watch, hist
  <2> QED BY <2>1, <2>2, <2>3
<1>5. TypeOK'
  <2>1. /\ top' \in 0..MaxSeq /\ ackFile' \in 0..top' /\ cap' \in [Seqs -> Origin \cup {NoOrigin}]
    BY <1>1, <1>3 DEF TypeOK, Seqs
  <2>2. /\ wpc' \in {"idle", "admitted", "durable"} /\ worigin' \in Origin \cup {NoOrigin}
        /\ wseq' \in 0..MaxSeq
    BY <1>2 DEF TypeOK
  <2> QED BY <1>1, <1>4, <2>1, <2>2 DEF TypeOK
<1>6. PlaceholderRecorded' /\ RecordExact'
  BY <1>1 DEF PlaceholderRecorded, RecordExact
<1>7. LaneShape'
  BY <1>1, <1>2, <1>3 DEF LaneShape, TypeOK, Seqs
<1>8. SentShape' /\ RecordShape'
  BY <1>1, <1>3 DEF SentShape, RecordShape, TypeOK, Seqs
<1>9. RecordHonest'
  <2>1. ASSUME NEW sh \in Record, Honest(sh)
        PROVE  Honest(sh)'
    <3>1. CASE UNCHANGED <<top, cap>>
      BY <2>1, <3>1 DEF Honest
    <3>2. CASE /\ top' = top + 1 /\ top + 1 \in Seqs
               /\ \E o \in Origin \cup {NoOrigin} : cap' = [cap EXCEPT ![top + 1] = o]
      BY <2>1, <3>2, FrameAdded DEF TypeOK
    <3> QED BY <1>3, <3>1, <3>2
  <2> QED BY <1>1, <2>1 DEF RecordHonest, TypeOK
<1> QED BY <1>5, <1>6, <1>7, <1>8, <1>9

\* What a write of the ledger may leave, whether or not it was reported to have failed.
LEMMA LedgerWrite ==
  ASSUME TypeOK, NEW w \in SUBSET Seqs, NEW sh \in Record \cup {NoRecord}, NEW d \in BOOLEAN,
         Persisted(w, sh) \/ PersistFailed(w, sh, d)
  PROVE  /\ ledger' \in [exists : BOOLEAN, withheld : SUBSET Seqs, shutdown : Record \cup {NoRecord}]
         /\ dirty' \in BOOLEAN
         /\ \/ ledger' = ledger
            \/ ledger'.withheld = w /\ ledger'.shutdown = sh
         /\ ~unsynced' => ~unsynced /\ (ledger' = ledger \/ Persisted(w, sh))
         /\ Persisted(w, sh) => ledger'.withheld = w /\ ledger'.shutdown = sh /\ ~dirty'
         /\ ~Persisted(w, sh) => dirty' = d
<1> USE DEF Persisted, PersistFailed, failed
<1>1. [exists |-> TRUE, withheld |-> w, shutdown |-> sh] \in
        [exists : BOOLEAN, withheld : SUBSET Seqs, shutdown : Record \cup {NoRecord}]
  OBVIOUS
<1>2. \/ ledger' = ledger
      \/ ledger' = [exists |-> TRUE, withheld |-> w, shutdown |-> sh]
  OBVIOUS
<1>3. ledger' \in [exists : BOOLEAN, withheld : SUBSET Seqs, shutdown : Record \cup {NoRecord}]
  BY <1>1, <1>2 DEF TypeOK
<1>4. dirty' \in BOOLEAN
  OBVIOUS
<1>5. ~unsynced' => ~unsynced /\ (ledger' = ledger \/ Persisted(w, sh))
  OBVIOUS
<1> QED BY <1>2, <1>3, <1>4, <1>5

\* What a write of the ledger that keeps the record leaves of the invariant: the decisions only grow.
LEMMA DecisionWrite ==
  ASSUME FenceInv, svc # "down", NEW w \in SUBSET Seqs,
         withheld \subseteq w, UNCHANGED <<sent, ackFile, pending>>,
         \/ Persisted(w, pending) \/ PersistFailed(w, pending, TRUE)
         \/ /\ UNCHANGED <<ledger, unsynced>> /\ dirty' \in BOOLEAN
            /\ ~dirty' => ~dirty /\ w = withheld
  PROVE  /\ ledger' \in [exists : BOOLEAN, withheld : SUBSET Seqs, shutdown : Record \cup {NoRecord}]
         /\ dirty' \in BOOLEAN
         /\ PlaceholderRecorded' /\ RecordExact'
         /\ withheld \cap ledger.withheld \subseteq ledger'.withheld
         /\ ~dirty' => w \subseteq ledger'.withheld
         /\ ~unsynced' => ~unsynced /\ ledger'.shutdown = ledger.shutdown
         /\ ledger'.shutdown \in {ledger.shutdown, pending}
<1> USE FenceAssumption DEF FenceInv
<1>1. CASE /\ UNCHANGED <<ledger, unsynced>> /\ dirty' \in BOOLEAN
           /\ ~dirty' => ~dirty /\ w = withheld
  BY <1>1 DEF TypeOK, PlaceholderRecorded, RecordExact, SentShape
<1>2. CASE Persisted(w, pending) \/ PersistFailed(w, pending, TRUE)
  <2>1. /\ ledger' \in [exists : BOOLEAN, withheld : SUBSET Seqs, shutdown : Record \cup {NoRecord}]
        /\ dirty' \in BOOLEAN
        /\ \/ ledger' = ledger
           \/ ledger'.withheld = w /\ ledger'.shutdown = pending
        /\ ~unsynced' => ~unsynced
        /\ Persisted(w, pending) => ledger'.withheld = w /\ ledger'.shutdown = pending /\ ~dirty'
        /\ ~Persisted(w, pending) => dirty' = TRUE
    <3>1. pending \in Record \cup {NoRecord} /\ TypeOK
      BY DEF TypeOK
    <3> QED BY <1>2, <3>1, LedgerWrite
  <2>2. ~unsynced => ledger.shutdown = pending
    BY DEF RecordShape
  <2>3. ~unsynced' => ledger'.shutdown = ledger.shutdown
    BY <2>1, <2>2
  <2>4. PlaceholderRecorded'
    BY <2>1 DEF PlaceholderRecorded, SentShape
  <2>5. RecordExact'
    BY <2>1, <2>3 DEF RecordExact
  <2> QED BY <2>1, <2>3, <2>4, <2>5
<1> QED BY <1>1, <1>2

\* An append's origin is recorded: its sequence is above the batch, whatever is decided on it.
LEMMA RecordAppendStep ==
  ASSUME FenceInv, RecordAppend
  PROVE  FenceInv'
<1> USE FenceAssumption DEF FenceInv
<1>1. /\ UNCHANGED <<top, cap, ackFile, svc, mode, file, pub, ver, gens, late, upc, uhigh, blast, ph,
                     attempted, applied, pending, recorded, sent, tried, untracked, safe, unsure>>
      /\ svc # "down" /\ wpc = "durable" /\ wpc' = "idle" /\ worigin' = NoOrigin /\ wseq' = 0
      /\ origins' = [origins EXCEPT ![wseq] = worigin]
      /\ wseq \in Seqs /\ wseq > uhigh /\ cap[wseq] = worigin /\ wseq <= top
  BY DEF RecordAppend, AppendDone, policy, lane, hist, LaneShape, TypeOK, Seqs
<1>2. /\ withheld' = withheld \/ withheld' = withheld \cup {wseq}
      /\ \/ Persisted(withheld', pending) \/ PersistFailed(withheld', pending, TRUE)
         \/ UNCHANGED <<ledger, unsynced, dirty, withheld>>
  BY DEF RecordAppend, NoPersist, failed
<1>3. withheld' \in SUBSET Seqs /\ withheld \subseteq withheld'
  BY <1>1, <1>2 DEF TypeOK
<1>4. /\ ledger' \in [exists : BOOLEAN, withheld : SUBSET Seqs, shutdown : Record \cup {NoRecord}]
      /\ dirty' \in BOOLEAN
      /\ PlaceholderRecorded' /\ RecordExact'
      /\ withheld \cap ledger.withheld \subseteq ledger'.withheld
      /\ ~dirty' => withheld' \subseteq ledger'.withheld
      /\ ~unsynced' => ~unsynced /\ ledger'.shutdown = ledger.shutdown
      /\ ledger'.shutdown \in {ledger.shutdown, pending}
  <2>1. \/ Persisted(withheld', pending) \/ PersistFailed(withheld', pending, TRUE)
        \/ /\ UNCHANGED <<ledger, unsynced>> /\ dirty' \in BOOLEAN
           /\ ~dirty' => ~dirty /\ withheld' = withheld
    BY <1>2 DEF TypeOK
  <2>2. FenceInv /\ svc # "down" /\ UNCHANGED <<sent, ackFile, pending>>
    BY <1>1
  <2> HIDE DEF FenceInv
  <2> QED BY <1>3, <2>1, <2>2, DecisionWrite
<1>5. TypeOK'
  BY <1>1, <1>3, <1>4 DEF TypeOK
<1>6. LaneShape'
  <2>1. ASSUME upc \in {"formed", "send", "reply"}
        PROVE  /\ ph \subseteq withheld'
               /\ \A s \in withheld' : ackFile < s /\ s <= blast => s \in ph
    <3>1. blast <= uhigh /\ ph \subseteq withheld
          /\ \A s \in withheld : ackFile < s /\ s <= blast => s \in ph
      BY <2>1 DEF LaneShape
    <3>2. ~(wseq <= blast)
      BY <1>1, <3>1 DEF TypeOK, Seqs
    <3> QED BY <1>2, <3>1, <3>2
  <2>2. ASSUME upc \in {"send", "reply"}
        PROVE  ph \subseteq ledger'.withheld
    BY <1>4, <2>2 DEF LaneShape
  <2> QED BY <1>1, <2>1, <2>2 DEF LaneShape
<1>7. SentShape'
  BY <1>1, <1>2, <1>4 DEF SentShape, TypeOK
<1>8. RecordShape'
  BY <1>1, <1>4 DEF RecordShape
<1>9. RecordHonest'
  BY <1>1, <1>4 DEF RecordHonest, Honest
<1> QED BY <1>4, <1>5, <1>6, <1>7, <1>8, <1>9

\* The steps of the lane that start and end a pass.
LEMMA PassSteps ==
  ASSUME FenceInv, Ceiling \/ PassCancelled \/ NothingOwed \/ ReplyLost \/ SendFails \/ ShutdownBegins
  PROVE  FenceInv'
<1> USE FenceAssumption DEF FenceInv
<1>1. /\ UNCHANGED <<top, cap, ackFile, ledger, mode, file, pub, ver, gens, wpc, worigin, wseq, late,
                     origins, withheld, attempted, applied, dirty, pending, recorded,
                     sent, tried, untracked, safe, unsure, unsynced>>
      /\ svc' \in {"up", "stopping", "recorded", "draining", "expired"} /\ svc # "down"
  BY DEF Ceiling, PassCancelled, NothingOwed, ReplyLost, SendFails, ShutdownBegins, policy, watch,
         fence, lane, hist, bounds, failed, TypeOK, LaneShape
<1>2. \/ upc' = "refresh" /\ uhigh' = top /\ wpc = "idle" /\ UNCHANGED <<blast, ph>>
      \/ upc' = "idle" /\ uhigh' = 0 /\ blast' = 0 /\ ph' = {}
      \/ upc = "reply" /\ upc' = "send" /\ UNCHANGED <<uhigh, blast, ph>>
      \/ UNCHANGED <<upc, uhigh, blast, ph>>
  BY DEF Ceiling, PassCancelled, NothingOwed, ReplyLost, SendFails, ShutdownBegins, PassEnds, lane
<1>3. TypeOK'
  BY <1>1, <1>2 DEF TypeOK
<1>4. PlaceholderRecorded' /\ RecordExact'
  BY <1>1 DEF PlaceholderRecorded, RecordExact
<1>5. LaneShape'
  BY <1>1, <1>2 DEF LaneShape, TypeOK
<1>6. SentShape' /\ RecordShape'
  BY <1>1, <1>2 DEF SentShape, RecordShape
<1>7. RecordHonest'
  BY <1>1 DEF RecordHonest, Honest
<1> QED BY <1>3, <1>4, <1>5, <1>6, <1>7

\* refresh: decisions are added and written, and the record stays.
LEMMA RefreshStep ==
  ASSUME FenceInv, Refresh
  PROVE  FenceInv'
<1> USE FenceAssumption DEF FenceInv
<1>1. /\ UNCHANGED <<top, cap, ackFile, file, svc, mode, gens, wpc, worigin, wseq, late, blast, ph,
                     origins, attempted, pending, recorded, sent, tried, untracked, safe, unsure>>
      /\ svc # "down" /\ upc = "refresh"
      /\ \/ upc' = "plan" /\ uhigh' = uhigh
         \/ upc' = "idle" /\ uhigh' = 0
  BY DEF Refresh, watch, hist, LaneShape
<1>2. /\ applied' = ver' /\ ver' \in Nat /\ pub' \in Policy
      /\ \/ Persisted(withheld', pending) \/ PersistFailed(withheld', pending, TRUE)
         \/ UNCHANGED <<ledger, unsynced, dirty, withheld>>
  <2>1. applied' = ver' /\ ver' \in Nat /\ pub' \in Policy
    BY DEF Refresh, Current, TypeOK
  <2>2. \/ Persisted(withheld', pending) \/ PersistFailed(withheld', pending, TRUE)
        \/ UNCHANGED <<ledger, unsynced, dirty, withheld>>
    BY DEF Refresh, NoPersist, failed
  <2> QED BY <2>1, <2>2
<1>3. withheld' \in SUBSET Seqs /\ withheld \subseteq withheld'
  <2>1. withheld' = withheld \/ withheld' = withheld \cup Withdrawn(pub')
    BY DEF Refresh, Applied
  <2> QED BY <2>1 DEF Withdrawn, TypeOK
<1>4. /\ ledger' \in [exists : BOOLEAN, withheld : SUBSET Seqs, shutdown : Record \cup {NoRecord}]
      /\ dirty' \in BOOLEAN
      /\ PlaceholderRecorded' /\ RecordExact'
      /\ ~dirty' => withheld' \subseteq ledger'.withheld
      /\ ~unsynced' => ~unsynced /\ ledger'.shutdown = ledger.shutdown
      /\ ledger'.shutdown \in {ledger.shutdown, pending}
  <2>1. \/ Persisted(withheld', pending) \/ PersistFailed(withheld', pending, TRUE)
        \/ /\ UNCHANGED <<ledger, unsynced>> /\ dirty' \in BOOLEAN
           /\ ~dirty' => ~dirty /\ withheld' = withheld
    BY <1>2 DEF TypeOK
  <2>2. FenceInv /\ svc # "down" /\ UNCHANGED <<sent, ackFile, pending>>
    BY <1>1
  <2> HIDE DEF FenceInv
  <2> QED BY <1>3, <2>1, <2>2, DecisionWrite
<1>5. TypeOK'
  BY <1>1, <1>2, <1>3, <1>4 DEF TypeOK
<1>6. LaneShape'
  BY <1>1 DEF LaneShape, TypeOK
<1>7. SentShape'
  BY <1>1, <1>3, <1>4 DEF SentShape, TypeOK
<1>8. RecordShape'
  BY <1>1, <1>4 DEF RecordShape
<1>9. RecordHonest'
  BY <1>1, <1>4 DEF RecordHonest, Honest
<1> QED BY <1>4, <1>5, <1>6, <1>7, <1>8, <1>9

\* Planner.Next: the batch's placeholders are what the fence withholds of its range.
LEMMA PlanBatchStep ==
  ASSUME FenceInv, PlanBatch
  PROVE  FenceInv'
<1> USE FenceAssumption DEF FenceInv
<1>1. /\ UNCHANGED <<top, cap, ackFile, file, svc, mode, pub, ver, gens, wpc, worigin, wseq, late,
                     uhigh, origins, attempted, pending, recorded, sent, tried, untracked, safe, unsure>>
      /\ svc # "down" /\ upc = "plan" /\ upc' = "formed" /\ applied' = ver
  BY DEF PlanBatch, policy, watch, hist, LaneShape
<1>2. /\ blast' \in ackFile + 1..Min2(ackFile + MaxBatch, uhigh)
      /\ ph' = withheld' \cap (ackFile + 1..blast')
  BY DEF PlanBatch
<1>3. blast' \in Seqs /\ ackFile < blast' /\ blast' <= uhigh
  BY <1>2 DEF Min2, TypeOK, Seqs
<1>4. withheld' \in SUBSET Seqs /\ withheld \subseteq withheld'
  <2>1. \E S \in SUBSET Seqs : withheld' = Applied(pub, ver) \cup (S \cap Withdrawn(pub))
    BY DEF PlanBatch, Withdrawn, Applied
  <2> QED BY <2>1 DEF Withdrawn, Applied, TypeOK
<1>5. \/ Persisted(withheld', pending) \/ PersistFailed(withheld', pending, TRUE)
      \/ /\ UNCHANGED <<ledger, unsynced>> /\ dirty' \in BOOLEAN
         /\ ~dirty' => ~dirty /\ withheld' = withheld
  <2> DEFINE read == ackFile + 1..Min2(ackFile + MaxBatch, uhigh)
             backlog == Applied(pub, ver)
  <2>1. withheld' = backlog \cup (read \cap Withdrawn(pub))
    BY DEF PlanBatch
  <2>2. CASE backlog = withheld /\ NoPersist(dirty \/ withheld' # backlog)
    BY <2>2 DEF NoPersist, failed
  <2>3. CASE backlog # withheld /\ (Persisted(backlog, pending) \/ PersistFailed(backlog, pending, TRUE))
    <3>1. backlog = withheld'
      BY <2>1, <2>3 DEF Applied
    <3> QED BY <2>3, <3>1
  <2>4. \/ backlog = withheld /\ NoPersist(dirty \/ withheld' # backlog)
        \/ backlog # withheld /\ (Persisted(backlog, pending) \/ PersistFailed(backlog, pending, TRUE))
    BY DEF PlanBatch
  <2> QED BY <2>2, <2>3, <2>4
<1>6. /\ ledger' \in [exists : BOOLEAN, withheld : SUBSET Seqs, shutdown : Record \cup {NoRecord}]
      /\ dirty' \in BOOLEAN
      /\ PlaceholderRecorded' /\ RecordExact'
      /\ ~dirty' => withheld' \subseteq ledger'.withheld
      /\ ~unsynced' => ~unsynced /\ ledger'.shutdown = ledger.shutdown
      /\ ledger'.shutdown \in {ledger.shutdown, pending}
  <2>1. FenceInv /\ svc # "down" /\ UNCHANGED <<sent, ackFile, pending>>
    BY <1>1
  <2> HIDE DEF FenceInv
  <2> QED BY <1>4, <1>5, <2>1, DecisionWrite
<1>7. TypeOK'
  BY <1>1, <1>2, <1>3, <1>4, <1>6 DEF TypeOK, Seqs
<1>8. LaneShape'
  BY <1>1, <1>2, <1>3, <1>4 DEF LaneShape, TypeOK, Seqs
<1>9. SentShape'
  BY <1>1, <1>4, <1>6 DEF SentShape, TypeOK
<1>10. RecordShape'
  BY <1>1, <1>6 DEF RecordShape
<1>11. RecordHonest'
  BY <1>1, <1>6 DEF RecordHonest, Honest
<1> QED BY <1>6, <1>7, <1>8, <1>9, <1>10, <1>11

\* shutdownRecordLocked: the record covers its two marks and every origin it keeps.
LEMMA ShutdownRecordSound ==
  ASSUME TypeOK, NEW att \in 0..MaxSeq, NEW highest \in 0..MaxSeq
  PROVE  /\ ShutdownRecord(att, highest) \in Record
         /\ ShutdownRecord(att, highest).att = att
         /\ ShutdownRecord(att, highest).org = [s \in Seqs |-> IF s > att THEN origins[s] ELSE NoOrigin]
         /\ att <= ShutdownRecord(att, highest).high /\ highest <= ShutdownRecord(att, highest).high
         /\ \/ ShutdownRecord(att, highest).high \in {att, highest}
            \/ \E s \in Seqs : origins[s] # NoOrigin /\ ShutdownRecord(att, highest).high = s
<1> DEFINE org == [s \in Seqs |-> IF s > att THEN origins[s] ELSE NoOrigin]
           marks == {highest, att} \cup {s \in Seqs : org[s] # NoOrigin}
           high == CHOOSE h \in marks : \A x \in marks : x <= h
<1>1. MaxSeq \in Nat /\ marks \subseteq 0..MaxSeq /\ marks # {}
  BY FenceAssumption DEF Seqs
<1>2. \E h \in marks : \A x \in marks : x <= h
  BY <1>1, GreatestExists
<1>3. high \in marks /\ \A x \in marks : x <= high
  BY <1>2
<1>4. org \in [Seqs -> Origin \cup {NoOrigin}]
  BY DEF TypeOK
<1>5. ShutdownRecord(att, highest) = [high |-> high, att |-> att, org |-> org]
  BY DEF ShutdownRecord
<1>6. high \in 0..MaxSeq
  BY <1>1, <1>3
<1>7. \A s \in Seqs : org[s] # NoOrigin => origins[s] # NoOrigin
  OBVIOUS
<1> HIDE DEF org, high
<1>8. ShutdownRecord(att, highest) \in Record
  BY <1>4, <1>5, <1>6 DEF Record
<1>9. /\ ShutdownRecord(att, highest).att = att
      /\ ShutdownRecord(att, highest).high = high /\ ShutdownRecord(att, highest).org = org
  BY <1>5
<1>10. att <= high /\ highest <= high
  BY <1>3
<1>11. high \in {att, highest} \/ \E s \in Seqs : origins[s] # NoOrigin /\ high = s
  BY <1>3, <1>7
<1> QED BY <1>8, <1>9, <1>10, <1>11 DEF org

\* It is honest when its marks are sequences the spool has.
LEMMA ShutdownRecordHonest ==
  ASSUME FenceInv, svc # "down", NEW att \in 0..MaxSeq, NEW highest \in 0..MaxSeq, att <= top, highest <= top
  PROVE  Honest(ShutdownRecord(att, highest))
<1> DEFINE R == ShutdownRecord(att, highest)
<1>1. \A s \in Seqs : origins[s] # NoOrigin => s <= top /\ origins[s] = cap[s]
  BY DEF FenceInv, SentShape
<1>2. /\ R.att = att /\ att <= R.high
      /\ R.org = [s \in Seqs |-> IF s > att THEN origins[s] ELSE NoOrigin]
      /\ \/ R.high \in {att, highest}
         \/ \E s \in Seqs : origins[s] # NoOrigin /\ R.high = s
  BY ShutdownRecordSound DEF FenceInv
<1>3. R.high <= top
  BY <1>1, <1>2
<1>4. \A s \in Seqs : R.org[s] # NoOrigin => R.org[s] = cap[s]
  BY <1>1, <1>2
<1> QED BY <1>2, <1>3, <1>4 DEF Honest

\* beforeSend: the decisions and the record are on disk, and its range is final, or nothing is sent.
LEMMA BeforeSendStep ==
  ASSUME FenceInv, BeforeSend
  PROVE  FenceInv'
<1> USE FenceAssumption DEF FenceInv
<1> DEFINE att == Max2(attempted, blast)
           sh == IF recorded THEN ShutdownRecord(att, pending.high) ELSE NoRecord
           write == recorded \/ pending # NoRecord \/ dirty
<1>1. /\ UNCHANGED <<top, cap, ackFile, file, svc, mode, pub, ver, gens, wpc, worigin, wseq, late,
                     origins, withheld, applied, recorded, sent, untracked, unsure>>
      /\ svc # "down" /\ upc = "formed" /\ (safe' = safe \/ safe' = 0)
  BY DEF BeforeSend, policy, watch, LaneShape
<1>2. /\ att \in 0..MaxSeq /\ att <= top /\ attempted <= att /\ blast <= att
      /\ ackFile < blast /\ blast <= uhigh /\ uhigh <= top
      /\ wpc = "durable" => wseq > att
  BY <1>1 DEF Max2, TypeOK, LaneShape, SentShape
<1>3. /\ sh \in Record \cup {NoRecord}
      /\ recorded => sh \in Record
      /\ ~recorded => sh = NoRecord
      /\ sh # NoRecord => recorded /\ sh.att = att /\ Honest(sh)
  <2>1. CASE recorded
    <3>1. pending \in Record /\ pending.high \in 0..MaxSeq /\ pending.high <= top
      BY <2>1 DEF SentShape, Record, RecordHonest, Honest
    <3>2. Honest(ShutdownRecord(att, pending.high))
      BY <1>1, <1>2, <3>1, ShutdownRecordHonest
    <3> QED BY <1>2, <2>1, <3>1, <3>2, ShutdownRecordSound
  <2>2. CASE ~recorded
    BY <2>2
  <2> QED BY <2>1, <2>2
<1> HIDE DEF att, sh
<1>4. ASSUME ledger' = ledger, ~write
      PROVE  sh = pending /\ withheld \subseteq ledger'.withheld
  BY <1>1, <1>3, <1>4 DEF SentShape
<1>5. \A s \in Seqs : "placeholder" \in sent[s] /\ s > ackFile => s \in withheld
  BY <1>1 DEF SentShape
<1>6. CASE /\ IF write THEN Persisted(withheld, sh) ELSE NoPersist(dirty)
           /\ attempted' = att /\ pending' = sh
           /\ upc' = "send" /\ tried' = tried \cup (ackFile + 1..blast)
           /\ UNCHANGED <<uhigh, blast, ph>>
  <2>1. /\ ledger' \in [exists : BOOLEAN, withheld : SUBSET Seqs, shutdown : Record \cup {NoRecord}]
        /\ dirty' \in BOOLEAN
        /\ withheld \subseteq ledger'.withheld
        /\ unsynced' = unsynced
        /\ ~unsynced' => ledger'.shutdown = sh
        /\ ledger'.shutdown \in {ledger.shutdown, sh}
    <3>1. CASE write /\ Persisted(withheld, sh)
      <4>1. withheld \in SUBSET Seqs /\ FALSE \in BOOLEAN
        BY DEF TypeOK
      <4>2. unsynced' = unsynced
        BY <3>1 DEF Persisted, failed
      <4> QED BY <1>3, <3>1, <4>1, <4>2, LedgerWrite
    <3>2. CASE ~write /\ NoPersist(dirty)
      <4>1. UNCHANGED <<ledger, dirty, unsynced>>
        BY <3>2 DEF NoPersist, failed
      <4>2. ~unsynced => ledger.shutdown = pending
        BY <1>1 DEF RecordShape
      <4> QED BY <1>4, <3>2, <4>1, <4>2 DEF TypeOK
    <3> QED BY <1>6, <3>1, <3>2
  <2>2. ackFile + 1..blast \subseteq Seqs /\ \A s \in ackFile + 1..blast : s <= top
    BY <1>2 DEF TypeOK, Seqs
  <2>3. TypeOK'
    BY <1>1, <1>2, <1>3, <1>6, <2>1, <2>2 DEF TypeOK
  <2>4. PlaceholderRecorded'
    BY <1>1, <1>5, <2>1 DEF PlaceholderRecorded
  <2>5. ~unsynced => \A s \in Seqs : s > att => sent[s] = {}
    BY <1>1, <1>2 DEF RecordShape, TypeOK, Seqs
  <2>6. RecordExact'
    BY <1>1, <1>3, <2>1, <2>5 DEF RecordExact
  <2>7. LaneShape'
    BY <1>1, <1>2, <1>6, <2>1 DEF LaneShape
  <2>8. SentShape'
    BY <1>1, <1>2, <1>3, <1>6, <2>1, <2>2 DEF SentShape
  <2>9. RecordShape'
    BY <1>1, <1>2, <1>3, <1>6, <2>1, <2>5 DEF RecordShape
  <2>10. RecordHonest'
    BY <1>1, <1>3, <1>6, <2>1 DEF RecordHonest, Honest
  <2> QED BY <2>3, <2>4, <2>6, <2>7, <2>8, <2>9, <2>10
<1>7. CASE /\ write /\ PersistFailed(withheld, sh, dirty)
           /\ PassEnds /\ UNCHANGED <<attempted, pending, tried>>
  <2>1. /\ ledger' \in [exists : BOOLEAN, withheld : SUBSET Seqs, shutdown : Record \cup {NoRecord}]
        /\ dirty' = dirty
        /\ ledger' = ledger \/ (ledger'.withheld = withheld /\ ledger'.shutdown = sh)
        /\ ~unsynced' => ~unsynced /\ ledger' = ledger
    <3>1. withheld \in SUBSET Seqs /\ dirty \in BOOLEAN
      BY DEF TypeOK
    <3>2. dirty' = dirty /\ (~unsynced' => ~unsynced /\ ledger' = ledger)
      BY <1>7 DEF PersistFailed
    <3> QED BY <1>3, <1>7, <3>1, <3>2, LedgerWrite
  <2>2. TypeOK'
    BY <1>1, <1>7, <2>1 DEF TypeOK, PassEnds
  <2>3. PlaceholderRecorded' /\ RecordExact'
    BY <1>1, <1>5, <2>1 DEF PlaceholderRecorded, RecordExact
  <2>4. LaneShape'
    BY <1>1, <1>7 DEF LaneShape, PassEnds, TypeOK
  <2>5. SentShape'
    BY <1>1, <1>7, <2>1 DEF SentShape
  <2>6. RecordShape'
    BY <1>1, <1>7, <2>1 DEF RecordShape, PassEnds
  <2>7. RecordHonest'
    BY <1>1, <1>3, <1>7, <2>1 DEF RecordHonest, Honest
  <2> QED BY <2>2, <2>3, <2>4, <2>5, <2>6, <2>7
<1> QED BY <1>6, <1>7 DEF BeforeSend, att, sh

\* One attempt: what is sent as a placeholder is withheld on disk and in memory.
LEMMA SendStep ==
  ASSUME FenceInv, Send
  PROVE  FenceInv'
<1> USE FenceAssumption DEF FenceInv
<1>1. /\ UNCHANGED <<top, cap, ackFile, ledger, svc, mode, file, pub, ver, gens, wpc, worigin, wseq,
                     late, uhigh, blast, ph, origins, withheld, attempted, applied, dirty, pending,
                     recorded, tried, untracked, safe, unsure, unsynced>>
      /\ svc # "down" /\ upc = "send" /\ upc' = "reply"
  BY DEF Send, policy, watch, fence, failed, LaneShape
<1>2. /\ ackFile < blast /\ blast <= uhigh /\ ph \subseteq withheld /\ blast <= attempted
      /\ ph \subseteq ledger.withheld /\ ackFile + 1..blast \subseteq tried
  BY <1>1 DEF LaneShape
<1>3. /\ sent' \in [Seqs -> SUBSET Forms]
      /\ \A s \in Seqs : ~(ackFile < s /\ s <= blast) => sent'[s] = sent[s]
      /\ \A s \in Seqs : "placeholder" \in sent'[s] => "placeholder" \in sent[s] \/ s \in ph
  BY DEF Send, TypeOK, Forms
<1>4. TypeOK'
  BY <1>1, <1>3 DEF TypeOK
<1>5. PlaceholderRecorded'
  BY <1>1, <1>2, <1>3 DEF PlaceholderRecorded
<1>6. \A s \in Seqs : s > attempted => sent'[s] = sent[s]
  BY <1>2, <1>3 DEF TypeOK, Seqs
<1>7. ~unsynced /\ ledger.shutdown # NoRecord =>
        \A s \in Seqs : s > ledger.shutdown.att => sent'[s] = sent[s]
  <2> SUFFICES ASSUME ~unsynced, ledger.shutdown # NoRecord, NEW s \in Seqs, s > ledger.shutdown.att
               PROVE  sent'[s] = sent[s]
    OBVIOUS
  <2>1. blast <= ledger.shutdown.att
    BY <1>1 DEF RecordShape
  <2>2. ledger.shutdown.att \in 0..MaxSeq
    BY DEF TypeOK, Record
  <2> QED BY <1>3, <2>1, <2>2 DEF TypeOK, Seqs
<1>8. RecordExact'
  BY <1>1, <1>7 DEF RecordExact
<1>9. LaneShape'
  BY <1>1 DEF LaneShape
<1>10. SentShape'
  <2>1. \A s \in Seqs : sent'[s] # {} => s \in tried
    <3> SUFFICES ASSUME NEW s \in Seqs, ackFile < s /\ s <= blast
                 PROVE  s \in ackFile + 1..blast
      BY <1>2, <1>3 DEF SentShape
    <3> QED BY DEF TypeOK, Seqs
  <2> QED BY <1>1, <1>2, <1>3, <2>1 DEF SentShape
<1>11. RecordShape'
  BY <1>1, <1>6 DEF RecordShape
<1>12. RecordHonest'
  BY <1>1 DEF RecordHonest, Honest
<1> QED BY <1>4, <1>5, <1>8, <1>9, <1>10, <1>11, <1>12

\* A validated reply: the fence forgets what is acknowledged, in memory only.
LEMMA AcknowledgeStep ==
  ASSUME FenceInv, Acknowledge
  PROVE  FenceInv'
<1> USE FenceAssumption DEF FenceInv
<1>1. /\ UNCHANGED <<top, cap, ledger, svc, mode, file, pub, ver, gens, wpc, worigin, wseq, late,
                     uhigh, attempted, applied, dirty, pending, recorded, sent, tried, untracked,
                     safe, unsure, unsynced>>
      /\ svc # "down" /\ upc = "reply" /\ upc' = "refresh" /\ blast' = 0 /\ ph' = {}
      /\ ackFile' = blast
      /\ withheld' = {s \in withheld : s > blast}
      /\ origins' = [s \in Seqs |-> IF s <= blast THEN NoOrigin ELSE origins[s]]
  BY DEF Acknowledge, policy, watch, hist, failed, LaneShape
<1>2. ackFile < blast /\ blast <= uhigh /\ uhigh <= top
  BY <1>1 DEF LaneShape
<1>3. TypeOK'
  BY <1>1, <1>2 DEF TypeOK
<1>4. \A s \in Seqs : s > blast => s > ackFile
  BY <1>2 DEF TypeOK, Seqs
<1>5. PlaceholderRecorded' /\ RecordExact'
  BY <1>1, <1>4 DEF PlaceholderRecorded, RecordExact
<1>6. LaneShape'
  BY <1>1 DEF LaneShape
<1>7. SentShape'
  BY <1>1, <1>4 DEF SentShape
<1>8. RecordShape'
  BY <1>1 DEF RecordShape
<1>9. RecordHonest'
  BY <1>1 DEF RecordHonest, Honest
<1> QED BY <1>3, <1>5, <1>6, <1>7, <1>8, <1>9

\* recordShutdown: the record says of what was never sent under which consent it was captured.
LEMMA RecordShutdownStep ==
  ASSUME FenceInv, RecordShutdown
  PROVE  FenceInv'
<1> USE FenceAssumption DEF FenceInv
<1> DEFINE sh == ShutdownRecord(attempted, top)
<1>1. /\ UNCHANGED <<top, cap, ackFile, file, mode, pub, ver, gens, wpc, worigin, wseq, late,
                     upc, uhigh, blast, ph, origins, withheld, attempted, applied, sent, tried, unsure>>
      /\ svc # "down" /\ svc' \in {"recorded", "expired"}
  BY DEF RecordShutdown, policy, watch, lane
<1>2. attempted <= top /\ attempted \in 0..MaxSeq /\ top \in 0..MaxSeq /\ top <= top
  BY <1>1 DEF TypeOK, SentShape
<1>3. sh \in Record /\ sh.att = attempted /\ Honest(sh) /\ sh # NoRecord
  <2>1. sh \in Record /\ sh.att = attempted
    BY <1>2, ShutdownRecordSound
  <2>2. Honest(sh)
    BY <1>1, <1>2, ShutdownRecordHonest
  <2> QED BY <2>1, <2>2
<1> HIDE DEF sh
<1>4. \A s \in Seqs : "placeholder" \in sent[s] /\ s > ackFile => s \in withheld
  BY <1>1 DEF SentShape
<1>5. CASE /\ Persisted(withheld, sh) /\ pending' = sh /\ recorded' = TRUE
           /\ safe' = top
           /\ untracked' = IF wpc = "durable" THEN untracked \cup {wseq} ELSE untracked
  <2>1. /\ ledger' \in [exists : BOOLEAN, withheld : SUBSET Seqs, shutdown : Record \cup {NoRecord}]
        /\ dirty' \in BOOLEAN /\ unsynced' = unsynced
        /\ ledger'.withheld = withheld /\ ledger'.shutdown = sh
    <3>1. withheld \in SUBSET Seqs /\ FALSE \in BOOLEAN
      BY DEF TypeOK
    <3>2. unsynced' = unsynced
      BY <1>5 DEF Persisted, failed
    <3> QED BY <1>3, <1>5, <3>1, <3>2, LedgerWrite
  <2>2. untracked' \subseteq Seqs
    BY <1>5 DEF TypeOK, LaneShape, Seqs
  <2>3. TypeOK'
    BY <1>1, <1>3, <1>5, <2>1, <2>2 DEF TypeOK
  <2>4. PlaceholderRecorded'
    BY <1>1, <1>4, <2>1 DEF PlaceholderRecorded
  <2>5. RecordExact'
    BY <1>1, <1>3, <2>1 DEF RecordExact, RecordShape
  <2>6. LaneShape'
    BY <1>1, <2>1 DEF LaneShape
  <2>7. SentShape'
    BY <1>1, <1>3, <1>5, <2>1 DEF SentShape
  <2>8. RecordShape'
    BY <1>1, <1>3, <1>5, <2>1 DEF RecordShape, LaneShape
  <2>9. RecordHonest'
    BY <1>1, <1>3, <1>5, <2>1 DEF RecordHonest, Honest
  <2> QED BY <2>3, <2>4, <2>5, <2>6, <2>7, <2>8, <2>9
<1>6. CASE PersistFailed(withheld, sh, dirty) /\ UNCHANGED <<pending, recorded, safe, untracked>>
  <2>1. /\ ledger' \in [exists : BOOLEAN, withheld : SUBSET Seqs, shutdown : Record \cup {NoRecord}]
        /\ dirty' = dirty
        /\ ledger' = ledger \/ (ledger'.withheld = withheld /\ ledger'.shutdown = sh)
        /\ ~unsynced' => ~unsynced /\ ledger' = ledger
    <3>1. withheld \in SUBSET Seqs /\ dirty \in BOOLEAN
      BY DEF TypeOK
    <3>2. dirty' = dirty /\ (~unsynced' => ~unsynced /\ ledger' = ledger)
      BY <1>6 DEF PersistFailed
    <3> QED BY <1>3, <1>6, <3>1, <3>2, LedgerWrite
  <2>2. TypeOK'
    BY <1>1, <1>6, <2>1 DEF TypeOK
  <2>3. PlaceholderRecorded' /\ RecordExact'
    BY <1>1, <1>4, <2>1 DEF PlaceholderRecorded, RecordExact
  <2>4. LaneShape'
    BY <1>1, <2>1 DEF LaneShape
  <2>5. SentShape' /\ RecordShape'
    BY <1>1, <1>6, <2>1 DEF SentShape, RecordShape
  <2>6. RecordHonest'
    BY <1>1, <1>3, <1>6, <2>1 DEF RecordHonest, Honest
  <2> QED BY <2>2, <2>3, <2>4, <2>5, <2>6
<1> QED BY <1>5, <1>6 DEF RecordShutdown, sh

\* A crash or the end of a shutdown leaves what is on disk.
LEMMA ProcessEndsStep ==
  ASSUME FenceInv, Exit \/ Crash
  PROVE  FenceInv'
<1> USE FenceAssumption DEF FenceInv
<1>1. /\ UNCHANGED <<top, cap, ackFile, ledger, file, sent, tried, unsure, unsynced>>
      /\ svc' = "down" /\ mode' = "live" /\ pub' = EmptyPolicy /\ ver' = 0 /\ gens' = EmptyPolicy
      /\ wpc' = "idle" /\ worigin' = NoOrigin /\ wseq' = 0 /\ late' = NoOrigin
      /\ upc' = "idle" /\ uhigh' = 0 /\ blast' = 0 /\ ph' = {}
      /\ origins' = NoOrigins /\ withheld' = {} /\ attempted' = 0 /\ applied' = 0
      /\ dirty' = FALSE /\ pending' = NoRecord /\ recorded' = FALSE
      /\ untracked' = untracked \cup (safe + 1..top) /\ safe' = 0
      /\ svc # "down"
  BY DEF Exit, Crash, ProcessEnds, PassEnds, failed
<1>2. TypeOK'
  <2>1. untracked' \subseteq Seqs
    BY <1>1 DEF TypeOK, Seqs
  <2>2. EmptyPolicy \in Policy /\ NoOrigins \in [Seqs -> Origin \cup {NoOrigin}]
    BY DEF EmptyPolicy, Policy, Entry, NoOrigins
  <2>3. 0 \in Nat /\ 0 \in 0..0 /\ 0 \in 0..MaxSeq
    OBVIOUS
  <2>4. FALSE \in BOOLEAN /\ {} \subseteq Seqs
    OBVIOUS
  <2> QED BY <1>1, <2>1, <2>2, <2>3, <2>4 DEF TypeOK
<1>3. PlaceholderRecorded' /\ RecordExact'
  BY <1>1 DEF PlaceholderRecorded, RecordExact
<1>4. LaneShape'
  BY <1>1 DEF LaneShape, TypeOK
<1>5. SentShape' /\ RecordShape'
  BY <1>1 DEF SentShape, RecordShape
<1>6. RecordHonest'
  BY <1>1 DEF RecordHonest, Honest
<1> QED BY <1>2, <1>3, <1>4, <1>5, <1>6

\* Segments moved aside: no frame of theirs was handed to the sender.
LEMMA MoveAsideStep ==
  ASSUME FenceInv, NEW k \in 0..MaxSeq, MoveAside(k)
  PROVE  FenceInv'
<1> USE FenceAssumption DEF FenceInv
<1>1. /\ UNCHANGED <<ackFile, ledger, svc, mode, file, pub, ver, gens, wpc, worigin, wseq, late,
                     upc, uhigh, blast, ph, origins, withheld, attempted, applied, dirty, pending,
                     recorded, sent, tried, safe, unsynced>>
      /\ svc = "down" /\ ackFile <= k /\ k < top /\ top' = k
      /\ \A s \in k + 1..top : s \notin tried
      /\ cap' = [s \in Seqs |-> IF s <= k THEN cap[s] ELSE NoOrigin]
      /\ untracked' = {s \in untracked : s <= k} /\ unsure' = Min2(unsure, k)
  BY DEF MoveAside, policy, watch, lane, fence, failed
<1>2. TypeOK'
  <2>1. unsure' \in 0..MaxSeq
    BY <1>1 DEF Min2, TypeOK
  <2>2. cap' \in [Seqs -> Origin \cup {NoOrigin}] /\ untracked' \subseteq Seqs
    BY <1>1 DEF TypeOK
  <2> QED BY <1>1, <2>1, <2>2 DEF TypeOK
<1>3. PlaceholderRecorded' /\ RecordExact'
  BY <1>1 DEF PlaceholderRecorded, RecordExact
<1>4. LaneShape'
  BY <1>1 DEF LaneShape, TypeOK
<1>5. SentShape'
  <2>1. \A s \in tried : s <= k
    <3> TAKE s \in tried
    <3>1. s \in Seqs /\ s <= top
      BY DEF SentShape, TypeOK
    <3> QED BY <1>1, <3>1 DEF TypeOK, Seqs
  <2> QED BY <1>1, <2>1 DEF SentShape
<1>6. RecordShape'
  BY <1>1 DEF RecordShape
<1>7. RecordHonest'
  <2>1. CASE ledger.shutdown = NoRecord
    BY <1>1, <2>1 DEF RecordHonest
  <2>2. CASE ledger.shutdown \in Record
    <3>1. ledger.shutdown.high \in 0..MaxSeq
      BY <2>2 DEF Record
    <3>2. CASE ledger.shutdown.high > k
      BY <1>1, <3>2 DEF RecordHonest
    <3>3. CASE ledger.shutdown.high <= k
      <4>1. Honest(ledger.shutdown)
        BY <1>1, <2>2, <3>1, <3>3 DEF RecordHonest, TypeOK
      <4>2. \A s \in Seqs : s <= ledger.shutdown.high => cap'[s] = cap[s]
        BY <1>1, <3>1, <3>3 DEF Seqs
      <4>3. Honest(ledger.shutdown)'
        BY <1>1, <3>3, <4>1, <4>2 DEF Honest
      <4> QED BY <1>1, <4>3 DEF RecordHonest
    <3> QED BY <3>1, <3>2, <3>3
  <2> QED BY <2>1, <2>2 DEF TypeOK
<1> QED BY <1>2, <1>3, <1>4, <1>5, <1>6, <1>7

\* newConsentFence: what the ledger says is taken over, and a record of frames that are gone is dropped.
LEMMA StartStep ==
  ASSUME FenceInv, NEW m \in {"live", "passive"}, Start(m)
  PROVE  FenceInv'
<1> USE FenceAssumption DEF FenceInv
<1> DEFINE lost == /\ ledger.shutdown # NoRecord
                   /\ \/ ledger.shutdown.high > top
                      \/ ledger.shutdown.att > ledger.shutdown.high
           sh == IF lost THEN NoRecord ELSE ledger.shutdown
           att == LoadedAttempted(sh)
           org == [s \in Seqs |-> IF sh # NoRecord /\ s > att /\ s <= sh.high
                                    THEN sh.org[s] ELSE NoOrigin]
           all == Kept \cup (IF m = "passive" THEN {s \in Seqs : org[s] # NoOrigin} ELSE {})
<1>1. /\ UNCHANGED <<top, cap, ackFile, file, wpc, worigin, wseq, late, upc, uhigh, blast, ph,
                     sent, tried, untracked>>
      /\ svc = "down" /\ upc = "idle" /\ wpc = "idle" /\ unsure' \in {unsure, top}
  BY DEF Start, lane, LaneShape
<1>2. sh \in Record \cup {NoRecord} /\ (sh # NoRecord => sh = ledger.shutdown /\ Honest(sh))
  BY <1>1 DEF RecordHonest, Honest, TypeOK
<1>3. att \in 0..MaxSeq /\ att <= top
  <2>1. CASE sh = NoRecord
    BY <2>1 DEF LoadedAttempted, TypeOK
  <2>2. CASE sh # NoRecord
    <3>1. sh \in Record /\ sh.att \in 0..MaxSeq /\ sh.high \in 0..MaxSeq /\ att = sh.att
      BY <1>2, <2>2 DEF LoadedAttempted, Record
    <3> QED BY <1>2, <2>2, <3>1 DEF Honest, TypeOK
  <2> QED BY <2>1, <2>2
<1>4. /\ org \in [Seqs -> Origin \cup {NoOrigin}]
      /\ \A s \in Seqs : org[s] # NoOrigin => s <= top /\ org[s] = cap[s]
  <2>1. CASE sh = NoRecord
    BY <2>1
  <2>2. CASE sh # NoRecord
    <3>1. /\ sh \in Record /\ sh.org \in [Seqs -> Origin \cup {NoOrigin}]
          /\ sh.high \in 0..MaxSeq /\ Honest(sh)
      BY <1>2, <2>2 DEF Record
    <3> QED BY <3>1 DEF Honest, TypeOK, Seqs
  <2> QED BY <2>1, <2>2
<1>5. /\ Kept \subseteq all /\ Kept \subseteq ledger.withheld /\ all \in SUBSET Seqs
      /\ \A s \in Seqs : "placeholder" \in sent[s] /\ s > ackFile => s \in Kept
  <2>1. Kept \subseteq all /\ Kept \subseteq ledger.withheld /\ all \in SUBSET Seqs
    BY DEF Kept, TypeOK
  <2>2. \A s \in Seqs : "placeholder" \in sent[s] /\ s > ackFile => s \in ledger.withheld /\ s <= top
    BY DEF PlaceholderRecorded, SentShape
  <2> QED BY <2>1, <2>2 DEF Kept
<1>6. ~unsynced => \A s \in Seqs : s > att => sent[s] = {}
  <2>1. CASE sh = NoRecord
    <3>1. \A s \in Seqs : sent[s] # {} => s <= top
      BY DEF SentShape
    <3> QED BY <2>1, <3>1 DEF LoadedAttempted, TypeOK, Seqs
  <2>2. CASE sh # NoRecord
    BY <1>2, <2>2 DEF RecordExact, LoadedAttempted
  <2> QED BY <2>1, <2>2
<1> HIDE DEF lost, sh, att, org, all
<1> DEFINE up == /\ svc' = "up" /\ mode' = m
                 /\ pub' = IF m = "live" THEN file ELSE EmptyPolicy
                 /\ gens' = pub'
                 /\ ver' = 1 /\ applied' = IF m = "passive" /\ sh # NoRecord THEN 1 ELSE 0
                 /\ origins' = org /\ withheld' = all /\ attempted' = att
                 /\ pending' = sh /\ recorded' = FALSE
                 /\ safe' = top
           stay == UNCHANGED <<svc, mode, pub, gens, ver, fence, safe>>
<1>7. \/ ~lost /\ all = Kept /\ up /\ NoPersist(FALSE)
      \/ (lost \/ all # Kept) /\ up /\ Persisted(all, sh)
      \/ (lost \/ all # Kept) /\ stay /\ PersistFailed(all, sh, FALSE)
  BY DEF Start, lost, sh, att, org, all
<1>8. /\ ledger' \in [exists : BOOLEAN, withheld : SUBSET Seqs, shutdown : Record \cup {NoRecord}]
      /\ dirty' = FALSE
      /\ \/ ledger' = ledger
         \/ ledger'.withheld = all /\ ledger'.shutdown = sh
      /\ ~unsynced' => ~unsynced
      /\ up => all \subseteq ledger'.withheld /\ ledger'.shutdown = sh
  <2>1. CASE ~lost /\ all = Kept /\ up /\ NoPersist(FALSE)
    BY <1>5, <2>1 DEF NoPersist, failed, TypeOK, sh
  <2>2. CASE up /\ Persisted(all, sh)
    <3>1. dirty' = FALSE /\ unsynced' = unsynced
      BY <2>2 DEF Persisted, failed
    <3>2. FALSE \in BOOLEAN
      OBVIOUS
    <3> QED BY <1>2, <1>5, <2>2, <3>1, <3>2, LedgerWrite
  <2>3. CASE stay /\ PersistFailed(all, sh, FALSE)
    <3>1. dirty' = FALSE /\ ~up
      BY <1>1, <2>3 DEF PersistFailed
    <3>2. FALSE \in BOOLEAN
      OBVIOUS
    <3> QED BY <1>2, <1>5, <2>3, <3>1, <3>2, LedgerWrite
  <2> QED BY <1>7, <2>1, <2>2, <2>3
<1>9. PlaceholderRecorded' /\ RecordExact'
  <2>1. PlaceholderRecorded'
    BY <1>1, <1>5, <1>8 DEF PlaceholderRecorded
  <2>2. RecordExact'
    BY <1>1, <1>2, <1>8 DEF RecordExact
  <2> QED BY <2>1, <2>2
<1>10. RecordHonest'
  <2>1. up \/ stay
    BY <1>7
  <2>2. ledger'.shutdown \in {ledger.shutdown, NoRecord}
    BY <1>2, <1>8
  <2>3. CASE up
    BY <1>1, <1>2, <1>8, <2>3 DEF RecordHonest, Honest
  <2>4. CASE stay
    BY <1>1, <2>2, <2>4 DEF RecordHonest, Honest, fence
  <2> QED BY <2>1, <2>3, <2>4
<1>11. CASE up
  <2>1. TypeOK'
    <3>1. EmptyPolicy \in Policy /\ file \in Policy /\ m \in {"live", "passive"}
      BY DEF EmptyPolicy, Policy, Entry, TypeOK
    <3>2. applied' \in 0..ver' /\ ver' \in Nat /\ safe' \in 0..MaxSeq
      BY <1>11 DEF TypeOK
    <3>3. FALSE \in BOOLEAN
      OBVIOUS
    <3>4. /\ pub' \in Policy /\ gens' \in Policy /\ mode' \in {"live", "passive"}
          /\ svc' \in {"down", "up", "stopping", "recorded", "draining", "expired"}
          /\ unsure' \in 0..MaxSeq
      BY <1>1, <1>11, <3>1 DEF TypeOK
    <3> HIDE DEF up
    <3>5. /\ origins' \in [Seqs -> Origin \cup {NoOrigin}] /\ withheld' \subseteq Seqs
          /\ attempted' \in 0..MaxSeq /\ pending' \in Record \cup {NoRecord}
          /\ recorded' \in BOOLEAN /\ dirty' \in BOOLEAN
      BY <1>2, <1>3, <1>4, <1>5, <1>8, <1>11, <3>3 DEF up
    <3> QED BY <1>1, <1>8, <3>2, <3>4, <3>5 DEF TypeOK
  <2>2. LaneShape'
    BY <1>1, <1>11 DEF LaneShape, TypeOK
  <2>3. SentShape'
    BY <1>1, <1>3, <1>4, <1>5, <1>8, <1>11 DEF SentShape
  <2>4. RecordShape'
    BY <1>1, <1>6, <1>8, <1>11 DEF RecordShape
  <2> QED BY <1>9, <1>10, <2>1, <2>2, <2>3, <2>4
<1>12. CASE stay
  <2>1. UNCHANGED <<svc, mode, pub, gens, ver, safe, origins, withheld, attempted, applied, dirty,
                    pending, recorded>>
    BY <1>12 DEF fence
  <2>2. unsure' \in 0..MaxSeq
    BY <1>1 DEF TypeOK
  <2>3. TypeOK'
    BY <1>1, <1>8, <2>1, <2>2 DEF TypeOK
  <2>4. LaneShape' /\ SentShape' /\ RecordShape'
    BY <1>1, <2>1 DEF LaneShape, SentShape, RecordShape
  <2> QED BY <1>9, <1>10, <2>3, <2>4
<1> QED BY <1>7, <1>11, <1>12

LEMMA FenceInit ==
  ASSUME Init
  PROVE  FenceInv
<1> USE FenceAssumption DEF Init, FenceInv
<1>1. TypeOK
  <2>1. file \in Policy /\ EmptyPolicy \in Policy
    BY DEF Policy, Entry, EmptyPolicy
  <2>2. NoOrigins \in [Seqs -> Origin \cup {NoOrigin}] /\ [s \in Seqs |-> {}] \in [Seqs -> SUBSET Forms]
    BY DEF NoOrigins
  <2>3. ledger \in [exists : BOOLEAN, withheld : SUBSET Seqs, shutdown : Record \cup {NoRecord}]
    OBVIOUS
  <2>4. FALSE \in BOOLEAN /\ {} \subseteq Seqs /\ 0 \in Nat /\ 0 \in 0..0 /\ 0 \in 0..MaxSeq
    OBVIOUS
  <2> QED BY <2>1, <2>2, <2>3, <2>4 DEF TypeOK
<1>2. PlaceholderRecorded /\ RecordExact
  BY DEF PlaceholderRecorded, RecordExact
<1>3. LaneShape
  BY DEF LaneShape
<1>4. SentShape /\ RecordShape /\ RecordHonest
  BY DEF SentShape, RecordShape, RecordHonest
<1> QED BY <1>1, <1>2, <1>3, <1>4

LEMMA FenceNext ==
  ASSUME FenceInv, [Next]_vars
  PROVE  FenceInv'
<1>1. CASE UNCHANGED vars
  <2>1. UNCHANGED <<top, cap, ackFile, ledger, file, svc, mode, pub, ver, gens, wpc, worigin, wseq,
                    late, upc, uhigh, blast, ph, origins, withheld, attempted, applied, dirty,
                    pending, recorded, sent, tried, untracked, safe, unsure, unsynced>>
    BY <1>1 DEF vars
  <2> QED BY <2>1 DEF FenceInv, TypeOK, PlaceholderRecorded, RecordExact, LaneShape, SentShape,
             RecordShape, RecordHonest, Honest
<1>2. CASE \/ \E r \in Roots : OwnerWithdraws(r) \/ OwnerRegisters(r)
           \/ CheckPolicy \/ PollTranscripts
           \/ \E r \in Roots : Admit(r)
  BY <1>2, PolicySteps
<1>3. CASE AppendDurable \/ RecordAppend \/ AppendTimesOut \/ LateAppend \/ LocalAppend
  BY <1>3, AppendDurableStep, RecordAppendStep, StraySteps
<1>4. CASE Lane \/ PassCancelled \/ ReplyLost \/ SendFails \/ ShutdownBegins
  BY <1>4, PassSteps, RefreshStep, PlanBatchStep, BeforeSendStep, SendStep, AcknowledgeStep DEF Lane
<1>5. CASE RecordShutdown \/ Exit \/ Crash
  BY <1>5, RecordShutdownStep, ProcessEndsStep
<1>6. CASE \E m \in Modes : Start(m)
  BY <1>6, StartStep, FenceAssumption
<1>7. CASE \E k \in 0..MaxSeq : MoveAside(k)
  BY <1>7, MoveAsideStep
<1> QED BY <1>1, <1>2, <1>3, <1>4, <1>5, <1>6, <1>7 DEF Next

\* The fence's state is sound in every state, through crashes, failed ledger writes, lost replies and
\* segments moved aside: what the ledger on disk says of a sequence is the form in which it left.
THEOREM FenceSound == Spec => []FenceInv
<1>1. Init => FenceInv
  BY FenceInit
<1>2. FenceInv /\ [Next]_vars => FenceInv'
  BY FenceNext
<1> QED BY <1>1, <1>2, PTL DEF Spec

----------------------------------------------------------------------------
(* No sequence in two forms *)

DecisionInv == asides \in Nat /\ FenceInv /\ DecisionShape /\ (asides > 0 \/ NoConflict)

\* A fault and a move are never undone.
LEMMA FaultsStay ==
  ASSUME [Next]_vars
  PROVE  (unsynced => unsynced') /\ (asides' = asides \/ asides' = asides + 1)
<1>1. CASE UNCHANGED vars
  BY <1>1 DEF vars
<1>2. CASE \E r \in Roots : OwnerWithdraws(r) \/ OwnerRegisters(r) \/ Admit(r)
  BY <1>2 DEF OwnerWithdraws, OwnerRegisters, Admit, bounds, failed
<1>3. CASE CheckPolicy \/ PollTranscripts \/ AppendDurable \/ AppendTimesOut \/ LateAppend \/ LocalAppend
  BY <1>3 DEF CheckPolicy, PollTranscripts, AppendDurable, AppendTimesOut, LateAppend, LocalAppend,
              bounds, failed
<1>4. CASE Ceiling \/ NothingOwed \/ Send \/ Acknowledge \/ PassCancelled \/ ReplyLost \/ SendFails \/ ShutdownBegins
  BY <1>4 DEF Ceiling, NothingOwed, Send, Acknowledge, PassCancelled, ReplyLost, SendFails,
              ShutdownBegins, bounds, failed
<1>5. CASE RecordAppend \/ Refresh \/ PlanBatch
  BY <1>5 DEF RecordAppend, Refresh, PlanBatch, bounds, failed, Persisted, PersistFailed, NoPersist
<1>6. CASE BeforeSend \/ RecordShutdown
  BY <1>6 DEF BeforeSend, RecordShutdown, bounds, failed, Persisted, PersistFailed, NoPersist
<1>7. CASE Exit \/ Crash \/ \E k \in 0..MaxSeq : MoveAside(k)
  BY <1>7 DEF Exit, Crash, ProcessEnds, MoveAside, bounds, failed
<1>8. CASE \E m \in Modes : Start(m)
  <2>1. asides' = asides
    BY <1>8 DEF Start, bounds
  <2>2. \/ \E w, sh : Persisted(w, sh) \/ PersistFailed(w, sh, FALSE)
        \/ NoPersist(FALSE)
    BY <1>8 DEF Start
  <2> QED BY <2>1, <2>2 DEF failed, Persisted, PersistFailed, NoPersist
<1> QED BY <1>1, <1>2, <1>3, <1>4, <1>5, <1>6, <1>7, <1>8 DEF Next, Lane

\* The part of the argument that a single step has to keep: with the move and the fault excluded.
LEMMA DecisionKept ==
  ASSUME DecisionInv, FenceInv', [Next]_vars,
         asides' = 0 /\ ~unsynced' =>
           /\ \A s \in ledger'.withheld \cup withheld' : s <= top'
           /\ \A s \in Seqs : "content" \in sent'[s] /\ s > ackFile' => s \notin ledger'.withheld \cup withheld'
           /\ svc' # "down" => \A s \in ledger'.withheld : s > ackFile' => s \in withheld'
           /\ \A s \in Seqs : sent'[s] # Forms
  PROVE  DecisionInv'
<1>1. asides' \in Nat
  BY FaultsStay DEF DecisionInv
<1>2. DecisionShape'
  BY <1>1 DEF DecisionShape
<1>3. (asides > 0 \/ NoConflict)'
  BY <1>1 DEF NoConflict
<1> QED BY <1>1, <1>2, <1>3 DEF DecisionInv

\* What DecisionInv says while there was neither.
LEMMA DecisionFacts ==
  ASSUME DecisionInv, [Next]_vars, asides' = 0, ~unsynced'
  PROVE  /\ asides = 0 /\ ~unsynced /\ FenceInv
         /\ \A s \in ledger.withheld \cup withheld : s <= top
         /\ \A s \in Seqs : "content" \in sent[s] /\ s > ackFile => s \notin ledger.withheld \cup withheld
         /\ svc # "down" => \A s \in ledger.withheld : s > ackFile => s \in withheld
         /\ \A s \in Seqs : sent[s] # Forms
<1>1. asides = 0 /\ ~unsynced
  BY FaultsStay DEF DecisionInv
<1> QED BY <1>1 DEF DecisionInv, DecisionShape, NoConflict

\* Steps that decide nothing and send nothing.
LEMMA QuietDecisions ==
  ASSUME DecisionInv, FenceInv', [Next]_vars,
         UNCHANGED <<sent, ackFile, ledger, withheld>>, top' \in Nat, top <= top',
         svc' = "down" \/ svc # "down"
  PROVE  DecisionInv'
<1> SUFFICES ASSUME asides' = 0, ~unsynced'
             PROVE  /\ \A s \in ledger.withheld \cup withheld : s <= top'
                    /\ svc' # "down" => \A s \in ledger.withheld : s > ackFile => s \in withheld
  BY DecisionFacts, DecisionKept
<1>1. ledger.withheld \cup withheld \subseteq Seqs /\ top \in Nat
  BY DEF DecisionInv, FenceInv, TypeOK
<1> QED BY <1>1, DecisionFacts, FenceAssumption DEF Seqs

\* Steps that take decisions on frames not sent yet, or write the ones taken.
LEMMA NewDecisions ==
  ASSUME DecisionInv, FenceInv', [Next]_vars,
         UNCHANGED <<sent, ackFile, top>>, svc # "down", withheld \subseteq withheld',
         \A s \in withheld' : s \in withheld \/ (s > attempted /\ s <= top),
         ledger'.withheld = ledger.withheld \/ ledger'.withheld = withheld'
  PROVE  DecisionInv'
<1> SUFFICES ASSUME asides' = 0, ~unsynced'
             PROVE  /\ \A s \in ledger'.withheld \cup withheld' : s <= top
                    /\ \A s \in Seqs : "content" \in sent[s] /\ s > ackFile => s \notin ledger'.withheld \cup withheld'
                    /\ \A s \in ledger'.withheld : s > ackFile => s \in withheld'
  BY DecisionFacts, DecisionKept
<1>1. \A s \in Seqs : s > attempted => sent[s] = {}
  BY DecisionFacts DEF FenceInv, RecordShape
<1> QED BY <1>1, DecisionFacts

\* The decisions a step adds are on frames whose payload is not final.
LEMMA DecidesUnsent ==
  ASSUME FenceInv, RecordAppend \/ Refresh \/ PlanBatch \/ BeforeSend \/ RecordShutdown
  PROVE  /\ svc # "down" /\ UNCHANGED <<sent, ackFile, top>>
         /\ withheld \subseteq withheld'
         /\ \A s \in withheld' : s \in withheld \/ (s > attempted /\ s <= top)
         /\ ledger'.withheld = ledger.withheld \/ ledger'.withheld = withheld'
<1> USE DEF FenceInv
<1>1. svc # "down" /\ UNCHANGED <<sent, ackFile, top>>
  BY DEF RecordAppend, Refresh, PlanBatch, BeforeSend, RecordShutdown, LaneShape, hist
<1>2. \A p : \A s \in Withdrawn(p) : s > attempted /\ s <= top
  BY <1>1 DEF Withdrawn, SentShape
<1>3. ASSUME NEW w, NEW sh, NEW d, Persisted(w, sh) \/ PersistFailed(w, sh, d) \/ NoPersist(d)
      PROVE  ledger'.withheld = ledger.withheld \/ ledger'.withheld = w
  BY <1>3 DEF Persisted, PersistFailed, NoPersist
<1>4. CASE RecordAppend
  <2>1. wseq > attempted /\ wseq <= top
    BY <1>4 DEF RecordAppend, LaneShape, TypeOK
  <2>2. withheld' = withheld \/ withheld' = withheld \cup {wseq}
    BY <1>4 DEF RecordAppend
  <2>3. ledger'.withheld = ledger.withheld \/ ledger'.withheld = withheld'
    BY <1>3, <1>4 DEF RecordAppend
  <2> QED BY <1>1, <2>1, <2>2, <2>3
<1>5. CASE Refresh
  <2>1. withheld' = withheld \/ withheld' = withheld \cup Withdrawn(pub')
    BY <1>5 DEF Refresh, Applied
  <2>2. ledger'.withheld = ledger.withheld \/ ledger'.withheld = withheld'
    BY <1>3, <1>5 DEF Refresh
  <2> QED BY <1>1, <1>2, <2>1, <2>2
<1>6. CASE PlanBatch
  <2> DEFINE read == ackFile + 1..Min2(ackFile + MaxBatch, uhigh)
             backlog == Applied(pub, ver)
  <2>1. withheld' = backlog \cup (read \cap Withdrawn(pub))
    BY <1>6 DEF PlanBatch
  <2>2. backlog = withheld \/ backlog = withheld \cup Withdrawn(pub)
    BY DEF Applied
  <2>3. \/ NoPersist(dirty \/ withheld' # backlog)
        \/ backlog # withheld /\ (Persisted(backlog, pending) \/ PersistFailed(backlog, pending, TRUE))
    BY <1>6 DEF PlanBatch
  <2>4. ledger'.withheld = ledger.withheld \/ ledger'.withheld = withheld'
    <3> HIDE DEF backlog
    <3>1. backlog # withheld => withheld' = backlog
      BY <2>1, <2>2
    <3> QED BY <1>3, <2>3, <3>1
  <2> QED BY <1>1, <1>2, <2>1, <2>2, <2>4
<1>7. CASE BeforeSend
  <2>1. withheld' = withheld
    BY <1>7 DEF BeforeSend
  <2>2. \E sh : Persisted(withheld, sh) \/ PersistFailed(withheld, sh, dirty) \/ NoPersist(dirty)
    BY <1>7 DEF BeforeSend
  <2> QED BY <1>1, <1>3, <2>1, <2>2
<1>8. CASE RecordShutdown
  <2>1. withheld' = withheld
    BY <1>8 DEF RecordShutdown
  <2>2. \E sh : Persisted(withheld, sh) \/ PersistFailed(withheld, sh, dirty)
    BY <1>8 DEF RecordShutdown
  <2> QED BY <1>1, <1>3, <2>1, <2>2
<1> QED BY <1>4, <1>5, <1>6, <1>7, <1>8

\* One attempt: the form is what the fence decided, and it decided nothing else before.
LEMMA SendDecisions ==
  ASSUME DecisionInv, FenceInv', Send, [Next]_vars
  PROVE  DecisionInv'
<1>1. FenceInv
  BY DEF DecisionInv
<1>2. /\ UNCHANGED <<top, ackFile, ledger, withheld, svc, ph, blast>> /\ svc # "down"
      /\ \A s \in withheld : ackFile < s /\ s <= blast => s \in ph
      /\ ph \subseteq withheld
  BY <1>1 DEF Send, FenceInv, LaneShape, fence
<1>3. \A s \in Seqs : \/ sent'[s] = sent[s]
                      \/ /\ s \in ph /\ s > ackFile
                         /\ sent'[s] = sent[s] \cup {"placeholder"}
                      \/ /\ s \notin withheld /\ s > ackFile
                         /\ sent'[s] = sent[s] \cup {"content"}
  BY <1>2 DEF Send
<1>4. \A s \in Seqs : "placeholder" \in sent[s] /\ s > ackFile => s \in withheld
  BY <1>1, <1>2 DEF FenceInv, SentShape
<1>5. \A s \in Seqs : sent[s] \subseteq Forms
  BY <1>1 DEF FenceInv, TypeOK
<1> SUFFICES ASSUME asides' = 0, ~unsynced'
             PROVE  /\ \A s \in Seqs : "content" \in sent'[s] /\ s > ackFile => s \notin ledger.withheld \cup withheld
                    /\ \A s \in Seqs : sent'[s] # Forms
  BY <1>2, DecisionFacts, DecisionKept
<1>6. /\ \A s \in Seqs : "content" \in sent[s] /\ s > ackFile => s \notin ledger.withheld \cup withheld
      /\ \A s \in ledger.withheld : s > ackFile => s \in withheld
      /\ \A s \in Seqs : sent[s] # Forms
  BY <1>2, DecisionFacts
<1> QED BY <1>2, <1>3, <1>4, <1>5, <1>6 DEF Forms

\* What is forgotten is acknowledged.
LEMMA AcknowledgeDecisions ==
  ASSUME DecisionInv, FenceInv', Acknowledge, [Next]_vars
  PROVE  DecisionInv'
<1>1. FenceInv
  BY DEF DecisionInv
<1>2. /\ UNCHANGED <<top, ledger, svc, sent>> /\ svc # "down"
      /\ ackFile' = blast /\ withheld' = {s \in withheld : s > blast}
      /\ \A s \in Seqs : s > blast => s > ackFile
  BY <1>1 DEF Acknowledge, FenceInv, LaneShape, TypeOK, Seqs, hist
<1>3. ledger.withheld \subseteq Seqs
  BY <1>1 DEF FenceInv, TypeOK
<1> SUFFICES ASSUME asides' = 0, ~unsynced'
             PROVE  /\ \A s \in ledger.withheld \cup withheld' : s <= top
                    /\ \A s \in Seqs : "content" \in sent[s] /\ s > blast => s \notin ledger.withheld \cup withheld'
                    /\ \A s \in ledger.withheld : s > blast => s \in withheld'
  BY <1>2, DecisionFacts, DecisionKept
<1> QED BY <1>2, <1>3, DecisionFacts

\* A start takes over the decisions on the frames that exist; it adds only some on frames not sent.
LEMMA StartTakesOver ==
  ASSUME NEW m, Start(m)
  PROVE  /\ UNCHANGED <<top, ackFile, sent>> /\ svc = "down"
         /\ \/ svc' = "down" /\ withheld' = withheld /\ (ledger' = ledger \/ unsynced')
            \/ /\ svc' = "up" /\ Kept \subseteq withheld'
               /\ \A s \in withheld' : s \in Kept \/ (s \in Seqs /\ s > attempted' /\ origins'[s] # NoOrigin)
               /\ ledger'.withheld = ledger.withheld \/ ledger'.withheld = withheld'
<1>1. UNCHANGED <<top, ackFile, sent>> /\ svc = "down"
  BY DEF Start
<1> DEFINE lost == /\ ledger.shutdown # NoRecord
                   /\ \/ ledger.shutdown.high > top
                      \/ ledger.shutdown.att > ledger.shutdown.high
           sh == IF lost THEN NoRecord ELSE ledger.shutdown
           att == LoadedAttempted(sh)
           org == [s \in Seqs |-> IF sh # NoRecord /\ s > att /\ s <= sh.high
                                    THEN sh.org[s] ELSE NoOrigin]
           all == Kept \cup (IF m = "passive" THEN {s \in Seqs : org[s] # NoOrigin} ELSE {})
<1>2. \/ /\ svc' = "up" /\ origins' = org /\ withheld' = all /\ attempted' = att
         /\ NoPersist(FALSE) \/ Persisted(all, sh)
      \/ svc' = svc /\ withheld' = withheld /\ PersistFailed(all, sh, FALSE)
  BY DEF Start, fence
<1>3. Kept \subseteq all /\ \A s \in all : s \in Kept \/ (s \in Seqs /\ s > att /\ org[s] # NoOrigin)
  OBVIOUS
<1> HIDE DEF org, all, att, sh
<1>4. CASE /\ svc' = "up" /\ origins' = org /\ withheld' = all /\ attempted' = att
           /\ NoPersist(FALSE) \/ Persisted(all, sh)
  BY <1>1, <1>3, <1>4 DEF NoPersist, Persisted
<1>5. CASE svc' = svc /\ withheld' = withheld /\ PersistFailed(all, sh, FALSE)
  BY <1>1, <1>5 DEF PersistFailed
<1> QED BY <1>2, <1>4, <1>5

LEMMA StartDecisions ==
  ASSUME DecisionInv, FenceInv', NEW m, Start(m), [Next]_vars
  PROVE  DecisionInv'
<1>1. /\ UNCHANGED <<top, ackFile, sent>> /\ svc = "down"
      /\ \/ svc' = "down" /\ withheld' = withheld /\ (ledger' = ledger \/ unsynced')
         \/ /\ svc' = "up" /\ Kept \subseteq withheld'
            /\ \A s \in withheld' : s \in Kept \/ (s \in Seqs /\ s > attempted' /\ origins'[s] # NoOrigin)
            /\ ledger'.withheld = ledger.withheld \/ ledger'.withheld = withheld'
  BY StartTakesOver
<1> SUFFICES ASSUME asides' = 0, ~unsynced'
             PROVE  /\ \A s \in ledger'.withheld \cup withheld' : s <= top
                    /\ \A s \in Seqs : "content" \in sent[s] /\ s > ackFile => s \notin ledger'.withheld \cup withheld'
                    /\ svc' # "down" => \A s \in ledger'.withheld : s > ackFile => s \in withheld'
  BY <1>1, DecisionFacts, DecisionKept
<1>2. CASE svc' = "down" /\ withheld' = withheld /\ ledger' = ledger
  BY <1>2, DecisionFacts
<1>3. CASE /\ svc' = "up" /\ Kept \subseteq withheld'
           /\ \A s \in withheld' : s \in Kept \/ (s \in Seqs /\ s > attempted' /\ origins'[s] # NoOrigin)
           /\ ledger'.withheld = ledger.withheld \/ ledger'.withheld = withheld'
  <2>1. \A s \in Seqs : s > attempted' => sent[s] = {}
    BY <1>1, <1>3 DEF FenceInv, RecordShape
  <2>2. \A s \in Seqs : origins'[s] # NoOrigin => s <= top
    BY <1>1, <1>3 DEF FenceInv, SentShape
  <2>3. Kept = ledger.withheld
    BY DecisionFacts DEF Kept
  <2> QED BY <1>3, <2>1, <2>2, <2>3, DecisionFacts
<1> QED BY <1>1, <1>2, <1>3

LEMMA DecisionNext ==
  ASSUME DecisionInv, [Next]_vars
  PROVE  DecisionInv'
<1>1. FenceInv /\ FenceInv'
  BY FenceNext DEF DecisionInv
<1>2. TypeOK /\ top \in Nat
  BY <1>1 DEF FenceInv, TypeOK
<1>3. CASE \/ UNCHANGED vars
           \/ \E r \in Roots : OwnerWithdraws(r) \/ OwnerRegisters(r) \/ Admit(r)
           \/ CheckPolicy \/ PollTranscripts
  <2>1. UNCHANGED <<sent, ackFile, ledger, withheld, top, svc>>
    BY <1>3 DEF OwnerWithdraws, OwnerRegisters, Admit, CheckPolicy, PollTranscripts, vars, fence, hist
  <2>2. top' \in Nat /\ top <= top' /\ (svc' = "down" \/ svc # "down")
    BY <1>2, <2>1
  <2> QED BY <1>1, <2>1, <2>2, QuietDecisions
<1>4. CASE \/ AppendDurable \/ AppendTimesOut \/ LateAppend \/ LocalAppend
           \/ Ceiling \/ PassCancelled \/ NothingOwed \/ ReplyLost \/ SendFails \/ ShutdownBegins
  <2>1. UNCHANGED <<sent, ackFile, ledger, withheld>> /\ (top' = top \/ top' = top + 1)
    BY <1>4 DEF AppendDurable, AppendTimesOut, LateAppend, LocalAppend, Ceiling, PassCancelled,
                NothingOwed, ReplyLost, SendFails, ShutdownBegins, fence, hist
  <2>2. svc # "down"
    BY <1>1, <1>4 DEF AppendDurable, AppendTimesOut, LateAppend, LocalAppend, Ceiling, PassCancelled,
                NothingOwed, ReplyLost, SendFails, ShutdownBegins, FenceInv, LaneShape
  <2>3. top' \in Nat /\ top <= top'
    BY <1>2, <2>1
  <2> QED BY <1>1, <2>1, <2>2, <2>3, QuietDecisions
<1>5. CASE RecordAppend \/ Refresh \/ PlanBatch \/ BeforeSend \/ RecordShutdown
  BY <1>1, <1>5, DecidesUnsent, NewDecisions
<1>6. CASE Send
  BY <1>1, <1>6, SendDecisions
<1>7. CASE Acknowledge
  BY <1>1, <1>7, AcknowledgeDecisions
<1>8. CASE \E m \in Modes : Start(m)
  BY <1>1, <1>8, StartDecisions
<1>9. CASE Exit \/ Crash
  <2>1. UNCHANGED <<top, ackFile, ledger, sent>> /\ svc' = "down" /\ withheld' = {}
    BY <1>9 DEF Exit, Crash, ProcessEnds
  <2> QED BY <1>1, <2>1, DecisionFacts, DecisionKept
<1>10. CASE \E k \in 0..MaxSeq : MoveAside(k)
  <2>1. asides' = asides + 1
    BY <1>10 DEF MoveAside
  <2>2. asides' # 0
    BY <2>1 DEF DecisionInv
  <2> QED BY <1>1, <2>2, DecisionKept
<1> QED BY <1>3, <1>4, <1>5, <1>6, <1>7, <1>8, <1>9, <1>10 DEF Next, Lane

\* Unless an operator moved segments aside, no sequence is ever sent both as captured and as a
\* placeholder, through any crash, restart, lost reply and withdrawal; only a ledger write that is
\* in place although it was reported failed may break it.
THEOREM NeverConflicts == Spec => [](asides = 0 => NoConflict)
<1>1. Init => DecisionInv
  <2> SUFFICES ASSUME Init
               PROVE  DecisionInv
    OBVIOUS
  <2>1. FenceInv
    BY FenceInit
  <2>2. DecisionShape /\ NoConflict /\ asides \in Nat
    BY DEF Init, DecisionShape, NoConflict, Forms
  <2> QED BY <2>1, <2>2 DEF DecisionInv
<1>2. DecisionInv /\ [Next]_vars => DecisionInv'
  BY DecisionNext
<1>3. DecisionInv => (asides = 0 => NoConflict)
  BY DEF DecisionInv
<1> QED BY <1>1, <1>2, <1>3, PTL DEF Spec

----------------------------------------------------------------------------
(* A withdrawal reaches every frame that is still to be sent *)

OriginInv == asides \in Nat /\ FenceInv /\ OriginShape

\* What a step has to keep of OriginShape, with the move and the fault excluded.
OriginParts ==
  /\ safe <= top
  /\ ledger.shutdown # NoRecord => ledger.shutdown.high <= top
  /\ recorded => safe <= pending.high
  /\ wpc = "durable" => wseq > safe \/ wseq \in untracked
  /\ \A s \in Seqs : Tracked(s) /\ (svc = "down" \/ s <= safe) => OnRecord(s)
  /\ svc # "down" => \A s \in Seqs : Tracked(s) /\ ~(wpc = "durable" /\ s = wseq) =>
                        s > attempted /\ origins[s] = cap[s]

LEMMA OriginKept ==
  ASSUME OriginInv, FenceInv', [Next]_vars,
         asides = 0 /\ ~unsynced /\ asides' = 0 /\ ~unsynced' /\ OriginParts => OriginParts'
  PROVE  OriginInv'
<1>1. asides' \in Nat /\ (asides' = 0 => asides = 0) /\ (~unsynced' => ~unsynced)
  BY FaultsStay DEF OriginInv
<1>2. asides = 0 /\ ~unsynced => OriginParts
  BY DEF OriginInv, OriginShape, OriginParts
<1>3. OriginShape'
  <2> SUFFICES ASSUME asides' = 0, ~unsynced'
               PROVE  OriginShape'
    BY <1>1 DEF OriginShape
  <2>1. OriginParts'
    BY <1>1, <1>2
  <2>2. ledger'.shutdown # NoRecord => ledger'.shutdown.att <= ledger'.shutdown.high
    <3>1. /\ ledger'.shutdown # NoRecord => Honest(ledger.shutdown)' \/ ledger'.shutdown.high > top'
          /\ ledger'.shutdown \in Record \cup {NoRecord} /\ top' \in Nat
      BY DEF FenceInv, TypeOK, RecordHonest
    <3> QED BY <2>1, <3>1, FenceAssumption DEF OriginParts, Honest, Record
  <2> QED BY <2>1, <2>2 DEF OriginParts, OriginShape
<1> QED BY <1>1, <1>3 DEF OriginInv

\* Steps that leave the frames, their origins and the record alone.
LEMMA QuietOrigins ==
  ASSUME OriginParts,
         UNCHANGED <<top, cap, ackFile, tried, untracked, safe, recorded, origins, attempted>>,
         ledger'.shutdown = ledger.shutdown, pending' = pending,
         wpc' = "durable" => wpc = "durable" /\ wseq' = wseq,
         wpc = "durable" => wpc' = "durable",
         svc' = "down" <=> svc = "down"
  PROVE  OriginParts'
<1>1. \A s \in Seqs : (Tracked(s)' <=> Tracked(s)) /\ (OnRecord(s)' <=> OnRecord(s))
  BY DEF Tracked, OnRecord
<1> QED BY <1>1 DEF OriginParts

\* A frame is added on top, or an append ends without its origin.
LEMMA AppendOrigins ==
  ASSUME FenceInv, OriginParts, AppendDurable \/ AppendTimesOut \/ LateAppend \/ LocalAppend
  PROVE  OriginParts'
<1>1. /\ UNCHANGED <<ackFile, ledger, svc, tried, safe, recorded, origins, attempted, pending>>
      /\ svc # "down" /\ untracked \subseteq untracked' /\ top \in Nat /\ safe \in Nat
  BY DEF AppendDurable, AppendTimesOut, LateAppend, LocalAppend, watch, fence, hist, FenceInv, TypeOK
<1>2. \/ UNCHANGED <<top, cap>>
      \/ /\ top' = top + 1 /\ top + 1 \in Seqs
         /\ \E o : /\ cap' = [cap EXCEPT ![top + 1] = o]
                   /\ \/ o = NoOrigin \/ top + 1 \in untracked'
                      \/ wpc' = "durable" /\ wseq' = top + 1
  <2>1. top < MaxSeq => top + 1 \in Seqs
    BY FenceAssumption DEF FenceInv, TypeOK, Seqs
  <2>2. top < Room => top < MaxSeq
    BY FenceAssumption DEF Room, FenceInv, TypeOK
  <2>3. CASE AppendDurable
    BY <2>1, <2>3 DEF AppendDurable
  <2>4. CASE AppendTimesOut
    BY <2>4 DEF AppendTimesOut
  <2>5. CASE LateAppend
    BY <2>1, <2>2, <2>5 DEF LateAppend
  <2>6. CASE LocalAppend
    BY <2>1, <2>2, <2>6 DEF LocalAppend
  <2> QED BY <2>3, <2>4, <2>5, <2>6
<1>3. wpc = "durable" => \/ wpc' = "durable" /\ wseq' = wseq
                         \/ wseq \in untracked'
  BY DEF AppendDurable, AppendTimesOut, LateAppend, LocalAppend, watch
<1>4. wpc' = "durable" => (wpc = "durable" /\ wseq' = wseq) \/ (wseq' = top + 1 /\ top' = top + 1)
  BY DEF AppendDurable, AppendTimesOut, LateAppend, LocalAppend, watch, AppendDone
<1>5. cap \in [Seqs -> Origin \cup {NoOrigin}]
  BY DEF FenceInv, TypeOK
<1>6. ASSUME NEW s \in Seqs, Tracked(s)'
      PROVE  \/ s <= top /\ Tracked(s) /\ cap'[s] = cap[s] /\ OnRecord(s)' = OnRecord(s)
             \/ s = top + 1 /\ top' = top + 1 /\ wpc' = "durable" /\ wseq' = top + 1
  <2>1. CASE UNCHANGED <<top, cap>>
    BY <1>1, <1>6, <2>1 DEF Tracked, OnRecord
  <2>2. CASE s = top + 1 /\ top' = top + 1
    BY <1>2, <1>5, <1>6, <2>2 DEF Tracked
  <2>3. CASE s # top + 1 /\ top' = top + 1
    <3>1. s <= top' /\ s \in Nat
      BY <1>6 DEF Tracked, Seqs
    <3>2. s <= top
      BY <1>1, <2>3, <3>1
    <3>3. \E o : cap' = [cap EXCEPT ![top + 1] = o]
      BY <1>1, <1>2, <2>3
    <3>4. cap'[s] = cap[s]
      BY <1>5, <2>3, <3>3
    <3> QED BY <1>1, <1>6, <3>2, <3>4 DEF Tracked, OnRecord
  <2> QED BY <1>2, <2>1, <2>2, <2>3
<1>7. safe' <= top' /\ (ledger'.shutdown # NoRecord => ledger'.shutdown.high <= top')
  <2>1. ledger.shutdown # NoRecord => ledger.shutdown.high \in Nat
    BY FenceAssumption DEF FenceInv, TypeOK, Record
  <2> QED BY <1>1, <1>2, <2>1 DEF OriginParts
<1>8. wpc' = "durable" => wseq' > safe' \/ wseq' \in untracked'
  BY <1>1, <1>4 DEF OriginParts
<1>9. \A s \in Seqs : Tracked(s)' /\ s <= safe => OnRecord(s)'
  BY <1>1, <1>6 DEF OriginParts
<1>10. \A s \in Seqs : Tracked(s)' /\ ~(wpc' = "durable" /\ s = wseq') =>
                        s > attempted /\ origins[s] = cap'[s]
  <2> SUFFICES ASSUME NEW s \in Seqs, Tracked(s)', ~(wpc' = "durable" /\ s = wseq')
               PROVE  s > attempted /\ origins[s] = cap'[s]
    OBVIOUS
  <2>1. Tracked(s) /\ cap'[s] = cap[s]
    BY <1>6
  <2>2. s \notin untracked'
    BY DEF Tracked
  <2> QED BY <1>1, <1>3, <2>1, <2>2 DEF OriginParts
<1> QED BY <1>1, <1>7, <1>8, <1>9, <1>10 DEF OriginParts

\* The origin of an append is recorded while it is tracked.
LEMMA RecordAppendOrigins ==
  ASSUME FenceInv, OriginParts, RecordAppend, ~unsynced, ~unsynced'
  PROVE  OriginParts'
<1>1. /\ UNCHANGED <<top, cap, ackFile, svc, attempted, pending, recorded, tried, untracked, safe>>
      /\ svc # "down" /\ wpc = "durable" /\ wpc' = "idle"
      /\ origins' = [origins EXCEPT ![wseq] = worigin]
  BY DEF RecordAppend, AppendDone, hist
<1>2. wseq > attempted /\ cap[wseq] = worigin
  BY <1>1 DEF FenceInv, LaneShape
<1>3. ledger'.shutdown = ledger.shutdown
  <2>1. ledger.shutdown = pending
    BY <1>1 DEF FenceInv, RecordShape
  <2>2. ledger' = ledger \/ ledger'.shutdown = pending
    BY DEF RecordAppend, Persisted, PersistFailed, NoPersist
  <2> QED BY <2>1, <2>2
<1>4. \A s \in Seqs : (Tracked(s)' <=> Tracked(s)) /\ (OnRecord(s)' <=> OnRecord(s))
  BY <1>1, <1>3 DEF Tracked, OnRecord
<1>5. origins \in [Seqs -> Origin \cup {NoOrigin}]
  BY DEF FenceInv, TypeOK
<1>6. \A s \in Seqs : Tracked(s) => s > attempted /\ origins'[s] = cap[s]
  BY <1>1, <1>2, <1>5 DEF OriginParts
<1> QED BY <1>1, <1>3, <1>4, <1>6 DEF OriginParts

\* beforeSend: what is handed to the sender is no longer tracked, and a record of this run is renewed.
LEMMA BeforeSendOrigins ==
  ASSUME FenceInv, FenceInv', OriginParts, BeforeSend, ~unsynced, ~unsynced'
  PROVE  OriginParts'
<1> DEFINE att == Max2(attempted, blast)
           sh == IF recorded THEN ShutdownRecord(att, pending.high) ELSE NoRecord
<1>1. /\ UNCHANGED <<top, cap, ackFile, svc, wpc, wseq, origins, recorded, untracked>>
      /\ svc # "down" /\ safe' = (IF recorded THEN safe ELSE 0)
  BY DEF BeforeSend, watch, FenceInv, LaneShape
<1>2. /\ att \in 0..MaxSeq /\ ackFile \in Nat /\ blast \in Nat /\ attempted \in Nat
      /\ recorded => pending.high \in 0..MaxSeq
  BY FenceAssumption DEF Max2, FenceInv, TypeOK, SentShape, Record
<1>3. CASE /\ attempted' = att /\ pending' = sh /\ tried' = tried \cup (ackFile + 1..blast)
           /\ ledger'.shutdown = sh
  <2>1. \A s \in Seqs : Tracked(s)' => Tracked(s) /\ s > blast
    <3> SUFFICES ASSUME NEW s \in Seqs, Tracked(s)'
                 PROVE  Tracked(s) /\ s > blast
      OBVIOUS
    <3>1. s > ackFile /\ s \notin ackFile + 1..blast /\ Tracked(s)
      BY <1>1, <1>3 DEF Tracked
    <3> QED BY <1>2, <3>1 DEF Seqs
  <2>2. \A s \in Seqs : Tracked(s)' /\ ~(wpc = "durable" /\ s = wseq) => s > att /\ origins[s] = cap[s]
    BY <1>1, <2>1 DEF OriginParts, Max2
  <2>3. CASE recorded
    <3>1. sh # NoRecord /\ sh.att = att /\ pending.high <= sh.high
          /\ sh.org = [s \in Seqs |-> IF s > att THEN origins[s] ELSE NoOrigin]
          /\ sh \in Record
      BY <1>2, <2>3, ShutdownRecordSound, FenceAssumption DEF FenceInv
    <3> HIDE DEF sh, att
    <3>2. safe <= pending.high /\ safe' = safe /\ safe \in Nat /\ pending.high \in Nat /\ sh.high \in Nat
      BY <1>1, <1>2, <2>3, <3>1 DEF OriginParts, FenceInv, TypeOK, Record
    <3>3. \A s \in Seqs : Tracked(s)' /\ s <= safe => OnRecord(s)'
      <4> SUFFICES ASSUME NEW s \in Seqs, Tracked(s)', s <= safe
                   PROVE  OnRecord(s)'
        OBVIOUS
      <4>1. ~(wpc = "durable" /\ s = wseq)
        BY <1>1, <3>2 DEF OriginParts, Tracked, FenceInv, TypeOK
      <4>2. s > att /\ origins[s] = cap[s]
        BY <2>2, <4>1
      <4>3. s <= sh.high
        BY <3>1, <3>2 DEF Seqs
      <4> QED BY <1>1, <1>2, <1>3, <3>1, <4>2, <4>3 DEF OnRecord, Seqs
    <3>4. ledger'.shutdown.high <= top'
      BY <1>1, <1>3, <3>1 DEF FenceInv, RecordHonest, Honest
    <3>5. safe' <= pending'.high
      BY <1>3, <3>1, <3>2
    <3> QED BY <1>1, <1>3, <2>2, <3>2, <3>3, <3>4, <3>5 DEF OriginParts
  <2>4. CASE ~recorded
    <3>1. ledger'.shutdown = NoRecord /\ safe' = 0 /\ top \in Nat
      BY <1>1, <1>3, <2>4 DEF FenceInv, TypeOK
    <3>2. \A s \in Seqs : ~(s <= 0)
      BY DEF Seqs
    <3>3. wpc' = "durable" => wseq' > safe'
      BY <1>1, <3>1, <3>2 DEF FenceInv, LaneShape
    <3> HIDE DEF att
    <3> QED BY <1>1, <1>3, <2>2, <2>4, <3>1, <3>2, <3>3 DEF OriginParts
  <2> QED BY <2>3, <2>4
<1>4. CASE ledger' = ledger /\ UNCHANGED <<attempted, pending, tried>>
  <2>1. \A s \in Seqs : (Tracked(s)' <=> Tracked(s)) /\ (OnRecord(s)' <=> OnRecord(s))
    BY <1>1, <1>4 DEF Tracked, OnRecord
  <2>2. \A s \in Seqs : ~(s <= 0)
    BY DEF Seqs
  <2>3. top \in Nat /\ (wpc = "durable" => wseq \in Seqs)
    BY DEF FenceInv, TypeOK, LaneShape, Seqs
  <2>4. CASE recorded
    BY <1>1, <1>4, <2>1, <2>4 DEF OriginParts
  <2>5. CASE ~recorded
    <3>1. wpc = "durable" => wseq > 0
      BY <2>3 DEF Seqs
    <3> QED BY <1>1, <1>4, <2>1, <2>2, <2>3, <2>5, <3>1 DEF OriginParts
  <2> QED BY <2>4, <2>5
<1>5. \/ /\ attempted' = att /\ pending' = sh /\ tried' = tried \cup (ackFile + 1..blast)
         /\ ledger'.shutdown = sh
      \/ ledger' = ledger /\ UNCHANGED <<attempted, pending, tried>>
  <2> DEFINE write == recorded \/ pending # NoRecord \/ dirty
  <2>1. ledger.shutdown = pending
    BY <1>1 DEF FenceInv, RecordShape
  <2>2. CASE /\ IF write THEN Persisted(withheld, sh) ELSE NoPersist(dirty)
             /\ attempted' = att /\ pending' = sh
             /\ tried' = tried \cup (ackFile + 1..blast)
    <3>1. CASE write
      BY <2>2, <3>1 DEF Persisted
    <3>2. CASE ~write
      BY <2>1, <2>2, <3>2 DEF NoPersist
    <3> QED BY <2>2, <3>1, <3>2
  <2>3. CASE PersistFailed(withheld, sh, dirty) /\ UNCHANGED <<attempted, pending, tried>>
    BY <2>3 DEF PersistFailed
  <2> QED BY <2>2, <2>3 DEF BeforeSend
<1> QED BY <1>3, <1>4, <1>5

\* Acknowledged frames are no longer tracked.
LEMMA AcknowledgeOrigins ==
  ASSUME FenceInv, OriginParts, Acknowledge
  PROVE  OriginParts'
<1>1. /\ UNCHANGED <<top, cap, ledger, svc, wpc, wseq, attempted, pending, recorded, tried, untracked, safe>>
      /\ ackFile' = blast
      /\ origins' = [s \in Seqs |-> IF s <= blast THEN NoOrigin ELSE origins[s]]
  BY DEF Acknowledge, watch, hist
<1>2. ackFile < blast /\ ackFile \in Nat /\ blast \in Nat /\ svc # "down"
  BY FenceAssumption DEF Acknowledge, FenceInv, LaneShape, TypeOK
<1>3. \A s \in Seqs : Tracked(s)' => Tracked(s) /\ ~(s <= blast)
  BY <1>1, <1>2 DEF Tracked, Seqs
<1>4. \A s \in Seqs : OnRecord(s)' <=> OnRecord(s)
  BY <1>1 DEF OnRecord
<1> QED BY <1>1, <1>2, <1>3, <1>4 DEF OriginParts

\* recordShutdown: the origin of every tracked frame is written.
LEMMA RecordShutdownOrigins ==
  ASSUME FenceInv, FenceInv', OriginParts, RecordShutdown, ~unsynced, ~unsynced'
  PROVE  OriginParts'
<1> DEFINE sh == ShutdownRecord(attempted, top)
<1>1. /\ UNCHANGED <<top, cap, ackFile, wpc, wseq, origins, attempted, tried>>
      /\ svc # "down" /\ svc' # "down"
  BY DEF RecordShutdown, watch
<1>2. attempted \in 0..MaxSeq /\ top \in 0..MaxSeq
  BY DEF FenceInv, TypeOK
<1>3. /\ sh # NoRecord /\ sh.att = attempted /\ top <= sh.high /\ sh.high \in Nat
      /\ sh.org = [s \in Seqs |-> IF s > attempted THEN origins[s] ELSE NoOrigin]
  <2>1. sh \in Record
    BY <1>2, ShutdownRecordSound DEF FenceInv
  <2>2. sh # NoRecord /\ sh.high \in Nat
    <3> HIDE DEF sh
    <3> QED BY <2>1, FenceAssumption DEF Record
  <2>3. /\ sh.att = attempted /\ top <= sh.high
        /\ sh.org = [s \in Seqs |-> IF s > attempted THEN origins[s] ELSE NoOrigin]
    BY <1>2, ShutdownRecordSound DEF FenceInv
  <2> QED BY <2>2, <2>3
<1> HIDE DEF sh
<1>4. CASE /\ Persisted(withheld, sh) /\ pending' = sh
           /\ safe' = top
           /\ untracked' = IF wpc = "durable" THEN untracked \cup {wseq} ELSE untracked
  <2>1. ledger'.shutdown = sh
    BY <1>4 DEF Persisted
  <2>2. \A s \in Seqs : Tracked(s)' => /\ Tracked(s) /\ s <= top
                                       /\ ~(wpc = "durable" /\ s = wseq)
    BY <1>1, <1>4 DEF Tracked
  <2>3. \A s \in Seqs : Tracked(s)' => s > attempted /\ origins[s] = cap[s]
    BY <1>1, <2>2 DEF OriginParts
  <2>4. \A s \in Seqs : Tracked(s)' => OnRecord(s)'
    <3> SUFFICES ASSUME NEW s \in Seqs, Tracked(s)'
                 PROVE  OnRecord(s)'
      OBVIOUS
    <3>1. s <= top /\ s > attempted /\ origins[s] = cap[s]
      BY <2>2, <2>3
    <3>2. s <= sh.high
      BY <1>2, <1>3, <3>1 DEF Seqs
    <3> QED BY <1>1, <1>2, <1>3, <2>1, <3>1, <3>2 DEF OnRecord, Seqs
  <2>5. ledger'.shutdown.high <= top'
    BY <1>1, <1>3, <2>1 DEF FenceInv, RecordHonest, Honest
  <2>6. wpc' = "durable" => wseq' \in untracked'
    BY <1>1, <1>4
  <2> QED BY <1>1, <1>2, <1>3, <1>4, <2>1, <2>3, <2>4, <2>5, <2>6 DEF OriginParts
<1>5. CASE PersistFailed(withheld, sh, dirty) /\ UNCHANGED <<pending, recorded, safe, untracked>>
  <2>1. ledger' = ledger
    BY <1>5 DEF PersistFailed
  <2> QED BY <1>1, <1>5, <2>1, QuietOrigins
<1> QED BY <1>4, <1>5 DEF RecordShutdown, sh

\* A stop forgets every origin that is not on the record.
LEMMA ProcessEndsOrigins ==
  ASSUME FenceInv, OriginParts, Exit \/ Crash
  PROVE  OriginParts'
<1>1. /\ UNCHANGED <<top, cap, ackFile, ledger, tried>>
      /\ svc' = "down" /\ wpc' = "idle" /\ recorded' = FALSE /\ safe' = 0
      /\ untracked' = untracked \cup (safe + 1..top)
  BY DEF Exit, Crash, ProcessEnds
<1>2. top \in Nat /\ safe \in Nat
  BY FenceAssumption DEF FenceInv, TypeOK
<1>3. \A s \in Seqs : Tracked(s)' => Tracked(s) /\ s <= safe
  <2> SUFFICES ASSUME NEW s \in Seqs, Tracked(s)'
               PROVE  Tracked(s) /\ s <= safe
    OBVIOUS
  <2>1. Tracked(s) /\ s <= top /\ s \notin safe + 1..top
    BY <1>1 DEF Tracked
  <2> QED BY <1>2, <2>1 DEF Seqs
<1>4. \A s \in Seqs : OnRecord(s)' <=> OnRecord(s)
  BY <1>1 DEF OnRecord
<1> QED BY <1>1, <1>2, <1>3, <1>4 DEF OriginParts

\* newConsentFence: the origins on the record are those of the tracked frames.
LEMMA StartOrigins ==
  ASSUME FenceInv, OriginParts, NEW m, Start(m), ~unsynced, ~unsynced'
  PROVE  OriginParts'
<1>1. /\ UNCHANGED <<top, cap, ackFile, wpc, wseq, tried, untracked>>
      /\ svc = "down" /\ wpc = "idle"
  BY DEF Start, FenceInv, LaneShape
<1>2. top \in Nat /\ ledger.shutdown \in Record \cup {NoRecord}
  BY FenceAssumption DEF FenceInv, TypeOK
<1> DEFINE lost == /\ ledger.shutdown # NoRecord
                   /\ \/ ledger.shutdown.high > top
                      \/ ledger.shutdown.att > ledger.shutdown.high
           sh == IF lost THEN NoRecord ELSE ledger.shutdown
           att == LoadedAttempted(sh)
           org == [s \in Seqs |-> IF sh # NoRecord /\ s > att /\ s <= sh.high
                                    THEN sh.org[s] ELSE NoOrigin]
           all == Kept \cup (IF m = "passive" THEN {s \in Seqs : org[s] # NoOrigin} ELSE {})
<1>3. \/ /\ svc' = "up" /\ origins' = org /\ attempted' = att /\ safe' = top /\ recorded' = FALSE
         /\ (~lost /\ NoPersist(FALSE)) \/ Persisted(all, sh)
      \/ /\ UNCHANGED <<svc, origins, attempted, safe, recorded, pending>>
         /\ PersistFailed(all, sh, FALSE)
  BY DEF Start, fence
<1>4. ~lost
  <2>1. ledger.shutdown # NoRecord => ledger.shutdown.high <= top /\ ledger.shutdown.high \in Nat
    BY <1>2, FenceAssumption DEF OriginParts, Record
  <2>2. ledger.shutdown # NoRecord => ledger.shutdown.att <= ledger.shutdown.high /\ ledger.shutdown.att \in Nat
    BY <1>2, <2>1, FenceAssumption DEF FenceInv, RecordHonest, Honest, Record
  <2> QED BY <1>2, <2>1, <2>2
<1>5. sh = ledger.shutdown
  BY <1>4
<1>6. \A s \in Seqs : (Tracked(s)' <=> Tracked(s)) /\ (Tracked(s) => OnRecord(s))
  BY <1>1 DEF Tracked, OriginParts
<1> HIDE DEF lost, sh, all
<1>7. CASE /\ svc' = "up" /\ origins' = org /\ attempted' = att /\ safe' = top /\ recorded' = FALSE
           /\ (~lost /\ NoPersist(FALSE)) \/ Persisted(all, sh)
  <2>1. ledger'.shutdown = ledger.shutdown
    BY <1>5, <1>7 DEF NoPersist, Persisted
  <2>2. \A s \in Seqs : OnRecord(s)' <=> OnRecord(s)
    BY <1>1, <2>1 DEF OnRecord
  <2>3. \A s \in Seqs : OnRecord(s) => s > att /\ org[s] = cap[s]
    BY <1>2, <1>5 DEF OnRecord, LoadedAttempted, Record, Seqs
  <2> HIDE DEF org, att
  <2> QED BY <1>1, <1>2, <1>6, <1>7, <2>1, <2>2, <2>3 DEF OriginParts
<1>8. CASE /\ UNCHANGED <<svc, origins, attempted, safe, recorded, pending>>
           /\ PersistFailed(all, sh, FALSE)
  <2>1. ledger' = ledger
    BY <1>8 DEF PersistFailed
  <2> QED BY <1>1, <1>8, <2>1, QuietOrigins
<1> QED BY <1>3, <1>7, <1>8

LEMMA OriginNext ==
  ASSUME OriginInv, [Next]_vars
  PROVE  OriginInv'
<1>1. FenceInv /\ FenceInv'
  BY FenceNext DEF OriginInv
<1> SUFFICES ASSUME asides = 0, ~unsynced, asides' = 0, ~unsynced', OriginParts
             PROVE  OriginParts'
  BY <1>1, OriginKept
<1>2. ~unsynced /\ svc # "down" => ledger.shutdown = pending
  BY <1>1 DEF FenceInv, RecordShape
<1>3. CASE \/ UNCHANGED vars
           \/ \E r \in Roots : OwnerWithdraws(r) \/ OwnerRegisters(r) \/ Admit(r)
           \/ CheckPolicy \/ PollTranscripts
  <2>1. /\ UNCHANGED <<top, cap, ackFile, tried, untracked, safe, recorded, origins, attempted, ledger,
                       pending, svc>>
        /\ wpc' = "durable" => wpc = "durable" /\ wseq' = wseq
        /\ wpc = "durable" => wpc' = "durable"
    BY <1>3 DEF OwnerWithdraws, OwnerRegisters, Admit, CheckPolicy, PollTranscripts, vars, fence, watch, hist
  <2> QED BY <2>1, QuietOrigins
<1>4. CASE \/ Ceiling \/ PassCancelled \/ NothingOwed \/ Send \/ ReplyLost \/ SendFails \/ ShutdownBegins
  <2>1. UNCHANGED <<top, cap, ackFile, tried, untracked, safe, recorded, origins, attempted, ledger,
                    pending, wpc, wseq>>
    BY <1>4 DEF Ceiling, PassCancelled, NothingOwed, Send, ReplyLost, SendFails, ShutdownBegins,
                watch, fence, hist
  <2>2. svc # "down" /\ svc' # "down"
    BY <1>1, <1>4 DEF Ceiling, PassCancelled, NothingOwed, Send, ReplyLost, SendFails, ShutdownBegins,
                      FenceInv, LaneShape
  <2> QED BY <2>1, <2>2, QuietOrigins
<1>5. CASE Refresh \/ PlanBatch
  <2>1. /\ UNCHANGED <<top, cap, ackFile, tried, untracked, safe, recorded, origins, attempted,
                       pending, wpc, wseq, svc>>
        /\ upc # "idle"
    BY <1>5 DEF Refresh, PlanBatch, watch, hist
  <2>2. svc # "down"
    BY <1>1, <2>1 DEF FenceInv, LaneShape
  <2>3. \E w, d : Persisted(w, pending) \/ PersistFailed(w, pending, d) \/ NoPersist(d)
    BY <1>5 DEF Refresh, PlanBatch
  <2>4. ledger'.shutdown = ledger.shutdown
    BY <1>2, <2>2, <2>3 DEF Persisted, PersistFailed, NoPersist
  <2> QED BY <2>1, <2>4, QuietOrigins
<1>6. CASE AppendDurable \/ AppendTimesOut \/ LateAppend \/ LocalAppend
  BY <1>1, <1>6, AppendOrigins
<1>7. CASE RecordAppend \/ BeforeSend \/ Acknowledge \/ RecordShutdown
  BY <1>1, <1>7, RecordAppendOrigins, BeforeSendOrigins, AcknowledgeOrigins, RecordShutdownOrigins
<1>8. CASE Exit \/ Crash
  BY <1>1, <1>8, ProcessEndsOrigins
<1>9. CASE \E m \in Modes : Start(m)
  BY <1>1, <1>9, StartOrigins
<1>10. CASE \E k \in 0..MaxSeq : MoveAside(k)
  BY <1>10 DEF MoveAside, OriginInv
<1> QED BY <1>3, <1>4, <1>5, <1>6, <1>7, <1>8, <1>9, <1>10 DEF Next, Lane

\* Only Planner.Next forms a batch.
LEMMA OnlyPlanForms ==
  ASSUME FenceInv, [Next]_vars, upc = "plan", upc' = "formed"
  PROVE  PlanBatch
<1>1. CASE \/ UNCHANGED vars
           \/ \E r \in Roots : OwnerWithdraws(r) \/ OwnerRegisters(r) \/ Admit(r)
           \/ CheckPolicy \/ PollTranscripts
  BY <1>1 DEF OwnerWithdraws, OwnerRegisters, Admit, CheckPolicy, PollTranscripts, vars, lane
<1>2. CASE AppendDurable \/ RecordAppend \/ AppendTimesOut \/ LateAppend \/ LocalAppend
  BY <1>2 DEF AppendDurable, RecordAppend, AppendTimesOut, LateAppend, LocalAppend, lane
<1>3. CASE Lane \/ PassCancelled \/ ReplyLost \/ SendFails \/ ShutdownBegins
  BY <1>3 DEF Lane, Ceiling, Refresh, NothingOwed, BeforeSend, Send, Acknowledge, PassCancelled,
              ReplyLost, SendFails, ShutdownBegins, PassEnds, lane
<1>4. CASE RecordShutdown \/ Exit \/ Crash
  BY <1>4 DEF RecordShutdown, Exit, Crash, ProcessEnds, PassEnds, lane
<1>5. CASE \/ \E m \in Modes : Start(m)
           \/ \E k \in 0..MaxSeq : MoveAside(k)
  BY <1>5 DEF Start, MoveAside, lane
<1> QED BY <1>1, <1>2, <1>3, <1>4, <1>5 DEF Next

\* A batch formed after a withdrawal was published carries the withdrawn frames as placeholders only,
\* through restarts and crashes, unless their origin was lost.
THEOREM WithdrawalReaches == Spec => ConsentRespected
<1> DEFINE Step == upc = "plan" /\ upc' = "formed" /\ ~unsynced /\ asides = 0 =>
                     \A s \in ackFile + 1..blast' :
                       /\ cap[s] # NoOrigin /\ s \notin untracked
                       /\ s \notin tried /\ ~Covered(pub, cap[s])
                       => s \in ph'
<1>1. Init => OriginInv
  <2> SUFFICES ASSUME Init
               PROVE  OriginInv
    OBVIOUS
  <2>1. FenceInv
    BY FenceInit
  <2>2. \A s \in Seqs : cap[s] = NoOrigin
    BY DEF Init, NoOrigins
  <2>3. OriginShape /\ asides \in Nat
    BY <2>2 DEF Init, OriginShape, Tracked
  <2> QED BY <2>1, <2>3 DEF OriginInv
<1>2. OriginInv /\ [Next]_vars => OriginInv'
  BY OriginNext
<1>3. OriginInv /\ [Next]_vars => [Step]_vars
  <2> SUFFICES ASSUME OriginInv, [Next]_vars, upc = "plan", upc' = "formed", ~unsynced, asides = 0,
                      NEW s \in ackFile + 1..blast',
                      cap[s] # NoOrigin, s \notin untracked, s \notin tried, ~Covered(pub, cap[s])
               PROVE  s \in ph'
    OBVIOUS
  <2>1. PlanBatch /\ FenceInv
    BY OnlyPlanForms DEF OriginInv
  <2> DEFINE read == ackFile + 1..Min2(ackFile + MaxBatch, uhigh)
  <2>2. /\ blast' \in read
        /\ ph' = (Applied(pub, ver) \cup (read \cap Withdrawn(pub))) \cap (ackFile + 1..blast')
    BY <2>1 DEF PlanBatch
  <2>3. /\ ackFile \in Nat /\ uhigh \in 0..MaxSeq /\ top \in 0..MaxSeq /\ uhigh <= top
        /\ wpc = "durable" => wseq > uhigh /\ wseq \in Nat
        /\ svc # "down"
    BY <2>1, FenceAssumption DEF FenceInv, TypeOK, LaneShape
  <2>4. s \in Seqs /\ s \in read /\ ackFile < s /\ s <= top /\ ~(wpc = "durable" /\ s = wseq)
    BY <2>2, <2>3, FenceAssumption DEF Min2, Seqs
  <2>5. Tracked(s)
    BY <2>4 DEF Tracked
  <2>6. s > attempted /\ origins[s] = cap[s]
    BY <2>3, <2>4, <2>5 DEF OriginInv, OriginShape
  <2>7. ~Allows(pub, cap[s])
    <3>1. cap[s] \in Origin /\ pub \in Policy
      BY <2>1, <2>4 DEF FenceInv, TypeOK
    <3>2. cap[s].root \in Roots /\ pub[cap[s].root] \in Entry
      BY <3>1 DEF Origin, Policy
    <3> SUFFICES ASSUME Allows(pub, cap[s])
                 PROVE  FALSE
      OBVIOUS
    <3>3. pub[cap[s].root] = [gen |-> cap[s].gen, active |-> TRUE]
      BY <3>2, EntryFields DEF Allows, Entry
    <3> QED BY <3>3 DEF Covered
  <2> QED BY <2>2, <2>4, <2>6, <2>7 DEF Withdrawn
<1> QED BY <1>1, <1>2, <1>3, PTL DEF Spec, ConsentRespected

----------------------------------------------------------------------------
(* Nothing is withheld without need *)

\* WithheldShape with the move excluded.
WithheldParts ==
  /\ Under(file, worigin) /\ Under(file, late) /\ \A s \in Seqs : Under(file, cap[s])
  /\ wpc # "idle" => worigin # NoOrigin
  /\ unsure <= top
  /\ \A s \in ledger.withheld \cup withheld :
       s <= top /\ cap[s] # NoOrigin /\ (~Covered(file, cap[s]) \/ s <= unsure)
  /\ svc # "down" /\ mode = "live" =>
       /\ Older(pub, file) /\ Older(gens, pub)
       /\ Under(pub, worigin) /\ \A s \in Seqs : Under(pub, origins[s])
  /\ svc # "down" /\ mode = "passive" =>
       /\ pub = EmptyPolicy /\ gens = EmptyPolicy /\ wpc = "idle"
       /\ \A s \in Seqs : origins[s] # NoOrigin => s <= unsure

WithheldInv == asides \in Nat /\ FenceInv /\ WithheldShape

\* The entries of a policy.
LEMMA EntryOf ==
  ASSUME NEW p \in Policy, NEW r \in Roots
  PROVE  p[r] \in Entry /\ p[r].gen \in Nat /\ p[r].active \in BOOLEAN
<1>1. p[r] \in Entry
  BY DEF Policy
<1>2. p[r].gen \in Nat
  BY <1>1, FenceAssumption DEF Entry
<1>3. p[r].active \in BOOLEAN
  BY <1>1, EntryFields
<1> QED BY <1>1, <1>2, <1>3

\* Older is a preorder, and what was captured under an older policy was captured under a newer one.
LEMMA OlderReflexive ==
  ASSUME NEW p \in Policy
  PROVE  Older(p, p)
<1>1. \A r \in Roots : p[r].gen \in Nat
  BY EntryOf
<1> QED BY <1>1 DEF Older

LEMMA OlderTransitive ==
  ASSUME NEW p \in Policy, NEW q \in Policy, NEW f \in Policy, Older(p, q), Older(q, f)
  PROVE  Older(p, f)
<1> SUFFICES ASSUME NEW r \in Roots
             PROVE  \/ p[r].gen < f[r].gen
                    \/ p[r].gen = f[r].gen /\ (f[r].active => p[r].active)
  BY DEF Older
<1>1. p[r].gen \in Nat /\ q[r].gen \in Nat /\ f[r].gen \in Nat
  BY EntryOf
<1>2. /\ p[r].gen <= q[r].gen /\ (p[r].gen = q[r].gen => (q[r].active => p[r].active))
      /\ q[r].gen <= f[r].gen /\ (q[r].gen = f[r].gen => (f[r].active => q[r].active))
  BY <1>1 DEF Older
<1>3. p[r].gen < f[r].gen \/ (p[r].gen = q[r].gen /\ q[r].gen = f[r].gen)
  BY <1>1, <1>2
<1> QED BY <1>2, <1>3

LEMMA UnderNewer ==
  ASSUME NEW p \in Policy, NEW q \in Policy, Older(p, q), NEW o \in Origin \cup {NoOrigin}, Under(p, o)
  PROVE  Under(q, o)
<1>1. \A r \in Roots : p[r].gen \in Nat /\ q[r].gen \in Nat
  BY EntryOf
<1>2. o # NoOrigin => o.root \in Roots /\ o.gen \in Nat
  BY FenceAssumption DEF Origin
<1> QED BY <1>1, <1>2 DEF Older, Under

\* A consent that the published policy lacks is gone from the file too, for good.
LEMMA GoneForGood ==
  ASSUME NEW p \in Policy, NEW f \in Policy, Older(p, f), NEW o \in Origin, Under(p, o), ~Allows(p, o)
  PROVE  ~Covered(f, o)
<1>1. o.root \in Roots /\ o.gen \in Nat /\ o # NoOrigin
  BY FenceAssumption DEF Origin
<1>2. /\ p[o.root].gen \in Nat /\ f[o.root].gen \in Nat /\ p[o.root].active \in BOOLEAN
      /\ f[o.root].active \in BOOLEAN
  BY <1>1, EntryOf
<1> SUFFICES ASSUME Covered(f, o)
             PROVE  FALSE
  OBVIOUS
<1>3. f[o.root].gen = o.gen /\ f[o.root].active
  BY DEF Covered
<1>4. o.gen <= p[o.root].gen
  BY <1>1 DEF Under
<1>5. p[o.root].gen = o.gen /\ p[o.root].active
  BY <1>1, <1>2, <1>3, <1>4 DEF Older
<1> QED BY <1>5 DEF Allows

\* The converse of Allows, on what a policy may be.
LEMMA CoveredIsAllowed ==
  ASSUME NEW p \in Policy, NEW o \in Origin
  PROVE  Covered(p, o) <=> Allows(p, o)
<1>1. o.root \in Roots /\ p[o.root] \in Entry
  BY DEF Origin, Policy
<1>2. ASSUME Allows(p, o)
      PROVE  Covered(p, o)
  BY <1>1, <1>2, EntryFields DEF Allows, Covered, Entry
<1>3. ASSUME Covered(p, o)
      PROVE  Allows(p, o)
  BY <1>3 DEF Allows, Covered
<1> QED BY <1>2, <1>3

LEMMA WithheldKept ==
  ASSUME WithheldInv, FenceInv', [Next]_vars,
         asides = 0 /\ asides' = 0 /\ WithheldParts => WithheldParts'
  PROVE  WithheldInv'
<1>1. asides' \in Nat /\ (asides' = 0 => asides = 0)
  BY FaultsStay DEF WithheldInv
<1>2. asides = 0 => WithheldParts
  BY DEF WithheldInv, WithheldShape, WithheldParts
<1>3. WithheldShape'
  BY <1>1, <1>2 DEF WithheldShape, WithheldParts
<1> QED BY <1>1, <1>3 DEF WithheldInv

\* The owner's steps: the file only moves on.
LEMMA OwnerWithheld ==
  ASSUME FenceInv, WithheldParts, NEW r \in Roots, OwnerWithdraws(r) \/ OwnerRegisters(r)
  PROVE  WithheldParts'
<1>1. UNCHANGED <<top, cap, ledger, svc, mode, pub, gens, wpc, worigin, late, origins, withheld, unsure>>
  BY DEF OwnerWithdraws, OwnerRegisters, watch, fence, hist
<1>2. file \in Policy /\ pub \in Policy /\ worigin \in Origin \cup {NoOrigin}
      /\ late \in Origin \cup {NoOrigin} /\ cap \in [Seqs -> Origin \cup {NoOrigin}]
      /\ ledger.withheld \cup withheld \subseteq Seqs
  BY DEF FenceInv, TypeOK
<1>3. file' \in Policy
  <2>1. FenceInv'
    BY PolicySteps
  <2> QED BY <2>1 DEF FenceInv, TypeOK
<1>4. /\ \A q \in Roots : q # r => file'[q] = file[q]
      /\ \/ file[r].active /\ file'[r].gen = file[r].gen /\ file'[r].active = FALSE
         \/ ~file[r].active /\ file'[r].gen = file[r].gen + 1
  BY <1>2 DEF OwnerWithdraws, OwnerRegisters, Policy, Entry
<1>5. Older(file, file')
  <2>1. \A q \in Roots : file[q].gen \in Nat
    BY <1>2, EntryOf
  <2> QED BY <1>4, <2>1 DEF Older
<1>6. \A o \in Origin \cup {NoOrigin} : Under(file, o) => Under(file', o)
  BY <1>2, <1>3, <1>5, UnderNewer
<1>7. \A o \in Origin : Under(file, o) /\ ~Covered(file, o) => ~Covered(file', o)
  BY <1>2, <1>3, <1>5, CoveredIsAllowed, GoneForGood
<1>8. Older(pub, file) => Older(pub, file')
  BY <1>2, <1>3, <1>5, OlderTransitive
<1>9. \A s \in ledger.withheld \cup withheld : cap[s] # NoOrigin => cap[s] \in Origin /\ Under(file, cap[s])
  BY <1>2 DEF WithheldParts
<1>10. Under(file', worigin) /\ Under(file', late) /\ \A s \in Seqs : Under(file', cap[s])
  BY <1>2, <1>6 DEF WithheldParts
<1> QED BY <1>1, <1>7, <1>8, <1>9, <1>10 DEF WithheldParts

\* A check of the policy file by the consent loop or by a transcript pass.
LEMMA PublishWithheld ==
  ASSUME FenceInv, WithheldParts, CheckPolicy \/ PollTranscripts
  PROVE  WithheldParts'
<1>1. /\ UNCHANGED <<top, cap, ledger, file, svc, mode, wpc, worigin, late, origins, withheld, unsure>>
      /\ svc # "down" /\ mode = "live"
      /\ pub' = pub \/ pub' = file
      /\ gens' = gens \/ gens' = pub'
  BY DEF CheckPolicy, PollTranscripts, Current, watch, fence, hist
<1>2. /\ file \in Policy /\ pub \in Policy /\ gens \in Policy /\ worigin \in Origin \cup {NoOrigin}
      /\ origins \in [Seqs -> Origin \cup {NoOrigin}]
  BY DEF FenceInv, TypeOK
<1>3. /\ Older(pub, file) /\ Older(gens, pub)
      /\ Under(pub, worigin) /\ \A s \in Seqs : Under(pub, origins[s])
  BY <1>1 DEF WithheldParts
<1>4. Older(pub', file) /\ Older(pub, pub') /\ pub' \in Policy
  BY <1>1, <1>2, <1>3, OlderReflexive
<1>5. Older(gens', pub')
  BY <1>1, <1>2, <1>3, <1>4, OlderReflexive, OlderTransitive
<1>6. Under(pub', worigin) /\ \A s \in Seqs : Under(pub', origins[s])
  BY <1>2, <1>3, <1>4, UnderNewer
<1> QED BY <1>1, <1>4, <1>5, <1>6 DEF WithheldParts

\* An append is admitted under the generation the watcher was built for, which is published.
LEMMA AdmitWithheld ==
  ASSUME FenceInv, WithheldParts, NEW r \in Roots, Admit(r)
  PROVE  WithheldParts'
<1>1. /\ UNCHANGED <<top, cap, ledger, file, svc, mode, pub, gens, late, origins, withheld, unsure>>
      /\ svc = "up" /\ gens[r].active /\ Allows(pub, [root |-> r, gen |-> gens[r].gen])
      /\ worigin' = [root |-> r, gen |-> gens[r].gen]
  BY DEF Admit, policy, fence, hist
<1>2. file \in Policy /\ pub \in Policy /\ gens \in Policy /\ mode \in {"live", "passive"}
  BY DEF FenceInv, TypeOK
<1>3. mode = "live"
  <2>1. gens # EmptyPolicy
    BY <1>1 DEF EmptyPolicy
  <2> QED BY <1>1, <1>2, <2>1 DEF WithheldParts
<1>4. gens[r] \in Entry /\ gens[r].gen \in 1..MaxGen /\ gens[r].gen \in Nat
  <2>1. gens[r] \in Entry
    BY <1>2, EntryOf
  <2>2. gens[r].gen \in 1..MaxGen
    BY <1>1, <2>1, EntryFields
  <2> QED BY <2>1, <2>2, FenceAssumption
<1>5. worigin' \in Origin /\ worigin' # NoOrigin
  BY <1>1, <1>4, FenceAssumption DEF Origin
<1>6. Under(pub, worigin')
  BY <1>1, <1>4 DEF Allows, Under
<1>7. Under(file, worigin')
  BY <1>1, <1>2, <1>3, <1>5, <1>6, UnderNewer DEF WithheldParts
<1> QED BY <1>1, <1>3, <1>5, <1>6, <1>7 DEF WithheldParts

\* A frame is added above all others, or an append ends without one.
LEMMA AppendWithheld ==
  ASSUME FenceInv, WithheldParts, AppendDurable \/ AppendTimesOut \/ LateAppend \/ LocalAppend
  PROVE  WithheldParts'
<1>1. /\ UNCHANGED <<ledger, file, svc, mode, pub, gens, origins, withheld, unsure>>
      /\ worigin' = worigin \/ (worigin' = NoOrigin /\ wpc' = "idle")
      /\ wpc' = wpc \/ wpc' = "idle" \/ (wpc = "admitted" /\ worigin' = worigin)
      /\ late' \in {late, worigin, NoOrigin}
      /\ \/ UNCHANGED <<top, cap>>
         \/ /\ top' = top + 1 /\ top < MaxSeq
            /\ \E o \in {worigin, late, NoOrigin} : cap' = [cap EXCEPT ![top + 1] = o]
  <2>1. CASE AppendDurable
    BY <2>1 DEF AppendDurable, policy, fence, hist
  <2>2. CASE AppendTimesOut
    BY <2>2 DEF AppendTimesOut, AppendDone, policy, fence, hist
  <2>3. CASE LateAppend
    BY <2>3, FenceAssumption DEF LateAppend, Room, policy, fence, hist, FenceInv, TypeOK
  <2>4. CASE LocalAppend
    BY <2>4, FenceAssumption DEF LocalAppend, Room, policy, watch, fence, hist, FenceInv, TypeOK
  <2> QED BY <2>1, <2>2, <2>3, <2>4
<1>2. /\ top \in 0..MaxSeq /\ cap \in [Seqs -> Origin \cup {NoOrigin}]
      /\ ledger.withheld \cup withheld \subseteq Seqs /\ unsure \in 0..MaxSeq
  BY DEF FenceInv, TypeOK
<1>3. Under(file, NoOrigin) /\ Under(pub, NoOrigin)
  BY DEF Under
<1>4. Under(file, worigin') /\ Under(file, late')
  BY <1>1, <1>3 DEF WithheldParts
<1>5. wpc' # "idle" => worigin' # NoOrigin
  BY <1>1 DEF WithheldParts
<1>6. /\ top <= top' /\ top' \in Nat /\ \A s \in Seqs : Under(file, cap'[s])
      /\ \A s \in Seqs : s <= top => cap'[s] = cap[s]
  <2>1. CASE UNCHANGED <<top, cap>>
    BY <1>2, <2>1, FenceAssumption DEF WithheldParts
  <2>2. ASSUME top' = top + 1, top < MaxSeq,
               NEW o \in {worigin, late, NoOrigin}, cap' = [cap EXCEPT ![top + 1] = o]
        PROVE  /\ top <= top' /\ top' \in Nat /\ \A s \in Seqs : Under(file, cap'[s])
               /\ \A s \in Seqs : s <= top => cap'[s] = cap[s]
    <3>1. top + 1 \in Seqs /\ top \in Nat
      BY <1>2, <2>2, FenceAssumption DEF Seqs
    <3>2. \A s \in Seqs : cap'[s] = IF s = top + 1 THEN o ELSE cap[s]
      BY <1>2, <2>2
    <3>3. Under(file, o)
      BY <1>3, <2>2 DEF WithheldParts
    <3>4. \A s \in Seqs : s <= top => s # top + 1
      BY <3>1
    <3>5. \A s \in Seqs : Under(file, cap[s])
      BY DEF WithheldParts
    <3> QED BY <2>2, <3>1, <3>2, <3>3, <3>4, <3>5
  <2> QED BY <1>1, <2>1, <2>2
<1>7. \A s \in ledger.withheld \cup withheld :
        s <= top' /\ cap'[s] # NoOrigin /\ (~Covered(file, cap'[s]) \/ s <= unsure)
  <2> SUFFICES ASSUME NEW s \in ledger.withheld \cup withheld
               PROVE  s <= top' /\ cap'[s] # NoOrigin /\ (~Covered(file, cap'[s]) \/ s <= unsure)
    OBVIOUS
  <2>1. s \in Seqs /\ s \in Nat /\ top \in Nat
    BY <1>2, FenceAssumption DEF Seqs
  <2>2. s <= top /\ cap[s] # NoOrigin /\ (~Covered(file, cap[s]) \/ s <= unsure)
    BY DEF WithheldParts
  <2>3. cap'[s] = cap[s] /\ s <= top'
    BY <1>6, <2>1, <2>2
  <2> QED BY <2>2, <2>3
<1>8. unsure <= top'
  BY <1>2, <1>6, FenceAssumption DEF WithheldParts
<1>9. svc # "down" /\ mode = "live" =>
        /\ Older(pub, file) /\ Older(gens, pub)
        /\ Under(pub, worigin') /\ \A s \in Seqs : Under(pub, origins[s])
  BY <1>1, <1>3 DEF WithheldParts
<1>10. svc # "down" /\ mode = "passive" =>
        /\ pub = EmptyPolicy /\ gens = EmptyPolicy /\ wpc' = "idle"
        /\ \A s \in Seqs : origins[s] # NoOrigin => s <= unsure
  BY <1>1 DEF WithheldParts
<1> QED BY <1>1, <1>4, <1>5, <1>6, <1>7, <1>8, <1>9, <1>10 DEF WithheldParts

\* The newest policy, as a pass re-reads it: what it lacks of the tracked origins is gone for good.
LEMMA WithdrawnIsGone ==
  ASSUME FenceInv, WithheldParts, svc # "down", pub' \in Policy,
         pub' = pub \/ (mode = "live" /\ pub' = file)
  PROVE  /\ mode = "live" => /\ Older(pub', file) /\ Older(gens, pub')
                             /\ Under(pub', worigin) /\ \A s \in Seqs : Under(pub', origins[s])
         /\ \A s \in Withdrawn(pub') :
              s <= top /\ cap[s] # NoOrigin /\ (~Covered(file, cap[s]) \/ s <= unsure)
<1>1. /\ file \in Policy /\ pub \in Policy /\ gens \in Policy /\ worigin \in Origin \cup {NoOrigin}
      /\ origins \in [Seqs -> Origin \cup {NoOrigin}] /\ mode \in {"live", "passive"}
  BY DEF FenceInv, TypeOK
<1>2. ASSUME mode = "live"
      PROVE  /\ Older(pub', file) /\ Older(gens, pub')
             /\ Under(pub', worigin) /\ \A s \in Seqs : Under(pub', origins[s])
  <2>1. /\ Older(pub, file) /\ Older(gens, pub)
        /\ Under(pub, worigin) /\ \A s \in Seqs : Under(pub, origins[s])
    BY <1>2 DEF WithheldParts
  <2>2. Older(pub', file) /\ Older(pub, pub')
    BY <1>1, <2>1, OlderReflexive
  <2>3. Older(gens, pub')
    BY <1>1, <2>1, <2>2, OlderTransitive
  <2>4. Under(pub', worigin) /\ \A s \in Seqs : Under(pub', origins[s])
    BY <1>1, <2>1, <2>2, UnderNewer
  <2> QED BY <2>2, <2>3, <2>4
<1>3. ASSUME NEW s \in Withdrawn(pub')
      PROVE  s <= top /\ cap[s] # NoOrigin /\ (~Covered(file, cap[s]) \/ s <= unsure)
  <2>1. s \in Seqs /\ origins[s] # NoOrigin /\ ~Allows(pub', origins[s])
    BY <1>3 DEF Withdrawn
  <2>2. s <= top /\ origins[s] = cap[s] /\ origins[s] \in Origin
    BY <1>1, <2>1 DEF FenceInv, SentShape
  <2>3. CASE mode = "live"
    BY <1>1, <1>2, <2>1, <2>2, <2>3, GoneForGood
  <2>4. CASE mode = "passive"
    BY <2>1, <2>2, <2>4 DEF WithheldParts
  <2> QED BY <1>1, <2>1, <2>2, <2>3, <2>4
<1> QED BY <1>2, <1>3

\* A pass applies the policy to its backlog.
LEMMA DecideWithheld ==
  ASSUME FenceInv, FenceInv', WithheldParts, Refresh \/ PlanBatch
  PROVE  WithheldParts'
<1>1. /\ UNCHANGED <<top, cap, file, svc, mode, gens, wpc, worigin, late, origins, unsure>>
      /\ pub' = pub \/ (mode = "live" /\ pub' = file)
      /\ \A s \in withheld' : s \in withheld \/ s \in Withdrawn(pub')
  BY DEF Refresh, PlanBatch, Current, Applied, watch, policy, hist
<1>2. svc # "down" /\ (ledger'.withheld = ledger.withheld \/ ledger'.withheld = withheld')
  BY DecidesUnsent
<1>3. pub' \in Policy
  BY DEF FenceInv, TypeOK
<1>4. \A s \in Withdrawn(pub') :
        s <= top /\ cap[s] # NoOrigin /\ (~Covered(file, cap[s]) \/ s <= unsure)
  BY <1>1, <1>2, <1>3, WithdrawnIsGone
<1>5. mode = "live" => /\ Older(pub', file) /\ Older(gens, pub')
                       /\ Under(pub', worigin) /\ \A s \in Seqs : Under(pub', origins[s])
  BY <1>1, <1>2, <1>3, WithdrawnIsGone
<1>6. \A s \in ledger'.withheld \cup withheld' : s \in ledger.withheld \cup withheld \/ s \in Withdrawn(pub')
  BY <1>1, <1>2
<1>7. mode = "passive" => pub' = pub
  BY <1>1
<1> QED BY <1>1, <1>4, <1>5, <1>6, <1>7 DEF WithheldParts

\* An append's origin is recorded; it is withheld when the published policy lacks its consent.
LEMMA RecordAppendWithheld ==
  ASSUME FenceInv, WithheldParts, RecordAppend
  PROVE  WithheldParts'
<1>1. /\ UNCHANGED <<top, cap, file, svc, mode, pub, gens, late, unsure>>
      /\ wpc = "durable" /\ wpc' = "idle" /\ worigin' = NoOrigin
      /\ origins' = [origins EXCEPT ![wseq] = worigin]
      /\ withheld' = withheld \/ (withheld' = withheld \cup {wseq} /\ ~Allows(pub, worigin))
  BY DEF RecordAppend, AppendDone, policy, hist
<1>2. svc # "down" /\ (ledger'.withheld = ledger.withheld \/ ledger'.withheld = withheld')
  BY DecidesUnsent
<1>3. /\ file \in Policy /\ pub \in Policy /\ worigin \in Origin \cup {NoOrigin}
      /\ origins \in [Seqs -> Origin \cup {NoOrigin}] /\ mode \in {"live", "passive"}
  BY DEF FenceInv, TypeOK
<1>4. mode = "live" /\ worigin # NoOrigin
  BY <1>1, <1>2, <1>3 DEF WithheldParts
<1>5. wseq <= top /\ cap[wseq] = worigin
  BY <1>1, FenceAssumption DEF FenceInv, LaneShape, TypeOK
<1>6. /\ Older(pub, file) /\ Older(gens, pub)
      /\ Under(pub, worigin) /\ \A s \in Seqs : Under(pub, origins[s])
  BY <1>2, <1>4 DEF WithheldParts
<1>7. \A s \in Seqs : Under(pub, origins'[s])
  BY <1>1, <1>3, <1>6
<1>8. ~Allows(pub, worigin) => ~Covered(file, cap[wseq])
  BY <1>3, <1>4, <1>5, <1>6, GoneForGood
<1>9. Under(file, NoOrigin) /\ Under(pub, NoOrigin)
  BY DEF Under
<1>10. \A s \in ledger'.withheld \cup withheld' :
         s \in ledger.withheld \cup withheld \/ (s = wseq /\ ~Allows(pub, worigin))
  BY <1>1, <1>2
<1>11. \A s \in ledger'.withheld \cup withheld' :
         s <= top /\ cap[s] # NoOrigin /\ (~Covered(file, cap[s]) \/ s <= unsure)
  BY <1>4, <1>5, <1>8, <1>10 DEF WithheldParts
<1> QED BY <1>1, <1>4, <1>6, <1>7, <1>9, <1>11 DEF WithheldParts

\* A step that takes no decision and leaves the policy, the watcher and the frames alone.
LEMMA QuietWithheld ==
  ASSUME WithheldParts, svc # "down",
         UNCHANGED <<top, cap, file, mode, pub, gens, wpc, worigin, late, unsure>>,
         ledger'.withheld \cup withheld' \subseteq ledger.withheld \cup withheld,
         \A s \in Seqs : origins'[s] \in {origins[s], NoOrigin}
  PROVE  WithheldParts'
<1>1. Under(pub, NoOrigin)
  BY DEF Under
<1> QED BY <1>1 DEF WithheldParts

\* A start takes over decisions, and without a policy it adds one on every frame the record knows.
LEMMA StartWithheld ==
  ASSUME FenceInv, FenceInv', WithheldParts, NEW m \in {"live", "passive"}, Start(m)
  PROVE  WithheldParts'
<1> DEFINE lost == /\ ledger.shutdown # NoRecord
                   /\ \/ ledger.shutdown.high > top
                      \/ ledger.shutdown.att > ledger.shutdown.high
           sh == IF lost THEN NoRecord ELSE ledger.shutdown
           att == LoadedAttempted(sh)
           org == [s \in Seqs |-> IF sh # NoRecord /\ s > att /\ s <= sh.high
                                    THEN sh.org[s] ELSE NoOrigin]
           all == Kept \cup (IF m = "passive" THEN {s \in Seqs : org[s] # NoOrigin} ELSE {})
<1>1. /\ UNCHANGED <<top, cap, file, wpc, worigin, late>> /\ svc = "down"
      /\ unsure' = IF m = "passive" THEN top ELSE unsure
      /\ \/ /\ svc' = "up" /\ mode' = m /\ origins' = org /\ withheld' = all
            /\ pub' = (IF m = "live" THEN file ELSE EmptyPolicy) /\ gens' = pub'
            /\ NoPersist(FALSE) \/ Persisted(all, sh)
         \/ svc' = svc /\ withheld' = withheld /\ PersistFailed(all, sh, FALSE)
  BY DEF Start, fence
<1>2. \A s \in Seqs : org[s] # NoOrigin => s <= top /\ org[s] = cap[s]
  <2> SUFFICES ASSUME NEW s \in Seqs, org[s] # NoOrigin
               PROVE  s <= top /\ org[s] = cap[s]
    OBVIOUS
  <2>1. sh # NoRecord /\ s <= sh.high /\ org[s] = sh.org[s]
    OBVIOUS
  <2>2. ~lost /\ sh = ledger.shutdown
    BY <2>1
  <2>3. ledger.shutdown # NoRecord /\ ~(ledger.shutdown.high > top)
    BY <2>1, <2>2
  <2>4. Honest(ledger.shutdown)
    BY <2>3 DEF FenceInv, RecordHonest
  <2>5. ledger.shutdown.high \in Nat /\ top \in Nat /\ s \in Nat
    BY <2>3, FenceAssumption DEF FenceInv, TypeOK, Record, Seqs
  <2> HIDE DEF lost, sh, org
  <2> QED BY <2>1, <2>2, <2>4, <2>5 DEF Honest
<1>3. \A s \in all : s \in ledger.withheld \/ (m = "passive" /\ s \in Seqs /\ org[s] # NoOrigin)
  BY DEF Kept
<1> HIDE DEF org, all, sh
<1>4. \A s \in ledger'.withheld \cup withheld' : s \in ledger.withheld \cup withheld \cup all
  BY <1>1 DEF NoPersist, Persisted, PersistFailed
<1>5. top \in Nat /\ unsure \in Nat /\ unsure <= top
  BY FenceAssumption DEF FenceInv, TypeOK, WithheldParts
<1>6. unsure <= unsure' /\ unsure' <= top /\ unsure' \in Nat
  BY <1>1, <1>5
<1>7. \A s \in ledger'.withheld \cup withheld' :
        s <= top /\ cap[s] # NoOrigin /\ (~Covered(file, cap[s]) \/ s <= unsure')
  <2> SUFFICES ASSUME NEW s \in ledger'.withheld \cup withheld'
               PROVE  s <= top /\ cap[s] # NoOrigin /\ (~Covered(file, cap[s]) \/ s <= unsure')
    OBVIOUS
  <2>1. s \in Nat
    <3>1. ledger'.withheld \cup withheld' \subseteq Seqs
      BY DEF FenceInv, TypeOK
    <3>2. Seqs \subseteq Nat
      BY FenceAssumption DEF Seqs
    <3> QED BY <3>1, <3>2
  <2>2. CASE s \in ledger.withheld \cup withheld
    <3>1. s <= top /\ cap[s] # NoOrigin /\ (~Covered(file, cap[s]) \/ s <= unsure)
      BY <2>2 DEF WithheldParts
    <3>2. s <= unsure => s <= unsure'
      BY <1>5, <1>6, <2>1
    <3> QED BY <3>1, <3>2
  <2>3. CASE m = "passive" /\ s \in Seqs /\ org[s] # NoOrigin
    BY <1>1, <1>2, <2>3
  <2> QED BY <1>3, <1>4, <2>2, <2>3
<1>8. wpc = "idle"
  BY <1>1 DEF FenceInv, LaneShape
<1>9. CASE svc' = "down"
  BY <1>1, <1>6, <1>7, <1>8, <1>9 DEF WithheldParts
<1>10. CASE svc' = "up"
  <2>1. /\ mode' = m /\ origins' = org
        /\ pub' = (IF m = "live" THEN file ELSE EmptyPolicy) /\ gens' = pub'
    BY <1>1, <1>10
  <2>2. file \in Policy /\ cap \in [Seqs -> Origin \cup {NoOrigin}]
    BY DEF FenceInv, TypeOK
  <2>3. \A s \in Seqs : Under(file, org[s])
    <3>1. \A s \in Seqs : org[s] = NoOrigin \/ Under(file, org[s])
      BY <1>2 DEF WithheldParts
    <3> QED BY <3>1 DEF Under
  <2>4. Older(file, file)
    BY <2>2, OlderReflexive
  <2>5. CASE m = "live"
    BY <1>1, <1>6, <1>7, <1>8, <2>1, <2>3, <2>4, <2>5 DEF WithheldParts
  <2>6. CASE m = "passive"
    BY <1>1, <1>2, <1>6, <1>7, <1>8, <2>1, <2>6 DEF WithheldParts
  <2> QED BY <2>5, <2>6
<1> QED BY <1>1, <1>9, <1>10

LEMMA WithheldNext ==
  ASSUME WithheldInv, [Next]_vars
  PROVE  WithheldInv'
<1>1. FenceInv /\ FenceInv' /\ asides \in Nat
  BY FenceNext DEF WithheldInv
<1> SUFFICES ASSUME WithheldParts, asides' = 0
             PROVE  WithheldParts'
  BY <1>1, WithheldKept
<1>2. CASE UNCHANGED vars
  BY <1>2 DEF WithheldParts, vars, Under, Older, Covered
<1>3. CASE \E r \in Roots : OwnerWithdraws(r) \/ OwnerRegisters(r) \/ Admit(r)
  BY <1>1, <1>3, OwnerWithheld, AdmitWithheld
<1>4. CASE CheckPolicy \/ PollTranscripts
  BY <1>1, <1>4, PublishWithheld
<1>5. CASE AppendDurable \/ AppendTimesOut \/ LateAppend \/ LocalAppend
  BY <1>1, <1>5, AppendWithheld
<1>6. CASE RecordAppend
  BY <1>1, <1>6, RecordAppendWithheld
<1>7. CASE Refresh \/ PlanBatch
  BY <1>1, <1>7, DecideWithheld
<1>8. CASE Ceiling \/ PassCancelled \/ NothingOwed \/ Send \/ ReplyLost \/ SendFails \/ ShutdownBegins
  <2>1. /\ svc # "down"
        /\ UNCHANGED <<top, cap, file, mode, pub, gens, wpc, worigin, late, unsure, ledger, withheld, origins>>
    BY <1>1, <1>8 DEF Ceiling, PassCancelled, NothingOwed, Send, ReplyLost, SendFails, ShutdownBegins,
                      policy, watch, fence, hist, FenceInv, LaneShape
  <2> QED BY <2>1, QuietWithheld
<1>9. CASE BeforeSend \/ RecordShutdown
  <2>1. /\ UNCHANGED <<top, cap, file, mode, pub, gens, wpc, worigin, late, unsure, origins, withheld>>
    BY <1>9 DEF BeforeSend, RecordShutdown, policy, watch
  <2>2. svc # "down" /\ (ledger'.withheld = ledger.withheld \/ ledger'.withheld = withheld')
    BY <1>1, <1>9, DecidesUnsent
  <2>3. ledger'.withheld \cup withheld' \subseteq ledger.withheld \cup withheld
    BY <2>1, <2>2
  <2> QED BY <2>1, <2>2, <2>3, QuietWithheld
<1>10. CASE Acknowledge
  <2>1. /\ svc # "down"
        /\ UNCHANGED <<top, cap, file, mode, pub, gens, wpc, worigin, late, unsure, ledger>>
        /\ withheld' \subseteq withheld
        /\ \A s \in Seqs : origins'[s] \in {origins[s], NoOrigin}
    BY <1>1, <1>10 DEF Acknowledge, policy, watch, hist, FenceInv, LaneShape
  <2>2. ledger'.withheld \cup withheld' \subseteq ledger.withheld \cup withheld
    BY <2>1
  <2> QED BY <2>1, <2>2, QuietWithheld
<1>11. CASE \E m \in Modes : Start(m)
  BY <1>1, <1>11, StartWithheld, FenceAssumption
<1>12. CASE Exit \/ Crash
  <2>1. /\ UNCHANGED <<top, cap, file, unsure, ledger>> /\ svc' = "down" /\ withheld' = {}
        /\ wpc' = "idle" /\ worigin' = NoOrigin /\ late' = NoOrigin
    BY <1>12 DEF Exit, Crash, ProcessEnds
  <2>2. Under(file, NoOrigin)
    BY DEF Under
  <2> QED BY <2>1, <2>2 DEF WithheldParts
<1>13. CASE \E k \in 0..MaxSeq : MoveAside(k)
  <2>1. asides' = asides + 1
    BY <1>13 DEF MoveAside
  <2> QED BY <1>1, <2>1
<1> QED BY <1>2, <1>3, <1>4, <1>5, <1>6, <1>7, <1>8, <1>9, <1>10, <1>11, <1>12, <1>13 DEF Next, Lane

\* Unless an operator moved segments aside, a frame is withheld only when it is a watched root's and its
\* consent was withdrawn, or when a run without a policy took it over: the fence never withholds what
\* the owner still consents to, through any crash, restart, failed write and later registration.
THEOREM OnlyWithdrawn == Spec => [](asides = 0 => OnlyWithdrawnWithheld)
<1>1. Init => WithheldInv
  <2> SUFFICES ASSUME Init
               PROVE  WithheldInv
    OBVIOUS
  <2>1. FenceInv
    BY FenceInit
  <2>2. \A s \in Seqs : cap[s] = NoOrigin
    BY DEF Init, NoOrigins
  <2>3. WithheldShape /\ asides \in Nat
    BY <2>2 DEF Init, WithheldShape, Under
  <2> QED BY <2>1, <2>3 DEF WithheldInv
<1>2. WithheldInv /\ [Next]_vars => WithheldInv'
  BY WithheldNext
<1>3. WithheldInv => (asides = 0 => OnlyWithdrawnWithheld)
  BY DEF WithheldInv, WithheldShape, OnlyWithdrawnWithheld
<1> QED BY <1>1, <1>2, <1>3, PTL DEF Spec
=============================================================================
