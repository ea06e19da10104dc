---------------------------- MODULE SpoolProofs ----------------------------
(***************************************************************************)
(* Proofs about the durable spool (module Spool), for every number of      *)
(* sequences, payloads, segment sizes, crashes and I/O faults:             *)
(*                                                                         *)
(*   Durability         Spec => []ReportedDurable                          *)
(*   AckOnlyCollected   Spec => AckFollowsCollector                        *)
(*   ReplyOnce          Spec => ReportedOnce                               *)
(*   BoundForGood       Spec => []NeverReassigned                          *)
(*   RefinesDurableLog  Spec => ImplementsDurableLog                       *)
(*   StartsAccepted     Spec => []RefusesOnlyUnreported                    *)
(*                                                                         *)
(* All of them rest on the inductive invariant SpoolInv, preserved action  *)
(* by action; the last three strengthen it with KeptInv or with ChainInv.  *)
(* They assume AppendBound < SequenceMax: the producers do not exhaust the *)
(* sequence space (at the limit ReportedOnce is false: a restart reports   *)
(* the last sequence again).  The last three also say which ways of ending *)
(* and which faults may come together (ReadsAreSafe, WritesAreSafe): TLC   *)
(* refutes each of them where its hypothesis is dropped.                   *)
(***************************************************************************)
EXTENDS Spool, NatBounds, TLAPS

----------------------------------------------------------------------------
(* Startup *)

\* Reclaiming the empty last segment loses no frame and leaves no file above
\* the next sequence.
LEMMA ReclaimStep ==
  ASSUME SpoolInv, ReclaimEmptyTrailingSegment, AppendBound < SequenceMax
  PROVE  SpoolInv'
<1> USE SpoolAssumption
<1>1. CASE \E f \in Files : /\ EmptyTrailing(f)
                            /\ seg' = [seg EXCEPT ![f] = NewFile(f, "absent")]
                            /\ fresh' = 0
  <2>1. PICK f \in Files : /\ EmptyTrailing(f)
                           /\ seg' = [seg EXCEPT ![f] = NewFile(f, "absent")]
                           /\ fresh' = 0
    BY <1>1
  <2>2. f \in Seqs /\ seg \in [Seqs -> SegFile] /\ \A g \in Seqs : seg[g] \in SegFile
    BY DEF SpoolInv, TypeOK, Files
  <2>3. NewFile(f, "absent") \in SegFile
    BY <2>2 DEF NewFile, SegFile, Tails, Seqs
  <2>4. /\ seg' \in [Seqs -> SegFile]
        /\ \A g \in Seqs : g # f => seg'[g] = seg[g]
        /\ seg'[f] = NewFile(f, "absent")
    BY <2>1, <2>2, <2>3
  <2>5. Files' = Files \ {f}
    BY <2>2, <2>4 DEF Files, NewFile
  <2>6. /\ pc = "bound" /\ pc' = "reclaimed"
        /\ UNCHANGED <<wal, ident, ackFile, active, next, durable, req, resid, sent,
                       reported, collector, crashes, faults>>
    BY DEF ReclaimEmptyTrailingSegment, hist
  <2>7. f \notin Files' /\ \A g \in Files' : g \in Files /\ g < f /\ seg'[g] = seg[g]
    BY <2>1, <2>2, <2>4, <2>5 DEF EmptyTrailing, IsTail, Files, Seqs
  <2>8. TypeOK'
    BY <2>1, <2>4, <2>6 DEF SpoolInv, TypeOK
  <2>9. FileShape'
    BY <2>2, <2>4, <2>5, <2>6 DEF SpoolInv, FileShape, NewFile, End, Seqs, Files
  <2>10. NoOverlap'
    BY <2>1, <2>2, <2>4, <2>5, <2>6, <2>7 DEF SpoolInv, NoOverlap, EmptyTrailing, IsTail, BootShape
  <2>11. FrontAcknowledged'
    BY <2>1, <2>2, <2>4, <2>5, <2>6 DEF SpoolInv, FrontAcknowledged, EmptyTrailing, IsTail, Seqs
  <2>12. FreshShape' /\ WriterShape' /\ AckShape'
    BY <2>1, <2>6 DEF SpoolInv, FreshShape, WriterShape, AckShape, Serving
  <2>13. BootShape'
    BY <2>1, <2>2, <2>4, <2>5, <2>6, <2>7
       DEF SpoolInv, BootShape, FileShape, EmptyTrailing, IsTail, Seqs, NewFile, NoOverlap,
           Files
  <2>14. ReportedDurable'
    <3>1. SUFFICES ASSUME NEW s \in Seqs, reported[s] # NoPayload, ~(s <= ackFile)
                   PROVE  Stored(s, reported[s])'
      BY <2>6 DEF ReportedDurable
    <3>2. PICK g \in Seqs : /\ wal[s] = reported[s] /\ seg[g].hdr = "ok" /\ g # fresh
                            /\ g <= s /\ s <= seg[g].dur
      BY <3>1 DEF SpoolInv, ReportedDurable, Stored
    <3>3. g # f
      <4>1. /\ s \in Nat /\ f \in Nat /\ seg[f].dur \in Nat /\ seg[f].last \in Nat
            /\ seg[f].dur <= seg[f].last
        BY <2>2 DEF SpoolInv, FileShape, SegFile, Seqs
      <4>2. seg[f].hdr # "ok" \/ seg[f].last < f
        BY <2>1 DEF EmptyTrailing
      <4> QED BY <3>2, <4>1, <4>2
    <3> QED BY <2>1, <2>4, <2>6, <3>2, <3>3 DEF Stored, Seqs
  <2> QED BY <2>8, <2>9, <2>10, <2>11, <2>12, <2>13, <2>14 DEF SpoolInv
<1>2. CASE ~\E f \in Files : EmptyTrailing(f)
  <2>1. UNCHANGED <<seg, fresh>>
    BY <1>2 DEF ReclaimEmptyTrailingSegment
  <2>2. /\ pc = "bound" /\ pc' = "reclaimed"
        /\ UNCHANGED <<wal, ident, ackFile, active, next, durable, req, resid, sent,
                       reported, collector, crashes, faults>>
    BY DEF ReclaimEmptyTrailingSegment, hist
  <2>3. Files' = Files
    BY <2>1 DEF Files
  <2>4. \A f, g \in Files : f < g => seg[f].last < g
    BY <1>2 DEF SpoolInv, NoOverlap, EmptyTrailing, IsTail, Files, Seqs
  <2>5. TypeOK' /\ FrontAcknowledged' /\ WriterShape'
    BY <2>1, <2>2, <2>3 DEF SpoolInv, TypeOK, FrontAcknowledged, WriterShape
  <2>10. FileShape'
    BY <2>1, <2>2, <2>3 DEF SpoolInv, FileShape, End, NewFile
  <2>11. AckShape'
    BY <2>1, <2>2 DEF SpoolInv, AckShape, Serving
  <2>6. NoOverlap'
    BY <2>1, <2>3, <2>4 DEF SpoolInv, NoOverlap
  <2>7. fresh = 0
    BY <1>2, <2>2 DEF SpoolInv, FreshShape, EmptyTrailing, NewFile, IsTail, TypeOK, Files, Seqs
  <2>8. BootShape' /\ FreshShape'
    BY <1>2, <2>1, <2>2, <2>3, <2>7
       DEF SpoolInv, BootShape, FreshShape, EmptyTrailing, IsTail, NoOverlap, Seqs, Files
  <2>9. ReportedDurable'
    BY <2>1, <2>2 DEF SpoolInv, ReportedDurable, Stored
  <2> QED BY <2>5, <2>6, <2>8, <2>9, <2>10, <2>11 DEF SpoolInv
<1> QED BY <1>1, <1>2 DEF ReclaimEmptyTrailingSegment

\* An empty file created above every other one disturbs no frame.
LEMMA NewTail ==
  ASSUME SpoolInv, AppendBound < SequenceMax, NEW n \in Seqs, n \notin Files,
         seg' = [seg EXCEPT ![n] = NewFile(n, "short")], fresh = 0, fresh' = n,
         pc' = "creating", UNCHANGED <<wal, ackFile, reported>>,
         n <= AppendBound + 1,
         \A f \in Files : f < n /\ seg[f].last < n /\ seg[f].hdr = "ok",
         Files = {} => n <= ackFile + 1
  PROVE  /\ seg' \in [Seqs -> SegFile] /\ FileShape' /\ NoOverlap'
         /\ FrontAcknowledged' /\ FreshShape' /\ ReportedDurable'
<1> USE SpoolAssumption
<1>1. seg \in [Seqs -> SegFile] /\ \A g \in Seqs : seg[g] \in SegFile
  BY DEF SpoolInv, TypeOK
<1>2. NewFile(n, "short") \in SegFile
  BY DEF NewFile, SegFile, Tails, Seqs
<1>3. /\ seg' \in [Seqs -> SegFile]
      /\ \A g \in Seqs : g # n => seg'[g] = seg[g]
      /\ seg'[n] = NewFile(n, "short")
  BY <1>1, <1>2
<1>4. Files' = Files \cup {n}
  BY <1>3 DEF Files, NewFile
<1>5. FileShape'
  <2>1. \A f \in Seqs : f # n => (f \in Files' <=> f \in Files)
    BY <1>4
  <2>2. /\ seg'[n].last = n - 1 /\ seg'[n].dur = n - 1 /\ seg'[n].hdr = "short"
        /\ seg'[n].dirty = {} /\ seg'[n].tail = "clean" /\ "clean" \notin Payloads
    BY <1>3 DEF NewFile
  <2>3. ASSUME NEW f \in Seqs PROVE (FileShape!(f))'
    <3>1. CASE f = n
      BY <2>2, <1>3, <3>1 DEF End, Seqs, NewFile
    <3>2. CASE f # n
      BY <1>1, <1>3, <2>1, <3>2 DEF SpoolInv, FileShape, End, NewFile
    <3> QED BY <3>1, <3>2
  <2> QED BY <2>3 DEF FileShape
<1>6. NoOverlap'
  <2>1. \A f \in Files : f \in Seqs /\ f # n /\ seg'[f] = seg[f] /\ seg[f].last < n
    BY <1>3 DEF Files
  <2>2. \A f, g \in Files : f < g => seg[f].last < g
    BY <2>1 DEF SpoolInv, NoOverlap
  <2> QED BY <2>1, <2>2, <1>4 DEF NoOverlap, Seqs, Files
<1>7. FrontAcknowledged'
  BY <1>4 DEF SpoolInv, FrontAcknowledged, Files, Seqs
<1>8. FreshShape'
  BY <1>3, <1>4 DEF FreshShape, IsTail, NewFile, Seqs, Files
<1>9. ReportedDurable'
  <2>1. SUFFICES ASSUME NEW s \in Seqs, reported[s] # NoPayload, ~(s <= ackFile)
                 PROVE  Stored(s, reported[s])'
    BY DEF ReportedDurable
  <2>2. PICK g \in Seqs : /\ wal[s] = reported[s] /\ seg[g].hdr = "ok" /\ g # fresh
                          /\ g <= s /\ s <= seg[g].dur
    BY <2>1 DEF SpoolInv, ReportedDurable, Stored
  <2>3. g # n
    BY <2>2 DEF Files
  <2> QED BY <1>3, <2>2, <2>3 DEF Stored
<1> QED BY <1>3, <1>5, <1>6, <1>7, <1>8, <1>9

\* The writer continues the last segment or creates the next one.
LEMMA OpenStep ==
  ASSUME SpoolInv, OpenOrCreateSegment, AppendBound < SequenceMax
  PROVE  SpoolInv'
<1> USE SpoolAssumption
<1>1. /\ pc = "reclaimed"
      /\ UNCHANGED <<wal, ident, ackFile, next, durable, req, resid, sent,
                     reported, collector, crashes, faults>>
  BY DEF OpenOrCreateSegment, hist
<1>2. /\ next \in Seqs /\ next = Max2(durable, ackFile) + 1 /\ fresh = 0
      /\ \A f \in Files : f <= next /\ seg[f].last < next /\ seg[f].hdr = "ok"
      /\ (\A f \in Files : seg[f].last < f) => next <= ackFile + 1
  BY <1>1 DEF SpoolInv, BootShape
<1>3. CASE \E f \in Files : /\ IsTail(f) /\ LastSequence(f) + 1 = next
                            /\ active' = f /\ pc' = "ready"
                            /\ UNCHANGED <<seg, fresh>>
  <2>1. PICK f \in Files : /\ IsTail(f) /\ LastSequence(f) + 1 = next
                           /\ active' = f /\ pc' = "ready"
                           /\ UNCHANGED <<seg, fresh>>
    BY <1>3
  <2>2. f \in Seqs /\ seg[f] \in SegFile
    BY DEF SpoolInv, TypeOK, Files
  <2>3. Files' = Files /\ (IsTail(f) => IsTail(f)')
    BY <2>1 DEF Files, IsTail
  <2>4. durable = seg[f].last
    BY <1>1, <1>2, <2>1, <2>2
       DEF LastSequence, Max2, SpoolInv, TypeOK, FileShape, AckShape, SegFile, Seqs
  <2>5. TypeOK' /\ FrontAcknowledged' /\ FreshShape'
    BY <1>1, <1>2, <2>1, <2>2, <2>3
       DEF SpoolInv, TypeOK, FrontAcknowledged, FreshShape, Seqs
  <2>8. FileShape'
    BY <1>1, <2>1, <2>3 DEF SpoolInv, FileShape, End, NewFile
  <2>9. AckShape'
    BY <1>1, <2>1 DEF SpoolInv, AckShape, Serving
  <2>6. NoOverlap' /\ BootShape' /\ WriterShape'
    BY <1>1, <1>2, <2>1, <2>2, <2>3, <2>4
       DEF SpoolInv, NoOverlap, BootShape, WriterShape
  <2>7. ReportedDurable'
    BY <1>1, <2>1 DEF SpoolInv, ReportedDurable, Stored
  <2> QED BY <2>5, <2>6, <2>7, <2>8, <2>9 DEF SpoolInv
<1>4. CASE next \in Files /\ pc' = "down" /\ UNCHANGED <<seg, fresh, active>>
  <2>1. Files' = Files
    BY <1>4 DEF Files
  <2>2. TypeOK' /\ FrontAcknowledged' /\ FreshShape'
    BY <1>1, <1>2, <1>4, <2>1 DEF SpoolInv, TypeOK, FrontAcknowledged, FreshShape
  <2>5. FileShape'
    BY <1>1, <1>4, <2>1 DEF SpoolInv, FileShape, End, NewFile
  <2>6. AckShape'
    BY <1>1, <1>4 DEF SpoolInv, AckShape, Serving
  <2>3. NoOverlap' /\ BootShape' /\ WriterShape'
    BY <1>1, <1>4, <2>1 DEF SpoolInv, NoOverlap, BootShape, WriterShape
  <2>4. ReportedDurable'
    BY <1>1, <1>4 DEF SpoolInv, ReportedDurable, Stored
  <2> QED BY <2>2, <2>3, <2>4, <2>5, <2>6 DEF SpoolInv
<1>5. CASE /\ next \notin Files /\ seg' = [seg EXCEPT ![next] = NewFile(next, "short")]
           /\ fresh' = next /\ pc' = "creating" /\ UNCHANGED active
  <2>1. next <= AppendBound + 1 /\ ackFile <= durable /\ next = durable + 1
    BY <1>1, <1>2 DEF SpoolInv, AckShape, Max2, TypeOK
  <2>2. \A f \in Files : f < next
    BY <1>2, <1>5 DEF Files, Seqs
  <2>3. /\ seg' \in [Seqs -> SegFile] /\ FileShape' /\ NoOverlap'
        /\ FrontAcknowledged' /\ FreshShape' /\ ReportedDurable'
    BY <1>1, <1>2, <1>5, <2>1, <2>2, NewTail
  <2>4. TypeOK'
    BY <1>1, <1>2, <1>5, <2>3 DEF SpoolInv, TypeOK, Seqs
  <2>5. AckShape'
    BY <1>1, <1>5 DEF SpoolInv, AckShape, Serving
  <2>6. BootShape'
    BY <1>5 DEF BootShape
  <2>7. WriterShape'
    BY <1>1, <1>2, <1>5, <2>1 DEF SpoolInv, WriterShape, Seqs
  <2> QED BY <2>3, <2>4, <2>5, <2>6, <2>7 DEF SpoolInv
<1> QED BY <1>3, <1>4, <1>5 DEF OpenOrCreateSegment, OpenNewFile

\* The header is written; the file stays empty and last.
LEMMA HeaderStep ==
  ASSUME SpoolInv, CreateHeader, AppendBound < SequenceMax
  PROVE  SpoolInv'
<1> USE SpoolAssumption
<1>1. /\ pc = "creating" /\ pc' = "header"
      /\ seg' = [seg EXCEPT ![fresh].hdr = "ok"]
      /\ UNCHANGED <<wal, fresh, ident, ackFile, active, next, durable, req, resid, sent,
                     reported, collector, crashes, faults>>
  BY DEF CreateHeader, hist
<1>2. /\ fresh \in Seqs /\ fresh \in Files /\ fresh = durable + 1
      /\ \A g \in Files : g <= fresh
      /\ seg[fresh] = NewFile(fresh, seg[fresh].hdr)
  BY <1>1 DEF SpoolInv, WriterShape, FreshShape, IsTail, Files
<1>3. seg \in [Seqs -> SegFile] /\ \A g \in Seqs : seg[g] \in SegFile
  BY DEF SpoolInv, TypeOK
<1>4. /\ seg' \in [Seqs -> SegFile]
      /\ \A g \in Seqs : g # fresh => seg'[g] = seg[g]
      /\ seg'[fresh] = NewFile(fresh, "ok")
  <2>1. [seg[fresh] EXCEPT !.hdr = "ok"] = NewFile(fresh, "ok")
    BY <1>2 DEF NewFile
  <2>2. NewFile(fresh, "ok") \in SegFile
    BY <1>2 DEF NewFile, SegFile, Tails, Seqs
  <2>3. seg' = [seg EXCEPT ![fresh] = NewFile(fresh, "ok")]
    BY <1>1, <1>2, <1>3, <2>1
  <2> QED BY <1>2, <1>3, <2>2, <2>3
<1>5. Files' = Files
  <2>1. seg'[fresh].hdr = "ok"
    BY <1>4 DEF NewFile
  <2>2. \A g \in Seqs : seg'[g].hdr # "absent" <=> seg[g].hdr # "absent"
    BY <1>2, <1>4, <2>1 DEF Files
  <2> QED BY <2>2 DEF Files
<1>6. /\ seg'[fresh].last = fresh - 1 /\ seg'[fresh].dur = fresh - 1
      /\ seg'[fresh].hdr = "ok" /\ seg'[fresh].dirty = {}
      /\ seg'[fresh].tail = "clean" /\ "clean" \notin Payloads
  <2>1. /\ seg'[fresh].last = fresh - 1 /\ seg'[fresh].dur = fresh - 1
        /\ seg'[fresh].hdr = "ok" /\ seg'[fresh].dirty = {} /\ seg'[fresh].tail = "clean"
    BY <1>4 DEF NewFile
  <2>2. "clean" \notin Payloads
    OBVIOUS
  <2> QED BY <2>1, <2>2
<1>7. TypeOK'
  BY <1>1, <1>4 DEF SpoolInv, TypeOK
<1>8. FileShape'
  <2>1. ASSUME NEW f \in Seqs PROVE (FileShape!(f))'
    <3>1. CASE f = fresh
      <4>1. f - 1 <= AppendBound
        BY <1>2, <3>1 DEF SpoolInv, AckShape, TypeOK
      <4> QED BY <1>1, <1>2, <1>6, <3>1, <4>1 DEF End, Seqs
    <3>2. CASE f # fresh
      BY <1>1, <1>4, <1>5, <3>2 DEF SpoolInv, FileShape, End, NewFile
    <3> QED BY <3>1, <3>2
  <2> QED BY <2>1 DEF FileShape
<1>9. NoOverlap'
  <2>1. \A f \in Files : f < fresh => seg'[f] = seg[f] /\ seg[f].last < fresh
    BY <1>1, <1>2, <1>4 DEF SpoolInv, NoOverlap, Files
  <2>2. \A f, g \in Files : f < g => f < fresh
    BY <1>2 DEF Files, Seqs
  <2> QED BY <1>1, <1>2, <1>4, <1>5, <2>1, <2>2 DEF SpoolInv, NoOverlap, Files
<1>10. FrontAcknowledged' /\ FreshShape' /\ BootShape' /\ WriterShape'
  BY <1>1, <1>2, <1>4, <1>5, <1>6
     DEF SpoolInv, FrontAcknowledged, FreshShape, BootShape, WriterShape, IsTail, NewFile
<1>11. AckShape'
  BY <1>1 DEF SpoolInv, AckShape, Serving
<1>12. ReportedDurable'
  BY <1>1, <1>4 DEF SpoolInv, ReportedDurable, Stored
<1> QED BY <1>7, <1>8, <1>9, <1>10, <1>11, <1>12 DEF SpoolInv

\* The actions that change neither a segment file nor its payloads, nor the
\* acknowledgement and the replies, keep everything said about them.
LEMMA SegmentsUnchanged ==
  ASSUME SpoolInv, UNCHANGED <<seg, wal, ackFile, reported>>,
         fresh' = fresh \/ fresh' = 0,
         (pc \in {"down", "refused", "recovered", "bound"}
            => pc' \in {"down", "refused", "recovered", "bound"})
  PROVE  /\ Files' = Files /\ FileShape' /\ NoOverlap' /\ FrontAcknowledged'
         /\ FreshShape' /\ ReportedDurable'
<1>1. Files' = Files
  BY DEF Files
<1>2. FileShape'
  BY <1>1 DEF SpoolInv, FileShape, End, NewFile
<1>3. NoOverlap' /\ FrontAcknowledged'
  BY <1>1 DEF SpoolInv, NoOverlap, FrontAcknowledged
<1>4. FreshShape'
  BY <1>1 DEF SpoolInv, FreshShape, IsTail, NewFile
<1>5. ReportedDurable'
  <2>1. SUFFICES ASSUME NEW s \in Seqs, reported[s] # NoPayload, ~(s <= ackFile)
                 PROVE  Stored(s, reported[s])'
    BY DEF ReportedDurable
  <2>2. PICK g \in Seqs : /\ wal[s] = reported[s] /\ seg[g].hdr = "ok" /\ g # fresh
                          /\ g <= s /\ s <= seg[g].dur
    BY <2>1 DEF SpoolInv, ReportedDurable, Stored
  <2>3. g # fresh'
    BY <2>2 DEF Seqs
  <2> QED BY <2>2, <2>3 DEF Stored
<1> QED BY <1>1, <1>2, <1>3, <1>4, <1>5

\* The steps that only move the process on: binding the identity, finishing
\* or failing a create, starting or refusing an append, and the two ways the
\* process ends without touching the disk.
LEMMA ControlStep ==
  ASSUME SpoolInv, AppendBound < SequenceMax,
         \/ BindIdentity \/ CreateSync \/ CreateFails \/ AppendExhausted \/ Stop \/ Kill
         \/ \E p \in Payloads : AppendObservation(p)
  PROVE  SpoolInv'
<1> USE SpoolAssumption
<1>1. /\ UNCHANGED <<seg, wal, ackFile, reported, collector>>
      /\ fresh' = fresh \/ fresh' = 0
      /\ (pc \in {"down", "refused", "recovered", "bound"}
            => pc' \in {"down", "refused", "recovered", "bound"})
  BY DEF BindIdentity, CreateSync, CreateFails, AppendExhausted, Stop, Kill, ProcessEnds,
         AppendObservation, disk, hist
<1>2. /\ Files' = Files /\ FileShape' /\ NoOverlap' /\ FrontAcknowledged'
      /\ FreshShape' /\ ReportedDurable'
  BY <1>1, SegmentsUnchanged
<1>3. CASE BindIdentity
  <2>1. TypeOK' /\ WriterShape'
    BY <1>1, <1>3 DEF SpoolInv, BindIdentity, TypeOK, WriterShape
  <2>2. BootShape'
    BY <1>1, <1>2, <1>3
       DEF SpoolInv, BindIdentity, BootShape, EmptyTrailing, IsTail
  <2>3. AckShape'
    BY <1>1, <1>3 DEF SpoolInv, BindIdentity, AckShape, Serving
  <2> QED BY <1>2, <2>1, <2>2, <2>3 DEF SpoolInv
<1>4. CASE CreateSync
  <2>1. TypeOK' /\ BootShape'
    BY <1>1, <1>4 DEF SpoolInv, CreateSync, TypeOK, BootShape
  <2>2. WriterShape'
    BY <1>1, <1>2, <1>4
       DEF SpoolInv, CreateSync, WriterShape, FreshShape, TypeOK, NewFile, IsTail, Files, Seqs
  <2>3. AckShape'
    BY <1>1, <1>4 DEF SpoolInv, CreateSync, AckShape, Serving
  <2> QED BY <1>2, <2>1, <2>2, <2>3 DEF SpoolInv
<1>5. CASE CreateFails
  <2>1. TypeOK' /\ BootShape' /\ WriterShape'
    BY <1>1, <1>5 DEF SpoolInv, CreateFails, TypeOK, BootShape, WriterShape, disk
  <2>2. AckShape'
    BY <1>1, <1>5 DEF SpoolInv, CreateFails, AckShape, Serving
  <2> QED BY <1>2, <2>1, <2>2 DEF SpoolInv
<1>6. CASE AppendExhausted
  <2>1. TypeOK' /\ BootShape' /\ WriterShape'
    BY <1>1, <1>2, <1>6
       DEF SpoolInv, AppendExhausted, TypeOK, BootShape, WriterShape, IsTail, disk
  <2>2. AckShape'
    BY <1>1, <1>6 DEF SpoolInv, AppendExhausted, AckShape, Serving
  <2> QED BY <1>2, <2>1, <2>2 DEF SpoolInv
<1>7. CASE Stop \/ Kill
  <2>1. TypeOK'
    <3>1. crashes' \in 0..MaxCrashes
      BY <1>7 DEF SpoolInv, TypeOK, Stop, Kill
    <3>2. /\ pc' = "down" /\ active' = 0 /\ next' = 0 /\ durable' = 0
          /\ req' = NoPayload /\ resid' = FALSE /\ sent' = 0
          /\ UNCHANGED <<seg, wal, fresh, ident, ackFile, reported, collector, faults>>
      BY <1>7 DEF Stop, Kill, ProcessEnds, disk, hist
    <3>3. 0 \in 0..SequenceMax
      OBVIOUS
    <3>4. faults' \in 0..MaxFaults /\ fresh' \in 0..SequenceMax /\ ackFile' \in 0..SequenceMax
      BY <3>2 DEF SpoolInv, TypeOK
    <3> QED BY <3>1, <3>2, <3>3, <3>4, Zenon DEF SpoolInv, TypeOK
  <2>2. BootShape' /\ WriterShape'
    BY <1>7 DEF Stop, Kill, ProcessEnds, BootShape, WriterShape
  <2>3. AckShape'
    BY <1>1, <1>7 DEF SpoolInv, Stop, Kill, ProcessEnds, AckShape, Serving, Seqs, TypeOK
  <2> QED BY <1>2, <2>1, <2>2, <2>3 DEF SpoolInv
<1>8. CASE \E p \in Payloads : AppendObservation(p)
  <2>1. PICK p \in Payloads : AppendObservation(p)
    BY <1>8
  <2>2. TypeOK' /\ BootShape' /\ WriterShape'
    BY <1>1, <1>2, <2>1
       DEF SpoolInv, AppendObservation, TypeOK, BootShape, WriterShape, IsTail, disk
  <2>3. AckShape'
    BY <1>1, <2>1 DEF SpoolInv, AppendObservation, AckShape, Serving
  <2> QED BY <1>2, <2>2, <2>3 DEF SpoolInv
<1> QED BY <1>3, <1>4, <1>5, <1>6, <1>7, <1>8

----------------------------------------------------------------------------
(* Appends *)

\* The active segment may be rewritten as long as no durable frame of it
\* shrinks and its committed payloads stay.
LEMMA ActiveChanges ==
  ASSUME SpoolInv, NEW r \in SegFile, IsTail(active), seg[active].hdr = "ok", fresh = 0,
         seg' = [seg EXCEPT ![active] = r], UNCHANGED <<fresh, ackFile>>,
         r.hdr = "ok", seg[active].dur <= r.dur, r.dur <= r.last, seg[active].last <= r.last,
         r.last <= AppendBound, r.tail \in Payloads => r.last < AppendBound,
         r.dirty # {} => r.last < AppendBound,
         \A s \in Seqs : s <= seg[active].last => wal'[s] = wal[s],
         \A s \in Seqs : seg[active].last < s /\ s <= r.last => wal'[s] \in Payloads
  PROVE  /\ seg' \in [Seqs -> SegFile] /\ seg'[active] = r /\ Files' = Files
         /\ \A g \in Seqs : g # active => seg'[g] = seg[g]
         /\ FileShape' /\ NoOverlap' /\ FrontAcknowledged' /\ FreshShape'
         /\ \A s \in Seqs : \A p : Stored(s, p) =>
              /\ s <= seg[active].last /\ wal'[s] = p
              /\ \E f \in Seqs : seg'[f].hdr = "ok" /\ f # fresh' /\ f <= s /\ s <= seg'[f].dur
<1> USE SpoolAssumption
<1>1. seg \in [Seqs -> SegFile] /\ \A g \in Seqs : seg[g] \in SegFile
  BY DEF SpoolInv, TypeOK
<1>2. active \in Seqs /\ active \in Files /\ \A g \in Files : g <= active
  BY DEF IsTail, Files
<1>3. /\ seg' \in [Seqs -> SegFile] /\ seg'[active] = r
      /\ \A g \in Seqs : g # active => seg'[g] = seg[g]
  BY <1>1, <1>2
<1>4. Files' = Files
  BY <1>2, <1>3 DEF Files
<1>5. \A g \in Files : g # active => seg[g].last < active
  BY <1>2 DEF SpoolInv, NoOverlap, Files, Seqs
<1>6. \A g \in Seqs : g - 1 <= seg[g].dur /\ seg[g].dur <= seg[g].last
  BY DEF SpoolInv, FileShape
<1>11. \A g \in Seqs : seg[g].dur \in Nat /\ seg[g].last \in Nat /\ g \in Nat
  BY <1>1 DEF SegFile, Seqs
<1>7. FileShape'
  <2>1. ASSUME NEW f \in Seqs PROVE (FileShape!(f))'
    <3>1. CASE f = active
      <4>1. /\ r.last \in Nat /\ r.dur \in Nat /\ seg[active].last \in Nat
            /\ seg[active].dur \in Nat
        BY <1>1, <1>2 DEF SegFile
      <4>2. f - 1 <= r.dur /\ r.dur <= r.last
        BY <1>2, <1>6, <3>1, <4>1 DEF Seqs
      <4>3. End(f)' <= AppendBound
        BY <1>3, <3>1, <4>1 DEF End
      <4>4. \A s \in Seqs : f <= s /\ s <= r.last => wal'[s] \in Payloads
        BY <1>2, <3>1, <4>1 DEF SpoolInv, FileShape, Seqs
      <4> QED BY <1>3, <3>1, <4>2, <4>3, <4>4 DEF NewFile
    <3>2. CASE f # active
      <4>1. \A s \in Seqs : seg[f].hdr = "ok" /\ f <= s /\ s <= seg[f].last
                              => wal'[s] = wal[s]
        <5>1. seg[f].hdr = "ok" => seg[f].last <= seg[active].last
          BY <1>2, <1>5, <1>6, <1>11, <3>2 DEF Files
        <5> QED BY <1>2, <1>11, <5>1 DEF Seqs
      <4> QED BY <1>3, <1>4, <3>2, <4>1 DEF SpoolInv, FileShape, End, NewFile
    <3> QED BY <3>1, <3>2
  <2> QED BY <2>1 DEF FileShape
<1>8. NoOverlap'
  <2>1. \A f, g \in Files : f < g => f # active /\ f \in Seqs /\ g \in Seqs
    BY <1>2 DEF Files, Seqs
  <2>2. \A f, g \in Files : f < g => seg[f].hdr = "ok" /\ seg[f].last < g
    BY <1>1, <1>2, <1>5, <2>1 DEF SpoolInv, NoOverlap, Files, Seqs, SegFile
  <2> QED BY <1>3, <1>4, <2>1, <2>2 DEF NoOverlap
<1>9. FrontAcknowledged' /\ FreshShape'
  BY <1>4 DEF SpoolInv, FrontAcknowledged, FreshShape
<1>10. ASSUME NEW s \in Seqs, NEW p, Stored(s, p)
       PROVE  /\ s <= seg[active].last /\ wal'[s] = p
              /\ \E f \in Seqs : seg'[f].hdr = "ok" /\ f # fresh' /\ f <= s /\ s <= seg'[f].dur
  <2>1. PICK g \in Seqs : /\ wal[s] = p /\ seg[g].hdr = "ok" /\ g # fresh
                          /\ g <= s /\ s <= seg[g].dur
    BY <1>10 DEF Stored
  <2>2. s <= seg[g].last /\ g \in Files
    <3>1. s \in Nat
      BY DEF Seqs
    <3> QED BY <1>6, <1>11, <2>1, <3>1 DEF Files
  <2>3. s <= seg[active].last
    <3>1. s \in Nat
      BY DEF Seqs
    <3> QED BY <1>2, <1>5, <1>6, <1>11, <2>2, <3>1
  <2>4. wal'[s] = p
    BY <2>1, <2>3
  <2>5. seg'[g].hdr = "ok" /\ s <= seg'[g].dur
    BY <1>1, <1>2, <1>3, <2>1 DEF SegFile, Seqs
  <2> QED BY <2>1, <2>3, <2>4, <2>5
<1> QED BY <1>3, <1>4, <1>7, <1>8, <1>9, <1>10

\* Writing a frame, the fsync that commits it and a failed append with its
\* rollback keep every committed frame.
LEMMA AppendStep ==
  ASSUME SpoolInv, AppendBound < SequenceMax, WriteFrame \/ SyncFrame \/ AppendFails
  PROVE  SpoolInv'
<1> USE SpoolAssumption
<1>1. /\ pc \in {"append", "written"} /\ active \in Seqs /\ IsTail(active)
      /\ seg[active].hdr = "ok" /\ fresh = 0 /\ durable = seg[active].last
      /\ seg[active].last < AppendBound /\ req \in Payloads
  <2>1. pc \in {"append", "written"}
    BY DEF WriteFrame, SyncFrame, AppendFails
  <2>2. IsTail(active) /\ active \in Seqs
    BY <2>1 DEF SpoolInv, WriterShape, IsTail, Files
  <2>3. seg[active].last \in Nat
    BY <2>2 DEF SpoolInv, TypeOK, SegFile
  <2> QED BY <2>1, <2>2, <2>3 DEF SpoolInv, WriterShape, TypeOK
<1>2. /\ seg[active] \in SegFile /\ seg[active].last \in Nat /\ seg[active].dur \in Nat
      /\ seg[active].dur <= seg[active].last
      /\ \A s \in Seqs : active <= s /\ s <= seg[active].last => wal[s] \in Payloads
  BY <1>1 DEF SpoolInv, TypeOK, SegFile, FileShape
<1>3. CASE WriteFrame
  <2> DEFINE r == [seg[active] EXCEPT !.tail = req,
                     !.dirty = seg[active].dirty \cup {req} \cup ({seg[active].tail} \cap Payloads)]
  <2>1. /\ seg' = [seg EXCEPT ![active] = r] /\ pc' = "written" /\ resid' \in BOOLEAN
        /\ UNCHANGED <<wal, fresh, ident, ackFile, active, next, durable, req, sent,
                       reported, collector, crashes, faults>>
    <3>1. seg' = [seg EXCEPT ![active] = r]
      BY <1>3 DEF WriteFrame
    <3>2. resid' \in BOOLEAN
      BY <1>3, Zenon DEF WriteFrame
    <3> QED BY <1>3, <3>1, <3>2, Zenon DEF WriteFrame, hist
  <2>2. /\ r \in SegFile /\ r.hdr = "ok" /\ r.dur = seg[active].dur
        /\ r.last = seg[active].last /\ r.tail = req
    BY <1>1, <1>2 DEF SegFile, Tails
  <2>3. /\ seg' \in [Seqs -> SegFile] /\ seg'[active] = r /\ Files' = Files
        /\ \A g \in Seqs : g # active => seg'[g] = seg[g]
        /\ FileShape' /\ NoOverlap' /\ FrontAcknowledged' /\ FreshShape'
        /\ \A s \in Seqs : \A p : Stored(s, p) =>
             /\ s <= seg[active].last /\ wal'[s] = p
             /\ \E f \in Seqs : seg'[f].hdr = "ok" /\ f # fresh' /\ f <= s /\ s <= seg'[f].dur
    <3>1. \A s \in Seqs : ~(seg[active].last < s /\ s <= r.last)
      BY <1>2, <2>2 DEF Seqs
    <3> HIDE DEF r
    <3>2. /\ seg[active].dur <= r.dur /\ seg[active].last <= r.last /\ r.dur <= r.last
          /\ r.last < AppendBound /\ r.last <= AppendBound
      BY <1>1, <1>2, <2>2
    <3> QED BY <1>1, <1>2, <2>1, <2>2, <3>1, <3>2, ActiveChanges
  <2> HIDE DEF r
  <2>4. TypeOK'
    BY <2>1, <2>3 DEF SpoolInv, TypeOK
  <2>5. BootShape' /\ WriterShape'
    BY <1>1, <1>2, <2>1, <2>2, <2>3 DEF SpoolInv, BootShape, WriterShape, IsTail
  <2>6. AckShape'
    BY <1>1, <2>1 DEF SpoolInv, AckShape, Serving
  <2>7. ReportedDurable'
    BY <2>1, <2>3 DEF SpoolInv, ReportedDurable, Stored
  <2> QED BY <2>3, <2>4, <2>5, <2>6, <2>7 DEF SpoolInv
<1>4. CASE SyncFrame
  <2> DEFINE n == seg[active].last + 1
  <2>1. PICK t \in {"clean", "torn", "corrupt"} :
          seg' = [seg EXCEPT ![active] = [@ EXCEPT !.last = n, !.dur = n, !.tail = t,
                                                   !.dirty = {}]]
    BY <1>4 DEF SyncFrame
  <2> DEFINE r == [seg[active] EXCEPT !.last = n, !.dur = n, !.tail = t, !.dirty = {}]
  <2>2. /\ wal' = [wal EXCEPT ![n] = req] /\ durable' = Max2(durable, n)
        /\ reported' = [reported EXCEPT ![n] = req]
        /\ req' = NoPayload /\ resid' = FALSE /\ pc' = "ready"
        /\ UNCHANGED <<fresh, ident, ackFile, active, next, sent, collector, crashes, faults>>
    BY <1>4 DEF SyncFrame
  <2>3. /\ r \in SegFile /\ r.hdr = "ok" /\ r.dur = n /\ r.last = n /\ r.tail = t
        /\ r.dirty = {} /\ n \in Seqs /\ n <= AppendBound /\ t \notin Payloads
    <3>1. n \in Seqs /\ n <= AppendBound /\ n \in 0..SequenceMax
      BY <1>1, <1>2 DEF Seqs
    <3>2. t \notin Payloads /\ t \in Tails
      BY DEF Tails
    <3> QED BY <1>1, <1>2, <3>1, <3>2 DEF SegFile
  <2>4. /\ wal' \in [Seqs -> Payloads \cup {NoPayload}] /\ wal'[n] = req
        /\ reported' \in [Seqs -> Payloads \cup {NoPayload}] /\ reported'[n] = req
        /\ \A s \in Seqs : s # n => wal'[s] = wal[s] /\ reported'[s] = reported[s]
    BY <1>1, <2>2, <2>3 DEF SpoolInv, TypeOK
  <2>5. durable' = n
    BY <1>1, <1>2, <2>2 DEF Max2
  <2>6. /\ seg' \in [Seqs -> SegFile] /\ seg'[active] = r /\ Files' = Files
        /\ \A g \in Seqs : g # active => seg'[g] = seg[g]
        /\ FileShape' /\ NoOverlap' /\ FrontAcknowledged' /\ FreshShape'
        /\ \A s \in Seqs : \A p : Stored(s, p) =>
             /\ s <= seg[active].last /\ wal'[s] = p
             /\ \E f \in Seqs : seg'[f].hdr = "ok" /\ f # fresh' /\ f <= s /\ s <= seg'[f].dur
    <3>1. /\ \A s \in Seqs : s <= seg[active].last => wal'[s] = wal[s]
          /\ \A s \in Seqs : seg[active].last < s /\ s <= r.last => wal'[s] \in Payloads
      BY <1>1, <1>2, <2>3, <2>4 DEF Seqs
    <3>2. seg' = [seg EXCEPT ![active] = r]
      BY <2>1
    <3>3. seg[active].dur <= r.dur /\ seg[active].last <= r.last /\ r.dur <= r.last
      BY <1>2, <2>3
    <3> HIDE DEF r
    <3> QED BY <1>1, <1>2, <2>2, <2>3, <3>1, <3>2, <3>3, ActiveChanges
  <2> HIDE DEF r
  <2>7. TypeOK'
    <3>1. durable' \in 0..SequenceMax
      BY <2>3, <2>5 DEF Seqs
    <3> QED BY <2>2, <2>4, <2>6, <3>1, Zenon DEF SpoolInv, TypeOK
  <2>8. BootShape' /\ WriterShape'
    BY <1>1, <2>2, <2>3, <2>5, <2>6 DEF SpoolInv, BootShape, WriterShape, IsTail
  <2>9. AckShape'
    <3>1. ackFile <= n /\ sent <= n
      BY <1>1, <1>2 DEF SpoolInv, AckShape, TypeOK
    <3>2. \A s \in Seqs : ackFile < s /\ s <= n => wal'[s] \in Payloads
      BY <1>1, <1>2, <2>3, <2>4 DEF SpoolInv, AckShape, TypeOK, Seqs
    <3> QED BY <2>2, <2>3, <2>5, <3>1, <3>2 DEF SpoolInv, AckShape, Serving
  <2>10. ReportedDurable'
    <3>1. /\ wal'[n] = req
          /\ \E f \in Seqs : seg'[f].hdr = "ok" /\ f # fresh' /\ f <= n /\ n <= seg'[f].dur
      <4>1. active <= n /\ active # fresh'
        BY <1>1, <1>2, <2>2 DEF SpoolInv, FileShape, Seqs
      <4>2. n <= seg'[active].dur /\ seg'[active].hdr = "ok"
        BY <1>2, <2>3, <2>6
      <4> QED BY <1>1, <2>4, <4>1, <4>2
    <3>2. ASSUME NEW s \in Seqs, reported'[s] # NoPayload, ~(s <= ackFile)
          PROVE  Stored(s, reported[s])'
      <4>1. CASE s = n
        BY <2>4, <3>1, <4>1 DEF Stored
      <4>2. CASE s # n
        <5>1. Stored(s, reported[s])
          BY <2>4, <3>2, <4>2 DEF SpoolInv, ReportedDurable
        <5>2. reported'[s] = reported[s]
          BY <2>4, <4>2
        <5> QED BY <2>6, <5>1, <5>2 DEF Stored
      <4> QED BY <4>1, <4>2
    <3> QED BY <2>2, <3>2 DEF ReportedDurable
  <2> QED BY <2>6, <2>7, <2>8, <2>9, <2>10 DEF SpoolInv
<1>5. CASE AppendFails
  <2>1. PICK t \in {"clean", "torn", "corrupt", req} : seg' = [seg EXCEPT ![active].tail = t]
    BY <1>5 DEF AppendFails
  <2> DEFINE r == [seg[active] EXCEPT !.tail = t]
  <2>2. /\ req' = NoPayload /\ resid' = FALSE /\ pc' = "ready" /\ faults' \in 0..MaxFaults
        /\ UNCHANGED <<wal, fresh, ident, ackFile, active, next, durable, sent, reported,
                       collector, crashes>>
    BY <1>5 DEF AppendFails, hist, SpoolInv, TypeOK
  <2>3. /\ r \in SegFile /\ r.hdr = "ok" /\ r.dur = seg[active].dur
        /\ r.last = seg[active].last
    BY <1>1, <1>2 DEF SegFile, Tails
  <2>4. /\ seg' \in [Seqs -> SegFile] /\ seg'[active] = r /\ Files' = Files
        /\ \A g \in Seqs : g # active => seg'[g] = seg[g]
        /\ FileShape' /\ NoOverlap' /\ FrontAcknowledged' /\ FreshShape'
        /\ \A s \in Seqs : \A p : Stored(s, p) =>
             /\ s <= seg[active].last /\ wal'[s] = p
             /\ \E f \in Seqs : seg'[f].hdr = "ok" /\ f # fresh' /\ f <= s /\ s <= seg'[f].dur
    <3>1. \A s \in Seqs : ~(seg[active].last < s /\ s <= r.last)
      BY <1>2, <2>3 DEF Seqs
    <3>2. seg' = [seg EXCEPT ![active] = r]
      BY <2>1
    <3> HIDE DEF r
    <3>3. /\ seg[active].dur <= r.dur /\ seg[active].last <= r.last /\ r.dur <= r.last
          /\ r.last < AppendBound /\ r.last <= AppendBound
      BY <1>1, <1>2, <2>3
    <3> QED BY <1>1, <1>2, <2>2, <2>3, <3>1, <3>2, <3>3, ActiveChanges
  <2> HIDE DEF r
  <2>5. TypeOK'
    BY <2>2, <2>4 DEF SpoolInv, TypeOK
  <2>6. BootShape' /\ WriterShape'
    BY <1>1, <1>2, <2>2, <2>3, <2>4 DEF SpoolInv, BootShape, WriterShape, IsTail
  <2>7. AckShape'
    BY <1>1, <2>2 DEF SpoolInv, AckShape, Serving
  <2>8. ReportedDurable'
    BY <2>2, <2>4 DEF SpoolInv, ReportedDurable, Stored
  <2> QED BY <2>4, <2>5, <2>6, <2>7, <2>8 DEF SpoolInv
<1> QED BY <1>3, <1>4, <1>5

\* Rotation names the new segment one past the last frame.
LEMMA RotateStep ==
  ASSUME SpoolInv, Rotate, AppendBound < SequenceMax
  PROVE  SpoolInv'
<1> USE SpoolAssumption
<1> DEFINE n == seg[active].last + 1
<1>1. /\ pc = "append" /\ active \in Seqs /\ active \in Files
      /\ \A g \in Files : g <= active
      /\ seg[active].hdr = "ok" /\ fresh = 0 /\ durable = seg[active].last
      /\ seg[active].last < AppendBound /\ req # NoPayload /\ seg[active] \in SegFile
      /\ active <= seg[active].last
  BY DEF SpoolInv, WriterShape, TypeOK, IsTail, Files, Rotate, Count, SegFile
<1>2. seg[active].last \in Nat /\ n \in Seqs /\ n <= AppendBound
  BY <1>1 DEF SegFile, Seqs
<1>3. \A f \in Files : f < n /\ seg[f].last < n /\ seg[f].hdr = "ok"
  <2>1. \A f \in Files : f # active => f < active /\ seg[f].last < active /\ seg[f].hdr = "ok"
    BY <1>1 DEF SpoolInv, NoOverlap, Files, Seqs
  <2>2. \A f \in Files : f \in Nat /\ seg[f].last \in Nat
    BY DEF Files, Seqs, SpoolInv, TypeOK, SegFile
  <2> QED BY <1>1, <1>2, <2>1, <2>2
<1>4. n \notin Files
  BY <1>2, <1>3
<1>5. /\ seg' = [seg EXCEPT ![n] = NewFile(n, "short")] /\ fresh' = n /\ pc' = "creating"
      /\ UNCHANGED <<wal, ident, ackFile, active, next, durable, req, resid, sent,
                     reported, collector, crashes, faults>>
  BY <1>4 DEF Rotate, OpenNewFile, hist
<1>6. /\ seg' \in [Seqs -> SegFile] /\ FileShape' /\ NoOverlap'
      /\ FrontAcknowledged' /\ FreshShape' /\ ReportedDurable'
  <2>1. n <= AppendBound + 1 /\ Files # {}
    BY <1>1, <1>2
  <2> HIDE DEF n
  <2> QED BY <1>1, <1>2, <1>3, <1>4, <1>5, <2>1, NewTail
<1>7. TypeOK'
  BY <1>2, <1>5, <1>6 DEF SpoolInv, TypeOK, Seqs
<1>8. BootShape' /\ WriterShape'
  BY <1>1, <1>2, <1>5 DEF BootShape, WriterShape, Seqs
<1>9. AckShape'
  BY <1>1, <1>5 DEF SpoolInv, AckShape, Serving
<1> QED BY <1>6, <1>7, <1>8, <1>9 DEF SpoolInv

----------------------------------------------------------------------------
(* Delivery, acknowledgement, compaction *)

\* A batch binds only sequences that have a payload; its acknowledgement
\* moves to a sequence the Collector has bound.
LEMMA DeliverStep ==
  ASSUME SpoolInv, AppendBound < SequenceMax,
         Acknowledge \/ \E n \in Seqs : Deliver(n)
  PROVE  SpoolInv' /\ ackFile' >= ackFile
<1> USE SpoolAssumption
<1>1. CASE Acknowledge
  <2>1. /\ Serving /\ sent > ackFile /\ ackFile' = sent /\ sent' = 0
        /\ UNCHANGED <<seg, wal, fresh, ident, pc, active, next, durable, req, resid,
                       reported, collector, crashes, faults>>
    BY <1>1 DEF Acknowledge, hist
  <2>2. /\ sent \in 0..SequenceMax /\ ackFile \in 0..SequenceMax /\ Files' = Files
        /\ durable \in 0..SequenceMax /\ sent <= durable /\ durable <= AppendBound
        /\ \A f \in Files : f \in Nat
    BY <2>1 DEF SpoolInv, TypeOK, Files, AckShape, Seqs
  <2>3. TypeOK'
    <3>1. ackFile' \in 0..SequenceMax /\ sent' \in 0..SequenceMax
      BY <2>1, <2>2
    <3> QED BY <2>1, <3>1, Zenon DEF SpoolInv, TypeOK
  <2>4. FileShape'
    BY <2>1, <2>2 DEF SpoolInv, FileShape, End, NewFile
  <2>5. NoOverlap' /\ WriterShape'
    BY <2>1, <2>2 DEF SpoolInv, NoOverlap, WriterShape, IsTail
  <2>6. FrontAcknowledged'
    BY <2>1, <2>2 DEF SpoolInv, FrontAcknowledged
  <2>7. FreshShape'
    BY <2>1, <2>2 DEF SpoolInv, FreshShape, IsTail, NewFile
  <2>8. BootShape'
    BY <2>1 DEF BootShape, Serving
  <2>9. AckShape'
    <3>1. pc \notin {"down", "refused"}
      BY <2>1 DEF Serving
    <3>2. \A s \in Seqs : s \in Nat
      BY DEF Seqs
    <3>3. \A s \in Seqs : s <= sent => s <= ackFile \/ s <= sent
      OBVIOUS
    <3>4. \A s \in Seqs : s <= ackFile' \/ s <= sent' => collector'[s] # NoPayload
      <4>1. \A s \in Seqs : ~(s <= 0)
        BY DEF Seqs
      <4> QED BY <2>1, <4>1 DEF SpoolInv, AckShape
    <3>5. \A s \in Seqs : ackFile' < s /\ s <= durable' => wal'[s] \in Payloads
      BY <2>1, <2>2, <3>1, <3>2 DEF SpoolInv, AckShape
    <3> QED BY <2>1, <2>2, <3>4, <3>5 DEF AckShape, Serving
  <2>10. ReportedDurable'
    <3>1. \A s \in Seqs : s <= ackFile => s <= ackFile'
      BY <2>1, <2>2 DEF Seqs
    <3> QED BY <2>1, <3>1 DEF SpoolInv, ReportedDurable, Stored
  <2> QED BY <2>1, <2>2, <2>3, <2>4, <2>5, <2>6, <2>7, <2>8, <2>9, <2>10 DEF SpoolInv
<1>2. CASE \E n \in Seqs : Deliver(n)
  <2>1. PICK n \in Seqs : Deliver(n)
    BY <1>2
  <2>2. /\ Serving /\ n \in ackFile + 1..durable /\ sent' = n
        /\ collector' = [s \in Seqs |-> IF s \in ackFile + 1..n THEN wal[s]
                                                               ELSE collector[s]]
        /\ UNCHANGED <<seg, wal, fresh, ident, ackFile, pc, active, next, durable, req,
                       resid, reported, crashes, faults>>
    BY <2>1 DEF Deliver, disk
  <2>3. /\ Files' = Files /\ FileShape' /\ NoOverlap' /\ FrontAcknowledged'
        /\ FreshShape' /\ ReportedDurable'
    BY <2>2, SegmentsUnchanged
  <2>4. TypeOK'
    BY <2>2 DEF SpoolInv, TypeOK, Seqs
  <2>5. BootShape' /\ WriterShape'
    BY <2>2, <2>3 DEF SpoolInv, BootShape, WriterShape, Serving, IsTail
  <2>6. AckShape'
    <3>1. pc \notin {"down", "refused"} /\ ackFile \in Nat /\ durable \in Nat /\ n \in Nat
      BY <2>2 DEF Serving, SpoolInv, TypeOK, Seqs
    <3>2. \A s \in Seqs : s \in ackFile + 1..n => wal[s] # NoPayload
      BY <2>2, <3>1 DEF SpoolInv, AckShape, Seqs
    <3>3. \A s \in Seqs : s <= ackFile \/ s <= n => collector'[s] # NoPayload
      BY <2>2, <3>1, <3>2 DEF SpoolInv, AckShape, Seqs
    <3>4. sent' <= durable'
      BY <2>2, <3>1
    <3> QED BY <2>2, <3>3, <3>4 DEF SpoolInv, AckShape, Serving
  <2> QED BY <2>2, <2>3, <2>4, <2>5, <2>6 DEF SpoolInv, TypeOK
<1> QED BY <1>1, <1>2

\* Only an acknowledged segment is removed.
LEMMA CompactStep ==
  ASSUME SpoolInv, AppendBound < SequenceMax, NEW f \in Seqs, Compact(f)
  PROVE  SpoolInv'
<1> USE SpoolAssumption
<1>1. /\ Serving /\ f \in Files /\ \A g \in Files : f <= g
      /\ seg' = [seg EXCEPT ![f] = NewFile(f, "absent")]
      /\ UNCHANGED <<wal, fresh, ident, ackFile, pc, active, next, durable, req, resid, sent,
                     reported, collector, crashes, faults>>
  BY DEF Compact, hist
<1>2. PICK n \in Files : /\ f < n /\ n - 1 <= ackFile
                         /\ \A h \in Files : h <= f \/ n <= h
  BY DEF Compact, Follows
<1>3. seg \in [Seqs -> SegFile] /\ \A g \in Seqs : seg[g] \in SegFile
  BY DEF SpoolInv, TypeOK
<1>4. NewFile(f, "absent") \in SegFile
  BY DEF NewFile, SegFile, Tails, Seqs
<1>5. /\ seg' \in [Seqs -> SegFile] /\ seg'[f] = NewFile(f, "absent")
      /\ \A g \in Seqs : g # f => seg'[g] = seg[g]
  BY <1>1, <1>3, <1>4
<1>6. Files' = Files \ {f}
  BY <1>5 DEF Files, NewFile
<1>7. pc \notin {"down", "refused", "recovered", "bound", "reclaimed"}
  BY <1>1 DEF Serving
<1>8. /\ seg[f].last < n /\ seg[f].last \in Nat /\ n \in Nat /\ f \in Nat /\ ackFile \in Nat
      /\ \A g \in Files : g \in Nat
  BY <1>1, <1>2, <1>3, <1>7 DEF SpoolInv, NoOverlap, Files, Seqs, SegFile, TypeOK
<1>9. TypeOK'
  BY <1>1, <1>5 DEF SpoolInv, TypeOK
<1>10. FileShape'
  <2>1. ASSUME NEW g \in Seqs PROVE (FileShape!(g))'
    <3>1. CASE g = f
      BY <1>5, <1>6, <3>1 DEF NewFile, Seqs
    <3>2. CASE g # f
      BY <1>1, <1>5, <1>6, <3>2 DEF SpoolInv, FileShape, End, NewFile
    <3> QED BY <3>1, <3>2
  <2> QED BY <2>1 DEF FileShape
<1>11. NoOverlap'
  BY <1>1, <1>5, <1>6 DEF SpoolInv, NoOverlap, Files
<1>12. FrontAcknowledged'
  BY <1>1, <1>2, <1>6, <1>8 DEF FrontAcknowledged
<1>13. FreshShape'
  <2>1. fresh # 0 => /\ fresh \in Files /\ \A g \in Files : g <= fresh
                     /\ seg[fresh] = NewFile(fresh, seg[fresh].hdr)
    BY DEF SpoolInv, FreshShape, IsTail
  <2>2. fresh # 0 => fresh # f /\ fresh \in Seqs
    BY <1>2, <1>8, <2>1 DEF Files
  <2> QED BY <1>1, <1>5, <1>6, <2>1, <2>2 DEF FreshShape, IsTail, NewFile
<1>14. BootShape'
  BY <1>1, <1>7 DEF BootShape
<1>15. WriterShape'
  <2>1. IsTail(active) => IsTail(active)' /\ active # f /\ seg'[active] = seg[active]
    BY <1>1, <1>2, <1>5, <1>6, <1>8 DEF IsTail, Files
  <2>2. fresh # 0 => fresh # f /\ seg'[fresh] = seg[fresh]
    BY <1>1, <1>2, <1>5, <1>6, <1>8 DEF SpoolInv, FreshShape, IsTail, Files
  <2> QED BY <1>1, <2>1, <2>2 DEF SpoolInv, WriterShape
<1>16. AckShape'
  BY <1>1 DEF SpoolInv, AckShape, Serving
<1>17. ReportedDurable'
  <2>1. SUFFICES ASSUME NEW s \in Seqs, reported[s] # NoPayload, ~(s <= ackFile)
                 PROVE  Stored(s, reported[s])'
    BY <1>1 DEF ReportedDurable
  <2>2. PICK g \in Seqs : /\ wal[s] = reported[s] /\ seg[g].hdr = "ok" /\ g # fresh
                          /\ g <= s /\ s <= seg[g].dur
    BY <2>1 DEF SpoolInv, ReportedDurable, Stored
  <2>3. g # f
    <3>1. seg[f].dur <= seg[f].last /\ seg[f].dur \in Nat /\ s \in Nat
      BY <1>3 DEF SpoolInv, FileShape, SegFile, Seqs
    <3> QED BY <1>2, <1>8, <2>1, <2>2, <3>1
  <2> QED BY <1>1, <1>5, <2>2, <2>3 DEF Stored
<1> QED BY <1>9, <1>10, <1>11, <1>12, <1>13, <1>14, <1>15, <1>16, <1>17 DEF SpoolInv

----------------------------------------------------------------------------
(* The page cache and power loss *)

\* The kernel's write-back only adds durable frames.
LEMMA WritebackStep ==
  ASSUME SpoolInv, AppendBound < SequenceMax, NEW f \in Seqs, Writeback(f)
  PROVE  SpoolInv'
<1> USE SpoolAssumption
<1>1. /\ UNCHANGED <<wal, fresh, ident, ackFile, pc, active, next, durable, req, resid, sent,
                     reported, collector, crashes, faults>>
  BY DEF Writeback, hist
<1>2. PICK k \in seg[f].dur + 1..seg[f].last : seg' = [seg EXCEPT ![f].dur = k]
  BY DEF Writeback
<1>3. seg \in [Seqs -> SegFile] /\ \A g \in Seqs : seg[g] \in SegFile
  BY DEF SpoolInv, TypeOK
<1>4. seg[f].dur \in Nat /\ seg[f].last \in 0..SequenceMax /\ k \in 0..SequenceMax
  BY <1>2, <1>3 DEF SegFile
<1>5. /\ seg' \in [Seqs -> SegFile]
      /\ \A g \in Seqs : g # f => seg'[g] = seg[g]
      /\ seg'[f] = [seg[f] EXCEPT !.dur = k]
  <2>1. [seg[f] EXCEPT !.dur = k] \in SegFile
    BY <1>3, <1>4 DEF SegFile
  <2> QED BY <1>2, <1>3, <2>1
<1>6. /\ \A g \in Seqs : /\ seg'[g].hdr = seg[g].hdr /\ seg'[g].last = seg[g].last
                         /\ seg'[g].tail = seg[g].tail /\ seg'[g].dirty = seg[g].dirty
      /\ seg'[f].dur = k
  BY <1>3, <1>5 DEF SegFile
<1>7. Files' = Files /\ \A g \in Seqs : End(g)' = End(g)
  BY <1>6 DEF Files, End
<1>8. seg[f].hdr = "ok"
  <2>1. seg[f].dur < seg[f].last
    BY <1>2, <1>4
  <2>2. seg[f] = NewFile(f, seg[f].hdr) => seg[f].dur = seg[f].last
    BY DEF NewFile
  <2> QED BY <1>4, <2>1, <2>2 DEF SpoolInv, FileShape
<1>9. TypeOK'
  BY <1>1, <1>5 DEF SpoolInv, TypeOK
<1>10. FileShape'
  <2>1. ASSUME NEW g \in Seqs PROVE (FileShape!(g))'
    <3>1. CASE g = f
      <4>1. g - 1 <= k /\ k <= seg[f].last
        BY <1>2, <1>4, <3>1 DEF SpoolInv, FileShape, Seqs
      <4> QED BY <1>1, <1>6, <1>7, <1>8, <3>1, <4>1 DEF SpoolInv, FileShape
    <3>2. CASE g # f
      BY <1>1, <1>5, <1>7, <3>2 DEF SpoolInv, FileShape, NewFile
    <3> QED BY <3>1, <3>2
  <2> QED BY <2>1 DEF FileShape
<1>11. NoOverlap' /\ FrontAcknowledged'
  BY <1>1, <1>6, <1>7 DEF SpoolInv, NoOverlap, FrontAcknowledged, Files
<1>12. FreshShape'
  <2>1. fresh # 0 => /\ IsTail(fresh) /\ fresh \in Seqs
                     /\ seg[fresh] = NewFile(fresh, seg[fresh].hdr)
    BY DEF SpoolInv, FreshShape, IsTail, Files
  <2>2. fresh # 0 => seg[fresh].dur = seg[fresh].last
    BY <2>1 DEF NewFile
  <2>3. fresh # 0 => fresh # f
    BY <1>2, <1>4, <2>1, <2>2
  <2> QED BY <1>1, <1>5, <1>7, <2>1, <2>3 DEF FreshShape, IsTail, NewFile
<1>13. BootShape'
  BY <1>1, <1>6, <1>7 DEF SpoolInv, BootShape, EmptyTrailing, IsTail, Files
<1>14. WriterShape'
  <2>1. IsTail(active) => IsTail(active)' /\ active \in Seqs
    BY <1>1, <1>7 DEF IsTail, Files
  <2>2. fresh # 0 => fresh \in Seqs
    BY DEF SpoolInv, FreshShape, IsTail, Files
  <2> QED BY <1>1, <1>6, <2>1, <2>2 DEF SpoolInv, WriterShape
<1>15. AckShape'
  BY <1>1 DEF SpoolInv, AckShape, Serving
<1>16. ReportedDurable'
  <2>1. SUFFICES ASSUME NEW s \in Seqs, reported[s] # NoPayload, ~(s <= ackFile)
                 PROVE  Stored(s, reported[s])'
    BY <1>1 DEF ReportedDurable
  <2>2. PICK g \in Seqs : /\ wal[s] = reported[s] /\ seg[g].hdr = "ok" /\ g # fresh
                          /\ g <= s /\ s <= seg[g].dur
    BY <2>1 DEF SpoolInv, ReportedDurable, Stored
  <2>3. s <= seg'[g].dur
    BY <1>2, <1>4, <1>5, <1>6, <2>2 DEF Seqs
  <2> QED BY <1>1, <1>6, <2>2, <2>3 DEF Stored
<1> QED BY <1>9, <1>10, <1>11, <1>12, <1>13, <1>14, <1>15, <1>16 DEF SpoolInv

\* A power loss cuts every file back to what was fsynced or written back.
LEMMA PowerLossStep ==
  ASSUME SpoolInv, AppendBound < SequenceMax, PowerLoss
  PROVE  SpoolInv'
<1> USE SpoolAssumption
<1>1. PICK t \in [Files -> Tails], h \in FreshImages :
        /\ \A f \in Files : t[f] \in TailImages(f)
        /\ seg' = [f \in Seqs |->
                     CASE f = fresh     -> NewFile(f, h)
                       [] f \notin Files -> seg[f]
                       [] OTHER -> [seg[f] EXCEPT !.last = seg[f].dur, !.tail = t[f],
                                                  !.dirty = {}]]
  BY DEF PowerLoss
<1>2. /\ pc' = "down" /\ active' = 0 /\ next' = 0 /\ durable' = 0
      /\ req' = NoPayload /\ resid' = FALSE /\ sent' = 0 /\ fresh' = 0
      /\ UNCHANGED <<wal, ident, ackFile, reported, collector, faults>>
  BY DEF PowerLoss, ProcessEnds, hist
<1>19. \A f \in Files : t[f] \in TailImages(f)
  BY <1>1
<1>3. seg \in [Seqs -> SegFile] /\ \A g \in Seqs : seg[g] \in SegFile
  BY DEF SpoolInv, TypeOK
<1>4. \A g \in Seqs : /\ seg[g].dur \in 0..SequenceMax /\ seg[g].last \in 0..SequenceMax
                      /\ g \in Nat /\ g - 1 <= seg[g].dur /\ seg[g].dur <= seg[g].last
  BY <1>3 DEF SegFile, SpoolInv, FileShape, Seqs
<1>5. fresh # 0 => /\ fresh \in Seqs /\ fresh \in Files /\ \A g \in Files : g <= fresh
                   /\ seg[fresh] = NewFile(fresh, seg[fresh].hdr)
  BY DEF SpoolInv, FreshShape, IsTail, Files
<1>6. h \in {"absent", "short", "long", "ok"} /\ (h = "ok" => fresh # 0 /\ seg[fresh].hdr = "ok")
  BY DEF FreshImages
<1>7. ASSUME NEW f \in Seqs, f = fresh
      PROVE  /\ seg'[f] = NewFile(f, h) /\ seg'[f] \in SegFile /\ seg'[f].last = f - 1
             /\ seg'[f].dur = f - 1 /\ seg'[f].hdr = h /\ seg'[f].tail = "clean"
             /\ seg'[f].dirty = {}
  <2>1. seg'[f] = NewFile(f, h)
    <3>1. f \in Files
      BY <1>5, <1>7 DEF Seqs
    <3> QED BY <1>1, <1>7, <3>1
  <2> QED BY <1>6, <2>1 DEF NewFile, SegFile, Tails, Seqs
<1>8. ASSUME NEW f \in Seqs, f # fresh, f \notin Files
      PROVE  seg'[f] = seg[f]
  BY <1>1, <1>8
<1>9. ASSUME NEW f \in Files, f # fresh
      PROVE  /\ seg'[f] \in SegFile /\ seg'[f].hdr = seg[f].hdr /\ seg'[f].last = seg[f].dur
             /\ seg'[f].dur = seg[f].dur /\ seg'[f].tail = t[f] /\ seg'[f].dirty = {}
  <2>1. f \in Seqs /\ t[f] \in Tails
    BY DEF Files
  <2>2. seg'[f] = [seg[f] EXCEPT !.last = seg[f].dur, !.tail = t[f], !.dirty = {}]
    BY <1>1, <1>9, <2>1
  <2> QED BY <1>3, <1>4, <2>1, <2>2 DEF SegFile
<1>10. seg' \in [Seqs -> SegFile]
  <2>1. \A f \in Seqs : seg'[f] \in SegFile
    BY <1>3, <1>7, <1>8, <1>9
  <2> DEFINE Left(f) == CASE f = fresh     -> NewFile(f, h)
                          [] f \notin Files -> seg[f]
                          [] OTHER -> [seg[f] EXCEPT !.last = seg[f].dur, !.tail = t[f],
                                                     !.dirty = {}]
  <2>2. seg' = [f \in Seqs |-> Left(f)]
    BY <1>1
  <2> HIDE DEF Left
  <2> QED BY <2>1, <2>2
<1>11. /\ Files' \subseteq Files /\ \A f \in Files : f # fresh => f \in Files'
  <2>1. ASSUME NEW f \in Seqs, f \notin Files PROVE f \notin Files'
    <3>1. f # fresh
      BY <1>5, <2>1 DEF Seqs
    <3>2. seg'[f] = seg[f]
      BY <1>8, <2>1, <3>1
    <3> QED BY <2>1, <3>2 DEF Files
  <2>2. ASSUME NEW f \in Files, f # fresh PROVE f \in Files'
    BY <1>9, <2>2 DEF Files
  <2>3. \A f \in Files' : f \in Seqs
    BY DEF Files
  <2> QED BY <2>1, <2>2, <2>3
<1>12. TypeOK'
  <2>1. crashes' \in 0..MaxCrashes /\ 0 \in 0..SequenceMax
    <3>1. crashes < MaxCrashes /\ crashes' = crashes + 1
      BY Zenon DEF PowerLoss
    <3>2. crashes \in 0..MaxCrashes
      BY DEF SpoolInv, TypeOK
    <3> QED BY <3>1, <3>2
  <2>2. ackFile' \in 0..SequenceMax /\ faults' \in 0..MaxFaults
    BY <1>2 DEF SpoolInv, TypeOK
  <2> QED BY <1>2, <1>10, <2>1, <2>2, Zenon DEF SpoolInv, TypeOK
<1>13. FileShape'
  <2>1. ASSUME NEW f \in Seqs PROVE (FileShape!(f))'
    <3>1. CASE f = fresh
      <4>1. f - 1 <= AppendBound /\ "clean" \notin Payloads
        <5>1. fresh # 0 /\ End(f) <= AppendBound /\ seg[f].tail = "clean"
              /\ seg[f].last = f - 1
          BY <1>5, <3>1 DEF SpoolInv, FileShape, NewFile, Seqs
        <5> QED BY <5>1 DEF End
      <4>2. NewFile(f, h) = NewFile(f, NewFile(f, h).hdr)
        BY DEF NewFile
      <4> QED BY <1>2, <1>4, <1>7, <3>1, <4>1, <4>2 DEF End, Seqs
    <3>2. CASE f # fresh /\ f \notin Files
      <4>1. f \notin Files'
        BY <1>11, <3>2
      <4> QED BY <1>2, <1>8, <3>2, <4>1 DEF SpoolInv, FileShape, NewFile
    <3>3. CASE f # fresh /\ f \in Files
      <4>1. End(f)' <= AppendBound
        <5>1. End(f) <= AppendBound /\ (seg[f].dirty # {} => seg[f].last < AppendBound)
          BY <3>3 DEF SpoolInv, FileShape
        <5>2. seg[f].last <= AppendBound
          BY <1>4, <5>1 DEF End
        <5>3. CASE seg[f].dur < seg[f].last
          <6>1. t[f] \in {"clean", "torn", "corrupt"}
            BY <1>4, <1>19, <3>3, <5>3 DEF TailImages
          <6>2. t[f] \notin Payloads
            BY <6>1
          <6> QED BY <1>4, <1>9, <3>3, <5>2, <5>3, <6>2 DEF End
        <5>4. CASE seg[f].dur = seg[f].last /\ seg[f].dirty = {}
          <6>1. t[f] = seg[f].tail
            BY <1>4, <1>19, <3>3, <5>4 DEF TailImages
          <6> QED BY <1>9, <3>3, <5>1, <5>4, <6>1 DEF End
        <5>5. CASE seg[f].dur = seg[f].last /\ seg[f].dirty # {}
          BY <1>4, <1>9, <3>3, <5>1, <5>5 DEF End
        <5> QED BY <1>4, <5>3, <5>4, <5>5
      <4>2. seg[f].hdr # "ok" => seg'[f] = NewFile(f, seg[f].hdr)
        <5>1. SUFFICES ASSUME seg[f].hdr # "ok" PROVE seg'[f] = NewFile(f, seg[f].hdr)
          OBVIOUS
        <5>2. seg[f] = NewFile(f, seg[f].hdr)
          BY <5>1 DEF SpoolInv, FileShape
        <5>3. /\ seg[f].dur = f - 1 /\ seg[f].last = f - 1 /\ seg[f].tail = "clean"
              /\ seg[f].dirty = {}
          BY <5>2 DEF NewFile
        <5>4. t[f] = "clean"
          BY <1>4, <1>19, <3>3, <5>3 DEF TailImages
        <5>5. seg'[f] = [seg[f] EXCEPT !.last = seg[f].dur, !.tail = t[f], !.dirty = {}]
          BY <1>1, <3>3
        <5> QED BY <5>2, <5>3, <5>4, <5>5 DEF NewFile
      <4>3. \A s \in Seqs : seg[f].hdr = "ok" /\ f <= s /\ s <= seg[f].dur
                              => wal[s] \in Payloads
        BY <1>4 DEF SpoolInv, FileShape, Seqs
      <4> QED BY <1>2, <1>4, <1>9, <3>3, <4>1, <4>2, <4>3
    <3> QED BY <3>1, <3>2, <3>3
  <2> QED BY <2>1 DEF FileShape
<1>14. NoOverlap'
  <2>1. SUFFICES ASSUME NEW f \in Files', NEW g \in Files', f < g
                 PROVE  seg'[f].hdr = "ok" /\ (seg'[f].last < g \/ seg'[g].hdr # "ok")
    BY <1>2 DEF NoOverlap
  <2>2. f \in Files /\ g \in Files /\ f \in Seqs /\ g \in Seqs
    BY <1>11, <2>1 DEF Files
  <2>3. f # fresh
    BY <1>4, <1>5, <2>1, <2>2 DEF Seqs
  <2>4. seg[f].hdr = "ok" /\ (seg[f].last < g \/ seg[g].hdr # "ok")
    BY <2>1, <2>2 DEF SpoolInv, NoOverlap
  <2>5. seg[f].last < g => seg'[f].last < g
    BY <1>4, <1>9, <2>2, <2>3
  <2>6. seg[g].hdr # "ok" => seg'[g].hdr # "ok"
    BY <1>6, <1>7, <1>9, <2>2
  <2> QED BY <1>9, <2>2, <2>3, <2>4, <2>5, <2>6
<1>15. FrontAcknowledged'
  <2>1. SUFFICES ASSUME NEW f \in Files', \A g \in Files' : f <= g
                 PROVE  f <= ackFile + 1
    BY <1>2 DEF FrontAcknowledged
  <2>2. f \in Files /\ \A g \in Files : f <= g
    <3>1. f \in Files /\ f \in Seqs
      BY <1>11, <2>1 DEF Files
    <3>2. \A g \in Files : g # fresh => f <= g
      BY <1>11, <2>1
    <3>3. fresh # 0 => f <= fresh
      BY <1>5, <3>1
    <3>4. \A g \in Files : g # 0
      BY DEF Files, Seqs
    <3> QED BY <3>1, <3>2, <3>3, <3>4
  <2> QED BY <2>2 DEF SpoolInv, FrontAcknowledged
<1>16. FreshShape' /\ BootShape' /\ WriterShape'
  BY <1>2 DEF FreshShape, BootShape, WriterShape
<1>17. AckShape'
  BY <1>2 DEF SpoolInv, AckShape, Serving, Seqs, TypeOK
<1>18. ReportedDurable'
  <2>1. SUFFICES ASSUME NEW s \in Seqs, reported[s] # NoPayload, ~(s <= ackFile)
                 PROVE  Stored(s, reported[s])'
    BY <1>2 DEF ReportedDurable
  <2>2. PICK g \in Seqs : /\ wal[s] = reported[s] /\ seg[g].hdr = "ok" /\ g # fresh
                          /\ g <= s /\ s <= seg[g].dur
    BY <2>1 DEF SpoolInv, ReportedDurable, Stored
  <2>3. g \in Files /\ g # fresh'
    BY <1>2, <2>2 DEF Files, Seqs
  <2> QED BY <1>2, <1>9, <2>2, <2>3 DEF Stored
<1> QED BY <1>12, <1>13, <1>14, <1>15, <1>16, <1>17, <1>18 DEF SpoolInv

----------------------------------------------------------------------------
(* Recovery *)

\* What the types say about a segment file, unfolded.
LEMMA FileFacts ==
  ASSUME SpoolInv, NEW f \in Seqs
  PROVE  /\ f \in Nat /\ f >= 1 /\ seg[f].last \in Nat /\ seg[f].dur \in Nat
         /\ f - 1 <= seg[f].dur /\ seg[f].dur <= seg[f].last
         /\ End(f) \in Nat /\ seg[f].last <= End(f)
         /\ f \in Files => End(f) <= AppendBound
         /\ seg[f].tail \in Payloads => seg[f].hdr = "ok"
<1>1. /\ f \in Nat /\ f >= 1 /\ seg[f].last \in Nat /\ seg[f].dur \in Nat
      /\ f - 1 <= seg[f].dur /\ seg[f].dur <= seg[f].last
      /\ End(f) \in Nat /\ seg[f].last <= End(f)
      /\ f \in Files => End(f) <= AppendBound
  BY SpoolAssumption DEF SpoolInv, TypeOK, FileShape, SegFile, Seqs, End
<1>2. seg[f].hdr # "ok" => seg[f].tail = "clean"
  <2>1. seg[f].hdr # "ok" => seg[f] = NewFile(f, seg[f].hdr)
    BY DEF SpoolInv, FileShape
  <2>2. NewFile(f, seg[f].hdr).tail = "clean"
    BY DEF NewFile
  <2> QED BY <2>1, <2>2
<1>3. "clean" \notin Payloads
  BY SpoolAssumption
<1> QED BY <1>1, <1>2, <1>3

\* After a walk without corruption no segment reaches into a later one.
LEMMA WalkSeparates ==
  ASSUME SpoolInv, WalkOK, NEW f \in Files, NEW g \in Files, f < g, seg[g].hdr = "ok"
  PROVE  End(f) < g
<1> USE SpoolAssumption
<1>1. \A x \in Files : x \in Nat /\ x \in Seqs
  BY DEF Files, Seqs
<1> DEFINE S == {x \in Files : f < x}
<1>2. PICK n \in S : \A x \in S : n <= x
  <2>1. S \subseteq Nat /\ g \in S
    BY <1>1
  <2> QED BY <2>1, LeastExists
<1>3. n <= g /\ n \in Files /\ f < n
  BY <1>2
<1>4. Follows(f, n)
  BY <1>1, <1>2 DEF Follows
<1>5. seg[n].hdr = "ok"
  <2>1. n # g => ~IsTail(n)
    BY <1>1, <1>3 DEF IsTail
  <2> QED BY <1>3, <2>1 DEF WalkOK
<1>6. n = End(f) + 1
  BY <1>3, <1>4, <1>5 DEF WalkOK
<1> QED BY <1>1, <1>3, <1>6, FileFacts

\* Every segment with a header ends at or below the highest frame or the
\* acknowledgement, and starts at most one above.
LEMMA WalkBelowNext ==
  ASSUME SpoolInv, WalkOK, AppendBound < SequenceMax, NEW h \in Nat, IsHighest(h),
         NEW f \in Files, seg[f].hdr = "ok"
  PROVE  End(f) <= Max2(h, ackFile) /\ f <= Max2(h, ackFile) + 1
<1> USE SpoolAssumption
<1>1. \A x \in Files : x \in Nat /\ x \in Seqs
  BY DEF Files, Seqs
<1>2. ackFile \in Nat /\ Max2(h, ackFile) \in Nat /\ h <= Max2(h, ackFile) /\ ackFile <= Max2(h, ackFile)
  BY DEF Max2, SpoolInv, TypeOK
<1>3. \A x \in Files, s \in Nat : seg[x].hdr = "ok" /\ x <= s /\ s <= End(x) => s <= h
  <2>1. ASSUME NEW x \in Files, NEW s \in Nat, seg[x].hdr = "ok", x <= s, s <= End(x)
        PROVE  s <= h
    <3>1. s \in Seqs
      BY <1>1, <2>1, FileFacts DEF Seqs
    <3> QED BY <2>1, <3>1 DEF IsHighest, HasFrame
  <2> QED BY <2>1
<1>4. /\ End(f) \in Nat /\ f - 1 <= End(f) /\ f \in Nat /\ f >= 1
  BY <1>1, FileFacts
<1>5. CASE f <= End(f)
  <2>1. End(f) <= h
    BY <1>3, <1>4, <1>5
  <2> QED BY <1>2, <1>4, <1>5, <2>1
<1>6. CASE ~(f <= End(f))
  <2>1. End(f) = f - 1
    BY <1>4, <1>6
  <2>2. CASE \A x \in Files : f <= x
    <3>1. f <= ackFile + 1
      BY <2>2 DEF SpoolInv, FrontAcknowledged
    <3> QED BY <1>2, <1>4, <2>1, <3>1
  <2>3. CASE ~\A x \in Files : f <= x
    <3> DEFINE S == {x \in Files : x < f}
    <3>1. PICK e \in S : \A x \in S : x <= e
      <4>1. S \subseteq 0..SequenceMax /\ S # {}
        BY <1>1, <1>4, <2>3 DEF Files, Seqs
      <4> QED BY <4>1, GreatestExists
    <3>2. e \in Files /\ e < f /\ Follows(e, f)
      <4>1. e \in Files /\ e < f
        BY <3>1
      <4>2. \A x \in Files : x <= e \/ f <= x
        <5>1. \A x \in Files : x < f => x <= e
          BY <3>1
        <5> QED BY <1>1, <1>4, <5>1
      <4> QED BY <4>1, <4>2 DEF Follows
    <3>3. f = End(e) + 1
      BY <3>2 DEF WalkOK
    <3>4. seg[e].hdr = "ok"
      <4>1. ~IsTail(e)
        BY <1>1, <3>2 DEF IsTail
      <4> QED BY <3>2, <4>1 DEF WalkOK
    <3>5. End(e) \in Nat
      BY <1>1, <3>2, FileFacts
    <3>6. End(e) <= h
      BY <1>1, <1>3, <1>4, <3>2, <3>3, <3>4, <3>5
    <3> QED BY <1>2, <1>4, <2>1, <3>3, <3>5, <3>6
  <2> QED BY <2>2, <2>3
<1> QED BY <1>5, <1>6

\* The walk leaves no gap: every sequence above the acknowledgement and up to
\* the highest frame is a frame of some segment.
LEMMA WalkComplete ==
  ASSUME SpoolInv, WalkOK, NEW h \in Nat, IsHighest(h), NEW s \in Seqs, ackFile < s, s <= h
  PROVE  \E f \in Files : HasFrame(f, s)
<1> USE SpoolAssumption
<1>1. \A x \in Files : x \in Nat /\ x \in Seqs /\ End(x) \in Nat
  BY FileFacts DEF Files, Seqs
<1>2. s \in Nat /\ s >= 1 /\ ackFile \in Nat
  BY DEF Seqs, SpoolInv, TypeOK
<1>3. PICK k \in Files : seg[k].hdr = "ok" /\ k <= h /\ h <= End(k)
  BY <1>2 DEF IsHighest, HasFrame
<1>4. CASE k <= s
  BY <1>1, <1>2, <1>3, <1>4 DEF HasFrame
<1>5. CASE ~(k <= s)
  <2> DEFINE S == {x \in Files : x <= s}
  <2>1. S # {}
    <3>1. PICK m \in Files : \A x \in Files : m <= x
      BY <1>1, <1>3, LeastExists
    <3>2. m <= ackFile + 1
      BY <3>1 DEF SpoolInv, FrontAcknowledged
    <3> QED BY <1>1, <1>2, <3>1, <3>2
  <2>2. PICK f \in S : \A x \in S : x <= f
    <3>1. S \subseteq 0..SequenceMax
      BY DEF Files, Seqs
    <3> QED BY <2>1, <3>1, GreatestExists
  <2> DEFINE U == {x \in Files : f < x}
  <2>3. PICK g \in U : \A x \in U : g <= x
    <3>1. U \subseteq Nat /\ k \in U
      BY <1>1, <1>2, <1>3, <1>5, <2>2
    <3> QED BY <3>1, LeastExists
  <2>4. f \in Files /\ g \in Files /\ f < g /\ f <= s /\ s < g /\ g <= k
    <3>1. k \in U /\ g \notin S
      BY <1>1, <1>2, <1>3, <1>5, <2>2, <2>3
    <3> QED BY <1>1, <1>2, <2>2, <2>3, <3>1
  <2>5. Follows(f, g)
    BY <1>1, <2>3, <2>4 DEF Follows
  <2>6. seg[f].hdr = "ok" /\ seg[g].hdr = "ok"
    <3>1. ~IsTail(f) /\ (g # k => ~IsTail(g))
      BY <1>1, <1>3, <2>4 DEF IsTail
    <3> QED BY <1>3, <2>4, <3>1 DEF WalkOK
  <2>7. g = End(f) + 1
    BY <2>4, <2>5, <2>6 DEF WalkOK
  <2> QED BY <1>1, <1>2, <2>4, <2>6, <2>7 DEF HasFrame
<1> QED BY <1>4, <1>5

\* What the walk makes of one file.
LEMMA WalkedFacts ==
  ASSUME SpoolInv, AppendBound < SequenceMax, NEW f \in Seqs
  PROVE  /\ Walked(f) \in SegFile /\ Walked(f).hdr = seg[f].hdr /\ Walked(f).last = End(f)
         /\ seg[f].dur <= Walked(f).dur /\ Walked(f).dur <= End(f)
         /\ Walked(f).tail \notin Payloads
         /\ Walked(f).dirty # {} => Walked(f).last = seg[f].last /\ seg[f].dirty # {}
         /\ seg[f].tail = "clean" => Walked(f) = seg[f]
<1> USE SpoolAssumption
<1>1. seg[f] \in SegFile
  BY DEF SpoolInv, TypeOK
<1>2. /\ seg[f].last \in Nat /\ seg[f].dur \in Nat /\ seg[f].dur <= seg[f].last
  BY FileFacts
<1>3. CASE seg[f].tail \in Payloads
  <2>1. f \in Files
    BY <1>3, FileFacts DEF Files
  <2>2. End(f) = seg[f].last + 1 /\ End(f) <= AppendBound
    BY <1>3, <2>1, FileFacts DEF End
  <2>3. seg[f].last + 1 \in 0..SequenceMax
    BY <1>2, <2>2
  <2>4. seg[f].tail # "torn" /\ seg[f].tail # "clean"
    BY <1>3
  <2>5. Walked(f) = [seg[f] EXCEPT !.last = seg[f].last + 1, !.tail = "clean", !.dirty = {},
                        !.dur = IF seg[f].dirty = {} THEN seg[f].last + 1 ELSE seg[f].dur]
    BY <1>3, <2>4 DEF Walked
  <2>6. /\ Walked(f).hdr = seg[f].hdr /\ Walked(f).last = seg[f].last + 1
        /\ Walked(f).tail = "clean" /\ Walked(f).dirty = {}
        /\ Walked(f).dur = IF seg[f].dirty = {} THEN seg[f].last + 1 ELSE seg[f].dur
    BY <1>1, <2>5 DEF SegFile
  <2>7. Walked(f) \in SegFile
    BY <1>1, <2>3, <2>5 DEF SegFile, Tails
  <2> QED BY <1>2, <2>2, <2>4, <2>6, <2>7
<1>4. CASE seg[f].tail = "torn"
  <2>1. End(f) = seg[f].last /\ "torn" \notin Payloads
    BY <1>4 DEF End
  <2>2. Walked(f) = [seg[f] EXCEPT !.tail = "clean", !.dirty = {}, !.dur = seg[f].last]
    BY <1>4, <2>1 DEF Walked
  <2>3. /\ Walked(f).hdr = seg[f].hdr /\ Walked(f).last = seg[f].last
        /\ Walked(f).tail = "clean" /\ Walked(f).dirty = {} /\ Walked(f).dur = seg[f].last
    BY <1>1, <2>2 DEF SegFile
  <2>4. Walked(f) \in SegFile
    BY <1>1, <2>2 DEF SegFile, Tails
  <2>5. "clean" \notin Payloads
    OBVIOUS
  <2> QED BY <1>2, <1>4, <2>1, <2>3, <2>4, <2>5
<1>5. CASE seg[f].tail \notin Payloads /\ seg[f].tail # "torn"
  <2>1. End(f) = seg[f].last /\ Walked(f) = seg[f]
    BY <1>5 DEF End, Walked
  <2> QED BY <1>1, <1>2, <1>5, <2>1
<1> QED BY <1>3, <1>4, <1>5

\* Recovery keeps every committed frame, absorbs a whole trailing one without
\* touching a committed payload, and hands the writer a sequence above all.
LEMMA RecoverStep ==
  ASSUME SpoolInv, Recover, AppendBound < SequenceMax
  PROVE  SpoolInv'
<1> USE SpoolAssumption
<1>1. /\ pc \in {"down", "refused"} /\ req = NoPayload /\ sent = 0
      /\ UNCHANGED <<fresh, ident, ackFile, active, req, resid, sent, reported, collector,
                     crashes, faults>>
  BY DEF Recover, hist, SpoolInv, WriterShape, AckShape, Serving
<1>2. CASE pc' = "refused" /\ UNCHANGED <<seg, wal, next, durable>>
  <2>1. /\ Files' = Files /\ FileShape' /\ NoOverlap' /\ FrontAcknowledged'
        /\ FreshShape' /\ ReportedDurable'
    BY <1>1, <1>2, SegmentsUnchanged
  <2>2. TypeOK' /\ BootShape' /\ WriterShape'
    BY <1>1, <1>2 DEF SpoolInv, TypeOK, BootShape, WriterShape
  <2>3. AckShape'
    BY <1>1, <1>2 DEF SpoolInv, AckShape, Serving
  <2> QED BY <2>1, <2>2, <2>3 DEF SpoolInv
<1>3. CASE /\ WalkOK /\ pc' = "recovered"
           /\ \E h \in 0..SequenceMax : /\ IsHighest(h)
                                        /\ next' = NextSequence(h, ackFile)
                                        /\ durable' = Max2(h, ackFile)
           /\ seg' = [f \in Seqs |-> Walked(f)]
           /\ wal' = [s \in Seqs |-> IF \E f \in Seqs : Extra(f, s)
                                       THEN seg[CHOOSE f \in Seqs : Extra(f, s)].tail
                                       ELSE wal[s]]
  <2>1. PICK h \in 0..SequenceMax : /\ IsHighest(h)
                                    /\ next' = NextSequence(h, ackFile)
                                    /\ durable' = Max2(h, ackFile)
    BY <1>3
  <2>2. /\ seg' \in [Seqs -> SegFile] /\ \A f \in Seqs : seg'[f] = Walked(f)
        /\ Files' = Files
    <3>1. \A f \in Seqs : seg'[f] = Walked(f) /\ Walked(f) \in SegFile
      BY <1>3, WalkedFacts
    <3>2. seg' \in [Seqs -> SegFile]
      BY <1>3, <3>1
    <3>3. \A f \in Seqs : seg'[f].hdr = seg[f].hdr
      BY <3>1, WalkedFacts
    <3> QED BY <3>1, <3>2, <3>3 DEF Files
  <2>3. \A x \in Files : x \in Nat /\ x \in Seqs /\ End(x) \in Nat
    BY FileFacts DEF Files
  <2>4. ASSUME NEW s \in Seqs
        PROVE  /\ (\E f \in Seqs : Extra(f, s)) => wal'[s] \in Payloads
               /\ ~(\E f \in Seqs : Extra(f, s)) => wal'[s] = wal[s]
    <3>1. CASE \E f \in Seqs : Extra(f, s)
      <4> DEFINE c == CHOOSE f \in Seqs : Extra(f, s)
      <4>1. c \in Seqs /\ Extra(c, s)
        BY <3>1
      <4>2. wal'[s] = seg[c].tail
        BY <1>3, <3>1
      <4> QED BY <3>1, <4>1, <4>2 DEF Extra
    <3>2. CASE ~\E f \in Seqs : Extra(f, s)
      BY <1>3, <3>2
    <3> QED BY <3>1, <3>2
  <2>5. wal' \in [Seqs -> Payloads \cup {NoPayload}]
    <3>1. \A s \in Seqs : wal'[s] \in Payloads \cup {NoPayload}
      BY <2>4 DEF SpoolInv, TypeOK
    <3> DEFINE W(s) == IF \E f \in Seqs : Extra(f, s)
                         THEN seg[CHOOSE f \in Seqs : Extra(f, s)].tail ELSE wal[s]
    <3>2. wal' = [s \in Seqs |-> W(s)]
      BY <1>3
    <3> HIDE DEF W
    <3> QED BY <3>1, <3>2
  <2>6. ASSUME NEW f \in Files, NEW s \in Seqs, HasFrame(f, s)
        PROVE  wal'[s] \in Payloads
    <3>1. seg[f].hdr = "ok" /\ f <= s /\ s <= End(f) /\ s \in Nat /\ seg[f].last \in Nat
      BY <2>3, <2>6, FileFacts DEF HasFrame, Seqs
    <3>2. CASE s <= seg[f].last
      <4>1. wal[s] \in Payloads
        BY <2>3, <3>1, <3>2 DEF SpoolInv, FileShape
      <4> QED BY <2>4, <4>1
    <3>3. CASE ~(s <= seg[f].last)
      <4>1. Extra(f, s)
        BY <2>3, <3>1, <3>3 DEF Extra, End
      <4> QED BY <2>3, <2>4, <4>1
    <3> QED BY <3>2, <3>3
  <2>7. /\ h <= AppendBound /\ h \in Nat /\ ackFile \in Nat /\ ackFile <= AppendBound
        /\ durable' = Max2(h, ackFile) /\ durable' \in Nat /\ durable' <= AppendBound
        /\ ackFile <= durable' /\ h <= durable' /\ next' = durable' + 1
    <3>1. ackFile \in Nat /\ ackFile <= AppendBound
      BY DEF SpoolInv, TypeOK, AckShape
    <3>2. h <= AppendBound
      BY <2>1, <2>3, FileFacts DEF IsHighest, HasFrame
    <3> QED BY <2>1, <3>1, <3>2 DEF Max2, NextSequence
  <2>8. TypeOK'
    <3>1. next' \in 0..SequenceMax /\ durable' \in 0..SequenceMax
      BY <2>7
    <3> QED BY <1>1, <1>3, <2>2, <2>5, <3>1, Zenon DEF SpoolInv, TypeOK
  <2>9. FileShape'
    <3>1. ASSUME NEW f \in Seqs PROVE (FileShape!(f))'
      <4>1. /\ seg'[f].last = End(f) /\ seg'[f].hdr = seg[f].hdr
            /\ seg[f].dur <= seg'[f].dur /\ seg'[f].dur <= End(f) /\ seg'[f].dur \in Nat
            /\ seg'[f].tail \notin Payloads
            /\ seg'[f].dirty # {} => seg'[f].last = seg[f].last /\ seg[f].dirty # {}
            /\ seg[f].tail = "clean" => seg'[f] = seg[f]
        BY <2>2, WalkedFacts DEF SegFile
      <4>2. f - 1 <= seg'[f].dur /\ seg'[f].dur <= seg'[f].last
        BY <4>1, FileFacts
      <4>3. f \in Files' => End(f)' <= AppendBound
        BY <2>2, <4>1, FileFacts DEF End
      <4>4. seg'[f].dirty # {} => seg'[f].last < AppendBound
        BY <4>1 DEF SpoolInv, FileShape
      <4>5. seg'[f].hdr # "ok" => seg'[f] = NewFile(f, seg'[f].hdr)
        BY <4>1 DEF SpoolInv, FileShape, NewFile
      <4>6. \A s \in Seqs : seg'[f].hdr = "ok" /\ f <= s /\ s <= seg'[f].last
                              => wal'[s] \in Payloads
        BY <2>6, <4>1 DEF HasFrame, Files
      <4> QED BY <4>2, <4>3, <4>4, <4>5, <4>6
    <3> QED BY <3>1 DEF FileShape
  <2>10. NoOverlap'
    <3>1. SUFFICES ASSUME NEW f \in Files, NEW g \in Files, f < g
                   PROVE  seg'[f].hdr = "ok" /\ (seg'[f].last < g \/ seg'[g].hdr # "ok")
      BY <1>3, <2>2 DEF NoOverlap
    <3>2. seg'[f].last = End(f) /\ seg'[f].hdr = seg[f].hdr /\ seg'[g].hdr = seg[g].hdr
      BY <2>2, <2>3, WalkedFacts
    <3>3. seg[f].hdr = "ok"
      BY <3>1 DEF SpoolInv, NoOverlap
    <3> QED BY <1>3, <3>1, <3>2, <3>3, WalkSeparates
  <2>11. FrontAcknowledged'
    BY <1>1, <2>2 DEF SpoolInv, FrontAcknowledged
  <2>12. FreshShape'
    <3>1. fresh # 0 => /\ fresh \in Seqs /\ IsTail(fresh)
                       /\ seg[fresh] = NewFile(fresh, seg[fresh].hdr)
      BY DEF SpoolInv, FreshShape, IsTail, Files
    <3>2. fresh # 0 => seg[fresh].tail = "clean"
      BY <3>1 DEF NewFile
    <3>3. fresh # 0 => seg'[fresh] = seg[fresh]
      BY <2>2, <3>1, <3>2, WalkedFacts
    <3> QED BY <1>1, <2>2, <3>1, <3>3 DEF FreshShape, IsTail, NewFile
  <2>13. BootShape'
    <3>1. next' \in Seqs /\ next' = Max2(durable', ackFile') + 1
      BY <1>1, <2>7 DEF Max2, Seqs
    <3>2. ASSUME NEW f \in Files
          PROVE  /\ seg'[f].last < next' \/ EmptyTrailing(f)'
                 /\ f <= next' \/ EmptyTrailing(f)'
      <4>1. CASE seg[f].hdr = "ok"
        <5>1. End(f) <= durable' /\ f <= durable' + 1
          BY <1>3, <2>1, <2>7, <4>1, WalkBelowNext
        <5>2. seg'[f].last = End(f)
          BY <2>2, <2>3, WalkedFacts
        <5> QED BY <2>3, <2>7, <5>1, <5>2
      <4>2. CASE seg[f].hdr # "ok"
        <5>1. IsTail(f)
          BY <1>3, <4>2 DEF WalkOK
        <5>2. seg'[f].hdr = seg[f].hdr
          BY <2>2, <2>3, WalkedFacts
        <5> QED BY <2>2, <4>2, <5>1, <5>2 DEF EmptyTrailing, IsTail
      <4> QED BY <4>1, <4>2
    <3>3. (\A f \in Files : seg'[f].last < f) => next' <= ackFile + 1
      <4>1. SUFFICES ASSUME \A f \in Files : seg'[f].last < f
                     PROVE  h = 0
        BY <2>7 DEF Max2
      <4>2. \A f \in Files : End(f) < f
        BY <2>2, <2>3, <4>1, WalkedFacts
      <4>3. \A f \in Files : ~HasFrame(f, h)
        BY <2>3, <2>7, <4>2 DEF HasFrame
      <4> QED BY <2>1, <4>3 DEF IsHighest
    <3>4. \A f \in Files : seg'[f].tail \notin Payloads
      BY <2>2, <2>3, WalkedFacts
    <3> QED BY <1>1, <1>3, <2>2, <3>1, <3>2, <3>3, <3>4 DEF BootShape
  <2>14. WriterShape'
    BY <1>1, <1>3 DEF WriterShape
  <2>15. AckShape'
    <3>1. \A s \in Seqs : ackFile < s /\ s <= durable' => wal'[s] \in Payloads
      <4>1. SUFFICES ASSUME NEW s \in Seqs, ackFile < s, s <= durable'
                     PROVE  wal'[s] \in Payloads
        OBVIOUS
      <4>2. s <= h
        BY <2>7, <4>1 DEF Max2, Seqs
      <4>3. PICK f \in Files : HasFrame(f, s)
        BY <1>3, <2>1, <2>7, <4>1, <4>2, WalkComplete
      <4> QED BY <2>6, <4>3
    <3>2. sent' <= durable'
      BY <1>1, <2>7
    <3> QED BY <1>1, <1>3, <2>7, <3>1, <3>2 DEF SpoolInv, AckShape
  <2>16. ReportedDurable'
    <3>1. SUFFICES ASSUME NEW s \in Seqs, reported[s] # NoPayload, ~(s <= ackFile)
                   PROVE  Stored(s, reported[s])'
      BY <1>1 DEF ReportedDurable
    <3>2. PICK g \in Seqs : /\ wal[s] = reported[s] /\ seg[g].hdr = "ok" /\ g # fresh
                            /\ g <= s /\ s <= seg[g].dur
      BY <3>1 DEF SpoolInv, ReportedDurable, Stored
    <3>3. s \in Nat /\ g \in Files /\ s <= seg[g].last
      BY <3>2, FileFacts DEF Seqs, Files
    <3>4. ASSUME NEW f \in Seqs, Extra(f, s) PROVE FALSE
      <4>1. f \in Files /\ seg[f].tail \in Payloads /\ s = seg[f].last + 1 /\ End(f) = s
        BY <3>4 DEF Extra, End
      <4>2. seg[f].hdr = "ok"
        BY <4>1, FileFacts
      <4>3. f # g /\ f \in Nat /\ g \in Nat
        <5>1. f \in Nat /\ g \in Nat /\ seg[g].last \in Nat
          BY FileFacts
        <5> QED BY <3>3, <4>1, <5>1
      <4>4. CASE f < g
        <5>1. End(f) < g
          BY <1>3, <3>2, <3>3, <4>1, <4>4, WalkSeparates
        <5> QED BY <3>2, <3>3, <4>1, <4>3, <5>1
      <4>5. CASE g < f
        <5>1. seg[g].last < f
          BY <3>3, <4>1, <4>2, <4>5 DEF SpoolInv, NoOverlap
        <5>2. f <= s
          BY <4>1, FileFacts
        <5> QED BY <3>3, <5>1, <5>2, FileFacts
      <4> QED BY <4>3, <4>4, <4>5
    <3>5. wal'[s] = wal[s]
      BY <2>4, <3>4
    <3>6. seg'[g].hdr = "ok" /\ s <= seg'[g].dur
      <4>1. seg'[g].hdr = seg[g].hdr /\ seg[g].dur <= seg'[g].dur /\ seg'[g].dur \in Nat
        BY <2>2, WalkedFacts DEF SegFile
      <4> QED BY <3>2, <3>3, <4>1, FileFacts
    <3> QED BY <1>1, <3>2, <3>5, <3>6 DEF Stored
  <2> QED BY <2>8, <2>9, <2>10, <2>11, <2>12, <2>13, <2>14, <2>15, <2>16 DEF SpoolInv
<1> QED BY <1>2, <1>3, Zenon DEF Recover

----------------------------------------------------------------------------
(* The theorems *)

\* Every reachable state of the spool satisfies the inductive invariant,
\* whatever crashes, power losses and I/O faults happen on the way.
THEOREM InvariantHolds ==
  ASSUME AppendBound < SequenceMax
  PROVE  Spec => []SpoolInv
<1> USE SpoolAssumption
<1>1. Init => SpoolInv
  <2>1. SUFFICES ASSUME Init PROVE SpoolInv
    OBVIOUS
  <2>2. /\ \A f \in Seqs : seg[f] = NewFile(f, "absent") /\ NewFile(f, "absent") \in SegFile
        /\ seg \in [Seqs -> SegFile] /\ Files = {}
    <3>1. \A f \in Seqs : NewFile(f, "absent") \in SegFile
      BY DEF NewFile, SegFile, Tails, Seqs
    <3>2. \A f \in Seqs : seg[f] = NewFile(f, "absent")
      BY <2>1 DEF Init
    <3>3. \A f \in Seqs : seg[f].hdr = "absent"
      <4>1. \A f \in Seqs : NewFile(f, "absent").hdr = "absent"
        BY DEF NewFile
      <4> QED BY <3>2, <4>1
    <3>4. seg \in [Seqs -> SegFile]
      BY <2>1, <3>1 DEF Init
    <3> QED BY <3>1, <3>2, <3>3, <3>4 DEF Files
  <2>3. TypeOK
    <3>1. 0 \in 0..SequenceMax /\ 0 \in 0..MaxCrashes /\ 0 \in 0..MaxFaults
      OBVIOUS
    <3>2. /\ wal \in [Seqs -> Payloads \cup {NoPayload}]
          /\ reported \in [Seqs -> Payloads \cup {NoPayload}]
          /\ collector \in [Seqs -> Payloads \cup {NoPayload}]
      BY <2>1 DEF Init
    <3>3. /\ fresh = 0 /\ ident = FALSE /\ ackFile = 0 /\ pc = "down" /\ active = 0
          /\ next = 0 /\ durable = 0 /\ req = NoPayload /\ resid = FALSE /\ sent = 0
          /\ crashes = 0 /\ faults = 0
      BY <2>1 DEF Init
    <3> QED BY <2>2, <3>1, <3>2, <3>3, Zenon DEF TypeOK
  <2>4. FileShape
    <3>1. ASSUME NEW f \in Seqs PROVE FileShape!(f)
      <4>1. seg[f] = NewFile(f, "absent") /\ f \notin Files
        BY <2>2
      <4>2. /\ seg[f].last = f - 1 /\ seg[f].dur = f - 1 /\ seg[f].dirty = {}
            /\ seg[f].hdr = "absent"
        BY <4>1 DEF NewFile
      <4> QED BY <4>1, <4>2 DEF Seqs
    <3> QED BY <3>1 DEF FileShape
  <2>5. NoOverlap /\ FrontAcknowledged /\ FreshShape /\ BootShape /\ WriterShape
    BY <2>1, <2>2 DEF Init, NoOverlap, FrontAcknowledged, FreshShape, BootShape, WriterShape
  <2>6. AckShape /\ ReportedDurable
    BY <2>1 DEF Init, AckShape, ReportedDurable, Serving, Seqs
  <2> QED BY <2>3, <2>4, <2>5, <2>6 DEF SpoolInv
<1>2. SpoolInv /\ [Next]_vars => SpoolInv'
  <2>1. SUFFICES ASSUME SpoolInv, [Next]_vars PROVE SpoolInv'
    OBVIOUS
  <2>2. CASE UNCHANGED vars
    <3>1. /\ Files' = Files /\ FileShape' /\ NoOverlap' /\ FrontAcknowledged'
          /\ FreshShape' /\ ReportedDurable'
      BY <2>1, <2>2, SegmentsUnchanged DEF vars
    <3>2. TypeOK'
      BY <2>1, <2>2 DEF vars, SpoolInv, TypeOK
    <3>3. BootShape' /\ WriterShape'
      BY <2>1, <2>2, <3>1
         DEF vars, SpoolInv, BootShape, WriterShape, EmptyTrailing, IsTail
    <3>4. AckShape'
      BY <2>1, <2>2 DEF vars, SpoolInv, AckShape, Serving
    <3> QED BY <3>1, <3>2, <3>3, <3>4 DEF SpoolInv
  <2>3. CASE Next
    <3>1. CASE Boot
      BY <2>1, <3>1, RecoverStep, ControlStep, ReclaimStep, OpenStep, HeaderStep DEF Boot
    <3>2. CASE \/ CreateFails \/ AppendExhausted \/ Stop \/ Kill
               \/ \E p \in Payloads : AppendObservation(p)
      BY <2>1, <3>2, ControlStep
    <3>3. CASE WriteFrame \/ SyncFrame \/ AppendFails
      BY <2>1, <3>3, AppendStep
    <3>4. CASE Rotate
      BY <2>1, <3>4, RotateStep
    <3>5. CASE Acknowledge \/ \E n \in Seqs : Deliver(n)
      BY <2>1, <3>5, DeliverStep
    <3>6. CASE \E f \in Seqs : Compact(f) \/ Writeback(f)
      BY <2>1, <3>6, CompactStep, WritebackStep
    <3>7. CASE PowerLoss
      BY <2>1, <3>7, PowerLossStep
    <3> QED BY <2>3, <3>1, <3>2, <3>3, <3>4, <3>5, <3>6, <3>7 DEF Next
  <2> QED BY <2>1, <2>2, <2>3
<1> QED BY <1>1, <1>2, PTL DEF Spec

\* An append reported to its producer stays on stable storage, payload intact,
\* until the acknowledgement covers it.
THEOREM Durability ==
  ASSUME AppendBound < SequenceMax
  PROVE  Spec => []ReportedDurable
<1>1. SpoolInv => ReportedDurable
  BY DEF SpoolInv
<1> QED BY <1>1, InvariantHolds, PTL

\* The ack sidecar never moves back and covers only sequences the Collector
\* has bound to a payload.
THEOREM AckOnlyCollected ==
  ASSUME AppendBound < SequenceMax
  PROVE  Spec => AckFollowsCollector
<1> USE SpoolAssumption
<1> DEFINE A == /\ ackFile' >= ackFile
                /\ \A s \in 1..ackFile' : collector'[s] # NoPayload
<1>1. SpoolInv /\ SpoolInv' /\ [Next]_vars => [A]_vars
  <2>1. SUFFICES ASSUME SpoolInv, SpoolInv', Next PROVE A
    OBVIOUS
  <2>2. \A s \in 1..ackFile' : collector'[s] # NoPayload
    BY <2>1 DEF SpoolInv, AckShape, TypeOK, Seqs
  <2>3. ackFile \in Nat
    BY <2>1 DEF SpoolInv, TypeOK
  <2>4. CASE Acknowledge \/ \E n \in Seqs : Deliver(n)
    BY <2>1, <2>2, <2>4, DeliverStep
  <2>5. ackFile' = ackFile \/ Acknowledge \/ \E n \in Seqs : Deliver(n)
    BY <2>1
       DEF Next, Boot, Recover, BindIdentity, ReclaimEmptyTrailingSegment,
           OpenOrCreateSegment, CreateHeader, CreateSync, CreateFails, AppendObservation,
           WriteFrame, AppendExhausted, Rotate, SyncFrame, AppendFails, Compact, Writeback,
           Stop, Kill, PowerLoss, disk
  <2> QED BY <2>2, <2>3, <2>4, <2>5
<1>2. Spec => [][A]_vars
  BY <1>1, InvariantHolds, PTL DEF Spec
<1> QED BY <1>2 DEF AckFollowsCollector

\* A sequence whose append was reported is never reported for another append.
THEOREM ReplyOnce ==
  ASSUME AppendBound < SequenceMax
  PROVE  Spec => ReportedOnce
<1> USE SpoolAssumption
<1> DEFINE A == \A s \in Seqs : reported[s] # NoPayload => reported'[s] = reported[s]
<1>1. SpoolInv /\ [Next]_vars => [A]_vars
  <2>1. SUFFICES ASSUME SpoolInv, Next PROVE A
    OBVIOUS
  <2>2. reported' = reported \/ SyncFrame
    BY <2>1
       DEF Next, Boot, Recover, BindIdentity, ReclaimEmptyTrailingSegment,
           OpenOrCreateSegment, CreateHeader, CreateSync, CreateFails, AppendObservation,
           WriteFrame, AppendExhausted, Rotate, AppendFails, Deliver, Acknowledge, Compact,
           Writeback, Stop, Kill, PowerLoss, hist
  <2>3. CASE SyncFrame
    <3>1. /\ IsTail(active) /\ active \in Seqs /\ seg[active].hdr = "ok"
          /\ durable = seg[active].last /\ ackFile <= durable
      BY <2>1, <2>3 DEF SyncFrame, SpoolInv, WriterShape, AckShape, IsTail, Files
    <3>2. reported' = [reported EXCEPT ![seg[active].last + 1] = req]
      BY <2>3 DEF SyncFrame
    <3>3. ASSUME NEW s \in Seqs, reported[s] # NoPayload PROVE s # seg[active].last + 1
      <4>1. CASE s <= ackFile
        BY <2>1, <3>1, <4>1 DEF SpoolInv, TypeOK, Seqs
      <4>2. CASE Stored(s, reported[s])
        <5>1. PICK g \in Seqs : seg[g].hdr = "ok" /\ g <= s /\ s <= seg[g].dur
          BY <4>2 DEF Stored
        <5>2. g \in Files /\ s \in Nat /\ s <= seg[g].last
          BY <2>1, <5>1, FileFacts DEF Files, Seqs
        <5>3. g # active => seg[g].last < active
          BY <2>1, <3>1, <5>2, FileFacts DEF SpoolInv, NoOverlap, IsTail
        <5> QED BY <2>1, <3>1, <5>2, <5>3, FileFacts
      <4> QED BY <2>1, <3>3, <4>1, <4>2 DEF SpoolInv, ReportedDurable
    <3> QED BY <2>1, <3>2, <3>3 DEF SpoolInv, TypeOK
  <2> QED BY <2>2, <2>3
<1>2. Spec => [][A]_vars
  BY <1>1, InvariantHolds, PTL DEF Spec
<1> QED BY <1>2 DEF ReportedOnce

----------------------------------------------------------------------------
(* What the Collector has bound *)

\* Where a frame that recovery or the uploader has read cannot be lost again:
\* there is no power loss, or nothing but an fsync or a power loss ends an append.
ReadsAreSafe == "power" \notin Endings \/ ("kill" \notin Endings /\ "truncate" \notin Faults)

\* Sequence s is a committed frame of segment f.
Holds(f, s) == seg[f].hdr = "ok" /\ f <= s /\ s <= seg[f].last

\* The daemon has walked its files and not ended.
Running == pc \notin {"down", "refused"}

\* A bound sequence is acknowledged or still held.
CollectedHeld ==
  \A s \in Seqs : collector[s] # NoPayload => s <= ackFile \/ \E f \in Seqs : Holds(f, s)

\* What a segment holds under a bound sequence is the bound payload.
HeldRight ==
  \A s \in Seqs, f \in Seqs : Holds(f, s) /\ collector[s] # NoPayload => wal[s] = collector[s]

\* The writer has noted every bound sequence as durable.
CollectedBelow == Running => \A s \in Seqs : collector[s] # NoPayload => s <= durable

\* Every sequence the uploader may read is held by a segment.
NoGap == Running => \A s \in Seqs : ackFile < s /\ s <= durable => \E f \in Seqs : Holds(f, s)

\* The bytes behind a segment's last frame are of an unbound sequence, unless
\* the next segment has that sequence, and then recovery refuses them.
TailUnbound ==
  \A f \in Seqs : \A g \in Seqs :
    /\ seg[f].tail \in Payloads \/ seg[f].dirty # {}
    /\ g = seg[f].last + 1
    => collector[g] = NoPayload \/ (f < g /\ Holds(g, g))

\* Where power may fail, what is committed is on stable storage, and only an
\* append in progress has a whole frame behind it that is not.
SyncedShape ==
  "power" \in Endings => \A f \in Seqs :
    /\ seg[f].dur = seg[f].last
    /\ seg[f].tail \in Payloads /\ seg[f].dirty # {} => pc = "written" /\ f = active

\* The Collector binds sequences without a gap.
CollectorPrefix ==
  \A s \in Seqs : collector[s] # NoPayload => \A r \in Seqs : r <= s => collector[r] # NoPayload

\* The producer's reply and the Collector name the same payload.
Agrees ==
  \A s \in Seqs : reported[s] # NoPayload /\ collector[s] # NoPayload => reported[s] = collector[s]

\* The inductive invariant behind NeverReassigned and the refinement.
KeptInv ==
  /\ CollectedHeld /\ HeldRight /\ CollectedBelow /\ NoGap /\ TailUnbound /\ SyncedShape
  /\ CollectorPrefix /\ Agrees

\* Nothing the Collector or a reader of the segments can see changes.
LEMMA KeptQuiet ==
  ASSUME KeptInv, UNCHANGED <<seg, wal, ackFile, reported, collector>>,
         Running' => Running /\ durable' = durable,
         "power" \in Endings => (pc = "written" => pc' = "written" /\ active' = active)
  PROVE  KeptInv'
<1>1. \A f, s \in Seqs : Holds(f, s)' <=> Holds(f, s)
  BY DEF Holds
<1>2. CollectedHeld' /\ HeldRight'
  BY <1>1 DEF KeptInv, CollectedHeld, HeldRight
<1>3. CollectedBelow' /\ NoGap'
  BY <1>1 DEF KeptInv, CollectedBelow, NoGap
<1>4. TailUnbound' /\ SyncedShape'
  BY <1>1 DEF KeptInv, TailUnbound, SyncedShape
<1>5. CollectorPrefix' /\ Agrees'
  BY DEF KeptInv, CollectorPrefix, Agrees
<1> QED BY <1>2, <1>3, <1>4, <1>5 DEF KeptInv

\* A file without a frame comes, goes or gets its header.
LEMMA KeptEmptyFile ==
  ASSUME SpoolInv, KeptInv, NEW n \in Seqs, NEW h \in {"absent", "short", "ok"},
         seg' = [seg EXCEPT ![n] = NewFile(n, h)], \A s \in Seqs : ~Holds(n, s),
         UNCHANGED <<wal, ackFile, reported, collector>>,
         Running' => Running /\ durable' = durable, pc # "written"
  PROVE  KeptInv'
<1> USE SpoolAssumption
<1>1. /\ \A f \in Seqs : f # n => seg'[f] = seg[f]
      /\ seg'[n] = NewFile(n, h)
  BY DEF SpoolInv, TypeOK
<1>2. /\ seg'[n].last = n - 1 /\ seg'[n].dur = n - 1 /\ seg'[n].tail = "clean"
      /\ seg'[n].dirty = {} /\ seg'[n].tail \notin Payloads
  BY <1>1 DEF NewFile
<1>3. \A f, s \in Seqs : Holds(f, s)' <=> Holds(f, s)
  <2>1. \A s \in Seqs : ~Holds(n, s)'
    BY <1>2 DEF Holds, Seqs
  <2> QED BY <1>1, <2>1 DEF Holds
<1>4. CollectedHeld' /\ HeldRight'
  BY <1>3 DEF KeptInv, CollectedHeld, HeldRight
<1>5. CollectedBelow' /\ NoGap'
  BY <1>3 DEF KeptInv, CollectedBelow, NoGap
<1>6. TailUnbound'
  BY <1>1, <1>2, <1>3 DEF KeptInv, TailUnbound
<1>7. SyncedShape'
  BY <1>1, <1>2 DEF KeptInv, SyncedShape
<1>8. CollectorPrefix' /\ Agrees'
  BY DEF KeptInv, CollectorPrefix, Agrees
<1> QED BY <1>4, <1>5, <1>6, <1>7, <1>8 DEF KeptInv

\* Startup after the walk, and rotation.
LEMMA KeptCreate ==
  ASSUME SpoolInv, KeptInv, AppendBound < SequenceMax,
         ReclaimEmptyTrailingSegment \/ OpenOrCreateSegment \/ CreateHeader \/ Rotate
  PROVE  KeptInv'
<1> USE SpoolAssumption
<1>1. /\ UNCHANGED <<wal, ackFile, reported, collector, durable>>
      /\ pc \in {"bound", "reclaimed", "creating", "append"}
  BY DEF ReclaimEmptyTrailingSegment, OpenOrCreateSegment, CreateHeader, Rotate, hist
<1>2. Running /\ pc # "written"
  BY <1>1 DEF Running
<1>3. CASE UNCHANGED seg
  BY <1>1, <1>2, <1>3, KeptQuiet
<1>4. CASE ReclaimEmptyTrailingSegment /\ seg' # seg
  <2>1. PICK f \in Files : EmptyTrailing(f) /\ seg' = [seg EXCEPT ![f] = NewFile(f, "absent")]
    BY <1>4 DEF ReclaimEmptyTrailingSegment
  <2>2. f \in Seqs /\ seg[f].last \in Nat
    BY FileFacts DEF Files
  <2>3. \A s \in Seqs : ~Holds(f, s)
    BY <2>1, <2>2 DEF EmptyTrailing, Holds, Seqs
  <2> QED BY <1>1, <1>2, <2>1, <2>2, <2>3, KeptEmptyFile
<1>5. ASSUME NEW n \in Seqs, n \notin Files, seg' = [seg EXCEPT ![n] = NewFile(n, "short")]
      PROVE  KeptInv'
  <2>1. \A s \in Seqs : ~Holds(n, s)
    BY <1>5 DEF Files, Holds
  <2> QED BY <1>1, <1>2, <1>5, <2>1, KeptEmptyFile
<1>6. CASE OpenOrCreateSegment /\ seg' # seg
  <2>1. next \in Seqs
    BY <1>6 DEF OpenOrCreateSegment, SpoolInv, BootShape
  <2>2. next \notin Files /\ seg' = [seg EXCEPT ![next] = NewFile(next, "short")]
    BY <1>6 DEF OpenOrCreateSegment, OpenNewFile
  <2> QED BY <1>5, <2>1, <2>2
<1>7. CASE Rotate /\ seg' # seg
  <2> DEFINE n == seg[active].last + 1
  <2>1. n \notin Files /\ seg' = [seg EXCEPT ![n] = NewFile(n, "short")]
    BY <1>7 DEF Rotate, OpenNewFile
  <2>2. active \in Seqs /\ n <= AppendBound
    BY <1>7 DEF Rotate, SpoolInv, WriterShape, IsTail, Files
  <2>3. n \in Seqs
    BY <2>2, FileFacts DEF Seqs
  <2> HIDE DEF n
  <2> QED BY <1>5, <2>1, <2>3
<1>8. CASE CreateHeader
  <2>1. fresh \in Seqs /\ seg[fresh] = NewFile(fresh, seg[fresh].hdr)
    BY <1>8 DEF CreateHeader, SpoolInv, WriterShape, FreshShape, IsTail, Files
  <2>2. seg' = [seg EXCEPT ![fresh] = NewFile(fresh, "ok")]
    <3>1. [seg[fresh] EXCEPT !.hdr = "ok"] = NewFile(fresh, "ok")
      <4>1. \A d : [NewFile(fresh, d) EXCEPT !.hdr = "ok"] = NewFile(fresh, "ok")
        BY DEF NewFile
      <4> QED BY <2>1, <4>1
    <3> QED BY <1>8, <2>1, <3>1 DEF CreateHeader, SpoolInv, TypeOK
  <2>3. \A s \in Seqs : ~Holds(fresh, s)
    <3>1. seg[fresh].last = fresh - 1
      BY <2>1 DEF NewFile
    <3> QED BY <2>1, <3>1 DEF Holds, Seqs
  <2> QED BY <1>1, <1>2, <2>1, <2>2, <2>3, KeptEmptyFile
<1> QED BY <1>3, <1>4, <1>6, <1>7, <1>8

\* The frame being written is of an unbound sequence.
LEMMA KeptAppend ==
  ASSUME SpoolInv, KeptInv, AppendBound < SequenceMax, ReadsAreSafe,
         WriteFrame \/ SyncFrame \/ AppendFails
  PROVE  KeptInv'
<1> USE SpoolAssumption
<1>0. PICK q \in Nat : q = seg[active].last + 1
  <2>1. active \in Seqs
    BY DEF WriteFrame, SyncFrame, AppendFails, SpoolInv, WriterShape, IsTail, Files
  <2> QED BY <2>1, FileFacts
<1>1. /\ pc \in {"append", "written"} /\ active \in Seqs /\ active \in Files
      /\ seg[active].hdr = "ok" /\ durable = seg[active].last /\ seg[active].last \in Nat
      /\ q \in Seqs /\ q <= AppendBound /\ ackFile <= durable /\ ackFile \in Nat
      /\ seg[active] \in SegFile /\ req \in Payloads /\ seg[active].dur \in Nat
  <2>1. pc \in {"append", "written"}
    BY DEF WriteFrame, SyncFrame, AppendFails
  <2>2. active \in Seqs /\ active \in Files
    BY <2>1 DEF SpoolInv, WriterShape, IsTail, Files
  <2>3. /\ seg[active].last \in Nat /\ seg[active].dur \in Nat /\ seg[active] \in SegFile
        /\ ackFile \in Nat
    BY <2>2, FileFacts DEF SpoolInv, TypeOK
  <2>4. /\ seg[active].hdr = "ok" /\ durable = seg[active].last
        /\ q <= AppendBound /\ req \in Payloads
    BY <1>0, <2>1 DEF SpoolInv, WriterShape, TypeOK
  <2>5. ackFile <= durable
    BY <2>1 DEF SpoolInv, AckShape
  <2>6. q \in Seqs
    BY <1>0, <2>3, <2>4 DEF Seqs
  <2> QED BY <2>1, <2>2, <2>3, <2>4, <2>5, <2>6
<1>2. Running
  BY <1>1 DEF Running
<1>3. collector[q] = NoPayload
  BY <1>0, <1>1, <1>2 DEF KeptInv, CollectedBelow, Seqs
<1>9. seg \in [Seqs -> SegFile]
  BY DEF SpoolInv, TypeOK
<1>10. active <= q
  BY <1>0, <1>1, FileFacts DEF Seqs
<1>4. CASE WriteFrame \/ AppendFails
  <2>1. /\ UNCHANGED <<wal, ackFile, reported, collector, durable, active>>
        /\ pc' \in {"written", "ready"}
    BY <1>4 DEF WriteFrame, AppendFails, hist
  <2>2. /\ \A f \in Seqs : f # active => seg'[f] = seg[f]
        /\ seg'[active].hdr = "ok" /\ seg'[active].last = seg[active].last
        /\ seg'[active].dur = seg[active].dur
    <3>1. CASE WriteFrame
      <4>1. seg'[active] = [seg[active] EXCEPT !.tail = req,
               !.dirty = seg[active].dirty \cup {req} \cup ({seg[active].tail} \cap Payloads)]
        BY <1>1, <1>9, <3>1 DEF WriteFrame
      <4>2. \A f \in Seqs : f # active => seg'[f] = seg[f]
        BY <1>9, <3>1 DEF WriteFrame
      <4> QED BY <1>1, <4>1, <4>2 DEF SegFile
    <3>2. CASE AppendFails
      <4>1. PICK t \in Tails : seg' = [seg EXCEPT ![active].tail = t]
        BY <1>1, <3>2 DEF AppendFails, Tails
      <4> QED BY <1>1, <1>9, <4>1 DEF SegFile
    <3> QED BY <1>4, <3>1, <3>2
  <2>3. \A f, s \in Seqs : Holds(f, s)' <=> Holds(f, s)
    BY <1>1, <2>2 DEF Holds
  <2>4. CollectedHeld' /\ HeldRight'
    BY <2>1, <2>3 DEF KeptInv, CollectedHeld, HeldRight
  <2>5. CollectedBelow' /\ NoGap'
    BY <1>2, <2>1, <2>3 DEF KeptInv, CollectedBelow, NoGap
  <2>6. TailUnbound'
    BY <1>0, <1>3, <2>1, <2>2, <2>3 DEF KeptInv, TailUnbound
  <2>7. SyncedShape'
    <3>1. SUFFICES ASSUME "power" \in Endings PROVE SyncedShape'
      BY DEF SyncedShape
    <3>2. \A f \in Seqs : f # active => (seg[f].tail \in Payloads /\ seg[f].dirty # {} => FALSE)
      BY <3>1 DEF KeptInv, SyncedShape
    <3>3. CASE WriteFrame
      <4>1. pc' = "written"
        BY <3>3 DEF WriteFrame
      <4> QED BY <1>1, <2>1, <2>2, <3>1, <3>2, <4>1 DEF KeptInv, SyncedShape
    <3>4. CASE AppendFails
      <4>1. seg'[active].tail = "clean"
        BY <1>1, <1>9, <3>1, <3>4 DEF AppendFails, ReadsAreSafe, SegFile
      <4> QED BY <1>1, <2>1, <2>2, <3>1, <3>2, <4>1 DEF KeptInv, SyncedShape
    <3> QED BY <1>4, <3>3, <3>4
  <2>8. CollectorPrefix' /\ Agrees'
    BY <2>1 DEF KeptInv, CollectorPrefix, Agrees
  <2> QED BY <2>4, <2>5, <2>6, <2>7, <2>8 DEF KeptInv
<1>5. CASE SyncFrame
  <2>1. /\ UNCHANGED <<ackFile, collector, active>> /\ pc' = "ready"
        /\ wal' = [wal EXCEPT ![q] = req] /\ durable' = q
        /\ reported' = [reported EXCEPT ![q] = req]
    <3>1. /\ UNCHANGED <<ackFile, collector, active>> /\ pc' = "ready"
          /\ wal' = [wal EXCEPT ![q] = req] /\ durable' = Max2(durable, q)
          /\ reported' = [reported EXCEPT ![q] = req]
      BY <1>0, <1>5 DEF SyncFrame
    <3> QED BY <1>0, <1>1, <3>1 DEF Max2
  <2>2. PICK t \in {"clean", "torn", "corrupt"} :
          seg' = [seg EXCEPT ![active] = [@ EXCEPT !.last = q, !.dur = q, !.tail = t, !.dirty = {}]]
    BY <1>0, <1>5 DEF SyncFrame
  <2>3. /\ \A f \in Seqs : f # active => seg'[f] = seg[f]
        /\ seg'[active].hdr = "ok" /\ seg'[active].last = q /\ seg'[active].dur = q
        /\ seg'[active].dirty = {} /\ seg'[active].tail \notin Payloads
    <3>1. seg'[active] = [seg[active] EXCEPT !.last = q, !.dur = q, !.tail = t, !.dirty = {}]
      BY <1>1, <1>9, <2>2
    <3>2. t \notin Payloads
      OBVIOUS
    <3> QED BY <1>1, <1>9, <2>2, <3>1, <3>2 DEF SegFile
  <2>4. \A f, s \in Seqs : Holds(f, s) => Holds(f, s)'
    BY <1>0, <1>1, <2>3 DEF Holds, Seqs
  <2>5. \A f, s \in Seqs : Holds(f, s)' => Holds(f, s) \/ s = q
    BY <1>0, <1>1, <2>3 DEF Holds, Seqs
  <2>6. Holds(active, q)'
    BY <1>1, <1>10, <2>1, <2>3 DEF Holds
  <2>11. \A s \in Seqs : s # q => wal'[s] = wal[s]
    BY <1>1, <2>1 DEF SpoolInv, TypeOK
  <2>7. CollectedHeld' /\ HeldRight'
    BY <1>3, <2>1, <2>4, <2>5, <2>11 DEF KeptInv, CollectedHeld, HeldRight
  <2>8. CollectedBelow' /\ NoGap'
    <3>1. \A s \in Seqs : s <= durable' => s <= durable \/ s = q
      BY <1>0, <1>1, <2>1 DEF Seqs
    <3>2. \A s \in Seqs : s <= durable => s <= durable'
      BY <1>0, <1>1, <2>1 DEF Seqs
    <3> QED BY <1>1, <1>2, <2>1, <2>4, <2>6, <3>1, <3>2 DEF KeptInv, CollectedBelow, NoGap
  <2>9. TailUnbound'
    BY <2>1, <2>3, <2>4 DEF KeptInv, TailUnbound
  <2>10. SyncedShape'
    BY <1>1, <2>1, <2>3 DEF KeptInv, SyncedShape
  <2>12. CollectorPrefix'
    BY <2>1 DEF KeptInv, CollectorPrefix
  <2>13. Agrees'
    BY <1>1, <1>3, <2>1 DEF KeptInv, Agrees, SpoolInv, TypeOK
  <2> QED BY <2>7, <2>8, <2>9, <2>10, <2>12, <2>13 DEF KeptInv
<1> QED BY <1>4, <1>5

\* The Collector binds what the segments hold, and the watermark follows it.
LEMMA KeptDeliver ==
  ASSUME SpoolInv, KeptInv, Acknowledge \/ \E n \in Seqs : Deliver(n)
  PROVE  KeptInv'
<1> USE SpoolAssumption
<1>1. /\ Running /\ Running' /\ UNCHANGED <<seg, wal, reported, durable, pc, active>>
  BY DEF Acknowledge, Deliver, Serving, Running, disk, hist
<1>2. \A f, s \in Seqs : Holds(f, s)' <=> Holds(f, s)
  BY <1>1 DEF Holds
<1>3. ackFile \in Nat /\ durable \in Nat /\ sent \in Nat /\ \A s \in Seqs : s \in Nat
  BY DEF SpoolInv, TypeOK, Seqs
<1>4. CASE Acknowledge
  <2>1. ackFile' = sent /\ ackFile < sent /\ collector' = collector
    BY <1>3, <1>4 DEF Acknowledge, hist
  <2>2. CollectedHeld' /\ NoGap'
    BY <1>1, <1>2, <1>3, <2>1 DEF KeptInv, CollectedHeld, NoGap
  <2>3. HeldRight' /\ CollectedBelow' /\ TailUnbound'
    BY <1>1, <1>2, <2>1 DEF KeptInv, HeldRight, CollectedBelow, TailUnbound
  <2>4. SyncedShape' /\ CollectorPrefix' /\ Agrees'
    BY <1>1, <2>1 DEF KeptInv, SyncedShape, CollectorPrefix, Agrees
  <2> QED BY <2>2, <2>3, <2>4 DEF KeptInv
<1>5. CASE \E n \in Seqs : Deliver(n)
  <2>1. PICK n \in Seqs : Deliver(n)
    BY <1>5
  <2>2. /\ n \in ackFile + 1..durable /\ ackFile' = ackFile /\ n \in Nat
        /\ \A s \in ackFile + 1..n : collector[s] \in {NoPayload, wal[s]}
        /\ collector' = [s \in Seqs |-> IF s \in ackFile + 1..n THEN wal[s] ELSE collector[s]]
    BY <2>1 DEF Deliver, disk, Seqs
  <2>3. \A s \in Seqs : ackFile < s /\ s <= n =>
          /\ s <= durable /\ collector'[s] = wal[s] /\ wal[s] \in Payloads
          /\ collector[s] \in {NoPayload, wal[s]} /\ \E f \in Seqs : Holds(f, s)
    <3>1. ASSUME NEW s \in Seqs, ackFile < s, s <= n
          PROVE  s \in ackFile + 1..n /\ s <= durable
      BY <1>3, <2>2, <3>1
    <3> QED BY <1>1, <2>2, <3>1 DEF KeptInv, NoGap, Running, SpoolInv, AckShape
  <2>4. \A s \in Seqs : ~(ackFile < s /\ s <= n) => collector'[s] = collector[s]
    BY <1>3, <2>2
  <2>5. CollectedHeld' /\ HeldRight'
    BY <1>1, <1>2, <2>2, <2>3, <2>4 DEF KeptInv, CollectedHeld, HeldRight
  <2>6. CollectedBelow' /\ NoGap'
    BY <1>1, <1>2, <2>2, <2>3, <2>4 DEF KeptInv, CollectedBelow, NoGap
  <2>7. TailUnbound'
    <3>1. SUFFICES ASSUME NEW f \in Seqs, NEW g \in Seqs,
                          seg[f].tail \in Payloads \/ seg[f].dirty # {},
                          g = seg[f].last + 1, collector'[g] # NoPayload
                   PROVE  f < g /\ Holds(g, g)
      BY <1>1, <1>2 DEF TailUnbound
    <3>2. CASE collector[g] # NoPayload
      BY <3>1, <3>2 DEF KeptInv, TailUnbound
    <3>3. CASE collector[g] = NoPayload
      <4>1. PICK h \in Seqs : Holds(h, g)
        BY <2>3, <2>4, <3>1, <3>3
      <4>2. /\ f \in Nat /\ g \in Nat /\ h \in Nat /\ seg[f].last \in Nat /\ seg[h].last \in Nat
            /\ f - 1 <= seg[f].last
        BY FileFacts
      <4>3. h # f /\ h \in Files
        BY <3>1, <4>1, <4>2 DEF Holds, Files
      <4>4. f \in Files
        <5>1. seg[f].hdr # "ok" => seg[f] = NewFile(f, seg[f].hdr)
          BY DEF SpoolInv, FileShape
        <5>2. NewFile(f, seg[f].hdr).tail = "clean" /\ NewFile(f, seg[f].hdr).dirty = {}
          BY DEF NewFile
        <5> QED BY <3>1, <5>1, <5>2 DEF Files
      <4>5. ~(h < f)
        <5>1. h < f => seg[h].last < f
          <6>1. pc \notin {"down", "refused", "recovered", "bound"}
            BY <2>1 DEF Deliver, Serving
          <6> QED BY <4>3, <4>4, <6>1 DEF SpoolInv, NoOverlap
        <5> QED BY <3>1, <4>1, <4>2, <5>1 DEF Holds
      <4>6. seg[f].last < h
        <5>1. pc \notin {"down", "refused", "recovered", "bound"}
          BY <2>1 DEF Deliver, Serving
        <5> QED BY <4>2, <4>3, <4>4, <4>5, <5>1 DEF SpoolInv, NoOverlap
      <4>7. h = g
        BY <3>1, <4>1, <4>2, <4>6 DEF Holds
      <4> QED BY <3>1, <4>1, <4>2, <4>3, <4>5, <4>7
    <3> QED BY <3>2, <3>3
  <2>8. SyncedShape'
    BY <1>1 DEF KeptInv, SyncedShape
  <2>9. CollectorPrefix'
    <3>1. \A s \in Seqs : s <= ackFile => collector[s] # NoPayload
      BY DEF SpoolInv, AckShape
    <3>2. \A s \in Seqs : s <= n => collector'[s] # NoPayload
      BY <1>3, <2>3, <2>4, <3>1
    <3>3. \A s \in Seqs : collector'[s] # NoPayload => s <= n \/ collector[s] # NoPayload
      BY <2>4
    <3>4. \A s \in Seqs : collector[s] # NoPayload => collector'[s] # NoPayload
      BY <2>3, <2>4
    <3>5. \A s, r \in Seqs : r <= s /\ s <= n => r <= n
      BY <1>3, <2>2
    <3> QED BY <3>2, <3>3, <3>4, <3>5 DEF KeptInv, CollectorPrefix
  <2>10. Agrees'
    <3>1. \A s \in Seqs : ackFile < s /\ reported[s] # NoPayload => wal[s] = reported[s]
      BY <1>3 DEF SpoolInv, ReportedDurable, Stored
    <3> QED BY <1>1, <2>3, <2>4, <3>1 DEF KeptInv, Agrees
  <2> QED BY <2>5, <2>6, <2>7, <2>8, <2>9, <2>10 DEF KeptInv
<1> QED BY <1>4, <1>5

\* Compaction removes acknowledged frames only.
LEMMA KeptCompact ==
  ASSUME SpoolInv, KeptInv, NEW f \in Seqs, Compact(f)
  PROVE  KeptInv'
<1> USE SpoolAssumption
<1>1. /\ Serving /\ f \in Files /\ \A g \in Files : f <= g
      /\ seg' = [seg EXCEPT ![f] = NewFile(f, "absent")]
      /\ UNCHANGED <<wal, ackFile, pc, active, durable, reported, collector>>
  BY DEF Compact, hist
<1>2. PICK n \in Files : f < n /\ n - 1 <= ackFile
  BY DEF Compact, Follows
<1>3. /\ seg'[f] = NewFile(f, "absent") /\ \A g \in Seqs : g # f => seg'[g] = seg[g]
  BY <1>1 DEF SpoolInv, TypeOK
<1>4. /\ seg'[f].hdr = "absent" /\ seg'[f].last = f - 1 /\ seg'[f].dur = f - 1
      /\ seg'[f].tail = "clean" /\ seg'[f].dirty = {} /\ "clean" \notin Payloads
  BY <1>3 DEF NewFile
<1>5. pc \notin {"down", "refused", "recovered", "bound"}
  BY <1>1 DEF Serving
<1>6. seg[f].last <= ackFile /\ ackFile \in Nat /\ seg[f].last \in Nat /\ \A s \in Seqs : s \in Nat
  <2>1. seg[f].last < n
    BY <1>1, <1>2, <1>5 DEF SpoolInv, NoOverlap
  <2>2. n \in Nat /\ ackFile \in Nat /\ seg[f].last \in Nat
    BY FileFacts DEF Files, Seqs, SpoolInv, TypeOK
  <2> QED BY <1>2, <2>1, <2>2 DEF Seqs
<1>7. \A g, s \in Seqs : Holds(g, s)' => Holds(g, s)
  BY <1>3, <1>4 DEF Holds
<1>8. \A g, s \in Seqs : Holds(g, s) => Holds(g, s)' \/ (g = f /\ s <= ackFile)
  BY <1>3, <1>6 DEF Holds
<1>9. CollectedHeld' /\ HeldRight'
  BY <1>1, <1>7, <1>8 DEF KeptInv, CollectedHeld, HeldRight
<1>10. CollectedBelow'
  BY <1>1 DEF KeptInv, CollectedBelow, Running
<1>11. NoGap'
  <2>1. \A s \in Seqs : ackFile < s => ~(s <= ackFile)
    BY <1>6
  <2> QED BY <1>1, <1>8, <2>1 DEF KeptInv, NoGap, Running
<1>12. TailUnbound'
  <2>1. SUFFICES ASSUME NEW g \in Seqs, NEW h \in Seqs,
                        seg'[g].tail \in Payloads \/ seg'[g].dirty # {},
                        h = seg'[g].last + 1, collector[h] # NoPayload
                 PROVE  g < h /\ Holds(h, h)'
    BY <1>1 DEF TailUnbound
  <2>2. g # f /\ seg'[g] = seg[g]
    BY <1>3, <1>4, <2>1
  <2>3. g < h /\ Holds(h, h)
    BY <2>1, <2>2 DEF KeptInv, TailUnbound
  <2>4. g \in Files
    <3>1. seg[g].hdr # "ok" => seg[g] = NewFile(g, seg[g].hdr)
      BY DEF SpoolInv, FileShape
    <3>2. NewFile(g, seg[g].hdr).tail = "clean" /\ NewFile(g, seg[g].hdr).dirty = {}
      BY DEF NewFile
    <3> QED BY <1>4, <2>1, <2>2, <3>1, <3>2 DEF Files
  <2>5. h # f
    BY <1>1, <1>6, <2>3, <2>4
  <2> QED BY <1>8, <2>3, <2>5
<1>13. SyncedShape'
  BY <1>1, <1>3, <1>4 DEF KeptInv, SyncedShape
<1>14. CollectorPrefix' /\ Agrees'
  BY <1>1 DEF KeptInv, CollectorPrefix, Agrees
<1> QED BY <1>9, <1>10, <1>11, <1>12, <1>13, <1>14 DEF KeptInv

\* What a power loss leaves of a file.
LEMMA PowerLeaves ==
  ASSUME SpoolInv, PowerLoss
  PROVE  /\ pc' = "down" /\ UNCHANGED <<wal, ident, ackFile, reported, collector>>
         /\ \A f \in Seqs : f # fresh /\ f \notin Files => seg'[f] = seg[f]
         /\ \A f \in Files : f # fresh =>
              /\ seg'[f].hdr = seg[f].hdr /\ seg'[f].last = seg[f].dur
              /\ seg'[f].dur = seg[f].dur /\ seg'[f].tail \in TailImages(f) /\ seg'[f].dirty = {}
         /\ \E h \in FreshImages : \A f \in Files : f = fresh => seg'[f] = NewFile(f, h)
<1> USE SpoolAssumption
<1>1. PICK t \in [Files -> Tails], h \in FreshImages :
        /\ \A f \in Files : t[f] \in TailImages(f)
        /\ seg' = [f \in Seqs |->
                     CASE f = fresh     -> NewFile(f, h)
                       [] f \notin Files -> seg[f]
                       [] OTHER -> [seg[f] EXCEPT !.last = seg[f].dur, !.tail = t[f],
                                                  !.dirty = {}]]
  BY DEF PowerLoss
<1>2. pc' = "down" /\ UNCHANGED <<wal, ident, ackFile, reported, collector>>
  BY DEF PowerLoss, ProcessEnds, hist
<1>3. \A f \in Files : f \in Seqs /\ seg[f] \in SegFile
  BY DEF SpoolInv, TypeOK, Files
<1>4. \A f \in Seqs : f # fresh /\ f \notin Files => seg'[f] = seg[f]
  BY <1>1
<1>5. ASSUME NEW f \in Files, f # fresh
      PROVE  /\ seg'[f].hdr = seg[f].hdr /\ seg'[f].last = seg[f].dur
             /\ seg'[f].dur = seg[f].dur /\ seg'[f].tail \in TailImages(f) /\ seg'[f].dirty = {}
  <2>1. seg'[f] = [seg[f] EXCEPT !.last = seg[f].dur, !.tail = t[f], !.dirty = {}]
    BY <1>1, <1>3, <1>5
  <2>2. t[f] \in TailImages(f)
    BY <1>1
  <2> QED BY <1>3, <2>1, <2>2 DEF SegFile
<1>6. \A f \in Files : f = fresh => seg'[f] = NewFile(f, h)
  BY <1>1, <1>3
<1> QED BY <1>2, <1>4, <1>5, <1>6

\* A power loss takes no frame the Collector has bound: all of them are on
\* stable storage.
LEMMA KeptPowerLoss ==
  ASSUME SpoolInv, KeptInv, PowerLoss
  PROVE  KeptInv'
<1> USE SpoolAssumption
<1>1. /\ pc' = "down" /\ UNCHANGED <<wal, ident, ackFile, reported, collector>>
      /\ \A f \in Seqs : f # fresh /\ f \notin Files => seg'[f] = seg[f]
      /\ \A f \in Files : f # fresh =>
           /\ seg'[f].hdr = seg[f].hdr /\ seg'[f].last = seg[f].dur
           /\ seg'[f].dur = seg[f].dur /\ seg'[f].tail \in TailImages(f) /\ seg'[f].dirty = {}
  BY PowerLeaves
<1>2. PICK h \in FreshImages : \A f \in Files : f = fresh => seg'[f] = NewFile(f, h)
  BY PowerLeaves
<1>3. fresh # 0 => fresh \in Seqs /\ fresh \in Files /\ seg[fresh] = NewFile(fresh, seg[fresh].hdr)
  BY DEF SpoolInv, FreshShape, IsTail, Files
<1>4. \A f \in Seqs : f = fresh =>
        /\ seg'[f].last = f - 1 /\ seg'[f].dur = f - 1 /\ seg'[f].tail = "clean"
        /\ seg'[f].dirty = {} /\ seg[f].last = f - 1 /\ "clean" \notin Payloads
  <2>1. \A f \in Seqs : f = fresh => seg'[f] = NewFile(f, h) /\ seg[f] = NewFile(f, seg[f].hdr)
    BY <1>2, <1>3 DEF Seqs
  <2>2. ASSUME NEW f \in Seqs, NEW d
        PROVE  /\ NewFile(f, d).last = f - 1 /\ NewFile(f, d).dur = f - 1
               /\ NewFile(f, d).tail = "clean" /\ NewFile(f, d).dirty = {}
    BY DEF NewFile
  <2>3. "clean" \notin Payloads
    OBVIOUS
  <2>4. ASSUME NEW f \in Seqs, f = fresh
        PROVE  /\ seg'[f].last = f - 1 /\ seg'[f].dur = f - 1 /\ seg'[f].tail = "clean"
               /\ seg'[f].dirty = {} /\ seg[f].last = f - 1
    BY <2>1, <2>2, <2>4
  <2> QED BY <2>3, <2>4
<1>5. \A f \in Seqs : seg[f].dur = seg[f].last
  BY DEF PowerLoss, KeptInv, SyncedShape
<1>6. \A f, s \in Seqs : Holds(f, s)' <=> Holds(f, s)
  <2>1. \A f, s \in Seqs : f # fresh => (Holds(f, s)' <=> Holds(f, s))
    BY <1>1, <1>5 DEF Holds
  <2>2. \A f, s \in Seqs : f = fresh => ~Holds(f, s) /\ ~Holds(f, s)'
    BY <1>4 DEF Holds, Seqs
  <2> QED BY <2>1, <2>2
<1>7. CollectedHeld' /\ HeldRight' /\ CollectedBelow' /\ NoGap'
  BY <1>1, <1>6 DEF KeptInv, CollectedHeld, HeldRight, CollectedBelow, NoGap, Running
<1>8. \A f \in Seqs : \/ f = fresh
                      \/ seg'[f].last = seg[f].last /\ seg'[f].dur = seg[f].last
  BY <1>1, <1>5
<1>9. TailUnbound'
  <2>1. SUFFICES ASSUME NEW f \in Seqs, NEW g \in Seqs,
                        seg'[f].tail \in Payloads \/ seg'[f].dirty # {},
                        g = seg'[f].last + 1, collector[g] # NoPayload
                 PROVE  f < g /\ Holds(g, g)'
    BY <1>1 DEF TailUnbound
  <2>2. f # fresh /\ seg'[f].last = seg[f].last
    BY <1>4, <1>8, <2>1
  <2>3. seg[f].tail \in Payloads \/ seg[f].dirty # {}
    <3>1. CASE f \notin Files
      BY <1>1, <2>1, <2>2, <3>1
    <3>2. CASE f \in Files
      <4>1. seg'[f].tail \in Payloads /\ seg'[f].tail \in TailImages(f)
        BY <1>1, <2>1, <2>2, <3>2
      <4>2. seg[f].dur = seg[f].last /\ seg[f].last \in Nat
        BY <1>5, FileFacts
      <4>3. ASSUME seg[f].dirty = {} PROVE TailImages(f) = {seg[f].tail}
        <5>1. ~(seg[f].dur < seg[f].last)
          BY <4>2
        <5> QED BY <4>2, <4>3, <5>1, Zenon DEF TailImages
      <4> QED BY <4>1, <4>3
    <3> QED BY <3>1, <3>2
  <2> QED BY <1>6, <2>1, <2>2, <2>3 DEF KeptInv, TailUnbound
<1>10. SyncedShape'
  <2>1. \A f \in Seqs : seg'[f].dur = seg'[f].last
    BY <1>4, <1>8
  <2>2. \A f \in Seqs : seg'[f].tail \in Payloads => seg'[f].dirty = {}
    <3>1. \A f \in Seqs : f \notin Files => seg[f].tail \notin Payloads
      BY FileFacts DEF Files
    <3> QED BY <1>1, <1>4, <3>1
  <2> QED BY <2>1, <2>2 DEF SyncedShape
<1>11. CollectorPrefix' /\ Agrees'
  BY <1>1 DEF KeptInv, CollectorPrefix, Agrees
<1> QED BY <1>7, <1>9, <1>10, <1>11 DEF KeptInv

\* Recovery absorbs a frame only under an unbound sequence: where the sequence
\* is bound, the walk has found the segment that holds it and refuses.
LEMMA KeptRecover ==
  ASSUME SpoolInv, KeptInv, AppendBound < SequenceMax, Recover, ReadsAreSafe
  PROVE  KeptInv'
<1> USE SpoolAssumption
<1>1. /\ pc \in {"down", "refused"} /\ UNCHANGED <<ackFile, reported, collector, active>>
  BY DEF Recover, hist
<1>2. CASE pc' = "refused" /\ UNCHANGED <<seg, wal, next, durable>>
  BY <1>1, <1>2, KeptQuiet DEF Running
<1>3. CASE /\ WalkOK /\ pc' = "recovered"
           /\ \E h \in 0..SequenceMax : IsHighest(h) /\ durable' = Max2(h, ackFile)
           /\ seg' = [f \in Seqs |-> Walked(f)]
           /\ wal' = [s \in Seqs |-> IF \E f \in Seqs : Extra(f, s)
                                       THEN seg[CHOOSE f \in Seqs : Extra(f, s)].tail
                                       ELSE wal[s]]
  <2>1. PICK h \in 0..SequenceMax : IsHighest(h) /\ durable' = Max2(h, ackFile)
    BY <1>3
  <2>2. /\ ackFile \in Nat /\ h \in Nat /\ \A s \in Seqs : s \in Nat
        /\ durable' \in Nat /\ h <= durable' /\ ackFile <= durable'
    BY <2>1 DEF SpoolInv, TypeOK, Seqs, Max2
  <2>3. \A f \in Seqs : /\ seg'[f] = Walked(f) /\ seg'[f].last = End(f)
                        /\ seg'[f].hdr = seg[f].hdr /\ seg'[f].tail \notin Payloads
                        /\ seg'[f].dirty # {} => seg'[f].last = seg[f].last /\ seg[f].dirty # {}
                        /\ seg[f].last <= End(f) /\ End(f) \in Nat /\ seg[f].last \in Nat
    BY <1>3, WalkedFacts, FileFacts
  <2>4. \A f, s \in Seqs : Holds(f, s) => Holds(f, s)'
    BY <2>2, <2>3 DEF Holds
  <2>5. \A f, s \in Seqs : Holds(f, s)' <=> f \in Files /\ HasFrame(f, s)
    BY <2>3 DEF Holds, HasFrame, Files
  <2>6. \A f, s \in Seqs : Holds(f, s)' => Holds(f, s) \/ Extra(f, s)
    BY <2>2, <2>3 DEF Holds, Extra, End, Files
  <2>7. ASSUME NEW f \in Seqs, NEW s \in Seqs, Extra(f, s) PROVE collector[s] = NoPayload
    <3>1. SUFFICES ASSUME collector[s] # NoPayload PROVE FALSE
      OBVIOUS
    <3>2. f < s /\ Holds(s, s) /\ f \in Files /\ seg[f].tail \in Payloads /\ s = seg[f].last + 1
      BY <2>7, <3>1 DEF Extra, KeptInv, TailUnbound
    <3>3. s \in Files /\ seg[s].hdr = "ok"
      BY <3>2 DEF Holds, Files
    <3>4. End(f) < s
      BY <1>3, <3>2, <3>3, WalkSeparates
    <3> QED BY <2>3, <3>2, <3>4 DEF End
  <2>8. \A s \in Seqs : collector[s] # NoPayload => wal'[s] = wal[s]
    BY <1>3, <2>7
  <2>9. CollectedHeld'
    BY <1>1, <2>4 DEF KeptInv, CollectedHeld
  <2>10. HeldRight'
    BY <1>1, <2>6, <2>7, <2>8 DEF KeptInv, HeldRight
  <2>11. CollectedBelow'
    <3>1. ASSUME NEW s \in Seqs, collector[s] # NoPayload PROVE s <= durable'
      <4>1. CASE s <= ackFile
        BY <2>2, <4>1
      <4>2. CASE \E f \in Seqs : Holds(f, s)
        <5>1. PICK f \in Seqs : Holds(f, s)
          BY <4>2
        <5>2. s <= h
          BY <2>1, <2>4, <2>5, <5>1 DEF IsHighest
        <5> QED BY <2>2, <5>2
      <4> QED BY <3>1, <4>1, <4>2 DEF KeptInv, CollectedHeld
    <3> QED BY <1>1, <3>1 DEF CollectedBelow
  <2>12. NoGap'
    <3>1. ASSUME NEW s \in Seqs, ackFile < s, s <= durable' PROVE \E f \in Seqs : Holds(f, s)'
      <4>1. s <= h
        BY <2>1, <2>2, <3>1 DEF Max2
      <4>2. PICK f \in Files : HasFrame(f, s)
        BY <1>3, <2>1, <2>2, <3>1, <4>1, WalkComplete
      <4> QED BY <2>5, <4>2 DEF Files
    <3> QED BY <1>1, <3>1 DEF NoGap
  <2>13. TailUnbound'
    BY <1>1, <2>3, <2>4 DEF KeptInv, TailUnbound
  <2>14. SyncedShape'
    <3>1. SUFFICES ASSUME "power" \in Endings, NEW f \in Seqs PROVE seg'[f].dur = seg'[f].last
      BY <2>3 DEF SyncedShape
    <3>2. /\ seg[f].dur = seg[f].last
          /\ seg[f].tail \in Payloads => seg[f].dirty = {}
      BY <1>1, <3>1 DEF KeptInv, SyncedShape
    <3>3. seg[f] \in SegFile /\ seg[f].last \in Nat
      BY FileFacts DEF SpoolInv, TypeOK
    <3>4. Walked(f).dur = Walked(f).last
      <4>1. CASE seg[f].tail \in Payloads
        <5>1. Walked(f) = [seg[f] EXCEPT !.last = seg[f].last + 1, !.tail = "clean",
                             !.dirty = {}, !.dur = seg[f].last + 1]
          BY <3>2, <4>1 DEF Walked
        <5> QED BY <3>3, <5>1 DEF SegFile
      <4>2. CASE seg[f].tail \notin Payloads /\ seg[f].tail = "torn"
        <5>1. Walked(f) = [seg[f] EXCEPT !.tail = "clean", !.dirty = {}, !.dur = seg[f].last]
          BY <4>2 DEF Walked
        <5> QED BY <3>3, <5>1 DEF SegFile
      <4>3. CASE seg[f].tail \notin Payloads /\ seg[f].tail # "torn"
        BY <3>2, <4>3 DEF Walked
      <4> QED BY <4>1, <4>2, <4>3
    <3> QED BY <2>3, <3>4
  <2>15. CollectorPrefix' /\ Agrees'
    BY <1>1 DEF KeptInv, CollectorPrefix, Agrees
  <2> QED BY <2>9, <2>10, <2>11, <2>12, <2>13, <2>14, <2>15 DEF KeptInv
<1> QED BY <1>2, <1>3, Zenon DEF Recover

\* What the Collector has bound is kept, step by step.
LEMMA KeptHolds ==
  ASSUME AppendBound < SequenceMax, ReadsAreSafe
  PROVE  Spec => []KeptInv
<1> USE SpoolAssumption
<1>1. Init => KeptInv
  <2>1. SUFFICES ASSUME Init PROVE KeptInv
    OBVIOUS
  <2>2. \A f \in Seqs : seg[f] = NewFile(f, "absent") /\ collector[f] = NoPayload
    BY <2>1 DEF Init
  <2>3. \A f \in Seqs : /\ seg[f].dur = seg[f].last /\ seg[f].tail = "clean" /\ seg[f].dirty = {}
                        /\ "clean" \notin Payloads
    <3>1. "clean" \notin Payloads
      OBVIOUS
    <3>2. ASSUME NEW f \in Seqs
          PROVE  seg[f].dur = seg[f].last /\ seg[f].tail = "clean" /\ seg[f].dirty = {}
      <4>1. seg[f] = NewFile(f, "absent")
        BY <2>2
      <4> QED BY <4>1 DEF NewFile
    <3> QED BY <3>1, <3>2
  <2>4. ~Running
    BY <2>1 DEF Init, Running
  <2>5. CollectedHeld /\ HeldRight /\ CollectedBelow /\ NoGap /\ CollectorPrefix /\ Agrees
    BY <2>2, <2>4 DEF CollectedHeld, HeldRight, CollectedBelow, NoGap, CollectorPrefix, Agrees
  <2>6. TailUnbound /\ SyncedShape
    BY <2>3 DEF TailUnbound, SyncedShape
  <2> QED BY <2>5, <2>6 DEF KeptInv
<1>2. SpoolInv /\ KeptInv /\ [Next]_vars => KeptInv'
  <2>1. SUFFICES ASSUME SpoolInv, KeptInv, [Next]_vars PROVE KeptInv'
    OBVIOUS
  <2>2. CASE UNCHANGED vars
    BY <2>1, <2>2, KeptQuiet DEF vars, Running
  <2>3. CASE \/ BindIdentity \/ CreateSync \/ CreateFails \/ AppendExhausted \/ Stop \/ Kill
             \/ \E p \in Payloads : AppendObservation(p)
    <3>1. /\ UNCHANGED <<seg, wal, ackFile, reported, collector>>
          /\ Running' => Running /\ durable' = durable
      BY <2>3 DEF BindIdentity, CreateSync, CreateFails, AppendExhausted, Stop, Kill,
                  ProcessEnds, AppendObservation, disk, hist, Running
    <3>2. "power" \in Endings => pc # "written"
      BY <2>3 DEF BindIdentity, CreateSync, CreateFails, AppendExhausted, Stop, Kill,
                  AppendObservation, ReadsAreSafe
    <3> QED BY <2>1, <3>1, <3>2, KeptQuiet
  <2>4. CASE \E f \in Seqs : Writeback(f)
    <3>1. PICK f \in Seqs : Writeback(f)
      BY <2>4
    <3>2. "power" \in Endings /\ \E k \in seg[f].dur + 1..seg[f].last : TRUE
      BY <3>1 DEF Writeback
    <3>3. seg[f].dur = seg[f].last /\ seg[f].last \in Nat
      BY <2>1, <3>2, FileFacts DEF KeptInv, SyncedShape
    <3> QED BY <3>2, <3>3
  <2>5. CASE Recover
    BY <2>1, <2>5, KeptRecover
  <2>6. CASE ReclaimEmptyTrailingSegment \/ OpenOrCreateSegment \/ CreateHeader \/ Rotate
    BY <2>1, <2>6, KeptCreate
  <2>7. CASE WriteFrame \/ SyncFrame \/ AppendFails
    BY <2>1, <2>7, KeptAppend
  <2>8. CASE Acknowledge \/ \E n \in Seqs : Deliver(n)
    BY <2>1, <2>8, KeptDeliver
  <2>9. CASE \E f \in Seqs : Compact(f)
    BY <2>1, <2>9, KeptCompact
  <2>10. CASE PowerLoss
    BY <2>1, <2>10, KeptPowerLoss
  <2> QED BY <2>1, <2>2, <2>3, <2>4, <2>5, <2>6, <2>7, <2>8, <2>9, <2>10 DEF Next, Boot
<1> QED BY <1>1, <1>2, InvariantHolds, PTL DEF Spec

\* A sequence the Collector has bound keeps its payload in every segment that
\* holds it and is never the writer's next one.
THEOREM BoundForGood ==
  ASSUME AppendBound < SequenceMax, ReadsAreSafe
  PROVE  Spec => []NeverReassigned
<1>1. SpoolInv /\ KeptInv => NeverReassigned
  <2>1. SUFFICES ASSUME SpoolInv, KeptInv PROVE NeverReassigned
    OBVIOUS
  <2>2. ASSUME pc \in {"append", "written"} PROVE collector[seg[active].last + 1] = NoPayload
    <3>1. active \in Seqs /\ durable = seg[active].last /\ seg[active].last + 1 <= AppendBound
      BY <2>1, <2>2 DEF SpoolInv, WriterShape, IsTail, Files
    <3>2. seg[active].last + 1 \in Seqs /\ seg[active].last \in Nat
      BY <2>1, <3>1, SpoolAssumption, FileFacts DEF Seqs
    <3> QED BY <2>1, <2>2, <3>1, <3>2 DEF KeptInv, CollectedBelow, Running
  <2> QED BY <2>1, <2>2 DEF NeverReassigned, KeptInv, HeldRight, Holds
<1> QED BY <1>1, InvariantHolds, KeptHolds, PTL

\* Every step of the daemon, of its crashes and of the uploader is a step of
\* the abstract log or leaves it alone.
THEOREM RefinesDurableLog ==
  ASSUME AppendBound < SequenceMax, ReadsAreSafe
  PROVE  Spec => ImplementsDurableLog
<1> USE SpoolAssumption
<1>1. Init => Log!Init
  BY DEF Init, Log!Init, Log!Seqs, Seqs
<1>2. SpoolInv /\ SpoolInv' /\ KeptInv /\ KeptInv' /\ [Next]_vars
        => [Log!Next]_<<reported, collector>>
  <2>1. SUFFICES ASSUME SpoolInv, SpoolInv', KeptInv, KeptInv', Next,
                        ~UNCHANGED <<reported, collector>>
                 PROVE  Log!Next
    BY DEF vars
  <2>2. SyncFrame \/ \E n \in Seqs : Deliver(n)
    BY <2>1
       DEF Next, Boot, Recover, BindIdentity, ReclaimEmptyTrailingSegment,
           OpenOrCreateSegment, CreateHeader, CreateSync, CreateFails, AppendObservation,
           WriteFrame, AppendExhausted, Rotate, AppendFails, Acknowledge, Compact,
           Writeback, Stop, Kill, PowerLoss, hist
  <2>3. CASE SyncFrame
    <3>1. /\ active \in Seqs /\ IsTail(active) /\ durable = seg[active].last
          /\ seg[active].hdr = "ok"
          /\ seg[active].last + 1 <= AppendBound /\ ackFile <= durable /\ req \in Payloads
          /\ Running
      BY <2>1, <2>3 DEF SyncFrame, SpoolInv, WriterShape, AckShape, TypeOK, IsTail, Files, Running
    <3>2. PICK q \in Seqs : q = seg[active].last + 1
      BY <2>1, <3>1, FileFacts DEF Seqs
    <3>3. /\ reported' = [reported EXCEPT ![q] = req] /\ collector' = collector
      BY <2>3, <3>2 DEF SyncFrame
    <3>4. ASSUME NEW r \in Seqs, q <= r PROVE reported[r] = NoPayload /\ collector[r] = NoPayload
      <4>1. ~(r <= durable) /\ ~(r <= ackFile)
        <5>1. r \in Nat /\ q \in Nat /\ durable \in Nat /\ ackFile \in Nat
          BY <2>1 DEF SpoolInv, TypeOK, Seqs
        <5> QED BY <3>1, <3>2, <3>4, <5>1
      <4>2. collector[r] = NoPayload
        BY <2>1, <3>1, <4>1 DEF KeptInv, CollectedBelow
      <4>3. ~Stored(r, reported[r])
        <5>1. SUFFICES ASSUME NEW g \in Seqs, seg[g].hdr = "ok", g <= r, r <= seg[g].dur
                       PROVE  FALSE
          BY DEF Stored
        <5>2. g \in Files /\ g <= active /\ seg[g].dur <= seg[g].last
          BY <2>1, <3>1, <5>1, FileFacts DEF Files, IsTail
        <5>3. g # active => seg[g].last < active
          BY <2>1, <3>1, <5>2, FileFacts DEF SpoolInv, NoOverlap, IsTail
        <5>4. /\ r \in Nat /\ seg[g].dur \in Nat /\ seg[g].last \in Nat /\ active \in Nat
              /\ seg[active].last \in Nat /\ active - 1 <= seg[active].last
          <6>1. /\ seg[g].dur \in Nat /\ seg[g].last \in Nat
            BY <2>1, FileFacts
          <6>2. seg[active].last \in Nat /\ seg[active].dur \in Nat /\ active \in Nat
                /\ active - 1 <= seg[active].dur /\ seg[active].dur <= seg[active].last
            BY <2>1, <3>1, FileFacts
          <6> QED BY <6>1, <6>2 DEF Seqs
        <5> QED BY <3>2, <3>4, <5>1, <5>2, <5>3, <5>4
      <4> QED BY <2>1, <4>1, <4>2, <4>3 DEF SpoolInv, ReportedDurable
    <3>5. Log!Unused(q)
      <4>1. \A r \in q..SequenceMax : r \in Seqs /\ q <= r
        BY <3>2 DEF Seqs
      <4> QED BY <3>4, <4>1 DEF Log!Unused
    <3>6. Log!Accept(q, req)
      BY <3>3, <3>5 DEF Log!Accept
    <3> QED BY <3>1, <3>2, <3>6 DEF Log!Next, Log!Seqs, Seqs
  <2>4. CASE \E n \in Seqs : Deliver(n)
    <3>1. PICK n \in Seqs : Deliver(n)
      BY <2>4
    <3>2. /\ reported' = reported /\ n \in ackFile + 1..durable
          /\ \A s \in ackFile + 1..n : collector[s] \in {NoPayload, wal[s]}
          /\ collector' = [s \in Seqs |-> IF s \in ackFile + 1..n THEN wal[s] ELSE collector[s]]
      BY <3>1 DEF Deliver
    <3> DEFINE B == {s \in Seqs : collector'[s] # NoPayload}
    <3>3. n \in B
      <4>1. n \in ackFile + 1..n /\ ackFile < n /\ n <= durable
        BY <2>1, <3>2 DEF SpoolInv, TypeOK, Seqs
      <4>2. wal[n] \in Payloads
        BY <2>1, <3>1, <4>1 DEF SpoolInv, AckShape, Deliver, Serving
      <4> QED BY <3>2, <4>1, <4>2
    <3>4. PICK m \in B : \A s \in B : s <= m
      <4>1. B \subseteq 0..SequenceMax
        BY DEF Seqs
      <4> QED BY <3>3, <4>1, GreatestExists
    <3>5. \A s \in Seqs : collector'[s] = NoPayload <=> m < s
      <4>1. \A s \in Seqs : s \in Nat
        BY DEF Seqs
      <4>2. \A s \in Seqs : s <= m => collector'[s] # NoPayload
        BY <2>1, <3>4 DEF KeptInv, CollectorPrefix
      <4> QED BY <3>4, <4>1, <4>2
    <3>6. \A s \in Seqs : collector[s] # NoPayload => collector'[s] = collector[s]
      BY <3>2
    <3>7. \A s \in Seqs : reported[s] # NoPayload /\ collector'[s] # NoPayload
                            => collector'[s] = reported[s]
      BY <2>1, <3>2 DEF KeptInv, Agrees
    <3>8. collector' \in [Seqs -> Payloads \cup {NoPayload}]
      BY <2>1 DEF SpoolInv, TypeOK
    <3>9. Log!Deliver(m)
      BY <3>2, <3>5, <3>6, <3>7, <3>8 DEF Log!Deliver, Log!Table, Log!Seqs, Seqs
    <3> QED BY <3>4, <3>9 DEF Log!Next, Log!Seqs, Seqs
  <2> QED BY <2>2, <2>3, <2>4
<1> QED BY <1>1, <1>2, InvariantHolds, KeptHolds, PTL DEF Spec, ImplementsDurableLog, Log!Spec

----------------------------------------------------------------------------
(* Files the next start accepts *)

\* Where no failed append leaves bytes that a later start could meet behind a
\* segment that is not the last: a rollback succeeds and is never undone by a
\* power loss, or appends only end in an fsync or a power loss.
WritesAreSafe ==
  \/ "power" \notin Endings /\ "truncate" \notin Faults
  \/ "kill" \notin Endings /\ "write" \notin Faults

\* A spool with a file or an acknowledgement has its identity.
IdentShape ==
  /\ ident \/ (Files = {} /\ ackFile = 0)
  /\ pc \notin {"down", "refused", "recovered"} => ident

\* Segments join: each begins where the one before it ends.
ChainShape ==
  \A f, g \in Files : Follows(f, g) => g = seg[f].last + 1 /\ seg[f].tail = "clean"

\* The last segment reaches as far as anything that is noted durable or
\* acknowledged, and only an append in progress, or its end by a crash, has
\* left bytes behind it.
LastShape ==
  /\ \A f \in Files : IsTail(f) =>
       /\ ackFile <= seg[f].last
       /\ pc # "down" => durable <= seg[f].last
       /\ pc = "reclaimed" => f <= seg[f].last
       /\ pc \notin {"down", "written"} => seg[f].tail = "clean"
       /\ seg[f].tail # "corrupt"
  /\ pc = "written" => ~resid

\* Where power may fail, everything but an append in progress is on stable storage.
StableShape ==
  "power" \in Endings => \A f \in Seqs :
    seg[f].dur = seg[f].last /\ (seg[f].dirty # {} => pc = "written" /\ f = active)

\* What every start accepts.
ChainInv == pc # "refused" /\ IdentShape /\ ChainShape /\ LastShape /\ StableShape

\* What none accepts: power failed during an append and spoiled its frame.
Spoiled ==
  /\ "power" \in Endings /\ pc \in {"down", "refused"} /\ fresh = 0
  /\ \A f \in Seqs : seg[f].dur = seg[f].last /\ seg[f].dirty = {}
  /\ \E f \in Files : /\ IsTail(f) /\ seg[f].hdr = "ok" /\ seg[f].tail = "corrupt"
                       /\ ackFile <= seg[f].last /\ seg[f].last <= AppendBound

\* Files are ordered by their first sequence.
LEMMA FileOrder ==
  /\ \A f \in Files : f \in Nat /\ f \in Seqs
  /\ \A f \in Files : ~IsTail(f) => \E g \in Files : Follows(f, g)
  /\ \A f, g \in Files : f < g => \E e \in Files : Follows(e, g)
  /\ \A f, g \in Files : f < g => \E n \in Files : Follows(f, n) /\ n <= g
<1> USE SpoolAssumption
<1>1. \A f \in Files : f \in Nat /\ f \in Seqs
  BY DEF Files, Seqs
<1>2. ASSUME NEW f \in Files, NEW g \in Files, f < g
      PROVE  \E n \in Files : Follows(f, n) /\ n <= g
  <2> DEFINE S == {x \in Files : f < x}
  <2>1. PICK n \in S : \A x \in S : n <= x
    <3>1. S \subseteq Nat /\ g \in S
      BY <1>1, <1>2
    <3> QED BY <3>1, LeastExists
  <2> QED BY <1>1, <1>2, <2>1 DEF Follows
<1>3. ASSUME NEW f \in Files, NEW g \in Files, f < g
      PROVE  \E e \in Files : Follows(e, g)
  <2> DEFINE S == {x \in Files : x < g}
  <2>1. PICK e \in S : \A x \in S : x <= e
    <3>1. S \subseteq 0..SequenceMax /\ f \in S
      BY <1>1, <1>3 DEF Files, Seqs
    <3> QED BY <3>1, GreatestExists
  <2> QED BY <1>1, <2>1 DEF Follows
<1>4. \A f \in Files : ~IsTail(f) => \E g \in Files : f < g
  BY <1>1 DEF IsTail
<1> QED BY <1>1, <1>2, <1>3, <1>4

\* A walk of files that join meets no corruption.
LEMMA ChainWalks ==
  ASSUME SpoolInv, ChainInv
  PROVE  /\ WalkOK
         /\ \A f, g \in Files : f < g => seg[f].last < g /\ seg[f].hdr = "ok" /\ seg[f].tail = "clean"
<1> USE SpoolAssumption
<1>1. \A f, g \in Files : f < g => seg[f].last < g /\ seg[f].hdr = "ok" /\ seg[f].tail = "clean"
  <2>1. ASSUME NEW f \in Files, NEW g \in Files, f < g
        PROVE  seg[f].last < g /\ seg[f].hdr = "ok" /\ seg[f].tail = "clean"
    <3>1. PICK n \in Files : Follows(f, n) /\ n <= g
      BY <2>1, FileOrder
    <3>2. n = seg[f].last + 1 /\ seg[f].tail = "clean"
      BY <3>1 DEF ChainInv, ChainShape
    <3>3. seg[f].last \in Nat /\ n \in Nat /\ g \in Nat
      BY FileOrder, FileFacts
    <3> QED BY <2>1, <3>1, <3>2, <3>3 DEF SpoolInv, NoOverlap
  <2> QED BY <2>1
<1>2. "clean" \notin Payloads
  OBVIOUS
<1>3. \A f, g \in Files : Follows(f, g) => g = End(f) + 1
  BY <1>2 DEF ChainInv, ChainShape, End
<1>4. \A f \in Files : ~IsTail(f) => seg[f].hdr = "ok" /\ seg[f].tail = "clean"
  BY <1>1, FileOrder DEF Follows
<1>5. ASSUME NEW f \in Files, IsTail(f)
      PROVE  InterruptedCreate(f) \/ (seg[f].hdr = "ok" /\ seg[f].tail # "corrupt")
  <2>1. ident /\ seg[f].tail # "corrupt"
    BY <1>5 DEF ChainInv, IdentShape, LastShape
  <2>2. seg[f].hdr \in {"short", "long", "ok"}
    BY DEF SpoolInv, TypeOK, SegFile, Files
  <2> QED BY <2>1, <2>2 DEF InterruptedCreate
<1> QED BY <1>1, <1>3, <1>4, <1>5 DEF WalkOK

\* Nothing about the files changes but the place of the process.
LEMMA ChainQuiet ==
  ASSUME ChainInv, UNCHANGED <<seg, ident, ackFile>>, pc' # "refused", resid' = resid \/ ~resid',
         pc \in {"down", "recovered"} => pc' = pc,
         pc' \in {"recovered", "reclaimed"} => pc' = pc,
         pc' = "down" \/ durable' = durable,
         pc' = "written" => pc = "written",
         pc = "written" => pc' = "down" \/ (pc' = "written" /\ active' = active),
         pc = "written" /\ pc' = "down" => "power" \notin Endings
  PROVE  ChainInv'
<1>1. Files' = Files /\ \A f, g \in Files : (Follows(f, g)' <=> Follows(f, g)) /\ (IsTail(f)' <=> IsTail(f))
  BY DEF Files, Follows, IsTail
<1>2. IdentShape' /\ ChainShape'
  BY <1>1 DEF ChainInv, IdentShape, ChainShape
<1>3. LastShape'
  BY <1>1 DEF ChainInv, LastShape
<1>4. StableShape'
  BY DEF ChainInv, StableShape
<1> QED BY <1>2, <1>3, <1>4 DEF ChainInv

\* The last file is rewritten and stays the last.
LEMMA ChainRewritten ==
  ASSUME SpoolInv, ChainInv, NEW n \in Files, IsTail(n), NEW r \in SegFile,
         seg' = [seg EXCEPT ![n] = r], r.hdr # "absent", ackFile' = ackFile, ident' = ident, ident,
         ackFile <= r.last, r.tail # "corrupt", durable' <= r.last,
         pc' \in {"header", "ready", "written"},
         pc' # "written" => r.tail = "clean", pc' = "written" => ~resid',
         "power" \in Endings => /\ r.dur = r.last /\ (r.dirty # {} => pc' = "written")
                                /\ (pc' = "written" => n = active')
                                /\ (pc = "written" => n = active)
  PROVE  ChainInv'
<1> USE SpoolAssumption
<1>1. n \in Seqs /\ seg'[n] = r /\ \A f \in Seqs : f # n => seg'[f] = seg[f]
  BY DEF SpoolInv, TypeOK, Files
<1>2. Files' = Files
  BY <1>1 DEF Files
<1>3. /\ \A f, g \in Files : (Follows(f, g)' <=> Follows(f, g)) /\ (IsTail(f)' <=> IsTail(f))
      /\ \A f \in Files : IsTail(f) => f = n
      /\ \A f, g \in Files : Follows(f, g) => f # n /\ f \in Seqs
  BY <1>2, FileOrder DEF Follows, IsTail
<1>4. IdentShape'
  BY DEF IdentShape
<1>5. ChainShape'
  BY <1>1, <1>2, <1>3 DEF ChainInv, ChainShape
<1>6. LastShape'
  BY <1>1, <1>2, <1>3 DEF LastShape
<1>7. StableShape'
  BY <1>1 DEF ChainInv, StableShape
<1> QED BY <1>4, <1>5, <1>6, <1>7 DEF ChainInv

\* Appends happen at the end of the last segment.
LEMMA ChainAppend ==
  ASSUME SpoolInv, ChainInv, AppendBound < SequenceMax, WritesAreSafe,
         CreateHeader \/ WriteFrame \/ SyncFrame \/ AppendFails
  PROVE  ChainInv'
<1> USE SpoolAssumption
<1>1. CASE CreateHeader
  <2>1. /\ fresh \in Seqs /\ fresh \in Files /\ IsTail(fresh) /\ fresh = durable + 1
        /\ seg[fresh] = NewFile(fresh, seg[fresh].hdr)
    BY <1>1 DEF CreateHeader, SpoolInv, WriterShape, FreshShape, IsTail, Files
  <2>2. seg' = [seg EXCEPT ![fresh] = NewFile(fresh, "ok")]
    <3>1. \A d : [NewFile(fresh, d) EXCEPT !.hdr = "ok"] = NewFile(fresh, "ok")
      BY DEF NewFile
    <3> QED BY <1>1, <2>1, <3>1 DEF CreateHeader, SpoolInv, TypeOK
  <2>3. NewFile(fresh, "ok") \in SegFile
    BY <2>1 DEF NewFile, SegFile, Tails, Seqs
  <2>4. /\ NewFile(fresh, "ok").last = durable /\ NewFile(fresh, "ok").dur = durable
        /\ NewFile(fresh, "ok").tail = "clean" /\ NewFile(fresh, "ok").dirty = {}
        /\ NewFile(fresh, "ok").hdr = "ok" /\ durable \in Nat
    BY <2>1 DEF NewFile, SpoolInv, TypeOK
  <2>5. /\ UNCHANGED <<ident, ackFile, durable>> /\ pc' = "header" /\ pc = "creating"
        /\ ackFile <= durable /\ ident
    BY <1>1 DEF CreateHeader, SpoolInv, AckShape, ChainInv, IdentShape
  <2>6. PICK r \in SegFile : r = NewFile(fresh, "ok")
    BY <2>3
  <2>7. /\ seg' = [seg EXCEPT ![fresh] = r] /\ r.hdr # "absent" /\ ackFile <= r.last
        /\ r.tail = "clean" /\ r.tail # "corrupt" /\ durable' <= r.last /\ r.dur = r.last
        /\ r.dirty = {}
    BY <2>2, <2>4, <2>5, <2>6
  <2> QED BY <2>1, <2>5, <2>7, ChainRewritten
<1>2. ASSUME WriteFrame \/ SyncFrame \/ AppendFails
      PROVE  /\ active \in Files /\ IsTail(active) /\ durable = seg[active].last
             /\ seg[active] \in SegFile /\ seg[active].last \in Nat /\ ackFile \in Nat
             /\ ackFile <= durable /\ ident /\ UNCHANGED <<ident, ackFile, active>>
             /\ req \in Payloads /\ seg[active].hdr = "ok" /\ seg[active].last + 1 <= AppendBound
             /\ "power" \in Endings => seg[active].dur = seg[active].last
             /\ pc \in {"append", "written"} /\ seg \in [Seqs -> SegFile] /\ active \in Seqs
  <2>1. pc \in {"append", "written"} /\ UNCHANGED <<ident, ackFile, active>>
    BY <1>2 DEF WriteFrame, SyncFrame, AppendFails
  <2>2. /\ IsTail(active) /\ active \in Files /\ active \in Seqs /\ req \in Payloads
        /\ seg[active].hdr = "ok" /\ durable = seg[active].last
        /\ seg[active].last + 1 <= AppendBound
    BY <2>1 DEF SpoolInv, WriterShape, IsTail, Files, TypeOK
  <2>3. ackFile <= durable /\ ident
    BY <2>1 DEF SpoolInv, AckShape, ChainInv, IdentShape
  <2>4. seg[active] \in SegFile /\ seg[active].last \in Nat /\ ackFile \in Nat /\ seg \in [Seqs -> SegFile]
    BY <2>2, FileFacts DEF SpoolInv, TypeOK
  <2> QED BY <2>1, <2>2, <2>3, <2>4 DEF ChainInv, StableShape
<1>3. CASE WriteFrame
  <2> DEFINE r == [seg[active] EXCEPT !.tail = req,
                     !.dirty = seg[active].dirty \cup {req} \cup ({seg[active].tail} \cap Payloads)]
  <2>1. seg' = [seg EXCEPT ![active] = r] /\ pc' = "written" /\ durable' = durable /\ pc = "append"
        /\ resid' = (seg[active].tail # "clean")
    BY <1>3 DEF WriteFrame
  <2>2. r \in SegFile
    BY <1>2, <1>3 DEF SegFile, Tails
  <2>3. /\ r.last = seg[active].last /\ r.dur = seg[active].dur /\ r.tail = req /\ r.hdr = "ok"
    BY <1>2, <1>3 DEF SegFile
  <2>4. seg[active].tail = "clean"
    BY <1>2, <1>3, <2>1 DEF ChainInv, LastShape
  <2>5. req # "corrupt"
    BY <1>2, <1>3
  <2>6. ~resid'
    BY <2>1, <2>4
  <2> HIDE DEF r
  <2>7. /\ r.hdr # "absent" /\ ackFile <= r.last /\ r.tail # "corrupt" /\ durable' <= r.last
        /\ "power" \in Endings => r.dur = r.last
        /\ active \in Files /\ IsTail(active) /\ ident /\ ident' = ident /\ ackFile' = ackFile
        /\ active' = active
    BY <1>2, <1>3, <2>1, <2>3, <2>5
  <2> QED BY <2>1, <2>2, <2>6, <2>7, ChainRewritten
<1>4. CASE SyncFrame
  <2>1. PICK q \in Nat : q = seg[active].last + 1
    BY <1>2, <1>4
  <2>2. ~resid /\ pc = "written"
    BY <1>4 DEF SyncFrame, ChainInv, LastShape
  <2> DEFINE r == [seg[active] EXCEPT !.last = q, !.dur = q, !.tail = "clean", !.dirty = {}]
  <2>3. seg' = [seg EXCEPT ![active] = r] /\ pc' = "ready" /\ durable' = Max2(durable, q)
    BY <1>4, <2>1, <2>2 DEF SyncFrame
  <2>7. q \in 0..SequenceMax
    BY <1>2, <1>4, <2>1
  <2>4. r \in SegFile
    BY <1>2, <1>4, <2>7 DEF SegFile, Tails
  <2>5. /\ r.last = q /\ r.dur = q /\ r.tail = "clean" /\ r.hdr = "ok" /\ r.dirty = {}
    BY <1>2, <1>4 DEF SegFile
  <2>6. durable' <= q /\ ackFile <= q
    BY <1>2, <1>4, <2>1, <2>3 DEF Max2
  <2> HIDE DEF r
  <2> QED BY <1>2, <1>4, <2>2, <2>3, <2>4, <2>5, <2>6, ChainRewritten
<1>5. CASE AppendFails
  <2>1. "power" \notin Endings /\ "truncate" \notin Faults
    BY <1>5 DEF AppendFails, WritesAreSafe
  <2> DEFINE r == [seg[active] EXCEPT !.tail = "clean"]
  <2>2. seg' = [seg EXCEPT ![active] = r] /\ pc' = "ready" /\ durable' = durable
    BY <1>2, <1>5, <2>1 DEF AppendFails
  <2>3. r \in SegFile
    BY <1>2, <1>5 DEF SegFile, Tails
  <2>4. r.last = seg[active].last /\ r.tail = "clean" /\ r.hdr = "ok"
    BY <1>2, <1>5 DEF SegFile
  <2> HIDE DEF r
  <2>5. /\ r.hdr # "absent" /\ ackFile <= r.last /\ r.tail # "corrupt" /\ durable' <= r.last
        /\ active \in Files /\ IsTail(active) /\ ident /\ ident' = ident /\ ackFile' = ackFile
    BY <1>2, <1>5, <2>2, <2>4
  <2> QED BY <2>1, <2>2, <2>3, <2>4, <2>5, ChainRewritten
<1> QED BY <1>1, <1>3, <1>4, <1>5

\* A file is created where the last one ends.
LEMMA ChainNewTail ==
  ASSUME SpoolInv, ChainInv, NEW n \in Seqs, n \notin Files, ident, ident' = ident,
         seg' = [seg EXCEPT ![n] = NewFile(n, "short")], pc' = "creating",
         \A f \in Files : f < n /\ (IsTail(f) => n = seg[f].last + 1 /\ seg[f].tail = "clean"),
         UNCHANGED <<ackFile, durable>>, ackFile <= n - 1, durable <= n - 1, pc # "written"
  PROVE  ChainInv'
<1> USE SpoolAssumption
<1>1. seg'[n] = NewFile(n, "short") /\ \A f \in Seqs : f # n => seg'[f] = seg[f]
  BY DEF SpoolInv, TypeOK
<1>2. /\ seg'[n].last = n - 1 /\ seg'[n].dur = n - 1 /\ seg'[n].tail = "clean"
      /\ seg'[n].dirty = {} /\ seg'[n].hdr = "short"
  BY <1>1 DEF NewFile
<1>3. Files' = Files \cup {n}
  BY <1>1, <1>2 DEF Files
<1>4. \A f \in Files : f # n /\ f \in Seqs /\ f \in Nat /\ seg'[f] = seg[f]
  BY <1>1, FileOrder
<1>5. n \in Nat
  BY DEF Seqs
<1>6. \A f \in Files' : IsTail(f)' => f = n
  BY <1>3, <1>4, <1>5 DEF IsTail
<1>7. ASSUME NEW f \in Files', NEW g \in Files', Follows(f, g)'
      PROVE  f \in Files /\ ((g \in Files /\ Follows(f, g)) \/ (g = n /\ IsTail(f)))
  <2>1. f \in Files
    BY <1>3, <1>4, <1>5, <1>7 DEF Follows
  <2>2. \A h \in Files : h <= f \/ g <= h
    BY <1>3, <1>7 DEF Follows
  <2>3. CASE g = n
    BY <1>4, <1>5, <2>1, <2>2, <2>3 DEF IsTail
  <2>4. CASE g \in Files
    BY <1>7, <2>1, <2>2, <2>4 DEF Follows
  <2> QED BY <1>3, <2>1, <2>3, <2>4
<1>8. ChainShape'
  BY <1>4, <1>7 DEF ChainInv, ChainShape
<1>9. IdentShape'
  BY DEF IdentShape
<1>10. LastShape'
  BY <1>2, <1>6 DEF LastShape
<1>11. StableShape'
  BY <1>1, <1>2 DEF ChainInv, StableShape
<1> QED BY <1>8, <1>9, <1>10, <1>11 DEF ChainInv

\* A file leaves at either end.
LEMMA ChainShortened ==
  ASSUME SpoolInv, ChainInv, NEW n \in Seqs, n \in Files,
         seg' = [seg EXCEPT ![n] = NewFile(n, "absent")],
         UNCHANGED <<ackFile, durable, ident, resid, active>>,
         \/ pc = "bound" /\ pc' = "reclaimed" /\ EmptyTrailing(n)
         \/ pc' = pc /\ ~IsTail(n) /\ \A f \in Files : n <= f
  PROVE  ChainInv'
<1> USE SpoolAssumption
<1>1. seg'[n] = NewFile(n, "absent") /\ \A f \in Seqs : f # n => seg'[f] = seg[f]
  BY DEF SpoolInv, TypeOK
<1>2. /\ seg'[n].last = n - 1 /\ seg'[n].dur = n - 1 /\ seg'[n].dirty = {} /\ seg'[n].hdr = "absent"
  BY <1>1 DEF NewFile
<1>3. Files' = Files \ {n} /\ n \in Nat /\ seg[n].last \in Nat
  BY <1>1, <1>2, FileOrder, FileFacts DEF Files
<1>4. \A f \in Files' : f \in Files /\ f # n /\ f \in Seqs /\ f \in Nat /\ seg'[f] = seg[f]
  BY <1>1, <1>3, FileOrder
<1>5. StableShape'
  <2>1. pc = "written" => pc' = "written"
    OBVIOUS
  <2> QED BY <1>1, <1>2, <2>1 DEF ChainInv, StableShape
<1>6. IdentShape'
  <2>1. ident
    BY DEF ChainInv, IdentShape
  <2> QED BY <2>1 DEF IdentShape
<1>7. CASE pc = "bound" /\ pc' = "reclaimed" /\ EmptyTrailing(n)
  <2>1. IsTail(n) /\ seg[n].last = n - 1
    <3>1. seg[n].hdr # "ok" => seg[n].last = n - 1
      <4>1. seg[n].hdr # "ok" => seg[n] = NewFile(n, seg[n].hdr)
        BY DEF SpoolInv, FileShape
      <4>2. NewFile(n, seg[n].hdr).last = n - 1
        BY DEF NewFile
      <4> QED BY <4>1, <4>2
    <3>2. n - 1 <= seg[n].dur /\ seg[n].dur <= seg[n].last /\ seg[n].dur \in Nat
      BY FileFacts
    <3> QED BY <1>3, <1>7, <3>1, <3>2 DEF EmptyTrailing
  <2>2. ASSUME NEW f \in Files', IsTail(f)'
        PROVE  Follows(f, n)
    BY <1>3, <1>4, <2>1, <2>2 DEF IsTail, Follows
  <2>3. \A f, g \in Files' : Follows(f, g)' => Follows(f, g)
    BY <1>3, <1>4, <2>1 DEF IsTail, Follows
  <2>4. ChainShape'
    BY <1>4, <2>3 DEF ChainInv, ChainShape
  <2>5. LastShape'
    <3>1. ASSUME NEW f \in Files', IsTail(f)'
          PROVE  /\ ackFile <= seg'[f].last /\ durable <= seg'[f].last
                 /\ f <= seg'[f].last /\ seg'[f].tail = "clean"
      <4>1. n = seg[f].last + 1 /\ seg[f].tail = "clean" /\ f < n /\ f \in Files
        BY <1>4, <2>2, <3>1 DEF ChainInv, ChainShape, Follows
      <4>2. seg[f].last = seg[n].last /\ seg[f].last \in Nat
        BY <1>4, <2>1, <4>1, FileFacts
      <4>3. ackFile <= seg[n].last /\ durable <= seg[n].last
        BY <1>7, <2>1 DEF ChainInv, LastShape
      <4>4. f \in Nat /\ seg'[f] = seg[f] /\ n \in Nat
        BY <1>3, <1>4
      <4>5. f <= seg[f].last
        BY <4>1, <4>2, <4>4
      <4> QED BY <4>1, <4>2, <4>3, <4>4, <4>5
    <3> QED BY <1>7, <3>1 DEF LastShape
  <2> QED BY <1>5, <1>6, <1>7, <2>4, <2>5 DEF ChainInv
<1>8. CASE pc' = pc /\ ~IsTail(n) /\ \A f \in Files : n <= f
  <2>1. \A f \in Files' : IsTail(f)' => IsTail(f)
    <3>1. PICK g \in Files : n < g
      BY <1>8, FileOrder DEF Follows
    <3> QED BY <1>3, <1>4, <3>1, FileOrder DEF IsTail
  <2>2. \A f, g \in Files' : Follows(f, g)' => Follows(f, g)
    BY <1>3, <1>4, <1>8 DEF Follows
  <2>3. ChainShape'
    BY <1>4, <2>2 DEF ChainInv, ChainShape
  <2>4. LastShape'
    BY <1>4, <1>8, <2>1 DEF ChainInv, LastShape
  <2> QED BY <1>5, <1>6, <1>8, <2>3, <2>4 DEF ChainInv
<1> QED BY <1>7, <1>8

\* Startup after the walk continues the last segment, or creates one where
\* there is none; rotation creates the one that follows.
LEMMA ChainOpen ==
  ASSUME SpoolInv, ChainInv, AppendBound < SequenceMax,
         ReclaimEmptyTrailingSegment \/ OpenOrCreateSegment \/ Rotate
  PROVE  ChainInv'
<1> USE SpoolAssumption
<1>1. UNCHANGED <<ident, ackFile, durable, resid>> /\ pc \in {"bound", "reclaimed", "append"}
  BY DEF ReclaimEmptyTrailingSegment, OpenOrCreateSegment, Rotate
<1>2. /\ ident /\ ackFile <= durable /\ ackFile \in Nat /\ durable \in Nat
  BY <1>1 DEF ChainInv, IdentShape, SpoolInv, AckShape, TypeOK
<1>3. CASE ReclaimEmptyTrailingSegment
  <2>1. pc = "bound" /\ pc' = "reclaimed" /\ active' = active
    BY <1>3 DEF ReclaimEmptyTrailingSegment
  <2>2. CASE \E f \in Files : EmptyTrailing(f) /\ seg' = [seg EXCEPT ![f] = NewFile(f, "absent")]
    <3>1. PICK f \in Files : EmptyTrailing(f) /\ seg' = [seg EXCEPT ![f] = NewFile(f, "absent")]
      BY <2>2
    <3> QED BY <1>1, <2>1, <3>1, ChainShortened DEF Files
  <2>3. CASE UNCHANGED seg /\ ~\E f \in Files : EmptyTrailing(f)
    <3>1. Files' = Files /\ \A f, g \in Files : (Follows(f, g)' <=> Follows(f, g)) /\ (IsTail(f)' <=> IsTail(f))
      BY <2>3 DEF Files, Follows, IsTail
    <3>2. \A f \in Files : IsTail(f) => f <= seg[f].last
      BY <2>3, FileOrder, FileFacts DEF EmptyTrailing
    <3>3. LastShape'
      BY <1>1, <2>1, <2>3, <3>1, <3>2 DEF ChainInv, LastShape
    <3>4. IdentShape' /\ ChainShape' /\ StableShape'
      BY <1>1, <1>2, <2>1, <2>3, <3>1 DEF ChainInv, IdentShape, ChainShape, StableShape
    <3> QED BY <2>1, <3>3, <3>4 DEF ChainInv
  <2> QED BY <1>3, <2>2, <2>3 DEF ReclaimEmptyTrailingSegment
<1>4. CASE OpenOrCreateSegment
  <2>1. pc = "reclaimed" /\ next \in Seqs /\ next = durable + 1
    <3>1. pc = "reclaimed" /\ next \in Seqs /\ next = Max2(durable, ackFile) + 1
      BY <1>4 DEF OpenOrCreateSegment, SpoolInv, BootShape
    <3> QED BY <1>2, <3>1 DEF Max2
  <2>2. CASE UNCHANGED seg /\ pc' \in {"ready", "down"}
    BY <1>1, <2>1, <2>2, ChainQuiet
  <2>3. CASE /\ ~\E f \in Files : IsTail(f) /\ LastSequence(f) + 1 = next
             /\ next \notin Files /\ pc' = "creating"
             /\ seg' = [seg EXCEPT ![next] = NewFile(next, "short")]
    <3>1. Files = {}
      <4>1. SUFFICES ASSUME Files # {} PROVE FALSE
        OBVIOUS
      <4>2. PICK f \in Files : \A g \in Files : g <= f
        <5>1. Files \subseteq 0..SequenceMax
          BY DEF Files, Seqs
        <5> QED BY <4>1, <5>1, GreatestExists
      <4>3. IsTail(f) /\ f \in Seqs
        BY <4>2 DEF IsTail, Files
      <4>4. f <= seg[f].last /\ durable <= seg[f].last /\ seg[f].last < next
        BY <2>1, <4>3 DEF ChainInv, LastShape, SpoolInv, BootShape
      <4>5. f \in Nat /\ seg[f].last \in Nat
        BY <4>3, FileFacts
      <4>6. LastSequence(f) + 1 = next
        BY <1>2, <2>1, <4>4, <4>5 DEF LastSequence
      <4> QED BY <2>3, <4>3, <4>6
    <3>2. ackFile <= next - 1 /\ durable <= next - 1
      BY <1>2, <2>1
    <3> QED BY <1>1, <1>2, <2>1, <2>3, <3>1, <3>2, ChainNewTail
  <2> QED BY <1>4, <2>2, <2>3 DEF OpenOrCreateSegment, OpenNewFile
<1>5. CASE Rotate
  <2>1. /\ pc = "append" /\ IsTail(active) /\ active \in Seqs /\ active \in Files
        /\ durable = seg[active].last /\ seg[active].last + 1 <= AppendBound /\ Count(active) > 0
    BY <1>5 DEF Rotate, SpoolInv, WriterShape, IsTail, Files
  <2>2. /\ seg[active].last \in Nat /\ active \in Nat /\ seg[active].tail = "clean"
        /\ active' = active
    BY <1>5, <2>1, FileFacts DEF ChainInv, LastShape, Rotate
  <2>3. PICK n \in Seqs : n = seg[active].last + 1
    BY <2>1, <2>2 DEF Seqs
  <2>4. CASE UNCHANGED seg /\ pc' = "closed"
    BY <1>1, <2>1, <2>4, ChainQuiet
  <2>5. CASE n \notin Files /\ pc' = "creating" /\ seg' = [seg EXCEPT ![n] = NewFile(n, "short")]
    <3>1. \A f \in Files : f < n /\ (IsTail(f) => n = seg[f].last + 1 /\ seg[f].tail = "clean")
      <4>1. \A f \in Files : f <= active /\ f \in Nat /\ (IsTail(f) => f = active)
        <5>1. \A f \in Files : f \in Nat
          BY FileOrder
        <5> QED BY <2>1, <2>2, <5>1 DEF IsTail
      <4>2. active < n
        BY <2>1, <2>2, <2>3 DEF Count
      <4> QED BY <2>2, <2>3, <4>1, <4>2
    <3>2. ackFile <= n - 1 /\ durable <= n - 1
      BY <1>2, <2>1, <2>2, <2>3
    <3> QED BY <1>1, <1>2, <2>1, <2>5, <3>1, <3>2, ChainNewTail
  <2> QED BY <1>5, <2>3, <2>4, <2>5 DEF Rotate, OpenNewFile
<1> QED BY <1>3, <1>4, <1>5

\* The walk accepts the chain and leaves a chain without a torn tail.
LEMMA ChainRecover ==
  ASSUME SpoolInv, ChainInv, AppendBound < SequenceMax, Recover
  PROVE  ChainInv'
<1> USE SpoolAssumption
<1>1. /\ WalkOK
      /\ \A f, g \in Files : f < g => seg[f].last < g /\ seg[f].hdr = "ok" /\ seg[f].tail = "clean"
  BY ChainWalks
<1>2. /\ pc = "down" /\ pc' = "recovered" /\ UNCHANGED <<ident, ackFile>>
      /\ \E h \in 0..SequenceMax : IsHighest(h) /\ durable' = Max2(h, ackFile)
      /\ seg' = [f \in Seqs |-> Walked(f)]
  BY <1>1 DEF Recover, ChainInv
<1>3. PICK h \in 0..SequenceMax : IsHighest(h) /\ durable' = Max2(h, ackFile)
  BY <1>2
<1>4. \A f \in Seqs : /\ seg'[f] = Walked(f) /\ seg'[f].last = End(f) /\ seg'[f].hdr = seg[f].hdr
                      /\ seg[f].tail = "clean" => seg'[f] = seg[f]
                      /\ seg'[f].dirty # {} => seg[f].dirty # {}
                      /\ seg[f].last <= End(f) /\ End(f) \in Nat /\ seg[f].last \in Nat
                      /\ f \in Nat /\ f - 1 <= seg[f].last
  <2>1. ASSUME NEW f \in Seqs PROVE f - 1 <= seg[f].last
    <3>1. f \in Nat /\ seg[f].last \in Nat /\ seg[f].dur \in Nat /\ f - 1 <= seg[f].dur /\ seg[f].dur <= seg[f].last
      BY FileFacts
    <3> QED BY <3>1
  <2> QED BY <1>2, <2>1, WalkedFacts, FileFacts
<1>5. Files' = Files
  BY <1>4 DEF Files
<1>6. \A f, g \in Files : (Follows(f, g)' <=> Follows(f, g)) /\ (IsTail(f)' <=> IsTail(f))
  BY <1>5 DEF Follows, IsTail
<1>7. ChainShape'
  BY <1>4, <1>5, <1>6, FileOrder DEF ChainInv, ChainShape
<1>8. IdentShape'
  BY <1>2, <1>5 DEF ChainInv, IdentShape
<1>9. LastShape'
  <2>1. ASSUME NEW f \in Files, IsTail(f)
        PROVE  ackFile <= seg'[f].last /\ durable' <= seg'[f].last /\ seg'[f].tail = "clean"
    <3>1. f \in Seqs /\ ackFile <= seg[f].last /\ seg[f].tail # "corrupt" /\ seg[f] \in SegFile
      BY <2>1, FileOrder DEF ChainInv, LastShape, SpoolInv, TypeOK
    <3>2. h <= End(f)
      <4>1. CASE h = 0
        BY <1>4, <3>1, <4>1
      <4>2. ASSUME NEW g \in Files, HasFrame(g, h) PROVE h <= End(f)
        <5>1. g <= f /\ g \in Seqs /\ h <= End(g)
          BY <2>1, <4>2, FileOrder DEF IsTail, HasFrame
        <5>2. CASE g = f
          BY <5>1, <5>2
        <5>3. CASE g < f
          <6>1. seg[g].last < f /\ seg[g].tail = "clean"
            BY <1>1, <5>3
          <6>2. End(g) = seg[g].last
            BY <6>1 DEF End
          <6> QED BY <1>4, <3>1, <5>1, <6>1, <6>2
        <5> QED BY <1>4, <3>1, <5>1, <5>2, <5>3
      <4> QED BY <1>3, <4>1, <4>2 DEF IsHighest
    <3>3. seg'[f].tail = "clean"
      <4>1. CASE seg[f].tail \in Payloads
        <5>1. Walked(f) = [seg[f] EXCEPT !.last = seg[f].last + 1, !.tail = "clean", !.dirty = {},
                             !.dur = IF seg[f].dirty = {} THEN seg[f].last + 1 ELSE @]
          BY <4>1 DEF Walked
        <5> QED BY <1>4, <3>1, <5>1 DEF SegFile
      <4>2. CASE seg[f].tail \notin Payloads /\ seg[f].tail = "torn"
        <5>1. Walked(f) = [seg[f] EXCEPT !.tail = "clean", !.dirty = {}, !.dur = seg[f].last]
          BY <4>2 DEF Walked
        <5> QED BY <1>4, <3>1, <5>1 DEF SegFile
      <4>3. CASE seg[f].tail = "clean"
        BY <1>4, <3>1, <4>3
      <4> QED BY <3>1, <4>1, <4>2, <4>3 DEF SegFile, Tails
    <3>4. ackFile \in Nat /\ h \in Nat
      BY DEF SpoolInv, TypeOK
    <3> QED BY <1>3, <1>4, <3>1, <3>2, <3>3, <3>4 DEF Max2
  <2> QED BY <1>2, <1>5, <1>6, <2>1 DEF LastShape
<1>10. StableShape'
  <2>1. SUFFICES ASSUME "power" \in Endings, NEW f \in Seqs
                 PROVE  seg'[f].dur = seg'[f].last /\ seg'[f].dirty = {}
    BY DEF StableShape
  <2>2. seg[f].dur = seg[f].last /\ seg[f].dirty = {}
    BY <1>2, <2>1 DEF ChainInv, StableShape
  <2>3. seg[f] \in SegFile
    BY DEF SpoolInv, TypeOK
  <2>4. Walked(f).dur = Walked(f).last
    <3>1. CASE seg[f].tail \in Payloads
      <4>1. Walked(f) = [seg[f] EXCEPT !.last = seg[f].last + 1, !.tail = "clean",
                           !.dirty = {}, !.dur = seg[f].last + 1]
        BY <2>2, <3>1 DEF Walked
      <4> QED BY <2>3, <4>1 DEF SegFile
    <3>2. CASE seg[f].tail \notin Payloads /\ seg[f].tail = "torn"
      <4>1. Walked(f) = [seg[f] EXCEPT !.tail = "clean", !.dirty = {}, !.dur = seg[f].last]
        BY <3>2 DEF Walked
      <4> QED BY <2>3, <4>1 DEF SegFile
    <3>3. CASE seg[f].tail \notin Payloads /\ seg[f].tail # "torn"
      BY <2>2, <3>3 DEF Walked
    <3> QED BY <3>1, <3>2, <3>3
  <2> QED BY <1>4, <2>2, <2>4
<1> QED BY <1>2, <1>7, <1>8, <1>9, <1>10 DEF ChainInv

\* A power loss keeps every committed frame, and spoils at most the last file.
LEMMA ChainPowerLoss ==
  ASSUME SpoolInv, ChainInv, PowerLoss
  PROVE  ChainInv' \/ Spoiled'
<1> USE SpoolAssumption
<1>1. /\ pc' = "down" /\ UNCHANGED <<ident, ackFile>> /\ resid' = FALSE
      /\ \A f \in Seqs : f # fresh /\ f \notin Files => seg'[f] = seg[f]
      /\ \A f \in Files : f # fresh =>
           /\ seg'[f].hdr = seg[f].hdr /\ seg'[f].last = seg[f].dur
           /\ seg'[f].dur = seg[f].dur /\ seg'[f].tail \in TailImages(f) /\ seg'[f].dirty = {}
  BY PowerLeaves DEF PowerLoss, ProcessEnds
<1>2. PICK d \in FreshImages : \A f \in Files : f = fresh => seg'[f] = NewFile(f, d)
  BY PowerLeaves
<1>3. fresh # 0 => /\ fresh \in Seqs /\ fresh \in Files /\ IsTail(fresh)
                   /\ seg[fresh] = NewFile(fresh, seg[fresh].hdr)
  BY DEF SpoolInv, FreshShape, IsTail, Files
<1>4. \A f \in Files : f \in Seqs /\ f \in Nat /\ f # 0
  BY FileOrder DEF Seqs
<1>5. ASSUME NEW f \in Files, f = fresh
      PROVE  /\ seg'[f].last = f - 1 /\ seg'[f].dur = f - 1 /\ seg'[f].tail = "clean"
             /\ seg'[f].dirty = {} /\ seg[f].last = f - 1 /\ IsTail(f)
  <2>1. \A x : /\ NewFile(f, x).last = f - 1 /\ NewFile(f, x).dur = f - 1
               /\ NewFile(f, x).tail = "clean" /\ NewFile(f, x).dirty = {}
    BY DEF NewFile
  <2>2. seg'[f] = NewFile(f, d) /\ seg[f] = NewFile(f, seg[f].hdr) /\ IsTail(f)
    BY <1>2, <1>3, <1>4, <1>5
  <2> QED BY <2>1, <2>2
<1>6. \A f \in Seqs : seg[f].dur = seg[f].last /\ (seg[f].dirty # {} => pc = "written" /\ f = active)
  BY DEF PowerLoss, ChainInv, StableShape
<1>7. \A f \in Files : ~IsTail(f) => seg[f].dirty = {}
  BY <1>4, <1>6 DEF SpoolInv, WriterShape
<1>8. \A f \in Files : f # fresh /\ seg[f].dirty = {} => seg'[f].tail = seg[f].tail
  <2>1. ASSUME NEW f \in Files, seg[f].dirty = {} PROVE TailImages(f) = {seg[f].tail}
    <3>1. ~(seg[f].dur < seg[f].last) /\ seg[f].dur = seg[f].last
      BY <1>4, <1>6, FileFacts
    <3> QED BY <2>1, <3>1, Zenon DEF TailImages
  <2> QED BY <1>1, <2>1
<1>9. Files' \subseteq Files /\ \A f \in Files : f # fresh => f \in Files'
  <2>1. \A f \in Seqs : f \notin Files => f # fresh
    BY <1>3 DEF Seqs
  <2> QED BY <1>1, <1>4, <2>1 DEF Files
<1>10. \A f, g \in Files' : Follows(f, g)' => Follows(f, g) /\ f # fresh
  <2>1. ASSUME NEW f \in Files', NEW g \in Files', Follows(f, g)' PROVE Follows(f, g) /\ f # fresh
    <3>1. f \in Files /\ g \in Files /\ f < g /\ \A x \in Files : x # fresh => x <= f \/ g <= x
      BY <1>9, <2>1 DEF Follows
    <3>2. f # fresh
      BY <1>4, <1>5, <3>1 DEF IsTail
    <3>3. ASSUME NEW x \in Files, x = fresh PROVE g <= x
      BY <1>5, <3>1, <3>3 DEF IsTail
    <3> QED BY <3>1, <3>2, <3>3 DEF Follows
  <2> QED BY <2>1
<1>11. ChainShape'
  <2>1. ASSUME NEW f \in Files', NEW g \in Files', Follows(f, g)'
        PROVE  g = seg'[f].last + 1 /\ seg'[f].tail = "clean"
    <3>1. f \in Files /\ g \in Files /\ Follows(f, g) /\ f # fresh /\ ~IsTail(f)
      BY <1>4, <1>9, <1>10, <2>1 DEF Follows, IsTail
    <3>2. g = seg[f].last + 1 /\ seg[f].tail = "clean"
      BY <3>1 DEF ChainInv, ChainShape
    <3> QED BY <1>1, <1>4, <1>6, <1>7, <1>8, <3>1, <3>2
  <2> QED BY <2>1 DEF ChainShape
<1>12. ASSUME NEW f \in Files', IsTail(f)'
       PROVE  /\ ackFile <= seg'[f].last
              /\ seg'[f].tail = "corrupt" => seg'[f].hdr = "ok" /\ seg'[f].last <= AppendBound
  <2>1. f \in Files
    BY <1>9
  <2>2. CASE f = fresh
    BY <1>5, <2>1, <2>2 DEF ChainInv, LastShape
  <2>3. CASE f # fresh /\ IsTail(f)
    <3>1. ackFile <= seg[f].last /\ seg[f].tail # "corrupt"
      BY <2>1, <2>3 DEF ChainInv, LastShape
    <3>2. CASE seg[f].dirty = {}
      BY <1>1, <1>4, <1>6, <1>8, <2>1, <2>3, <3>1, <3>2
    <3>3. CASE seg[f].dirty # {}
      <4>1. pc = "written" /\ f = active
        BY <1>4, <1>6, <2>1, <3>3
      <4>2. seg[f].hdr = "ok" /\ seg[f].last + 1 <= AppendBound /\ seg[f].last \in Nat
        BY <1>4, <2>1, <4>1, FileFacts DEF SpoolInv, WriterShape
      <4> QED BY <1>1, <1>4, <1>6, <2>1, <2>3, <3>1, <4>2
    <3> QED BY <3>2, <3>3
  <2>4. CASE f # fresh /\ ~IsTail(f)
    <3>1. fresh \in Files /\ Follows(f, fresh)
      <4>1. PICK g \in Files : Follows(f, g)
        BY <2>1, <2>4, FileOrder
      <4>2. \A x \in Files : f < x => x = fresh
        BY <1>4, <1>9, <1>12, <2>1 DEF IsTail
      <4> QED BY <4>1, <4>2 DEF Follows
    <3>2. fresh = seg[f].last + 1 /\ seg[f].tail = "clean"
      BY <2>1, <3>1 DEF ChainInv, ChainShape
    <3>3. ackFile <= fresh - 1
      BY <1>5, <3>1 DEF ChainInv, LastShape
    <3>4. seg[f].last \in Nat
      BY <1>4, <2>1, FileFacts
    <3> QED BY <1>1, <1>4, <1>6, <1>7, <1>8, <2>1, <2>4, <3>2, <3>3, <3>4
  <2> QED BY <2>2, <2>3, <2>4
<1>13. \A f \in Seqs : seg'[f].dur = seg'[f].last /\ seg'[f].dirty = {}
  <2>1. ASSUME NEW f \in Seqs PROVE seg'[f].dur = seg'[f].last /\ seg'[f].dirty = {}
    <3>1. CASE f \in Files
      BY <1>1, <1>5, <1>6, <3>1
    <3>2. CASE f \notin Files
      <4>1. f # fresh /\ seg'[f] = seg[f]
        BY <1>1, <1>3, <3>2 DEF Seqs
      <4>2. seg[f].dirty = {}
        BY <1>6, <3>2 DEF SpoolInv, WriterShape, IsTail
      <4> QED BY <1>6, <4>1, <4>2
    <3> QED BY <3>1, <3>2
  <2> QED BY <2>1
<1>14. IdentShape' /\ StableShape'
  BY <1>1, <1>9, <1>13 DEF ChainInv, IdentShape, StableShape
<1>15. CASE \E f \in Files' : IsTail(f)' /\ seg'[f].tail = "corrupt"
  BY <1>1, <1>12, <1>13, <1>15 DEF PowerLoss, Spoiled
<1>16. CASE \A f \in Files' : IsTail(f)' => seg'[f].tail # "corrupt"
  <2>1. LastShape'
    BY <1>1, <1>12, <1>16 DEF LastShape
  <2> QED BY <1>1, <1>11, <1>14, <2>1 DEF ChainInv
<1> QED BY <1>15, <1>16

\* A spoiled spool stays as it is: no start gets past the walk.
LEMMA SpoiledStays ==
  ASSUME SpoolInv, Spoiled, [Next]_vars
  PROVE  Spoiled'
<1> USE SpoolAssumption
<1>1. PICK f \in Files : /\ IsTail(f) /\ seg[f].hdr = "ok" /\ seg[f].tail = "corrupt"
                         /\ ackFile <= seg[f].last /\ seg[f].last <= AppendBound
  BY DEF Spoiled
<1>2. ASSUME seg' = seg, ackFile' = ackFile, fresh' = 0, pc' \in {"down", "refused"}
      PROVE  Spoiled'
  <2>1. Files' = Files /\ (IsTail(f)' <=> IsTail(f))
    BY <1>2 DEF Files, IsTail
  <2> QED BY <1>1, <1>2, <2>1 DEF Spoiled
<1>3. CASE Recover
  <2>1. ~WalkOK
    BY <1>1 DEF WalkOK, InterruptedCreate
  <2> QED BY <1>2, <1>3, <2>1 DEF Recover, Spoiled
<1>4. CASE PowerLoss
  <2>1. \A g \in Seqs : g # fresh
    BY DEF Spoiled, Seqs
  <2>2. \A g \in Seqs : seg[g].dur = seg[g].last /\ seg[g].dirty = {} /\ seg[g] \in SegFile
    BY DEF Spoiled, SpoolInv, TypeOK
  <2>3. ASSUME NEW g \in Seqs PROVE seg'[g] = seg[g]
    <3>1. PICK t \in [Files -> Tails], h \in FreshImages :
            /\ \A x \in Files : t[x] \in TailImages(x)
            /\ seg' = [x \in Seqs |->
                         CASE x = fresh     -> NewFile(x, h)
                           [] x \notin Files -> seg[x]
                           [] OTHER -> [seg[x] EXCEPT !.last = seg[x].dur, !.tail = t[x],
                                                      !.dirty = {}]]
      BY <1>4 DEF PowerLoss
    <3>2. CASE g \notin Files
      BY <2>1, <3>1, <3>2
    <3>3. CASE g \in Files
      <4>1. ~(seg[g].dur < seg[g].last)
        BY <2>2, FileFacts
      <4>2. TailImages(g) = {seg[g].tail}
        BY <2>2, <4>1, Zenon DEF TailImages
      <4>3. seg'[g] = [seg[g] EXCEPT !.last = seg[g].dur, !.tail = t[g], !.dirty = {}]
        BY <2>1, <3>1, <3>3
      <4>4. t[g] = seg[g].tail
        BY <3>1, <3>3, <4>2
      <4>5. seg[g] = [seg[g] EXCEPT !.last = seg[g].last, !.tail = seg[g].tail, !.dirty = seg[g].dirty]
        BY <2>2 DEF SegFile
      <4> QED BY <2>2, <4>3, <4>4, <4>5
    <3> QED BY <3>2, <3>3
  <2>4. seg' = seg
    <3>1. seg \in [Seqs -> SegFile] /\ seg' = [x \in Seqs |-> seg'[x]]
      BY <1>4 DEF SpoolInv, TypeOK, PowerLoss
    <3> QED BY <2>3, <3>1
  <2> QED BY <1>2, <1>4, <2>4 DEF PowerLoss, ProcessEnds
<1>5. ASSUME NEW g \in Seqs, Writeback(g) PROVE FALSE
  <2>1. \E k \in seg[g].dur + 1..seg[g].last : TRUE
    BY <1>5 DEF Writeback
  <2>2. seg[g].dur = seg[g].last /\ seg[g].last \in Nat
    BY FileFacts DEF Spoiled
  <2> QED BY <2>1, <2>2
<1>6. CASE UNCHANGED vars
  BY <1>2, <1>6 DEF vars, Spoiled
<1>7. pc \in {"down", "refused"} /\ ~Serving
  BY DEF Spoiled, Serving
<1>8. ~( \/ BindIdentity \/ ReclaimEmptyTrailingSegment \/ OpenOrCreateSegment
         \/ CreateHeader \/ CreateSync \/ CreateFails
         \/ WriteFrame \/ AppendExhausted \/ Rotate \/ SyncFrame \/ AppendFails
         \/ Acknowledge \/ Stop \/ Kill )
  BY <1>7 DEF BindIdentity, ReclaimEmptyTrailingSegment, OpenOrCreateSegment, CreateHeader,
              CreateSync, CreateFails, WriteFrame, AppendExhausted, Rotate, SyncFrame,
              AppendFails, Acknowledge, Stop, Kill
<1>9. \A p \in Payloads : ~AppendObservation(p)
  BY <1>7 DEF AppendObservation
<1>10. \A n \in Seqs : ~Deliver(n) /\ ~Compact(n)
  BY <1>7 DEF Deliver, Compact
<1> QED BY <1>3, <1>4, <1>5, <1>6, <1>8, <1>9, <1>10 DEF Next, Boot

\* The identity is bound, or the watermark moves: no file changes.
LEMMA ChainSidecars ==
  ASSUME SpoolInv, ChainInv, BindIdentity \/ Acknowledge
  PROVE  ChainInv'
<1> USE SpoolAssumption
<1>1. UNCHANGED <<seg, durable, resid, active>>
  BY DEF BindIdentity, Acknowledge
<1>2. Files' = Files /\ \A f, g \in Files : (Follows(f, g)' <=> Follows(f, g)) /\ (IsTail(f)' <=> IsTail(f))
  BY <1>1 DEF Files, Follows, IsTail
<1>3. CASE BindIdentity
  <2>1. /\ pc = "recovered" /\ pc' = "bound" /\ ident' = TRUE /\ ackFile' = ackFile
    BY <1>3 DEF BindIdentity, ChainInv, IdentShape
  <2>2. LastShape'
    BY <1>1, <1>2, <2>1 DEF ChainInv, LastShape
  <2>3. IdentShape' /\ ChainShape' /\ StableShape'
    BY <1>1, <1>2, <2>1 DEF ChainInv, IdentShape, ChainShape, StableShape
  <2> QED BY <2>1, <2>2, <2>3 DEF ChainInv
<1>4. CASE Acknowledge
  <2>1. /\ pc' = pc /\ ident' = ident /\ ackFile' = sent /\ sent <= durable
        /\ pc \notin {"down", "refused", "recovered"}
    BY <1>4 DEF Acknowledge, SpoolInv, AckShape, Serving
  <2>2. \A f \in Files : IsTail(f) => sent <= seg[f].last
    <3>1. ASSUME NEW f \in Files, IsTail(f) PROVE sent <= seg[f].last
      <4>1. durable <= seg[f].last
        BY <2>1, <3>1 DEF ChainInv, LastShape
      <4>2. sent \in Nat /\ durable \in Nat /\ seg[f].last \in Nat
        BY FileOrder, FileFacts DEF SpoolInv, TypeOK
      <4> QED BY <2>1, <4>1, <4>2
    <3> QED BY <3>1
  <2>3. LastShape'
    BY <1>1, <1>2, <2>1, <2>2 DEF ChainInv, LastShape
  <2>4. IdentShape' /\ ChainShape' /\ StableShape'
    BY <1>1, <1>2, <2>1 DEF ChainInv, IdentShape, ChainShape, StableShape
  <2> QED BY <2>1, <2>3, <2>4 DEF ChainInv
<1> QED BY <1>3, <1>4

\* The files stay a chain, step by step.
LEMMA ChainHolds ==
  ASSUME AppendBound < SequenceMax, WritesAreSafe
  PROVE  Spec => [](ChainInv \/ Spoiled)
<1> USE SpoolAssumption
<1>1. Init => ChainInv
  <2>1. SUFFICES ASSUME Init PROVE ChainInv
    OBVIOUS
  <2>2. \A f \in Seqs : seg[f].hdr = "absent" /\ seg[f].dur = seg[f].last /\ seg[f].dirty = {}
    <3>1. ASSUME NEW f \in Seqs
          PROVE  seg[f].hdr = "absent" /\ seg[f].dur = seg[f].last /\ seg[f].dirty = {}
      <4>1. seg[f] = NewFile(f, "absent")
        BY <2>1 DEF Init
      <4> QED BY <4>1 DEF NewFile
    <3> QED BY <3>1
  <2>3. Files = {}
    BY <2>2 DEF Files
  <2> QED BY <2>1, <2>2, <2>3 DEF Init, ChainInv, IdentShape, ChainShape, LastShape, StableShape
<1>2. SpoolInv /\ ChainInv /\ [Next]_vars => ChainInv' \/ Spoiled'
  <2>1. SUFFICES ASSUME SpoolInv, ChainInv, [Next]_vars PROVE ChainInv' \/ Spoiled'
    OBVIOUS
  <2>2. CASE UNCHANGED vars
    BY <2>1, <2>2, ChainQuiet DEF vars, ChainInv
  <2>3. CASE \/ CreateSync \/ CreateFails \/ AppendExhausted \/ Stop
             \/ \E p \in Payloads : AppendObservation(p)
             \/ \E n \in Seqs : Deliver(n)
    <3>1. /\ UNCHANGED <<seg, ident, ackFile>> /\ pc' # "refused"
          /\ resid' = resid \/ ~resid'
          /\ pc' = "down" \/ durable' = durable
      BY <2>1, <2>3 DEF CreateSync, CreateFails, AppendExhausted, Stop, ProcessEnds,
                  AppendObservation, Deliver, disk, ChainInv
    <3>2. \/ pc' = pc /\ active' = active
          \/ pc \notin {"down", "recovered", "written"} /\ pc' \notin {"recovered", "reclaimed", "written"}
      BY <2>3 DEF CreateSync, CreateFails, AppendExhausted, Stop, ProcessEnds,
                  AppendObservation, Deliver
    <3>3. pc = "written" /\ pc' = "down" => "power" \notin Endings
      BY <3>2
    <3> QED BY <2>1, <3>1, <3>2, <3>3, ChainQuiet
  <2>4. CASE \E f \in Seqs : Writeback(f)
    <3>1. PICK f \in Seqs : Writeback(f)
      BY <2>4
    <3>2. "power" \in Endings /\ \E k \in seg[f].dur + 1..seg[f].last : TRUE
      BY <3>1 DEF Writeback
    <3>3. seg[f].dur = seg[f].last /\ seg[f].last \in Nat
      BY <2>1, <3>2, FileFacts DEF ChainInv, StableShape
    <3> QED BY <3>2, <3>3
  <2>5. CASE Recover
    BY <2>1, <2>5, ChainRecover
  <2>6. CASE ReclaimEmptyTrailingSegment \/ OpenOrCreateSegment \/ Rotate
    BY <2>1, <2>6, ChainOpen
  <2>7. CASE CreateHeader \/ WriteFrame \/ SyncFrame \/ AppendFails
    BY <2>1, <2>7, ChainAppend
  <2>8. CASE BindIdentity \/ Acknowledge
    BY <2>1, <2>8, ChainSidecars
  <2>9. CASE \E f \in Seqs : Compact(f)
    <3>1. PICK f \in Seqs : Compact(f)
      BY <2>9
    <3>2. /\ f \in Files /\ seg' = [seg EXCEPT ![f] = NewFile(f, "absent")]
          /\ UNCHANGED <<ackFile, durable, ident, resid, active, pc>>
          /\ \A g \in Files : f <= g
      BY <3>1 DEF Compact
    <3>3. ~IsTail(f)
      BY <3>1, FileOrder DEF Compact, Follows, IsTail
    <3> QED BY <2>1, <3>2, <3>3, ChainShortened
  <2>10. CASE PowerLoss
    BY <2>1, <2>10, ChainPowerLoss
  <2>11. CASE Kill
    <3>1. /\ UNCHANGED <<seg, ident, ackFile>> /\ pc' = "down" /\ ~resid' /\ "power" \notin Endings
          /\ pc # "down"
      BY <2>11 DEF Kill, ProcessEnds, disk, WritesAreSafe
    <3>2. pc # "recovered" => ChainInv'
      BY <2>1, <3>1, ChainQuiet
    <3>3. ASSUME pc = "recovered" PROVE ChainInv'
      <4>1. Files' = Files /\ \A f, g \in Files : (Follows(f, g)' <=> Follows(f, g)) /\ (IsTail(f)' <=> IsTail(f))
        BY <3>1 DEF Files, Follows, IsTail
      <4>2. IdentShape' /\ ChainShape'
        BY <2>1, <3>1, <4>1 DEF ChainInv, IdentShape, ChainShape
      <4>3. LastShape' /\ StableShape'
        BY <2>1, <3>1, <4>1 DEF ChainInv, LastShape, StableShape
      <4> QED BY <3>1, <4>2, <4>3 DEF ChainInv
    <3> QED BY <3>2, <3>3
  <2> QED BY <2>1, <2>2, <2>3, <2>4, <2>5, <2>6, <2>7, <2>8, <2>9, <2>10, <2>11 DEF Next, Boot
<1>3. SpoolInv /\ Spoiled /\ [Next]_vars => Spoiled'
  BY SpoiledStays
<1> QED BY <1>1, <1>2, <1>3, InvariantHolds, PTL DEF Spec

\* Whatever the daemon, its kills, failed calls and the uploader leave on disk,
\* the next start accepts, and of what a power loss leaves it refuses only a
\* spoiled frame that nobody was told of.  The hypothesis WritesAreSafe excludes
\* power losses together with kills or failed writes, and failed truncates.
THEOREM StartsAccepted ==
  ASSUME AppendBound < SequenceMax, WritesAreSafe
  PROVE  Spec => []RefusesOnlyUnreported
<1> USE SpoolAssumption
<1>1. ChainInv => RefusesOnlyUnreported
  BY DEF ChainInv, RefusesOnlyUnreported
<1>2. ASSUME SpoolInv, Spoiled PROVE RefusesOnlyUnreported
  <2>1. PICK f \in Files : /\ IsTail(f) /\ seg[f].hdr = "ok" /\ seg[f].tail = "corrupt"
                           /\ ackFile <= seg[f].last /\ seg[f].last <= AppendBound
    BY <1>2 DEF Spoiled
  <2> DEFINE s == seg[f].last + 1
  <2>2. /\ f \in Seqs /\ f \in Nat /\ seg[f].last \in Nat /\ seg[f].dur = seg[f].last
        /\ f - 1 <= seg[f].last /\ ackFile \in Nat
    BY <1>2, FileOrder, FileFacts DEF Spoiled, SpoolInv, TypeOK
  <2>3. s \in Seqs /\ f <= s /\ ~(s <= ackFile)
    BY <2>1, <2>2 DEF Seqs
  <2>4. ASSUME NEW g \in Seqs, seg[g].hdr = "ok", g <= s, s <= seg[g].dur PROVE FALSE
    <3>1. g \in Files /\ g \in Nat /\ seg[g].last \in Nat /\ seg[g].dur <= seg[g].last /\ seg[g].dur \in Nat
      BY <1>2, <2>4, FileOrder, FileFacts DEF Files
    <3>2. g <= f
      BY <2>1, <3>1 DEF IsTail
    <3>3. CASE g < f
      <4>1. seg[g].last < f
        BY <1>2, <2>1, <3>1, <3>3 DEF SpoolInv, NoOverlap
      <4> QED BY <2>2, <2>3, <2>4, <3>1, <4>1
    <3> QED BY <2>2, <2>4, <3>1, <3>2, <3>3
  <2>5. reported[s] = NoPayload
    BY <1>2, <2>3, <2>4 DEF SpoolInv, ReportedDurable, Stored
  <2> QED BY <1>2, <2>1, <2>5 DEF Spoiled, RefusesOnlyUnreported
<1> QED BY <1>1, <1>2, InvariantHolds, ChainHolds, PTL
============================================================================
