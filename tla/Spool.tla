------------------------------- MODULE Spool -------------------------------
(***************************************************************************)
(* The observer daemon's durable spool: the write-ahead log of segment     *)
(* files with its identity and acknowledgement sidecars                    *)
(* (internal/observer/spool), and the single writer that recovers, opens,  *)
(* rotates and appends to it (SpoolWriter, internal/observer/local).       *)
(*                                                                         *)
(* A segment file is named by the first sequence it holds and is modelled  *)
(* by a record of                                                          *)
(*   hdr    "absent", "short" (fewer bytes than the fixed header prefix),  *)
(*          "long" (more, but not a valid header) or "ok";                 *)
(*   last   the sequence of its last complete frame, first - 1 when empty; *)
(*   dur    the last sequence an fsync or write-back put on stable storage;*)
(*   tail   the bytes after frame `last': none, a frame cut short, bytes   *)
(*          that fail a checksum, or one more whole frame (its payload);   *)
(*   dirty  payloads written after `last' since the last fsync: any of     *)
(*          them may be what a power loss leaves behind.                   *)
(* Frame payloads live in `wal', indexed by sequence.  Record sizes are    *)
(* abstracted: a segment that holds a frame may be full for the next one.  *)
(*                                                                         *)
(* The uploader and the Collector appear only as far as they read frames   *)
(* and advance the ack sidecar; module ConsentFence models the upload      *)
(* lane's own steps.                                                       *)
(***************************************************************************)
EXTENDS Naturals

CONSTANTS
  Payloads,      \* canonical observation payloads
  NoPayload,     \* no payload
  SequenceMax,   \* wire.SequenceMax, the last source sequence
  AppendBound,   \* bound: producers stop after this sequence
  SegFrames,     \* bound: a segment with this many frames is full
  Endings,       \* how the daemon may end: subset of {"stop", "kill", "power"}
  Faults,        \* subset of {"write", "truncate", "create"}
  MaxCrashes,    \* bound on crashes
  MaxFaults      \* bound on failed I/O calls

ASSUME SpoolAssumption ==
  /\ SequenceMax \in Nat \ {0}
  /\ AppendBound \in Nat
  /\ SegFrames \in Nat \ {0}
  /\ MaxCrashes \in Nat
  /\ MaxFaults \in Nat
  /\ Payloads \cap {"clean", "torn", "corrupt"} = {}
  /\ NoPayload \notin Payloads

VARIABLES
  seg,        \* [Seqs -> SegFile]: wal/<first>.seg
  wal,        \* [Seqs -> payload]: the frame payloads
  fresh,      \* the segment whose creation is not durable yet, or 0
  ident,      \* whether the identity sidecar exists
  ackFile,    \* the ack sidecar: acknowledged_through
  pc,         \* where the daemon process is
  active,     \* the first sequence of the SpoolWriter's segment
  next,       \* Recovery.NextSequence
  durable,    \* the writer's AckState.highestDurable
  req,        \* the payload of the append being served, or NoPayload
  resid,      \* the frame being written may leave older bytes behind it
  sent,       \* the last sequence of a batch the Collector has taken, or 0
  reported,   \* history: the AppendAck replies, payload by sequence
  collector,  \* external: the payload the Collector bound to a sequence
  crashes, faults

disk == <<seg, wal, fresh, ident, ackFile>>
hist == <<reported, collector>>
vars == <<seg, wal, fresh, ident, ackFile, pc, active, next, durable, req,
          resid, sent, reported, collector, crashes, faults>>

----------------------------------------------------------------------------
Seqs == 1..SequenceMax
Tails == {"clean", "torn", "corrupt"} \cup Payloads
SegFile == [hdr : {"absent", "short", "long", "ok"}, last : 0..SequenceMax,
            dur : 0..SequenceMax, tail : Tails, dirty : SUBSET Payloads]

\* A file with the given header state and no frame.
NewFile(f, h) ==
  [hdr |-> h, last |-> f - 1, dur |-> f - 1, tail |-> "clean", dirty |-> {}]

Files == {f \in Seqs : seg[f].hdr # "absent"}
IsTail(f) == f \in Files /\ \A g \in Files : g <= f
Follows(f, g) ==
  /\ f \in Files /\ g \in Files /\ f < g
  /\ \A h \in Files : h <= f \/ g <= h

\* The last complete frame a reader of the file finds.
End(f) == IF seg[f].tail \in Payloads THEN seg[f].last + 1 ELSE seg[f].last

\* Sequence s is a complete frame of segment f.
HasFrame(f, s) == seg[f].hdr = "ok" /\ f <= s /\ s <= End(f)

\* Mutant: only a headerless file counts as empty.
EmptyTrailingHeaderless(f) == IsTail(f) /\ seg[f].hdr # "ok"

\* The segment holds no frame, so its name collides with the next one.
EmptyTrailing(f) == IsTail(f) /\ (seg[f].hdr # "ok" \/ seg[f].last < f)

TypeOK ==
  /\ seg \in [Seqs -> SegFile]
  /\ wal \in [Seqs -> Payloads \cup {NoPayload}]
  /\ fresh \in 0..SequenceMax
  /\ ident \in BOOLEAN
  /\ ackFile \in 0..SequenceMax
  /\ pc \in {"down", "recovered", "bound", "reclaimed", "creating", "header",
             "ready", "append", "written", "closed", "refused"}
  /\ active \in 0..SequenceMax
  /\ next \in 0..SequenceMax
  /\ durable \in 0..SequenceMax
  /\ req \in Payloads \cup {NoPayload}
  /\ resid \in BOOLEAN
  /\ sent \in 0..SequenceMax
  /\ reported \in [Seqs -> Payloads \cup {NoPayload}]
  /\ collector \in [Seqs -> Payloads \cup {NoPayload}]
  /\ crashes \in 0..MaxCrashes
  /\ faults \in 0..MaxFaults

Init ==
  /\ seg = [f \in Seqs |-> NewFile(f, "absent")]
  /\ wal = [s \in Seqs |-> NoPayload]
  /\ fresh = 0 /\ ident = FALSE /\ ackFile = 0
  /\ pc = "down" /\ active = 0 /\ next = 0 /\ durable = 0
  /\ req = NoPayload /\ resid = FALSE /\ sent = 0
  /\ reported = [s \in Seqs |-> NoPayload]
  /\ collector = [s \in Seqs |-> NoPayload]
  /\ crashes = 0 /\ faults = 0

----------------------------------------------------------------------------
(* Startup: NewSpoolWriter *)

\* Mutant: the bound is the fixed prefix even when the identity is known.
InterruptedCreateShort(f) == seg[f].hdr = "short"

\* A trailing file too small to have held a frame is an interrupted create.
InterruptedCreate(f) == seg[f].hdr = "short" \/ (seg[f].hdr = "long" /\ ident)

\* The walk over the segments meets no corruption.
WalkOK ==
  /\ \A f \in Files :
       IF IsTail(f)
         THEN InterruptedCreate(f) \/ (seg[f].hdr = "ok" /\ seg[f].tail # "corrupt")
         ELSE seg[f].hdr = "ok" /\ seg[f].tail \in {"clean"} \cup Payloads
  /\ \A f, g \in Files :
       Follows(f, g) /\ seg[g].hdr = "ok" => g = End(f) + 1

IsHighest(h) ==
  /\ h = 0 \/ \E f \in Files : HasFrame(f, h)
  /\ \A f \in Files : \A s \in Seqs : HasFrame(f, s) => s <= h

Max2(a, b) == IF a >= b THEN a ELSE b

\* Mutant: the ack sidecar is ignored.
NextSequenceNoAck(highest, ack) == IF highest >= SequenceMax THEN SequenceMax ELSE highest + 1

NextSequence(highest, ack) ==
  IF Max2(highest, ack) >= SequenceMax THEN SequenceMax
                                       ELSE Max2(highest, ack) + 1

\* What the walk leaves of segment f: a whole extra frame counts as durable
\* as it is read, without an fsync; a torn one is truncated and fsynced.
Walked(f) ==
  CASE seg[f].tail \in Payloads ->
         [seg[f] EXCEPT !.last = seg[f].last + 1, !.tail = "clean", !.dirty = {},
                        !.dur = IF seg[f].dirty = {} THEN seg[f].last + 1 ELSE @]
    [] seg[f].tail = "torn" ->
         [seg[f] EXCEPT !.tail = "clean", !.dirty = {}, !.dur = seg[f].last]
    [] OTHER -> seg[f]

\* Sequence s is the whole extra frame of segment f.
Extra(f, s) == f \in Files /\ seg[f].tail \in Payloads /\ s = seg[f].last + 1

Recover ==
  /\ pc \in {"down", "refused"}
  /\ \/ /\ WalkOK
        /\ \E h \in 0..SequenceMax :
             /\ IsHighest(h)
             /\ next' = NextSequence(h, ackFile)
             /\ durable' = Max2(h, ackFile)
        /\ seg' = [f \in Seqs |-> Walked(f)]
        /\ wal' = [s \in Seqs |-> IF \E f \in Seqs : Extra(f, s)
                                    THEN seg[CHOOSE f \in Seqs : Extra(f, s)].tail
                                    ELSE wal[s]]
        /\ pc' = "recovered"
     \/ ~WalkOK /\ pc' = "refused" /\ UNCHANGED <<seg, wal, next, durable>>
  /\ UNCHANGED <<fresh, ident, ackFile, active, req, resid, sent, hist, crashes, faults>>

\* The identity sidecar is bound before any segment is created.  Without it
\* and without a readable header an acknowledged spool is refused.
BindIdentity ==
  /\ pc = "recovered"
  /\ IF ~ident /\ ackFile > 0 /\ \A f \in Files : seg[f].hdr # "ok"
       THEN pc' = "refused" /\ UNCHANGED ident
       ELSE pc' = "bound" /\ ident' = TRUE
  /\ UNCHANGED <<seg, wal, fresh, ackFile, active, next, durable, req, resid, sent,
                 hist, crashes, faults>>

ReclaimEmptyTrailingSegment ==
  /\ pc = "bound"
  /\ \/ \E f \in Files : /\ EmptyTrailing(f)
                         /\ seg' = [seg EXCEPT ![f] = NewFile(f, "absent")]
                         /\ fresh' = 0
     \/ /\ ~\E f \in Files : EmptyTrailing(f)
        /\ UNCHANGED <<seg, fresh>>
  /\ pc' = "reclaimed"
  /\ UNCHANGED <<wal, ident, ackFile, active, next, durable, req, resid, sent, hist,
                 crashes, faults>>

\* CreateSegment's O_EXCL open; an existing file fails the call.
OpenNewFile(f, failed) ==
  IF f \in Files
    THEN pc' = failed /\ UNCHANGED <<seg, fresh>>
    ELSE /\ seg' = [seg EXCEPT ![f] = NewFile(f, "short")]
         /\ fresh' = f
         /\ pc' = "creating"

\* Segment.LastSequence is 0 for a segment without a frame.
LastSequence(f) == IF seg[f].last < f THEN 0 ELSE seg[f].last

\* The last segment is continued only when its tail is one below next; the
\* comparison last + 1 = next wraps at SequenceMax and then never holds.
OpenOrCreateSegment ==
  /\ pc = "reclaimed"
  /\ \/ \E f \in Files : /\ IsTail(f) /\ LastSequence(f) + 1 = next
                         /\ active' = f /\ pc' = "ready"
                         /\ UNCHANGED <<seg, fresh>>
     \/ /\ ~\E f \in Files : IsTail(f) /\ LastSequence(f) + 1 = next
        /\ OpenNewFile(next, "down")
        /\ UNCHANGED active
  /\ UNCHANGED <<wal, ident, ackFile, next, durable, req, resid, sent, hist, crashes,
                 faults>>

----------------------------------------------------------------------------
(* CreateSegment, shared by startup and rotation *)

CreateHeader ==
  /\ pc = "creating"
  /\ seg' = [seg EXCEPT ![fresh].hdr = "ok"]
  /\ pc' = "header"
  /\ UNCHANGED <<wal, fresh, ident, ackFile, active, next, durable, req, resid, sent,
                 hist, crashes, faults>>

\* The header and the directory entry are fsynced, and the segment is used.
CreateSync ==
  /\ pc = "header"
  /\ active' = fresh
  /\ fresh' = 0
  /\ pc' = IF req = NoPayload THEN "ready" ELSE "append"
  /\ UNCHANGED <<seg, wal, ident, ackFile, next, durable, req, resid, sent, hist,
                 crashes, faults>>

\* A failed create ends startup; in a rotation it leaves the writer holding
\* the segment it has just closed.
CreateFails ==
  /\ pc \in {"creating", "header"}
  /\ "create" \in Faults /\ faults < MaxFaults
  /\ faults' = faults + 1
  /\ pc' = IF req = NoPayload THEN "down" ELSE "closed"
  /\ req' = NoPayload
  /\ UNCHANGED <<disk, active, next, durable, resid, sent, hist, crashes>>

----------------------------------------------------------------------------
(* SpoolWriter.AppendObservation *)

Count(f) == seg[f].last + 1 - f

AppendObservation(p) ==
  /\ pc = "ready"
  /\ seg[active].last + 1 <= AppendBound
  /\ req' = p
  /\ pc' = "append"
  /\ UNCHANGED <<disk, active, next, durable, resid, sent, hist, crashes, faults>>

\* Segment.Append up to WriteAt: the frame is in the page cache.
WriteFrame ==
  /\ pc = "append"
  /\ seg[active].last < SequenceMax
  /\ Count(active) < SegFrames
  /\ seg' = [seg EXCEPT ![active] =
               [seg[active] EXCEPT !.tail = req,
                  !.dirty = seg[active].dirty \cup {req} \cup ({seg[active].tail} \cap Payloads)]]
  /\ resid' = (seg[active].tail # "clean")
  /\ pc' = "written"
  /\ UNCHANGED <<wal, fresh, ident, ackFile, active, next, durable, req, sent, hist,
                 crashes, faults>>

\* ErrSequenceExhausted: nothing is written.
AppendExhausted ==
  /\ pc = "append"
  /\ seg[active].last >= SequenceMax
  /\ req' = NoPayload
  /\ pc' = "ready"
  /\ UNCHANGED <<disk, active, next, durable, resid, sent, hist, crashes, faults>>

\* Mutant: the next segment is named after the last frame, not the next one.
RotateAtLast ==
  /\ pc = "append"
  /\ seg[active].last < SequenceMax
  /\ Count(active) > 0
  /\ OpenNewFile(seg[active].last, "closed")
  /\ req' = IF pc' = "closed" THEN NoPayload ELSE req
  /\ UNCHANGED <<wal, ident, ackFile, active, next, durable, resid, sent, hist, crashes,
                 faults>>

\* ErrSegmentFull: the segment is closed and the next one created.
Rotate ==
  /\ pc = "append"
  /\ seg[active].last < SequenceMax
  /\ Count(active) > 0
  /\ OpenNewFile(seg[active].last + 1, "closed")
  /\ req' = IF pc' = "closed" THEN NoPayload ELSE req
  /\ UNCHANGED <<wal, ident, ackFile, active, next, durable, resid, sent, hist, crashes,
                 faults>>

\* Mutant: the append is reported without an fsync.
SyncFrameSkipped ==
  /\ pc = "written"
  /\ LET s == seg[active].last + 1 IN
       /\ seg' = [seg EXCEPT ![active] = [@ EXCEPT !.last = s, !.tail = "clean"]]
       /\ wal' = [wal EXCEPT ![s] = req]
       /\ durable' = Max2(durable, s)
       /\ reported' = [reported EXCEPT ![s] = req]
  /\ req' = NoPayload /\ resid' = FALSE
  /\ pc' = "ready"
  /\ UNCHANGED <<fresh, ident, ackFile, active, next, sent, collector, crashes, faults>>

\* The fsync succeeds and only then is the append reported.  Bytes an earlier
\* failed truncate left beyond the frame stay.
SyncFrame ==
  /\ pc = "written"
  /\ LET s == seg[active].last + 1 IN
       /\ \E t \in IF resid THEN {"clean", "torn", "corrupt"} ELSE {"clean"} :
            seg' = [seg EXCEPT ![active] = [@ EXCEPT !.last = s, !.dur = s,
                                              !.tail = t, !.dirty = {}]]
       /\ wal' = [wal EXCEPT ![s] = req]
       /\ durable' = Max2(durable, s)
       /\ reported' = [reported EXCEPT ![s] = req]
  /\ req' = NoPayload /\ resid' = FALSE
  /\ pc' = "ready"
  /\ UNCHANGED <<fresh, ident, ackFile, active, next, sent, collector, crashes, faults>>

\* WriteAt or fsync fails; rollback truncates, best effort and unsynced.
AppendFails ==
  /\ pc = "written"
  /\ "write" \in Faults /\ faults < MaxFaults
  /\ faults' = faults + 1
  /\ \E t \in {"clean"} \cup (IF "truncate" \in Faults
                               THEN {req, "torn"} \cup (IF resid THEN {"corrupt"} ELSE {})
                               ELSE {}) :
       seg' = [seg EXCEPT ![active].tail = t]
  /\ req' = NoPayload /\ resid' = FALSE
  /\ pc' = "ready"
  /\ UNCHANGED <<wal, fresh, ident, ackFile, active, next, durable, sent, hist, crashes>>

----------------------------------------------------------------------------
(* The uploader, as far as it touches the spool *)

Serving == \/ pc \in {"ready", "append", "written", "closed"}
           \/ pc \in {"creating", "header"} /\ req # NoPayload

\* SpoolFrameStore.ReadRange returns exactly the frames first..last.
ReadRange(first, last) ==
  /\ \A f \in Files : f <= last =>
       seg[f].hdr = "ok" /\ seg[f].tail \in {"clean"} \cup Payloads
  /\ \A s \in first..last : \E f \in Files :
       HasFrame(f, s) /\ \A g \in Files : HasFrame(g, s) => g = f

\* One batch from acknowledged_through + 1 reaches the Collector, which binds
\* each sequence to the first payload it sees and refuses another (409).
Deliver(last) ==
  /\ Serving
  /\ last \in ackFile + 1..durable
  /\ ReadRange(ackFile + 1, last)
  /\ \A s \in ackFile + 1..last : collector[s] \in {NoPayload, wal[s]}
  /\ collector' = [s \in Seqs |-> IF s \in ackFile + 1..last THEN wal[s]
                                                             ELSE collector[s]]
  /\ sent' = last
  /\ UNCHANGED <<disk, pc, active, next, durable, req, resid, reported, crashes, faults>>

\* Mutant: the watermark follows the highest durable sequence, not the batch.
AcknowledgeAll ==
  /\ Serving
  /\ sent > ackFile
  /\ ackFile' = durable
  /\ sent' = 0
  /\ UNCHANGED <<seg, wal, fresh, ident, pc, active, next, durable, req, resid, hist,
                 crashes, faults>>

Acknowledge ==
  /\ Serving
  /\ sent > ackFile
  /\ ackFile' = sent
  /\ sent' = 0
  /\ UNCHANGED <<seg, wal, fresh, ident, pc, active, next, durable, req, resid, hist,
                 crashes, faults>>

\* Mutant: a segment goes although its last frame is not acknowledged.
CompactEarly(f) ==
  /\ Serving
  /\ f \in Files
  /\ \A g \in Files : f <= g
  /\ \E g \in Files : Follows(f, g) /\ g - 2 <= ackFile
  /\ seg' = [seg EXCEPT ![f] = NewFile(f, "absent")]
  /\ UNCHANGED <<wal, fresh, ident, ackFile, pc, active, next, durable, req, resid, sent,
                 hist, crashes, faults>>

\* Compact removes whole acknowledged segments from the front, one durable
\* removal at a time, never the last.
Compact(f) ==
  /\ Serving
  /\ f \in Files
  /\ \A g \in Files : f <= g
  /\ \E g \in Files : Follows(f, g) /\ g - 1 <= ackFile
  /\ seg' = [seg EXCEPT ![f] = NewFile(f, "absent")]
  /\ UNCHANGED <<wal, fresh, ident, ackFile, pc, active, next, durable, req, resid, sent,
                 hist, crashes, faults>>

----------------------------------------------------------------------------
(* Stops and crashes *)

\* Everything the process holds in memory is gone; a restart begins at Recover.
ProcessEnds ==
  /\ pc' = "down" /\ active' = 0 /\ next' = 0 /\ durable' = 0
  /\ req' = NoPayload /\ resid' = FALSE /\ sent' = 0

\* A graceful stop: SpoolWriter.Close.
Stop ==
  /\ "stop" \in Endings
  /\ pc \in {"ready", "closed"}
  /\ ProcessEnds
  /\ UNCHANGED <<disk, hist, crashes, faults>>

\* The process dies: the page cache survives.
Kill ==
  /\ "kill" \in Endings /\ crashes < MaxCrashes
  /\ pc \notin {"down", "refused"}
  /\ crashes' = crashes + 1
  /\ ProcessEnds
  /\ UNCHANGED <<disk, hist, faults>>

\* The kernel may put cached frames of a file on stable storage at any time.
Writeback(f) ==
  /\ "power" \in Endings
  /\ \E k \in seg[f].dur + 1..seg[f].last : seg' = [seg EXCEPT ![f].dur = k]
  /\ UNCHANGED <<wal, fresh, ident, ackFile, pc, active, next, durable, req, resid, sent,
                 hist, crashes, faults>>

\* What may follow the last durable frame of f after a power loss: of a frame
\* that was not synced any part may have reached the disk, also its length
\* without all of its bytes, which then fail a checksum.
TailImages(f) ==
  CASE seg[f].dur < seg[f].last -> {"clean", "torn", "corrupt"}
    [] seg[f].dur = seg[f].last /\ seg[f].dirty = {} -> {seg[f].tail}
    [] OTHER -> {"clean", "torn", "corrupt", seg[f].tail} \cup seg[f].dirty

\* What a power loss may leave of a file whose creation is not durable.
FreshImages ==
  IF fresh # 0 /\ seg[fresh].hdr = "ok"
    THEN {"absent", "short", "long", "ok"} ELSE {"absent", "short"}

\* The machine loses power: unsynced frames and an unsynced create are gone.
PowerLoss ==
  /\ "power" \in Endings /\ crashes < MaxCrashes
  /\ crashes' = crashes + 1
  /\ \E t \in [Files -> Tails], h \in FreshImages :
       /\ \A f \in Files : t[f] \in TailImages(f)
       /\ seg' = [f \in Seqs |->
                    CASE f = fresh     -> NewFile(f, h)
                      [] f \notin Files -> seg[f]
                      [] OTHER -> [seg[f] EXCEPT !.last = seg[f].dur, !.tail = t[f],
                                                 !.dirty = {}]]
  /\ fresh' = 0
  /\ ProcessEnds
  /\ UNCHANGED <<wal, ident, ackFile, hist, faults>>

----------------------------------------------------------------------------
Boot == Recover \/ BindIdentity \/ ReclaimEmptyTrailingSegment \/ OpenOrCreateSegment
          \/ CreateHeader \/ CreateSync

Next ==
  \/ Boot
  \/ CreateFails
  \/ \E p \in Payloads : AppendObservation(p)
  \/ WriteFrame \/ AppendExhausted \/ Rotate \/ SyncFrame \/ AppendFails
  \/ \E n \in Seqs : Deliver(n)
  \/ Acknowledge
  \/ \E f \in Seqs : Compact(f) \/ Writeback(f)
  \/ Stop \/ Kill \/ PowerLoss

Spec == Init /\ [][Next]_vars

\* The daemon's own code runs straight ahead between I/O calls: a startup and
\* an append in progress are not abandoned while the process lives.
Serve == WriteFrame \/ AppendExhausted \/ Rotate \/ SyncFrame
FairSpec == Spec /\ WF_vars(Boot) /\ WF_vars(Serve)

----------------------------------------------------------------------------
(* Properties *)

\* Sequence s is on stable storage with payload p.
Stored(s, p) ==
  /\ wal[s] = p
  /\ \E f \in Seqs : seg[f].hdr = "ok" /\ f # fresh /\ f <= s /\ s <= seg[f].dur

\* An observation whose append was reported to its producer stays on stable
\* storage, payload intact, until the Collector's acknowledgement covers it:
\* through crashes, failed writes, rotation, recovery, reclaim and compaction.
ReportedDurable ==
  \A s \in Seqs : reported[s] # NoPayload => s <= ackFile \/ Stored(s, reported[s])

\* A sequence the Collector has bound to a payload is never given to another
\* one: what the spool still holds under it, now or after the next recovery,
\* is that payload, and the writer's next sequence is unbound.
NeverReassigned ==
  /\ \A s \in Seqs, f \in Seqs :
       /\ seg[f].hdr = "ok" /\ f <= s /\ s <= seg[f].last
       /\ collector[s] # NoPayload
       => wal[s] = collector[s]
  /\ pc \in {"append", "written"} => collector[seg[active].last + 1] = NoPayload

\* A start refuses a spool that only this program has written for one reason:
\* power failed during an append, and of the frame being written, which no
\* producer was told of, the length is there and the bytes are not.  Recovery
\* takes that for damage inside a complete frame.  Nothing else an interrupted
\* create, append, rotation, compaction or recovery leaves is refused, and where
\* power does not fail no start is refused at all.
RefusesOnlyUnreported ==
  pc = "refused" => /\ "power" \in Endings
                    /\ \E f \in Files : /\ IsTail(f) /\ seg[f].tail = "corrupt"
                                         /\ reported[seg[f].last + 1] = NoPayload

\* The ack sidecar never moves back and never covers a sequence the Collector
\* has not bound.
AckFollowsCollector ==
  [][/\ ackFile' >= ackFile
     /\ \A s \in 1..ackFile' : collector'[s] # NoPayload]_vars

\* Once reported, the reply for a sequence is never given to a second append.
ReportedOnce ==
  [][\A s \in Seqs : reported[s] # NoPayload => reported'[s] = reported[s]]_vars

\* Every start reaches the point where it serves: no file an interrupted
\* create, a torn tail or a quiet run left behind blocks the next start.
StartsServing == (pc = "down") ~> Serving

\* A full segment is rotated to a fresh one and the writer is ready again,
\* unless the process ends on the way.
RotationResumes == (pc = "append") ~> (pc \in {"ready", "down"})

----------------------------------------------------------------------------
(* The inductive invariant behind ReportedDurable (module SpoolProofs) *)

\* Every file is well-formed and below the producers' bound.
FileShape ==
  \A f \in Seqs :
    /\ f - 1 <= seg[f].dur /\ seg[f].dur <= seg[f].last
    /\ f \in Files => End(f) <= AppendBound
    /\ seg[f].dirty # {} => seg[f].last < AppendBound
    /\ seg[f].hdr # "ok" => seg[f] = NewFile(f, seg[f].hdr)
    /\ \A s \in Seqs : seg[f].hdr = "ok" /\ f <= s /\ s <= seg[f].last
                         => wal[s] \in Payloads

\* No segment reaches into the next one, except into a headerless last file
\* that startup is about to reclaim.
NoOverlap ==
  \A f, g \in Files : f < g =>
    /\ seg[f].hdr = "ok"
    /\ \/ seg[f].last < g
       \/ seg[g].hdr # "ok" /\ pc \in {"down", "refused", "recovered", "bound"}

\* The front of the WAL joins the acknowledged prefix.
FrontAcknowledged == \A f \in Files : (\A g \in Files : f <= g) => f <= ackFile + 1

\* A file whose creation is not durable is the last one and empty.
FreshShape ==
  fresh # 0 => /\ IsTail(fresh)
               /\ seg[fresh] = NewFile(fresh, seg[fresh].hdr)

\* What the walk established stays true until the writer is open.
BootShape ==
  pc \in {"recovered", "bound", "reclaimed"} =>
    /\ next \in Seqs /\ next = Max2(durable, ackFile) + 1
    /\ \A f \in Files : seg[f].last < next \/ EmptyTrailing(f)
    /\ \A f \in Files : f <= next \/ EmptyTrailing(f)
    /\ (\A f \in Files : seg[f].last < f) => next <= ackFile + 1
    /\ pc = "reclaimed" =>
         fresh = 0 /\ \A f \in Files : f <= next /\ seg[f].last < next /\ seg[f].hdr = "ok"
    /\ \A f \in Files : seg[f].tail \notin Payloads

\* The writer appends to the last segment, whose last frame is the highest
\* sequence it has noted durable.
WriterShape ==
  /\ pc \in {"creating", "header"} =>
       /\ fresh # 0 /\ fresh = durable + 1
       /\ pc = "header" => seg[fresh].hdr = "ok"
  /\ pc \in {"ready", "append", "written"} =>
       /\ IsTail(active) /\ seg[active].hdr = "ok" /\ fresh = 0
       /\ durable = seg[active].last
  /\ pc \in {"append", "written"} => seg[active].last + 1 <= AppendBound /\ req # NoPayload
  /\ pc \in {"creating", "header"} /\ req # NoPayload => fresh <= AppendBound
  /\ pc = "written" => seg[active].tail = req
  /\ pc \notin {"creating", "header", "append", "written"} => req = NoPayload

\* The acknowledgement stays behind the durable frames and the Collector, and
\* every sequence between them has a payload.
AckShape ==
  /\ ackFile <= AppendBound /\ durable <= AppendBound
  /\ pc \notin {"down", "refused"} => ackFile <= durable
  /\ sent <= durable /\ (~Serving => sent = 0)
  /\ pc \notin {"down", "refused"} =>
       \A s \in Seqs : ackFile < s /\ s <= durable => wal[s] \in Payloads
  /\ \A s \in Seqs : s <= ackFile \/ s <= sent => collector[s] # NoPayload

SpoolInv ==
  /\ TypeOK /\ FileShape /\ NoOverlap /\ FrontAcknowledged /\ FreshShape
  /\ BootShape /\ WriterShape /\ AckShape /\ ReportedDurable

\* The promise the spool keeps, stated without segments, sidecars or crashes.
Log == INSTANCE DurableLog WITH promised <- reported, delivered <- collector
ImplementsDurableLog == Log!Spec
=============================================================================
