---------------------------- MODULE ConsentFence ----------------------------
(***************************************************************************)
(* The daemon's consent fence (internal/observer/daemon/consent_fence.go,  *)
(* consent_watch.go) between three concurrent loops: the transcript        *)
(* watcher that appends under the owner's consent, the upload lane that    *)
(* drains the spool, and the consent loop that re-reads the owner's policy *)
(* file; with Shutdown, crashes and restarts.                              *)
(*                                                                         *)
(* The spool is abstracted to the highest durable sequence `top' (module   *)
(* Spool shows that frames and sequences survive crashes).  A frame is     *)
(* known by the consent it was captured under: `cap' is a ghost the code   *)
(* does not store; what the code knows of it is `origins'.                 *)
(***************************************************************************)
EXTENDS Naturals

CONSTANTS
  Roots,       \* consent roots
  NoOrigin,    \* the origin of a frame no watched root is tied to
  NoRecord,    \* the absent shutdown record
  MaxSeq,      \* bound on appended sequences
  MaxGen,      \* bound on a root's consent generation
  MaxBatch,    \* Caps.MaxObservations
  Modes,       \* how the daemon may start: subset of {"live", "passive"}
  Faults,      \* failing ledger writes: subset of {"write", "fsyncdir"}
  MaxFaults,   \* bound on failed ledger writes
  MaxCrashes,  \* bound on crashes
  MaxAside,    \* bound on operators moving WAL segments aside
  MaxStray     \* bound on appends by other local producers and appends whose client gave up

Seqs == 1..MaxSeq
Origin == [root : Roots, gen : 1..MaxGen]
Record == [high : 0..MaxSeq, att : 0..MaxSeq, org : [Seqs -> Origin \cup {NoOrigin}]]

ASSUME FenceAssumption ==
  /\ MaxSeq \in Nat \ {0} /\ MaxGen \in Nat \ {0} /\ MaxBatch \in Nat \ {0}
  /\ MaxFaults \in Nat /\ MaxCrashes \in Nat /\ MaxAside \in Nat /\ MaxStray \in Nat
  /\ Modes \subseteq {"live", "passive"}
  /\ NoOrigin \notin Origin /\ NoRecord \notin Record

VARIABLES
  \* on disk
  top,        \* highest durable sequence of the spool
  cap,        \* ghost: the consent each frame was captured under
  ackFile,    \* the ack sidecar
  ledger,     \* consent-ledger.json
  file,       \* the policy file: a generation and a state per root
  \* the daemon
  svc,        \* down, up, stopping, recorded, draining, expired
  mode,       \* live, or passive (no policy source)
  pub,        \* Source.cur: the published policy
  ver,        \* its Version
  gens,       \* consentSink.generations of the running watcher
  wpc,        \* the watcher's append: idle, admitted, durable
  worigin,    \* its origin
  wseq,       \* its sequence once durable
  late,       \* origin of an append whose client gave up, or NoOrigin
  upc,        \* the upload lane: idle, refresh, plan, formed, send, reply
  uhigh,      \* AckState.highestDurable of this pass
  blast,      \* last sequence of the formed batch
  ph,         \* its sequences sent as placeholders
  \* consentFence
  origins, withheld, attempted, applied, dirty, pending, recorded,
  \* external and history
  sent,       \* the forms in which each sequence reached the Collector
  tried,      \* sequences of batches handed to the sender
  untracked,  \* frames whose origin was lost with a run or a reply
  safe,       \* a crash now leaves the origins of 1..safe on disk
  unsure,     \* frames 1..unsure were queued at a start without a policy
  unsynced,   \* a ledger write that was reported failed is in place
  crashes, faults, asides, locals, losses

fence == <<origins, withheld, attempted, applied, dirty, pending, recorded>>
watch == <<gens, wpc, worigin, wseq, late>>
lane == <<upc, uhigh, blast, ph>>
policy == <<file, pub, ver>>
hist == <<sent, tried, untracked, safe, unsure>>
bounds == <<crashes, asides, locals, losses>>
failed == <<faults, unsynced>>
vars == <<top, cap, ackFile, ledger, file, svc, mode, pub, ver, gens, wpc, worigin, wseq,
          late, upc, uhigh, blast, ph, origins, withheld, attempted, applied, dirty,
          pending, recorded, sent, tried, untracked, safe, unsure, unsynced, crashes, faults, asides,
          locals, losses>>

----------------------------------------------------------------------------
Forms == {"content", "placeholder"}
\* A root's entry; a root the policy does not name has generation 0 and is inactive.
Entry == [gen : 1..MaxGen, active : BOOLEAN] \cup {[gen |-> 0, active |-> FALSE]}
Policy == [Roots -> Entry]

Max2(a, b) == IF a >= b THEN a ELSE b
Min2(a, b) == IF a <= b THEN a ELSE b

\* The policy of a fence without a source: it consents to nothing.
EmptyPolicy == [r \in Roots |-> [gen |-> 0, active |-> FALSE]]
NoOrigins == [s \in Seqs |-> NoOrigin]

\* Mutant: any active registration of the root covers an older capture.
AllowsAnyGeneration(p, o) == p[o.root].active

Allows(p, o) == p[o.root].active /\ p[o.root].gen = o.gen

TypeOK ==
  /\ top \in 0..MaxSeq /\ ackFile \in 0..top
  /\ cap \in [Seqs -> Origin \cup {NoOrigin}]
  /\ ledger \in [exists : BOOLEAN, withheld : SUBSET Seqs, shutdown : Record \cup {NoRecord}]
  /\ file \in Policy /\ pub \in Policy /\ gens \in Policy
  /\ svc \in {"down", "up", "stopping", "recorded", "draining", "expired"}
  /\ mode \in {"live", "passive"}
  /\ ver \in Nat /\ applied \in 0..ver
  /\ wpc \in {"idle", "admitted", "durable"}
  /\ worigin \in Origin \cup {NoOrigin} /\ wseq \in 0..MaxSeq
  /\ late \in Origin \cup {NoOrigin}
  /\ upc \in {"idle", "refresh", "plan", "formed", "send", "reply"}
  /\ uhigh \in 0..MaxSeq /\ blast \in 0..MaxSeq /\ ph \subseteq Seqs
  /\ origins \in [Seqs -> Origin \cup {NoOrigin}]
  /\ withheld \subseteq Seqs /\ attempted \in 0..MaxSeq
  /\ dirty \in BOOLEAN /\ recorded \in BOOLEAN
  /\ pending \in Record \cup {NoRecord}
  /\ sent \in [Seqs -> SUBSET Forms]
  /\ tried \subseteq Seqs /\ untracked \subseteq Seqs
  /\ safe \in 0..MaxSeq /\ unsure \in 0..MaxSeq

Init ==
  /\ top = 0 /\ cap = NoOrigins /\ ackFile = 0
  /\ ledger = [exists |-> FALSE, withheld |-> {}, shutdown |-> NoRecord]
  /\ file = [r \in Roots |-> [gen |-> 1, active |-> TRUE]]
  /\ svc = "down" /\ mode = "live" /\ pub = EmptyPolicy /\ ver = 0
  /\ gens = EmptyPolicy /\ wpc = "idle" /\ worigin = NoOrigin /\ wseq = 0 /\ late = NoOrigin
  /\ upc = "idle" /\ uhigh = 0 /\ blast = 0 /\ ph = {}
  /\ origins = NoOrigins /\ withheld = {} /\ attempted = 0 /\ applied = 0
  /\ dirty = FALSE /\ pending = NoRecord /\ recorded = FALSE
  /\ sent = [s \in Seqs |-> {}] /\ tried = {} /\ untracked = {} /\ safe = 0 /\ unsure = 0
  /\ unsynced = FALSE /\ crashes = 0 /\ faults = 0 /\ asides = 0 /\ locals = 0
  /\ losses = 0

----------------------------------------------------------------------------
(* The ledger *)

\* persistLocked succeeds: the ledger is replaced atomically.
Persisted(w, sh) ==
  /\ ledger' = [exists |-> TRUE, withheld |-> w, shutdown |-> sh]
  /\ dirty' = FALSE
  /\ UNCHANGED failed

\* persistLocked fails: the old file is kept, or (the directory fsync after
\* the rename failed) the new one is in place all the same.
PersistFailed(w, sh, d) ==
  /\ faults < MaxFaults
  /\ faults' = faults + 1
  /\ \/ "write" \in Faults /\ UNCHANGED <<ledger, unsynced>>
     \/ /\ "fsyncdir" \in Faults /\ unsynced' = TRUE
        /\ ledger' = [exists |-> TRUE, withheld |-> w, shutdown |-> sh]
  /\ dirty' = d

NoPersist(d) == dirty' = d /\ UNCHANGED <<ledger, failed>>

\* Frames whose upload payload is not final and whose consent p lacks.
Withdrawn(p) ==
  {s \in Seqs : s > attempted /\ origins[s] # NoOrigin /\ ~Allows(p, origins[s])}

\* Mutant: the record keeps the origins but not how far uploads are final.
ShutdownRecordNoMark(att, highest) ==
  [high |-> highest, att |-> 0, org |-> origins]

\* shutdownRecordLocked, with uploads final through att.
ShutdownRecord(att, highest) ==
  LET org == [s \in Seqs |-> IF s > att THEN origins[s] ELSE NoOrigin]
      last == {s \in Seqs : org[s] # NoOrigin}
  IN [high |-> CHOOSE h \in {highest, att} \cup last :
                 \A x \in {highest, att} \cup last : x <= h,
      att |-> att, org |-> org]

----------------------------------------------------------------------------
(* The policy *)

OwnerWithdraws(r) ==
  /\ file[r].active
  /\ file' = [file EXCEPT ![r].active = FALSE]
  /\ UNCHANGED <<top, cap, ackFile, ledger, svc, mode, pub, ver, watch, lane, fence, hist,
                 bounds, failed>>

\* Registering a root again mints a new generation.
OwnerRegisters(r) ==
  /\ ~file[r].active /\ file[r].gen < MaxGen
  /\ file' = [file EXCEPT ![r] = [gen |-> file[r].gen + 1, active |-> TRUE]]
  /\ UNCHANGED <<top, cap, ackFile, ledger, svc, mode, pub, ver, watch, lane, fence, hist,
                 bounds, failed>>

\* Source.Current; a passive fence has no source.
Current ==
  IF mode = "live" /\ pub # file
    THEN pub' = file /\ ver' = ver + 1
    ELSE UNCHANGED <<pub, ver>>

\* The consent loop.
CheckPolicy ==
  /\ svc = "up" /\ mode = "live" /\ pub # file
  /\ Current
  /\ UNCHANGED <<top, cap, ackFile, ledger, file, svc, mode, watch, lane, fence, hist, bounds,
                 failed>>

----------------------------------------------------------------------------
(* The watcher and the other producers *)

\* A pass re-checks the policy and rebuilds the watcher for it.
PollTranscripts ==
  /\ svc = "up" /\ mode = "live" /\ wpc = "idle"
  /\ Current
  /\ gens' = pub'
  /\ gens # pub' \/ pub # pub'
  /\ UNCHANGED <<top, cap, ackFile, ledger, file, svc, mode, wpc, worigin, wseq, late, lane,
                 fence, hist, bounds, failed>>

\* consentSink.deliverOne: the append takes the gate shared.  A candidate of a
\* root the watcher was not built for, or no longer consented, is refused.
Admit(r) ==
  /\ svc = "up" /\ wpc = "idle" /\ top < MaxSeq
  /\ gens[r].active
  /\ Allows(pub, [root |-> r, gen |-> gens[r].gen])
  /\ wpc' = "admitted" /\ worigin' = [root |-> r, gen |-> gens[r].gen]
  /\ UNCHANGED <<top, cap, ackFile, ledger, svc, mode, policy, gens, wseq, late, lane, fence,
                 hist, bounds, failed>>

\* The local server appends the observation durably.
AppendDurable ==
  /\ svc \in {"up", "stopping", "expired"} /\ wpc = "admitted" /\ top < MaxSeq
  /\ top' = top + 1 /\ cap' = [cap EXCEPT ![top + 1] = worigin]
  /\ wpc' = "durable" /\ wseq' = top + 1
  /\ UNCHANGED <<ackFile, ledger, svc, mode, policy, gens, worigin, late, lane, fence, hist,
                 bounds, failed>>

AppendDone == wpc' = "idle" /\ worigin' = NoOrigin /\ wseq' = 0

\* The reply arrives; the origin is recorded, and the frame is withheld when
\* its consent went meanwhile.  The gate is released.
RecordAppend ==
  /\ svc \in {"up", "stopping", "expired"} /\ wpc = "durable"
  /\ origins' = [origins EXCEPT ![wseq] = worigin]
  /\ IF wseq <= attempted \/ Allows(pub, worigin)
       THEN NoPersist(dirty) /\ UNCHANGED withheld
       ELSE /\ withheld' = withheld \cup {wseq}
            /\ \/ Persisted(withheld', pending)
               \/ PersistFailed(withheld', pending, TRUE)
  /\ AppendDone
  /\ UNCHANGED <<top, cap, ackFile, svc, mode, policy, gens, late, lane, attempted, applied,
                 pending, recorded, hist, bounds>>

\* The client's deadline or the shutdown's cancellation ends the call: a
\* durable frame keeps no origin, and one not yet written may land later.
AppendTimesOut ==
  /\ svc \in {"up", "stopping", "expired"} /\ locals + losses < MaxStray
  /\ losses' = losses + 1
  /\ \/ wpc = "durable" /\ untracked' = untracked \cup {wseq} /\ UNCHANGED late
     \/ wpc = "admitted" /\ late = NoOrigin /\ late' = worigin /\ UNCHANGED untracked
  /\ AppendDone
  /\ UNCHANGED <<top, cap, ackFile, ledger, svc, mode, policy, gens, lane, fence, sent, tried, safe,
                 unsure, crashes, asides, locals, failed>>

\* Bound: other appends leave a sequence to the one already admitted.
Room == IF wpc = "admitted" THEN MaxSeq - 1 ELSE MaxSeq

\* The server handles the abandoned request after its client left.
LateAppend ==
  /\ svc \in {"up", "stopping", "expired"} /\ late # NoOrigin
  /\ \/ /\ top < Room
        /\ top' = top + 1 /\ cap' = [cap EXCEPT ![top + 1] = late]
        /\ untracked' = untracked \cup {top + 1}
     \/ UNCHANGED <<top, cap, untracked>>
  /\ late' = NoOrigin
  /\ UNCHANGED <<ackFile, ledger, svc, mode, policy, gens, wpc, worigin, wseq, lane, fence,
                 sent, tried, safe, unsure, bounds, failed>>

\* The run wrapper, the provider hook or a watcher diagnostic.
LocalAppend ==
  /\ svc \in {"up", "stopping"} /\ top < Room /\ locals + losses < MaxStray
  /\ top' = top + 1 /\ cap' = [cap EXCEPT ![top + 1] = NoOrigin]
  /\ locals' = locals + 1
  /\ UNCHANGED <<ackFile, ledger, svc, mode, policy, watch, lane, fence, hist, crashes,
                 asides, losses, failed>>

----------------------------------------------------------------------------
(* The upload lane: uploadLoop.drain *)

PassEnds == upc' = "idle" /\ uhigh' = 0 /\ blast' = 0 /\ ph' = {}

\* Mutant: the ceiling is read without the gate.
CeilingUngated ==
  /\ svc \in {"up", "recorded"} /\ upc = "idle"
  /\ uhigh' = top
  /\ upc' = "refresh"
  /\ svc' = IF svc = "recorded" THEN "draining" ELSE svc
  /\ UNCHANGED <<top, cap, ackFile, ledger, mode, policy, watch, blast, ph, fence, hist,
                 bounds, failed>>

\* A pass begins: the durable ceiling is read while no append holds the gate.
Ceiling ==
  /\ svc \in {"up", "recorded"} /\ upc = "idle" /\ wpc = "idle"
  /\ uhigh' = top
  /\ upc' = "refresh"
  /\ svc' = IF svc = "recorded" THEN "draining" ELSE svc
  /\ UNCHANGED <<top, cap, ackFile, ledger, mode, policy, watch, blast, ph, fence, hist,
                 bounds, failed>>

\* A cancelled context ends the pass between two batches.
PassCancelled ==
  /\ upc = "refresh" /\ svc \in {"stopping", "draining", "expired"}
  /\ PassEnds
  /\ UNCHANGED <<top, cap, ackFile, ledger, svc, mode, policy, watch, fence, hist, bounds,
                 failed>>

\* What withheld becomes when policy p, version v, is applied to the backlog.
Applied(p, v) == IF applied = v THEN withheld ELSE withheld \cup Withdrawn(p)

\* Mutant: the decisions are applied in memory and taken for recorded.
RefreshUnrecorded ==
  /\ upc = "refresh"
  /\ Current
  /\ withheld' = Applied(pub', ver') /\ applied' = ver'
  /\ NoPersist(dirty) /\ upc' = "plan"
  /\ UNCHANGED <<top, cap, ackFile, file, svc, mode, watch, uhigh, blast, ph, origins,
                 attempted, pending, recorded, hist, bounds>>

\* refresh: the file is re-checked and the newest policy applied.
Refresh ==
  /\ upc = "refresh"
  /\ Current
  /\ withheld' = Applied(pub', ver') /\ applied' = ver'
  /\ \/ withheld' = withheld /\ NoPersist(dirty) /\ upc' = "plan" /\ UNCHANGED uhigh
     \/ withheld' # withheld /\ Persisted(withheld', pending) /\ upc' = "plan"
          /\ UNCHANGED uhigh
     \/ withheld' # withheld /\ PersistFailed(withheld', pending, TRUE) /\ upc' = "idle"
          /\ uhigh' = 0
  /\ UNCHANGED <<top, cap, ackFile, file, svc, mode, watch, blast, ph, origins, attempted,
                 pending, recorded, hist, bounds>>

NothingOwed ==
  /\ upc = "plan" /\ ackFile >= uhigh
  /\ PassEnds
  /\ UNCHANGED <<top, cap, ackFile, ledger, svc, mode, policy, watch, fence, hist, bounds,
                 failed>>

\* Planner.Next over the fenced store: every frame read is decided under the
\* newest published policy, then the byte budget cuts the batch.
PlanBatch ==
  /\ upc = "plan" /\ ackFile < uhigh
  /\ LET read == ackFile + 1..Min2(ackFile + MaxBatch, uhigh)
         backlog == Applied(pub, ver)
         decided == backlog \cup (read \cap Withdrawn(pub))
     IN /\ withheld' = decided /\ applied' = ver
        /\ \/ backlog = withheld /\ NoPersist(dirty \/ decided # backlog)
           \/ backlog # withheld /\ \/ Persisted(backlog, pending)
                                    \/ PersistFailed(backlog, pending, TRUE)
        /\ \E last \in read : blast' = last /\ ph' = decided \cap (ackFile + 1..last)
  /\ upc' = "formed"
  /\ UNCHANGED <<top, cap, ackFile, svc, mode, policy, watch, uhigh, origins, attempted,
                 pending, recorded, hist, bounds>>

\* Mutant: the batch is sent although its decisions are not recorded.
BeforeSendUnrecorded ==
  /\ upc = "formed"
  /\ attempted' = Max2(attempted, blast)
  /\ NoPersist(dirty)
  /\ safe' = IF recorded THEN safe ELSE 0
  /\ upc' = "send" /\ tried' = tried \cup (ackFile + 1..blast)
  /\ UNCHANGED <<top, cap, ackFile, svc, mode, policy, watch, uhigh, blast, ph, origins,
                 withheld, applied, pending, recorded, sent, untracked, unsure, bounds>>

\* beforeSend: decisions are recorded and the range's payloads become final;
\* the shutdown record on disk is rewritten (this run's) or retired.
BeforeSend ==
  /\ upc = "formed"
  /\ LET att == Max2(attempted, blast)
         sh == IF recorded THEN ShutdownRecord(att, pending.high) ELSE NoRecord
         write == recorded \/ pending # NoRecord \/ dirty
     IN \/ /\ IF write THEN Persisted(withheld, sh) ELSE NoPersist(dirty)
           /\ attempted' = att /\ pending' = sh
           /\ upc' = "send" /\ tried' = tried \cup (ackFile + 1..blast)
           /\ UNCHANGED <<uhigh, blast, ph>>
        \/ /\ write /\ PersistFailed(withheld, sh, dirty)
           /\ PassEnds /\ UNCHANGED <<attempted, pending, tried>>
  /\ safe' = IF recorded THEN safe ELSE 0
  /\ UNCHANGED <<top, cap, ackFile, svc, mode, policy, watch, origins, withheld, applied,
                 recorded, sent, untracked, unsure, bounds>>

\* One attempt reaches the Collector.
Send ==
  /\ upc = "send"
  /\ sent' = [s \in Seqs |-> IF ackFile < s /\ s <= blast
                               THEN sent[s] \cup {IF s \in ph THEN "placeholder" ELSE "content"}
                               ELSE sent[s]]
  /\ upc' = "reply"
  /\ UNCHANGED <<top, cap, ackFile, ledger, svc, mode, policy, watch, uhigh, blast, ph, fence,
                 tried, untracked, safe, unsure, bounds, failed>>

\* The reply is lost and the same body is sent again.
ReplyLost ==
  /\ upc = "reply"
  /\ upc' = "send"
  /\ UNCHANGED <<top, cap, ackFile, ledger, svc, mode, policy, watch, uhigh, blast, ph, fence,
                 hist, bounds, failed>>

\* Retries exhausted, a hold, a cancelled context or a failed sidecar write.
SendFails ==
  /\ upc \in {"send", "reply"}
  /\ PassEnds
  /\ UNCHANGED <<top, cap, ackFile, ledger, svc, mode, policy, watch, fence, hist, bounds,
                 failed>>

\* A validated 200: the Collector refuses a sequence sent in two forms.  The
\* fence then forgets what is acknowledged, in memory.
Acknowledge ==
  /\ upc = "reply"
  /\ \A s \in ackFile + 1..blast : sent[s] # Forms
  /\ ackFile' = blast
  /\ origins' = [s \in Seqs |-> IF s <= blast THEN NoOrigin ELSE origins[s]]
  /\ withheld' = {s \in withheld : s > blast}
  /\ upc' = "refresh" /\ blast' = 0 /\ ph' = {}
  /\ UNCHANGED <<top, cap, ledger, svc, mode, policy, watch, uhigh, attempted, applied, dirty,
                 pending, recorded, hist, bounds, failed>>

----------------------------------------------------------------------------
(* Start, shutdown, crash *)

\* The sequence through which uploads are final when a run starts.
LoadedAttempted(sh) == IF sh = NoRecord THEN top ELSE sh.att

\* Mutant: decisions on frames that no longer exist are kept.
KeptAll == ledger.withheld

\* The withheld decisions a run takes over: those on frames that still exist.
Kept == {s \in ledger.withheld : s <= top}

\* newConsentFence and the rest of NewService.  A record of frames the spool
\* no longer has is dropped from disk before anything is appended.
Start(m) ==
  /\ svc = "down"
  /\ m = "passive" => ledger.exists
  /\ LET kept == Kept
         lost == /\ ledger.shutdown # NoRecord
                 /\ \/ ledger.shutdown.high > top
                    \/ ledger.shutdown.att > ledger.shutdown.high
         sh == IF lost THEN NoRecord ELSE ledger.shutdown
         att == LoadedAttempted(sh)
         org == [s \in Seqs |-> IF sh # NoRecord /\ s > att /\ s <= sh.high
                                  THEN sh.org[s] ELSE NoOrigin]
         all == kept \cup (IF m = "passive" THEN {s \in Seqs : org[s] # NoOrigin} ELSE {})
         up == /\ svc' = "up" /\ mode' = m
               /\ pub' = IF m = "live" THEN file ELSE EmptyPolicy
               /\ gens' = pub'
               /\ ver' = 1 /\ applied' = IF m = "passive" /\ sh # NoRecord THEN 1 ELSE 0
               /\ origins' = org /\ withheld' = all /\ attempted' = att
               /\ pending' = sh /\ recorded' = FALSE
               /\ safe' = top
         stay == UNCHANGED <<svc, mode, pub, gens, ver, fence, safe>>
     IN \/ ~lost /\ all = kept /\ up /\ NoPersist(FALSE)
        \/ (lost \/ all # kept) /\ up /\ Persisted(all, sh)
        \/ (lost \/ all # kept) /\ stay /\ PersistFailed(all, sh, FALSE)
  /\ unsure' = IF m = "passive" THEN top ELSE unsure
  /\ UNCHANGED <<top, cap, ackFile, file, wpc, worigin, wseq, late, lane, sent, tried, untracked,
                 bounds>>

\* Shutdown cancels the loops; steps under way finish or are cancelled.
ShutdownBegins ==
  /\ svc = "up"
  /\ svc' = "stopping"
  /\ UNCHANGED <<top, cap, ackFile, ledger, mode, policy, watch, lane, fence, hist, bounds,
                 failed>>

LoopsDone == wpc = "idle" /\ late = NoOrigin /\ upc = "idle"

\* recordShutdown, before the final drain once every loop has ended (or the
\* shutdown deadline passed: the drain is then skipped), and again after it.
RecordShutdown ==
  /\ \/ svc = "stopping" /\ LoopsDone /\ svc' = "recorded"
     \/ svc = "stopping" /\ ~LoopsDone /\ svc' = "expired"
     \/ svc = "draining" /\ upc = "idle" /\ svc' = "expired"
  /\ LET sh == ShutdownRecord(attempted, top)
     IN \/ /\ Persisted(withheld, sh) /\ pending' = sh /\ recorded' = TRUE
           /\ safe' = top
           /\ untracked' = IF wpc = "durable" THEN untracked \cup {wseq} ELSE untracked
        \/ /\ PersistFailed(withheld, sh, dirty)
           /\ UNCHANGED <<pending, recorded, safe, untracked>>
  /\ UNCHANGED <<top, cap, ackFile, mode, policy, watch, lane, origins, withheld, attempted,
                 applied, sent, tried, unsure, bounds>>

\* The process is gone with everything it held in memory.
ProcessEnds ==
  /\ svc' = "down" /\ mode' = "live" /\ pub' = EmptyPolicy /\ ver' = 0 /\ gens' = EmptyPolicy
  /\ wpc' = "idle" /\ worigin' = NoOrigin /\ wseq' = 0 /\ late' = NoOrigin
  /\ PassEnds
  /\ origins' = NoOrigins /\ withheld' = {} /\ attempted' = 0 /\ applied' = 0
  /\ dirty' = FALSE /\ pending' = NoRecord /\ recorded' = FALSE
  /\ untracked' = untracked \cup (safe + 1..top) /\ safe' = 0
  /\ UNCHANGED <<top, cap, ackFile, ledger, file, sent, tried, unsure, asides, locals,
                 losses, failed>>

Exit == svc = "expired" /\ ProcessEnds /\ UNCHANGED crashes

Crash ==
  /\ svc # "down" /\ crashes < MaxCrashes
  /\ crashes' = crashes + 1
  /\ ProcessEnds

\* External: an operator moves segments with frames never sent aside.
MoveAside(k) ==
  /\ svc = "down" /\ asides < MaxAside
  /\ ackFile <= k /\ k < top
  /\ \A s \in k + 1..top : s \notin tried
  /\ top' = k /\ cap' = [s \in Seqs |-> IF s <= k THEN cap[s] ELSE NoOrigin]
  /\ untracked' = {s \in untracked : s <= k} /\ unsure' = Min2(unsure, k)
  /\ asides' = asides + 1
  /\ UNCHANGED <<ackFile, ledger, svc, mode, policy, watch, lane, fence, sent, tried, safe, crashes,
                 locals, losses, failed>>

----------------------------------------------------------------------------
Lane == Ceiling \/ Refresh \/ NothingOwed \/ PlanBatch \/ BeforeSend \/ Send \/ Acknowledge

Next ==
  \/ \E r \in Roots : OwnerWithdraws(r) \/ OwnerRegisters(r)
  \/ CheckPolicy \/ PollTranscripts
  \/ \E r \in Roots : Admit(r)
  \/ AppendDurable \/ RecordAppend \/ AppendTimesOut \/ LateAppend \/ LocalAppend
  \/ Lane \/ PassCancelled \/ ReplyLost \/ SendFails
  \/ \E m \in Modes : Start(m)
  \/ ShutdownBegins \/ RecordShutdown \/ Exit \/ Crash
  \/ \E k \in 0..MaxSeq : MoveAside(k)

Spec == Init /\ [][Next]_vars

\* The upload ticker keeps firing and a step of a pass is not abandoned; the
\* network does not lose every request or every reply; an append ends; the
\* service manager restarts the daemon.
FairSpec ==
  /\ Spec
  /\ WF_vars(Lane) /\ SF_vars(Send) /\ SF_vars(Acknowledge)
  /\ WF_vars(AppendDurable \/ RecordAppend)
  /\ WF_vars(\E m \in Modes : Start(m))

----------------------------------------------------------------------------
(* Properties *)

\* A sequence is never sent both as captured and as a placeholder: the
\* Collector binds it to the first form and would refuse every later batch.
\* (Unless a ledger write was reported failed and is in place all the same.  With
\* segments moved aside a second crash breaks it too: newConsentFence drops the
\* decisions on missing frames in memory only, and the file still has them.)
NoConflict == unsynced \/ \A s \in Seqs : sent[s] # Forms

\* A placeholder sent and not acknowledged is in the ledger on disk, so that
\* whichever run sends it again sends the placeholder.
PlaceholderRecorded ==
  \A s \in Seqs : "placeholder" \in sent[s] /\ s > ackFile => s \in ledger.withheld

\* The shutdown record on disk is exact whenever the process stops: nothing
\* above its attempted-through mark has been sent. (The same exception.)
RecordExact ==
  unsynced \/ (ledger.shutdown # NoRecord => \A s \in Seqs : s > ledger.shutdown.att => sent[s] = {})

\* The lane and the watcher: a pass and its batch stay below the ceiling that was read, and an append
\* in progress stays above it, because the ceiling is read under the gate.
LaneShape ==
  /\ svc = "down" => upc = "idle" /\ wpc = "idle"
  /\ upc = "idle" => uhigh = 0
  /\ uhigh <= top
  /\ upc \in {"formed", "send", "reply"} =>
       /\ ackFile < blast /\ blast <= uhigh
       /\ ph \subseteq withheld
       /\ \A s \in withheld : ackFile < s /\ s <= blast => s \in ph
  /\ upc \in {"send", "reply"} =>
       /\ blast <= attempted /\ ph \subseteq ledger.withheld
       /\ ackFile + 1..blast \subseteq tried
  /\ wpc = "durable" => wseq \in 1..top /\ wseq > uhigh /\ wseq > attempted /\ cap[wseq] = worigin

\* What left the machine and what the fence holds of it: only batches handed to the sender were sent,
\* and the decisions in memory are those on disk unless the fence knows that they are not.
SentShape ==
  /\ \A s \in tried : s <= top
  /\ \A s \in Seqs : sent[s] # {} => s \in tried
  /\ svc # "down" =>
       /\ ~dirty => withheld \subseteq ledger.withheld
       /\ \A s \in Seqs : "placeholder" \in sent[s] /\ s > ackFile => s \in withheld
       /\ attempted <= top
       /\ \A s \in Seqs : origins[s] # NoOrigin => s <= top /\ origins[s] = cap[s]
  /\ recorded => pending \in Record

\* The shutdown record in memory is the one on disk, and it is renewed or retired before a batch is
\* sent that it does not call final.
RecordShape ==
  unsynced \/
    /\ svc # "down" => ledger.shutdown = pending /\ \A s \in Seqs : s > attempted => sent[s] = {}
    /\ upc \in {"send", "reply"} /\ pending # NoRecord => recorded /\ blast <= pending.att

\* A shutdown record describes frames the spool has, with the consent they were captured under.
Honest(sh) ==
  /\ sh.att <= sh.high /\ sh.high <= top
  /\ \A s \in Seqs : s <= sh.high /\ sh.org[s] # NoOrigin => sh.org[s] = cap[s]

\* So does every record, in memory and on disk, but one from before segments were moved aside, which
\* is dropped before a frame takes one of its sequences.
RecordHonest ==
  /\ ledger.shutdown # NoRecord =>
       Honest(ledger.shutdown) \/ (svc = "down" /\ ledger.shutdown.high > top)
  /\ pending # NoRecord => svc # "down" /\ Honest(pending)

\* The fence's state is sound: types, and the ledger on disk says of every sequence the form in
\* which it may already have left (refresh, beforeSend, recordShutdown).
FenceInv ==
  /\ TypeOK /\ PlaceholderRecorded /\ RecordExact
  /\ LaneShape /\ SentShape /\ RecordShape /\ RecordHonest

\* While no segment was moved aside, decisions are about frames that exist, none is ever dropped
\* before its frame is acknowledged, and none is taken on a frame that was sent as captured.
DecisionShape ==
  unsynced \/ asides > 0 \/
    /\ \A s \in ledger.withheld \cup withheld : s <= top
    /\ \A s \in Seqs : "content" \in sent[s] /\ s > ackFile => s \notin ledger.withheld \cup withheld
    /\ svc # "down" => \A s \in ledger.withheld : s > ackFile => s \in withheld

\* A frame of a watched root that is still to be sent and whose origin was not lost.
Tracked(s) ==
  /\ ackFile < s /\ s <= top /\ cap[s] # NoOrigin
  /\ s \notin untracked /\ s \notin tried
OnRecord(s) ==
  /\ ledger.shutdown # NoRecord
  /\ ledger.shutdown.att < s /\ s <= ledger.shutdown.high /\ ledger.shutdown.org[s] = cap[s]

\* The origin of every tracked frame is in memory, and of those that a stop would otherwise lose on disk.
OriginShape ==
  unsynced \/ asides > 0 \/
    /\ safe <= top
    /\ ledger.shutdown # NoRecord =>
         ledger.shutdown.att <= ledger.shutdown.high /\ ledger.shutdown.high <= top
    /\ recorded => safe <= pending.high
    /\ wpc = "durable" => wseq > safe \/ wseq \in untracked
    /\ \A s \in Seqs : Tracked(s) /\ (svc = "down" \/ s <= safe) => OnRecord(s)
    /\ svc # "down" => \A s \in Seqs : Tracked(s) /\ ~(wpc = "durable" /\ s = wseq) =>
                          s > attempted /\ origins[s] = cap[s]

\* The owner's policy p covers what was captured under o.
Covered(p, o) == p[o.root] = [gen |-> o.gen, active |-> TRUE]

\* Policy p is q or was in force before it, and o was captured no later than under p.
Older(p, q) == \A r \in Roots : \/ p[r].gen < q[r].gen
                                \/ p[r].gen = q[r].gen /\ (q[r].active => p[r].active)
Under(p, o) == o # NoOrigin => o.gen <= p[o.root].gen

\* While no segment was moved aside, what is published is the file or an older one, nothing was captured
\* under a later one, and every decision, on disk too, is on a frame whose consent is gone for good
\* or that a run without a policy took over.
WithheldShape ==
  asides > 0 \/
    /\ Under(file, worigin) /\ Under(file, late) /\ \A s \in Seqs : Under(file, cap[s])
    /\ wpc # "idle" => worigin # NoOrigin
    /\ unsure <= top
    /\ \A s \in ledger.withheld \cup withheld :
         s <= top /\ cap[s] # NoOrigin /\ (~Covered(file, cap[s]) \/ s <= unsure)
    /\ svc # "down" /\ mode = "live" =>
         /\ Older(pub, file) /\ Older(gens, pub)
         /\ Under(pub, worigin) /\ \A s \in Seqs : Under(pub, origins[s])
    /\ svc # "down" /\ mode = "passive" =>
         /\ pub = EmptyPolicy /\ gens = EmptyPolicy /\ wpc = "idle"
         /\ \A s \in Seqs : origins[s] # NoOrigin => s <= unsure

\* Only a watched root's frame is ever withheld, and only when its consent was
\* withdrawn or a run without a policy could not confirm it.  (As with NoConflict,
\* a stale decision on a frame moved aside comes back after a second crash.)
OnlyWithdrawnWithheld ==
  \A s \in withheld : s <= top /\ cap[s] # NoOrigin
                        /\ (~Covered(file, cap[s]) \/ s <= unsure)

\* A batch formed after a withdrawal was published carries the withdrawn
\* frames as placeholders only, through restarts, except a frame already handed
\* to the sender and one whose origin went with a crash, a lost reply, a ledger
\* write that was reported failed or a segment moved aside.
ConsentRespected ==
  [][upc = "plan" /\ upc' = "formed" /\ ~unsynced /\ asides = 0 =>
       \A s \in ackFile + 1..blast' :
         /\ cap[s] # NoOrigin /\ s \notin untracked
         /\ s \notin tried /\ ~Covered(pub, cap[s])
         => s \in ph']_vars

\* While the daemon serves, every durable frame is acknowledged in the end (the
\* producers stop at MaxSeq): no withdrawal, restart, lost reply or segment moved
\* aside wedges the lane behind a refused batch.
OwedDelivered ==
  []<>(svc # "up" \/ ackFile = top)
=============================================================================
