--------------------------- MODULE ContentUpload ---------------------------
(***************************************************************************)
(* The content side channel: the uploader that sends whole transcripts     *)
(* (internal/observer/daemon/content.go, content_pending.go,               *)
(* content_refusal.go, content_derive.go) beside the operator's re-upload  *)
(* tool (reupload.go).                                                     *)
(*                                                                         *)
(* Four actors share the state.  The watcher observes a transcript (id),   *)
(* then delivers its tail to the sink, which is how the sink learns the    *)
(* transcript's session; it releases an id whose file is gone.  The        *)
(* content loop ticks: it plans, records what is owed, and uploads one     *)
(* transcript at a time, with every lock released while a request is in    *)
(* flight.  Whichever loop notices that the consent policy changed runs    *)
(* onConsentChange.  The tool re-sends what an old marker recorded.        *)
(*                                                                         *)
(* A transcript is a life of an id (an inode number is reused by the next  *)
(* life); its native session and its name are the life.  A snapshot's      *)
(* bytes are <<life, len>>, its stat is <<len, mod>>.                      *)
(***************************************************************************)
EXTENDS Naturals, FiniteSets

CONSTANTS
    Ids,            \* (device, inode) pairs
    MaxLife,        \* transcripts an inode number may carry, one after another
    MaxLen,         \* appends to one transcript
    MaxBytes,       \* a transcript longer than this is oversize (maxBytes)
    MaxGen,         \* consent generations
    MaxAttempts,    \* maxContentPostAttempts
    MaxFaults,      \* bad answers of the collector, failed writes and kills
    MaxOps,         \* changes of the world: transcripts, policy, restarts, tool runs
    Named,          \* lives whose file name carries the session
    None            \* no record

\* The records the actors keep.  Bytes and stats are pairs.
Lives == 1..MaxLife
Gens == 1..MaxGen
Pairs == Nat \X Nat
Evals == Pairs \X BOOLEAN
Policies == [on : BOOLEAN, gen : Gens]
Snapshots == [life : 0..MaxLife, len : Nat, mod : Nat, gc : BOOLEAN]
Markers == [bytes : Pairs, stat : Pairs, native : Lives, gc : BOOLEAN, refused : BOOLEAN, old : BOOLEAN]
Records == [native : Lives, gen : Gens, life : Lives, stat : Pairs]
FileStates ==
    [gen : Gens, life : Lives, stat : Pairs, gc : BOOLEAN, eval : Evals \cup {None}, loaded : BOOLEAN,
     mk : Markers \cup {None}, uploaded : BOOLEAN, refused : BOOLEAN, pend : Records \cup {None},
     pendLoaded : BOOLEAN, failed : Pairs, fails : Nat]
JobSet == [id : Ids, gen : Gens, life : Lives, gc : BOOLEAN, native : Lives, size : Nat, fails : Nat]
SaveSet == [id : Ids, rec : Records]
CallSet == [by : {"tick", "other"}, step : {"drop", "sweep"}, pol : Policies]
Watchers == [gen : Gens, obs : BOOLEAN, at : Ids \cup {None}, life : [Ids -> 0..MaxLife]]
Results == {"ok", "fail", "shed", "refuse", "reject", "mismatch", "gcConflict", "idConflict"}
Ticks ==
    [pc : {"idle", "save", "job", "look", "reg", "fly", "out", "persist", "drop", "owed", "down"},
     jobs : SUBSET JobSet, saves : SUBSET SaveSet, job : JobSet \cup {None}, snap : Snapshots, gc : BOOLEAN,
     withdrawn : BOOLEAN, res : Results \cup {None}, tok : Nat, rec : Markers \cup {None},
     next : {"drop", "owed"}]
Items == [id : Ids, life : Lives, m : Markers]
Tools == [pc : {"idle", "item", "post", "marker", "settle"}, items : SUBSET Items, at : Items \cup {None},
          snap : Snapshots, res : {"accepted", None}]
Refusals == [token : Nat, waiting : BOOLEAN]
Budgets == [faults : Nat, ops : Nat, stale : SUBSET Ids, unwritten : SUBSET Ids]

ASSUME BoundsAssumption ==
    /\ {MaxLife, MaxLen, MaxBytes, MaxGen, MaxAttempts} \subseteq Nat \ {0}
    /\ {MaxFaults, MaxOps} \subseteq Nat
    /\ Named \subseteq Lives
    /\ None \notin Ids /\ None \notin Results /\ None \notin Evals /\ None \notin Markers
    /\ None \notin Records /\ None \notin FileStates /\ None \notin JobSet /\ None \notin Items
    /\ None \notin Refusals /\ None # "accepted"

VARIABLES
    disk,      \* [Ids -> [life, len, mod, gc]]; len 0: no file
    policy,    \* the consent policy on disk: [on, gen]
    latest,    \* the policy the daemon last published
    calls,     \* onConsentChange calls running: [by, step, pol]
    watch,     \* the watcher: [gen, obs, at, life]: the generation it was built under (0: none),
               \* whether it feeds the uploader, the id it is draining, the lives it tracks
    parsed,    \* [Ids -> <<life, len>>]: the durable cursor
    session,   \* the sink's threading: [Ids -> 0..MaxLife]
    files,     \* u.files: [Ids -> contentState or None]
    tick,      \* the content loop
    hold,      \* holdUntil has not passed
    refusal,   \* u.refusal: None, or [token, waiting]
    token,     \* version of the token file
    marker,    \* content-marker files
    pending,   \* content-pending files
    tool,      \* the re-upload tool
    journal,   \* its progress file: <<id, outcome>>
    store,     \* accepted by the collector: <<session, bytes, before or after the cutoff>>
    judged,    \* <<answer, bytes>> the collector rejected or found in conflict
    budget     \* [faults, ops, stale, unwritten]: the bounds used, the ids whose marker, session or
               \* answer outlived its file, and those a marker of which could not be written

\* A transcript snapshot as the loops hold it.
Bytes(d) == <<d.life, d.len>>
Stat(d) == <<d.len, d.mod>>

NoFile == [life |-> 0, len |-> 0, mod |-> 0, gc |-> FALSE]
NoTick == [pc |-> "idle", jobs |-> {}, saves |-> {}, job |-> None, snap |-> NoFile,
           gc |-> FALSE, withdrawn |-> FALSE, res |-> None, tok |-> 0, rec |-> None,
           next |-> "owed"]
NoTool == [pc |-> "idle", items |-> {}, at |-> None, snap |-> NoFile, res |-> None]

\* A fresh contentState.
contentState(origin, d) ==
    [gen |-> origin, life |-> d.life, stat |-> Stat(d), gc |-> d.gc,
     eval |-> None, loaded |-> FALSE, mk |-> None, uploaded |-> FALSE, refused |-> FALSE,
     pend |-> None, pendLoaded |-> FALSE, failed |-> <<0, 0>>, fails |-> 0]
markEvaluated(st, stat, gc) == [st EXCEPT !.eval = <<stat, gc>>]

\* contentMarker: the bytes, stat, session and binding last accepted.  old marks one written
\* before the re-upload cutoff.
contentMarker(bytes, stat, native, gc, refused, old) ==
    [bytes |-> bytes, stat |-> stat, native |-> native, gc |-> gc, refused |-> refused,
     old |-> old]

vars == <<disk, policy, latest, calls, watch, parsed, session, files, tick, hold, refusal,
          token, marker, pending, tool, journal, store, judged, budget>>

\* The daemon starts over what an earlier one left: a transcript it had already uploaded to the
\* store in use before the cutoff, or one nobody has seen.
Init ==
    /\ disk \in [Ids -> {[NoFile EXCEPT !.life = 1, !.len = 1]}]
    /\ \E old \in BOOLEAN :
        /\ marker = [id \in Ids |-> IF old THEN contentMarker(<<1, 1>>, <<1, 0>>, 1, FALSE, FALSE, TRUE)
                                           ELSE None]
        /\ parsed = [id \in Ids |-> IF old THEN <<1, 1>> ELSE <<0, 0>>]
        /\ store = IF old THEN {<<1, <<1, 1>>, "before">>} ELSE {}
    /\ policy = [on |-> TRUE, gen |-> 1]
    /\ latest = policy
    /\ calls = {}
    /\ watch = [gen |-> 1, obs |-> TRUE, at |-> None, life |-> [id \in Ids |-> 0]]
    /\ session = [id \in Ids |-> 0]
    /\ files = [id \in Ids |-> None]
    /\ tick = NoTick
    /\ hold = FALSE
    /\ refusal = None
    /\ token = 0
    /\ pending = [id \in Ids |-> None]
    /\ tool = NoTool
    /\ journal = {}
    /\ judged = {}
    /\ budget = [faults |-> 0, ops |-> 0, stale |-> {}, unwritten |-> {}]

---------------------------------------------------------------------------
(* The world outside: transcripts, the consent file, the token file, time. *)

\* One more change of the world, one more fault.
Op == budget.ops < MaxOps /\ budget' = [budget EXCEPT !.ops = @ + 1]
Fault == budget.faults < MaxFaults /\ budget' = [budget EXCEPT !.faults = @ + 1]
\* The fault is a marker that could not be written.
MarkerFault(id) ==
    /\ budget.faults < MaxFaults
    /\ budget' = [budget EXCEPT !.faults = @ + 1, !.unwritten = @ \cup {id}]

daemon == <<latest, calls, watch, session, files, tick, hold, refusal>>
durable == <<marker, pending, parsed>>
outside == <<tool, journal, store, judged>>

\* A marker met or written for an id whose file is another transcript, or gone, or a session
\* still threaded for one.
NoteMarker(id, m) ==
    budget' = IF \/ m # None /\ (disk[id].len = 0 \/ m.bytes[1] # disk[id].life)
                 \/ session[id] \notin {0, disk[id].life}
              THEN [budget EXCEPT !.stale = @ \cup {id}] ELSE budget
\* An answer about a transcript that is recorded on the next one with its number.
NoteOutcome ==
    budget' = IF files[tick.job.id] # None /\ files[tick.job.id].life # tick.job.life
              THEN [budget EXCEPT !.stale = @ \cup {tick.job.id}] ELSE budget

\* A provider appends to a transcript, Gas City writes its sidecar, or only its mtime moves.
WriteTranscript(id) ==
    /\ Op /\ disk[id].len > 0
    /\ \/ disk[id].len < MaxLen /\ disk' = [disk EXCEPT ![id].len = @ + 1]
       \/ ~disk[id].gc /\ disk' = [disk EXCEPT ![id].gc = TRUE]
       \/ disk' = [disk EXCEPT ![id].mod = @ + 1]
    /\ UNCHANGED <<policy, token, daemon, durable, outside>>

\* The transcript is deleted, and later another one takes its inode number.
ReplaceTranscript(id) ==
    /\ \/ /\ disk[id].len > 0 /\ disk[id].life < MaxLife /\ Op
          /\ disk' = [disk EXCEPT ![id].len = 0]
       \/ /\ disk[id].len = 0
          /\ disk' = [disk EXCEPT ![id] = [life |-> @.life + 1, len |-> 1, mod |-> @.mod + 1, gc |-> FALSE]]
          /\ UNCHANGED budget
    /\ UNCHANGED <<policy, token, daemon, durable, outside>>

\* The operator withdraws content upload, or consents again under a new generation.
WritePolicy ==
    /\ Op
    /\ \/ policy' = [policy EXCEPT !.on = FALSE] /\ policy.on
       \/ policy.gen < MaxGen /\ policy' = [on |-> TRUE, gen |-> policy.gen + 1]
    /\ UNCHANGED <<disk, token, daemon, durable, outside>>

\* A hold and a refusal's back-off run out; the credential is renewed after a refusal.
HoldPasses ==
    /\ hold \/ (refusal # None /\ refusal.waiting)
    /\ hold' = FALSE
    /\ refusal' = IF refusal = None THEN None ELSE [refusal EXCEPT !.waiting = FALSE]
    /\ UNCHANGED <<disk, policy, token, latest, calls, watch, session, files, tick,
                   durable, outside, budget>>

RenewToken ==
    /\ refusal # None /\ refusal.waiting /\ token = refusal.token /\ token = 0
    /\ token' = token + 1
    /\ UNCHANGED <<disk, policy, daemon, durable, outside, budget>>
---------------------------------------------------------------------------
(* Consent.                                                                *)

\* Content captured under generation gen is covered by policy p (contentAllowedBy).
contentAllowedBy(p, gen) == p.on /\ p.gen = gen
allowed(gen) == contentAllowedBy(latest, gen)

\* Source.Current: a loop that finds the policy changed publishes it, and runs onConsentChange
\* itself; the other loops go on under the published policy.
Current(by) ==
    /\ tick.pc # "down" /\ latest # policy
    /\ by = "tick" => tick.pc \in {"idle", "job", "reg"}
    /\ ~\E c \in calls : c.by = by
    /\ latest' = policy
    /\ calls' = calls \cup {[by |-> by, step |-> "drop", pol |-> policy]}
    /\ UNCHANGED <<disk, policy, token, watch, session, files, tick, hold, refusal, durable,
                   outside, budget>>

\* refreshConsent has returned in the content loop.
refreshed == latest = policy /\ ~\E c \in calls : c.by = "tick"

\* onConsentChange, under u.mu: uncovered transcripts are dropped and an uncovered request in
\* flight is cancelled; then, under pendingMu, uncovered pending records are swept.
Dropped(p) == [id \in Ids |-> IF files[id] # None /\ contentAllowedBy(p, files[id].gen)
                              THEN files[id] ELSE None]
InFlight == tick.pc \in {"fly", "out"}
onConsentChange(c) ==
    /\ c.step = "drop"
    /\ calls' = (calls \ {c}) \cup {[c EXCEPT !.step = "sweep"]}
    /\ files' = Dropped(c.pol)
    /\ tick' = [tick EXCEPT !.withdrawn = @ \/ (InFlight /\ ~contentAllowedBy(c.pol, tick.job.gen))]
    /\ UNCHANGED <<disk, policy, token, latest, watch, session, hold, refusal, durable, outside,
                   budget>>

sweepContentPending == [id \in Ids |-> IF pending[id] # None /\ allowed(pending[id].gen)
                                       THEN pending[id] ELSE None]
sweepPending(c) ==
    /\ c.step = "sweep"
    /\ calls' = calls \ {c}
    /\ pending' = sweepContentPending
    /\ UNCHANGED <<disk, policy, token, latest, watch, session, files, tick, hold, refusal,
                   marker, parsed, outside, budget>>

---------------------------------------------------------------------------
(* The watcher.                                                            *)

watching == tick.pc # "down" /\ ~\E c \in calls : c.by = "other"

\* applyWatchConsentLocked: a changed policy rebuilds the watcher, and dropAll forgets what was
\* queued.  The new watcher tracks nothing yet.
RebuildWatcher ==
    /\ watching /\ latest = policy /\ <<watch.gen, watch.obs>> # <<latest.gen, latest.on>>
    /\ watch' = [gen |-> latest.gen, obs |-> latest.on, at |-> None, life |-> [id \in Ids |-> 0]]
    /\ files' = [id \in Ids |-> None]
    /\ UNCHANGED <<disk, policy, token, latest, calls, session, tick, hold, refusal, durable,
                   outside, budget>>

\* observe: the transcript's identity and stat, under the consent the watcher was built with.
Observed(st, d) ==
    LET s == [st EXCEPT !.gen = watch.gen, !.life = d.life, !.gc = d.gc]
    IN  [s EXCEPT !.eval = IF st.gc # d.gc THEN None ELSE @,
                  !.stat = Stat(d)]
observe(id) ==
    /\ watching /\ watch.at = None /\ watch.gen = latest.gen
    /\ disk[id].len > 0 /\ watch.life[id] \in {0, disk[id].life}
    /\ watch' = [watch EXCEPT !.at = id, !.life[id] = disk[id].life]
    /\ files' = IF ~watch.obs THEN files
                ELSE [files EXCEPT ![id] =
                        IF ~allowed(watch.gen) THEN None
                        ELSE IF files[id] = None THEN contentState(watch.gen, disk[id])
                        ELSE Observed(files[id], disk[id])]
    /\ NoteMarker(id, marker[id])
    /\ UNCHANGED <<disk, policy, token, latest, calls, session, tick, hold, refusal, durable,
                   outside>>

\* The rest of the drain: new lines reach the sink, which threads their session, and the cursor
\* is committed.  A delivery that fails leaves both for the next poll.
Deliver(id) ==
    /\ watch.at = id /\ tick.pc # "down"
    /\ watch' = [watch EXCEPT !.at = None]
    /\ \/ /\ IF parsed[id] = Bytes(disk[id]) \/ disk[id].len = 0 \/ disk[id].life # watch.life[id]
             THEN UNCHANGED <<session, parsed>>
             ELSE /\ session' = [session EXCEPT ![id] = disk[id].life]
                  /\ parsed' = [parsed EXCEPT ![id] = Bytes(disk[id])]
          /\ UNCHANGED budget
       \/ /\ Fault
          /\ UNCHANGED <<session, parsed>>
    /\ UNCHANGED <<disk, policy, token, latest, calls, files, tick, hold, refusal, marker, pending,
                   outside>>

\* releaseTracked and ForgetContent: the file is gone, or another one has its inode number.  The
\* uploader is told only when the watcher feeds it.
ForgetContent(id) ==
    /\ watching /\ watch.at = None /\ watch.life[id] > 0
    /\ disk[id].len = 0 \/ disk[id].life # watch.life[id]
    /\ watch' = [watch EXCEPT !.life[id] = 0]
    /\ parsed' = [parsed EXCEPT ![id] = <<0, 0>>]
    /\ IF ~watch.obs THEN UNCHANGED <<files, marker, pending, session>>
       ELSE /\ files' = [files EXCEPT ![id] = None]
            /\ marker' = [marker EXCEPT ![id] = None]
            /\ pending' = [pending EXCEPT ![id] = None]
            /\ session' = [session EXCEPT ![id] = 0]
    /\ UNCHANGED <<disk, policy, token, latest, calls, tick, hold, refusal, outside, budget>>

---------------------------------------------------------------------------
(* The content loop.                                                       *)

\* ensureMarkerLoadedLocked and ensurePendingLoadedLocked: the durable records of an earlier run,
\* looked for once.  A pending record counts only for the same name, under the same consent, and
\* for a file that has only grown since.
MarkerLoaded(id, st) ==
    IF st.loaded THEN st
    ELSE IF marker[id] = None THEN [st EXCEPT !.loaded = TRUE]
    ELSE markEvaluated([st EXCEPT !.loaded = TRUE, !.mk = marker[id], !.uploaded = TRUE,
                                  !.refused = marker[id].refused],
                       marker[id].stat, marker[id].gc)
\* Mutant: a record keys any file with its number under the same consent.
namesAnyFile(p, st) == p.gen = st.gen
names(p, st) == p.gen = st.gen /\ p.life = st.life
PendingLoaded(id, st) ==
    LET p == pending[id]
    IN  IF st.pendLoaded THEN st
        ELSE IF p # None /\ names(p, st) /\ p.stat[1] <= st.stat[1] /\ p.stat[2] <= st.stat[2]
        THEN [st EXCEPT !.pendLoaded = TRUE, !.pend = p]
        ELSE [st EXCEPT !.pendLoaded = TRUE]
handled(st) == st.eval = <<st.stat, st.gc>>

\* resolveSessionLocked: the sink, else the pending record, else the marker, else the name.
deriveSessionFromName(life) == IF life \in Named THEN life ELSE 0
resolveSession(id, st) ==
    IF session[id] # 0 THEN session[id]
    ELSE IF st.pend # None THEN st.pend.native
    ELSE IF st.mk # None THEN st.mk.native
    ELSE deriveSessionFromName(st.life)

\* pendingRecord: nothing is owed a record that a restart could already key.
keyed(st, native) ==
    \/ st.uploaded /\ st.mk.native = native
    \/ st.pend # None /\ st.pend.native = native /\ names(st.pend, st)

\* plan, per transcript: the state it leaves, the record it is owed, and the job it becomes.
PlannedState(id) ==
    IF files[id] = None \/ ~allowed(files[id].gen) THEN None
    ELSE LET st == MarkerLoaded(id, files[id])
         IN  IF handled(st) THEN st ELSE PendingLoaded(id, st)
owes(id, st) == st # None /\ ~handled(st) /\ resolveSession(id, st) # 0
Saves(fs) ==
    {[id |-> id, rec |-> [native |-> resolveSession(id, fs[id]), gen |-> fs[id].gen,
                          life |-> fs[id].life, stat |-> fs[id].stat]] :
        id \in {i \in Ids : owes(i, fs[i]) /\ ~keyed(fs[i], resolveSession(i, fs[i]))}}
failures(st) == IF st.failed = st.stat THEN st.fails ELSE 0
Jobs(fs, stable) ==
    {[id |-> id, gen |-> fs[id].gen, life |-> fs[id].life, gc |-> fs[id].gc,
      native |-> resolveSession(id, fs[id]), size |-> fs[id].stat[1], fails |-> failures(fs[id])] :
        id \in {i \in stable : owes(i, fs[i])}}

\* The loop between two jobs, and after one whose outcome is still to be written.
Owed == [NoTick EXCEPT !.pc = "owed", !.jobs = tick.jobs]
After(pc) == [Owed EXCEPT !.pc = pc, !.job = tick.job]

Still == UNCHANGED <<disk, policy, token, latest, calls, watch, session>>

\* tick: plan, whether or not posting is held.  stable are the transcripts whose stat has not
\* changed for the debounce window, which is many polls long: the watcher has delivered the tail
\* it observed.
TickPlan(stable) ==
    LET fs == [id \in Ids |-> PlannedState(id)]
    IN  /\ tick.pc = "idle" /\ refreshed
        /\ \A id \in stable : fs[id] # None /\ parsed[id] = <<fs[id].life, fs[id].stat[1]>>
        /\ files' = fs
        /\ tick' = [tick EXCEPT !.pc = "save", !.saves = Saves(fs), !.jobs = Jobs(fs, stable)]
        /\ Still /\ UNCHANGED <<hold, refusal, durable, outside, budget>>

\* savePendingRecord, under pendingMu: only while the transcript is still the one planned and its
\* content still consented to.  A failed write is retried by the next plan.
\* Mutant: the record is written as it was planned.
pendingCurrentPlanned(s) == TRUE
pendingCurrent(s) == files[s.id] # None /\ files[s.id].pendLoaded /\ allowed(files[s.id].gen)
savePendingRecord ==
    \E s \in tick.saves :
        /\ tick.pc = "save"
        /\ tick' = [tick EXCEPT !.saves = @ \ {s}]
        /\ \/ /\ pendingCurrent(s)
              /\ pending' = [pending EXCEPT ![s.id] = s.rec]
              /\ files' = [files EXCEPT ![s.id] = IF @ = None THEN None ELSE [@ EXCEPT !.pend = s.rec]]
              /\ UNCHANGED budget
           \/ /\ ~pendingCurrent(s)
              /\ UNCHANGED <<pending, files, budget>>
           \/ /\ pendingCurrent(s) /\ Fault
              /\ UNCHANGED <<pending, files>>
        /\ Still /\ UNCHANGED <<hold, refusal, marker, parsed, outside>>

\* postingHeld: a hold, or a refusal whose back-off has not passed and whose credential is still
\* the refused one.
postingHeld == hold \/ (refusal # None /\ refusal.waiting /\ token = refusal.token)
TickGate ==
    /\ tick.pc = "save" /\ tick.saves = {}
    /\ tick' = IF postingHeld \/ tick.jobs = {} THEN NoTick ELSE [tick EXCEPT !.pc = "job"]
    /\ Still /\ UNCHANGED <<files, hold, refusal, durable, outside, budget>>

\* The order of the jobs: fewest failures first, unless the next request only probes a refusal;
\* then smallest first.
Before(a, b) == \/ refusal = None /\ a.fails < b.fails
                \/ (refusal # None \/ a.fails = b.fails) /\ a.size < b.size
NextJob(j) == j \in tick.jobs /\ ~\E o \in tick.jobs : Before(o, j)

\* ErrTranscriptTooLarge.
tooLarge(d) == d.len > MaxBytes

\* One job, before any byte is read: consent, the hold and the queue are checked again.  Then the
\* whole file is read; one that is gone or renamed is left for a later tick, an oversize one is
\* evaluated and no longer owed.
TickJob ==
    \E j \in tick.jobs :
        /\ tick.pc = "job" /\ refreshed /\ NextJob(j)
        /\ LET id == j.id
               d == disk[id]
               rest == [tick EXCEPT !.jobs = @ \ {j}, !.job = j]
           IN  \/ /\ postingHeld
                  /\ tick' = NoTick
                  /\ UNCHANGED <<files, pending>>
               \/ /\ ~postingHeld
                  /\ ~allowed(j.gen) \/ files[id] = None \/ d.len = 0 \/ d.life # j.life
                  /\ tick' = [Owed EXCEPT !.jobs = @ \ {j}]
                  /\ UNCHANGED <<files, pending>>
               \/ /\ ~postingHeld /\ allowed(j.gen) /\ files[id] # None /\ d.life = j.life
                  /\ tooLarge(d)
                  /\ files' = [files EXCEPT ![id] = [markEvaluated(@, Stat(d), j.gc) EXCEPT !.pend = None]]
                  /\ pending' = [pending EXCEPT ![id] = None]
                  /\ tick' = [Owed EXCEPT !.jobs = @ \ {j}]
               \/ /\ ~postingHeld /\ allowed(j.gen) /\ files[id] # None /\ d.life = j.life
                  /\ d.len > 0 /\ ~tooLarge(d)
                  /\ tick' = [rest EXCEPT !.pc = "look", !.snap = d]
                  /\ UNCHANGED <<files, pending>>
        /\ Still /\ UNCHANGED <<hold, refusal, marker, parsed, outside, budget>>

\* processOne after the read: identical bytes are not sent again, and only a real acceptance is
\* persisted.  A refused binding is not offered again.
sameSnapshot(st) == st.mk # None /\ st.mk.bytes = Bytes(tick.snap) /\ st.mk.gc = tick.job.gc
processOne ==
    LET id == tick.job.id
        st == files[id]
        seen == markEvaluated([st EXCEPT !.pend = None, !.mk = IF st.uploaded
                                 THEN [@ EXCEPT !.stat = Stat(tick.snap), !.native = tick.job.native]
                                 ELSE @], Stat(tick.snap), tick.job.gc)
    IN  /\ tick.pc = "look"
        /\ \/ /\ st = None
              /\ tick' = Owed
              /\ UNCHANGED files
           \/ /\ st # None /\ sameSnapshot(st)
              /\ files' = [files EXCEPT ![id] = seen]
              /\ tick' = [After("persist") EXCEPT
                             !.rec = IF st.uploaded THEN [seen.mk EXCEPT !.old = FALSE] ELSE None,
                             !.next = IF st.pend # None THEN "drop" ELSE "owed"]
           \/ /\ st # None /\ ~sameSnapshot(st)
              /\ tick' = [tick EXCEPT !.pc = "reg", !.gc = tick.job.gc /\ ~st.refused]
              /\ UNCHANGED files
        /\ Still /\ UNCHANGED <<hold, refusal, durable, outside, budget>>

\* postSnapshot up to the request: consent is checked and the flight registered under one lock.
RegisterFlight ==
    LET id == tick.job.id
    IN  /\ tick.pc = "reg" /\ refreshed
        /\ \/ /\ ~allowed(tick.job.gen)
              /\ files' = [files EXCEPT ![id] = None]
              /\ tick' = Owed
           \/ /\ allowed(tick.job.gen)
              /\ tick' = [tick EXCEPT !.pc = "fly", !.withdrawn = FALSE, !.tok = token]
              /\ UNCHANGED files
        /\ Still /\ UNCHANGED <<hold, refusal, durable, outside, budget>>

---------------------------------------------------------------------------
(* The collector, and what the loop does with its answer.                  *)

\* The collector answers a request of either actor.  It stores the bytes under the session it
\* was given; any other answer is a fault of the bound.  A request that fails in transport may
\* or may not have been stored.
Answers(gc) == {"ok", "fail", "shed", "refuse", "reject", "mismatch"}
                 \cup (IF gc THEN {"gcConflict"} ELSE {"idConflict"})
Answered(res, native, bytes) ==
    /\ \/ res = "ok" /\ UNCHANGED budget
       \/ /\ res # "ok" /\ Fault
    /\ \/ res \in {"ok", "fail"} /\ store' = store \cup {<<native, bytes, "after">>}
       \/ res # "ok" /\ UNCHANGED store
    /\ judged' = IF res \in {"reject", "mismatch", "idConflict"} THEN judged \cup {<<res, bytes>>} ELSE judged

PostContent ==
    /\ tick.pc = "fly"
    /\ \/ \E res \in Answers(tick.gc) :
            /\ Answered(res, tick.job.native, Bytes(tick.snap))
            /\ tick' = [tick EXCEPT !.pc = "out", !.res = res]
       \/ /\ tick.withdrawn
          /\ tick' = [tick EXCEPT !.pc = "out", !.res = "fail"]
          /\ UNCHANGED <<store, judged, budget>>
    /\ Still /\ UNCHANGED <<files, hold, refusal, durable, tool, journal>>

\* recordPostFailureLocked: given up once one snapshot has failed MaxAttempts times.
recordPostFailure(st) ==
    LET n == IF st.failed = Stat(tick.snap) THEN st.fails + 1 ELSE 1
        s == [st EXCEPT !.failed = Stat(tick.snap), !.fails = n]
    IN  IF n = MaxAttempts THEN markEvaluated(s, Stat(tick.snap), tick.job.gc) ELSE s

\* setUploaded, and its in-memory-only form after a rejection or an identity conflict.
\* Mutant: a rejected snapshot is remembered as uploaded.
SettledUploaded(st, uploaded) ==
    markEvaluated([st EXCEPT !.mk = contentMarker(Bytes(tick.snap), Stat(tick.snap),
                                      tick.job.native, tick.job.gc, st.refused, FALSE),
                             !.uploaded = TRUE],
                  Stat(tick.snap), tick.job.gc)
Settled(st, uploaded) ==
    markEvaluated([st EXCEPT !.mk = contentMarker(Bytes(tick.snap), Stat(tick.snap),
                                      tick.job.native, tick.job.gc, st.refused, FALSE),
                             !.uploaded = uploaded],
                  Stat(tick.snap), tick.job.gc)
acceptedSnapshot(st) == [Settled(st, TRUE) EXCEPT !.loaded = TRUE, !.pend = None, !.fails = 0]

Became(st) == files' = [files EXCEPT ![tick.job.id] = IF @ = None THEN None ELSE st]

\* postSnapshot after the request, under u.mu.
Withdrawn ==
    /\ tick.pc = "out" /\ tick.withdrawn /\ tick.res = "fail"
    /\ files' = [files EXCEPT ![tick.job.id] = None]
    /\ tick' = Owed
    /\ Still /\ UNCHANGED <<hold, refusal, durable, outside, budget>>

out == tick.pc = "out" /\ ~(tick.withdrawn /\ tick.res = "fail")
PostFailed ==
    /\ out /\ tick.res = "fail"
    /\ hold' = TRUE
    /\ Became(recordPostFailure(files[tick.job.id]))
    /\ tick' = Owed
    /\ Still /\ UNCHANGED <<refusal, durable, outside, budget>>

Shed ==
    /\ out /\ tick.res = "shed"
    /\ hold' = TRUE
    /\ tick' = Owed
    /\ Still /\ UNCHANGED <<files, refusal, durable, outside, budget>>

recordRefusal ==
    /\ out /\ tick.res = "refuse"
    /\ refusal' = [token |-> tick.tok, waiting |-> TRUE]
    /\ tick' = Owed
    /\ Still /\ UNCHANGED <<files, hold, durable, outside, budget>>

\* 200, 201, and 409 for bytes the collector already holds: the marker is persisted, then the
\* pending record is deleted.
PostAccepted ==
    /\ out /\ tick.res \in {"ok", "mismatch"}
    /\ refusal' = None
    /\ Became(acceptedSnapshot(files[tick.job.id]))
    /\ tick' = [After("persist") EXCEPT !.next = "drop",
                   !.rec = IF files[tick.job.id] = None THEN None
                           ELSE acceptedSnapshot(files[tick.job.id]).mk]
    /\ NoteOutcome
    /\ Still /\ UNCHANGED <<hold, durable, outside>>

\* The binding is refused: sent again at once without it.
BindingRefused ==
    /\ out /\ tick.res = "gcConflict"
    /\ refusal' = None
    /\ Became([files[tick.job.id] EXCEPT !.refused = TRUE])
    /\ tick' = [tick EXCEPT !.pc = "reg", !.gc = FALSE, !.res = None]
    /\ Still /\ UNCHANGED <<hold, durable, outside, budget>>

\* An identity conflict keeps the pending record; a rejection deletes it.
PostRejected ==
    /\ out /\ tick.res \in {"idConflict", "reject"}
    /\ refusal' = None
    /\ Became([Settled(files[tick.job.id], FALSE) EXCEPT
                  !.pend = IF tick.res = "reject" THEN None ELSE @])
    /\ tick' = IF tick.res = "reject" THEN After("drop") ELSE Owed
    /\ NoteOutcome
    /\ Still /\ UNCHANGED <<hold, durable, outside>>

\* recordAccepted, with u.mu released.
persistMarker ==
    /\ tick.pc = "persist"
    /\ tick' = IF tick.next = "drop" THEN After("drop") ELSE Owed
    /\ \/ /\ marker' = IF tick.rec = None THEN marker ELSE [marker EXCEPT ![tick.job.id] = tick.rec]
          /\ NoteMarker(tick.job.id, tick.rec)
       \/ /\ tick.rec # None /\ MarkerFault(tick.job.id)
          /\ UNCHANGED marker
    /\ Still /\ UNCHANGED <<files, hold, refusal, pending, parsed, outside>>

\* A delete that fails is logged, and not tried again.
dropPending ==
    /\ tick.pc = "drop"
    /\ \/ pending' = [pending EXCEPT ![tick.job.id] = None] /\ UNCHANGED budget
       \/ Fault /\ UNCHANGED pending
    /\ tick' = Owed
    /\ Still /\ UNCHANGED <<files, hold, refusal, marker, parsed, outside>>

\* recordOwedIfStale: what became owed while the upload was in flight is recorded between two
\* uploads, if the last plan is an interval old.
recordOwedIfStale ==
    /\ tick.pc = "owed"
    /\ \E stale \in BOOLEAN :
        LET fs == IF stale THEN [id \in Ids |-> PlannedState(id)] ELSE files
        IN  /\ files' = fs
            /\ tick' = [NoTick EXCEPT !.pc = "save", !.jobs = tick.jobs,
                                      !.saves = IF stale THEN Saves(fs) ELSE {}]
    /\ Still /\ UNCHANGED <<hold, refusal, durable, outside, budget>>

---------------------------------------------------------------------------
(* Stopping and starting the daemon.                                       *)

Down ==
    /\ tick' = [NoTick EXCEPT !.pc = "down"]
    /\ files' = [id \in Ids |-> None]
    /\ session' = [id \in Ids |-> 0]
    /\ watch' = [watch EXCEPT !.at = None, !.life = [id \in Ids |-> 0]]
    /\ calls' = {} /\ hold' = FALSE /\ refusal' = None
    /\ UNCHANGED <<disk, policy, token, latest, marker, parsed, outside>>

\* Mutant: a stop records nothing more.
StopUnrecorded ==
    /\ tick.pc = "idle" /\ calls = {} /\ watch.at = None /\ Op
    /\ Down
    /\ UNCHANGED pending

\* A stop drains the loops and then runs recordOwed once more.
Stop ==
    /\ tick.pc = "idle" /\ calls = {} /\ watch.at = None /\ Op
    /\ LET fs == [id \in Ids |-> PlannedState(id)]
       IN  pending' = [id \in Ids |-> IF \E s \in Saves(fs) : s.id = id
                                      THEN (CHOOSE s \in Saves(fs) : s.id = id).rec
                                      ELSE pending[id]]
    /\ Down

\* A kill loses whatever the process had not written.
Kill ==
    /\ tick.pc # "down" /\ budget.ops < MaxOps /\ budget.faults < MaxFaults
    /\ budget' = [budget EXCEPT !.ops = @ + 1, !.faults = @ + 1]
    /\ Down
    /\ UNCHANGED pending

\* newContentUploader: what was queued under consent that no longer applies is discarded first.
Start ==
    /\ tick.pc = "down"
    /\ tick' = NoTick
    /\ latest' = policy
    /\ pending' = [id \in Ids |-> IF pending[id] # None /\ contentAllowedBy(policy, pending[id].gen)
                                  THEN pending[id] ELSE None]
    /\ watch' = [gen |-> policy.gen, obs |-> policy.on, at |-> None, life |-> [id \in Ids |-> 0]]
    /\ UNCHANGED <<disk, policy, token, calls, session, files, hold, refusal, marker, parsed,
                   outside, budget>>

---------------------------------------------------------------------------
(* The re-upload tool.                                                     *)

others == <<disk, policy, token, daemon, pending, parsed>>

\* A run locks the journal, reads every marker it selects (uploaded before the cutoff) and is not
\* done with, and locates each.  One whose name is another transcript's is left out where the
\* provider's names are trusted (codex), and only counted where they are not (claude).
reuploadSelects(id) == marker[id] # None /\ marker[id].old /\ ~\E o \in journal : o[1] = id
located(id) == disk[id].len > 0
misnamed(id) == deriveSessionFromName(disk[id].life) \notin {0, marker[id].native}
\* The command checks once, as it starts, that the policy grants content upload.
reuploadRootsFromPolicy == policy.on
RunContentReupload ==
    /\ tool.pc = "idle" /\ reuploadRootsFromPolicy /\ Op
    /\ \E found \in SUBSET Ids :
        /\ found # {} /\ \A id \in found : reuploadSelects(id) /\ located(id)
        /\ \A id \in Ids \ found : reuploadSelects(id) /\ located(id) => misnamed(id)
        /\ tool' = [NoTool EXCEPT !.pc = "item",
                       !.items = {[id |-> id, life |-> disk[id].life, m |-> marker[id]] : id \in found}]
    /\ UNCHANGED <<others, marker, journal, store, judged>>

\* The bytes read must extend the bytes the marker recorded.
markerPrefixMatches(m, d) == m.bytes[1] = d.life /\ m.bytes[2] <= d.len
ToolRead ==
    \E it \in tool.items :
        LET d == disk[it.id]
            rest == [tool EXCEPT !.items = @ \ {it}]
        IN  /\ tool.pc = "item"
            /\ \/ /\ d.len > MaxBytes /\ d.life = it.life
                  /\ journal' = journal \cup {<<it.id, "oversize">>}
                  /\ tool' = rest
               \/ /\ d.len <= MaxBytes
                  /\ d.len = 0 \/ d.life # it.life \/ ~markerPrefixMatches(it.m, d)
                  /\ tool' = rest
                  /\ UNCHANGED journal
               \/ /\ d.len \in 1..MaxBytes /\ d.life = it.life /\ markerPrefixMatches(it.m, d)
                  /\ tool' = [rest EXCEPT !.pc = "post", !.at = it, !.snap = d]
                  /\ UNCHANGED journal
            /\ UNCHANGED <<others, marker, store, judged, budget>>

\* postReupload: a refused binding is dropped and the bytes are sent again; a conflict and a
\* failure are not journaled; a refusal ends the run.
postReupload ==
    /\ tool.pc = "post"
    /\ \E res \in Answers(tool.at.m.gc /\ ~tool.at.m.refused) :
        /\ Answered(res, tool.at.m.native, Bytes(tool.snap))
        /\ \/ /\ res = "ok"
              /\ tool' = [tool EXCEPT !.pc = "marker", !.res = "accepted"]
              /\ UNCHANGED journal
           \/ /\ res = "gcConflict"
              /\ tool' = [tool EXCEPT !.at.m.refused = TRUE]
              /\ UNCHANGED journal
           \/ /\ res = "reject"
              /\ journal' = journal \cup {<<tool.at.id, "rejected">>}
              /\ tool' = [tool EXCEPT !.pc = "item"]
           \/ /\ res = "refuse"
              /\ tool' = NoTool
              /\ UNCHANGED journal
           \/ /\ res \in {"fail", "shed", "mismatch", "idConflict"}
              /\ tool' = [tool EXCEPT !.pc = "item"]
              /\ UNCHANGED journal
    /\ UNCHANGED <<others, marker>>

\* An acceptance is recorded in the marker first, then in the journal.
ToolMarker ==
    /\ tool.pc = "marker"
    /\ \/ /\ marker' = [marker EXCEPT ![tool.at.id] =
                          contentMarker(Bytes(tool.snap), Stat(tool.snap), tool.at.m.native,
                                        tool.at.m.gc, tool.at.m.refused, FALSE)]
          /\ tool' = [tool EXCEPT !.pc = "settle"]
          /\ NoteMarker(tool.at.id, tool.at.m)
       \/ /\ Fault
          /\ tool' = [tool EXCEPT !.pc = "item"]
          /\ UNCHANGED marker
    /\ UNCHANGED <<others, journal, store, judged>>

ToolSettle ==
    /\ tool.pc = "settle"
    /\ journal' = journal \cup {<<tool.at.id, tool.res>>}
    /\ tool' = [tool EXCEPT !.pc = "item"]
    /\ UNCHANGED <<others, marker, store, judged, budget>>

\* The run ends, or is interrupted between any two steps.
ToolEnds ==
    /\ tool.pc # "idle"
    /\ tool' = NoTool
    /\ UNCHANGED <<others, marker, journal, store, judged, budget>>

---------------------------------------------------------------------------
World == \/ \E id \in Ids : WriteTranscript(id) \/ ReplaceTranscript(id)
         \/ WritePolicy \/ HoldPasses \/ RenewToken
Consent == \/ \E by \in {"tick", "other"} : Current(by)
           \/ \E c \in calls : onConsentChange(c) \/ sweepPending(c)
Watcher == RebuildWatcher \/ \E id \in Ids : observe(id) \/ Deliver(id) \/ ForgetContent(id)
Outcome == Withdrawn \/ PostFailed \/ Shed \/ recordRefusal \/ PostAccepted \/ BindingRefused
             \/ PostRejected
Tick == \/ \E stable \in SUBSET Ids : TickPlan(stable)
        \/ savePendingRecord \/ TickGate \/ TickJob \/ processOne \/ RegisterFlight
        \/ PostContent \/ Outcome \/ persistMarker \/ dropPending \/ recordOwedIfStale
Process == Stop \/ Kill \/ Start
Reupload == RunContentReupload \/ ToolRead \/ postReupload \/ ToolMarker \/ ToolSettle \/ ToolEnds

Next == World \/ Consent \/ Watcher \/ Tick \/ Process \/ Reupload
Spec == Init /\ [][Next]_vars

---------------------------------------------------------------------------
(* Properties.                                                             *)

\* Types; a job in hand once one is read, and an answer in hand exactly once one is out.
TypeOK ==
    /\ disk \in [Ids -> Snapshots]
    /\ \A id \in Ids : disk[id].life \in Lives /\ (disk[id].len = 0 => disk[id].life < MaxLife)
    /\ policy \in Policies /\ latest \in Policies
    /\ calls \subseteq CallSet /\ watch \in Watchers
    /\ parsed \in [Ids -> Pairs] /\ session \in [Ids -> 0..MaxLife]
    /\ files \in [Ids -> FileStates \cup {None}]
    /\ tick \in Ticks /\ tool \in Tools
    /\ hold \in BOOLEAN /\ token \in Nat /\ refusal \in Refusals \cup {None}
    /\ marker \in [Ids -> Markers \cup {None}] /\ pending \in [Ids -> Records \cup {None}]
    /\ journal \subseteq Ids \X {"oversize", "rejected", "accepted"}
    /\ store \subseteq Lives \X Pairs \X {"before", "after"} /\ judged \subseteq Results \X Pairs
    /\ budget \in Budgets
    /\ tick.pc \in {"look", "reg", "fly", "out"} => tick.job # None /\ tick.snap.len \in 1..MaxBytes
    /\ tick.pc \in {"persist", "drop"} => tick.job # None
    /\ tick.pc = "out" <=> tick.res # None
    /\ tool.pc \in {"post", "marker", "settle"} => tool.at # None
    /\ tool.pc \in {"marker", "settle"} => tool.res = "accepted"

\* What the collector holds under a session is that session's own transcript, although inode
\* numbers are reused and the session of a file is remembered in four places.  The exception is a
\* file whose number still had another transcript's marker or session when the watcher first
\* tracked it, or was given the answer to that one's request (postSnapshot finds the state by
\* number only): resolveSessionLocked trusts both without a name.
KeyedRight == \A x \in store : x[1] = x[2][1] \/ budget.stale # {}

\* Once the loop that saw a consent change has applied it, no request it does not cover is still
\* running uncancelled, and none can start.
FlightCovered ==
    InFlight /\ (\A c \in calls : c.step # "drop")
        => allowed(tick.job.gen) \/ tick.withdrawn

\* No queued record outlives the consent it was queued under, whichever loop was writing it when
\* the policy narrowed, so no later run can send it.
PendingCovered ==
    tick.pc # "down" /\ calls = {} => \A id \in Ids : pending[id] # None => allowed(pending[id].gen)

\* A snapshot is left alone only for a reason: the collector has its bytes, judged them, or failed
\* on them MaxAttempts times, they are oversize, or the file has changed since and the next poll
\* looks at it again.  A refusal or a shed never costs one.
HandledForReason ==
    \A id \in Ids :
        LET st == files[id]
            b == <<st.life, st.stat[1]>>
        IN  st # None /\ handled(st) =>
                \/ \E x \in store : x[2] = b
                \/ \E r \in judged : r[2] = b
                \/ st.fails >= MaxAttempts /\ st.failed = st.stat
                \/ st.stat[1] > MaxBytes
                \/ Stat(disk[id]) # st.stat

\* A marker records bytes the collector took under that session, or judged: the daemon and the
\* tool overwrite each other's markers, and neither invents one.  Where a number was reused under a
\* stale marker the bytes are true still, and the session may be one they were not sent under:
\* processOne writes the session it has learnt since into the marker it re-dates.
MarkerHonest ==
    \A id \in Ids : marker[id] # None =>
        \/ \E x \in store : x[2] = marker[id].bytes /\ (x[1] = marker[id].native \/ budget.stale # {})
        \/ <<"mismatch", marker[id].bytes>> \in judged

\* A marker dated after the cutoff records bytes uploaded after it: what the tool's selection by
\* uploaded_at relies on.  processOne dates the marker of a transcript it did not send.
CutoffHonest ==
    \A id \in Ids : marker[id] # None /\ ~marker[id].old =>
        <<marker[id].native, marker[id].bytes, "after">> \in store \/ <<"mismatch", marker[id].bytes>> \in judged

\* The tool settles a transcript as accepted only when the collector took that transcript's bytes
\* after the cutoff, whatever the daemon, a kill or a reused inode number did meanwhile.
JournalHonest ==
    \A id \in Ids : <<id, "accepted">> \in journal =>
        \E x \in store : x[1] = 1 /\ x[2][1] = 1 /\ x[3] = "after"

\* The uploader's own records are true: shapes, the reason a snapshot is left alone, the markers
\* both programs write and the tool's journal (recordAccepted, persistMarker, RunContentReupload).
ContentInv == TypeOK /\ HandledForReason /\ MarkerHonest /\ JournalHonest

\* A withdrawal reaches what is in flight and what is queued, whichever loop sees it first
\* (onConsentChange, postSnapshot, savePendingRecord).
ConsentCovered == FlightCovered /\ PendingCovered

\* A stop leaves every transcript it still owes under a record that keys it to the same session
\* in the next run, whatever the collector answered (refused, shed, failed) and whichever pending
\* record could not be written before, unless a marker of it could not be written, or the tool has
\* put the marker of an earlier transcript with that number over the daemon's.
OwedAcrossStop ==
    [][ tick.pc = "idle" /\ tick'.pc = "down" /\ budget'.faults = budget.faults =>
          \A id \in Ids :
             LET st == PlannedState(id)
             IN  owes(id, st) =>
                   \/ pending'[id] # None /\ names(pending'[id], st)
                        /\ pending'[id].native = resolveSession(id, st)
                   \/ marker'[id] # None /\ marker'[id].native = resolveSession(id, st)
                   \/ id \in budget.unwritten \/ budget.stale # {} ]_vars
=============================================================================
