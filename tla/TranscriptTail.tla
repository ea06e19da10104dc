--------------------------- MODULE TranscriptTail ---------------------------
(***************************************************************************)
(* The tail of one transcript file: the durable cursor                     *)
(* (internal/observer/adapter/codex/cursor.go), the watcher's drain        *)
(* (watch.go), the parse state that the cursor carries from one buffer to  *)
(* the next (rollout.go, claude.go, transcript_state.go) and the sink that *)
(* appends the candidates (daemon/sink.go), between a program that writes  *)
(* the file, an operator who rewrites it, failing deliveries and saves,    *)
(* and crashes.                                                            *)
(*                                                                         *)
(* A byte is abstracted to a unit; a line ends at the unit `end', which is *)
(* its newline.  The file is the first `size' units of the script its      *)
(* writer follows, and `gen' counts the in-place rewrites, so that two     *)
(* units of the same place are the same bytes iff gen agrees.              *)
(* Message ids stand for their hashes.                                     *)
(***************************************************************************)
EXTENDS Naturals, Sequences, SequencesExt, FiniteSets

CONSTANTS
  Scripts,       \* the transcripts a provider may write: sequences of records
  NoResp,        \* no response, the absent message id, the sidecar's zero hash
  NoSes,         \* no session named yet
  Down,          \* the cursor of a daemon that is not running
  NoState,       \* no cursor state file
  MaxPartial,    \* DefaultMaxPartialLine
  MaxReadChunk,  \* DefaultMaxReadChunk
  MaxOpen,       \* maxOpenClaudeMessages
  UsageMemory,   \* usageMemory: the appended usages the sink remembers
  Releases,      \* who wrote the first state file: subset of {"none", "pre91", "presession"}
  MaxCrashes, MaxFails, MaxRewrites, MaxLost,  \* bounds on each fault of the environment
  MaxFaults      \* and on all of them together

ASSUME TailAssumption ==
  /\ MaxPartial \in Nat \ {0} /\ MaxReadChunk \in Nat \ {0} /\ MaxOpen \in Nat \ {0}
  /\ UsageMemory \in Nat \ {0}
  /\ {MaxCrashes, MaxFails, MaxRewrites, MaxLost, MaxFaults} \subseteq Nat
  /\ \A s \in Scripts : \A i \in 1..Len(s) : s[i].end > IF i = 1 THEN 0 ELSE s[i - 1].end

VARIABLES
  script, size, gen, quiet,   \* the file and its writer
  disk, side,                 \* the cursor's state file and its counted-id sidecar
  cur,                        \* the Cursor in memory, or Down
  pc, claimed,                \* the save in progress, and the sidecar length it claims
  sink,                       \* transcriptSession: the starts and usage this process appended
  log,                        \* starts and usage made durable, by any process (diagnostics left out)
  old, oldSes,                \* what the release that wrote the first state file had counted
  mine, again, dup,           \* ghosts: the usage this process appended, what it may append again,
                              \* and whether another one went twice
  crashes, fails, rewrites, lost

fileVars == <<script, size, gen, quiet>>
diskVars == <<disk, side>>
memVars == <<cur, pc, claimed, sink>>
ghostVars == <<log, old, oldSes, mine, again, dup>>
bounds == <<crashes, fails, rewrites, lost>>
vars == <<fileVars, diskVars, memVars, ghostVars, bounds>>

-----------------------------------------------------------------------------
\* Lines and offsets

\* The offset after line i, and the lines that end inside (from, to].
EndOf(i) == IF i = 0 THEN 0 ELSE script[i].end
LinesIn(from, to) == {i \in 1..Len(script) : EndOf(i) > from /\ EndOf(i) <= to}
LowestOf(S) == CHOOSE i \in S : \A j \in S : i <= j
HighestOf(S) == CHOOSE i \in S : \A j \in S : i >= j
LastEnd(from, to) ==
  IF LinesIn(from, to) = {} THEN from ELSE EndOf(HighestOf(LinesIn(from, to)))
\* The first line boundary after an offset: where a skipping cursor resynchronizes.
FirstEnd(from) == EndOf(LowestOf({i \in 1..Len(script) : EndOf(i) > from}))
Written == LinesIn(0, size)

-----------------------------------------------------------------------------
\* transcriptCarry: what the parse of a file carries from one buffer to the next

ZeroCarry ==
  [rm |-> FALSE, total |-> 0, pend |-> NoResp,                 \* rolloutCarry
   ses |-> NoSes, started |-> FALSE, sess |-> {},              \* sessionCarry
   open |-> <<>>, counted |-> {}, unsaved |-> <<>>]            \* claudeCarry

\* A parse threads the carry and the candidates of its buffer.
StartCand(s, ln) == [k |-> "start", r |-> NoResp, n |-> 0, id |-> FALSE, s |-> s, ln |-> ln]
DiagCand == [k |-> "diag", r |-> NoResp, n |-> 0, id |-> FALSE, s |-> NoSes, ln |-> 0]
RefCand(ln) == [DiagCand EXCEPT !.k = "ref", !.ln = ln]

\* startSession: the session's start goes out once, when a record named the session.
startSession(st, ln) ==
  IF st.c.started \/ st.c.ses = NoSes THEN st
  ELSE [c |-> [st.c EXCEPT !.started = TRUE, !.sess = @ \cup {st.c.ses}],
        out |-> Append(st.out, StartCand(st.c.ses, ln))]

\* attribute: a usage that has tokens carries the session, whose start goes out before it.
stamp(st, r, n, id, ln) ==
  [st EXCEPT !.out = Append(@, [k |-> "usage", r |-> r, n |-> n, id |-> id, ln |-> ln,
                                s |-> IF st.c.started THEN st.c.ses ELSE NoSes])]
attribute(st, r, n, id, ln) == IF n = 0 THEN st ELSE stamp(startSession(st, ln), r, n, id, ln)

\* parseRolloutLine
parseRolloutLine(st, rec, ln) ==
  CASE rec.k = "meta" ->
         IF st.c.ses # NoSes THEN st   \* a forked rollout copies its parent's session_meta
         ELSE [st EXCEPT !.c.rm = @ \/ rec.fin, !.c.ses = rec.s, !.c.started = FALSE, !.c.sess = {}]
    [] rec.k = "turn" -> startSession(st, ln)
    [] rec.k = "rec" -> attribute([st EXCEPT !.c.rm = TRUE], rec.r, rec.n, TRUE, ln)
    [] rec.k = "count" ->
         IF st.c.rm \/ rec.u = st.c.total THEN st
         ELSE attribute([st EXCEPT !.c.total = rec.u], rec.r, rec.n, FALSE, ln)

\* closeClaudeMessage: an open response is counted once, with the usage its last record reported.
closeClaudeMessage(st, m, ln) ==
  LET c == [st.c EXCEPT !.open = SelectSeq(@, LAMBDA o : o.r # m.r)]
  IN IF m.r \in c.counted THEN [st EXCEPT !.c = c]
     ELSE attribute([st EXCEPT !.c = [c EXCEPT !.counted = @ \cup {m.r},
                                               !.unsaved = Append(@, m.r)]],
                    m.r, m.n, TRUE, ln)

\* closeClaudeMessages
closeClaudeMessages(st, which, ln) ==
  FoldLeft(LAMBDA acc, m : closeClaudeMessage(acc, m, ln), st, which)

\* closeClaudeBranch: the responses whose branch a record that follows `parent' continues.
closeClaudeBranch(st, parent, ln) ==
  closeClaudeMessages(st, SelectSeq(st.c.open, LAMBDA m : parent \in m.lin), ln)

\* enterClaudeSession: a move to another session closes what the one before it left open.
inSession(c, s) == [c EXCEPT !.ses = s, !.started = s \in c.sess]
enterClaudeSession(st, s, ln) ==
  IF st.c.ses = s THEN st
  ELSE [IF st.c.ses = NoSes THEN st ELSE closeClaudeMessages(st, st.c.open, ln)
          EXCEPT !.c = inSession(@, s)]

\* claudeAssistant: a record without a message id ("anon") is counted as it comes; a response's first
\* record opens it, closing the branch it continues and, at the limit, the oldest; every record joins
\* it, and the one that ends it closes it.
makeRoom(st, ln) ==
  IF Len(st.c.open) = MaxOpen THEN closeClaudeMessage(st, Head(st.c.open), ln) ELSE st
openResponse(st, rec, ln) ==
  IF \E i \in DOMAIN st.c.open : st.c.open[i].r = rec.r THEN st
  ELSE [makeRoom(closeClaudeBranch(st, rec.p, ln), ln)
          EXCEPT !.c.open = Append(@, [r |-> rec.r, n |-> 0, lin |-> {}])]
joinResponse(st, rec) ==
  [st EXCEPT !.c.open = [i \in DOMAIN @ |->
     IF @[i].r = rec.r THEN [@[i] EXCEPT !.lin = @ \cup {rec.u}, !.n = rec.n] ELSE @[i]]]
endResponse(st, rec, ln) ==
  IF rec.fin THEN closeClaudeMessage(st, CHOOSE m \in ToSet(st.c.open) : m.r = rec.r, ln) ELSE st
claudeResponse(st, rec, ln) ==
  CASE rec.k = "anon" -> attribute(st, rec.r, rec.n, FALSE, ln)
    [] rec.k # "anon" /\ rec.r \in st.c.counted -> st
    [] OTHER -> endResponse(joinResponse(openResponse(st, rec, ln), rec), rec, ln)
claudeAssistant(st, rec, ln) == claudeResponse(startSession(st, ln), rec, ln)

\* extendClaudeLineage
extendClaudeLineage(st, rec) ==
  [st EXCEPT !.c.open = [i \in DOMAIN @ |->
     IF rec.p \in @[i].lin THEN [@[i] EXCEPT !.lin = @ \cup {rec.u}] ELSE @[i]]]

\* parseClaudeLine
claudeRecord(st, rec, ln) ==
  CASE rec.k \in {"asst", "anon"} -> claudeAssistant(st, rec, ln)
    [] rec.k = "user" -> closeClaudeBranch(st, rec.p, ln)
    [] rec.k = "tool" -> st
parseClaudeLine(st, rec, ln) ==
  LET done == extendClaudeLineage(claudeRecord(enterClaudeSession(st, rec.s, ln), rec, ln), rec)
  IN IF rec.x THEN [done EXCEPT !.out = Append(@, RefCand(ln))] ELSE done

\* parseLine routes a line to its dialect; a line of no dialect is a diagnostic.
parseLine(st, rec, ln) ==
  CASE rec.k \in {"meta", "turn", "rec", "count"} -> parseRolloutLine(st, rec, ln)
    [] rec.k \in {"asst", "anon", "user", "tool"} -> parseClaudeLine(st, rec, ln)
    [] OTHER -> [st EXCEPT !.out = Append(@, [DiagCand EXCEPT !.ln = ln])]

\* parse: the complete lines of a buffer in order, the upgrade's uncounted response ahead of them.
parse(lines, carry) ==
  LET first == LowestOf(lines)
      step(st, i) ==
        LET ln == i + 1 - first
            st1 == IF st.c.pend = NoResp THEN st
                   ELSE attribute([st EXCEPT !.c.pend = NoResp], st.c.pend.r, st.c.pend.n, TRUE, ln)
        IN parseLine(st1, script[i], ln)
  IN FoldLeft(step, [c |-> carry, out |-> <<>>], SetToSortSeq(lines, <))

\* Mutant: the ids that the older release counted are not carried.
foldUpgradeCarryNoIds(lines, withRollout) ==
  LET step(c, i) == IF script[i].s = NoSes THEN c
                    ELSE [c EXCEPT !.ses = script[i].s, !.started = TRUE, !.sess = @ \cup {script[i].s}]
  IN FoldLeft(step, ZeroCarry, SetToSortSeq(lines, <))

\* foldUpgradeCarry: what the bytes an older release consumed say about the carry it did not keep.
foldUpgradeCarry(lines, withRollout) ==
  LET enter(c, s) == [c EXCEPT !.ses = s, !.started = TRUE, !.sess = @ \cup {s}]
      step(c, i) ==
        LET rec == script[i]
        IN CASE rec.k = "meta" /\ c.ses = NoSes ->
                  [enter(c, rec.s) EXCEPT !.rm = @ \/ (withRollout /\ rec.fin)]
             [] rec.k = "rec" /\ withRollout ->
                  [c EXCEPT !.rm = TRUE, !.pend = IF rec.n = 0 THEN NoResp ELSE [r |-> rec.r, n |-> rec.n]]
             [] rec.k = "count" /\ withRollout ->
                  [c EXCEPT !.pend = NoResp, !.total = IF c.rm THEN @ ELSE rec.u]
             [] rec.k = "asst" -> [enter(c, rec.s) EXCEPT !.counted = @ \cup ({rec.r} \ {NoResp})]
             [] rec.k \in {"anon", "user", "tool"} -> enter(c, rec.s)
             [] OTHER -> c
  IN FoldLeft(step, ZeroCarry, SetToSortSeq(lines, <))

-----------------------------------------------------------------------------
\* The cursor

\* A cursor; `anchor' is the fingerprint of the bytes ending at consumed, 0 for none.
Cursor(consumed, carry) ==
  [consumed |-> consumed, rem |-> 0, skip |-> FALSE, anchor |-> IF consumed = 0 THEN 0 ELSE gen,
   osize |-> size, carry |-> carry, known |-> TRUE, sknown |-> TRUE, csaved |-> 0]

ReadOffset(c) == c.consumed + c.rem
Reset == Cursor(0, ZeroCarry)

\* Ingest and ingestNormal: the candidates of the bytes up to `to', and the cursor that commits them.
MoveTo(c, n) == [c EXCEPT !.consumed = n, !.anchor = IF n = 0 THEN 0 ELSE gen]
ingestNormal(c, to, end, st) ==
  IF to - end > MaxPartial
    THEN [cands |-> Append(st.out, DiagCand),
          cur |-> [MoveTo(c, to) EXCEPT !.carry = st.c, !.rem = 0, !.skip = TRUE]]
    ELSE [cands |-> st.out,
          cur |-> [MoveTo(c, end) EXCEPT !.carry = st.c, !.rem = to - end, !.skip = FALSE]]
Ingest(c, to) ==
  LET from == IF c.skip THEN FirstEnd(c.consumed) ELSE c.consumed
  IN IF from > to THEN [cands |-> <<>>, cur |-> MoveTo(c, to)]   \* still no newline: stay in skip mode
     ELSE ingestNormal(c, to, LastEnd(from, to), parse(LinesIn(from, to), c.carry))

\* Mutant: the line that failed counts as delivered.
deliveredLinePrefixPastFailure(c, to, cands, delivered) ==
  LET next == cands[delivered + 1].ln
  IN IF delivered = 0 THEN 0 ELSE EndOf(LowestOf(LinesIn(c.consumed, to)) + next - 1)

\* deliveredLinePrefix: the offset after the last line whose every candidate was delivered, or 0.
deliveredLinePrefix(c, to, cands, delivered) ==
  LET next == cands[delivered + 1].ln
  IN IF delivered = 0 \/ next <= 1 THEN 0
     ELSE EndOf(LowestOf(LinesIn(c.consumed, to)) + next - 2)

\* FlushOpenUsage: the open responses closed in order; i of them are closed in flushed(c, i).
flushed(c, i) == closeClaudeMessages([c |-> c.carry, out |-> <<>>], SubSeq(c.carry.open, 1, i), 0)

\* Mutant: a settle commits every open response, delivered or not.
flushCommitAll(c, delivered) == [c EXCEPT !.carry = flushed(c, Len(c.carry.open)).c]

\* The commit of a settle: the leading responses whose usage was delivered.
flushCommit(c, delivered) ==
  LET done == {i \in 1..Len(c.carry.open) : Len(flushed(c, i).out) <= delivered}
  IN IF done = {} THEN c ELSE [c EXCEPT !.carry = flushed(c, HighestOf(done)).c]

\* offsetInvalidated: the file shrank below the read watermark, or the anchored bytes differ.
offsetInvalidated(c) ==
  \/ size < ReadOffset(c)
  \/ c.consumed > 0 /\ IF c.anchor = 0 THEN c.consumed \notin {EndOf(i) : i \in DOMAIN script}
                                     ELSE c.anchor # gen

\* Mutant: a sidecar that lost hashes is written again from where it ends.
savedCountedNoFill ==
  IF cur.carry.unsaved = <<>> THEN side
  ELSE IF cur.csaved > Len(side) THEN side \o SetToSeq(cur.carry.counted)
  ELSE SubSeq(side, 1, cur.csaved) \o cur.carry.unsaved

\* readCounted, saveCounted and writeCounted: the hashes a saved state owns, and the sidecar after a save.
readCounted(n) == {side[i] : i \in 1..(IF n < Len(side) THEN n ELSE Len(side))} \ {NoResp}
savedCounted ==
  LET keep == cur.csaved
      short == keep > Len(side)
      hashes == IF short THEN SetToSeq(cur.carry.counted) ELSE cur.carry.unsaved
      base == [i \in 1..keep |-> IF i <= Len(side) THEN side[i] ELSE NoResp]
  IN IF cur.carry.unsaved = <<>> THEN side ELSE base \o hashes
claims == IF cur.carry.unsaved = <<>> THEN cur.csaved ELSE Len(savedCounted)

\* loadCursor: resume only what is corroborated as a continuation of the live file.
loadCursor ==
  IF disk = NoState \/ disk.consumed > size \/ size < disk.osize THEN Reset
  ELSE [disk EXCEPT !.rem = 0,
          !.carry.counted = IF disk.csaved > 0 THEN readCounted(disk.csaved) ELSE {},
          !.known = @ \/ disk.consumed = 0, !.sknown = @ \/ disk.consumed = 0]

-----------------------------------------------------------------------------
\* The sink

NewSink == [started |-> {}, usage |-> <<>>]

\* resolveSession: a start, or a usage with an id among the last ones, was appended before.
appendedBefore(mem, c) ==
  \/ c.k = "usage" /\ c.id /\ c.r \in ToSet(mem.usage)
  \/ c.k = "start" /\ c.s \in mem.started

\* recordAppended: the sink remembers a bounded number of usages.
lastUsages(q) == SubSeq(q, Len(q) + 1 - (IF Len(q) < UsageMemory THEN Len(q) ELSE UsageMemory), Len(q))
recordAppended(mem, c) ==
  CASE c.k = "start" -> [mem EXCEPT !.started = @ \cup {c.s}]
    [] c.k = "usage" /\ c.id -> [mem EXCEPT !.usage = lastUsages(Append(@, c.r))]
    [] OTHER -> mem

\* deliverOne over the leading candidates of a batch: what it makes durable, and the ghosts.
durably(st, c) ==
  [st EXCEPT !.log = IF c.k \in {"start", "usage"} THEN @ \cup {[c EXCEPT !.ln = 0]} ELSE @,
             !.mine = IF c.k = "usage" THEN @ \cup {c.r} ELSE @,
             !.dup = @ \/ (c.k = "usage" /\ c.r \in st.mine \ again)]
deliverOne(st, c) ==
  IF appendedBefore(st.mem, c) THEN st
  ELSE [durably(st, c) EXCEPT !.mem = recordAppended(@, c)]
sunk == [mem |-> sink, log |-> log, mine |-> mine, dup |-> dup]
appended(cands) == FoldLeft(deliverOne, sunk, cands)

\* Delivery of a batch that stops after d candidates.  The append of the next one fails, or it is
\* durable and its reply does not come in time.  reread are the delivered candidates the next poll
\* delivers again: the sink recognises a usage only by its id, and only for so long; once it takes one
\* for new, the next ones are pushed out of its memory in their turn.
deliver(cands, d, reread) ==
  LET st == appended(SubSeq(cands, 1, d))
  IN \E unheard \in {FALSE} \cup (IF d < Len(cands) /\ cands[d + 1].k \in {"start", "usage"}
                                  THEN {TRUE} ELSE {}) :
       LET end == IF unheard THEN durably(st, cands[d + 1]) ELSE st
           usages == {c \in reread : c.k = "usage"}
           forgotten == \E c \in usages : c.id /\ ~appendedBefore(st.mem, c)
       IN /\ log' = end.log /\ sink' = st.mem /\ mine' = end.mine /\ dup' = end.dup
          /\ again' = again \cup {c.r : c \in {u \in usages : ~u.id \/ forgotten}}
                        \cup (IF unheard THEN {cands[d + 1].r} ELSE {})

-----------------------------------------------------------------------------
\* The older releases that may have written the state file

RespOf(lines, kinds) == {script[i].r : i \in {j \in lines : script[j].k \in kinds}} \ {NoResp}
SesOf(lines) == {script[i].s : i \in lines} \ {NoSes}

\* An older release's state after the first k lines: no carry before #91, no session before sessions
\* were carried.  Both counted every Claude record; before #91 usage came from token_count alone.
oldCarry(release, st) ==
  IF release = "pre91" THEN ZeroCarry ELSE [ZeroCarry EXCEPT !.rm = st.c.rm, !.total = st.c.total]
oldState(release, k, st) ==
  [Cursor(EndOf(k), oldCarry(release, st))
     EXCEPT !.anchor = 1, !.osize = EndOf(k), !.known = release # "pre91", !.sknown = FALSE]
oldCounted(release, k, st) ==
  RespOf(1..k, {"asst", "anon"}) \cup
    IF release = "pre91" THEN RespOf(1..k, {"count"})
    ELSE {c.r : c \in {d \in ToSet(st.out) : d.k = "usage"}}

Init ==
  /\ script \in Scripts /\ gen = 1 /\ quiet = FALSE
  /\ side = <<>> /\ cur = Down /\ pc = "idle" /\ claimed = 0
  /\ sink = NewSink /\ log = {} /\ mine = {} /\ again = {} /\ dup = FALSE
  /\ crashes = 0 /\ fails = 0 /\ rewrites = 0 /\ lost = 0
  /\ \E release \in Releases, k \in 1..Len(script) :
       IF release = "none"
         THEN k = 1 /\ size = 0 /\ disk = NoState /\ old = {} /\ oldSes = {}
         ELSE /\ \A i \in 1..k : EndOf(i) - EndOf(i - 1) <= MaxPartial
              /\ size = EndOf(k) /\ oldSes = SesOf(1..k)
              /\ \E st \in {parse(1..k, ZeroCarry)} :
                   disk = oldState(release, k, st) /\ old = oldCounted(release, k, st)

-----------------------------------------------------------------------------
\* The drain of one poll

\* NewWatcher after a start of the daemon, and the cursorFor of its first poll.
Restart ==
  /\ cur = Down
  /\ cur' = loadCursor
  /\ sink' = NewSink /\ mine' = {} /\ again' = {} /\ pc' = "idle" /\ claimed' = 0
  /\ UNCHANGED <<fileVars, diskVars, log, old, oldSes, dup, bounds>>

Idle == cur # Down /\ pc = "idle"

\* The faults still to come.
Spare == crashes + fails + rewrites + lost < MaxFaults

\* drain finds the offset invalid: it reports the loss, restarts at zero and saves.
DrainRestart ==
  /\ Idle /\ offsetInvalidated(cur)
  /\ mine' = {} /\ again' = {}
  /\ cur' = Reset /\ pc' = "save"
  /\ UNCHANGED <<fileVars, diskVars, claimed, sink, log, old, oldSes, dup, bounds>>

\* Cursor.DeriveCarry: the carry an older release did not keep, from the bytes it consumed.
rolloutFrom(carry, fold) == [carry EXCEPT !.rm = fold.rm, !.total = fold.total, !.pend = fold.pend]
sessionFrom(carry, fold) ==
  [carry EXCEPT !.ses = fold.ses, !.started = fold.started, !.sess = fold.sess,
                !.open = <<>>, !.counted = fold.counted, !.unsaved = SetToSeq(fold.counted)]
derivedFrom(c, withRollout, fold) ==
  LET rolled == IF withRollout THEN rolloutFrom(c.carry, fold) ELSE c.carry
  IN [c EXCEPT !.carry = IF c.sknown THEN rolled ELSE sessionFrom(rolled, fold),
               !.known = TRUE, !.sknown = TRUE, !.csaved = IF c.sknown THEN @ ELSE 0]
DeriveCarry(c) ==
  LET withRollout == ~c.known /\ ~c.skip
  IN derivedFrom(c, withRollout, foldUpgradeCarry(LinesIn(0, c.consumed), withRollout))

\* deriveUpgradeCarry: the cursor of an older release gets its carry and is saved.
DrainUpgrade ==
  /\ Idle /\ ~offsetInvalidated(cur) /\ ~(cur.known /\ cur.sknown)
  /\ cur' = DeriveCarry(cur) /\ pc' = "save"
  /\ UNCHANGED <<fileVars, diskVars, claimed, sink, ghostVars, bounds>>

Settled == Idle /\ ~offsetInvalidated(cur) /\ cur.known /\ cur.sknown

\* drain reads what was appended since the read offset, at most a chunk of it, delivers the candidates
\* and commits: the whole batch, or the lines that were delivered before a failure.
DrainRead ==
  /\ Settled /\ size > ReadOffset(cur)
  /\ \E to \in {IF size - ReadOffset(cur) > MaxReadChunk THEN ReadOffset(cur) + MaxReadChunk ELSE size} :
       \E in \in {Ingest(cur, to)} : \E d \in 0..Len(in.cands) :
         LET failed == d < Len(in.cands)
             prefix == IF failed /\ ~cur.skip THEN deliveredLinePrefix(cur, to, in.cands, d) ELSE 0
             next == IF failed THEN in.cands[d + 1].ln ELSE 0
         IN /\ failed => Spare /\ fails < MaxFails
            /\ fails' = IF failed THEN fails + 1 ELSE fails
            /\ deliver(in.cands, d, IF ~failed THEN {}
                                    ELSE {c \in ToSet(SubSeq(in.cands, 1, d)) :
                                            cur.skip \/ next = 0 \/ c.ln = next})
            /\ IF failed /\ prefix = 0 THEN UNCHANGED <<cur, pc>>
               ELSE /\ cur' = [IF failed THEN Ingest(cur, prefix).cur ELSE in.cur EXCEPT !.osize = size]
                    /\ pc' = "save"
  /\ UNCHANGED <<fileVars, diskVars, claimed, old, oldSes, crashes, rewrites, lost>>

\* settleOpenUsage: a quiet transcript's open responses are counted as they stand.
DrainSettle ==
  /\ Settled /\ size <= ReadOffset(cur) /\ quiet /\ cur.carry.open # <<>>
  /\ \E cands \in {flushed(cur, Len(cur.carry.open)).out} : \E d \in 0..Len(cands) :
          /\ d < Len(cands) => Spare /\ fails < MaxFails
          /\ fails' = IF d < Len(cands) THEN fails + 1 ELSE fails
          /\ deliver(cands, d, {})
          /\ cur' = flushCommit([cur EXCEPT !.osize = size], d)
  /\ pc' = "save"
  /\ UNCHANGED <<fileVars, diskVars, claimed, old, oldSes, crashes, rewrites, lost>>

\* Save, first half: the ids counted since the last save go to the sidecar.
SaveCounted ==
  /\ pc = "save"
  /\ side' = savedCounted /\ pc' = "state"
  /\ claimed' = claims
  /\ UNCHANGED <<fileVars, disk, cur, sink, ghostVars, bounds>>

\* The state that a save writes.
SavedState == [cur EXCEPT !.csaved = claimed, !.carry.unsaved = <<>>, !.carry.counted = {}, !.rem = 0]

\* Save, second half: the state file is replaced.
SaveState ==
  /\ pc = "state"
  /\ cur' = [cur EXCEPT !.csaved = claimed, !.carry.unsaved = <<>>]
  /\ disk' = SavedState
  /\ pc' = "idle" /\ claimed' = 0
  /\ UNCHANGED <<fileVars, side, sink, ghostVars, bounds>>

\* Either half of a save fails: the poll ends, and the cursor in memory stays ahead of the state file
\* or, where that was replaced and only its directory was not synced, does not know that it is not
\* (a bound: not after the sidecar lost hashes as well).
SaveFails ==
  /\ pc \in {"save", "state"} /\ Spare /\ fails < MaxFails
  /\ fails' = fails + 1 /\ pc' = "idle" /\ claimed' = 0
  /\ disk' \in {disk} \cup IF pc = "state" /\ lost = 0 THEN {SavedState} ELSE {}
  /\ UNCHANGED <<fileVars, side, cur, sink, ghostVars, crashes, rewrites, lost>>

-----------------------------------------------------------------------------
\* The environment

\* The daemon dies; a sidecar write it was in may have reached any length past what it keeps.  That is
\* less than the state file owns only after a save that replaced it and then failed: hashes are lost.
Crash ==
  /\ cur # Down /\ Spare /\ crashes < MaxCrashes
  /\ crashes' = crashes + 1
  /\ \/ UNCHANGED <<side, lost>>
     \/ /\ pc = "save" /\ cur.carry.unsaved # <<>>
        /\ \E n \in cur.csaved..Len(savedCounted) - 1 :
             /\ side' = SubSeq(savedCounted, 1, n)
             /\ lost' = IF disk # NoState /\ n < disk.csaved THEN lost + 1 ELSE lost
  /\ cur' = Down /\ pc' = "idle" /\ claimed' = 0 /\ sink' = NewSink
  /\ UNCHANGED <<fileVars, disk, ghostVars, fails, rewrites>>

\* The provider appends the next unit of its transcript.
Write ==
  /\ size < EndOf(Len(script))
  /\ size' = size + 1 /\ quiet' = FALSE
  /\ UNCHANGED <<script, gen, diskVars, memVars, ghostVars, bounds>>


-----------------------------------------------------------------------------
\* What the transcript says, read off its lines without a cursor

Asst(r) == {i \in DOMAIN script : script[i].k = "asst" /\ script[i].r = r}
Responses == RespOf(DOMAIN script, {"rec", "count", "asst", "anon"})

\* ancestry[i]: the responses that line i belongs to or descends from.
ancestry[i \in 0..Len(script)] ==
  IF i = 0 THEN {}
  ELSE (IF script[i].k = "asst" THEN {script[i].r} ELSE {})
       \cup UNION {ancestry[j] : j \in {h \in 1..(i - 1) : script[h].u = script[i].p}}
Follows(i) == UNION {ancestry[j] : j \in {h \in 1..(i - 1) : script[h].u = script[i].p}}

\* The Claude responses that a set of lines shows complete: a record that ended them, a user turn or
\* the first record of another response that follows from them, or a move to another session.
Complete(r, lines) ==
  \E i \in lines :
    \/ i \in Asst(r) /\ script[i].fin
    \/ script[i].k = "user" /\ r \in Follows(i)
    \/ script[i].k = "asst" /\ i \notin Asst(r) /\ r \in Follows(i)
       /\ i = LowestOf(Asst(script[i].r))
    \/ \E j \in Asst(r) : j < i /\ script[i].s # script[j].s

\* The responses whose usage a set of lines reports: by record from the first record on (or from a
\* session_meta of a release that writes records), by a moved token total before it.
Reported(lines) ==
  LET byRecord == {i \in DOMAIN script : script[i].k = "rec" \/ (script[i].k = "meta" /\ script[i].fin)}
      legacy(i) == script[i].k = "count" /\ \A j \in byRecord : i < j
  IN {r \in Responses : Asst(r) # {} /\ Complete(r, lines)}
     \cup {script[i].r : i \in {j \in lines : script[j].k \in {"rec", "anon"} \/ legacy(j)}}

-----------------------------------------------------------------------------
\* The rest of the environment

\* An operator rewrites the transcript in place, or empties it; its writer then goes on from there.
Rewrite ==
  /\ Spare /\ rewrites < MaxRewrites /\ size > 0
  /\ rewrites' = rewrites + 1 /\ gen' = gen + 1 /\ quiet' = FALSE
  /\ \E n \in {0, size} : size' = n
  /\ UNCHANGED <<script, diskVars, memVars, ghostVars, crashes, fails, lost>>

\* The file's modification time is older than the quiet period: no response in it is being written.
GoQuiet ==
  /\ ~quiet /\ size > 0
  /\ \A r \in Responses : Asst(r) \cap Written = {} \/ Asst(r) \subseteq Written \/ Complete(r, Written)
  /\ quiet' = TRUE
  /\ UNCHANGED <<script, size, gen, diskVars, memVars, ghostVars, bounds>>

\* The sidecar loses its tail (a restored backup, a damaged disk).
LoseSide ==
  /\ Spare /\ lost < MaxLost /\ side # <<>>
  /\ lost' = lost + 1 /\ side' = Front(side)
  /\ UNCHANGED <<fileVars, disk, memVars, ghostVars, crashes, fails, rewrites>>

Drain == DrainRestart \/ DrainUpgrade \/ DrainRead \/ DrainSettle
Save == SaveCounted \/ SaveState \/ SaveFails
Next == Restart \/ Drain \/ Save \/ Crash \/ Write \/ Rewrite \/ GoQuiet \/ LoseSide

Spec == Init /\ [][Next]_vars

\* A poll has something to do.
Pollable ==
  Idle /\ \/ offsetInvalidated(cur) \/ ~cur.known \/ ~cur.sknown
          \/ size > ReadOffset(cur) \/ (quiet /\ cur.carry.open # <<>>)

\* The daemon polls for as long as it runs and is restarted when it dies; the provider finishes its
\* transcript and then leaves it alone.  Polling is weak fairness of Drain: Pollable is when a drain
\* is enabled, and all but the boundedly many failing ones go on to save.
FairSpec ==
  /\ Spec
  /\ []<>~Pollable \/ []<><<pc = "idle" /\ pc' = "save">>_vars
  /\ WF_vars(Restart) /\ WF_vars(Save) /\ WF_vars(Write) /\ WF_vars(GoQuiet)

-----------------------------------------------------------------------------
\* Properties

Usages == {c \in log : c.k = "usage"}
Counted == {c.r : c \in Usages} \cup old
CarriedOver(c) == IF c \in {NoState, Down} \/ c.carry.pend = NoResp THEN {} ELSE {c.carry.pend.r}

\* The cursor and its parts have their types.
TypeOK ==
  /\ script \in Scripts /\ size \in 0..EndOf(Len(script)) /\ quiet \in BOOLEAN
  /\ pc \in {"idle", "save", "state"} /\ dup \in BOOLEAN
  /\ cur # Down => /\ cur.consumed \in Nat /\ cur.rem <= MaxPartial
                   /\ Len(cur.carry.open) <= MaxOpen
                   /\ ToSet(cur.carry.unsaved) \subseteq cur.carry.counted

\* Whatever the saved cursor has consumed is accounted for: every response that its bytes show
\* complete was appended (or counted by the release that consumed it), so that a crash after the
\* save loses nothing. The one exception is the response an upgrade carries over for the next line.
NoUsageLost ==
  disk # NoState /\ disk.anchor = gen /\ disk.known =>
    Reported(LinesIn(0, disk.consumed)) \subseteq Counted \cup CarriedOver(disk)

\* One response is one usage: retries after a failed delivery or save, replays after a crash, resumed
\* histories and upgrades never yield a second, different usage for it, nor one for a response that
\* the older release counted.
OneUsagePerResponse ==
  lost = 0 =>
    /\ \A c, d \in Usages : c.r # NoResp /\ c.r = d.r => c.n = d.n /\ c.s = d.s
    /\ rewrites = 0 => \A c \in Usages : c.r \notin old

\* The usage of a response is what its last record in the transcript reports, not an earlier,
\* partial report of the same response.
FinalUsage ==
  \A c \in Usages : Asst(c.r) # {} => c.n = script[HighestOf(Asst(c.r))].n

\* A usage names the session that its response was written in, and that session's start went out.
SessionStarted ==
  \A c \in Usages : c.s # NoSes =>
    /\ \/ \E d \in log : d.k = "start" /\ d.s = c.s
       \/ c.s \in oldSes
    /\ \E i \in DOMAIN script : script[i].s = c.s /\
         (script[i].r = c.r \/ script[i].k = "meta")

\* The ids that a saved state owns in its sidecar were closed inside the bytes it has consumed: a
\* response that the state still has open, or has not read, is never taken for counted.
CountedNeverAhead ==
  disk # NoState /\ disk.anchor = gen =>
    LET owned == readCounted(disk.csaved)
    IN /\ owned \cap {disk.carry.open[i].r : i \in DOMAIN disk.carry.open} = {}
       /\ owned \subseteq RespOf(LinesIn(0, disk.consumed), {"asst"})

\* One process appends no usage twice, however its deliveries and saves fail, with three exceptions:
\* a durable append whose reply did not come in time; a usage without an id in a line, or while the
\* cursor skips or reports an overlong line in a chunk, whose delivery failed further on; and one
\* with an id when that line or chunk has more of them than usageMemory.
NoDuplicateInProcess == ~dup

\* The cursor's state is sound: types, the sidecar never ahead of the bytes it stands for, and every
\* usage under a session that was opened (Ingest, saveCounted, enterClaudeSession).
TailInv == TypeOK /\ CountedNeverAhead /\ SessionStarted

\* A response is counted once, with its final value (foldUpgradeCarry, claudeAssistant,
\* deliveredLinePrefix).
UsageRight == OneUsagePerResponse /\ FinalUsage /\ NoDuplicateInProcess

\* Every response of the transcript is eventually counted, or carried over for a line that never comes.
AllCounted == <>[](Responses \subseteq Counted \cup CarriedOver(cur))

====
