------------------------------ MODULE RootSeal ------------------------------
(***************************************************************************)
(* The forward-only seal of one approved root: what existed under the root *)
(* when its owner consented is fenced and never delivered, what is written *)
(* afterwards is captured                                                  *)
(* (internal/observer/adapter/codex/watch.go, root_policy.go).             *)
(*                                                                         *)
(* A file is a sequence of records, named by inodes and linked at          *)
(* locators.  The watcher keeps one floor per inode and, because a rewrite *)
(* through a rename makes a new inode, one fence per locator; both carry a *)
(* fingerprint of the bytes that end at the floor, abstracted to the       *)
(* record there.  The walk reads the locators one by one while files move, *)
(* the daemon dies between its writes, and inode numbers are reused.       *)
(***************************************************************************)
EXTENDS Naturals, Sequences, SequencesExt, FiniteSets

CONSTANTS
  Locs,        \* the locators under the root, in the walk's lexical order
  Matching,    \* the locators whose name Match admits
  Inodes,      \* (device, inode) numbers
  None,        \* no file, no record, no fingerprint
  History,     \* the records that exist at consent
  Edited,      \* what an owner may turn that history into: sequences of records
  MaxLen,      \* records a file may hold
  QuietActivation,  \* TRUE: nothing is renamed while the activation walks the root
  MaxOps,      \* bound: operations on the root
  MaxFaults    \* bound: crashes, and walks that see too little (fewer than absenceEvictionPolls)

Names == ToSet(Locs)

ASSUME SealAssumption ==
  /\ Matching \subseteq Names /\ Len(History) <= MaxLen /\ Len(History) > 0
  /\ QuietActivation \in BOOLEAN /\ {MaxLen, MaxOps, MaxFaults} \subseteq Nat

VARIABLES
  at, data,            \* the root: the inode at each locator, and the records of each inode
  ctl, curs,           \* on disk: the control record, and the scoped cursor of each inode
  mem, tracked,        \* the control record and the tracked files in memory
  gone, idle,          \* consecutive corroborated walks that missed a locator, a sealed inode
  pc, todo, scan, bad, \* the poll in progress: what is left of its pass, what its walk saw, its faults
  out, lostTo,         \* ghosts: records delivered with their locator, and those sealed at activation or by a
                       \* reseal that was reported
  retired, cut, blind, \* ghosts: locators un-fenced by retirement, inodes whose records were exchanged under the
                       \* daemon until it drains them, and those where no fingerprint could tell
  made, ops, edited, faults

rootVars == <<at, data>>
diskVars == <<ctl, curs>>
memVars == <<mem, tracked, gone, idle>>
pollVars == <<pc, todo, scan, bad>>
ghostVars == <<out, lostTo, retired, cut, blind>>
bounds == <<made, ops, edited, faults>>
vars == <<rootVars, diskVars, memVars, pollVars, ghostVars, bounds>>

absenceEvictionPolls == 2

-----------------------------------------------------------------------------
\* The control record

NoControl == [committed |-> FALSE, base |-> [i \in Inodes |-> None], lin |-> [l \in Names |-> None]]
Baseline(floor, fp) == [floor |-> floor, fp |-> fp]
Lineage(b, i, orphaned) == [floor |-> b.floor, fp |-> b.fp, ino |-> i, orphaned |-> orphaned]

\* The fence that stands at a locator after inode i writes its baseline there: its own inode's word
\* is taken, any other may only raise it.
reconcileLineage(c, l, i, b) ==
  LET cur == c.lin[l]
  IN IF cur # None /\ (cur.orphaned \/ cur.ino # i)
       THEN IF b.floor <= cur.floor THEN cur ELSE Lineage(b, cur.ino, cur.orphaned)
       ELSE IF b.floor = 0 THEN None ELSE Lineage(b, i, FALSE)

\* setBaseline and setLineage
setBaseline(c, l, i, b) == [c EXCEPT !.base[i] = b, !.lin[l] = reconcileLineage(c, l, i, b)]

\* holdLineage: the locator that a sealed file occupies is fenced too; nothing is released for it.
holdLineage(c, l, i) ==
  IF ~c.committed \/ c.base[i] = None \/ c.base[i].floor = 0 THEN c
  ELSE [c EXCEPT !.lin[l] = reconcileLineage(c, l, i, c.base[i])]

\* orphanLineagesNaming and dropBaseline: an inode that left frees its number.
dropIdentity(c, i) ==
  [c EXCEPT !.base[i] = None,
            !.lin = [l \in Names |-> IF @[l] # None /\ @[l].ino = i
                                       THEN [@[l] EXCEPT !.orphaned = TRUE] ELSE @[l]]]

-----------------------------------------------------------------------------
\* Cursors

NewCursor == [pos |-> 0, sealed |-> FALSE, size |-> 0, anchor |-> None]
SealAt(floor, size) == [pos |-> floor, sealed |-> TRUE, size |-> size, anchor |-> None]

\* LoadScopedCursor: a file shorter than the cursor last saw it starts over.
LoadScopedCursor(i, size) ==
  IF curs[i] = None \/ curs[i].pos > size \/ size < curs[i].size THEN NewCursor ELSE curs[i]

\* readFloorWindow: the record that ends at a floor, None where the file no longer reaches it.
readFloorWindow(i, floor) ==
  IF floor = 0 \/ floor > Len(data[i]) THEN None ELSE data[i][floor]

\* displacedLineageLocator: the locators at which this walk found the inode that a fence names.
locatorsOf(i) == {l \in Names : scan[l] # None /\ scan[l].ino = i}

\* resealReplacement: a baseline at the new file's size; keepFloor: the fence's own floor.
resealReplacement(c, l, i) ==
  [c |-> setBaseline(c, l, i, Baseline(Len(data[i]), None)),
   base |-> Baseline(Len(data[i]), None), lost |-> TRUE]
keepFloor(c, l, i, lin) ==
  [c |-> setBaseline(c, l, i, Baseline(lin.floor, lin.fp)),
   base |-> Baseline(lin.floor, lin.fp), lost |-> lin.fp = None]

\* displacedLineageLocator and the cases of inheritSealLineage: where the inode that the fence names
\* lives elsewhere under the root, only a matching window keeps the floor, and the fence is copied to
\* the one place its file went; a window that cannot be judged keeps the floor and is reported.
replaced(c, l, i, lin, window, where) ==
  LET displaced == Cardinality(where) = 1 /\ where # {l}
      matches == window # None /\ lin.fp = window
  IN IF (displaced \/ Cardinality(where) > 1) /\ ~matches
       THEN resealReplacement(IF displaced THEN holdLineage(c, CHOOSE x \in where : TRUE, lin.ino) ELSE c, l, i)
     ELSE IF matches \/ (window # None /\ lin.fp = None) THEN keepFloor(c, l, i, lin)
     ELSE resealReplacement(c, l, i)

\* inheritSealLineage: what a new inode at a fenced locator starts from. Its size is read through the
\* validated handle, not taken from the walk.
inheritSealLineage(c, l, i) ==
  replaced(c, l, i, c.lin[l], readFloorWindow(i, c.lin[l].floor), locatorsOf(c.lin[l].ino))

\* A verdict on a discovered file: the control, its cursor, whether it stands under a baseline, and
\* whether that cursor was saved and a loss reported.
Verdict(c, cur, fb, saved, lost) ==
  [c |-> c, cur |-> cur, fb |-> fb, saved |-> saved, lost |-> lost, ok |-> TRUE]
SealedAt(c, l, i, floor, size) ==
  Verdict(setBaseline(c, l, i, Baseline(floor, None)), SealAt(floor, size), TRUE, TRUE, FALSE)

\* The file under the baseline it has or inherits: a cursor below the floor is moved up to it, and a
\* floor that its own file no longer reaches comes down, which is reported.
underBaseline(cur, l, i, size, inherits, inh) ==
  LET lowered == ~inherits /\ size < inh.base.floor
  IN IF inh.base = None THEN Verdict(inh.c, cur, FALSE, FALSE, FALSE)
     ELSE IF cur.sealed /\ cur.pos >= inh.base.floor THEN Verdict(inh.c, cur, TRUE, FALSE, inh.lost)
     ELSE IF lowered THEN [SealedAt(inh.c, l, i, size, size) EXCEPT !.lost = TRUE]
     ELSE Verdict(inh.c, SealAt(inh.base.floor, size), TRUE, TRUE, inh.lost)

\* Mutant: only the inode is asked, not the locator.
cursorForInode(c, l, i, size) ==
  IF ~c.committed THEN SealedAt(c, l, i, size, size)
  ELSE underBaseline(LoadScopedCursor(i, size), l, i, size, FALSE,
                     [c |-> c, base |-> c.base[i], lost |-> FALSE])

\* cursorFor: the cursor that the root's policy allows a discovered file. `lost' marks a reseal that
\* is reported; `ok' is FALSE where the file was replaced again before it could be opened.
cursorFor(c, l, i, size) ==
  LET inherits == c.base[i] = None /\ c.lin[l] # None
  IN IF ~c.committed THEN SealedAt(c, l, i, size, size)
     ELSE IF inherits /\ at[l] # i THEN [SealedAt(c, l, i, size, size) EXCEPT !.ok = FALSE]
     ELSE underBaseline(LoadScopedCursor(i, size), l, i, size, inherits,
                        IF inherits THEN inheritSealLineage(c, l, i)
                        ELSE [c |-> c, base |-> c.base[i], lost |-> FALSE])

-----------------------------------------------------------------------------
\* The reconcile of one walk

Tracked(l, cur, fb) == [loc |-> l, cur |-> cur, fb |-> fb, absent |-> 0]

FirstRecords(i, n) == {data[i][m] : m \in {k \in DOMAIN data[i] : k <= n}}
Saved(st, i, f) == IF f.saved THEN [st EXCEPT !.cs[i] = f.cur] ELSE st

\* reconcileScan on one locator: an activation seals the file first; then a tracked file is met where
\* it was or has moved, and an untracked one that Match admits is tracked with its cursor.
sealEntry(st, l, i, f) ==
  Saved([st EXCEPT !.c = f.c, !.seen = @ \cup {l}, !.lost = @ \cup FirstRecords(i, f.cur.pos),
                   !.tr[i] = IF @ = None THEN @ ELSE [@ EXCEPT !.cur = f.cur, !.fb = f.fb]], i, f)
trackFile(st, l, i, f) ==
  Saved([st EXCEPT !.c = f.c, !.tr[i] = Tracked(l, f.cur, f.fb),
                   !.lost = IF f.lost THEN @ \cup FirstRecords(i, f.cur.pos) ELSE @], i, f)
meetFile(st, l, i, f, tf) ==
  IF tf # None /\ tf.loc = l THEN st
  ELSE IF tf # None THEN [st EXCEPT !.c = holdLineage(@, l, i), !.tr[i].loc = l]
  ELSE IF ~f.ok THEN st
  ELSE trackFile(st, l, i, f)
admitFile(st, l, i, f, tf) ==
  IF tf = None /\ l \notin Matching THEN st
  ELSE meetFile([st EXCEPT !.seen = @ \cup {l}, !.present = @ \cup {i}], l, i, f, tf)
reconcileEntry(st, l, i, f) ==
  admitFile(IF st.c.committed THEN st ELSE sealEntry(st, l, i, f), l, i, f, st.tr[i])

\* The walk's files are taken in lexical order. st threads the control, the tracked files, the saved
\* cursors, the locators found occupied and the inodes found present.
reconcileFile(st, l) ==
  IF scan[l] = None THEN st
  ELSE reconcileEntry(st, l, scan[l].ino, cursorFor(st.c, l, scan[l].ino, scan[l].size))

Reconciled(n) ==
  FoldLeft(reconcileFile,
           [c |-> mem, tr |-> tracked, cs |-> curs, seen |-> {}, present |-> {}, lost |-> {}],
           SubSeq(Locs, 1, n))

\* rootScan.corroborated
corroborated == bad = {}

\* retireAbsentLineages: a fence falls when two corroborated walks in a row found its locator empty.
absentAgain(counts, live, seen) ==
  [x \in DOMAIN counts |-> IF x \in live /\ x \notin seen THEN counts[x] + 1 ELSE 0]
expired(counts) == {x \in DOMAIN counts : counts[x] >= absenceEvictionPolls}
retireAbsentLineages(c, dead) == [c EXCEPT !.lin = [l \in Names |-> IF l \in dead THEN None ELSE @[l]]]

\* retireAbsentActivationBaselines
dropIdentities(c, dead) == FoldLeft(dropIdentity, c, SetToSeq(dead))

\* sweepActivationBaselines: how often each sealed inode was found nowhere under the root.
sweepActivationBaselines(c, tr) ==
  absentAgain(idle, {i \in Inodes : c.base[i] # None}, {i \in Inodes : locatorsOf(i) # {} \/ tr[i] # None})

\* releaseTracked: with the file go its cursor and, under a baseline, its floor; the fence stays.
releaseTracked(c, tr, released) == dropIdentities(c, {i \in released : tr[i].fb})

\* markAbsent: a tracked file is present, or missed by one more corroborated walk.
markAbsent(tr, present) ==
  [i \in Inodes |-> IF tr[i] = None THEN None
                    ELSE IF i \in present THEN [tr[i] EXCEPT !.absent = 0]
                    ELSE IF corroborated THEN [tr[i] EXCEPT !.absent = @ + 1] ELSE tr[i]]

\* The rest of reconcileRoots: the activation commits over a walk that saw everything; fences,
\* activation floors and tracked files are released on corroborated absence only.
ReconcileRoots ==
  LET commits == ~mem.committed /\ "failed" \notin bad
      dead(counts) == IF corroborated THEN expired(counts) ELSE {}
      kept(counts) == [x \in DOMAIN counts |-> IF corroborated /\ x \notin expired(counts) THEN counts[x] ELSE 0]
  IN \E st \in {Reconciled(Len(Locs))} :
     \E c0 \in {[st.c EXCEPT !.committed = @ \/ commits]} :
     \E goneNow \in {absentAgain(gone, {l \in Names : c0.lin[l] # None}, st.seen)} :
     \E c1 \in {retireAbsentLineages(c0, dead(goneNow))} :
     \E idleNow \in {sweepActivationBaselines(c1, st.tr)} :
     \E tr \in {markAbsent(st.tr, st.present)} :
     \E released \in {{i \in Inodes : tr[i] # None /\ tr[i].absent >= absenceEvictionPolls}} :
       /\ mem' = releaseTracked(dropIdentities(c1, dead(idleNow)), tr, released)
       /\ tracked' = [i \in Inodes |-> IF i \in released THEN None ELSE tr[i]]
       /\ curs' = [i \in Inodes |-> IF i \in released \cup dead(idleNow) THEN None ELSE st.cs[i]]
       /\ ctl' = IF commits THEN c0 ELSE ctl
       /\ gone' = kept(goneNow) /\ idle' = kept(idleNow)
       /\ retired' = retired \cup dead(goneNow)
       /\ lostTo' = lostTo \cup st.lost

-----------------------------------------------------------------------------
\* The poll

Init ==
  /\ at \in {[l \in Names |-> IF l = first THEN i ELSE None] : first \in Names, i \in Inodes}
  /\ data = [i \in Inodes |-> IF \E l \in Names : at[l] = i THEN History ELSE <<>>]
  /\ ctl = NoControl /\ curs = [i \in Inodes |-> None]
  /\ mem = NoControl /\ tracked = [i \in Inodes |-> None]
  /\ gone = [l \in Names |-> 0] /\ idle = [i \in Inodes |-> 0]
  /\ pc = "idle" /\ todo = {} /\ scan = [l \in Names |-> None] /\ bad = {}
  /\ out = {} /\ lostTo = {} /\ retired = {} /\ cut = {} /\ blind = {}
  /\ made = 0 /\ ops = 0 /\ edited = FALSE /\ faults = 0

\* Poll begins with a walk of the root.
PollBegins ==
  /\ pc = "idle"
  /\ pc' = "walk" /\ todo' = Names /\ scan' = [l \in Names |-> None] /\ bad' = {}
  /\ UNCHANGED <<rootVars, diskVars, memVars, ghostVars, bounds>>

NextLoc == Locs[CHOOSE n \in DOMAIN Locs :
                  Locs[n] \in todo /\ \A m \in DOMAIN Locs : Locs[m] \in todo => n <= m]

\* scanRoot: the next locator as it stands now.
ScanEntry ==
  /\ pc = "walk" /\ todo # {}
  /\ scan' = [scan EXCEPT ![NextLoc] = IF at[NextLoc] = None THEN None
                                       ELSE [ino |-> at[NextLoc], size |-> Len(data[at[NextLoc]])]]
  /\ todo' = todo \ {NextLoc}
  /\ UNCHANGED <<rootVars, diskVars, memVars, pc, bad, ghostVars, bounds>>

\* scanRoot: an entry that was listed is gone when it is statted, or cannot be statted. During an
\* activation the first fails the walk as well, the second ends the reconcile.
ScanFaults ==
  /\ pc = "walk" /\ todo # {} /\ faults < MaxFaults
  /\ faults' = faults + 1
  /\ \/ /\ at[NextLoc] = None   \* vanished
        /\ bad' = bad \cup {IF mem.committed THEN "vanished" ELSE "failed"}
        /\ todo' = todo \ {NextLoc}
        /\ UNCHANGED <<pc, gone, idle, tracked>>
     \/ /\ mem.committed        \* unreadable
        /\ bad' = bad \cup {"failed"}
        /\ todo' = todo \ {NextLoc}
        /\ UNCHANGED <<pc, gone, idle, tracked>>
     \/ /\ ~mem.committed       \* unreadable while the activation needs the whole root
        /\ pc' = "idle" /\ todo' = {} /\ bad' = {}
        /\ gone' = [l \in Names |-> 0] /\ idle' = [i \in Inodes |-> 0]
        /\ tracked' = [i \in Inodes |-> IF tracked[i] = None THEN None
                                        ELSE [tracked[i] EXCEPT !.absent = 0]]
  /\ UNCHANGED <<rootVars, diskVars, mem, scan, ghostVars, made, ops, edited>>

Reconcile ==
  /\ pc = "walk" /\ todo = {}
  /\ ReconcileRoots /\ pc' = "flush"
  /\ UNCHANGED <<rootVars, todo, scan, bad, out, cut, blind, bounds>>

\* Mutant: the floors of this pass wait for the next write of the control record.
FlushPolicyControlsLater ==
  /\ pc = "flush"
  /\ pc' = "drain" /\ todo' = {i \in Inodes : tracked[i] # None}
  /\ scan' = [l \in Names |-> None] /\ bad' = {}
  /\ UNCHANGED <<rootVars, diskVars, memVars, ghostVars, bounds>>

\* flushPolicyControls
FlushPolicyControls ==
  /\ pc = "flush"
  /\ ctl' = mem
  /\ pc' = "drain" /\ todo' = {i \in Inodes : tracked[i] # None}
  /\ scan' = [l \in Names |-> None] /\ bad' = {}
  /\ UNCHANGED <<rootVars, curs, memVars, ghostVars, bounds>>

\* Mutant: the sealed prefix is checked by its length alone.
CorroboratedBySize(i) ==
  LET b == mem.base[i]
  IN IF Len(data[i]) < tracked[i].cur.pos THEN "truncated"
     ELSE IF mem.committed /\ b # None /\ b.floor > 0 /\ b.fp = None THEN "fingerprint" ELSE "intact"

\* corroborateOffset of a sealed file, and resealFloor.
Corroborated(i) ==
  LET t == tracked[i]
      b == mem.base[i]
      size == Len(data[i])
      window == readFloorWindow(i, b.floor)
  IN IF size < t.cur.pos THEN "truncated"
     ELSE IF ~mem.committed \/ b = None \/ b.floor = 0 THEN "intact"
     ELSE IF window = None THEN "truncated"
     ELSE IF b.fp = None THEN "fingerprint"
     ELSE IF b.fp # window THEN "rewritten" ELSE "intact"

\* corroborateOffset of an ordinary file
offsetInvalidated(i) ==
  LET c == tracked[i].cur
  IN Len(data[i]) < c.pos \/ (c.pos > 0 /\ data[i][c.pos] # c.anchor)

\* drain: the file must still be where it was tracked; its tail is delivered and the cursor saved.
Drain(i) ==
  LET t == tracked[i]
      size == Len(data[i])
      verdict == IF ~t.fb THEN IF offsetInvalidated(i) THEN "restart" ELSE "intact" ELSE Corroborated(i)
      resealed == verdict \in {"truncated", "rewritten"}
      from == IF resealed THEN size ELSE IF verdict = "restart" THEN 0 ELSE t.cur.pos
      floor == IF resealed THEN size ELSE mem.base[i].floor
      c == [t.cur EXCEPT !.pos = size, !.sealed = IF verdict = "restart" THEN FALSE ELSE @ \/ resealed,
                         !.size = size, !.anchor = IF size = 0 THEN None ELSE data[i][size]]
  IN /\ pc = "drain" /\ i \in todo /\ todo' = todo \ {i}
     /\ IF at[t.loc] # i THEN UNCHANGED <<curs, ctl, mem, tracked, out, lostTo, cut>>
        ELSE /\ cut' = cut \ {i}
             /\ out' = out \cup {[rec |-> data[i][n], loc |-> t.loc] : n \in (from + 1)..size}
             /\ tracked' = [tracked EXCEPT ![i].cur = c]
             /\ curs' = [curs EXCEPT ![i] = IF size > from \/ verdict \in {"restart", "truncated", "rewritten"}
                                              THEN c ELSE @]
             /\ mem' = IF resealed \/ verdict = "fingerprint"
                         THEN setBaseline(mem, t.loc, i, Baseline(floor, readFloorWindow(i, floor))) ELSE mem
             /\ ctl' = IF resealed THEN mem' ELSE ctl
             /\ lostTo' = IF resealed THEN lostTo \cup ToSet(data[i]) ELSE lostTo
     /\ UNCHANGED <<rootVars, gone, idle, pc, scan, bad, retired, blind, bounds>>

\* Poll flushes the control record again: the drains may have added fingerprints to it.
PollEnds ==
  /\ pc = "drain" /\ todo = {}
  /\ ctl' = mem /\ pc' = "idle"
  /\ UNCHANGED <<rootVars, curs, memVars, todo, scan, bad, ghostVars, bounds>>

\* The daemon dies. In a reconcile it has reported on and saved the cursors of the files it had got
\* to; in a drain it may have written the floor and not the cursor, which may stand past a floor that
\* came down.
Crash ==
  /\ pc # "down" /\ faults < MaxFaults
  /\ faults' = faults + 1
  /\ \/ UNCHANGED <<diskVars, lostTo, blind>>
     \/ /\ pc = "walk" /\ todo = {}
        /\ \E n \in 1..Len(Locs) : curs' = Reconciled(n).cs /\ lostTo' = lostTo \cup Reconciled(n).lost
        /\ UNCHANGED <<ctl, blind>>
     \/ \E i \in todo :
          /\ pc = "drain" /\ at[tracked[i].loc] = i /\ tracked[i].fb
          /\ Corroborated(i) \in {"truncated", "rewritten"}
          /\ ctl' = setBaseline(mem, tracked[i].loc, i, Baseline(Len(data[i]), readFloorWindow(i, Len(data[i]))))
          /\ lostTo' = lostTo \cup ToSet(data[i])
          /\ blind' = IF Len(data[i]) < tracked[i].cur.pos THEN blind \cup {i} ELSE blind
          /\ UNCHANGED curs
  /\ pc' = "down" /\ todo' = {} /\ scan' = [l \in Names |-> None] /\ bad' = {}
  /\ mem' = NoControl /\ tracked' = [i \in Inodes |-> None]
  /\ gone' = [l \in Names |-> 0] /\ idle' = [i \in Inodes |-> 0]
  /\ UNCHANGED <<rootVars, out, retired, cut, made, ops, edited>>

\* NewWatcher, newRootPolicyState
Restart ==
  /\ pc = "down"
  /\ mem' = ctl /\ pc' = "idle"
  /\ UNCHANGED <<rootVars, diskVars, tracked, gone, idle, todo, scan, bad, ghostVars, bounds>>

-----------------------------------------------------------------------------
\* The files under the root

Linked(i) == \E l \in Names : at[l] = i
\* A number that the daemon still knows may be given to another file, also while its floor has no
\* fingerprint or a walk has read its size and not yet judged it.
Known(i) == {tracked[i], curs[i], mem.base[i], ctl.base[i]} # {None} \/ locatorsOf(i) # {}
Unmarked(i) == locatorsOf(i) # {} \/ \E c \in {mem, ctl} : c.base[i] # None /\ c.base[i].fp = None
With(S, i, in) == IF in THEN S \cup {i} ELSE S \ {i}
Reuse(i) == cut' = With(cut, i, Known(i)) /\ blind' = With(blind, i, Unmarked(i))
Op == ops < MaxOps /\ ops' = ops + 1
RootOp == Op /\ UNCHANGED <<diskVars, memVars, pollVars, out, lostTo, retired>>
\* One edit of the history: of two that the daemon sees as one, the second can pass for an append to
\* the first, and no fingerprint tells.
EditOp == RootOp /\ ~edited /\ edited' = TRUE /\ UNCHANGED faults
\* A move under a walk makes it one that saw too little: two of those in a row are as good as absence.
Raced == IF pc = "walk" THEN faults < MaxFaults /\ faults' = faults + 1 ELSE faults' = faults

\* A provider appends a record, or starts a new transcript; each record is new.
NewRecord == 100 + made
Consented(r) == r >= 100
AppendRecord ==
  /\ RootOp /\ UNCHANGED faults
  /\ \E i \in Inodes : /\ Linked(i) /\ Len(data[i]) < MaxLen
                       /\ data' = [data EXCEPT ![i] = Append(@, NewRecord)]
  /\ made' = made + 1 /\ UNCHANGED <<at, cut, blind, edited>>
CreateFile ==
  /\ RootOp /\ UNCHANGED faults
  /\ \E l \in Names, i \in Inodes :
       /\ at[l] = None /\ ~Linked(i)
       /\ at' = [at EXCEPT ![l] = i]
       /\ \E n \in 1..2 : /\ data' = [data EXCEPT ![i] = [k \in 1..n |-> NewRecord + k - 1]]
                         /\ made' = made + n
       /\ Reuse(i)
  /\ UNCHANGED edited

\* An edited history stays at the name it was put at until the daemon has durably sealed it there: a
\* copy of the history under a name that was never sealed is a new file to the daemon, in full.
Movable(l) ==
  /\ QuietActivation => ~(pc = "walk" /\ ~mem.committed)
  /\ at[l] # None
  /\ ((\A n \in DOMAIN data[at[l]] : Consented(data[at[l]][n]))
      \/ ~ctl.committed \/ ctl.base[at[l]] # None)

\* mv, ln, rm. The locators are in directories of their own: a walk that has read the one and not yet
\* the other can miss a file that moves between them, without any error.
RenameFile ==
  /\ RootOp /\ Raced
  /\ \E l, m \in Names : l # m /\ Movable(l) /\ at' = [at EXCEPT ![m] = at[l], ![l] = None]
  /\ UNCHANGED <<data, cut, blind, made, edited>>
LinkFile ==
  /\ RootOp /\ Raced
  /\ \E l, m \in Names : Movable(l) /\ at[m] = None /\ at' = [at EXCEPT ![m] = at[l]]
  /\ UNCHANGED <<data, cut, blind, made, edited>>
UnlinkFile ==
  /\ RootOp /\ Raced
  /\ \E l \in Names : at[l] # None /\ at' = [at EXCEPT ![l] = None]
  /\ UNCHANGED <<data, cut, blind, made, edited>>

\* The owner edits the history through a temporary file (sed -i, an editor, a restored backup): a new
\* inode takes a name that the daemon has durably fenced. Until the fence has its fingerprint the
\* code can only inherit the floor, so the edit is then no longer than that.
Fences(l) == {c.lin[l] : c \in IF pc = "down" THEN {ctl} ELSE {ctl, mem}}
ReplaceHistory ==
  /\ EditOp
  /\ \E l \in Names, i \in Inodes, h \in Edited :
       /\ ~Linked(i) /\ ctl.committed
       /\ \A f \in Fences(l) : f # None /\ (f.fp = None => Len(h) <= f.floor)
       /\ at' = [at EXCEPT ![l] = i] /\ data' = [data EXCEPT ![i] = h]
       /\ Reuse(i)
  /\ UNCHANGED made

\* The owner edits the history in place, once its fingerprint is on record.
RewriteHistory ==
  /\ EditOp
  /\ \E i \in Inodes, h \in Edited :
       /\ Linked(i) /\ ctl.committed
       /\ \A c \in IF pc = "down" THEN {ctl} ELSE {ctl, mem} : c.base[i] # None /\ c.base[i].fp # None
       /\ ToSet(data[i]) \cap ToSet(History) # {}
       /\ data' = [data EXCEPT ![i] = h] /\ cut' = cut \cup {i}
       /\ \E f \in {ctl.base[i].floor} :
            blind' = IF f \in 1..Len(h) /\ h[f] = readFloorWindow(i, f) THEN blind \cup {i} ELSE blind
  /\ UNCHANGED <<at, made>>

Environment == AppendRecord \/ CreateFile \/ RenameFile \/ LinkFile \/ UnlinkFile
               \/ ReplaceHistory \/ RewriteHistory
Poll == PollBegins \/ ScanEntry \/ ScanFaults \/ Reconcile \/ FlushPolicyControls
        \/ (\E i \in Inodes : Drain(i)) \/ PollEnds
Next == Poll \/ Crash \/ Restart \/ Environment

Spec == Init /\ [][Next]_vars

-----------------------------------------------------------------------------
\* Properties

Held(b) == b = None \/ (b.floor \in 0..MaxLen)

\* The control record, the cursors and the tracked files have their types.
TypeOK ==
  /\ at \in [Names -> Inodes \cup {None}]
  /\ \A c \in {ctl, mem} : /\ \A i \in Inodes : Held(c.base[i])
                           /\ \A l \in Names : Held(c.lin[l]) /\ (c.lin[l] = None \/ c.lin[l].floor > 0)
  /\ \A i \in Inodes : tracked[i] = None \/ tracked[i].cur.pos \in 0..MaxLen
  /\ pc \in {"down", "idle", "walk", "flush", "drain"} /\ todo \subseteq Names \cup Inodes

\* What existed at consent, in its own or in an edited form, is never delivered from a locator that
\* retirement has not un-fenced: not through a rename, a hard link, a replacement, a rewrite in
\* place, a reused inode number, a walk that a rename raced, or a crash between two writes.
SealHolds ==
  \A o \in out : Consented(o.rec) \/ o.loc \in retired

\* What the fence protects survives a crash: a record below the floor that the daemon had announced
\* is below the floor that the next daemon starts from.
FloorDurable ==
  \A i \in Inodes :
    tracked[i] # None /\ tracked[i].fb /\ pc \in {"drain", "idle"} /\ mem.committed =>
      /\ ctl.base[i] # None /\ ctl.base[i].floor = mem.base[i].floor
      /\ curs[i] # None

\* The seal's records are sound: types, and no floor in force that a restart would forget
\* (reconcileLineage, flushPolicyControls).
SealInv == TypeOK /\ FloorDurable

\* Nothing consented is skipped in silence: a record that a cursor has passed was delivered, or a
\* reseal reported it, or it was there when the root was activated; and a number given to another file,
\* or an edit in place, is found out by the first drain of it.  The exceptions are what no fingerprint
\* tells (blind): a number reused while its floor has none, as that of a file which Match does not
\* admit never gets one; an edit that keeps the bytes which end at the floor; and a file that shrank,
\* whose floor came down and was reported, when the daemon died before it wrote the cursor too.
NothingSkipped ==
  \A i \in Inodes \ (cut \cup blind) :
    Linked(i) /\ tracked[i] # None /\ pc # "walk" =>
      \A n \in 1..Len(data[i]) :
        n <= tracked[i].cur.pos /\ Consented(data[i][n]) =>
          \/ \E o \in out : o.rec = data[i][n]
          \/ data[i][n] \in lostTo

====
