------------------------ MODULE ContentUploadProofs ------------------------
(***************************************************************************)
(* Proofs about the content side channel (module ContentUpload), for every *)
(* number of transcripts, lives of an inode number, generations, faults,   *)
(* restarts and changes of the world.                                      *)
(*                                                                         *)
(*   Types            Spec => []TypeOK                                     *)
(*   ConsentHonoured  Spec => []ConsentCovered                             *)
(*   KeysRight        Spec => []KeyedRight                                 *)
(*   RecordsHonest    Spec => [](MarkerHonest /\ JournalHonest)            *)
(*   RecordsReasoned  Spec => []ContentInv                                 *)
(*   OwedSurvivesStop Spec => OwedAcrossStop                               *)
(*                                                                         *)
(* ConsentKept carries the second: a transcript is queued under the        *)
(* consent and the life its watcher has (WatchShape), so dropping what a   *)
(* new policy does not cover drops every record a later step could write,  *)
(* and a request it does not cover is cancelled or about to be             *)
(* (FlightShape).  RecordsTrue carries the next two: a marker, a pending   *)
(* record and a threaded session name the transcript they are kept for     *)
(* (TablesTrue), a job is about a transcript that is there or was there    *)
(* before the one that is (LoopTrue), and the tool sends only what old     *)
(* markers of the first transcript recorded (ToolTrue).  The next rests on *)
(* two more: TimesTrue, that a snapshot in hand and a marker are of the    *)
(* file's present or its past, and ReasonsTrue, that whatever was          *)
(* evaluated had a reason then and has it still, or the file has left the  *)
(* snapshot behind.  SideStep says once what any step may do to what they  *)
(* speak of, so their induction never looks at an action.  Backed carries  *)
(* the last: what memory takes to be recorded on disk is recorded there.   *)
(***************************************************************************)
EXTENDS ContentUpload, TLAPS

-----------------------------------------------------------------------------
(* Constants and records *)

LEMMA Constants ==
  /\ MaxLife \in Nat /\ MaxLife > 0 /\ MaxGen \in Nat /\ MaxGen > 0
  /\ MaxLen \in Nat /\ MaxBytes \in Nat /\ MaxBytes > 0 /\ MaxAttempts \in Nat /\ MaxAttempts > 0
  /\ MaxFaults \in Nat /\ MaxOps \in Nat /\ Named \subseteq Lives
  /\ 1 \in Lives /\ 1 \in Gens /\ 0 \in 0..MaxLife
  /\ NoFile \in Snapshots
BY BoundsAssumption DEF Lives, Gens, NoFile, Snapshots

LEMMA NoneApart ==
  /\ None \notin Ids /\ None \notin Results /\ None \notin Evals /\ None \notin Markers
  /\ None \notin Records /\ None \notin FileStates /\ None \notin JobSet /\ None \notin Items
  /\ None \notin Refusals /\ None # "accepted"
BY BoundsAssumption

LEMMA SnapshotParts ==
  ASSUME NEW d \in Snapshots
  PROVE  /\ d.life \in 0..MaxLife /\ d.len \in Nat /\ d.mod \in Nat /\ d.gc \in BOOLEAN
         /\ Stat(d) \in Pairs /\ Bytes(d) \in Pairs
         /\ Stat(d)[1] = d.len /\ Stat(d)[2] = d.mod /\ Bytes(d)[1] = d.life /\ Bytes(d)[2] = d.len
BY Constants DEF Snapshots, Stat, Bytes, Pairs

LEMMA FreshTyped ==
  ASSUME NEW g \in Gens, NEW d \in Snapshots, d.life \in Lives
  PROVE  /\ contentState(g, d) \in FileStates
         /\ contentState(g, d).gen = g /\ contentState(g, d).life = d.life /\ contentState(g, d).stat = Stat(d)
         /\ contentState(g, d).pend = None /\ ~contentState(g, d).pendLoaded
         /\ contentState(g, d).mk = None /\ contentState(g, d).eval = None /\ ~contentState(g, d).uploaded
         /\ contentState(g, d).failed = <<0, 0>> /\ ~contentState(g, d).loaded
<1>1. Stat(d) \in Pairs /\ d.gc \in BOOLEAN
  BY SnapshotParts
<1>2. <<0, 0>> \in Pairs
  BY DEF Pairs
<1> QED
  BY <1>1, <1>2 DEF contentState, FileStates

LEMMA MarkTyped ==
  ASSUME NEW st \in FileStates, NEW s \in Pairs, NEW g \in BOOLEAN
  PROVE  /\ markEvaluated(st, s, g) \in FileStates
         /\ markEvaluated(st, s, g) = [st EXCEPT !.eval = <<s, g>>]
<1>1. <<s, g>> \in Evals
  BY DEF Evals
<1> QED
  BY <1>1 DEF markEvaluated, FileStates

LEMMA MarkerTyped ==
  ASSUME NEW b \in Pairs, NEW s \in Pairs, NEW n \in Lives, NEW g \in BOOLEAN, NEW r \in BOOLEAN, NEW o \in BOOLEAN
  PROVE  /\ contentMarker(b, s, n, g, r, o) \in Markers
         /\ contentMarker(b, s, n, g, r, o).bytes = b /\ contentMarker(b, s, n, g, r, o).stat = s
         /\ contentMarker(b, s, n, g, r, o).native = n /\ contentMarker(b, s, n, g, r, o).old = o
BY DEF contentMarker, Markers

\* The loop between two jobs.
LEMMA LoopTyped ==
  ASSUME TypeOK
  PROVE  /\ NoTick \in Ticks /\ Owed \in Ticks /\ Owed.pc = "owed" /\ Owed.jobs = tick.jobs /\ Owed.saves = {}
         /\ Owed.res = None /\ Owed.rec = None /\ Owed.job = None
         /\ \A pc \in {"persist", "drop"} :
              /\ After(pc) \in Ticks /\ After(pc).pc = pc /\ After(pc).job = tick.job /\ After(pc).jobs = tick.jobs
              /\ After(pc).saves = {} /\ After(pc).res = None /\ After(pc).rec = None
<1>1. tick \in Ticks
  BY DEF TypeOK
<1>2. NoTick \in Ticks
  BY Constants DEF NoTick, Ticks
<1>3. Owed = [NoTick EXCEPT !.pc = "owed", !.jobs = tick.jobs]
  BY DEF Owed
<1>4. tick.jobs \in SUBSET JobSet /\ tick.job \in JobSet \cup {None}
  BY <1>1 DEF Ticks
<1>5. Owed \in Ticks
  BY <1>2, <1>3, <1>4 DEF Ticks
<1>6. /\ Owed.pc = "owed" /\ Owed.jobs = tick.jobs /\ Owed.saves = {}
      /\ Owed.res = None /\ Owed.rec = None /\ Owed.job = None
  BY <1>3 DEF NoTick
<1>7. ASSUME NEW pc \in {"persist", "drop"}
      PROVE  /\ After(pc) \in Ticks /\ After(pc).pc = pc /\ After(pc).job = tick.job /\ After(pc).jobs = tick.jobs
             /\ After(pc).saves = {} /\ After(pc).res = None /\ After(pc).rec = None
  <2>1. After(pc) = [Owed EXCEPT !.pc = pc, !.job = tick.job]
    BY DEF After
  <2>2. After(pc) \in Ticks
    BY <1>4, <1>5, <2>1 DEF Ticks
  <2> QED
    BY <1>3, <1>6, <2>1, <2>2 DEF NoTick
<1> QED
  BY <1>2, <1>5, <1>6, <1>7

-----------------------------------------------------------------------------
(* What the plan makes of a transcript *)

\* A file's marker is looked for once: only the marker's memory and what it evaluates are new.
LEMMA MarkerLoadedIs ==
  ASSUME TypeOK, NEW id \in Ids, files[id] # None
  PROVE  LET st == MarkerLoaded(id, files[id])
             f == files[id]
         IN  /\ st \in FileStates /\ st # None
             /\ st.gen = f.gen /\ st.life = f.life /\ st.stat = f.stat /\ st.gc = f.gc
             /\ st.pend = f.pend /\ st.pendLoaded = f.pendLoaded /\ st.failed = f.failed /\ st.fails = f.fails
             /\ \/ st.mk = f.mk /\ st.uploaded = f.uploaded /\ st.eval = f.eval /\ (f.loaded \/ marker[id] = None)
                \/ /\ ~f.loaded /\ marker[id] # None /\ st.mk = marker[id] /\ st.uploaded
                   /\ st.eval = <<marker[id].stat, marker[id].gc>>
<1> DEFINE f == files[id]
           st == MarkerLoaded(id, f)
           g == [f EXCEPT !.loaded = TRUE, !.mk = marker[id], !.uploaded = TRUE, !.refused = marker[id].refused]
<1>1. f \in FileStates
  BY DEF TypeOK
<1>2. marker[id] \in Markers \cup {None}
  BY DEF TypeOK
<1>3. CASE f.loaded
  <2>1. st = f
    BY <1>3 DEF MarkerLoaded
  <2> QED
    BY <1>1, <1>3, <2>1, NoneApart
<1>4. CASE ~f.loaded /\ marker[id] = None
  <2>1. st = [f EXCEPT !.loaded = TRUE]
    BY <1>4 DEF MarkerLoaded
  <2>2. st \in FileStates
    BY <1>1, <2>1 DEF FileStates
  <2>3. /\ st.gen = f.gen /\ st.life = f.life /\ st.stat = f.stat /\ st.gc = f.gc
        /\ st.pend = f.pend /\ st.pendLoaded = f.pendLoaded /\ st.failed = f.failed /\ st.fails = f.fails
        /\ st.mk = f.mk /\ st.uploaded = f.uploaded /\ st.eval = f.eval
    BY <1>1, <2>1 DEF FileStates
  <2> QED
    BY <1>4, <2>2, <2>3, NoneApart
<1>5. CASE ~f.loaded /\ marker[id] # None
  <2>1. marker[id].stat \in Pairs /\ marker[id].gc \in BOOLEAN /\ marker[id].refused \in BOOLEAN /\ marker[id] \in Markers
    BY <1>2, <1>5 DEF Markers
  <2>2. st = markEvaluated(g, marker[id].stat, marker[id].gc)
    BY <1>5 DEF MarkerLoaded
  <2>3. g \in FileStates
    BY <1>1, <2>1 DEF FileStates
  <2> HIDE DEF g
  <2>4. st \in FileStates /\ st = [g EXCEPT !.eval = <<marker[id].stat, marker[id].gc>>]
    BY <2>1, <2>2, <2>3, MarkTyped
  <2>5. /\ g.gen = f.gen /\ g.life = f.life /\ g.stat = f.stat /\ g.gc = f.gc
        /\ g.pend = f.pend /\ g.pendLoaded = f.pendLoaded /\ g.failed = f.failed /\ g.fails = f.fails
        /\ g.mk = marker[id] /\ g.uploaded
    BY <1>1 DEF FileStates, g
  <2>6. /\ st.gen = g.gen /\ st.life = g.life /\ st.stat = g.stat /\ st.gc = g.gc
        /\ st.pend = g.pend /\ st.pendLoaded = g.pendLoaded /\ st.failed = g.failed /\ st.fails = g.fails
        /\ st.mk = g.mk /\ st.uploaded = g.uploaded /\ st.eval = <<marker[id].stat, marker[id].gc>>
    BY <2>3, <2>4 DEF FileStates
  <2> QED
    BY <1>5, <2>4, <2>5, <2>6, NoneApart
<1> QED
  BY <1>3, <1>4, <1>5

\* A file's pending record is looked for once, and counts only for the same transcript under the same consent.
LEMMA PendingLoadedIs ==
  ASSUME TypeOK, NEW id \in Ids, NEW st \in FileStates
  PROVE  LET q == PendingLoaded(id, st)
         IN  /\ q \in FileStates
             /\ q.gen = st.gen /\ q.life = st.life /\ q.stat = st.stat /\ q.gc = st.gc /\ q.failed = st.failed
             /\ q.fails = st.fails /\ q.mk = st.mk /\ q.uploaded = st.uploaded /\ q.eval = st.eval /\ q.pendLoaded
             /\ \/ q.pend = st.pend
                \/ ~st.pendLoaded /\ q.pend = pending[id] /\ pending[id] # None /\ names(pending[id], st)
<1> DEFINE q == PendingLoaded(id, st)
           p == pending[id]
<1>1. p \in Records \cup {None}
  BY DEF TypeOK
<1>2. CASE st.pendLoaded
  <2>1. q = st
    BY <1>2 DEF PendingLoaded
  <2> QED
    BY <1>2, <2>1
<1>3. CASE ~st.pendLoaded /\ q = [st EXCEPT !.pendLoaded = TRUE]
  <2>1. q \in FileStates
    BY <1>3 DEF FileStates
  <2> QED
    BY <1>3, <2>1 DEF FileStates
<1>4. CASE ~st.pendLoaded /\ p # None /\ names(p, st) /\ q = [st EXCEPT !.pendLoaded = TRUE, !.pend = p]
  <2>1. q \in FileStates
    BY <1>1, <1>4 DEF FileStates
  <2> QED
    BY <1>4, <2>1 DEF FileStates
<1>5. \/ st.pendLoaded \/ (~st.pendLoaded /\ q = [st EXCEPT !.pendLoaded = TRUE])
      \/ ~st.pendLoaded /\ p # None /\ names(p, st) /\ q = [st EXCEPT !.pendLoaded = TRUE, !.pend = p]
  BY DEF PendingLoaded
<1> QED
  BY <1>2, <1>3, <1>4, <1>5

\* What the plan may change of a transcript it keeps.
Replanned(id, st) ==
  LET f == files[id]
  IN  /\ f # None /\ allowed(f.gen) /\ st \in FileStates
      /\ st.gen = f.gen /\ st.life = f.life /\ st.stat = f.stat /\ st.gc = f.gc
      /\ st.failed = f.failed /\ st.fails = f.fails
      /\ \/ st.mk = f.mk /\ st.uploaded = f.uploaded /\ st.eval = f.eval
         \/ marker[id] # None /\ st.mk = marker[id] /\ st.uploaded /\ st.eval = <<marker[id].stat, marker[id].gc>>
      /\ \/ st.pend = f.pend
         \/ pending[id] # None /\ st.pend = pending[id] /\ pending[id].gen = f.gen /\ pending[id].life = f.life
      /\ ~handled(st) => st.pendLoaded

LEMMA PlannedIs ==
  ASSUME TypeOK, NEW id \in Ids
  PROVE  PlannedState(id) = None \/ Replanned(id, PlannedState(id))
<1> DEFINE f == files[id]
           st == MarkerLoaded(id, f)
           q == PendingLoaded(id, st)
           r == PlannedState(id)
<1>1. CASE f = None \/ ~allowed(f.gen)
  BY <1>1 DEF PlannedState
<1>2. CASE f # None /\ allowed(f.gen)
  <2>1. r = IF handled(st) THEN st ELSE q
    BY <1>2 DEF PlannedState
  <2>2. /\ st \in FileStates
        /\ st.gen = f.gen /\ st.life = f.life /\ st.stat = f.stat /\ st.gc = f.gc
        /\ st.pend = f.pend /\ st.failed = f.failed /\ st.fails = f.fails
        /\ \/ st.mk = f.mk /\ st.uploaded = f.uploaded /\ st.eval = f.eval
           \/ marker[id] # None /\ st.mk = marker[id] /\ st.uploaded /\ st.eval = <<marker[id].stat, marker[id].gc>>
    BY <1>2, MarkerLoadedIs
  <2> HIDE DEF st
  <2>3. /\ q \in FileStates
        /\ q.gen = st.gen /\ q.life = st.life /\ q.stat = st.stat /\ q.gc = st.gc /\ q.failed = st.failed
        /\ q.fails = st.fails /\ q.mk = st.mk /\ q.uploaded = st.uploaded /\ q.eval = st.eval /\ q.pendLoaded
        /\ \/ q.pend = st.pend
           \/ q.pend = pending[id] /\ pending[id] # None /\ names(pending[id], st)
    BY <2>2, PendingLoadedIs
  <2> HIDE DEF q
  <2>4. CASE handled(st)
    BY <1>2, <2>1, <2>2, <2>4 DEF Replanned
  <2>5. CASE ~handled(st)
    <3>1. r = q
      BY <2>1, <2>5
    <3>2. \/ q.pend = f.pend
          \/ pending[id] # None /\ q.pend = pending[id] /\ pending[id].gen = f.gen /\ pending[id].life = f.life
      BY <2>2, <2>3 DEF names
    <3> QED
      BY <1>2, <2>2, <2>3, <3>1, <3>2 DEF Replanned
  <2> QED
    BY <2>4, <2>5
<1> QED
  BY <1>1, <1>2

\* The table of transcripts a plan leaves.
LEMMA PlanTyped ==
  ASSUME TypeOK
  PROVE  [id \in Ids |-> PlannedState(id)] \in [Ids -> FileStates \cup {None}]
BY PlannedIs DEF Replanned

\* The session a transcript would be sent under, wherever it is found.
LEMMA ResolvedIs ==
  ASSUME TypeOK, NEW id \in Ids, NEW st \in FileStates
  PROVE  /\ resolveSession(id, st) \in 0..MaxLife
         /\ \/ resolveSession(id, st) = session[id] /\ session[id] # 0
            \/ session[id] = 0 /\ st.pend # None /\ resolveSession(id, st) = st.pend.native
            \/ session[id] = 0 /\ st.pend = None /\ st.mk # None /\ resolveSession(id, st) = st.mk.native
            \/ /\ session[id] = 0 /\ st.pend = None /\ st.mk = None
               /\ resolveSession(id, st) \in {0, st.life}
<1>1. session[id] \in 0..MaxLife
  BY DEF TypeOK
<1>2. st.pend \in Records \cup {None} /\ st.mk \in Markers \cup {None} /\ st.life \in Lives
  BY DEF FileStates
<1>3. st.pend # None => st.pend.native \in Lives
  BY <1>2 DEF Records
<1>4. st.mk # None => st.mk.native \in Lives
  BY <1>2 DEF Markers
<1>5. Lives \subseteq 0..MaxLife /\ 0 \in 0..MaxLife
  BY Constants DEF Lives
<1>6. deriveSessionFromName(st.life) \in {0, st.life}
  BY DEF deriveSessionFromName
<1> QED
  BY <1>1, <1>2, <1>3, <1>4, <1>5, <1>6 DEF resolveSession

\* The records owed after a plan, and the jobs: about the transcripts it keeps, under their own consent and life.
LEMMA SavesAre ==
  ASSUME TypeOK, NEW fs \in [Ids -> FileStates \cup {None}], NEW s \in Saves(fs)
  PROVE  /\ s \in SaveSet /\ fs[s.id] # None /\ fs[s.id] \in FileStates /\ s.rec.gen = fs[s.id].gen
         /\ s.rec.life = fs[s.id].life /\ s.rec.stat = fs[s.id].stat /\ s.rec \in Records
         /\ s.rec.native = resolveSession(s.id, fs[s.id]) /\ ~handled(fs[s.id])
<1>1. PICK id \in Ids :
        /\ owes(id, fs[id]) /\ ~keyed(fs[id], resolveSession(id, fs[id]))
        /\ s = [id |-> id, rec |-> [native |-> resolveSession(id, fs[id]), gen |-> fs[id].gen,
                                    life |-> fs[id].life, stat |-> fs[id].stat]]
  BY DEF Saves
<1>2. fs[id] # None /\ ~handled(fs[id]) /\ resolveSession(id, fs[id]) # 0
  BY <1>1 DEF owes
<1>3. fs[id] \in FileStates
  BY <1>2
<1>4. resolveSession(id, fs[id]) \in 0..MaxLife
  BY <1>3, ResolvedIs
<1>5. resolveSession(id, fs[id]) \in Lives
  BY <1>2, <1>4, Constants DEF Lives
<1>6. fs[id].gen \in Gens /\ fs[id].life \in Lives /\ fs[id].stat \in Pairs
  BY <1>3 DEF FileStates
<1>7. s.rec \in Records
  BY <1>1, <1>5, <1>6 DEF Records
<1> QED
  BY <1>1, <1>2, <1>3, <1>5, <1>6, <1>7 DEF SaveSet

LEMMA JobsAre ==
  ASSUME TypeOK, NEW fs \in [Ids -> FileStates \cup {None}], NEW stable \in SUBSET Ids, NEW j \in Jobs(fs, stable)
  PROVE  /\ j \in JobSet /\ j.id \in stable /\ fs[j.id] # None /\ fs[j.id] \in FileStates /\ j.gen = fs[j.id].gen
         /\ j.life = fs[j.id].life /\ j.native = resolveSession(j.id, fs[j.id])
<1>1. PICK id \in stable :
        /\ owes(id, fs[id])
        /\ j = [id |-> id, gen |-> fs[id].gen, life |-> fs[id].life, gc |-> fs[id].gc,
                native |-> resolveSession(id, fs[id]), size |-> fs[id].stat[1], fails |-> failures(fs[id])]
  BY DEF Jobs
<1>2. fs[id] # None /\ resolveSession(id, fs[id]) # 0
  BY <1>1 DEF owes
<1>3. fs[id] \in FileStates
  BY <1>2
<1>4. resolveSession(id, fs[id]) \in 0..MaxLife
  BY <1>3, ResolvedIs
<1>5. resolveSession(id, fs[id]) \in Lives
  BY <1>2, <1>4, Constants DEF Lives
<1>6. fs[id].gen \in Gens /\ fs[id].life \in Lives /\ fs[id].gc \in BOOLEAN /\ fs[id].stat \in Pairs /\ fs[id].fails \in Nat
  BY <1>3 DEF FileStates
<1>7. fs[id].stat[1] \in Nat /\ failures(fs[id]) \in Nat
  BY <1>6 DEF Pairs, failures
<1>8. j \in JobSet
  BY <1>1, <1>5, <1>6, <1>7 DEF JobSet
<1> QED
  BY <1>1, <1>2, <1>3, <1>8


-----------------------------------------------------------------------------
(* Every step keeps the types *)

LEMMA BudgetTyped ==
  ASSUME TypeOK
  PROVE  /\ Op => budget' \in Budgets /\ budget'.stale = budget.stale /\ budget'.faults = budget.faults
         /\ Fault => budget' \in Budgets /\ budget'.stale = budget.stale
         /\ \A id \in Ids : MarkerFault(id) => budget' \in Budgets /\ budget'.stale = budget.stale
         /\ \A id \in Ids : \A m : NoteMarker(id, m) => budget' \in Budgets /\ budget.stale \subseteq budget'.stale
         /\ tick.job # None /\ NoteOutcome => budget' \in Budgets /\ budget.stale \subseteq budget'.stale
<1>1. budget \in Budgets
  BY DEF TypeOK
<1>2. Op => budget' \in Budgets /\ budget'.stale = budget.stale /\ budget'.faults = budget.faults
  BY <1>1 DEF Op, Budgets
<1>3. Fault => budget' \in Budgets /\ budget'.stale = budget.stale
  BY <1>1 DEF Fault, Budgets
<1>f. ASSUME NEW id \in Ids, MarkerFault(id)
      PROVE  budget' \in Budgets /\ budget'.stale = budget.stale
  <2>1. PICK u \in SUBSET Ids : u = budget.unwritten \cup {id}
    BY <1>1, <1>f DEF Budgets
  <2>2. PICK n \in Nat : n = budget.faults + 1
    BY <1>1 DEF Budgets
  <2>3. budget' = [budget EXCEPT !.faults = n, !.unwritten = u]
    BY <1>f, <2>1, <2>2 DEF MarkerFault
  <2> QED
    BY <1>1, <2>3 DEF Budgets
<1>4. ASSUME NEW id \in Ids
      PROVE  LET b == [budget EXCEPT !.stale = @ \cup {id}] IN b \in Budgets /\ budget.stale \subseteq b.stale
  BY <1>1 DEF Budgets
<1>5. ASSUME NEW id \in Ids, NEW m, NoteMarker(id, m)
      PROVE  budget' \in Budgets /\ budget.stale \subseteq budget'.stale
  BY <1>1, <1>4, <1>5 DEF NoteMarker
<1>6. ASSUME tick.job # None, NoteOutcome
      PROVE  budget' \in Budgets /\ budget.stale \subseteq budget'.stale
  <2>1. tick.job.id \in Ids
    BY <1>6 DEF TypeOK, Ticks, JobSet
  <2> QED
    BY <1>1, <1>4, <1>6, <2>1 DEF NoteOutcome
<1> QED
  BY <1>2, <1>3, <1>f, <1>5, <1>6

LEMMA InitTypes == Init => TypeOK
<1> SUFFICES ASSUME Init PROVE TypeOK
  OBVIOUS
<1>1. /\ disk \in [Ids -> Snapshots]
      /\ \A id \in Ids : disk[id].life \in Lives /\ (disk[id].len = 0 => disk[id].life < MaxLife)
  <2> DEFINE d == [NoFile EXCEPT !.life = 1, !.len = 1]
  <2>2. 1 \in 0..MaxLife /\ NoFile \in Snapshots
    BY Constants
  <2>3. d \in Snapshots /\ d.life = 1 /\ d.len = 1
    BY <2>2 DEF Snapshots
  <2>4. disk \in [Ids -> {d}]
    BY DEF Init
  <2> HIDE DEF d
  <2> QED
    BY <2>3, <2>4, Constants
<1>2. contentMarker(<<1, 1>>, <<1, 0>>, 1, FALSE, FALSE, TRUE) \in Markers
  <2>1. <<1, 1>> \in Pairs /\ <<1, 0>> \in Pairs
    BY DEF Pairs
  <2> QED
    BY <2>1, Constants, MarkerTyped
<1>3. marker \in [Ids -> Markers \cup {None}] /\ parsed \in [Ids -> Pairs]
  <2>1. PICK old \in BOOLEAN :
          /\ marker = [id \in Ids |-> IF old THEN contentMarker(<<1, 1>>, <<1, 0>>, 1, FALSE, FALSE, TRUE) ELSE None]
          /\ parsed = [id \in Ids |-> IF old THEN <<1, 1>> ELSE <<0, 0>>]
    BY DEF Init
  <2>2. <<1, 1>> \in Pairs /\ <<0, 0>> \in Pairs
    BY DEF Pairs
  <2> QED
    BY <1>2, <2>1, <2>2
<1>4. store \subseteq Lives \X Pairs \X {"before", "after"}
  BY Constants DEF Init, Pairs
<1>5. policy \in Policies /\ latest \in Policies /\ watch \in Watchers
  BY Constants DEF Init, Policies, Watchers
<1>6. tick \in Ticks /\ tool \in Tools /\ tick.pc = "idle" /\ tick.res = None /\ tool.pc = "idle"
  BY Constants DEF Init, NoTick, Ticks, NoTool, Tools
<1>7. budget \in Budgets
  BY DEF Init, Budgets
<1> QED
  BY <1>1, <1>3, <1>4, <1>5, <1>6, <1>7, Constants DEF Init, TypeOK

\* What the world does to a file: it grows, moves or gains its sidecar; or it goes; or the next one comes.
LEMMA TranscriptGrows ==
  ASSUME TypeOK, NEW id \in Ids, WriteTranscript(id)
  PROVE  /\ disk' = [disk EXCEPT ![id] = disk'[id]] /\ disk'[id] \in Snapshots /\ disk[id].len > 0
         /\ disk'[id].life = disk[id].life /\ disk'[id].len >= disk[id].len /\ disk'[id].mod >= disk[id].mod
<1>1. disk[id] \in Snapshots /\ disk \in [Ids -> Snapshots]
  BY DEF TypeOK
<1>2. CASE disk' = [disk EXCEPT ![id].len = @ + 1]
  BY <1>1, <1>2 DEF Snapshots, WriteTranscript
<1>3. CASE disk' = [disk EXCEPT ![id].gc = TRUE]
  <2>1. PICK g \in BOOLEAN : disk' = [disk EXCEPT ![id].gc = g]
    BY <1>3
  <2> QED
    BY <1>1, <2>1 DEF Snapshots, WriteTranscript
<1>4. CASE disk' = [disk EXCEPT ![id].mod = @ + 1]
  BY <1>1, <1>4 DEF Snapshots, WriteTranscript
<1> QED
  BY <1>2, <1>3, <1>4 DEF WriteTranscript

LEMMA TranscriptReplaced ==
  ASSUME TypeOK, NEW id \in Ids, ReplaceTranscript(id)
  PROVE  /\ disk' = [disk EXCEPT ![id] = disk'[id]] /\ disk'[id] \in Snapshots /\ disk'[id].life \in Lives
         /\ \/ /\ disk'[id].len = 0 /\ disk'[id].life = disk[id].life /\ disk'[id].mod = disk[id].mod
               /\ disk[id].life < MaxLife
            \/ disk'[id].len = 1 /\ disk'[id].life = disk[id].life + 1 /\ disk'[id].mod = disk[id].mod + 1
<1>1. disk[id] \in Snapshots /\ disk \in [Ids -> Snapshots] /\ disk[id].life \in Lives
      /\ (disk[id].len = 0 => disk[id].life < MaxLife)
  BY DEF TypeOK
<1>2. CASE disk' = [disk EXCEPT ![id].len = 0] /\ disk[id].life < MaxLife
  BY <1>1, <1>2 DEF Snapshots
<1>3. CASE /\ disk' = [disk EXCEPT ![id] = [life |-> @.life + 1, len |-> 1, mod |-> @.mod + 1, gc |-> FALSE]]
           /\ disk[id].len = 0
  <2> DEFINE d == [life |-> disk[id].life + 1, len |-> 1, mod |-> disk[id].mod + 1, gc |-> FALSE]
  <2>1. disk' = [disk EXCEPT ![id] = d]
    BY <1>3
  <2>2. disk[id].mod \in Nat /\ disk[id].life + 1 \in Lives /\ disk[id].life + 1 \in 0..MaxLife
    BY <1>1, <1>3, Constants DEF Snapshots, Lives
  <2>3. d \in Snapshots
    BY <2>2 DEF Snapshots
  <2> QED
    BY <1>1, <2>1, <2>2, <2>3
<1> QED
  BY <1>2, <1>3 DEF ReplaceTranscript

LEMMA WorldTypes ==
  ASSUME TypeOK, World
  PROVE  TypeOK'
<1>1. ASSUME NEW id \in Ids, WriteTranscript(id)
      PROVE  TypeOK'
  <2>1. disk[id] \in Snapshots /\ disk[id].life \in Lives /\ disk \in [Ids -> Snapshots]
    BY DEF TypeOK
  <2>2. /\ disk' \in [Ids -> Snapshots]
        /\ \A i \in Ids : disk'[i].life \in Lives /\ (disk'[i].len = 0 => disk'[i].life < MaxLife)
    <3>1. /\ disk' = [disk EXCEPT ![id] = disk'[id]] /\ disk'[id] \in Snapshots /\ disk[id].len > 0
          /\ disk'[id].life = disk[id].life /\ disk'[id].len >= disk[id].len
      BY <1>1, TranscriptGrows
    <3>2. disk'[id].len # 0
      BY <2>1, <3>1, SnapshotParts
    <3>3. \A i \in Ids : i # id => disk'[i] = disk[i]
      BY <2>1, <3>1
    <3> QED
      BY <2>1, <3>1, <3>2, <3>3 DEF TypeOK
  <2>3. budget' \in Budgets
    BY <1>1, BudgetTyped DEF WriteTranscript
  <2> QED
    BY <1>1, <2>2, <2>3 DEF WriteTranscript, TypeOK, daemon, durable, outside
<1>2. ASSUME NEW id \in Ids, ReplaceTranscript(id)
      PROVE  TypeOK'
  <2>1. disk[id] \in Snapshots /\ disk[id].life \in Lives /\ disk \in [Ids -> Snapshots]
    BY DEF TypeOK
  <2>2. budget' \in Budgets
    BY <1>2, BudgetTyped DEF ReplaceTranscript, TypeOK
  <2>4. /\ disk' \in [Ids -> Snapshots]
        /\ \A i \in Ids : disk'[i].life \in Lives /\ (disk'[i].len = 0 => disk'[i].life < MaxLife)
    BY <1>2, <2>1, TranscriptReplaced DEF TypeOK
  <2> QED
    BY <1>2, <2>2, <2>4 DEF ReplaceTranscript, TypeOK, daemon, durable, outside
<1>3. CASE WritePolicy
  <2>1. policy' \in Policies
    <3>1. policy \in Policies
      BY DEF TypeOK
    <3>2. CASE policy' = [policy EXCEPT !.on = FALSE]
      BY <3>1, <3>2 DEF Policies
    <3>3. CASE policy.gen < MaxGen /\ policy' = [on |-> TRUE, gen |-> policy.gen + 1]
      <4>1. policy.gen + 1 \in Gens
        BY <3>1, <3>3, Constants DEF Policies, Gens
      <4> QED
        BY <3>3, <4>1 DEF Policies
    <3> QED
      BY <1>3, <3>2, <3>3 DEF WritePolicy
  <2>2. budget' \in Budgets
    BY <1>3, BudgetTyped DEF WritePolicy
  <2> QED
    BY <1>3, <2>1, <2>2 DEF WritePolicy, TypeOK, daemon, durable, outside
<1>4. CASE HoldPasses
  <2>1. refusal' \in Refusals \cup {None}
    BY <1>4 DEF HoldPasses, TypeOK, Refusals
  <2> QED
    BY <1>4, <2>1 DEF HoldPasses, TypeOK, durable, outside
<1>5. CASE RenewToken
  BY <1>5 DEF RenewToken, TypeOK, daemon, durable, outside
<1> QED
  BY <1>1, <1>2, <1>3, <1>4, <1>5 DEF World

LEMMA ConsentTypes ==
  ASSUME TypeOK, Consent
  PROVE  TypeOK'
<1>1. ASSUME NEW by \in {"tick", "other"}, Current(by)
      PROVE  TypeOK'
  <2>1. calls' \subseteq CallSet
    BY <1>1 DEF Current, TypeOK, CallSet
  <2> QED
    BY <1>1, <2>1 DEF Current, TypeOK, durable, outside
<1>2. ASSUME NEW c \in calls, onConsentChange(c)
      PROVE  TypeOK'
  <2>1. c \in CallSet
    BY DEF TypeOK
  <2>2. calls' \subseteq CallSet
    BY <1>2, <2>1 DEF onConsentChange, TypeOK, CallSet
  <2>3. files' \in [Ids -> FileStates \cup {None}]
    BY <1>2 DEF onConsentChange, Dropped, TypeOK
  <2>4. PICK w \in BOOLEAN : tick' = [tick EXCEPT !.withdrawn = w]
    <3> DEFINE w == tick.withdrawn \/ (InFlight /\ ~contentAllowedBy(c.pol, tick.job.gen))
    <3>1. w \in BOOLEAN /\ tick' = [tick EXCEPT !.withdrawn = w]
      BY <1>2 DEF onConsentChange
    <3> QED
      BY <3>1
  <2>5. tick' \in Ticks /\ tick'.pc = tick.pc /\ tick'.job = tick.job /\ tick'.snap = tick.snap /\ tick'.res = tick.res
    BY <2>4 DEF TypeOK, Ticks
  <2> QED
    BY <1>2, <2>2, <2>3, <2>5 DEF onConsentChange, TypeOK, durable, outside
<1>3. ASSUME NEW c \in calls, sweepPending(c)
      PROVE  TypeOK'
  <2>1. pending' \in [Ids -> Records \cup {None}]
    BY <1>3 DEF sweepPending, sweepContentPending, TypeOK
  <2> QED
    BY <1>3, <2>1 DEF sweepPending, TypeOK, outside
<1> QED
  BY <1>1, <1>2, <1>3 DEF Consent


\* A transcript observed again keeps its records.
LEMMA ObservedIs ==
  ASSUME TypeOK, NEW id \in Ids, NEW st \in FileStates
  PROVE  LET o == Observed(st, disk[id])
         IN  /\ o \in FileStates /\ o.gen = watch.gen /\ o.life = disk[id].life /\ o.stat = Stat(disk[id])
             /\ o.gc = disk[id].gc
             /\ o.eval = (IF st.gc # disk[id].gc THEN None ELSE st.eval)
             /\ o.mk = st.mk /\ o.uploaded = st.uploaded /\ o.pend = st.pend /\ o.pendLoaded = st.pendLoaded
             /\ o.failed = st.failed /\ o.fails = st.fails /\ o.loaded = st.loaded
<1>1. disk[id] \in Snapshots /\ disk[id].life \in Lives /\ watch.gen \in Gens
  BY DEF TypeOK, Watchers
<1>2. Stat(disk[id]) \in Pairs /\ disk[id].gc \in BOOLEAN
  BY <1>1, SnapshotParts
<1> DEFINE s == [st EXCEPT !.gen = watch.gen, !.life = disk[id].life, !.gc = disk[id].gc]
           e == IF st.gc # disk[id].gc THEN None ELSE st.eval
           o == Observed(st, disk[id])
<1>3. s \in FileStates
  BY <1>1, <1>2 DEF FileStates
<1>4. /\ s.gen = watch.gen /\ s.life = disk[id].life /\ s.gc = disk[id].gc /\ s.eval = st.eval
      /\ s.mk = st.mk /\ s.uploaded = st.uploaded /\ s.pend = st.pend /\ s.pendLoaded = st.pendLoaded
      /\ s.failed = st.failed /\ s.fails = st.fails /\ s.loaded = st.loaded
  BY <1>1, <1>2 DEF FileStates
<1>5. o = [s EXCEPT !.eval = e, !.stat = Stat(disk[id])]
  BY <1>4 DEF Observed
<1>6. e \in Evals \cup {None}
  BY DEF FileStates
<1> HIDE DEF s, e
<1>7. o \in FileStates
  BY <1>2, <1>3, <1>5, <1>6 DEF FileStates
<1>8. /\ o.gen = s.gen /\ o.life = s.life /\ o.gc = s.gc /\ o.eval = e /\ o.stat = Stat(disk[id])
      /\ o.mk = s.mk /\ o.uploaded = s.uploaded /\ o.pend = s.pend /\ o.pendLoaded = s.pendLoaded
      /\ o.failed = s.failed /\ o.fails = s.fails /\ o.loaded = s.loaded
  BY <1>2, <1>3, <1>5, <1>6 DEF FileStates
<1> QED
  BY <1>4, <1>7, <1>8 DEF e

LEMMA WatcherTypes ==
  ASSUME TypeOK, Watcher
  PROVE  TypeOK'
<1>0. watch \in Watchers /\ latest \in Policies
  BY DEF TypeOK
<1>1. CASE RebuildWatcher
  <2>1. watch' \in Watchers
    BY <1>0, <1>1, Constants DEF RebuildWatcher, Watchers, Policies
  <2>2. files' \in [Ids -> FileStates \cup {None}]
    BY <1>1 DEF RebuildWatcher
  <2> QED
    BY <1>1, <2>1, <2>2 DEF RebuildWatcher, TypeOK, durable, outside
<1>2. ASSUME NEW id \in Ids, observe(id)
      PROVE  TypeOK'
  <2>1. disk[id] \in Snapshots /\ disk[id].life \in Lives /\ disk[id].life \in 0..MaxLife /\ watch.gen \in Gens
    BY <1>0, SnapshotParts DEF TypeOK, Watchers
  <2>2. watch' \in Watchers
    <3>1. watch' = [watch EXCEPT !.at = id, !.life = [watch.life EXCEPT ![id] = disk[id].life]]
      BY <1>2 DEF observe
    <3>2. [watch.life EXCEPT ![id] = disk[id].life] \in [Ids -> 0..MaxLife]
      BY <1>0, <2>1 DEF Watchers
    <3> QED
      BY <1>0, <3>1, <3>2 DEF Watchers
  <2>3. files' \in [Ids -> FileStates \cup {None}]
    <3>1. contentState(watch.gen, disk[id]) \in FileStates
      BY <2>1, FreshTyped
    <3>2. files[id] # None => Observed(files[id], disk[id]) \in FileStates
      BY ObservedIs DEF TypeOK
    <3> QED
      BY <1>2, <3>1, <3>2 DEF observe, TypeOK
  <2>4. budget' \in Budgets
    BY <1>2, BudgetTyped DEF observe
  <2> QED
    BY <1>2, <2>2, <2>3, <2>4 DEF observe, TypeOK, durable, outside
<1>3. ASSUME NEW id \in Ids, Deliver(id)
      PROVE  TypeOK'
  <2>1. disk[id].life \in 0..MaxLife /\ Bytes(disk[id]) \in Pairs
    BY SnapshotParts DEF TypeOK
  <2>2. watch' \in Watchers
    BY <1>0, <1>3 DEF Deliver, Watchers
  <2>3. session' \in [Ids -> 0..MaxLife] /\ parsed' \in [Ids -> Pairs]
    BY <1>3, <2>1 DEF Deliver, TypeOK
  <2>4. budget' \in Budgets
    BY <1>3, BudgetTyped DEF Deliver, TypeOK
  <2> QED
    BY <1>3, <2>2, <2>3, <2>4 DEF Deliver, TypeOK, outside
<1>4. ASSUME NEW id \in Ids, ForgetContent(id)
      PROVE  TypeOK'
  <2>1. watch' \in Watchers
    <3>1. watch' = [watch EXCEPT !.life = [watch.life EXCEPT ![id] = 0]]
      BY <1>4 DEF ForgetContent
    <3>2. [watch.life EXCEPT ![id] = 0] \in [Ids -> 0..MaxLife]
      BY <1>0, Constants DEF Watchers
    <3> QED
      BY <1>0, <3>1, <3>2 DEF Watchers
  <2>2. parsed' \in [Ids -> Pairs]
    BY <1>4 DEF ForgetContent, TypeOK, Pairs
  <2>3. CASE ~watch.obs
    BY <1>4, <2>1, <2>2, <2>3 DEF ForgetContent, TypeOK, outside
  <2>4. CASE watch.obs
    <3>1. /\ files' \in [Ids -> FileStates \cup {None}] /\ marker' \in [Ids -> Markers \cup {None}]
          /\ pending' \in [Ids -> Records \cup {None}]
      BY <1>4, <2>4 DEF ForgetContent, TypeOK
    <3>2. session' \in [Ids -> 0..MaxLife]
      BY <1>4, <2>4, Constants DEF ForgetContent, TypeOK
    <3> QED
      BY <1>4, <2>1, <2>2, <3>1, <3>2 DEF ForgetContent, TypeOK, outside
  <2> QED
    BY <2>3, <2>4
<1> QED
  BY <1>1, <1>2, <1>3, <1>4 DEF Watcher


\* The job in hand, the snapshot read for it and the transcript it is about.
LEMMA JobInHand ==
  ASSUME TypeOK, tick.pc \in {"look", "reg", "fly", "out", "persist", "drop"}
  PROVE  /\ tick.job \in JobSet /\ tick.job # None /\ tick.job.id \in Ids /\ tick.job.gen \in Gens
         /\ tick.job.life \in Lives /\ tick.job.native \in Lives /\ tick.job.gc \in BOOLEAN
         /\ tick.snap \in Snapshots /\ Stat(tick.snap) \in Pairs /\ Bytes(tick.snap) \in Pairs
         /\ files[tick.job.id] \in FileStates \cup {None}
<1>1. tick.job # None
  BY DEF TypeOK
<1>2. tick.job \in JobSet
  BY <1>1 DEF TypeOK, Ticks
<1>3. tick.snap \in Snapshots
  BY DEF TypeOK, Ticks
<1>4. Stat(tick.snap) \in Pairs /\ Bytes(tick.snap) \in Pairs
  BY <1>3, SnapshotParts
<1>5. tick.job.id \in Ids
  BY <1>2 DEF JobSet
<1> QED
  BY <1>1, <1>2, <1>3, <1>4, <1>5 DEF JobSet, TypeOK

\* What a transcript's state becomes after an answer that settles its snapshot.
LEMMA SettledIs ==
  ASSUME TypeOK, tick.pc = "out", NEW st \in FileStates, NEW up \in BOOLEAN
  PROVE  LET s == Settled(st, up)
         IN  /\ s \in FileStates /\ s.gen = st.gen /\ s.life = st.life /\ s.stat = st.stat /\ s.gc = st.gc
             /\ s.pend = st.pend /\ s.pendLoaded = st.pendLoaded /\ s.failed = st.failed /\ s.fails = st.fails
             /\ s.uploaded = up /\ s.eval = <<Stat(tick.snap), tick.job.gc>>
             /\ s.mk \in Markers /\ s.mk.bytes = Bytes(tick.snap) /\ s.mk.stat = Stat(tick.snap)
             /\ s.mk.native = tick.job.native /\ ~s.mk.old
<1> DEFINE m == contentMarker(Bytes(tick.snap), Stat(tick.snap), tick.job.native, tick.job.gc, st.refused, FALSE)
           g == [st EXCEPT !.mk = m, !.uploaded = up]
           s == Settled(st, up)
<1>1. /\ tick.job.native \in Lives /\ tick.job.gc \in BOOLEAN
      /\ Stat(tick.snap) \in Pairs /\ Bytes(tick.snap) \in Pairs
  BY JobInHand
<1>2. /\ m \in Markers /\ m.bytes = Bytes(tick.snap) /\ m.stat = Stat(tick.snap)
      /\ m.native = tick.job.native /\ ~m.old
  <2>1. st.refused \in BOOLEAN
    BY DEF FileStates
  <2>2. PICK o \in BOOLEAN : o = FALSE
    OBVIOUS
  <2>3. /\ contentMarker(Bytes(tick.snap), Stat(tick.snap), tick.job.native, tick.job.gc, st.refused, o) \in Markers
        /\ contentMarker(Bytes(tick.snap), Stat(tick.snap), tick.job.native, tick.job.gc, st.refused, o).bytes = Bytes(tick.snap)
        /\ contentMarker(Bytes(tick.snap), Stat(tick.snap), tick.job.native, tick.job.gc, st.refused, o).stat = Stat(tick.snap)
        /\ contentMarker(Bytes(tick.snap), Stat(tick.snap), tick.job.native, tick.job.gc, st.refused, o).native = tick.job.native
        /\ contentMarker(Bytes(tick.snap), Stat(tick.snap), tick.job.native, tick.job.gc, st.refused, o).old = o
    BY <1>1, <2>1, MarkerTyped
  <2>4. m = contentMarker(Bytes(tick.snap), Stat(tick.snap), tick.job.native, tick.job.gc, st.refused, o)
    BY <2>2, Zenon
  <2> QED
    BY <2>2, <2>3, <2>4, Zenon
<1>3. s = markEvaluated(g, Stat(tick.snap), tick.job.gc)
  BY DEF Settled
<1> HIDE DEF m
<1>4. g \in FileStates
  BY <1>2 DEF FileStates
<1>5. /\ g.gen = st.gen /\ g.life = st.life /\ g.stat = st.stat /\ g.gc = st.gc
      /\ g.pend = st.pend /\ g.pendLoaded = st.pendLoaded /\ g.failed = st.failed /\ g.fails = st.fails
      /\ g.uploaded = up /\ g.mk = m
  BY <1>2 DEF FileStates
<1> HIDE DEF g
<1> HIDE DEF s
<1>6. s \in FileStates /\ s = [g EXCEPT !.eval = <<Stat(tick.snap), tick.job.gc>>]
  BY <1>1, <1>3, <1>4, MarkTyped, Zenon
<1>7. /\ s.gen = g.gen /\ s.life = g.life /\ s.stat = g.stat /\ s.gc = g.gc
      /\ s.pend = g.pend /\ s.pendLoaded = g.pendLoaded /\ s.failed = g.failed /\ s.fails = g.fails
      /\ s.uploaded = g.uploaded /\ s.mk = g.mk /\ s.eval = <<Stat(tick.snap), tick.job.gc>>
  BY <1>4, <1>6 DEF FileStates
<1> QED
  BY <1>2, <1>5, <1>6, <1>7 DEF s

LEMMA AcceptedIs ==
  ASSUME TypeOK, tick.pc = "out", NEW st \in FileStates
  PROVE  LET a == acceptedSnapshot(st)
         IN  /\ a \in FileStates /\ a.gen = st.gen /\ a.life = st.life /\ a.stat = st.stat /\ a.gc = st.gc
             /\ a.pend = None /\ a.pendLoaded = st.pendLoaded /\ a.failed = st.failed /\ a.fails = 0
             /\ a.uploaded /\ a.eval = <<Stat(tick.snap), tick.job.gc>>
             /\ a.mk \in Markers /\ a.mk.bytes = Bytes(tick.snap) /\ a.mk.stat = Stat(tick.snap)
             /\ a.mk.native = tick.job.native /\ ~a.mk.old
<1> DEFINE s == Settled(st, TRUE)
           a == acceptedSnapshot(st)
<1>1. /\ s \in FileStates /\ s.gen = st.gen /\ s.life = st.life /\ s.stat = st.stat /\ s.gc = st.gc
      /\ s.pendLoaded = st.pendLoaded /\ s.failed = st.failed
      /\ s.uploaded /\ s.eval = <<Stat(tick.snap), tick.job.gc>>
      /\ s.mk \in Markers /\ s.mk.bytes = Bytes(tick.snap) /\ s.mk.stat = Stat(tick.snap)
      /\ s.mk.native = tick.job.native /\ ~s.mk.old
  BY SettledIs
<1>2. a = [s EXCEPT !.loaded = TRUE, !.pend = None, !.fails = 0]
  BY DEF acceptedSnapshot
<1> HIDE DEF s, a
<1>2a. PICK o \in BOOLEAN : a = [s EXCEPT !.loaded = o, !.pend = None, !.fails = 0]
  BY <1>2
<1>3. a \in FileStates
  BY <1>1, <1>2a DEF FileStates
<1>4. /\ a.gen = s.gen /\ a.life = s.life /\ a.stat = s.stat /\ a.gc = s.gc
      /\ a.pend = None /\ a.pendLoaded = s.pendLoaded /\ a.failed = s.failed /\ a.fails = 0
      /\ a.uploaded = s.uploaded /\ a.mk = s.mk /\ a.eval = s.eval
  BY <1>1, <1>2a DEF FileStates
<1> QED
  BY <1>1, <1>3, <1>4 DEF a

LEMMA FailureIs ==
  ASSUME TypeOK, tick.pc = "out", NEW st \in FileStates
  PROVE  LET r == recordPostFailure(st)
         IN  /\ r \in FileStates /\ r.gen = st.gen /\ r.life = st.life /\ r.stat = st.stat /\ r.gc = st.gc
             /\ r.pend = st.pend /\ r.pendLoaded = st.pendLoaded /\ r.uploaded = st.uploaded /\ r.mk = st.mk
             /\ r.failed = Stat(tick.snap)
             /\ r.fails = (IF st.failed = Stat(tick.snap) THEN st.fails + 1 ELSE 1)
             /\ r.eval = (IF r.fails = MaxAttempts THEN <<Stat(tick.snap), tick.job.gc>> ELSE st.eval)
<1> DEFINE n == IF st.failed = Stat(tick.snap) THEN st.fails + 1 ELSE 1
           s == [st EXCEPT !.failed = Stat(tick.snap), !.fails = n]
           r == recordPostFailure(st)
<1>1. Stat(tick.snap) \in Pairs /\ tick.job.gc \in BOOLEAN
  BY JobInHand
<1>2. n \in Nat
  BY DEF FileStates
<1>3. r = IF n = MaxAttempts THEN markEvaluated(s, Stat(tick.snap), tick.job.gc) ELSE s
  BY DEF recordPostFailure
<1> HIDE DEF n
<1>4. s \in FileStates
  BY <1>1, <1>2 DEF FileStates
<1>5. /\ s.gen = st.gen /\ s.life = st.life /\ s.stat = st.stat /\ s.gc = st.gc /\ s.eval = st.eval
      /\ s.pend = st.pend /\ s.pendLoaded = st.pendLoaded /\ s.failed = Stat(tick.snap) /\ s.fails = n
      /\ s.uploaded = st.uploaded /\ s.mk = st.mk
  BY <1>1, <1>2 DEF FileStates
<1> HIDE DEF s
<1>6. CASE n = MaxAttempts
  <2>1. r \in FileStates /\ r = [s EXCEPT !.eval = <<Stat(tick.snap), tick.job.gc>>]
    BY <1>1, <1>3, <1>4, <1>6, MarkTyped
  <2>2. /\ r.gen = s.gen /\ r.life = s.life /\ r.stat = s.stat /\ r.gc = s.gc
        /\ r.pend = s.pend /\ r.pendLoaded = s.pendLoaded /\ r.failed = s.failed /\ r.fails = s.fails
        /\ r.uploaded = s.uploaded /\ r.mk = s.mk /\ r.eval = <<Stat(tick.snap), tick.job.gc>>
    BY <1>4, <2>1 DEF FileStates
  <2> QED
    BY <1>5, <1>6, <2>1, <2>2 DEF n
<1>7. CASE n # MaxAttempts
  <2>1. r = s
    BY <1>3, <1>7
  <2> QED
    BY <1>4, <1>5, <1>7, <2>1 DEF n
<1> QED
  BY <1>6, <1>7

\* A step that leaves everything but the loop, the transcripts and the queue as it was.
LEMMA LoopStepTypes ==
  ASSUME TypeOK, Still, tick' \in Ticks, files' \in [Ids -> FileStates \cup {None}],
         pending' \in [Ids -> Records \cup {None}], marker' \in [Ids -> Markers \cup {None}],
         hold' \in BOOLEAN, refusal' \in Refusals \cup {None}, parsed' = parsed, tool' = tool, journal' = journal,
         store' \subseteq Lives \X Pairs \X {"before", "after"}, judged' \subseteq Results \X Pairs, budget' \in Budgets,
         tick'.pc \in {"look", "reg", "fly", "out"} => tick'.job # None /\ tick'.snap.len \in 1..MaxBytes,
         tick'.pc \in {"persist", "drop"} => tick'.job # None,
         tick'.pc = "out" <=> tick'.res # None
  PROVE  TypeOK'
BY DEF TypeOK, Still


LEMMA PlanTypes ==
  ASSUME TypeOK, NEW stable \in SUBSET Ids, TickPlan(stable)
  PROVE  TypeOK'
<1> DEFINE fs == [id \in Ids |-> PlannedState(id)]
<1>1. fs \in [Ids -> FileStates \cup {None}]
  BY PlanTyped
<1>2. files' = fs /\ tick' = [tick EXCEPT !.pc = "save", !.saves = Saves(fs), !.jobs = Jobs(fs, stable)]
  BY DEF TickPlan
<1> HIDE DEF fs
<1>3. Saves(fs) \in SUBSET SaveSet
  BY <1>1, SavesAre
<1>4. Jobs(fs, stable) \in SUBSET JobSet
  BY <1>1, JobsAre
<1>5. tick \in Ticks /\ tick.pc = "idle" /\ tick.res = None
  BY DEF TypeOK, TickPlan
<1>6. tick' \in Ticks /\ tick'.pc = "save" /\ tick'.res = None
  BY <1>2, <1>3, <1>4, <1>5 DEF Ticks
<1> QED
  BY <1>1, <1>2, <1>6, LoopStepTypes DEF TickPlan, TypeOK, durable, outside

LEMMA SaveTypes ==
  ASSUME TypeOK, savePendingRecord
  PROVE  TypeOK'
<1>1. PICK s \in tick.saves :
        /\ tick.pc = "save" /\ tick' = [tick EXCEPT !.saves = @ \ {s}]
        /\ \/ /\ pendingCurrent(s)
              /\ pending' = [pending EXCEPT ![s.id] = s.rec]
              /\ files' = [files EXCEPT ![s.id] = IF @ = None THEN None ELSE [@ EXCEPT !.pend = s.rec]]
              /\ UNCHANGED budget
           \/ ~pendingCurrent(s) /\ UNCHANGED <<pending, files, budget>>
           \/ pendingCurrent(s) /\ Fault /\ UNCHANGED <<pending, files>>
  BY DEF savePendingRecord
<1>2. s \in SaveSet /\ s.id \in Ids /\ s.rec \in Records
  BY DEF TypeOK, Ticks, SaveSet
<1>3. tick' \in Ticks /\ tick'.pc = "save" /\ tick'.res = tick.res
  BY <1>1 DEF TypeOK, Ticks
<1>4. budget' \in Budgets
  BY <1>1, BudgetTyped DEF TypeOK
<1>5. pending' \in [Ids -> Records \cup {None}]
  BY <1>1, <1>2 DEF TypeOK
<1>6. files' \in [Ids -> FileStates \cup {None}]
  <2>1. ASSUME NEW st \in FileStates
        PROVE  [st EXCEPT !.pend = s.rec] \in FileStates
    BY <1>2 DEF FileStates
  <2> QED
    BY <1>1, <1>2, <2>1 DEF TypeOK
<1> QED
  BY <1>1, <1>3, <1>4, <1>5, <1>6, LoopStepTypes DEF savePendingRecord, TypeOK, outside

LEMMA GateTypes ==
  ASSUME TypeOK, TickGate
  PROVE  TypeOK'
<1>1. tick' \in Ticks /\ tick'.pc \in {"idle", "job"} /\ tick'.res = None
  <2>1. tick \in Ticks /\ tick.res = None
    BY DEF TypeOK, TickGate
  <2>2. CASE tick' = NoTick
    BY <2>2, LoopTyped DEF NoTick
  <2>3. CASE tick' = [tick EXCEPT !.pc = "job"]
    BY <2>1, <2>3 DEF Ticks
  <2> QED
    BY <2>2, <2>3 DEF TickGate
<1> QED
  BY <1>1, LoopStepTypes DEF TickGate, TypeOK, durable, outside

\* One job is taken: nothing happens, or it is found too large, or it is read.
LEMMA JobTaken ==
  ASSUME TypeOK, TickJob
  PROVE  \E j \in tick.jobs :
           /\ j \in JobSet /\ j.id \in Ids /\ refreshed
           /\ \/ /\ tick' = NoTick \/ tick' = [Owed EXCEPT !.jobs = @ \ {j}]
                 /\ UNCHANGED <<files, pending>>
              \/ /\ allowed(j.gen) /\ files[j.id] # None /\ disk[j.id].life = j.life /\ disk[j.id].len > MaxBytes
                 /\ files' = [files EXCEPT ![j.id] = [markEvaluated(files[j.id], Stat(disk[j.id]), j.gc) EXCEPT !.pend = None]]
                 /\ pending' = [pending EXCEPT ![j.id] = None]
                 /\ tick' = [Owed EXCEPT !.jobs = @ \ {j}]
              \/ /\ allowed(j.gen) /\ files[j.id] # None /\ disk[j.id].life = j.life
                 /\ disk[j.id].len > 0 /\ ~(disk[j.id].len > MaxBytes)
                 /\ tick' = [tick EXCEPT !.jobs = @ \ {j}, !.job = j, !.pc = "look", !.snap = disk[j.id]]
                 /\ UNCHANGED <<files, pending>>
<1>1. PICK j \in tick.jobs :
        /\ tick.pc = "job" /\ refreshed /\ NextJob(j)
        /\ \/ postingHeld /\ tick' = NoTick /\ UNCHANGED <<files, pending>>
           \/ /\ ~postingHeld
              /\ ~allowed(j.gen) \/ files[j.id] = None \/ disk[j.id].len = 0 \/ disk[j.id].life # j.life
              /\ tick' = [Owed EXCEPT !.jobs = @ \ {j}]
              /\ UNCHANGED <<files, pending>>
           \/ /\ ~postingHeld /\ allowed(j.gen) /\ files[j.id] # None /\ disk[j.id].life = j.life
              /\ tooLarge(disk[j.id])
              /\ files' = [files EXCEPT ![j.id] = [markEvaluated(@, Stat(disk[j.id]), j.gc) EXCEPT !.pend = None]]
              /\ pending' = [pending EXCEPT ![j.id] = None]
              /\ tick' = [Owed EXCEPT !.jobs = @ \ {j}]
           \/ /\ ~postingHeld /\ allowed(j.gen) /\ files[j.id] # None /\ disk[j.id].life = j.life
              /\ disk[j.id].len > 0 /\ ~tooLarge(disk[j.id])
              /\ tick' = [[tick EXCEPT !.jobs = @ \ {j}, !.job = j] EXCEPT !.pc = "look", !.snap = disk[j.id]]
              /\ UNCHANGED <<files, pending>>
  BY DEF TickJob
<1>2. j \in JobSet /\ j.id \in Ids
  BY DEF TypeOK, Ticks, JobSet
<1>3. CASE tick' = [[tick EXCEPT !.jobs = @ \ {j}, !.job = j] EXCEPT !.pc = "look", !.snap = disk[j.id]]
  BY <1>1, <1>2, <1>3 DEF tooLarge, TypeOK, Ticks
<1>4. CASE files' = [files EXCEPT ![j.id] = [markEvaluated(@, Stat(disk[j.id]), j.gc) EXCEPT !.pend = None]]
  BY <1>1, <1>2, <1>4 DEF tooLarge, TypeOK
<1> QED
  BY <1>1, <1>2, <1>3, <1>4

LEMMA JobTypes ==
  ASSUME TypeOK, TickJob
  PROVE  TypeOK'
<1>0. tick \in Ticks /\ tick.res = None /\ tick.pc = "job"
  BY DEF TypeOK, TickJob
<1>1. PICK j \in tick.jobs :
           /\ j \in JobSet /\ j.id \in Ids
           /\ \/ /\ tick' = NoTick \/ tick' = [Owed EXCEPT !.jobs = @ \ {j}]
                 /\ UNCHANGED <<files, pending>>
              \/ /\ files[j.id] # None
                 /\ files' = [files EXCEPT ![j.id] = [markEvaluated(files[j.id], Stat(disk[j.id]), j.gc) EXCEPT !.pend = None]]
                 /\ pending' = [pending EXCEPT ![j.id] = None]
                 /\ tick' = [Owed EXCEPT !.jobs = @ \ {j}]
              \/ /\ disk[j.id].len > 0 /\ ~(disk[j.id].len > MaxBytes)
                 /\ tick' = [tick EXCEPT !.jobs = @ \ {j}, !.job = j, !.pc = "look", !.snap = disk[j.id]]
                 /\ UNCHANGED <<files, pending>>
  BY JobTaken
<1>2. /\ Still /\ UNCHANGED <<hold, refusal, marker, parsed, outside, budget>>
  BY DEF TickJob
<1>3. disk[j.id] \in Snapshots /\ Stat(disk[j.id]) \in Pairs /\ j.gc \in BOOLEAN /\ disk[j.id].len \in Nat
  BY <1>1, SnapshotParts DEF TypeOK, JobSet
<1>4. ASSUME tick' = [Owed EXCEPT !.jobs = @ \ {j}]
      PROVE  tick' \in Ticks /\ tick'.pc = "owed" /\ tick'.res = None
  BY <1>4, LoopTyped DEF Ticks
<1>5. ASSUME tick' = NoTick
      PROVE  tick' \in Ticks /\ tick'.pc = "idle" /\ tick'.res = None
  BY <1>5, LoopTyped DEF NoTick
<1>6. CASE (tick' = NoTick \/ tick' = [Owed EXCEPT !.jobs = @ \ {j}]) /\ UNCHANGED <<files, pending>>
  BY <1>2, <1>4, <1>5, <1>6, LoopStepTypes DEF TypeOK, outside
<1>7. CASE /\ files[j.id] # None
           /\ files' = [files EXCEPT ![j.id] = [markEvaluated(files[j.id], Stat(disk[j.id]), j.gc) EXCEPT !.pend = None]]
           /\ pending' = [pending EXCEPT ![j.id] = None]
           /\ tick' = [Owed EXCEPT !.jobs = @ \ {j}]
  <2>1. files[j.id] \in FileStates
    BY <1>1, <1>7 DEF TypeOK
  <2>2. markEvaluated(files[j.id], Stat(disk[j.id]), j.gc) \in FileStates
    BY <1>3, <2>1, MarkTyped
  <2>3. [markEvaluated(files[j.id], Stat(disk[j.id]), j.gc) EXCEPT !.pend = None] \in FileStates
    BY <2>2 DEF FileStates
  <2>4. files' \in [Ids -> FileStates \cup {None}]
    BY <1>7, <2>3 DEF TypeOK
  <2>5. pending' \in [Ids -> Records \cup {None}]
    BY <1>7 DEF TypeOK
  <2> QED
    BY <1>2, <1>4, <1>7, <2>4, <2>5, LoopStepTypes DEF TypeOK, outside
<1>8. CASE /\ disk[j.id].len > 0 /\ ~(disk[j.id].len > MaxBytes)
           /\ tick' = [tick EXCEPT !.jobs = @ \ {j}, !.job = j, !.pc = "look", !.snap = disk[j.id]]
           /\ UNCHANGED <<files, pending>>
  <2>1. /\ tick' \in Ticks /\ tick'.pc = "look" /\ tick'.res = None /\ tick'.job = j /\ tick'.snap = disk[j.id]
    BY <1>0, <1>1, <1>3, <1>8 DEF Ticks
  <2>2. disk[j.id].len \in 1..MaxBytes
    BY <1>3, <1>8, Constants
  <2>3. j # None
    BY <1>1, NoneApart
  <2> QED
    BY <1>2, <1>8, <2>1, <2>2, <2>3, LoopStepTypes DEF TypeOK, outside
<1> QED
  BY <1>1, <1>6, <1>7, <1>8


\* What processOne remembers of bytes it has seen before: the marker is re-dated, nothing is owed.
seenState(st) ==
  markEvaluated([st EXCEPT !.pend = None, !.mk = IF st.uploaded
                   THEN [@ EXCEPT !.stat = Stat(tick.snap), !.native = tick.job.native]
                   ELSE @], Stat(tick.snap), tick.job.gc)

LEMMA SeenIs ==
  ASSUME TypeOK, tick.pc = "look", NEW st \in FileStates, sameSnapshot(st)
  PROVE  LET s == seenState(st)
         IN  /\ s \in FileStates /\ s.gen = st.gen /\ s.life = st.life /\ s.stat = st.stat /\ s.gc = st.gc
             /\ s.pend = None /\ s.pendLoaded = st.pendLoaded /\ s.failed = st.failed /\ s.fails = st.fails
             /\ s.uploaded = st.uploaded /\ s.eval = <<Stat(tick.snap), tick.job.gc>>
             /\ st.mk \in Markers /\ s.mk \in Markers /\ s.mk.bytes = st.mk.bytes
             /\ st.mk.bytes = Bytes(tick.snap)
             /\ st.uploaded => s.mk.stat = Stat(tick.snap) /\ s.mk.native = tick.job.native
             /\ ~st.uploaded => s.mk = st.mk
             /\ [s.mk EXCEPT !.old = FALSE] \in Markers
             /\ [s.mk EXCEPT !.old = FALSE].bytes = s.mk.bytes
             /\ [s.mk EXCEPT !.old = FALSE].stat = s.mk.stat
             /\ [s.mk EXCEPT !.old = FALSE].native = s.mk.native
             /\ ~[s.mk EXCEPT !.old = FALSE].old
<1> DEFINE m == IF st.uploaded THEN [st.mk EXCEPT !.stat = Stat(tick.snap), !.native = tick.job.native] ELSE st.mk
           g == [st EXCEPT !.pend = None, !.mk = m]
           s == seenState(st)
<1>1. st.mk \in Markers /\ st.mk.bytes = Bytes(tick.snap)
  BY DEF sameSnapshot, FileStates
<1>2. /\ tick.job.native \in Lives /\ tick.job.gc \in BOOLEAN /\ Stat(tick.snap) \in Pairs
  BY JobInHand
<1>3. /\ m \in Markers /\ m.bytes = st.mk.bytes
      /\ st.uploaded => m.stat = Stat(tick.snap) /\ m.native = tick.job.native
      /\ ~st.uploaded => m = st.mk
  BY <1>1, <1>2 DEF Markers
<1>4. s = markEvaluated(g, Stat(tick.snap), tick.job.gc)
  BY DEF seenState
<1> HIDE DEF m
<1>5. g \in FileStates
  BY <1>3 DEF FileStates
<1>6. /\ g.gen = st.gen /\ g.life = st.life /\ g.stat = st.stat /\ g.gc = st.gc
      /\ g.pend = None /\ g.pendLoaded = st.pendLoaded /\ g.failed = st.failed /\ g.fails = st.fails
      /\ g.uploaded = st.uploaded /\ g.mk = m
  BY <1>3 DEF FileStates
<1> HIDE DEF g, s
<1>7. s \in FileStates /\ s = [g EXCEPT !.eval = <<Stat(tick.snap), tick.job.gc>>]
  BY <1>2, <1>4, <1>5, MarkTyped, Zenon
<1>8. /\ s.gen = g.gen /\ s.life = g.life /\ s.stat = g.stat /\ s.gc = g.gc
      /\ s.pend = g.pend /\ s.pendLoaded = g.pendLoaded /\ s.failed = g.failed /\ s.fails = g.fails
      /\ s.uploaded = g.uploaded /\ s.mk = g.mk /\ s.eval = <<Stat(tick.snap), tick.job.gc>>
  BY <1>5, <1>7 DEF FileStates
<1>9. LET n == [s.mk EXCEPT !.old = FALSE]
      IN  n \in Markers /\ n.bytes = s.mk.bytes /\ n.stat = s.mk.stat /\ n.native = s.mk.native /\ ~n.old
  <2>1. s.mk \in Markers
    BY <1>3, <1>6, <1>8
  <2>2. PICK o \in BOOLEAN : o = FALSE
    OBVIOUS
  <2> DEFINE n == [s.mk EXCEPT !.old = o]
  <2>3. n \in Markers /\ n.bytes = s.mk.bytes /\ n.stat = s.mk.stat /\ n.native = s.mk.native /\ n.old = o
    BY <2>1 DEF Markers
  <2>4. n = [s.mk EXCEPT !.old = FALSE]
    BY <2>2, Zenon
  <2> HIDE DEF n
  <2>5. ~n.old
    BY <2>2, <2>3, Zenon
  <2> QED
    BY <2>3, <2>4, <2>5
<1> QED
  BY <1>1, <1>3, <1>6, <1>7, <1>8, <1>9 DEF s

\* processOne's three ways, with the names above.
LEMMA ProcessIs ==
  ASSUME TypeOK, processOne
  PROVE  LET id == tick.job.id
             st == files[id]
         IN  /\ tick.pc = "look"
             /\ \/ st = None /\ tick' = Owed /\ files' = files
                \/ /\ st # None /\ sameSnapshot(st) /\ files' = [files EXCEPT ![id] = seenState(st)]
                   /\ tick' = [After("persist") EXCEPT
                                  !.rec = IF st.uploaded THEN [seenState(st).mk EXCEPT !.old = FALSE] ELSE None,
                                  !.next = IF st.pend # None THEN "drop" ELSE "owed"]
                \/ /\ st # None /\ ~sameSnapshot(st) /\ files' = files
                   /\ tick' = [tick EXCEPT !.pc = "reg", !.gc = tick.job.gc /\ ~st.refused]
             /\ Still /\ UNCHANGED <<hold, refusal, durable, outside, budget>>
BY DEF processOne, seenState

LEMMA ProcessTypes ==
  ASSUME TypeOK, processOne
  PROVE  TypeOK'
<1> DEFINE id == tick.job.id
           st == files[id]
<1>1. /\ tick.pc = "look" /\ Still /\ UNCHANGED <<hold, refusal, durable, outside, budget>>
  BY DEF processOne
<1>2. id \in Ids /\ st \in FileStates \cup {None} /\ tick.job # None
  BY <1>1, JobInHand
<1>3. tick \in Ticks /\ tick.res = None /\ tick.snap.len \in 1..MaxBytes
  BY <1>1 DEF TypeOK
<1>4. CASE st = None /\ tick' = Owed /\ files' = files
  BY <1>1, <1>4, LoopTyped, LoopStepTypes DEF TypeOK, durable, outside
<1>5. CASE /\ st # None /\ sameSnapshot(st) /\ files' = [files EXCEPT ![id] = seenState(st)]
           /\ tick' = [After("persist") EXCEPT
                          !.rec = IF st.uploaded THEN [seenState(st).mk EXCEPT !.old = FALSE] ELSE None,
                          !.next = IF st.pend # None THEN "drop" ELSE "owed"]
  <2>1. seenState(st) \in FileStates /\ [seenState(st).mk EXCEPT !.old = FALSE] \in Markers
    BY <1>1, <1>2, <1>5, SeenIs
  <2>2. PICK r \in Markers \cup {None}, n \in {"drop", "owed"} : tick' = [After("persist") EXCEPT !.rec = r, !.next = n]
    BY <1>5, <2>1
  <2>3. /\ After("persist") \in Ticks /\ After("persist").pc = "persist" /\ After("persist").job = tick.job
        /\ After("persist").res = None
    BY LoopTyped
  <2>4. tick' \in Ticks /\ tick'.pc = "persist" /\ tick'.job = tick.job /\ tick'.res = None
    BY <2>2, <2>3 DEF Ticks
  <2>5. files' \in [Ids -> FileStates \cup {None}]
    BY <1>2, <1>5, <2>1 DEF TypeOK
  <2> QED
    BY <1>1, <1>2, <2>4, <2>5, LoopStepTypes DEF TypeOK, durable, outside
<1>6. CASE /\ st # None /\ ~sameSnapshot(st) /\ files' = files
           /\ tick' = [tick EXCEPT !.pc = "reg", !.gc = tick.job.gc /\ ~st.refused]
  <2>1. PICK g \in BOOLEAN : tick' = [tick EXCEPT !.pc = "reg", !.gc = g]
    <3> DEFINE g == tick.job.gc /\ ~st.refused
    <3>1. g \in BOOLEAN /\ tick' = [tick EXCEPT !.pc = "reg", !.gc = g]
      BY <1>6
    <3> QED
      BY <3>1
  <2>2. tick' \in Ticks /\ tick'.pc = "reg" /\ tick'.job = tick.job /\ tick'.res = None /\ tick'.snap = tick.snap
    BY <1>3, <2>1 DEF Ticks
  <2> QED
    BY <1>1, <1>2, <1>3, <1>6, <2>2, LoopStepTypes DEF TypeOK, durable, outside
<1> QED
  BY <1>4, <1>5, <1>6, ProcessIs

LEMMA RegisterTypes ==
  ASSUME TypeOK, RegisterFlight
  PROVE  TypeOK'
<1>1. tick.pc = "reg" /\ Still /\ UNCHANGED <<hold, refusal, durable, outside, budget>>
  BY DEF RegisterFlight
<1>2. tick.job.id \in Ids /\ tick.job # None /\ tick \in Ticks /\ tick.res = None /\ tick.snap.len \in 1..MaxBytes
  BY <1>1, JobInHand DEF TypeOK
<1>3. CASE files' = [files EXCEPT ![tick.job.id] = None] /\ tick' = Owed
  <2>1. files' \in [Ids -> FileStates \cup {None}]
    BY <1>2, <1>3 DEF TypeOK
  <2> QED
    BY <1>1, <1>3, <2>1, LoopTyped, LoopStepTypes DEF TypeOK, durable, outside
<1>4. CASE tick' = [tick EXCEPT !.pc = "fly", !.withdrawn = FALSE, !.tok = token] /\ files' = files
  <2>1. PICK w \in BOOLEAN : tick' = [tick EXCEPT !.pc = "fly", !.withdrawn = w, !.tok = token]
    BY <1>4
  <2>2. tick' \in Ticks /\ tick'.pc = "fly" /\ tick'.job = tick.job /\ tick'.res = None /\ tick'.snap = tick.snap
    BY <1>2, <2>1 DEF Ticks, TypeOK
  <2> QED
    BY <1>1, <1>2, <1>4, <2>2, LoopStepTypes DEF TypeOK, durable, outside
<1> QED
  BY <1>3, <1>4 DEF RegisterFlight

\* What the collector does with a request.
LEMMA AnsweredTyped ==
  ASSUME TypeOK, NEW res, NEW native \in Lives, NEW bytes \in Pairs, Answered(res, native, bytes)
  PROVE  /\ budget' \in Budgets /\ budget'.stale = budget.stale
         /\ store' \subseteq Lives \X Pairs \X {"before", "after"} /\ judged' \subseteq Results \X Pairs
         /\ store' = store \/ store' = store \cup {<<native, bytes, "after">>}
         /\ res = "ok" => store' = store \cup {<<native, bytes, "after">>}
         /\ judged \subseteq judged' /\ store \subseteq store'
         /\ res \in {"reject", "mismatch", "idConflict"} => <<res, bytes>> \in judged'
<1>1. budget' \in Budgets /\ budget'.stale = budget.stale
  BY BudgetTyped DEF Answered, TypeOK
<1>2. store \subseteq Lives \X Pairs \X {"before", "after"} /\ judged \subseteq Results \X Pairs
  BY DEF TypeOK
<1>3. store' = store \/ store' = store \cup {<<native, bytes, "after">>}
  BY DEF Answered
<1>4. <<native, bytes, "after">> \in Lives \X Pairs \X {"before", "after"}
  OBVIOUS
<1>5. res \in {"reject", "mismatch", "idConflict"} => <<res, bytes>> \in Results \X Pairs
  BY DEF Results
<1> QED
  BY <1>1, <1>2, <1>3, <1>4, <1>5 DEF Answered

LEMMA PostTypes ==
  ASSUME TypeOK, PostContent
  PROVE  TypeOK'
<1>1. tick.pc = "fly" /\ Still /\ UNCHANGED <<files, hold, refusal, durable, tool, journal>>
  BY DEF PostContent
<1>2. /\ tick.job.id \in Ids /\ tick.job # None /\ tick \in Ticks /\ tick.snap.len \in 1..MaxBytes
      /\ tick.job.native \in Lives /\ Bytes(tick.snap) \in Pairs
  BY <1>1, JobInHand DEF TypeOK
<1>3. /\ store' \subseteq Lives \X Pairs \X {"before", "after"} /\ judged' \subseteq Results \X Pairs /\ budget' \in Budgets
      /\ \E r \in Results : tick' = [tick EXCEPT !.pc = "out", !.res = r]
  <2>1. ASSUME NEW res \in Answers(tick.gc), Answered(res, tick.job.native, Bytes(tick.snap)),
               tick' = [tick EXCEPT !.pc = "out", !.res = res]
        PROVE  <1>3!:
    <3>1. res \in Results
      BY DEF Answers, Results
    <3> QED
      BY <1>2, <2>1, <3>1, AnsweredTyped
  <2>2. ASSUME tick' = [tick EXCEPT !.pc = "out", !.res = "fail"], UNCHANGED <<store, judged, budget>>
        PROVE  <1>3!:
    BY <2>2 DEF TypeOK, Results
  <2> QED
    BY <2>1, <2>2 DEF PostContent
<1>4. PICK r \in Results : tick' = [tick EXCEPT !.pc = "out", !.res = r]
  BY <1>3
<1>5. tick' \in Ticks /\ tick'.pc = "out" /\ tick'.job = tick.job /\ tick'.res = r /\ tick'.snap = tick.snap
  BY <1>2, <1>4 DEF Ticks
<1>6. r # None
  BY NoneApart
<1> QED
  BY <1>1, <1>2, <1>3, <1>5, <1>6, LoopStepTypes DEF TypeOK, durable


\* A refused binding is remembered with the transcript.
LEMMA RefusedIs ==
  ASSUME NEW st \in FileStates
  PROVE  LET r == [st EXCEPT !.refused = TRUE]
         IN  /\ r \in FileStates /\ r.gen = st.gen /\ r.life = st.life /\ r.stat = st.stat /\ r.gc = st.gc
             /\ r.pend = st.pend /\ r.pendLoaded = st.pendLoaded /\ r.failed = st.failed /\ r.fails = st.fails
             /\ r.uploaded = st.uploaded /\ r.mk = st.mk /\ r.eval = st.eval
<1>1. PICK o \in BOOLEAN : o = TRUE
  OBVIOUS
<1> DEFINE r == [st EXCEPT !.refused = o]
<1>2. /\ r \in FileStates /\ r.gen = st.gen /\ r.life = st.life /\ r.stat = st.stat /\ r.gc = st.gc
      /\ r.pend = st.pend /\ r.pendLoaded = st.pendLoaded /\ r.failed = st.failed /\ r.fails = st.fails
      /\ r.uploaded = st.uploaded /\ r.mk = st.mk /\ r.eval = st.eval
  BY DEF FileStates
<1>3. r = [st EXCEPT !.refused = TRUE]
  BY <1>1, Zenon
<1> HIDE DEF r
<1> QED
  BY <1>2, <1>3

LEMMA RejectedIs ==
  ASSUME TypeOK, tick.pc = "out", NEW st \in FileStates, NEW p \in Records \cup {None}
  PROVE  LET s == [Settled(st, FALSE) EXCEPT !.pend = p]
         IN  /\ s \in FileStates /\ s.gen = st.gen /\ s.life = st.life /\ s.stat = st.stat /\ s.gc = st.gc
             /\ s.pend = p /\ s.pendLoaded = st.pendLoaded /\ s.failed = st.failed /\ s.fails = st.fails
             /\ ~s.uploaded /\ s.eval = <<Stat(tick.snap), tick.job.gc>>
             /\ s.mk \in Markers /\ s.mk.bytes = Bytes(tick.snap) /\ s.mk.stat = Stat(tick.snap)
             /\ s.mk.native = tick.job.native /\ ~s.mk.old
<1> DEFINE g == Settled(st, FALSE)
           s == [g EXCEPT !.pend = p]
<1>1. /\ g \in FileStates /\ g.gen = st.gen /\ g.life = st.life /\ g.stat = st.stat /\ g.gc = st.gc
      /\ g.pendLoaded = st.pendLoaded /\ g.failed = st.failed /\ g.fails = st.fails
      /\ ~g.uploaded /\ g.eval = <<Stat(tick.snap), tick.job.gc>>
      /\ g.mk \in Markers /\ g.mk.bytes = Bytes(tick.snap) /\ g.mk.stat = Stat(tick.snap)
      /\ g.mk.native = tick.job.native /\ ~g.mk.old
  BY SettledIs
<1> HIDE DEF g
<1>2. s \in FileStates
  BY <1>1 DEF FileStates
<1>3. /\ s.gen = g.gen /\ s.life = g.life /\ s.stat = g.stat /\ s.gc = g.gc
      /\ s.pend = p /\ s.pendLoaded = g.pendLoaded /\ s.failed = g.failed /\ s.fails = g.fails
      /\ s.uploaded = g.uploaded /\ s.mk = g.mk /\ s.eval = g.eval
  BY <1>1 DEF FileStates
<1> HIDE DEF s
<1> QED
  BY <1>1, <1>2, <1>3 DEF g, s

\* Where an answer leaves the loop and the transcript it is about.
LEMMA OutcomeIs ==
  ASSUME TypeOK, Outcome
  PROVE  LET id == tick.job.id
             st == files[id]
         IN  /\ tick.pc = "out" /\ id \in Ids /\ st \in FileStates \cup {None}
             /\ Still /\ UNCHANGED <<durable, outside>>
             /\ hold' \in BOOLEAN /\ refusal' \in Refusals \cup {None}
             /\ \/ /\ tick' = Owed /\ files' = [files EXCEPT ![id] = None] /\ budget' = budget
                \/ /\ tick' = Owed /\ files' = files /\ budget' = budget
                \/ /\ tick' = Owed /\ st # None /\ files' = [files EXCEPT ![id] = recordPostFailure(st)]
                   /\ budget' = budget
                \/ /\ tick.res \in {"ok", "mismatch"} /\ NoteOutcome /\ st = None /\ files' = files
                   /\ tick' = [After("persist") EXCEPT !.next = "drop", !.rec = None]
                \/ /\ tick.res \in {"ok", "mismatch"} /\ NoteOutcome
                   /\ st # None /\ files' = [files EXCEPT ![id] = acceptedSnapshot(st)]
                   /\ tick' = [After("persist") EXCEPT !.next = "drop", !.rec = acceptedSnapshot(st).mk]
                \/ /\ tick' = [tick EXCEPT !.pc = "reg", !.gc = FALSE, !.res = None] /\ budget' = budget
                   /\ \/ st = None /\ files' = files
                      \/ st # None /\ files' = [files EXCEPT ![id] = [st EXCEPT !.refused = TRUE]]
                \/ /\ tick.res \in {"idConflict", "reject"} /\ NoteOutcome
                   /\ tick' = (IF tick.res = "reject" THEN After("drop") ELSE Owed)
                   /\ \/ st = None /\ files' = files
                      \/ /\ st # None
                         /\ files' = [files EXCEPT ![id] = [Settled(st, FALSE) EXCEPT
                                                     !.pend = IF tick.res = "reject" THEN None ELSE st.pend]]
<1> DEFINE id == tick.job.id
           st == files[id]
<1>0. tick.pc = "out"
  BY DEF Outcome, Withdrawn, PostFailed, Shed, recordRefusal, PostAccepted, BindingRefused, PostRejected, out
<1>1. id \in Ids /\ st \in FileStates \cup {None} /\ files \in [Ids -> FileStates \cup {None}] /\ tick \in Ticks
  BY <1>0, JobInHand DEF TypeOK
<1>2. hold \in BOOLEAN /\ refusal \in Refusals \cup {None} /\ tick.tok \in Nat
  BY <1>1 DEF TypeOK, Ticks
<1>b. ASSUME NEW r, Became(r)
      PROVE  (st = None /\ files' = files) \/ (st # None /\ files' = [files EXCEPT ![id] = r])
  BY <1>1, <1>b DEF Became
<1>3. CASE Withdrawn
  BY <1>0, <1>1, <1>2, <1>3 DEF Withdrawn
<1>4. CASE PostFailed
  BY <1>0, <1>1, <1>2, <1>4, <1>b DEF PostFailed
<1>5. CASE Shed
  BY <1>0, <1>1, <1>2, <1>5 DEF Shed
<1>6. CASE recordRefusal
  <2>1. refusal' \in Refusals
    BY <1>2, <1>6 DEF recordRefusal, Refusals
  <2> QED
    BY <1>0, <1>1, <1>2, <1>6, <2>1 DEF recordRefusal
<1>7. CASE PostAccepted
  <2>1. (st = None /\ files' = files) \/ (st # None /\ files' = [files EXCEPT ![id] = acceptedSnapshot(st)])
    BY <1>7, <1>b DEF PostAccepted
  <2>2. tick.res \in {"ok", "mismatch"} /\ NoteOutcome /\ Still /\ UNCHANGED <<hold, durable, outside>> /\ refusal' = None
    BY <1>7 DEF PostAccepted
  <2>3. CASE st = None
    <3>1. tick' = [After("persist") EXCEPT !.next = "drop", !.rec = None]
      BY <1>7, <2>3 DEF PostAccepted
    <3> QED
      BY <1>0, <1>1, <1>2, <2>1, <2>2, <2>3, <3>1
  <2>4. CASE st # None
    <3>1. tick' = [After("persist") EXCEPT !.next = "drop", !.rec = acceptedSnapshot(st).mk]
      BY <1>7, <2>4 DEF PostAccepted
    <3> QED
      BY <1>0, <1>1, <1>2, <2>1, <2>2, <2>4, <3>1
  <2> QED
    BY <2>3, <2>4
<1>8. CASE BindingRefused
  <2>1. (st = None /\ files' = files) \/ (st # None /\ files' = [files EXCEPT ![id] = [st EXCEPT !.refused = TRUE]])
    BY <1>8, <1>b DEF BindingRefused
  <2> QED
    BY <1>0, <1>1, <1>2, <1>8, <2>1 DEF BindingRefused
<1>9. CASE PostRejected
  <2> DEFINE r == [Settled(st, FALSE) EXCEPT !.pend = IF tick.res = "reject" THEN None ELSE st.pend]
  <2>1. ASSUME st # None
        PROVE  [Settled(st, FALSE) EXCEPT !.pend = IF tick.res = "reject" THEN None ELSE @] = r
    <3>1. Settled(st, FALSE).pend = st.pend
      BY <1>0, <1>1, <2>1, SettledIs
    <3> QED
      BY <3>1
  <2>2. (st = None /\ files' = files) \/ (st # None /\ files' = [files EXCEPT ![id] = r])
    BY <1>9, <1>b, <2>1 DEF PostRejected
  <2> QED
    BY <1>0, <1>1, <1>2, <1>9, <2>2 DEF PostRejected
<1> QED
  BY <1>3, <1>4, <1>5, <1>6, <1>7, <1>8, <1>9 DEF Outcome


LEMMA OutcomeTypes ==
  ASSUME TypeOK, Outcome
  PROVE  TypeOK'
<1> DEFINE id == tick.job.id
           st == files[id]
<1>1. /\ tick.pc = "out" /\ id \in Ids /\ st \in FileStates \cup {None}
      /\ Still /\ UNCHANGED <<durable, outside>>
      /\ hold' \in BOOLEAN /\ refusal' \in Refusals \cup {None}
  BY OutcomeIs
<1>2. tick.job # None /\ tick \in Ticks /\ tick.snap.len \in 1..MaxBytes /\ files \in [Ids -> FileStates \cup {None}]
  BY <1>1 DEF TypeOK
<1>3. ASSUME tick' \in Ticks, tick'.pc \in {"owed", "persist", "drop", "reg"}, tick'.res = None,
             tick'.pc \in {"persist", "drop", "reg"} => tick'.job = tick.job,
             tick'.pc = "reg" => tick'.snap = tick.snap,
             files' \in [Ids -> FileStates \cup {None}], budget' \in Budgets
      PROVE  TypeOK'
  BY <1>1, <1>2, <1>3, LoopStepTypes DEF TypeOK, durable, outside
<1>o. ASSUME tick' = Owed
      PROVE  tick' \in Ticks /\ tick'.pc = "owed" /\ tick'.res = None
  BY <1>o, LoopTyped
<1>p. ASSUME NEW m \in Markers \cup {None}, tick' = [After("persist") EXCEPT !.next = "drop", !.rec = m]
      PROVE  tick' \in Ticks /\ tick'.pc = "persist" /\ tick'.res = None /\ tick'.job = tick.job
  <2>1. /\ After("persist") \in Ticks /\ After("persist").pc = "persist" /\ After("persist").job = tick.job
        /\ After("persist").res = None
    BY LoopTyped
  <2> QED
    BY <1>p, <2>1 DEF Ticks
<1>b. budget \in Budgets /\ (NoteOutcome => budget' \in Budgets)
  BY <1>2, BudgetTyped DEF TypeOK
<1>4. CASE tick' = Owed /\ (files' = [files EXCEPT ![id] = None] \/ files' = files) /\ budget' = budget
  <2>1. files' \in [Ids -> FileStates \cup {None}]
    BY <1>1, <1>2, <1>4
  <2> QED
    BY <1>3, <1>4, <1>o, <1>b, <2>1
<1>5. CASE tick' = Owed /\ st # None /\ files' = [files EXCEPT ![id] = recordPostFailure(st)] /\ budget' = budget
  <2>1. recordPostFailure(st) \in FileStates
    BY <1>1, <1>5, FailureIs
  <2>2. files' \in [Ids -> FileStates \cup {None}]
    BY <1>1, <1>2, <1>5, <2>1
  <2> QED
    BY <1>3, <1>5, <1>o, <1>b, <2>2
<1>6. CASE NoteOutcome /\ files' = files /\ tick' = [After("persist") EXCEPT !.next = "drop", !.rec = None]
  BY <1>2, <1>3, <1>6, <1>p, <1>b
<1>7. CASE /\ NoteOutcome /\ st # None /\ files' = [files EXCEPT ![id] = acceptedSnapshot(st)]
           /\ tick' = [After("persist") EXCEPT !.next = "drop", !.rec = acceptedSnapshot(st).mk]
  <2>1. acceptedSnapshot(st) \in FileStates /\ acceptedSnapshot(st).mk \in Markers
    BY <1>1, <1>7, AcceptedIs
  <2>2. files' \in [Ids -> FileStates \cup {None}]
    BY <1>1, <1>2, <1>7, <2>1
  <2> QED
    BY <1>3, <1>7, <1>p, <1>b, <2>1, <2>2
<1>8. CASE /\ tick' = [tick EXCEPT !.pc = "reg", !.gc = FALSE, !.res = None] /\ budget' = budget
           /\ \/ st = None /\ files' = files
              \/ st # None /\ files' = [files EXCEPT ![id] = [st EXCEPT !.refused = TRUE]]
  <2>1. PICK g \in BOOLEAN : tick' = [tick EXCEPT !.pc = "reg", !.gc = g, !.res = None]
    BY <1>8
  <2>2. tick' \in Ticks /\ tick'.pc = "reg" /\ tick'.res = None /\ tick'.job = tick.job /\ tick'.snap = tick.snap
    BY <1>2, <2>1 DEF Ticks
  <2>3. st # None => [st EXCEPT !.refused = TRUE] \in FileStates
    BY <1>1, RefusedIs
  <2>4. files' \in [Ids -> FileStates \cup {None}]
    BY <1>1, <1>2, <1>8, <2>3
  <2> QED
    BY <1>3, <1>8, <1>b, <2>2, <2>4
<1>9. CASE /\ NoteOutcome
           /\ tick' = (IF tick.res = "reject" THEN After("drop") ELSE Owed)
           /\ \/ st = None /\ files' = files
              \/ /\ st # None
                 /\ files' = [files EXCEPT ![id] = [Settled(st, FALSE) EXCEPT
                                             !.pend = IF tick.res = "reject" THEN None ELSE st.pend]]
  <2>1. tick' \in Ticks /\ tick'.pc \in {"owed", "drop"} /\ tick'.res = None /\ (tick'.pc = "drop" => tick'.job = tick.job)
    BY <1>9, LoopTyped
  <2>2. ASSUME st # None
        PROVE  [Settled(st, FALSE) EXCEPT !.pend = IF tick.res = "reject" THEN None ELSE st.pend] \in FileStates
    <3> DEFINE p == IF tick.res = "reject" THEN None ELSE st.pend
    <3>1. p \in Records \cup {None} /\ st \in FileStates
      BY <1>1, <2>2 DEF FileStates
    <3> QED
      BY <1>1, <3>1, RejectedIs
  <2>3. files' \in [Ids -> FileStates \cup {None}]
    BY <1>1, <1>2, <1>9, <2>2
  <2> QED
    BY <1>3, <1>9, <1>b, <2>1, <2>3
<1> QED
  BY <1>4, <1>5, <1>6, <1>7, <1>8, <1>9, OutcomeIs

LEMMA SettleTypes ==
  ASSUME TypeOK, persistMarker \/ dropPending \/ recordOwedIfStale
  PROVE  TypeOK'
<1>1. CASE persistMarker
  <2>1. tick.pc = "persist" /\ Still /\ UNCHANGED <<files, hold, refusal, pending, parsed, outside>>
    BY <1>1 DEF persistMarker
  <2>2. tick.job.id \in Ids /\ tick.job # None /\ tick.rec \in Markers \cup {None}
    BY <2>1, JobInHand DEF TypeOK, Ticks
  <2>3. /\ tick' \in Ticks /\ tick'.pc \in {"drop", "owed"} /\ tick'.res = None
        /\ tick'.pc = "drop" => tick'.job = tick.job
    BY <1>1, LoopTyped DEF persistMarker
  <2>4. marker' \in [Ids -> Markers \cup {None}]
    BY <1>1, <2>2 DEF persistMarker, TypeOK
  <2>5. budget' \in Budgets
    BY <1>1, <2>2, BudgetTyped DEF persistMarker
  <2> QED
    BY <2>1, <2>2, <2>3, <2>4, <2>5, LoopStepTypes DEF TypeOK, outside
<1>2. CASE dropPending
  <2>1. tick.pc = "drop" /\ Still /\ UNCHANGED <<files, hold, refusal, marker, parsed, outside>> /\ tick' = Owed
        /\ budget' \in Budgets
    BY <1>2, BudgetTyped DEF dropPending, TypeOK
  <2>2. tick.job.id \in Ids
    BY <2>1, JobInHand
  <2>3. pending' \in [Ids -> Records \cup {None}]
    BY <1>2, <2>2 DEF dropPending, TypeOK
  <2> QED
    BY <2>1, <2>3, LoopTyped, LoopStepTypes DEF TypeOK, outside
<1>3. CASE recordOwedIfStale
  <2>1. tick.pc = "owed" /\ Still /\ UNCHANGED <<hold, refusal, durable, outside, budget>>
    BY <1>3 DEF recordOwedIfStale
  <2>2. PICK fs \in [Ids -> FileStates \cup {None}], ss \in SUBSET SaveSet :
          files' = fs /\ tick' = [NoTick EXCEPT !.pc = "save", !.jobs = tick.jobs, !.saves = ss]
    <3>1. PICK stale \in BOOLEAN :
            LET fs == IF stale THEN [id \in Ids |-> PlannedState(id)] ELSE files
            IN  /\ files' = fs
                /\ tick' = [NoTick EXCEPT !.pc = "save", !.jobs = tick.jobs, !.saves = IF stale THEN Saves(fs) ELSE {}]
      BY <1>3 DEF recordOwedIfStale
    <3> DEFINE fs == IF stale THEN [id \in Ids |-> PlannedState(id)] ELSE files
    <3>2. fs \in [Ids -> FileStates \cup {None}]
      BY PlanTyped DEF TypeOK
    <3> HIDE DEF fs
    <3>3. Saves(fs) \in SUBSET SaveSet
      BY <3>2, SavesAre
    <3> QED
      BY <3>1, <3>2, <3>3 DEF fs
  <2>3. tick.jobs \in SUBSET JobSet /\ NoTick \in Ticks /\ NoTick.res = None
    BY LoopTyped DEF TypeOK, Ticks, NoTick
  <2>4. tick' \in Ticks /\ tick'.pc = "save" /\ tick'.res = None
    BY <2>2, <2>3 DEF Ticks
  <2> QED
    BY <2>1, <2>2, <2>4, LoopStepTypes DEF TypeOK, durable, outside
<1> QED
  BY <1>1, <1>2, <1>3

LEMMA TickTypes ==
  ASSUME TypeOK, Tick
  PROVE  TypeOK'
BY PlanTypes, SaveTypes, GateTypes, JobTypes, ProcessTypes, RegisterTypes, PostTypes, OutcomeTypes, SettleTypes DEF Tick

LEMMA DownTypes ==
  ASSUME TypeOK, Down, budget' \in Budgets, pending' \in [Ids -> Records \cup {None}]
  PROVE  TypeOK'
<1>1. tick' \in Ticks /\ tick'.pc = "down" /\ tick'.res = None
  BY LoopTyped DEF Down, Ticks, NoTick
<1>2. files' \in [Ids -> FileStates \cup {None}] /\ session' \in [Ids -> 0..MaxLife]
  BY Constants DEF Down
<1>3. watch' \in Watchers
  <2>1. [id \in Ids |-> 0] \in [Ids -> 0..MaxLife]
    BY Constants
  <2> QED
    BY <2>1 DEF Down, TypeOK, Watchers
<1> QED
  BY <1>1, <1>2, <1>3 DEF Down, TypeOK, outside

LEMMA ProcessStepTypes ==
  ASSUME TypeOK, Process
  PROVE  TypeOK'
<1>1. CASE Stop
  <2> DEFINE fs == [id \in Ids |-> PlannedState(id)]
  <2>1. fs \in [Ids -> FileStates \cup {None}]
    BY PlanTyped
  <2>2. pending' = [id \in Ids |-> IF \E s \in Saves(fs) : s.id = id
                                   THEN (CHOOSE s \in Saves(fs) : s.id = id).rec
                                   ELSE pending[id]]
    BY <1>1 DEF Stop
  <2> HIDE DEF fs
  <2>3. \A s \in Saves(fs) : s.rec \in Records
    BY <2>1, SavesAre
  <2>4. pending' \in [Ids -> Records \cup {None}]
    BY <2>2, <2>3 DEF TypeOK
  <2>5. budget' \in Budgets
    BY <1>1, BudgetTyped DEF Stop
  <2> QED
    BY <1>1, <2>4, <2>5, DownTypes DEF Stop
<1>2. CASE Kill
  <2>1. budget' \in Budgets
    <3>1. budget \in Budgets /\ budget' = [budget EXCEPT !.ops = @ + 1, !.faults = @ + 1]
      BY <1>2 DEF Kill, TypeOK
    <3>2. budget.ops + 1 \in Nat /\ budget.faults + 1 \in Nat
      BY <3>1 DEF Budgets
    <3>3. budget' = [budget EXCEPT !.ops = budget.ops + 1, !.faults = budget.faults + 1]
      BY <3>1
    <3> QED
      BY <3>1, <3>2, <3>3 DEF Budgets
  <2> QED
    BY <1>2, <2>1, DownTypes DEF Kill, TypeOK
<1>3. CASE Start
  <2>1. tick' \in Ticks /\ tick'.pc = "idle" /\ tick'.res = None
    BY <1>3, LoopTyped DEF Start, NoTick
  <2>2. pending' \in [Ids -> Records \cup {None}]
    BY <1>3 DEF Start, TypeOK
  <2>3. watch' \in Watchers
    BY <1>3, Constants DEF Start, TypeOK, Watchers, Policies
  <2> QED
    BY <1>3, <2>1, <2>2, <2>3 DEF Start, TypeOK, outside
<1> QED
  BY <1>1, <1>2, <1>3 DEF Process


\* The tool knows which transcript it works on, and that it was accepted.
ItemInHand ==
  /\ tool.pc \in {"post", "marker", "settle"} => tool.at # None
  /\ tool.pc \in {"marker", "settle"} => tool.res = "accepted"

LEMMA ToolTypes ==
  ASSUME TypeOK, Reupload
  PROVE  TypeOK'
<1>0. tool \in Tools /\ tool.items \subseteq Items /\ tool.at \in Items \cup {None} /\ tool.snap \in Snapshots
  BY DEF TypeOK, Tools
<1>i. ItemInHand
  BY DEF TypeOK, ItemInHand
<1>n. NoTool \in Tools /\ NoTool.pc = "idle"
  BY Constants DEF NoTool, Tools
<1>h. ASSUME tool' \in Tools, others' = others, marker' \in [Ids -> Markers \cup {None}],
             journal' \subseteq Ids \X {"oversize", "rejected", "accepted"},
             store' \subseteq Lives \X Pairs \X {"before", "after"}, judged' \subseteq Results \X Pairs, budget' \in Budgets,
             ItemInHand'
      PROVE  TypeOK'
  BY <1>h DEF ItemInHand, TypeOK, others, daemon
<1>1. CASE RunContentReupload
  <2>0. PICK found \in SUBSET Ids :
          /\ \A id \in found : reuploadSelects(id)
          /\ tool' = [NoTool EXCEPT !.pc = "item",
                        !.items = {[id |-> id, life |-> disk[id].life, m |-> marker[id]] : id \in found}]
    BY <1>1 DEF RunContentReupload
  <2> DEFINE S == {[id |-> id, life |-> disk[id].life, m |-> marker[id]] : id \in found}
  <2>1. S \in SUBSET Items
    <3>1. ASSUME NEW id \in Ids, reuploadSelects(id)
          PROVE  [id |-> id, life |-> disk[id].life, m |-> marker[id]] \in Items
      BY <3>1 DEF TypeOK, reuploadSelects, Items
    <3> QED
      BY <2>0, <3>1
  <2>2. tool' = [NoTool EXCEPT !.pc = "item", !.items = S]
    BY <2>0
  <2> HIDE DEF S
  <2>3. tool' \in Tools /\ ItemInHand'
    BY <1>n, <2>1, <2>2 DEF Tools, ItemInHand
  <2>4. budget' \in Budgets
    BY <1>1, BudgetTyped DEF RunContentReupload
  <2> QED
    BY <1>1, <1>h, <2>3, <2>4 DEF RunContentReupload, TypeOK
<1>2. CASE ToolRead
  <2>1. PICK it \in tool.items :
          /\ \/ tool' = [tool EXCEPT !.items = @ \ {it}]
             \/ tool' = [[tool EXCEPT !.items = @ \ {it}] EXCEPT !.pc = "post", !.at = it, !.snap = disk[it.id]]
          /\ journal' = journal \/ journal' = journal \cup {<<it.id, "oversize">>}
          /\ UNCHANGED <<others, marker, store, judged, budget>>
    BY <1>2 DEF ToolRead
  <2>2. it \in Items /\ it.id \in Ids
    BY <1>0 DEF Items
  <2>3. disk[it.id] \in Snapshots
    BY <2>2 DEF TypeOK
  <2>4. [tool EXCEPT !.items = @ \ {it}] \in Tools
    BY <1>0 DEF Tools
  <2>5. tool' \in Tools /\ ItemInHand'
    <3>1. CASE tool' = [tool EXCEPT !.items = @ \ {it}]
      BY <1>0, <1>i, <2>4, <3>1 DEF Tools, ItemInHand
    <3>2. CASE tool' = [[tool EXCEPT !.items = @ \ {it}] EXCEPT !.pc = "post", !.at = it, !.snap = disk[it.id]]
      <4> DEFINE g == [tool EXCEPT !.items = @ \ {it}]
      <4>1. g \in Tools /\ tool' = [g EXCEPT !.pc = "post", !.at = it, !.snap = disk[it.id]]
        BY <2>4, <3>2
      <4> HIDE DEF g
      <4>2. tool' \in Tools /\ tool'.pc = "post" /\ tool'.at = it
        BY <2>2, <2>3, <4>1 DEF Tools
      <4> QED
        BY <2>2, <4>2, NoneApart DEF ItemInHand
    <3> QED
      BY <2>1, <3>1, <3>2
  <2>6. journal' \subseteq Ids \X {"oversize", "rejected", "accepted"}
    BY <2>1, <2>2 DEF TypeOK
  <2> QED
    BY <1>h, <2>1, <2>5, <2>6 DEF TypeOK
<1>3. CASE postReupload
  <2>1. tool.pc = "post" /\ UNCHANGED <<others, marker>>
    BY <1>3 DEF postReupload
  <2>2. PICK res \in Answers(tool.at.m.gc /\ ~tool.at.m.refused) :
          /\ Answered(res, tool.at.m.native, Bytes(tool.snap))
          /\ \/ tool' = [tool EXCEPT !.pc = "marker", !.res = "accepted"] /\ UNCHANGED journal
             \/ tool' = [tool EXCEPT !.at.m.refused = TRUE] /\ UNCHANGED journal
             \/ journal' = journal \cup {<<tool.at.id, "rejected">>} /\ tool' = [tool EXCEPT !.pc = "item"]
             \/ tool' = NoTool /\ UNCHANGED journal
             \/ tool' = [tool EXCEPT !.pc = "item"] /\ UNCHANGED journal
    BY <1>3 DEF postReupload
  <2>3. tool.at \in Items /\ tool.at.id \in Ids /\ tool.at.m \in Markers /\ tool.at.m.native \in Lives
    BY <1>0, <2>1 DEF TypeOK, Items, Markers
  <2>4. Bytes(tool.snap) \in Pairs
    BY <1>0, SnapshotParts
  <2>5. /\ budget' \in Budgets /\ store' \subseteq Lives \X Pairs \X {"before", "after"} /\ judged' \subseteq Results \X Pairs
    BY <2>2, <2>3, <2>4, AnsweredTyped
  <2>6. tool' \in Tools /\ ItemInHand'
    <3>1. CASE tool' = [tool EXCEPT !.at.m.refused = TRUE]
      <4>1. PICK o \in BOOLEAN : tool' = [tool EXCEPT !.at.m.refused = o]
        BY <3>1
      <4> DEFINE n == [tool.at.m EXCEPT !.refused = o]
                 a == [tool.at EXCEPT !.m = n]
      <4>2. n \in Markers
        BY <2>3 DEF Markers
      <4>3. tool' = [tool EXCEPT !.at = a]
        BY <4>1
      <4> HIDE DEF n
      <4>4. a \in Items
        BY <2>3, <4>2 DEF Items
      <4> HIDE DEF a
      <4>5. tool' \in Tools /\ tool'.pc = "post" /\ tool'.at = a
        BY <1>0, <2>1, <4>3, <4>4 DEF Tools
      <4> QED
        BY <4>4, <4>5, NoneApart DEF ItemInHand
    <3>2. CASE tool' = [tool EXCEPT !.pc = "marker", !.res = "accepted"]
      BY <1>0, <2>3, <3>2, NoneApart DEF Tools, ItemInHand
    <3>3. CASE tool' = [tool EXCEPT !.pc = "item"]
      BY <1>0, <3>3 DEF Tools, ItemInHand
    <3>4. CASE tool' = NoTool
      BY <1>n, <3>4 DEF ItemInHand
    <3> QED
      BY <2>2, <3>1, <3>2, <3>3, <3>4
  <2>7. journal' \subseteq Ids \X {"oversize", "rejected", "accepted"}
    BY <2>2, <2>3 DEF TypeOK
  <2> QED
    BY <1>h, <2>1, <2>5, <2>6, <2>7 DEF TypeOK
<1>4. CASE ToolMarker
  <2>1. tool.pc = "marker" /\ UNCHANGED <<others, journal, store, judged>>
    BY <1>4 DEF ToolMarker
  <2>2. tool.at \in Items /\ tool.at.id \in Ids /\ tool.at.m \in Markers
    BY <1>0, <2>1 DEF TypeOK, Items
  <2>3. Bytes(tool.snap) \in Pairs /\ Stat(tool.snap) \in Pairs
    BY <1>0, SnapshotParts
  <2>4. contentMarker(Bytes(tool.snap), Stat(tool.snap), tool.at.m.native, tool.at.m.gc, tool.at.m.refused, FALSE) \in Markers
    <3>1. tool.at.m.native \in Lives /\ tool.at.m.gc \in BOOLEAN /\ tool.at.m.refused \in BOOLEAN
      BY <2>2 DEF Markers
    <3> QED
      BY <2>3, <3>1, MarkerTyped
  <2>5. marker' \in [Ids -> Markers \cup {None}]
    BY <1>4, <2>2, <2>4 DEF ToolMarker, TypeOK
  <2>6. tool' \in Tools /\ ItemInHand'
    BY <1>0, <1>4, <1>i, <2>1 DEF ToolMarker, Tools, ItemInHand
  <2>7. budget' \in Budgets
    BY <1>4, <2>2, BudgetTyped DEF ToolMarker
  <2> QED
    BY <1>h, <2>1, <2>5, <2>6, <2>7 DEF TypeOK
<1>5. CASE ToolSettle
  <2>1. tool.pc = "settle" /\ UNCHANGED <<others, marker, store, judged, budget>>
    BY <1>5 DEF ToolSettle
  <2>2. tool.at \in Items /\ tool.at.id \in Ids /\ tool.res = "accepted"
    BY <1>0, <2>1 DEF TypeOK, Items
  <2>3. journal' \subseteq Ids \X {"oversize", "rejected", "accepted"}
    BY <1>5, <2>2 DEF ToolSettle, TypeOK
  <2>4. tool' \in Tools /\ ItemInHand'
    BY <1>0, <1>5 DEF ToolSettle, Tools, ItemInHand
  <2> QED
    BY <1>h, <2>1, <2>3, <2>4 DEF TypeOK
<1>6. CASE ToolEnds
  BY <1>6, <1>h, <1>n DEF ToolEnds, TypeOK, ItemInHand
<1> QED
  BY <1>1, <1>2, <1>3, <1>4, <1>5, <1>6 DEF Reupload

\* Types, and what the loop and the tool have in hand at each step (postSnapshot, RunContentReupload).
THEOREM Types == Spec => []TypeOK
<1>1. TypeOK /\ [Next]_vars => TypeOK'
  <2> SUFFICES ASSUME TypeOK, [Next]_vars PROVE TypeOK'
    OBVIOUS
  <2>1. CASE UNCHANGED vars
    BY <2>1 DEF vars, TypeOK
  <2>2. CASE Next
    BY <2>2, WorldTypes, ConsentTypes, WatcherTypes, TickTypes, ProcessStepTypes, ToolTypes DEF Next
  <2> QED
    BY <2>1, <2>2
<1> QED
  BY <1>1, InitTypes, PTL DEF Spec


-----------------------------------------------------------------------------
(* Consent *)

\* The content loop: nothing left to save but while saving, no consent change of its own but where
\* it waits for one, and nothing kept while the daemon is down.
LoopShape ==
  /\ tick.pc # "save" => tick.saves = {}
  /\ \A c \in calls : c.by = "tick" => tick.pc \in {"idle", "job", "reg"}
  /\ tick.pc = "down" => calls = {} /\ \A id \in Ids : files[id] = None

\* A transcript is queued under the consent and the life its watcher has, and so are the records
\* made of it.
FileOf(id) ==
  /\ watch.life[id] <= disk[id].life
  /\ files[id] # None =>
       /\ watch.obs /\ files[id].gen = watch.gen /\ files[id].life = watch.life[id]
       /\ files[id].pend # None => files[id].pend.gen = files[id].gen /\ files[id].pend.life = files[id].life
SaveOf(s) ==
  files[s.id] # None /\ files[s.id].pendLoaded =>
      s.rec.gen = files[s.id].gen /\ s.rec.life = files[s.id].life
WatchShape == (\A id \in Ids : FileOf(id)) /\ \A s \in tick.saves : SaveOf(s)

\* A request that consent no longer covers is cancelled, or the call that will cancel it is running.
FlightShape ==
  InFlight /\ ~tick.withdrawn /\ ~allowed(tick.job.gen) =>
      \E c \in calls : c.step = "drop" /\ c.pol = latest

\* What the consent proofs carry from step to step.
ConsentKept == LoopShape /\ WatchShape /\ FlightShape /\ PendingCovered

\* A queued transcript after a step that only works on it.
SameFile(f, g) ==
  /\ f # None /\ g.gen = f.gen /\ g.life = f.life
  /\ g.pendLoaded => f.pendLoaded
  /\ g.pend = f.pend \/ g.pend = None

\* Steps that leave consent and the watcher's tables alone, start no request and queue nothing.
LEMMA QuietKeeps ==
  ASSUME TypeOK, TypeOK', ConsentKept, latest' = latest, calls' = calls,
         watch'.gen = watch.gen, watch'.obs = watch.obs, watch'.life = watch.life,
         \A id \in Ids : disk'[id].life >= disk[id].life,
         \A id \in Ids : files'[id] = None \/ SameFile(files[id], files'[id]),
         \A id \in Ids : pending'[id] = None \/ pending'[id] = pending[id],
         tick'.pc = "down" <=> tick.pc = "down",
         tick'.saves \subseteq tick.saves, tick'.pc # "save" => tick'.saves = {},
         tick'.pc = tick.pc \/ ~\E c \in calls : c.by = "tick",
         tick'.pc \in {"fly", "out"} =>
             tick.pc \in {"fly", "out"} /\ tick'.job = tick.job /\ tick'.withdrawn = tick.withdrawn
  PROVE  ConsentKept'
<1>1. LoopShape'
  <2>1. \A c \in calls : c.by = "tick" => tick'.pc \in {"idle", "job", "reg"}
    BY DEF ConsentKept, LoopShape
  <2>2. tick'.pc = "down" => \A id \in Ids : files'[id] = None
    BY DEF ConsentKept, LoopShape, SameFile
  <2> QED
    BY <2>1, <2>2 DEF ConsentKept, LoopShape
<1>2. ASSUME NEW id \in Ids
      PROVE  FileOf(id)'
  <2>1. FileOf(id)
    BY DEF ConsentKept, WatchShape
  <2>2. watch.life[id] \in Nat /\ disk[id].life \in Nat /\ disk'[id].life \in Nat
    BY Constants DEF TypeOK, Watchers, Lives
  <2>3. watch'.life[id] <= disk'[id].life
    BY <2>1, <2>2 DEF FileOf
  <2> QED
    BY <2>1, <2>3 DEF FileOf, SameFile
<1>3. ASSUME NEW s \in tick'.saves
      PROVE  SaveOf(s)'
  <2>1. SaveOf(s) /\ s.id \in Ids
    BY DEF ConsentKept, WatchShape, TypeOK, Ticks, SaveSet
  <2> QED
    BY <2>1 DEF SaveOf, SameFile
<1>4. FlightShape'
  BY DEF ConsentKept, FlightShape, InFlight, allowed
<1>5. PendingCovered'
  BY DEF ConsentKept, PendingCovered, allowed
<1> QED
  BY <1>1, <1>2, <1>3, <1>4, <1>5 DEF ConsentKept, WatchShape

\* The same for a step of the loop.
LEMMA QuietLoop ==
  ASSUME TypeOK, TypeOK', ConsentKept, Still,
         \A id \in Ids : files'[id] = None \/ SameFile(files[id], files'[id]),
         \A id \in Ids : pending'[id] = None \/ pending'[id] = pending[id],
         tick.pc # "down", tick'.pc # "down",
         tick'.saves \subseteq tick.saves, tick'.pc # "save" => tick'.saves = {},
         tick'.pc = tick.pc \/ tick.pc \notin {"idle", "job", "reg"} \/ refreshed,
         tick'.pc \in {"fly", "out"} =>
             tick.pc \in {"fly", "out"} /\ tick'.job = tick.job /\ tick'.withdrawn = tick.withdrawn
  PROVE  ConsentKept'
<1>1. /\ latest' = latest /\ calls' = calls /\ watch' = watch /\ disk' = disk
  BY DEF Still
<1>2. tick'.pc = tick.pc \/ ~\E c \in calls : c.by = "tick"
  BY DEF ConsentKept, LoopShape, refreshed
<1>3. \A id \in Ids : disk'[id].life >= disk[id].life
  BY <1>1, Constants DEF TypeOK, Lives
<1> QED
  BY <1>1, <1>2, <1>3, QuietKeeps

LEMMA InitConsent == Init => ConsentKept
<1> SUFFICES ASSUME Init PROVE ConsentKept
  OBVIOUS
<1>1. TypeOK
  BY InitTypes
<1>2. tick.pc = "idle" /\ tick.saves = {}
  BY DEF Init, NoTick
<1>3. \A id \in Ids : watch.life[id] = 0 /\ disk[id].life \in Nat
  BY <1>1, Constants DEF Init, TypeOK, Lives
<1> QED
  BY <1>2, <1>3 DEF Init, ConsentKept, LoopShape, WatchShape, FileOf, FlightShape, InFlight, PendingCovered

LEMMA WorldConsent ==
  ASSUME TypeOK, TypeOK', ConsentKept, World
  PROVE  ConsentKept'
<1>1. /\ UNCHANGED <<latest, calls, watch, files, tick, pending>>
  BY DEF World, WriteTranscript, ReplaceTranscript, WritePolicy, HoldPasses, RenewToken, daemon, durable
<1>2. \A id \in Ids : disk'[id].life >= disk[id].life
  <2>0. disk \in [Ids -> Snapshots] /\ \A id \in Ids : disk[id].life \in Nat
    BY Constants DEF TypeOK, Lives
  <2>1. ASSUME NEW id \in Ids, WriteTranscript(id)
        PROVE  <1>2!:
    BY <2>0, <2>1, TranscriptGrows
  <2>2. ASSUME NEW id \in Ids, ReplaceTranscript(id)
        PROVE  <1>2!:
    BY <2>0, <2>2, TranscriptReplaced
  <2>3. CASE disk' = disk
    BY <2>0, <2>3
  <2> QED
    BY <2>1, <2>2, <2>3 DEF World, WritePolicy, HoldPasses, RenewToken
<1>3. \A id \in Ids : files'[id] = None \/ SameFile(files[id], files'[id])
  BY <1>1 DEF SameFile
<1> QED
  BY <1>1, <1>2, <1>3, QuietKeeps DEF ConsentKept, LoopShape

LEMMA ChangeConsent ==
  ASSUME TypeOK, TypeOK', ConsentKept, Consent
  PROVE  ConsentKept'
<1>s. ASSUME watch' = watch, disk' = disk, tick'.saves = tick.saves,
             \A id \in Ids : files'[id] = None \/ files'[id] = files[id]
      PROVE  WatchShape'
  <2>1. ASSUME NEW s \in tick.saves
        PROVE  s.id \in Ids
    BY DEF TypeOK, Ticks, SaveSet
  <2> QED
    BY <1>s, <2>1 DEF ConsentKept, WatchShape, FileOf, SaveOf
<1>1. ASSUME NEW by \in {"tick", "other"}, Current(by)
      PROVE  ConsentKept'
  <2>1. /\ tick.pc # "down" /\ (by = "tick" => tick.pc \in {"idle", "job", "reg"}) /\ latest' = policy
        /\ calls' = calls \cup {[by |-> by, step |-> "drop", pol |-> policy]}
        /\ UNCHANGED <<disk, watch, files, tick, pending>>
    BY <1>1 DEF Current, durable
  <2>2. LoopShape'
    BY <2>1 DEF ConsentKept, LoopShape
  <2>3. WatchShape'
    BY <1>s, <2>1
  <2>4. FlightShape'
    <3> DEFINE c == [by |-> by, step |-> "drop", pol |-> policy]
    <3>1. c \in calls' /\ c.step = "drop" /\ c.pol = latest'
      BY <2>1
    <3> QED
      BY <3>1 DEF FlightShape
  <2>5. PendingCovered'
    BY <2>1 DEF PendingCovered
  <2> QED
    BY <2>2, <2>3, <2>4, <2>5 DEF ConsentKept
<1>2. ASSUME NEW c \in calls, onConsentChange(c)
      PROVE  ConsentKept'
  <2> DEFINE w == tick.withdrawn \/ (InFlight /\ ~contentAllowedBy(c.pol, tick.job.gen))
             e == [c EXCEPT !.step = "sweep"]
  <2>1. /\ c.step = "drop" /\ calls' = (calls \ {c}) \cup {e} /\ files' = Dropped(c.pol)
        /\ tick' = [tick EXCEPT !.withdrawn = w] /\ UNCHANGED <<disk, latest, watch, pending>>
    BY <1>2 DEF onConsentChange, durable
  <2>2. /\ tick'.pc = tick.pc /\ tick'.saves = tick.saves /\ tick'.job = tick.job /\ tick'.withdrawn = w
    <3>1. w \in BOOLEAN
      OBVIOUS
    <3> HIDE DEF w
    <3> QED
      BY <2>1, <3>1 DEF TypeOK, Ticks
  <2>3. \A id \in Ids : files'[id] = None \/ files'[id] = files[id]
    BY <2>1 DEF Dropped
  <2>4. e.by = c.by /\ e.step = "sweep" /\ e.pol = c.pol
    BY DEF TypeOK, CallSet
  <2>5. LoopShape'
    <3>1. tick.pc # "down"
      BY DEF ConsentKept, LoopShape
    <3> HIDE DEF w, e
    <3> QED
      BY <2>1, <2>2, <2>4, <3>1 DEF ConsentKept, LoopShape
  <2>6. WatchShape'
    BY <1>s, <2>1, <2>2, <2>3
  <2>7. FlightShape'
    <3>1. SUFFICES ASSUME InFlight', ~tick'.withdrawn, (~allowed(tick.job.gen))'
                   PROVE  (\E d \in calls : d.step = "drop" /\ d.pol = latest)'
      BY DEF FlightShape
    <3>2. InFlight /\ ~allowed(tick.job.gen)
      BY <2>1, <2>2, <3>1 DEF InFlight, allowed
    <3>3. ~tick.withdrawn /\ contentAllowedBy(c.pol, tick.job.gen)
      BY <2>2, <3>1, <3>2
    <3>4. c.pol # latest
      BY <3>2, <3>3 DEF allowed
    <3>5. PICK d \in calls : d.step = "drop" /\ d.pol = latest
      BY <3>2, <3>3 DEF ConsentKept, FlightShape
    <3>6. d # c
      BY <3>4, <3>5
    <3> QED
      BY <2>1, <3>5, <3>6
  <2>8. PendingCovered'
    <3>1. calls' # {}
      BY <2>1
    <3> QED
      BY <3>1 DEF PendingCovered
  <2> QED
    BY <2>5, <2>6, <2>7, <2>8 DEF ConsentKept
<1>3. ASSUME NEW c \in calls, sweepPending(c)
      PROVE  ConsentKept'
  <2>1. /\ c.step = "sweep" /\ calls' = calls \ {c} /\ pending' = sweepContentPending
        /\ UNCHANGED <<disk, latest, watch, files, tick>>
    BY <1>3 DEF sweepPending
  <2>2. LoopShape'
    BY <2>1 DEF ConsentKept, LoopShape
  <2>3. WatchShape'
    BY <1>s, <2>1
  <2>4. FlightShape'
    BY <2>1 DEF ConsentKept, FlightShape, InFlight, allowed
  <2>5. PendingCovered'
    BY <2>1 DEF PendingCovered, sweepContentPending, allowed
  <2> QED
    BY <2>2, <2>3, <2>4, <2>5 DEF ConsentKept
<1> QED
  BY <1>1, <1>2, <1>3 DEF Consent


LEMMA WatcherConsent ==
  ASSUME TypeOK, TypeOK', ConsentKept, Watcher
  PROVE  ConsentKept'
<1>0. watch \in Watchers /\ files \in [Ids -> FileStates \cup {None}]
  BY DEF TypeOK
<1>1. CASE RebuildWatcher
  <2>1. /\ tick.pc # "down" /\ UNCHANGED <<disk, latest, calls, tick, pending>>
        /\ watch'.life = [id \in Ids |-> 0] /\ files' = [id \in Ids |-> None]
    BY <1>1 DEF RebuildWatcher, watching, durable
  <2>2. \A id \in Ids : disk[id].life \in Nat
    BY Constants DEF TypeOK, Lives
  <2>3. \A s \in tick.saves : s.id \in Ids
    BY DEF TypeOK, Ticks, SaveSet
  <2>4. WatchShape'
    BY <2>1, <2>2, <2>3 DEF WatchShape, FileOf, SaveOf
  <2> QED
    BY <2>1, <2>4 DEF ConsentKept, LoopShape, FlightShape, InFlight, PendingCovered, allowed
<1>2. ASSUME NEW id \in Ids, observe(id)
      PROVE  ConsentKept'
  <2>1. /\ tick.pc # "down" /\ UNCHANGED <<disk, latest, calls, tick, pending>>
        /\ disk[id].len > 0 /\ watch.life[id] \in {0, disk[id].life}
    BY <1>2 DEF observe, watching, durable
  <2>2. /\ watch'.gen = watch.gen /\ watch'.obs = watch.obs /\ watch'.life = [watch.life EXCEPT ![id] = disk[id].life]
    BY <1>0, <1>2 DEF observe, Watchers
  <2>3. disk[id] \in Snapshots /\ disk[id].life \in Lives /\ disk[id].life \in Nat /\ disk[id].life > 0
    BY Constants DEF TypeOK, Lives
  <2>4. /\ watch'.life[id] = disk[id].life /\ \A i \in Ids : i # id => watch'.life[i] = watch.life[i] /\ files'[i] = files[i]
    BY <1>0, <1>2, <2>2 DEF observe, Watchers
  <2>5. \/ files'[id] = files[id] /\ ~watch.obs
        \/ files'[id] = None
        \/ watch.obs /\ files[id] = None /\ files'[id] = contentState(watch.gen, disk[id])
        \/ watch.obs /\ files[id] # None /\ files'[id] = Observed(files[id], disk[id])
    BY <1>0, <1>2 DEF observe
  <2>6. FileOf(id)
    BY DEF ConsentKept, WatchShape
  <2>7. FileOf(id)' /\ (files'[id] # None /\ files'[id].pendLoaded =>
                          files[id] # None /\ files[id].pendLoaded /\ files'[id].gen = files[id].gen /\ files'[id].life = files[id].life)
    <3>1. CASE files'[id] = files[id] /\ ~watch.obs
      BY <2>1, <2>2, <2>3, <2>4, <2>6, <3>1 DEF FileOf
    <3>2. CASE files'[id] = None
      BY <2>1, <2>3, <2>4, <3>2 DEF FileOf
    <3>3. CASE watch.obs /\ files[id] = None /\ files'[id] = contentState(watch.gen, disk[id])
      <4>1. watch.gen \in Gens
        BY <1>0 DEF Watchers
      <4>2. /\ files'[id].gen = watch.gen /\ files'[id].life = disk[id].life
            /\ files'[id].pend = None /\ ~files'[id].pendLoaded
        BY <2>3, <3>3, <4>1, FreshTyped
      <4> QED
        BY <2>1, <2>2, <2>3, <2>4, <3>3, <4>2 DEF FileOf
    <3>4. CASE watch.obs /\ files[id] # None /\ files'[id] = Observed(files[id], disk[id])
      <4>1. files[id] \in FileStates
        BY <1>0, <3>4
      <4>2. /\ files'[id].gen = watch.gen /\ files'[id].life = disk[id].life
            /\ files'[id].pend = files[id].pend /\ files'[id].pendLoaded = files[id].pendLoaded
        BY <3>4, <4>1, ObservedIs
      <4>3. files[id].gen = watch.gen /\ files[id].life = watch.life[id] /\ files[id].life \in Lives
        BY <2>6, <3>4, <4>1 DEF FileOf, FileStates
      <4>4. files[id].life = disk[id].life
        BY <2>1, <4>3, Constants DEF Lives
      <4> QED
        BY <2>1, <2>2, <2>3, <2>4, <2>6, <3>4, <4>2, <4>3, <4>4 DEF FileOf
    <3> QED
      BY <2>5, <3>1, <3>2, <3>3, <3>4
  <2>8. \A i \in Ids : i # id => FileOf(i)'
    BY <2>1, <2>2, <2>4 DEF ConsentKept, WatchShape, FileOf
  <2>9. ASSUME NEW s \in tick.saves
        PROVE  SaveOf(s)'
    <3>1. SaveOf(s) /\ s.id \in Ids
      BY DEF ConsentKept, WatchShape, TypeOK, Ticks, SaveSet
    <3> QED
      BY <2>4, <2>7, <3>1 DEF SaveOf
  <2>10. WatchShape'
    BY <2>1, <2>7, <2>8, <2>9 DEF WatchShape
  <2> QED
    BY <2>1, <2>10 DEF ConsentKept, LoopShape, FlightShape, InFlight, PendingCovered, allowed
<1>3. ASSUME NEW id \in Ids, Deliver(id)
      PROVE  ConsentKept'
  <2>1. UNCHANGED <<disk, latest, calls, files, tick, pending>>
    BY <1>3 DEF Deliver
  <2>2. watch'.gen = watch.gen /\ watch'.obs = watch.obs /\ watch'.life = watch.life
    BY <1>0, <1>3 DEF Deliver, Watchers
  <2>3. \A i \in Ids : disk'[i].life >= disk[i].life
    BY <2>1, Constants DEF TypeOK, Lives
  <2>4. \A i \in Ids : files'[i] = None \/ SameFile(files[i], files'[i])
    BY <2>1 DEF SameFile
  <2> QED
    BY <2>1, <2>2, <2>3, <2>4, QuietKeeps DEF ConsentKept, LoopShape
<1>4. ASSUME NEW id \in Ids, ForgetContent(id)
      PROVE  ConsentKept'
  <2>1. /\ UNCHANGED <<disk, latest, calls, tick>> /\ tick.pc # "down"
    BY <1>4 DEF ForgetContent, watching
  <2>2. watch'.gen = watch.gen /\ watch'.obs = watch.obs /\ watch'.life = [watch.life EXCEPT ![id] = 0]
    BY <1>0, <1>4 DEF ForgetContent, Watchers
  <2>3. \A i \in Ids : i # id => files'[i] = files[i] /\ watch'.life[i] = watch.life[i]
    BY <1>0, <1>4, <2>2 DEF ForgetContent, Watchers
  <2>4. files'[id] = None /\ watch'.life[id] = 0
    <3>1. ~watch.obs => files[id] = None
      BY DEF ConsentKept, WatchShape, FileOf
    <3> QED
      BY <1>0, <1>4, <2>2, <3>1 DEF ForgetContent, Watchers
  <2>5. \A i \in Ids : pending'[i] = None \/ pending'[i] = pending[i]
    BY <1>4 DEF ForgetContent, TypeOK
  <2>6. WatchShape'
    <3>1. disk[id].life \in Nat
      BY Constants DEF TypeOK, Lives
    <3>2. FileOf(id)'
      BY <2>1, <2>4, <3>1 DEF FileOf
    <3>3. \A i \in Ids : i # id => FileOf(i)'
      BY <2>1, <2>2, <2>3 DEF ConsentKept, WatchShape, FileOf
    <3>4. ASSUME NEW s \in tick.saves
          PROVE  SaveOf(s)'
      <4>1. SaveOf(s) /\ s.id \in Ids
        BY DEF ConsentKept, WatchShape, TypeOK, Ticks, SaveSet
      <4> QED
        BY <2>3, <2>4, <4>1 DEF SaveOf
    <3> QED
      BY <2>1, <3>2, <3>3, <3>4 DEF WatchShape
  <2>7. PendingCovered'
    BY <2>1, <2>5 DEF ConsentKept, PendingCovered, allowed
  <2> QED
    BY <2>1, <2>6, <2>7 DEF ConsentKept, LoopShape, FlightShape, InFlight, allowed
<1> QED
  BY <1>1, <1>2, <1>3, <1>4 DEF Watcher

\* The plan keeps or drops every transcript, and the records it owes are about the ones it keeps.
LEMMA PlannedWatch ==
  ASSUME TypeOK, ConsentKept, watch' = watch, disk' = disk,
         files' = [id \in Ids |-> PlannedState(id)],
         tick'.saves \subseteq Saves([id \in Ids |-> PlannedState(id)])
  PROVE  WatchShape'
<1> DEFINE fs == [id \in Ids |-> PlannedState(id)]
<1>1. ASSUME NEW id \in Ids
      PROVE  FileOf(id)'
  <2>1. FileOf(id)
    BY DEF ConsentKept, WatchShape
  <2>2. files'[id] = None \/ Replanned(id, files'[id])
    BY PlannedIs
  <2> QED
    BY <2>1, <2>2 DEF FileOf, Replanned
<1>2. fs \in [Ids -> FileStates \cup {None}]
  BY PlanTyped
<1>3. ASSUME NEW s \in tick'.saves
      PROVE  SaveOf(s)'
  <2>1. s \in Saves(fs)
    OBVIOUS
  <2> HIDE DEF fs
  <2>2. s.rec.gen = fs[s.id].gen /\ s.rec.life = fs[s.id].life
    BY <1>2, <2>1, SavesAre
  <2> QED
    BY <2>2 DEF SaveOf, fs
<1> QED
  BY <1>1, <1>3 DEF WatchShape


LEMMA PlanConsent ==
  ASSUME TypeOK, ConsentKept, (\E stable \in SUBSET Ids : TickPlan(stable)) \/ recordOwedIfStale
  PROVE  ConsentKept'
<1>0. tick \in Ticks
  BY DEF TypeOK
<1>1. /\ tick.pc \in {"idle", "owed"} /\ tick'.pc = "save" /\ Still /\ pending' = pending
      /\ tick.pc = "idle" => refreshed
  BY <1>0 DEF TickPlan, recordOwedIfStale, durable, Ticks, NoTick
<1>2. WatchShape'
  <2> DEFINE fs == [id \in Ids |-> PlannedState(id)]
  <2>1. \/ files' = fs /\ tick'.saves \subseteq Saves(fs)
        \/ files' = files /\ tick'.saves = {}
    <3>1. CASE \E stable \in SUBSET Ids : TickPlan(stable)
      <4>1. files' = fs /\ tick'.saves = Saves(fs)
        BY <1>0, <3>1 DEF TickPlan, Ticks
      <4> QED
        BY <4>1
    <3>2. CASE recordOwedIfStale
      BY <3>2 DEF recordOwedIfStale, NoTick
    <3> QED
      BY <3>1, <3>2
  <2>2. watch' = watch /\ disk' = disk
    BY <1>1 DEF Still
  <2>3. CASE files' = fs /\ tick'.saves \subseteq Saves(fs)
    BY <2>2, <2>3, PlannedWatch
  <2>4. CASE files' = files /\ tick'.saves = {}
    BY <2>2, <2>4 DEF ConsentKept, WatchShape, FileOf
  <2> QED
    BY <2>1, <2>3, <2>4
<1>3. LoopShape'
  BY <1>1 DEF ConsentKept, LoopShape, refreshed, Still
<1>4. FlightShape' /\ PendingCovered'
  BY <1>1 DEF ConsentKept, FlightShape, InFlight, PendingCovered, allowed, Still
<1> QED
  BY <1>2, <1>3, <1>4 DEF ConsentKept

LEMMA SaveConsent ==
  ASSUME TypeOK, ConsentKept, savePendingRecord
  PROVE  ConsentKept'
<1>1. PICK s \in tick.saves :
        /\ tick.pc = "save" /\ tick' = [tick EXCEPT !.saves = @ \ {s}]
        /\ \/ /\ pendingCurrent(s)
              /\ pending' = [pending EXCEPT ![s.id] = s.rec]
              /\ files' = [files EXCEPT ![s.id] = IF @ = None THEN None ELSE [@ EXCEPT !.pend = s.rec]]
           \/ pending' = pending /\ files' = files
  BY DEF savePendingRecord
<1>2. Still
  BY DEF savePendingRecord
<1>3. s \in SaveSet /\ s.id \in Ids /\ s.rec \in Records
  BY DEF TypeOK, Ticks, SaveSet
<1>4. tick'.pc = "save" /\ tick'.saves \subseteq tick.saves
  BY <1>1 DEF TypeOK, Ticks
<1>5. LoopShape' /\ FlightShape'
  BY <1>1, <1>2, <1>4 DEF ConsentKept, LoopShape, FlightShape, InFlight, Still
<1>6. CASE pending' = pending /\ files' = files
  BY <1>1, <1>2, <1>4, <1>5, <1>6
     DEF ConsentKept, WatchShape, FileOf, SaveOf, PendingCovered, allowed, Still
<1>7. CASE /\ pendingCurrent(s)
           /\ pending' = [pending EXCEPT ![s.id] = s.rec]
           /\ files' = [files EXCEPT ![s.id] = IF @ = None THEN None ELSE [@ EXCEPT !.pend = s.rec]]
  <2>1. files[s.id] # None /\ files[s.id].pendLoaded /\ allowed(files[s.id].gen) /\ files[s.id] \in FileStates
    BY <1>3, <1>7 DEF pendingCurrent, TypeOK
  <2>2. s.rec.gen = files[s.id].gen /\ s.rec.life = files[s.id].life
    BY <2>1 DEF ConsentKept, WatchShape, SaveOf
  <2>3. files' = [files EXCEPT ![s.id] = [files[s.id] EXCEPT !.pend = s.rec]]
    BY <1>7, <2>1
  <2> DEFINE g == [files[s.id] EXCEPT !.pend = s.rec]
  <2>4. g.gen = files[s.id].gen /\ g.life = files[s.id].life /\ g.pend = s.rec /\ g.pendLoaded = files[s.id].pendLoaded
    BY <2>1 DEF FileStates
  <2>5. files'[s.id] = g /\ \A i \in Ids : i # s.id => files'[i] = files[i]
    BY <1>3, <2>3 DEF TypeOK
  <2> HIDE DEF g
  <2>6. ASSUME NEW i \in Ids
        PROVE  FileOf(i)'
    <3>1. FileOf(i)
      BY DEF ConsentKept, WatchShape
    <3> QED
      BY <1>2, <2>1, <2>2, <2>4, <2>5, <3>1 DEF FileOf, Still
  <2>7. ASSUME NEW r \in tick'.saves
        PROVE  SaveOf(r)'
    <3>1. SaveOf(r) /\ r.id \in Ids
      BY <1>4 DEF ConsentKept, WatchShape, TypeOK, Ticks, SaveSet
    <3> QED
      BY <2>1, <2>4, <2>5, <3>1 DEF SaveOf
  <2>8. PendingCovered'
    <3>1. pending'[s.id] = s.rec /\ \A i \in Ids : i # s.id => pending'[i] = pending[i]
      BY <1>3, <1>7 DEF TypeOK
    <3>2. allowed(s.rec.gen) /\ latest' = latest /\ calls' = calls
      BY <1>2, <2>1, <2>2 DEF Still
    <3> QED
      BY <1>1, <3>1, <3>2 DEF ConsentKept, PendingCovered, allowed
  <2> QED
    BY <1>5, <2>6, <2>7, <2>8 DEF ConsentKept, WatchShape
<1> QED
  BY <1>1, <1>6, <1>7

LEMMA JobConsent ==
  ASSUME TypeOK, TypeOK', ConsentKept, TickJob
  PROVE  ConsentKept'
<1>0. tick.pc = "job" /\ refreshed /\ Still /\ tick \in Ticks /\ tick.saves = {}
  BY DEF TypeOK, TickJob, ConsentKept, LoopShape
<1>1. PICK j \in tick.jobs :
           /\ j \in JobSet /\ j.id \in Ids
           /\ \/ /\ tick' = NoTick \/ tick' = [Owed EXCEPT !.jobs = @ \ {j}]
                 /\ UNCHANGED <<files, pending>>
              \/ /\ files[j.id] # None
                 /\ files' = [files EXCEPT ![j.id] = [markEvaluated(files[j.id], Stat(disk[j.id]), j.gc) EXCEPT !.pend = None]]
                 /\ pending' = [pending EXCEPT ![j.id] = None]
                 /\ tick' = [Owed EXCEPT !.jobs = @ \ {j}]
              \/ /\ tick' = [tick EXCEPT !.jobs = @ \ {j}, !.job = j, !.pc = "look", !.snap = disk[j.id]]
                 /\ UNCHANGED <<files, pending>>
  BY JobTaken
<1>2. tick'.pc \in {"idle", "owed", "look"} /\ tick'.saves = {}
  <2>1. ASSUME tick' = [Owed EXCEPT !.jobs = @ \ {j}]
        PROVE  tick'.pc = "owed" /\ tick'.saves = {}
    BY <2>1, LoopTyped DEF Ticks
  <2>2. ASSUME tick' = NoTick
        PROVE  tick'.pc = "idle" /\ tick'.saves = {}
    BY <2>2 DEF NoTick
  <2>3. ASSUME tick' = [tick EXCEPT !.jobs = @ \ {j}, !.job = j, !.pc = "look", !.snap = disk[j.id]]
        PROVE  tick'.pc = "look" /\ tick'.saves = {}
    BY <1>0, <2>3 DEF Ticks
  <2> QED
    BY <1>1, <2>1, <2>2, <2>3
<1>3. \A id \in Ids : pending'[id] = None \/ pending'[id] = pending[id]
  BY <1>1 DEF TypeOK
<1>4. \A id \in Ids : files'[id] = None \/ SameFile(files[id], files'[id])
  <2>1. CASE files' = files
    BY <2>1 DEF SameFile
  <2>2. CASE /\ files[j.id] # None
             /\ files' = [files EXCEPT ![j.id] = [markEvaluated(files[j.id], Stat(disk[j.id]), j.gc) EXCEPT !.pend = None]]
    <3> DEFINE m == markEvaluated(files[j.id], Stat(disk[j.id]), j.gc)
    <3>1. files[j.id] \in FileStates /\ Stat(disk[j.id]) \in Pairs /\ j.gc \in BOOLEAN
      BY <1>1, <2>2, SnapshotParts DEF TypeOK, JobSet
    <3>2. m \in FileStates /\ m = [files[j.id] EXCEPT !.eval = <<Stat(disk[j.id]), j.gc>>]
      BY <3>1, MarkTyped
    <3>3. m.gen = files[j.id].gen /\ m.life = files[j.id].life /\ m.pendLoaded = files[j.id].pendLoaded
      BY <3>1, <3>2 DEF FileStates
    <3> HIDE DEF m
    <3>4. LET g == [m EXCEPT !.pend = None]
          IN  g.gen = m.gen /\ g.life = m.life /\ g.pendLoaded = m.pendLoaded /\ g.pend = None
      BY <3>2 DEF FileStates
    <3>5. files' = [files EXCEPT ![j.id] = [m EXCEPT !.pend = None]]
      BY <2>2 DEF m
    <3> QED
      BY <1>1, <2>2, <3>3, <3>4, <3>5 DEF SameFile, TypeOK
  <2> QED
    BY <1>1, <2>1, <2>2
<1> QED
  BY <1>0, <1>2, <1>3, <1>4, QuietLoop

LEMMA ProcessConsent ==
  ASSUME TypeOK, TypeOK', ConsentKept, processOne
  PROVE  ConsentKept'
<1> DEFINE id == tick.job.id
           st == files[id]
<1>1. /\ tick.pc = "look" /\ Still /\ pending' = pending /\ tick.saves = {} /\ tick \in Ticks
  BY DEF processOne, durable, TypeOK, ConsentKept, LoopShape
<1>2. id \in Ids /\ st \in FileStates \cup {None} /\ files \in [Ids -> FileStates \cup {None}]
  BY <1>1, JobInHand DEF TypeOK
<1>3. tick'.pc \in {"owed", "persist", "reg"} /\ tick'.saves = {}
  <2>1. Owed.pc = "owed" /\ Owed.saves = {}
    BY LoopTyped
  <2>2. After("persist") \in Ticks /\ After("persist").pc = "persist" /\ After("persist").saves = {}
    BY LoopTyped
  <2> QED
    BY <1>1, <2>1, <2>2, ProcessIs DEF Ticks
<1>4. \A i \in Ids : files'[i] = None \/ SameFile(files[i], files'[i])
  <2>1. CASE files' = files
    BY <2>1 DEF SameFile
  <2>2. CASE st # None /\ sameSnapshot(st) /\ files' = [files EXCEPT ![id] = seenState(st)]
    <3>1. /\ seenState(st).gen = st.gen /\ seenState(st).life = st.life /\ seenState(st).pend = None
          /\ seenState(st).pendLoaded = st.pendLoaded
      BY <1>1, <1>2, <2>2, SeenIs
    <3> QED
      BY <1>2, <2>2, <3>1 DEF SameFile
  <2> QED
    BY <2>1, <2>2, ProcessIs
<1> QED
  BY <1>1, <1>3, <1>4, QuietLoop

LEMMA RegisterConsent ==
  ASSUME TypeOK, TypeOK', ConsentKept, RegisterFlight
  PROVE  ConsentKept'
<1>1. /\ tick.pc = "reg" /\ refreshed /\ Still /\ pending' = pending /\ tick.saves = {} /\ tick \in Ticks
  BY DEF RegisterFlight, durable, TypeOK, ConsentKept, LoopShape
<1>2. tick.job.id \in Ids /\ files \in [Ids -> FileStates \cup {None}]
  BY <1>1, JobInHand DEF TypeOK
<1>3. CASE files' = [files EXCEPT ![tick.job.id] = None] /\ tick' = Owed
  <2>1. \A i \in Ids : files'[i] = None \/ SameFile(files[i], files'[i])
    BY <1>2, <1>3 DEF SameFile
  <2>2. tick'.pc = "owed" /\ tick'.saves = {}
    BY <1>3, LoopTyped
  <2> QED
    BY <1>1, <2>1, <2>2, QuietLoop
<1>4. CASE /\ allowed(tick.job.gen) /\ files' = files
           /\ tick' = [tick EXCEPT !.pc = "fly", !.withdrawn = FALSE, !.tok = token]
  <2>1. tick'.pc = "fly" /\ tick'.saves = {} /\ tick'.job = tick.job
    BY <1>1, <1>4 DEF Ticks
  <2>2. allowed(tick.job.gen)'
    BY <1>1, <1>4, <2>1 DEF allowed, Still
  <2>3. FlightShape'
    BY <2>2 DEF FlightShape
  <2> QED
    BY <1>1, <1>4, <2>1, <2>3
       DEF ConsentKept, LoopShape, refreshed, WatchShape, FileOf, PendingCovered, allowed, Still
<1> QED
  BY <1>3, <1>4 DEF RegisterFlight

LEMMA OutcomeConsent ==
  ASSUME TypeOK, TypeOK', ConsentKept, Outcome
  PROVE  ConsentKept'
<1> DEFINE id == tick.job.id
           st == files[id]
<1>1. /\ tick.pc = "out" /\ id \in Ids /\ st \in FileStates \cup {None} /\ Still /\ pending' = pending
  BY OutcomeIs DEF durable
<1>2. tick.saves = {} /\ tick \in Ticks /\ files \in [Ids -> FileStates \cup {None}]
  BY <1>1 DEF TypeOK, ConsentKept, LoopShape
<1>3. tick'.pc \in {"owed", "persist", "drop", "reg"} /\ tick'.saves = {}
  <2>1. Owed.pc = "owed" /\ Owed.saves = {}
    BY LoopTyped
  <2>2. After("persist") \in Ticks /\ After("persist").pc = "persist" /\ After("persist").saves = {}
    BY LoopTyped
  <2>3. After("drop").pc = "drop" /\ After("drop").saves = {}
    BY LoopTyped
  <2>4. ASSUME NEW m, tick' = [After("persist") EXCEPT !.next = "drop", !.rec = m]
        PROVE  tick'.pc = "persist" /\ tick'.saves = {}
    BY <2>2, <2>4 DEF Ticks
  <2>5. ASSUME tick' = [tick EXCEPT !.pc = "reg", !.gc = FALSE, !.res = None]
        PROVE  tick'.pc = "reg" /\ tick'.saves = {}
    BY <1>2, <2>5 DEF Ticks
  <2> QED
    BY <2>1, <2>3, <2>4, <2>5, OutcomeIs
<1>4. \A i \in Ids : files'[i] = None \/ SameFile(files[i], files'[i])
  <2>f. ASSUME NEW g, st # None, files' = [files EXCEPT ![id] = g],
               g.gen = st.gen, g.life = st.life, g.pendLoaded = st.pendLoaded, g.pend = st.pend \/ g.pend = None
        PROVE  \A i \in Ids : files'[i] = None \/ SameFile(files[i], files'[i])
    BY <1>1, <1>2, <2>f DEF SameFile
  <2>1. CASE files' = files
    BY <2>1 DEF SameFile
  <2>2. CASE files' = [files EXCEPT ![id] = None]
    BY <1>1, <1>2, <2>2 DEF SameFile
  <2>3. CASE st # None /\ files' = [files EXCEPT ![id] = recordPostFailure(st)]
    BY <1>1, <2>3, <2>f, FailureIs
  <2>4. CASE st # None /\ files' = [files EXCEPT ![id] = acceptedSnapshot(st)]
    BY <1>1, <2>4, <2>f, AcceptedIs
  <2>5. CASE st # None /\ files' = [files EXCEPT ![id] = [st EXCEPT !.refused = TRUE]]
    BY <1>1, <2>5, <2>f, RefusedIs
  <2>6. CASE st # None /\ files' = [files EXCEPT ![id] = [Settled(st, FALSE) EXCEPT
                                                     !.pend = IF tick.res = "reject" THEN None ELSE st.pend]]
    <3> DEFINE p == IF tick.res = "reject" THEN None ELSE st.pend
               g == [Settled(st, FALSE) EXCEPT !.pend = p]
    <3>1. st \in FileStates /\ p \in Records \cup {None}
      BY <1>1, <2>6 DEF FileStates
    <3>2. g.gen = st.gen /\ g.life = st.life /\ g.pendLoaded = st.pendLoaded /\ g.pend = p
      BY <1>1, <3>1, RejectedIs
    <3>3. p = None \/ p = st.pend
      OBVIOUS
    <3>4. files' = [files EXCEPT ![id] = g]
      BY <2>6
    <3> HIDE DEF g, p
    <3> QED
      BY <2>6, <2>f, <3>2, <3>3, <3>4
  <2> QED
    BY <2>1, <2>2, <2>3, <2>4, <2>5, <2>6, OutcomeIs
<1> QED
  BY <1>1, <1>2, <1>3, <1>4, QuietLoop

LEMMA TickConsent ==
  ASSUME TypeOK, TypeOK', ConsentKept, Tick
  PROVE  ConsentKept'
<1>0. tick \in Ticks /\ \A i \in Ids : files[i] = None \/ SameFile(files[i], files[i])
  BY DEF TypeOK, SameFile
<1>1. CASE TickGate
  <2>1. /\ tick.pc = "save" /\ tick.saves = {} /\ Still /\ files' = files /\ pending' = pending
    BY <1>1 DEF TickGate, durable
  <2>2. tick'.pc \in {"idle", "job"} /\ tick'.saves = {}
    BY <1>0, <1>1, <2>1 DEF TickGate, NoTick, Ticks
  <2> QED
    BY <1>0, <2>1, <2>2, QuietLoop
<1>2. CASE PostContent
  <2>1. /\ tick.pc = "fly" /\ tick.saves = {} /\ Still /\ files' = files /\ pending' = pending
    BY <1>2 DEF PostContent, durable, ConsentKept, LoopShape
  <2>2. tick'.pc = "out" /\ tick'.saves = {} /\ tick'.job = tick.job /\ tick'.withdrawn = tick.withdrawn
    BY <1>0, <1>2, <2>1 DEF PostContent, Ticks
  <2> QED
    BY <1>0, <2>1, <2>2, QuietLoop
<1>3. CASE persistMarker \/ dropPending
  <2>1. /\ tick.pc \in {"persist", "drop"} /\ tick.saves = {} /\ Still /\ files' = files
    BY <1>3 DEF persistMarker, dropPending, ConsentKept, LoopShape
  <2>2. tick'.pc \in {"drop", "owed"} /\ tick'.saves = {}
    BY <1>3, LoopTyped DEF persistMarker, dropPending
  <2>3. \A i \in Ids : pending'[i] = None \/ pending'[i] = pending[i]
    BY <1>3 DEF persistMarker, dropPending, TypeOK
  <2> QED
    BY <1>0, <2>1, <2>2, <2>3, QuietLoop
<1> QED
  BY <1>1, <1>2, <1>3, PlanConsent, SaveConsent, JobConsent, ProcessConsent, RegisterConsent, OutcomeConsent DEF Tick

LEMMA ProcessStepConsent ==
  ASSUME TypeOK, TypeOK', ConsentKept, Process
  PROVE  ConsentKept'
<1>0. \A id \in Ids : disk[id].life \in Nat
  BY Constants DEF TypeOK, Lives
<1>1. CASE Stop \/ Kill
  <2>1. Down
    BY <1>1 DEF Stop, Kill
  <2>2. /\ tick'.pc = "down" /\ tick'.saves = {} /\ files' = [id \in Ids |-> None] /\ calls' = {} /\ disk' = disk
        /\ watch'.life = [id \in Ids |-> 0]
    BY <2>1 DEF Down, NoTick, TypeOK, Watchers
  <2> QED
    BY <1>0, <2>2 DEF ConsentKept, LoopShape, WatchShape, FileOf, FlightShape, InFlight, PendingCovered
<1>2. CASE Start
  <2>1. /\ tick.pc = "down" /\ tick'.pc = "idle" /\ tick'.saves = {} /\ latest' = policy /\ UNCHANGED <<disk, calls, files>>
        /\ watch'.life = [id \in Ids |-> 0]
        /\ pending' = [id \in Ids |-> IF pending[id] # None /\ contentAllowedBy(policy, pending[id].gen)
                                      THEN pending[id] ELSE None]
    BY <1>2 DEF Start, NoTick
  <2>2. calls = {} /\ \A id \in Ids : files[id] = None
    BY <2>1 DEF ConsentKept, LoopShape
  <2> QED
    BY <1>0, <2>1, <2>2
       DEF ConsentKept, LoopShape, WatchShape, FileOf, FlightShape, InFlight, PendingCovered, allowed
<1> QED
  BY <1>1, <1>2 DEF Process

LEMMA ToolConsent ==
  ASSUME TypeOK, TypeOK', ConsentKept, Reupload
  PROVE  ConsentKept'
<1>1. UNCHANGED others
  BY DEF Reupload, RunContentReupload, ToolRead, postReupload, ToolMarker, ToolSettle, ToolEnds
<1> QED
  BY <1>1
     DEF others, daemon, ConsentKept, LoopShape, WatchShape, FileOf, SaveOf, FlightShape, InFlight, PendingCovered, allowed

LEMMA ConsentKeeps == Spec => []ConsentKept
<1>1. TypeOK /\ TypeOK' /\ ConsentKept /\ [Next]_vars => ConsentKept'
  <2> SUFFICES ASSUME TypeOK, TypeOK', ConsentKept, [Next]_vars PROVE ConsentKept'
    OBVIOUS
  <2>1. CASE UNCHANGED vars
    BY <2>1
       DEF vars, ConsentKept, LoopShape, WatchShape, FileOf, SaveOf, FlightShape, InFlight, PendingCovered, allowed
  <2>2. CASE Next
    BY <2>2, WorldConsent, ChangeConsent, WatcherConsent, TickConsent, ProcessStepConsent, ToolConsent DEF Next
  <2> QED
    BY <2>1, <2>2
<1> QED
  BY <1>1, Types, InitConsent, PTL DEF Spec

\* A withdrawal reaches what is in flight and what is queued, whichever loop sees the new policy
\* first and whatever it was writing then (onConsentChange, postSnapshot, savePendingRecord,
\* sweepPending, newContentUploader).
THEOREM ConsentHonoured == Spec => []ConsentCovered
<1>1. ConsentKept => ConsentCovered
  BY DEF ConsentKept, ConsentCovered, FlightShape, FlightCovered
<1> QED
  BY <1>1, ConsentKeeps, PTL

-----------------------------------------------------------------------------
(* Sessions, markers and the journal *)

Reads == {"look", "reg", "fly", "out"}

\* No marker, session or answer has outlived its file.
Clean == budget.stale = {}

\* The collector has taken these bytes.
Taken(b) == (\E x \in store : x[2] = b) \/ <<"mismatch", b>> \in judged

\* A marker is about bytes the collector took, under their own session; one from before the cutoff
\* is about the first transcript.
First(m) == m.native = 1 /\ m.bytes[1] = 1
MarkerTrue(m) == Taken(m.bytes) /\ (m.old => First(m)) /\ (Clean => m.native = m.bytes[1])
PendTrue(p) == Clean => p.native = p.life

\* Everything a queued transcript would be keyed by is its own.
FileTrue(id) ==
  /\ files[id].uploaded => files[id].mk # None /\ Taken(files[id].mk.bytes)
  /\ Clean =>
       /\ session[id] \in {0, files[id].life}
       /\ marker[id] # None => marker[id].bytes[1] = files[id].life
       /\ files[id].mk # None => files[id].mk.native = files[id].life /\ files[id].mk.bytes[1] = files[id].life
       /\ files[id].pend # None => files[id].pend.native = files[id].life
TablesTrue ==
  \A id \in Ids :
    /\ files[id] # None => FileTrue(id)
    /\ marker[id] # None => MarkerTrue(marker[id])
    /\ pending[id] # None => PendTrue(pending[id])

\* A job is about a transcript that was there when it was planned: the file, and what the watcher
\* tracks, are that one or a later one.
JobTrue(j) ==
  /\ j.life <= disk[j.id].life /\ (watch.life[j.id] # 0 => j.life <= watch.life[j.id])
  /\ Clean => j.native = j.life
RecTrue ==
  tick.rec # None =>
    tick.pc = "persist" /\ tick.rec.bytes[1] = tick.job.life /\ ~tick.rec.old /\ MarkerTrue(tick.rec)
LoopTrue ==
  /\ \A s \in tick.saves : PendTrue(s.rec)
  /\ \A j \in tick.jobs : JobTrue(j)
  /\ tick.pc \in Reads \cup {"persist"} => JobTrue(tick.job)
  /\ tick.pc \in Reads => tick.snap.life = tick.job.life
  /\ RecTrue
  /\ tick.res \in {"ok", "mismatch"} => Taken(Bytes(tick.snap))

\* The tool works on markers of before the cutoff, and has sent what it settles.
ToolTrue ==
  /\ \A it \in tool.items : First(it.m)
  /\ tool.pc \in {"post", "marker", "settle"} => First(tool.at.m) /\ tool.snap.life = 1
  /\ tool.pc \in {"marker", "settle"} => <<1, Bytes(tool.snap), "after">> \in store

RecordsTrue == TablesTrue /\ LoopTrue /\ ToolTrue /\ KeyedRight /\ JournalHonest

\* The collector forgets nothing, and neither does the note of what was stale.
Grows == store \subseteq store' /\ judged \subseteq judged' /\ budget.stale \subseteq budget'.stale

LEMMA StepGrows ==
  ASSUME TypeOK, Next
  PROVE  Grows
<1>0. ASSUME store' = store, judged' = judged, budget.stale \subseteq budget'.stale
      PROVE  Grows
  BY <1>0 DEF Grows
<1>1. CASE World
  <2>1. budget'.stale = budget.stale
    BY <1>1, BudgetTyped DEF World, WriteTranscript, ReplaceTranscript, WritePolicy, HoldPasses, RenewToken
  <2> QED
    BY <1>0, <1>1, <2>1
       DEF World, WriteTranscript, ReplaceTranscript, WritePolicy, HoldPasses, RenewToken, outside
<1>2. CASE Consent
  BY <1>0, <1>2 DEF Consent, Current, onConsentChange, sweepPending, outside
<1>3. CASE Watcher
  <2>1. budget.stale \subseteq budget'.stale
    <3>1. CASE RebuildWatcher
      BY <3>1 DEF RebuildWatcher
    <3>2. ASSUME NEW id \in Ids, observe(id)
          PROVE  budget.stale \subseteq budget'.stale
      BY <3>2, BudgetTyped DEF observe
    <3>3. ASSUME NEW id \in Ids, Deliver(id) \/ ForgetContent(id)
          PROVE  budget.stale \subseteq budget'.stale
      BY <3>3, BudgetTyped DEF Deliver, ForgetContent
    <3> QED
      BY <1>3, <3>1, <3>2, <3>3 DEF Watcher
  <2> QED
    BY <1>0, <1>3, <2>1 DEF Watcher, RebuildWatcher, observe, Deliver, ForgetContent, outside
<1>4. CASE Tick
  <2>1. CASE \/ \E stable \in SUBSET Ids : TickPlan(stable)
             \/ TickGate \/ TickJob \/ processOne \/ RegisterFlight \/ recordOwedIfStale
    BY <1>0, <2>1 DEF TickPlan, TickGate, TickJob, processOne, RegisterFlight, recordOwedIfStale, outside
  <2>2. CASE savePendingRecord \/ dropPending
    BY <1>0, <2>2, BudgetTyped DEF savePendingRecord, dropPending, outside
  <2>3. CASE PostContent
    <3>1. tick.job.native \in Lives /\ Bytes(tick.snap) \in Pairs
      BY <2>3, JobInHand DEF PostContent
    <3> QED
      BY <1>0, <2>3, <3>1, AnsweredTyped DEF PostContent, Grows
  <2>4. CASE Outcome
    <3>1. tick.job # None /\ (budget' = budget \/ NoteOutcome) /\ UNCHANGED outside
      BY <2>4, OutcomeIs DEF TypeOK
    <3> QED
      BY <1>0, <3>1, BudgetTyped DEF outside
  <2>5. CASE persistMarker
    <3>1. tick.job.id \in Ids
      BY <2>5, JobInHand DEF persistMarker
    <3> QED
      BY <1>0, <2>5, <3>1, BudgetTyped DEF persistMarker, outside
  <2> QED
    BY <1>4, <2>1, <2>2, <2>3, <2>4, <2>5 DEF Tick
<1>5. CASE Process
  <2>1. budget'.stale = budget.stale
    BY <1>5, BudgetTyped DEF Process, Stop, Kill, Start, TypeOK, Budgets
  <2> QED
    BY <1>0, <1>5, <2>1 DEF Process, Stop, Kill, Start, Down, outside
<1>6. CASE Reupload
  <2>1. CASE RunContentReupload \/ ToolRead \/ ToolSettle \/ ToolEnds
    BY <1>0, <2>1, BudgetTyped DEF RunContentReupload, ToolRead, ToolSettle, ToolEnds
  <2>2. CASE postReupload
    <3>1. tool.at \in Items /\ tool.at.m.native \in Lives
      BY <2>2 DEF postReupload, TypeOK, Tools, Items, Markers
    <3>2. Bytes(tool.snap) \in Pairs
      BY SnapshotParts DEF TypeOK, Tools
    <3> QED
      BY <2>2, <3>1, <3>2, AnsweredTyped DEF postReupload, Grows
  <2>3. CASE ToolMarker
    <3>1. tool.at.id \in Ids
      BY <2>3 DEF ToolMarker, TypeOK, Tools, Items
    <3> QED
      BY <1>0, <2>3, <3>1, BudgetTyped DEF ToolMarker
  <2> QED
    BY <1>6, <2>1, <2>2, <2>3 DEF Reupload
<1> QED
  BY <1>1, <1>2, <1>3, <1>4, <1>5, <1>6 DEF Next

\* Numbers are reused in order, and the watcher tracks a transcript that is there.
LEMMA LivesMove ==
  ASSUME TypeOK, TypeOK', Next, NEW id \in Ids
  PROVE  disk'[id].life >= disk[id].life /\ watch'.life[id] \in {0, watch.life[id], disk'[id].life}
<1>0. /\ disk \in [Ids -> Snapshots] /\ (\A i \in Ids : disk[i].life \in Nat)
      /\ watch \in Watchers /\ watch.life \in [Ids -> 0..MaxLife]
  BY Constants DEF TypeOK, Lives, Watchers
<1>1. CASE World
  <2>1. watch' = watch
    BY <1>1 DEF World, WriteTranscript, ReplaceTranscript, WritePolicy, HoldPasses, RenewToken, daemon
  <2>2. disk'[id].life >= disk[id].life
    <3>1. ASSUME NEW i \in Ids, WriteTranscript(i)
          PROVE  disk'[id].life >= disk[id].life
      BY <1>0, <3>1, TranscriptGrows
    <3>2. ASSUME NEW i \in Ids, ReplaceTranscript(i)
          PROVE  disk'[id].life >= disk[id].life
      BY <1>0, <3>2, TranscriptReplaced
    <3>3. CASE disk' = disk
      BY <1>0, <3>3
    <3> QED
      BY <1>1, <3>1, <3>2, <3>3 DEF World, WritePolicy, HoldPasses, RenewToken
  <2> QED
    BY <2>1, <2>2
<1>2. CASE Watcher
  <2>1. disk' = disk
    BY <1>2 DEF Watcher, RebuildWatcher, observe, Deliver, ForgetContent
  <2>2. CASE RebuildWatcher
    BY <1>0, <2>1, <2>2 DEF RebuildWatcher
  <2>3. ASSUME NEW i \in Ids, observe(i) \/ Deliver(i) \/ ForgetContent(i)
        PROVE  watch'.life[id] \in {0, watch.life[id], disk'[id].life}
    <3>1. \/ watch'.life = [watch.life EXCEPT ![i] = disk[i].life]
          \/ watch'.life = watch.life
          \/ watch'.life = [watch.life EXCEPT ![i] = 0]
      BY <1>0, <2>3 DEF observe, Deliver, ForgetContent, Watchers
    <3> QED
      BY <1>0, <2>1, <3>1
  <2> QED
    BY <1>0, <1>2, <2>1, <2>2, <2>3 DEF Watcher
<1>3. CASE Process
  <2>1. disk' = disk /\ watch'.life = [i \in Ids |-> 0]
    <3>1. CASE Stop \/ Kill
      <4>1. Down
        BY <3>1 DEF Stop, Kill
      <4> QED
        BY <1>0, <4>1 DEF Down, Watchers
    <3>2. CASE Start
      BY <3>2 DEF Start
    <3> QED
      BY <1>3, <3>1, <3>2 DEF Process
  <2> QED
    BY <1>0, <2>1
<1>4. CASE Tick
  <2>1. Still
    BY <1>4, OutcomeIs
       DEF Tick, TickPlan, savePendingRecord, TickGate, TickJob, processOne, RegisterFlight, PostContent,
           persistMarker, dropPending, recordOwedIfStale
  <2> QED
    BY <1>0, <2>1 DEF Still
<1>5. CASE Consent
  BY <1>0, <1>5 DEF Consent, Current, onConsentChange, sweepPending
<1>6. CASE Reupload
  <2>1. UNCHANGED others
    BY <1>6 DEF Reupload, RunContentReupload, ToolRead, postReupload, ToolMarker, ToolSettle, ToolEnds
  <2> QED
    BY <1>0, <2>1 DEF others, daemon
<1> QED
  BY <1>1, <1>2, <1>3, <1>4, <1>5, <1>6 DEF Next

\* A job stays true, whatever happens.
LEMMA JobStays ==
  ASSUME TypeOK, TypeOK', Next, NEW j \in JobSet, JobTrue(j)
  PROVE  JobTrue(j)'
<1>1. j.id \in Ids /\ j.life \in Nat
  BY Constants DEF JobSet, Lives
<1>2. disk'[j.id].life >= disk[j.id].life /\ watch'.life[j.id] \in {0, watch.life[j.id], disk'[j.id].life}
  BY <1>1, LivesMove
<1>3. /\ disk[j.id].life \in Nat /\ disk'[j.id].life \in Nat /\ watch.life[j.id] \in Nat
  BY <1>1, Constants DEF TypeOK, Lives, Watchers
<1>4. Grows
  BY StepGrows
<1>5. j.life <= disk'[j.id].life
  BY <1>1, <1>2, <1>3 DEF JobTrue
<1>6. watch'.life[j.id] # 0 => j.life <= watch'.life[j.id]
  BY <1>1, <1>2, <1>3, <1>5 DEF JobTrue
<1> QED
  BY <1>4, <1>5, <1>6 DEF JobTrue, Clean, Grows


\* Everything but the loop, the tables and what the collector took stays as it is.
LEMMA ToolStays ==
  ASSUME ToolTrue, JournalHonest, Grows, tool' = tool, journal' = journal
  PROVE  ToolTrue' /\ JournalHonest'
<1>1. ToolTrue'
  BY DEF ToolTrue, Grows
<1>2. JournalHonest'
  BY DEF JournalHonest, Grows
<1> QED
  BY <1>1, <1>2

LEMMA KeysStay ==
  ASSUME KeyedRight, Grows, store' = store
  PROVE  KeyedRight'
BY DEF KeyedRight, Grows

\* A transcript whose own tables are left alone, or lose a record.
LEMMA FileStays ==
  ASSUME TypeOK, TablesTrue, Grows, NEW id \in Ids, files[id] # None, files'[id] = files[id],
         session'[id] = session[id], marker'[id] = None \/ marker'[id] = marker[id]
  PROVE  FileTrue(id)'
<1>1. FileTrue(id)
  BY DEF TablesTrue
<1>2. Clean' => Clean
  BY DEF Clean, Grows
<1>3. files'[id].uploaded => files'[id].mk # None /\ Taken(files[id].mk.bytes)'
  BY <1>1 DEF FileTrue, Taken, Grows
<1>4. Clean' => /\ session'[id] \in {0, files'[id].life}
                /\ marker'[id] # None => marker'[id].bytes[1] = files'[id].life
                /\ files'[id].mk # None => files'[id].mk.native = files'[id].life /\ files'[id].mk.bytes[1] = files'[id].life
                /\ files'[id].pend # None => files'[id].pend.native = files'[id].life
  BY <1>1, <1>2 DEF FileTrue
<1> QED
  BY <1>3, <1>4 DEF FileTrue, Taken, Clean

\* The tables, when each file and each record is dropped, left alone or true.
LEMMA TablesStay ==
  ASSUME TypeOK, TablesTrue, Grows,
         \A id \in Ids : files'[id] = None \/ (files'[id] = files[id] /\ session'[id] = session[id]) \/ FileTrue(id)',
         \A id \in Ids : \/ marker'[id] = None \/ marker'[id] = marker[id]
                         \/ MarkerTrue(marker[id])' /\ (files'[id] = None \/ FileTrue(id)'),
         \A id \in Ids : pending'[id] = None \/ pending'[id] = pending[id] \/ PendTrue(pending[id])'
  PROVE  TablesTrue'
<1> SUFFICES ASSUME NEW id \in Ids
             PROVE  /\ files'[id] # None => FileTrue(id)'
                    /\ marker'[id] # None => MarkerTrue(marker[id])'
                    /\ pending'[id] # None => PendTrue(pending[id])'
  BY DEF TablesTrue
<1>1. files'[id] # None => FileTrue(id)'
  BY FileStays
<1>2. marker'[id] # None => MarkerTrue(marker[id])'
  BY DEF TablesTrue, MarkerTrue, Taken, Clean, Grows
<1>3. pending'[id] # None => PendTrue(pending[id])'
  BY DEF TablesTrue, PendTrue, Clean, Grows
<1> QED
  BY <1>1, <1>2, <1>3

\* The loop, when it takes nothing new in hand.
LoopFrame ==
  /\ tick'.saves \subseteq tick.saves /\ tick'.jobs \subseteq tick.jobs
  /\ tick'.pc \in Reads \cup {"persist"} => tick.pc \in Reads \cup {"persist"} /\ tick'.job = tick.job
  /\ tick'.pc \in Reads => tick.pc \in Reads /\ tick'.snap = tick.snap
  /\ tick'.rec = None \/ (tick'.rec = tick.rec /\ tick'.pc = tick.pc)
  /\ tick'.res \in {"ok", "mismatch"} => tick'.res = tick.res /\ tick'.snap = tick.snap

LEMMA JobsStay ==
  ASSUME TypeOK, TypeOK', Next, LoopTrue, tick'.jobs \subseteq tick.jobs
  PROVE  \A j \in tick'.jobs : JobTrue(j)'
<1> SUFFICES ASSUME NEW j \in tick'.jobs PROVE JobTrue(j)'
  OBVIOUS
<1>1. j \in JobSet /\ JobTrue(j)
  BY DEF LoopTrue, TypeOK, Ticks
<1> QED
  BY <1>1, JobStays

LEMMA SavesStay ==
  ASSUME LoopTrue, Grows, tick'.saves \subseteq tick.saves
  PROVE  \A s \in tick'.saves : PendTrue(s.rec)'
BY DEF LoopTrue, PendTrue, Clean, Grows

LEMMA HandStays ==
  ASSUME TypeOK, TypeOK', Next, LoopTrue, tick.pc \in Reads \cup {"persist"}, tick'.job = tick.job
  PROVE  JobTrue(tick.job)'
<1>1. PICK j \in JobSet : j = tick.job
  BY JobInHand DEF Reads
<1>2. JobTrue(j)
  BY <1>1 DEF LoopTrue
<1>3. JobTrue(j)'
  BY <1>2, JobStays
<1> QED
  BY <1>1, <1>3 DEF JobTrue, Clean

LEMMA LoopStays ==
  ASSUME TypeOK, TypeOK', Next, LoopTrue, LoopFrame
  PROVE  LoopTrue'
<1>0. Grows
  BY StepGrows
<1>1. \A s \in tick'.saves : PendTrue(s.rec)'
  BY <1>0, SavesStay DEF LoopFrame
<1>2. \A j \in tick'.jobs : JobTrue(j)'
  BY JobsStay DEF LoopFrame
<1>3. tick'.pc \in Reads \cup {"persist"} => JobTrue(tick.job)'
  BY HandStays DEF LoopFrame
<1>4. tick'.pc \in Reads => tick'.snap.life = tick'.job.life
  BY DEF LoopFrame, LoopTrue
<1>5. RecTrue'
  <2> SUFFICES ASSUME tick'.rec # None
               PROVE  /\ tick'.pc = "persist" /\ tick'.rec.bytes[1] = tick'.job.life /\ ~tick'.rec.old
                      /\ MarkerTrue(tick.rec)'
    BY DEF RecTrue
  <2>1. tick'.rec = tick.rec /\ tick'.pc = tick.pc /\ RecTrue
    BY DEF LoopFrame, LoopTrue
  <2>2. tick.pc = "persist" /\ tick'.job = tick.job
    BY <2>1 DEF LoopFrame, RecTrue
  <2>3. MarkerTrue(tick.rec)'
    BY <1>0, <2>1 DEF RecTrue, MarkerTrue, Taken, Clean, Grows
  <2> QED
    BY <2>1, <2>2, <2>3 DEF RecTrue
<1>6. tick'.res \in {"ok", "mismatch"} => Taken(Bytes(tick.snap))'
  BY <1>0 DEF LoopFrame, LoopTrue, Taken, Grows, Bytes
<1> QED
  BY <1>1, <1>2, <1>3, <1>4, <1>5, <1>6 DEF LoopTrue

\* All of it, for a step that sends nothing and leaves the tool alone.
LEMMA QuietRecords ==
  ASSUME TypeOK, TypeOK', Next, RecordsTrue, LoopFrame,
         \A id \in Ids : files'[id] = None \/ (files'[id] = files[id] /\ session'[id] = session[id]) \/ FileTrue(id)',
         \A id \in Ids : \/ marker'[id] = None \/ marker'[id] = marker[id]
                         \/ MarkerTrue(marker[id])' /\ (files'[id] = None \/ FileTrue(id)'),
         \A id \in Ids : pending'[id] = None \/ pending'[id] = pending[id] \/ PendTrue(pending[id])',
         tool' = tool, journal' = journal, store' = store
  PROVE  RecordsTrue'
<1>1. Grows
  BY StepGrows
<1>2. TablesTrue'
  BY <1>1, TablesStay DEF RecordsTrue
<1>3. LoopTrue'
  BY LoopStays DEF RecordsTrue
<1>4. ToolTrue' /\ JournalHonest'
  BY <1>1, ToolStays DEF RecordsTrue
<1>5. KeyedRight'
  BY <1>1, KeysStay DEF RecordsTrue
<1> QED
  BY <1>2, <1>3, <1>4, <1>5 DEF RecordsTrue


LEMMA InitRecords == Init => RecordsTrue
<1> SUFFICES ASSUME Init PROVE RecordsTrue
  OBVIOUS
<1>1. PICK old \in BOOLEAN :
        /\ marker = [id \in Ids |-> IF old THEN contentMarker(<<1, 1>>, <<1, 0>>, 1, FALSE, FALSE, TRUE) ELSE None]
        /\ store = IF old THEN {<<1, <<1, 1>>, "before">>} ELSE {}
  BY DEF Init
<1> DEFINE m == contentMarker(<<1, 1>>, <<1, 0>>, 1, FALSE, FALSE, TRUE)
<1>2. m.bytes = <<1, 1>> /\ m.native = 1
  BY DEF contentMarker
<1> HIDE DEF m
<1>3. ASSUME NEW id \in Ids, marker[id] # None
      PROVE  MarkerTrue(marker[id])
  <2>1. marker[id] = m /\ old
    BY <1>1, <1>3 DEF m
  <2>2. <<1, <<1, 1>>, "before">> \in store
    BY <1>1, <2>1
  <2>3. Taken(<<1, 1>>)
    BY <2>2 DEF Taken
  <2> QED
    BY <1>2, <2>1, <2>3 DEF MarkerTrue, First
<1>4. TablesTrue
  BY <1>3 DEF Init, TablesTrue
<1>5. LoopTrue
  <2>1. tick = NoTick /\ None \notin Results
    BY NoneApart DEF Init
  <2> QED
    BY <2>1 DEF LoopTrue, NoTick, Reads, RecTrue, Results
<1>6. ToolTrue
  BY DEF Init, NoTool, ToolTrue
<1>7. KeyedRight
  BY <1>1 DEF KeyedRight
<1>8. JournalHonest
  BY DEF Init, JournalHonest
<1> QED
  BY <1>4, <1>5, <1>6, <1>7, <1>8 DEF RecordsTrue

LEMMA WorldRecords ==
  ASSUME TypeOK, TypeOK', Next, RecordsTrue, World
  PROVE  RecordsTrue'
<1>1. /\ UNCHANGED <<files, session, tick, marker, pending, tool, journal, store>>
  BY DEF World, WriteTranscript, ReplaceTranscript, WritePolicy, HoldPasses, RenewToken, daemon, durable, outside
<1>2. LoopFrame
  BY <1>1 DEF LoopFrame
<1> QED
  BY <1>1, <1>2, QuietRecords

LEMMA ChangeRecords ==
  ASSUME TypeOK, TypeOK', Next, RecordsTrue, Consent
  PROVE  RecordsTrue'
<1>1. /\ UNCHANGED <<session, marker, tool, journal, store>>
  BY DEF Consent, Current, onConsentChange, sweepPending, durable, outside
<1>2. /\ \A id \in Ids : files'[id] = None \/ files'[id] = files[id]
      /\ \A id \in Ids : pending'[id] = None \/ pending'[id] = pending[id]
  BY DEF Consent, Current, onConsentChange, sweepPending, Dropped, sweepContentPending, durable
<1>3. \/ tick' = tick
      \/ \E w \in BOOLEAN : tick' = [tick EXCEPT !.withdrawn = w]
  BY DEF Consent, Current, onConsentChange, sweepPending, TypeOK, Ticks
<1>4. LoopFrame
  BY <1>3 DEF LoopFrame, TypeOK, Ticks
<1> QED
  BY <1>1, <1>2, <1>4, QuietRecords

LEMMA ObserveRecords ==
  ASSUME TypeOK, TypeOK', Next, ConsentKept, RecordsTrue, NEW id \in Ids, observe(id)
  PROVE  RecordsTrue'
<1>1. UNCHANGED <<disk, session, tick, marker, pending, tool, journal, store, judged>>
  BY DEF observe, durable, outside
<1>2. LoopFrame
  BY <1>1 DEF LoopFrame
<1>3. Grows
  BY StepGrows
<1>4. /\ disk[id].len > 0 /\ watch.life[id] \in {0, disk[id].life} /\ NoteMarker(id, marker[id])
      /\ \/ files' = files
         \/ files' = [files EXCEPT ![id] = None]
         \/ files[id] = None /\ files' = [files EXCEPT ![id] = contentState(watch.gen, disk[id])]
         \/ files[id] # None /\ files' = [files EXCEPT ![id] = Observed(files[id], disk[id])]
  BY DEF observe
<1>5. \A i \in Ids : i # id => files'[i] = files[i]
  BY <1>4 DEF TypeOK
<1>6. files'[id] = None \/ files'[id] = files[id] \/ FileTrue(id)'
  <2>0. files \in [Ids -> FileStates \cup {None}] /\ watch.gen \in Gens /\ disk[id] \in Snapshots /\ disk[id].life \in Lives
    BY DEF TypeOK, Watchers
  <2>1. Clean' => /\ session[id] \in {0, disk[id].life}
                  /\ marker[id] # None => marker[id].bytes[1] = disk[id].life
    <3>1. ASSUME budget' = [budget EXCEPT !.stale = @ \cup {id}]
          PROVE  ~Clean'
      BY <3>1 DEF TypeOK, Budgets, Clean
    <3> QED
      BY <1>4, <3>1 DEF NoteMarker
  <2>2. CASE files' = [files EXCEPT ![id] = contentState(watch.gen, disk[id])]
    <3>1. LET c == contentState(watch.gen, disk[id])
          IN  c.life = disk[id].life /\ c.pend = None /\ c.mk = None /\ ~c.uploaded
      BY <2>0, FreshTyped
    <3>2. files'[id] = contentState(watch.gen, disk[id])
      BY <2>0, <2>2
    <3> QED
      BY <1>1, <2>1, <3>1, <3>2 DEF FileTrue, Clean
  <2>3. CASE files[id] # None /\ files' = [files EXCEPT ![id] = Observed(files[id], disk[id])]
    <3>1. LET o == Observed(files[id], disk[id])
          IN  o.life = disk[id].life /\ o.pend = files[id].pend /\ o.mk = files[id].mk /\ o.uploaded = files[id].uploaded
      BY <2>0, <2>3, ObservedIs
    <3>2. files'[id] = Observed(files[id], disk[id])
      BY <2>0, <2>3
    <3>3. files[id].life = disk[id].life
      <4>1. FileOf(id) /\ files[id].life \in Lives
        BY <2>0, <2>3 DEF ConsentKept, WatchShape, FileStates
      <4> QED
        BY <1>4, <2>3, <4>1, Constants DEF FileOf, Lives
    <3>4. FileTrue(id) /\ (Clean' => Clean)
      BY <1>3, <2>3 DEF RecordsTrue, TablesTrue, Clean, Grows
    <3>5. files'[id].uploaded => files'[id].mk # None /\ Taken(files[id].mk.bytes)'
      BY <1>1, <3>1, <3>2, <3>4 DEF FileTrue, Taken
    <3> QED
      BY <1>1, <2>1, <3>1, <3>2, <3>3, <3>4, <3>5 DEF FileTrue, Clean
  <2> QED
    BY <1>4, <2>0, <2>2, <2>3
<1> QED
  BY <1>1, <1>2, <1>5, <1>6, QuietRecords

LEMMA DeliverRecords ==
  ASSUME TypeOK, TypeOK', Next, ConsentKept, RecordsTrue, NEW id \in Ids, Deliver(id)
  PROVE  RecordsTrue'
<1>1. UNCHANGED <<disk, files, tick, marker, pending, tool, journal, store, judged>>
  BY DEF Deliver, outside
<1>2. LoopFrame
  BY <1>1 DEF LoopFrame
<1>3. Grows
  BY StepGrows
<1>4. \/ session' = session
      \/ disk[id].life = watch.life[id] /\ session' = [session EXCEPT ![id] = disk[id].life]
  BY DEF Deliver
<1>5. \A i \in Ids : session'[i] = session[i] \/ (i = id /\ session'[i] = watch.life[i])
  BY <1>4 DEF TypeOK
<1>6. ASSUME NEW i \in Ids, files[i] # None
      PROVE  FileTrue(i)'
  <2>1. FileOf(i) /\ FileTrue(i) /\ (Clean' => Clean)
    BY <1>3, <1>6 DEF ConsentKept, WatchShape, RecordsTrue, TablesTrue, Clean, Grows
  <2>2. session'[i] = session[i] \/ session'[i] = files[i].life
    BY <1>5, <1>6, <2>1 DEF FileOf
  <2> QED
    BY <1>1, <2>1, <2>2 DEF FileTrue, Taken, Clean
<1> QED
  BY <1>1, <1>2, <1>6, QuietRecords

LEMMA WatcherRecords ==
  ASSUME TypeOK, TypeOK', Next, ConsentKept, RecordsTrue, Watcher
  PROVE  RecordsTrue'
<1>1. CASE RebuildWatcher
  <2>1. UNCHANGED <<tick, marker, pending, tool, journal, store>> /\ \A i \in Ids : files'[i] = None
    BY <1>1 DEF RebuildWatcher, durable, outside
  <2>2. LoopFrame
    BY <2>1 DEF LoopFrame
  <2> QED
    BY <2>1, <2>2, QuietRecords
<1>2. ASSUME NEW id \in Ids, ForgetContent(id)
      PROVE  RecordsTrue'
  <2>1. UNCHANGED <<tick, tool, journal, store>>
    BY <1>2 DEF ForgetContent, outside
  <2>2. /\ \A i \in Ids : files'[i] = None \/ (files'[i] = files[i] /\ session'[i] = session[i])
        /\ \A i \in Ids : marker'[i] = None \/ marker'[i] = marker[i]
        /\ \A i \in Ids : pending'[i] = None \/ pending'[i] = pending[i]
    BY <1>2 DEF ForgetContent, TypeOK
  <2>3. LoopFrame
    BY <2>1 DEF LoopFrame
  <2> QED
    BY <2>1, <2>2, <2>3, QuietRecords
<1> QED
  BY <1>1, <1>2, ObserveRecords, DeliverRecords DEF Watcher


\* What a true transcript is keyed by is its own session.
LEMMA KeyTrue ==
  ASSUME TypeOK, NEW id \in Ids, NEW st \in FileStates, session[id] \in {0, st.life},
         st.pend # None => st.pend.native = st.life, st.mk # None => st.mk.native = st.life,
         resolveSession(id, st) # 0
  PROVE  resolveSession(id, st) = st.life
BY ResolvedIs

LEMMA PlannedTrue ==
  ASSUME TypeOK, RecordsTrue, files' = [id \in Ids |-> PlannedState(id)],
         UNCHANGED <<session, marker, pending, store, judged, budget>>,
         NEW id \in Ids, files'[id] # None
  PROVE  FileTrue(id)'
<1>1. Replanned(id, files'[id])
  BY PlannedIs
<1>2. files[id] # None /\ FileTrue(id)
  BY <1>1 DEF Replanned, RecordsTrue, TablesTrue
<1>3. /\ marker[id] # None => MarkerTrue(marker[id])
      /\ pending[id] # None => PendTrue(pending[id])
  BY DEF RecordsTrue, TablesTrue
<1>4. files'[id].uploaded => files'[id].mk # None /\ Taken(files'[id].mk.bytes)
  BY <1>1, <1>2, <1>3 DEF Replanned, FileTrue, MarkerTrue
<1>5. ASSUME Clean
      PROVE  /\ session[id] \in {0, files'[id].life}
             /\ marker[id] # None => marker[id].bytes[1] = files'[id].life
             /\ files'[id].mk # None => files'[id].mk.native = files'[id].life /\ files'[id].mk.bytes[1] = files'[id].life
             /\ files'[id].pend # None => files'[id].pend.native = files'[id].life
  BY <1>1, <1>2, <1>3, <1>5 DEF Replanned, FileTrue, MarkerTrue, PendTrue
<1> QED
  BY <1>4, <1>5 DEF FileTrue, Taken, Clean

LEMMA PlanRecords ==
  ASSUME TypeOK, TypeOK', Next, ConsentKept, RecordsTrue,
         (\E stable \in SUBSET Ids : TickPlan(stable)) \/ recordOwedIfStale
  PROVE  RecordsTrue'
<1> DEFINE fs == [id \in Ids |-> PlannedState(id)]
<1>0. tick \in Ticks /\ fs \in [Ids -> FileStates \cup {None}] /\ Grows
  BY PlanTyped, StepGrows DEF TypeOK
<1>1. Still /\ UNCHANGED <<marker, pending, tool, journal, store, judged, budget>>
  BY DEF TickPlan, recordOwedIfStale, durable, outside
<1>2. /\ tick'.pc = "save" /\ tick'.rec = None /\ tick'.res = None
      /\ \/ files' = files /\ tick'.saves = {} /\ tick'.jobs = tick.jobs
         \/ /\ files' = fs /\ tick'.saves = Saves(fs)
            /\ \/ tick'.jobs = tick.jobs
               \/ \E stable \in SUBSET Ids : tick'.jobs = Jobs(fs, stable)
  <2>1. ASSUME NEW stable \in SUBSET Ids, TickPlan(stable)
        PROVE  <1>2!:
    <3>1. tick.pc = "idle" /\ tick.rec = None /\ tick.res = None /\ files' = fs
      BY <2>1 DEF TickPlan, RecordsTrue, LoopTrue, RecTrue, TypeOK
    <3>2. tick' = [tick EXCEPT !.pc = "save", !.saves = Saves(fs), !.jobs = Jobs(fs, stable)]
      BY <2>1 DEF TickPlan
    <3> HIDE DEF fs
    <3>3. tick'.pc = "save" /\ tick'.saves = Saves(fs) /\ tick'.jobs = Jobs(fs, stable) /\ tick'.rec = tick.rec /\ tick'.res = tick.res
      BY <1>0, <3>2 DEF Ticks
    <3> QED
      BY <3>1, <3>3
  <2>2. CASE recordOwedIfStale
    BY <2>2 DEF recordOwedIfStale, NoTick
  <2> QED
    BY <2>1, <2>2
<1>3. CASE files' = files /\ tick'.saves = {} /\ tick'.jobs = tick.jobs
  <2>1. LoopFrame
    BY <1>2, <1>3, NoneApart DEF LoopFrame, Reads, Results
  <2> QED
    BY <1>1, <1>3, <2>1, QuietRecords DEF Still
<1>4. CASE /\ files' = fs /\ tick'.saves = Saves(fs)
           /\ \/ tick'.jobs = tick.jobs
              \/ \E stable \in SUBSET Ids : tick'.jobs = Jobs(fs, stable)
  <2>1. \A id \in Ids : files'[id] # None => FileTrue(id)'
    BY <1>1, <1>4, PlannedTrue DEF Still
  <2>2. TablesTrue'
    BY <1>0, <1>1, <2>1, TablesStay DEF RecordsTrue
  <2>3. ASSUME NEW id \in Ids, fs[id] # None, Clean, resolveSession(id, fs[id]) # 0
        PROVE  resolveSession(id, fs[id]) = fs[id].life
    <3>1. FileTrue(id)' /\ files'[id] = fs[id] /\ session' = session /\ budget' = budget /\ fs[id] \in FileStates
      BY <1>0, <1>1, <1>4, <2>1, <2>3 DEF Still
    <3> HIDE DEF fs
    <3>2. /\ session[id] \in {0, fs[id].life} /\ (fs[id].pend # None => fs[id].pend.native = fs[id].life)
          /\ fs[id].mk # None => fs[id].mk.native = fs[id].life
      BY <2>3, <3>1 DEF FileTrue, Clean
    <3> QED
      BY <2>3, <3>1, <3>2, KeyTrue
  <2>4. \A id \in Ids : fs[id] # None => fs[id].life = watch.life[id] /\ fs[id].life <= disk[id].life
    <3> SUFFICES ASSUME NEW id \in Ids, fs[id] # None
                 PROVE  fs[id].life = watch.life[id] /\ fs[id].life <= disk[id].life
      OBVIOUS
    <3>1. FileOf(id) /\ Replanned(id, fs[id])
      BY PlannedIs DEF ConsentKept, WatchShape
    <3> QED
      BY <3>1 DEF FileOf, Replanned
  <2> HIDE DEF fs
  <2>5. ASSUME NEW s \in tick'.saves
        PROVE  PendTrue(s.rec)'
    <3>1. /\ s \in SaveSet /\ fs[s.id] # None /\ s.rec.life = fs[s.id].life /\ s.rec \in Records
          /\ s.rec.native = resolveSession(s.id, fs[s.id])
      BY <1>0, <1>4, SavesAre
    <3>2. s.id \in Ids /\ s.rec.native # 0
      BY <3>1, Constants DEF SaveSet, Records, Lives
    <3> QED
      BY <1>1, <2>3, <3>1, <3>2 DEF PendTrue, Clean
  <2>6. ASSUME NEW stable \in SUBSET Ids, NEW j \in Jobs(fs, stable)
        PROVE  JobTrue(j)'
    <3>1. j \in JobSet /\ fs[j.id] # None /\ j.life = fs[j.id].life /\ j.native = resolveSession(j.id, fs[j.id])
      BY <1>0, <2>6, JobsAre
    <3>2. j.id \in Ids /\ j.native # 0 /\ j.life \in Nat
      BY <3>1, Constants DEF JobSet, Lives
    <3> QED
      BY <1>1, <2>3, <2>4, <3>1, <3>2 DEF JobTrue, Clean, Still
  <2>7. \A j \in tick'.jobs : JobTrue(j)'
    BY <1>4, <2>6, JobsStay DEF RecordsTrue
  <2>8. LoopTrue'
    BY <1>2, <2>5, <2>7, NoneApart DEF LoopTrue, RecTrue, Reads, Results
  <2>9. ToolTrue' /\ JournalHonest' /\ KeyedRight'
    BY <1>0, <1>1, ToolStays, KeysStay DEF RecordsTrue
  <2> QED
    BY <2>2, <2>8, <2>9 DEF RecordsTrue
<1> QED
  BY <1>2, <1>3, <1>4

LEMMA SaveRecords ==
  ASSUME TypeOK, TypeOK', Next, ConsentKept, RecordsTrue, savePendingRecord
  PROVE  RecordsTrue'
<1>1. PICK s \in tick.saves :
        /\ tick.pc = "save" /\ tick' = [tick EXCEPT !.saves = @ \ {s}]
        /\ \/ /\ pendingCurrent(s)
              /\ pending' = [pending EXCEPT ![s.id] = s.rec]
              /\ files' = [files EXCEPT ![s.id] = IF @ = None THEN None ELSE [@ EXCEPT !.pend = s.rec]]
           \/ pending' = pending /\ files' = files
  BY DEF savePendingRecord
<1>2. Still /\ UNCHANGED <<marker, tool, journal, store, judged>> /\ Grows
  BY StepGrows DEF savePendingRecord, outside
<1>3. s \in SaveSet /\ s.id \in Ids /\ s.rec \in Records
  BY DEF TypeOK, Ticks, SaveSet
<1>4. LoopFrame
  BY <1>1 DEF LoopFrame, TypeOK, Ticks, Reads
<1>5. CASE pending' = pending /\ files' = files
  BY <1>2, <1>4, <1>5, QuietRecords DEF Still
<1>6. CASE /\ pendingCurrent(s)
           /\ pending' = [pending EXCEPT ![s.id] = s.rec]
           /\ files' = [files EXCEPT ![s.id] = IF @ = None THEN None ELSE [@ EXCEPT !.pend = s.rec]]
  <2>1. files[s.id] # None /\ files[s.id].pendLoaded /\ files[s.id] \in FileStates
    BY <1>3, <1>6 DEF pendingCurrent, TypeOK
  <2>2. s.rec.life = files[s.id].life
    BY <2>1 DEF ConsentKept, WatchShape, SaveOf
  <2>3. files' = [files EXCEPT ![s.id] = [files[s.id] EXCEPT !.pend = s.rec]]
    BY <1>6, <2>1
  <2> DEFINE g == [files[s.id] EXCEPT !.pend = s.rec]
  <2>4. g.life = files[s.id].life /\ g.pend = s.rec /\ g.mk = files[s.id].mk /\ g.uploaded = files[s.id].uploaded
    BY <2>1 DEF FileStates
  <2>5. files'[s.id] = g /\ \A i \in Ids : i # s.id => files'[i] = files[i]
    BY <1>3, <2>3 DEF TypeOK
  <2> HIDE DEF g
  <2>6. FileTrue(s.id) /\ PendTrue(s.rec) /\ (Clean' => Clean)
    BY <1>2, <1>3, <2>1 DEF RecordsTrue, TablesTrue, LoopTrue, Clean, Grows
  <2>7. files'[s.id].uploaded => files'[s.id].mk # None /\ Taken(files[s.id].mk.bytes)'
    BY <1>2, <2>4, <2>5, <2>6 DEF FileTrue, Taken
  <2>8. FileTrue(s.id)'
    BY <1>2, <2>2, <2>4, <2>5, <2>6, <2>7 DEF FileTrue, PendTrue, Clean, Still
  <2>9. ASSUME NEW i \in Ids
        PROVE  pending'[i] = None \/ pending'[i] = pending[i] \/ PendTrue(pending[i])'
    <3>1. pending'[i] = (IF i = s.id THEN s.rec ELSE pending[i])
      BY <1>3, <1>6 DEF TypeOK
    <3> QED
      BY <2>6, <3>1 DEF PendTrue, Clean
  <2>10. \A i \in Ids : files'[i] = None \/ (files'[i] = files[i] /\ session'[i] = session[i]) \/ FileTrue(i)'
    BY <1>2, <2>5, <2>8 DEF Still
  <2> QED
    BY <1>2, <1>4, <2>9, <2>10, QuietRecords
<1> QED
  BY <1>1, <1>5, <1>6


\* Between two jobs the loop holds nothing.
LEMMA OwedFrame ==
  ASSUME TypeOK, tick' = NoTick \/ tick' = Owed \/ tick' = After("drop")
                   \/ \E js \in SUBSET tick.jobs : tick' = [Owed EXCEPT !.jobs = js]
  PROVE  LoopFrame
<1>1. ASSUME tick'.pc \in {"idle", "owed", "drop"}, tick'.saves = {}, tick'.jobs \subseteq tick.jobs,
             tick'.rec = None, tick'.res = None
      PROVE  LoopFrame
  BY <1>1, NoneApart DEF LoopFrame, Reads, Results
<1>2. CASE tick' = NoTick
  BY <1>1, <1>2 DEF NoTick
<1>3. CASE tick' = Owed \/ tick' = After("drop")
  BY <1>1, <1>3, LoopTyped
<1>4. ASSUME NEW js \in SUBSET tick.jobs, tick' = [Owed EXCEPT !.jobs = js]
      PROVE  LoopFrame
  <2>1. Owed \in Ticks /\ Owed.pc = "owed" /\ Owed.saves = {} /\ Owed.rec = None /\ Owed.res = None
    BY LoopTyped
  <2>2. tick'.pc = Owed.pc /\ tick'.saves = Owed.saves /\ tick'.jobs = js /\ tick'.rec = Owed.rec /\ tick'.res = Owed.res
    BY <1>4, <2>1 DEF Ticks
  <2> QED
    BY <1>1, <2>1, <2>2
<1> QED
  BY <1>2, <1>3, <1>4

\* A transcript that only loses its pending record, or is told something about its stat.
LEMMA WorkedTrue ==
  ASSUME TypeOK, RecordsTrue, Grows, Still, marker' = marker, NEW id \in Ids, files[id] # None,
         files'[id].life = files[id].life, files'[id].mk = files[id].mk, files'[id].uploaded = files[id].uploaded,
         files'[id].pend = None \/ files'[id].pend = files[id].pend
  PROVE  FileTrue(id)'
<1>1. FileTrue(id) /\ (Clean' => Clean)
  BY DEF RecordsTrue, TablesTrue, Clean, Grows
<1>2. files'[id].uploaded => files'[id].mk # None /\ Taken(files[id].mk.bytes)'
  BY <1>1 DEF FileTrue, Taken, Grows
<1> QED
  BY <1>1, <1>2 DEF FileTrue, Clean, Still

LEMMA JobRecords ==
  ASSUME TypeOK, TypeOK', Next, RecordsTrue, TickJob
  PROVE  RecordsTrue'
<1>0. /\ tick.pc = "job" /\ tick \in Ticks /\ tick.res = None /\ tick.rec = None /\ Grows
      /\ Still /\ UNCHANGED <<marker, tool, journal, store, judged, budget>>
  BY StepGrows DEF TickJob, outside, TypeOK, RecordsTrue, LoopTrue, RecTrue
<1>1. PICK j \in tick.jobs :
           /\ j \in JobSet /\ j.id \in Ids
           /\ \/ /\ tick' = NoTick \/ tick' = [Owed EXCEPT !.jobs = @ \ {j}]
                 /\ UNCHANGED <<files, pending>>
              \/ /\ files[j.id] # None
                 /\ files' = [files EXCEPT ![j.id] = [markEvaluated(files[j.id], Stat(disk[j.id]), j.gc) EXCEPT !.pend = None]]
                 /\ pending' = [pending EXCEPT ![j.id] = None]
                 /\ tick' = [Owed EXCEPT !.jobs = @ \ {j}]
              \/ /\ disk[j.id].life = j.life
                 /\ tick' = [tick EXCEPT !.jobs = @ \ {j}, !.job = j, !.pc = "look", !.snap = disk[j.id]]
                 /\ UNCHANGED <<files, pending>>
  BY JobTaken
<1>2. ASSUME tick' = NoTick \/ tick' = [Owed EXCEPT !.jobs = @ \ {j}]
      PROVE  LoopFrame
  <2>1. Owed \in Ticks /\ Owed.jobs = tick.jobs
    BY LoopTyped
  <2>2. tick' = NoTick \/ tick' = [Owed EXCEPT !.jobs = tick.jobs \ {j}]
    BY <1>2, <2>1 DEF Ticks
  <2> QED
    BY <2>2, OwedFrame
<1>3. CASE /\ tick' = NoTick \/ tick' = [Owed EXCEPT !.jobs = @ \ {j}]
           /\ UNCHANGED <<files, pending>>
  BY <1>0, <1>2, <1>3, QuietRecords DEF Still
<1>4. CASE /\ files[j.id] # None
           /\ files' = [files EXCEPT ![j.id] = [markEvaluated(files[j.id], Stat(disk[j.id]), j.gc) EXCEPT !.pend = None]]
           /\ pending' = [pending EXCEPT ![j.id] = None]
           /\ tick' = [Owed EXCEPT !.jobs = @ \ {j}]
  <2> DEFINE m == markEvaluated(files[j.id], Stat(disk[j.id]), j.gc)
  <2>1. files[j.id] \in FileStates /\ Stat(disk[j.id]) \in Pairs /\ j.gc \in BOOLEAN
    BY <1>1, <1>4, SnapshotParts DEF TypeOK, JobSet
  <2>2. m \in FileStates /\ m = [files[j.id] EXCEPT !.eval = <<Stat(disk[j.id]), j.gc>>]
    BY <2>1, MarkTyped
  <2>3. m.life = files[j.id].life /\ m.mk = files[j.id].mk /\ m.uploaded = files[j.id].uploaded
    BY <2>1, <2>2 DEF FileStates
  <2>4. files' = [files EXCEPT ![j.id] = [m EXCEPT !.pend = None]]
    BY <1>4
  <2> HIDE DEF m
  <2>5. LET g == [m EXCEPT !.pend = None]
        IN  g.life = m.life /\ g.mk = m.mk /\ g.uploaded = m.uploaded /\ g.pend = None
    BY <2>2 DEF FileStates
  <2>6. files'[j.id] = [m EXCEPT !.pend = None] /\ \A i \in Ids : i # j.id => files'[i] = files[i]
    BY <1>1, <2>4 DEF TypeOK
  <2>7. FileTrue(j.id)'
    BY <1>0, <1>1, <1>4, <2>3, <2>5, <2>6, WorkedTrue
  <2>8. \A i \in Ids : pending'[i] = None \/ pending'[i] = pending[i]
    BY <1>4 DEF TypeOK
  <2>9. \A i \in Ids : files'[i] = None \/ (files'[i] = files[i] /\ session'[i] = session[i]) \/ FileTrue(i)'
    BY <1>0, <2>6, <2>7 DEF Still
  <2> QED
    BY <1>0, <1>2, <1>4, <2>8, <2>9, QuietRecords
<1>5. CASE /\ disk[j.id].life = j.life
           /\ tick' = [tick EXCEPT !.jobs = @ \ {j}, !.job = j, !.pc = "look", !.snap = disk[j.id]]
           /\ UNCHANGED <<files, pending>>
  <2>1. /\ tick'.pc = "look" /\ tick'.job = j /\ tick'.jobs \subseteq tick.jobs /\ tick'.saves = tick.saves
        /\ tick'.snap = disk[j.id] /\ tick'.rec = None /\ tick'.res = None
    BY <1>0, <1>5 DEF Ticks
  <2>2. JobTrue(j)'
    BY <1>1, JobStays DEF RecordsTrue, LoopTrue
  <2>3. JobTrue(tick.job)'
    BY <2>1, <2>2 DEF JobTrue, Clean
  <2>4. \A s \in tick'.saves : PendTrue(s.rec)'
    BY <1>0, <2>1, SavesStay DEF RecordsTrue
  <2>5. \A i \in tick'.jobs : JobTrue(i)'
    BY <2>1, JobsStay DEF RecordsTrue
  <2>6. LoopTrue'
    BY <1>5, <2>1, <2>3, <2>4, <2>5, NoneApart DEF LoopTrue, RecTrue, Results
  <2>7. TablesTrue'
    BY <1>0, <1>5, TablesStay DEF RecordsTrue, Still
  <2>8. ToolTrue' /\ JournalHonest' /\ KeyedRight'
    BY <1>0, ToolStays, KeysStay DEF RecordsTrue
  <2> QED
    BY <2>6, <2>7, <2>8 DEF RecordsTrue
<1> QED
  BY <1>1, <1>3, <1>4, <1>5

LEMMA LookRecords ==
  ASSUME TypeOK, TypeOK', Next, RecordsTrue, processOne
  PROVE  RecordsTrue'
<1>0. /\ tick.pc = "look" /\ tick \in Ticks /\ tick.res = None /\ tick.rec = None /\ Grows
      /\ Still /\ UNCHANGED <<marker, pending, tool, journal, store, judged, budget>>
  BY StepGrows DEF processOne, durable, outside, TypeOK, RecordsTrue, LoopTrue, RecTrue
<1>p. PICK id \in Ids : id = tick.job.id
  BY <1>0, JobInHand
<1> DEFINE st == files[id]
<1>1. id \in Ids /\ st \in FileStates \cup {None} /\ files \in [Ids -> FileStates \cup {None}] /\ tick.snap \in Snapshots
  BY <1>0, <1>p, JobInHand DEF TypeOK
<1>2. CASE st = None /\ tick' = Owed /\ files' = files
  <2>1. LoopFrame
    BY <1>2, OwedFrame
  <2> QED
    BY <1>0, <1>2, <2>1, QuietRecords DEF Still
<1>3. CASE files' = files /\ tick' = [tick EXCEPT !.pc = "reg", !.gc = tick.job.gc /\ ~st.refused]
  <2>1. LoopFrame
    BY <1>0, <1>3 DEF LoopFrame, Ticks, Reads
  <2> QED
    BY <1>0, <1>3, <2>1, QuietRecords DEF Still
<1>4. CASE /\ st # None /\ sameSnapshot(st) /\ files' = [files EXCEPT ![id] = seenState(st)]
           /\ tick' = [After("persist") EXCEPT
                          !.rec = IF st.uploaded THEN [seenState(st).mk EXCEPT !.old = FALSE] ELSE None,
                          !.next = IF st.pend # None THEN "drop" ELSE "owed"]
  <2> DEFINE s == seenState(st)
  <2>r. PICK r : r = [s.mk EXCEPT !.old = FALSE]
    OBVIOUS
  <2>1. /\ s.life = st.life /\ s.pend = None /\ s.uploaded = st.uploaded
        /\ s.mk.bytes = st.mk.bytes /\ st.mk.bytes = Bytes(tick.snap) /\ st.mk \in Markers /\ s.mk \in Markers
        /\ st.uploaded => s.mk.native = tick.job.native
        /\ ~st.uploaded => s.mk = st.mk
        /\ r.bytes = s.mk.bytes /\ r.native = s.mk.native /\ ~r.old /\ r \in Markers
    BY <1>0, <1>1, <1>4, <2>r, SeenIs
  <2>2. /\ FileTrue(id) /\ JobTrue(tick.job) /\ tick.snap.life = tick.job.life
    BY <1>0, <1>p, <1>1, <1>4 DEF RecordsTrue, TablesTrue, LoopTrue, Reads
  <2>3. files'[id] = s /\ (\A i \in Ids : i # id => files'[i] = files[i])
    BY <1>1, <1>4
  <2>4. After("persist") \in Ticks /\ After("persist").pc = "persist" /\ After("persist").job = tick.job
        /\ After("persist").saves = {} /\ After("persist").jobs = tick.jobs /\ After("persist").res = None
    BY <1>0, LoopTyped
  <2>5. tick' = [After("persist") EXCEPT !.rec = IF st.uploaded THEN r ELSE None,
                                         !.next = IF st.pend # None THEN "drop" ELSE "owed"]
    BY <1>4, <2>r
  <2>5a. s.mk.bytes[1] = tick.job.life /\ st.mk # None /\ s.mk # None
    BY <1>1, <2>1, <2>2, SnapshotParts, NoneApart
  <2> HIDE DEF s
  <2>6. /\ tick'.pc = "persist" /\ tick'.job = tick.job /\ tick'.saves = {} /\ tick'.jobs = tick.jobs /\ tick'.res = None
        /\ tick'.rec = (IF st.uploaded THEN r ELSE None)
    BY <2>4, <2>5 DEF Ticks
  <2>7. st.uploaded => Taken(s.mk.bytes)
    BY <2>1, <2>2 DEF FileTrue
  <2>8. Clean => s.mk.bytes[1] = st.life /\ s.mk.native = st.life
    BY <2>1, <2>2, <2>5a DEF FileTrue, JobTrue
  <2>9. FileTrue(id)'
    BY <1>0, <2>1, <2>2, <2>3, <2>5a, <2>7, <2>8 DEF FileTrue, Taken, Clean, Still
  <2>10. RecTrue'
    <3> SUFFICES ASSUME tick'.rec # None
                 PROVE  MarkerTrue(r)' /\ r.bytes[1] = tick.job.life /\ ~r.old /\ tick'.rec = r
      BY <2>6 DEF RecTrue, MarkerTrue, Taken, Clean
    <3>1. tick'.rec = r /\ st.uploaded
      BY <2>6
    <3>2. r.bytes = s.mk.bytes /\ r.native = s.mk.native /\ ~r.old
      BY <2>1
    <3> QED
      BY <1>0, <2>5a, <2>7, <2>8, <3>1, <3>2 DEF MarkerTrue, Taken, Clean
  <2>11. \A j \in tick'.jobs : JobTrue(j)'
    BY <2>6, JobsStay DEF RecordsTrue
  <2>12. JobTrue(tick.job)'
    BY <1>0, <2>6, HandStays DEF RecordsTrue, Reads
  <2>13. LoopTrue'
    BY <2>6, <2>10, <2>11, <2>12, NoneApart DEF LoopTrue, Reads, Results
  <2>14. TablesTrue'
    <3>1. \A i \in Ids : files'[i] = None \/ (files'[i] = files[i] /\ session'[i] = session[i]) \/ FileTrue(i)'
      BY <1>0, <2>3, <2>9 DEF Still
    <3> QED
      BY <1>0, <3>1, TablesStay DEF RecordsTrue
  <2>15. ToolTrue' /\ JournalHonest' /\ KeyedRight'
    BY <1>0, ToolStays, KeysStay DEF RecordsTrue
  <2> QED
    BY <2>13, <2>14, <2>15 DEF RecordsTrue
<1> QED
  BY <1>p, <1>2, <1>3, <1>4, ProcessIs


LEMMA PostRecords ==
  ASSUME TypeOK, TypeOK', Next, RecordsTrue, PostContent
  PROVE  RecordsTrue'
<1>0. /\ tick.pc = "fly" /\ tick \in Ticks /\ tick.rec = None /\ Grows
      /\ Still /\ UNCHANGED <<files, marker, pending, tool, journal>>
  BY StepGrows DEF PostContent, durable, TypeOK, RecordsTrue, LoopTrue, RecTrue
<1>1. /\ tick.job.native \in Lives /\ Bytes(tick.snap) \in Pairs /\ tick.snap \in Snapshots
      /\ JobTrue(tick.job) /\ tick.snap.life = tick.job.life
  BY <1>0, JobInHand DEF RecordsTrue, LoopTrue, Reads
<1>2. PICK b \in Pairs : b = Bytes(tick.snap) /\ b[1] = tick.job.life
  BY <1>1, SnapshotParts
<1>3. PICK res :
        /\ tick' = [tick EXCEPT !.pc = "out", !.res = res]
        /\ \/ Answered(res, tick.job.native, b)
           \/ res = "fail" /\ UNCHANGED <<store, judged, budget>>
  BY <1>2 DEF PostContent
<1>4. /\ store' = store \/ store' = store \cup {<<tick.job.native, b, "after">>}
      /\ res \in {"ok", "mismatch"} => Taken(b)'
      /\ budget'.stale = budget.stale
  <2>1. CASE Answered(res, tick.job.native, b)
    <3>1. /\ budget'.stale = budget.stale
          /\ store' = store \/ store' = store \cup {<<tick.job.native, b, "after">>}
          /\ res = "ok" => store' = store \cup {<<tick.job.native, b, "after">>}
          /\ res = "mismatch" => <<"mismatch", b>> \in judged'
      BY <1>1, <2>1, AnsweredTyped
    <3>2. res = "ok" => \E x \in store' : x[2] = b
      <4> SUFFICES ASSUME res = "ok" PROVE \E x \in store' : x[2] = b
        OBVIOUS
      <4>1. <<tick.job.native, b, "after">> \in store'
        BY <3>1
      <4> QED
        BY <4>1
    <3> QED
      BY <3>1, <3>2 DEF Taken
  <2>2. CASE res = "fail" /\ UNCHANGED <<store, judged, budget>>
    BY <2>2
  <2> QED
    BY <1>3, <2>1, <2>2
<1>5. /\ tick'.pc = "out" /\ tick'.res = res /\ tick'.job = tick.job /\ tick'.snap = tick.snap /\ tick'.rec = tick.rec
      /\ tick'.jobs = tick.jobs /\ tick'.saves = tick.saves
  BY <1>0, <1>3 DEF Ticks
<1>6. LoopTrue'
  <2>1. \A j \in tick'.jobs : JobTrue(j)'
    BY <1>5, JobsStay DEF RecordsTrue
  <2>2. JobTrue(tick.job)'
    BY <1>0, <1>5, HandStays DEF RecordsTrue, Reads
  <2>3. \A s \in tick'.saves : PendTrue(s.rec)'
    BY <1>0, <1>5, SavesStay DEF RecordsTrue
  <2>4. tick'.res \in {"ok", "mismatch"} => Taken(Bytes(tick.snap))'
    BY <1>2, <1>4, <1>5 DEF Taken, Bytes
  <2> QED
    BY <1>0, <1>1, <1>5, <2>1, <2>2, <2>3, <2>4 DEF LoopTrue, RecTrue, Reads
<1>7. TablesTrue'
  BY <1>0, TablesStay DEF RecordsTrue, Still
<1>8. ToolTrue' /\ JournalHonest'
  BY <1>0, ToolStays DEF RecordsTrue
<1>9. KeyedRight'
  <2> SUFFICES ASSUME NEW x \in store', budget'.stale = {}
               PROVE  x[1] = x[2][1]
    BY DEF KeyedRight
  <2>1. CASE x \in store
    BY <1>4, <2>1 DEF RecordsTrue, KeyedRight
  <2>2. CASE x = <<tick.job.native, b, "after">>
    BY <1>1, <1>2, <1>4, <2>2 DEF JobTrue, Clean
  <2> QED
    BY <1>4, <2>1, <2>2
<1> QED
  BY <1>6, <1>7, <1>8, <1>9 DEF RecordsTrue

LEMMA OutcomeRecords ==
  ASSUME TypeOK, TypeOK', Next, RecordsTrue, Outcome
  PROVE  RecordsTrue'
<1>0. /\ tick.pc = "out" /\ tick \in Ticks /\ tick.rec = None /\ Grows /\ files \in [Ids -> FileStates \cup {None}]
      /\ Still /\ UNCHANGED <<marker, pending, tool, journal, store, judged>>
  BY StepGrows, OutcomeIs DEF durable, outside, TypeOK, RecordsTrue, LoopTrue, RecTrue
<1>p. PICK id \in Ids : id = tick.job.id
  BY <1>0, JobInHand
<1> DEFINE st == files[id]
<1>1. /\ st \in FileStates \cup {None} /\ tick.snap \in Snapshots /\ tick.job # None
      /\ JobTrue(tick.job) /\ tick.snap.life = tick.job.life
      /\ tick.res \in {"ok", "mismatch"} => Taken(Bytes(tick.snap))
      /\ Bytes(tick.snap)[1] = tick.job.life
  BY <1>0, <1>p, JobInHand, SnapshotParts DEF RecordsTrue, LoopTrue, Reads
<1>2. LoopTrue' /\ (\A i \in Ids : files'[i] = None \/ files'[i] = files[i] \/ FileTrue(i)') => RecordsTrue'
  <2> SUFFICES ASSUME LoopTrue', \A i \in Ids : files'[i] = None \/ files'[i] = files[i] \/ FileTrue(i)'
               PROVE  RecordsTrue'
    OBVIOUS
  <2>1. TablesTrue'
    BY <1>0, TablesStay DEF RecordsTrue, Still
  <2>2. ToolTrue' /\ JournalHonest' /\ KeyedRight'
    BY <1>0, ToolStays, KeysStay DEF RecordsTrue
  <2> QED
    BY <2>1, <2>2 DEF RecordsTrue
<1>3. ASSUME NEW g, st # None, files' = [files EXCEPT ![id] = g],
             g.life = st.life, g.mk = st.mk, g.uploaded = st.uploaded, g.pend = st.pend
      PROVE  \A i \in Ids : files'[i] = files[i] \/ FileTrue(i)'
  <2>1. files'[id] = g /\ \A i \in Ids : i # id => files'[i] = files[i]
    BY <1>0, <1>3
  <2>2. FileTrue(id)'
    BY <1>0, <1>3, <2>1, WorkedTrue
  <2> QED
    BY <2>1, <2>2
\* An answer about these bytes, recorded.
<1>4. ASSUME NEW g, st # None, NoteOutcome, files' = [files EXCEPT ![id] = g], g.life = st.life, g.mk \in Markers,
             g.mk.bytes = Bytes(tick.snap), g.mk.native = tick.job.native, g.pend = None \/ g.pend = st.pend,
             g.uploaded => tick.res \in {"ok", "mismatch"}
      PROVE  \A i \in Ids : files'[i] = files[i] \/ FileTrue(i)'
  <2>1. files'[id] = g /\ \A i \in Ids : i # id => files'[i] = files[i]
    BY <1>0, <1>4
  <2>2. FileTrue(id) /\ (Clean' => Clean)
    BY <1>0, <1>4 DEF RecordsTrue, TablesTrue, Clean, Grows
  <2>3. Clean' => st.life = tick.job.life
    <3>1. ASSUME budget' = [budget EXCEPT !.stale = @ \cup {id}]
          PROVE  ~Clean'
      BY <3>1 DEF TypeOK, Budgets, Clean
    <3> QED
      BY <1>p, <1>4, <3>1 DEF NoteOutcome
  <2>4. Clean' => g.mk.native = g.life /\ g.mk.bytes[1] = g.life
    BY <1>1, <1>4, <2>2, <2>3 DEF JobTrue
  <2>5. g.mk # None /\ (g.uploaded => Taken(g.mk.bytes))
    BY <1>1, <1>4, NoneApart
  <2>6. FileTrue(id)'
    BY <1>0, <1>4, <2>1, <2>2, <2>4, <2>5 DEF FileTrue, Taken, Clean, Still
  <2> QED
    BY <2>1, <2>6
<1>5. ASSUME tick' = Owed \/ tick' = After("drop")
      PROVE  LoopTrue'
  <2>1. LoopFrame
    BY <1>5, OwedFrame
  <2> QED
    BY <2>1, LoopStays DEF RecordsTrue
<1>6. ASSUME tick' = [tick EXCEPT !.pc = "reg", !.gc = FALSE, !.res = None]
      PROVE  LoopTrue'
  <2>1. LoopFrame
    BY <1>0, <1>6, NoneApart DEF LoopFrame, Ticks, Reads, Results
  <2> QED
    BY <2>1, LoopStays DEF RecordsTrue
<1>7. ASSUME NEW r, tick' = [After("persist") EXCEPT !.next = "drop", !.rec = r],
             r = None \/ (~r.old /\ r.bytes = Bytes(tick.snap) /\ r.native = tick.job.native),
             tick.res \in {"ok", "mismatch"}
      PROVE  LoopTrue'
  <2>1. /\ After("persist") \in Ticks /\ After("persist").pc = "persist" /\ After("persist").job = tick.job
        /\ After("persist").saves = {} /\ After("persist").jobs = tick.jobs /\ After("persist").res = None
    BY LoopTyped
  <2>2. /\ tick'.pc = "persist" /\ tick'.job = tick.job /\ tick'.saves = {} /\ tick'.jobs = tick.jobs
        /\ tick'.res = None /\ tick'.rec = r
    BY <1>7, <2>1 DEF Ticks
  <2>3. \A j \in tick'.jobs : JobTrue(j)'
    BY <2>2, JobsStay DEF RecordsTrue
  <2>4. JobTrue(tick.job)'
    BY <1>0, <2>2, HandStays DEF RecordsTrue, Reads
  <2>5. RecTrue'
    <3> SUFFICES ASSUME r # None
                 PROVE  MarkerTrue(r)' /\ r.bytes[1] = tick.job.life /\ ~r.old
      BY <2>2 DEF RecTrue, MarkerTrue, Taken, Clean
    <3>1. (Clean' => Clean) /\ Taken(r.bytes)
      BY <1>0, <1>1, <1>7 DEF Clean, Grows
    <3> QED
      BY <1>0, <1>1, <1>7, <3>1 DEF MarkerTrue, Taken, JobTrue
  <2> QED
    BY <2>2, <2>3, <2>4, <2>5, NoneApart DEF LoopTrue, Reads, Results
<1>8. CASE /\ files' = files \/ files' = [files EXCEPT ![id] = None]
           /\ \/ tick' = Owed \/ tick' = After("drop")
              \/ tick' = [tick EXCEPT !.pc = "reg", !.gc = FALSE, !.res = None]
              \/ /\ tick.res \in {"ok", "mismatch"}
                 /\ tick' = [After("persist") EXCEPT !.next = "drop", !.rec = None]
  <2>1. \A i \in Ids : files'[i] = None \/ files'[i] = files[i]
    BY <1>0, <1>8
  <2>2. LoopTrue'
    BY <1>5, <1>6, <1>7, <1>8
  <2> QED
    BY <1>2, <2>1, <2>2
<1>9. CASE tick' = Owed /\ st # None /\ files' = [files EXCEPT ![id] = recordPostFailure(st)]
  <2>1. LET r == recordPostFailure(st)
        IN  r.life = st.life /\ r.mk = st.mk /\ r.uploaded = st.uploaded /\ r.pend = st.pend
    BY <1>0, <1>1, <1>9, FailureIs
  <2> QED
    BY <1>2, <1>3, <1>5, <1>9, <2>1
<1>10. CASE /\ tick.res \in {"ok", "mismatch"} /\ NoteOutcome
            /\ st # None /\ files' = [files EXCEPT ![id] = acceptedSnapshot(st)]
            /\ tick' = [After("persist") EXCEPT !.next = "drop", !.rec = acceptedSnapshot(st).mk]
  <2>1. LET a == acceptedSnapshot(st)
        IN  /\ a.life = st.life /\ a.pend = None /\ a.mk \in Markers /\ a.mk.bytes = Bytes(tick.snap)
            /\ a.mk.native = tick.job.native /\ ~a.mk.old
    BY <1>0, <1>1, <1>10, AcceptedIs
  <2>2. LoopTrue'
    BY <1>7, <1>10, <2>1
  <2> QED
    BY <1>2, <1>4, <1>10, <2>1, <2>2
<1>11. CASE /\ tick' = [tick EXCEPT !.pc = "reg", !.gc = FALSE, !.res = None]
            /\ st # None /\ files' = [files EXCEPT ![id] = [st EXCEPT !.refused = TRUE]]
  <2>1. LET r == [st EXCEPT !.refused = TRUE]
        IN  r.life = st.life /\ r.mk = st.mk /\ r.uploaded = st.uploaded /\ r.pend = st.pend
    BY <1>1, <1>11, RefusedIs
  <2> QED
    BY <1>2, <1>3, <1>6, <1>11, <2>1
<1>12. CASE /\ tick.res \in {"idConflict", "reject"} /\ NoteOutcome
            /\ tick' = (IF tick.res = "reject" THEN After("drop") ELSE Owed)
            /\ st # None
            /\ files' = [files EXCEPT ![id] = [Settled(st, FALSE) EXCEPT
                                        !.pend = IF tick.res = "reject" THEN None ELSE st.pend]]
  <2> DEFINE p == IF tick.res = "reject" THEN None ELSE st.pend
             g == [Settled(st, FALSE) EXCEPT !.pend = p]
  <2>1. st \in FileStates /\ p \in Records \cup {None}
    BY <1>1, <1>12 DEF FileStates
  <2>2. /\ g.life = st.life /\ g.pend = p /\ g.mk \in Markers /\ g.mk.bytes = Bytes(tick.snap)
        /\ g.mk.native = tick.job.native /\ ~g.uploaded
    BY <1>0, <2>1, RejectedIs
  <2>3. (p = None \/ p = st.pend) /\ files' = [files EXCEPT ![id] = g]
    BY <1>12
  <2> HIDE DEF g, p
  <2>4. \A i \in Ids : files'[i] = files[i] \/ FileTrue(i)'
    BY <1>4, <1>12, <2>2, <2>3
  <2> QED
    BY <1>2, <1>5, <1>12, <2>4
<1> QED
  BY <1>p, <1>8, <1>9, <1>10, <1>11, <1>12, OutcomeIs


LEMMA PersistRecords ==
  ASSUME TypeOK, TypeOK', Next, ConsentKept, RecordsTrue, persistMarker
  PROVE  RecordsTrue'
<1>0. /\ tick.pc = "persist" /\ Grows /\ marker \in [Ids -> Markers \cup {None}]
      /\ Still /\ UNCHANGED <<files, pending, tool, journal, store, judged>>
  BY StepGrows DEF persistMarker, outside, TypeOK
<1>1. PICK id \in Ids : id = tick.job.id
  BY <1>0, JobInHand
<1>2. LoopFrame
  BY OwedFrame DEF persistMarker
<1>3. CASE marker' = marker
  BY <1>0, <1>2, <1>3, QuietRecords DEF Still
<1>4. CASE /\ tick.rec # None /\ marker' = [marker EXCEPT ![id] = tick.rec]
           /\ NoteMarker(id, tick.rec)
  <2>1. MarkerTrue(tick.rec) /\ tick.rec.bytes[1] = tick.job.life /\ JobTrue(tick.job)
    BY <1>0, <1>4 DEF RecordsTrue, LoopTrue, RecTrue
  <2>2. marker'[id] = tick.rec /\ \A i \in Ids : i # id => marker'[i] = marker[i]
    BY <1>0, <1>4
  <2>3. MarkerTrue(marker[id])'
    BY <1>0, <2>1, <2>2 DEF MarkerTrue, Taken, Clean, Grows
  <2>4. Clean' => tick.rec.bytes[1] = disk[id].life
    <3>1. ASSUME budget' = [budget EXCEPT !.stale = @ \cup {id}]
          PROVE  ~Clean'
      BY <3>1 DEF TypeOK, Budgets, Clean
    <3> QED
      BY <1>4, <3>1 DEF NoteMarker
  <2>5. ASSUME files[id] # None
        PROVE  FileTrue(id)'
    <3>1. FileOf(id) /\ FileTrue(id) /\ (Clean' => Clean)
      BY <1>0, <2>5 DEF ConsentKept, WatchShape, RecordsTrue, TablesTrue, Clean, Grows
    <3>2. /\ files[id].life \in Nat /\ files[id].life # 0 /\ disk[id].life \in Nat /\ tick.job.life \in Nat
          /\ watch.life[id] \in Nat
      <4>1. files[id] \in FileStates /\ tick.job.life \in Lives
        BY <1>0, <2>5, JobInHand DEF TypeOK
      <4> QED
        BY <4>1, Constants DEF TypeOK, Lives, FileStates, Watchers
    <3>3. files[id].life = watch.life[id] /\ watch.life[id] <= disk[id].life
      BY <2>5, <3>1 DEF FileOf
    <3>4. tick.job.life <= watch.life[id]
      BY <1>1, <2>1, <3>2, <3>3 DEF JobTrue
    <3>5. Clean' => files[id].life = tick.rec.bytes[1]
      BY <2>1, <2>4, <3>2, <3>3, <3>4
    <3> QED
      BY <1>0, <2>2, <3>1, <3>5 DEF FileTrue, Taken, Clean, Still
  <2>6. \A i \in Ids : \/ marker'[i] = marker[i]
                       \/ MarkerTrue(marker[i])' /\ (files'[i] = None \/ FileTrue(i)')
    BY <1>0, <2>2, <2>3, <2>5
  <2> QED
    BY <1>0, <1>2, <2>6, QuietRecords DEF Still
<1> QED
  BY <1>1, <1>3, <1>4 DEF persistMarker

LEMMA TickRecords ==
  ASSUME TypeOK, TypeOK', Next, ConsentKept, RecordsTrue, Tick
  PROVE  RecordsTrue'
<1>0. tick \in Ticks
  BY DEF TypeOK
<1>1. CASE TickGate
  <2>1. /\ tick.pc = "save" /\ Still /\ UNCHANGED <<files, marker, pending, tool, journal, store>>
        /\ tick.rec = None /\ tick.res = None
    BY <1>1 DEF TickGate, durable, outside, TypeOK, RecordsTrue, LoopTrue, RecTrue
  <2>2. tick' = NoTick \/ tick' = [tick EXCEPT !.pc = "job"]
    BY <1>1 DEF TickGate
  <2>3. ASSUME tick' = [tick EXCEPT !.pc = "job"]
        PROVE  LoopFrame
    BY <1>0, <2>1, <2>3, NoneApart DEF LoopFrame, Ticks, Reads, Results
  <2> QED
    BY <2>1, <2>2, <2>3, OwedFrame, QuietRecords DEF Still
<1>2. CASE RegisterFlight
  <2>1. /\ tick.pc = "reg" /\ Still /\ UNCHANGED <<marker, pending, tool, journal, store>>
        /\ tick.rec = None /\ tick.res = None /\ tick.job.id \in Ids /\ files \in [Ids -> FileStates \cup {None}]
    BY <1>2, JobInHand DEF RegisterFlight, durable, outside, TypeOK, RecordsTrue, LoopTrue, RecTrue
  <2>2. CASE files' = [files EXCEPT ![tick.job.id] = None] /\ tick' = Owed
    <3>1. \A i \in Ids : files'[i] = None \/ files'[i] = files[i]
      BY <2>1, <2>2
    <3> QED
      BY <2>1, <2>2, <3>1, OwedFrame, QuietRecords DEF Still
  <2>3. CASE files' = files /\ tick' = [tick EXCEPT !.pc = "fly", !.withdrawn = FALSE, !.tok = token]
    <3>1. LoopFrame
      BY <1>0, <2>1, <2>3, NoneApart DEF LoopFrame, Ticks, Reads, Results
    <3> QED
      BY <2>1, <2>3, <3>1, QuietRecords DEF Still
  <2> QED
    BY <1>2, <2>2, <2>3 DEF RegisterFlight
<1>3. CASE dropPending
  <2>1. /\ Still /\ UNCHANGED <<files, marker, tool, journal, store>> /\ tick' = Owed
    BY <1>3 DEF dropPending, outside
  <2>2. \A i \in Ids : pending'[i] = None \/ pending'[i] = pending[i]
    BY <1>3 DEF dropPending, TypeOK
  <2> QED
    BY <2>1, <2>2, OwedFrame, QuietRecords DEF Still
<1> QED
  BY <1>1, <1>2, <1>3, PlanRecords, SaveRecords, JobRecords, LookRecords, PostRecords, OutcomeRecords,
     PersistRecords DEF Tick

\* What a stop, or a plan, owes a record for is keyed by its own session.
LEMMA SavesTrue ==
  ASSUME TypeOK, RecordsTrue, NEW s \in Saves([id \in Ids |-> PlannedState(id)])
  PROVE  PendTrue(s.rec)
<1> DEFINE fs == [id \in Ids |-> PlannedState(id)]
<1>1. fs \in [Ids -> FileStates \cup {None}] /\ s \in Saves(fs)
  BY PlanTyped
<1>2. \A id \in Ids : fs[id] # None => Replanned(id, fs[id])
  BY PlannedIs
<1> HIDE DEF fs
<1>3. /\ s \in SaveSet /\ fs[s.id] # None /\ fs[s.id] \in FileStates /\ s.rec.life = fs[s.id].life /\ s.rec \in Records
      /\ s.rec.native = resolveSession(s.id, fs[s.id])
  BY <1>1, SavesAre
<1>4. PICK id \in Ids : id = s.id
  BY <1>3 DEF SaveSet
<1>5. s.rec.native # 0 /\ Replanned(id, fs[id]) /\ files[id] # None /\ FileTrue(id)
  BY <1>2, <1>3, <1>4, Constants DEF Records, Lives, Replanned, RecordsTrue, TablesTrue
<1>6. /\ marker[id] # None => MarkerTrue(marker[id])
      /\ pending[id] # None => PendTrue(pending[id])
  BY DEF RecordsTrue, TablesTrue
<1>7. Clean => /\ session[id] \in {0, fs[id].life} /\ (fs[id].pend # None => fs[id].pend.native = fs[id].life)
               /\ fs[id].mk # None => fs[id].mk.native = fs[id].life
  BY <1>5, <1>6 DEF Replanned, FileTrue, MarkerTrue, PendTrue
<1> QED
  BY <1>3, <1>4, <1>5, <1>7, KeyTrue DEF PendTrue

LEMMA ProcessRecords ==
  ASSUME TypeOK, TypeOK', Next, RecordsTrue, Process
  PROVE  RecordsTrue'
<1>1. CASE Stop \/ Kill
  <2>1. Down /\ Grows
    BY <1>1, StepGrows DEF Stop, Kill
  <2>2. /\ UNCHANGED <<marker, tool, journal, store>> /\ \A i \in Ids : files'[i] = None
    BY <2>1 DEF Down, outside
  <2>3. LoopFrame
    <3>1. tick' = [NoTick EXCEPT !.pc = "down"]
      BY <2>1 DEF Down
    <3> QED
      BY <3>1, NoneApart DEF LoopFrame, NoTick, Reads, Results
  <2>4. ASSUME NEW i \in Ids
        PROVE  pending'[i] = pending[i] \/ PendTrue(pending[i])'
    <3>1. CASE Kill
      BY <3>1 DEF Kill
    <3>2. CASE Stop
      <4>1. pending'[i] = pending[i] \/ \E s \in Saves([id \in Ids |-> PlannedState(id)]) : pending'[i] = s.rec
        BY <3>2 DEF Stop
      <4> QED
        BY <2>1, <4>1, SavesTrue DEF PendTrue, Clean, Grows
    <3> QED
      BY <1>1, <3>1, <3>2
  <2> QED
    BY <2>2, <2>3, <2>4, QuietRecords
<1>2. CASE Start
  <2>1. /\ tick' = NoTick /\ UNCHANGED <<files, session, marker, tool, journal, store>>
        /\ \A i \in Ids : pending'[i] = None \/ pending'[i] = pending[i]
    BY <1>2 DEF Start, outside
  <2> QED
    BY <2>1, OwedFrame, QuietRecords
<1> QED
  BY <1>1, <1>2 DEF Process


LEMMA ToolRecords ==
  ASSUME TypeOK, TypeOK', Next, ConsentKept, RecordsTrue, Reupload
  PROVE  RecordsTrue'
<1>0. /\ Grows /\ UNCHANGED <<disk, watch, files, session, tick, pending>>
      /\ tool \in Tools /\ tool.items \subseteq Items /\ tool.at \in Items \cup {None} /\ tool.snap \in Snapshots
  BY StepGrows
     DEF Reupload, RunContentReupload, ToolRead, postReupload, ToolMarker, ToolSettle, ToolEnds, others, daemon, TypeOK, Tools
<1>1. LoopTrue'
  <2>1. LoopFrame
    BY <1>0 DEF LoopFrame
  <2> QED
    BY <2>1, LoopStays DEF RecordsTrue
<1>2. marker' = marker => TablesTrue'
  BY <1>0, TablesStay DEF RecordsTrue
<1>3. store' = store => KeyedRight'
  BY <1>0, KeysStay DEF RecordsTrue
<1>4. journal' = journal => JournalHonest'
  BY <1>0 DEF RecordsTrue, JournalHonest, Grows
<1>5. tool' = NoTool => ToolTrue'
  BY DEF NoTool, ToolTrue
<1>6. CASE RunContentReupload
  <2>1. UNCHANGED <<marker, journal, store>>
    BY <1>6 DEF RunContentReupload
  <2>2. ToolTrue'
    <3>0. PICK found \in SUBSET Ids :
            /\ \A id \in found : reuploadSelects(id)
            /\ tool' = [NoTool EXCEPT !.pc = "item",
                          !.items = {[id |-> id, life |-> disk[id].life, m |-> marker[id]] : id \in found}]
      BY <1>6 DEF RunContentReupload
    <3> DEFINE its == {[id |-> id, life |-> disk[id].life, m |-> marker[id]] : id \in found}
    <3>1. tool' = [NoTool EXCEPT !.pc = "item", !.items = its]
      BY <3>0
    <3>2. \A it \in its : First(it.m)
      BY <3>0 DEF reuploadSelects, RecordsTrue, TablesTrue, MarkerTrue
    <3> HIDE DEF its
    <3>3. tool'.pc = "item" /\ tool'.items = its
      BY <3>1 DEF NoTool
    <3> QED
      BY <3>2, <3>3 DEF ToolTrue
  <2> QED
    BY <1>1, <1>2, <1>3, <1>4, <2>1, <2>2 DEF RecordsTrue
<1>7. CASE ToolRead
  <2>1. UNCHANGED <<marker, store>>
    BY <1>7 DEF ToolRead
  <2>2. PICK it \in tool.items :
          /\ tool.pc = "item"
          /\ \/ tool' = [tool EXCEPT !.items = @ \ {it}] /\ journal' = journal \cup {<<it.id, "oversize">>}
             \/ tool' = [tool EXCEPT !.items = @ \ {it}] /\ journal' = journal
             \/ /\ markerPrefixMatches(it.m, disk[it.id]) /\ journal' = journal
                /\ tool' = [tool EXCEPT !.items = @ \ {it}, !.pc = "post", !.at = it, !.snap = disk[it.id]]
    BY <1>7 DEF ToolRead
  <2>3. First(it.m) /\ \A i \in tool.items : First(i.m)
    BY DEF RecordsTrue, ToolTrue
  <2>4. ToolTrue'
    <3>1. CASE tool' = [tool EXCEPT !.items = @ \ {it}]
      <4>1. tool'.pc = "item" /\ tool'.items \subseteq tool.items
        BY <1>0, <2>2, <3>1 DEF Tools
      <4> QED
        BY <2>3, <4>1 DEF ToolTrue
    <3>2. CASE /\ markerPrefixMatches(it.m, disk[it.id])
               /\ tool' = [tool EXCEPT !.items = @ \ {it}, !.pc = "post", !.at = it, !.snap = disk[it.id]]
      <4>1. tool'.pc = "post" /\ tool'.items \subseteq tool.items /\ tool'.at = it /\ tool'.snap = disk[it.id]
        BY <1>0, <3>2 DEF Tools
      <4>2. disk[it.id].life = 1
        BY <2>3, <3>2 DEF markerPrefixMatches, First
      <4> QED
        BY <2>3, <4>1, <4>2 DEF ToolTrue, First
    <3> QED
      BY <2>2, <3>1, <3>2
  <2>5. JournalHonest'
    BY <1>0, <1>4, <2>2 DEF RecordsTrue, JournalHonest, Grows
  <2> QED
    BY <1>1, <1>2, <1>3, <2>1, <2>4, <2>5 DEF RecordsTrue
<1>8. CASE postReupload
  <2>1. /\ tool.pc = "post" /\ marker' = marker /\ First(tool.at.m) /\ tool.snap.life = 1
        /\ \A i \in tool.items : First(i.m)
    BY <1>8 DEF postReupload, RecordsTrue, ToolTrue
  <2>2. tool.at \in Items /\ tool.at.m \in Markers /\ tool.at.m.native \in Lives /\ Bytes(tool.snap) \in Pairs
    BY <1>0, <2>1, SnapshotParts DEF TypeOK, Items, Markers
  <2>3. PICK b \in Pairs : b = Bytes(tool.snap) /\ b[1] = 1
    BY <1>0, <2>1, <2>2, SnapshotParts
  <2>4. PICK res :
          /\ Answered(res, tool.at.m.native, b)
          /\ \/ res = "ok" /\ tool' = [tool EXCEPT !.pc = "marker", !.res = "accepted"] /\ journal' = journal
             \/ tool' = [tool EXCEPT !.at.m.refused = TRUE] /\ journal' = journal
             \/ tool' = [tool EXCEPT !.pc = "item"] /\ journal' = journal \cup {<<tool.at.id, "rejected">>}
             \/ tool' = NoTool /\ journal' = journal
             \/ tool' = [tool EXCEPT !.pc = "item"] /\ journal' = journal
    BY <1>8, <2>3 DEF postReupload
  <2>5. /\ store' = store \/ store' = store \cup {<<1, b, "after">>}
        /\ res = "ok" => <<1, b, "after">> \in store'
    <3>1. /\ store' = store \/ store' = store \cup {<<tool.at.m.native, b, "after">>}
          /\ res = "ok" => store' = store \cup {<<tool.at.m.native, b, "after">>}
      BY <2>2, <2>4, AnsweredTyped
    <3>2. tool.at.m.native = 1
      BY <2>1 DEF First
    <3> QED
      BY <3>1, <3>2
  <2>6. KeyedRight'
    <3> SUFFICES ASSUME NEW x \in store', budget'.stale = {}
                 PROVE  x[1] = x[2][1]
      BY DEF KeyedRight
    <3>1. CASE x \in store
      BY <1>0, <3>1 DEF RecordsTrue, KeyedRight, Grows
    <3>2. CASE x = <<1, b, "after">>
      BY <2>3, <3>2
    <3> QED
      BY <2>5, <3>1, <3>2
  <2>7. ToolTrue'
    <3>1. CASE res = "ok" /\ tool' = [tool EXCEPT !.pc = "marker", !.res = "accepted"]
      <4>1. tool'.pc = "marker" /\ tool'.items = tool.items /\ tool'.at = tool.at /\ tool'.snap = tool.snap
        BY <1>0, <3>1 DEF Tools
      <4> QED
        BY <2>1, <2>3, <2>5, <3>1, <4>1 DEF ToolTrue, First, Bytes
    <3>2. CASE tool' = [tool EXCEPT !.at.m.refused = TRUE]
      <4>1. tool' = [tool EXCEPT !.at = [tool.at EXCEPT !.m = [tool.at.m EXCEPT !.refused = TRUE]]]
        BY <1>0, <2>2, <3>2 DEF Tools, Items
      <4> DEFINE m == [tool.at.m EXCEPT !.refused = TRUE]
                 a == [tool.at EXCEPT !.m = m]
      <4>2. m.native = tool.at.m.native /\ m.bytes = tool.at.m.bytes
        BY <2>2 DEF Markers
      <4>3. a.m = m /\ tool' = [tool EXCEPT !.at = a]
        BY <2>2, <4>1 DEF Items
      <4> HIDE DEF a, m
      <4>4. tool'.pc = "post" /\ tool'.items = tool.items /\ tool'.at = a /\ tool'.snap = tool.snap
        BY <1>0, <2>1, <4>3 DEF Tools
      <4> QED
        BY <2>1, <4>2, <4>3, <4>4 DEF ToolTrue, First
    <3>3. CASE tool' = [tool EXCEPT !.pc = "item"]
      <4>1. tool'.pc = "item" /\ tool'.items = tool.items
        BY <1>0, <3>3 DEF Tools
      <4> QED
        BY <2>1, <4>1 DEF ToolTrue, First
    <3> QED
      BY <1>5, <2>4, <3>1, <3>2, <3>3
  <2>8. JournalHonest'
    BY <1>0, <1>4, <2>4 DEF RecordsTrue, JournalHonest, Grows
  <2> QED
    BY <1>1, <1>2, <2>1, <2>6, <2>7, <2>8 DEF RecordsTrue
<1>9. CASE ToolMarker
  <2>1. /\ tool.pc = "marker" /\ First(tool.at.m) /\ tool.snap.life = 1 /\ <<1, Bytes(tool.snap), "after">> \in store
        /\ (\A i \in tool.items : First(i.m)) /\ UNCHANGED <<journal, store, judged>>
    BY <1>9 DEF ToolMarker, RecordsTrue, ToolTrue
  <2>2. tool.at \in Items /\ tool.at.m \in Markers /\ Bytes(tool.snap) \in Pairs /\ Stat(tool.snap) \in Pairs
    BY <1>0, <2>1, SnapshotParts DEF TypeOK, Items
  <2>3. ToolTrue'
    <3>1. tool' = [tool EXCEPT !.pc = "settle"] \/ tool' = [tool EXCEPT !.pc = "item"]
      BY <1>9 DEF ToolMarker
    <3>2. tool'.pc \in {"settle", "item"} /\ tool'.items = tool.items /\ tool'.at = tool.at /\ tool'.snap = tool.snap
      BY <1>0, <3>1 DEF Tools
    <3> QED
      BY <2>1, <3>2 DEF ToolTrue, First, Bytes
  <2>4. PICK id \in Ids : id = tool.at.id
    BY <2>2 DEF Items
  <2>5. CASE marker' = marker
    BY <1>1, <1>2, <1>3, <1>4, <2>1, <2>3, <2>5 DEF RecordsTrue
  <2>6. CASE /\ marker' = [marker EXCEPT ![id] = contentMarker(Bytes(tool.snap), Stat(tool.snap), tool.at.m.native,
                                                                tool.at.m.gc, tool.at.m.refused, FALSE)]
             /\ NoteMarker(id, tool.at.m)
    <3> DEFINE c == contentMarker(Bytes(tool.snap), Stat(tool.snap), tool.at.m.native, tool.at.m.gc, tool.at.m.refused, FALSE)
    <3>1. c.bytes = Bytes(tool.snap) /\ c.native = 1 /\ ~c.old
      BY <2>1 DEF contentMarker, First
    <3>2. marker'[id] = c /\ \A i \in Ids : i # id => marker'[i] = marker[i]
      BY <2>6 DEF TypeOK
    <3> HIDE DEF c
    <3>3. c.bytes[1] = 1 /\ \E x \in store : x[2] = c.bytes
      BY <1>0, <2>1, <3>1, SnapshotParts
    <3>4. MarkerTrue(marker[id])'
      BY <2>1, <3>1, <3>2, <3>3 DEF MarkerTrue, Taken
    <3>5. Clean' => disk[id].life = 1
      <4>1. ASSUME budget' = [budget EXCEPT !.stale = @ \cup {id}]
            PROVE  ~Clean'
        BY <4>1 DEF TypeOK, Budgets, Clean
      <4>2. tool.at.m # None /\ tool.at.m.bytes[1] = 1
        BY <2>1, <2>2, NoneApart DEF First
      <4> QED
        BY <2>6, <4>1, <4>2 DEF NoteMarker
    <3>6. ASSUME files[id] # None
          PROVE  FileTrue(id)'
      <4>1. FileOf(id) /\ FileTrue(id) /\ (Clean' => Clean)
        BY <1>0, <3>6 DEF ConsentKept, WatchShape, RecordsTrue, TablesTrue, Clean, Grows
      <4>2. files[id].life \in Nat /\ files[id].life # 0 /\ watch.life[id] \in Nat
        <5>1. files[id] \in FileStates
          BY <3>6 DEF TypeOK
        <5> QED
          BY <5>1, Constants DEF TypeOK, Lives, FileStates, Watchers
      <4>3. Clean' => files[id].life = 1
        BY <3>5, <3>6, <4>1, <4>2 DEF FileOf
      <4> QED
        BY <1>0, <2>1, <3>2, <3>3, <4>1, <4>3 DEF FileTrue, Taken, Clean
    <3>7. TablesTrue'
      <4>1. \A i \in Ids : \/ marker'[i] = marker[i]
                           \/ MarkerTrue(marker[i])' /\ (files'[i] = None \/ FileTrue(i)')
        BY <1>0, <3>2, <3>4, <3>6
      <4> QED
        BY <1>0, <4>1, TablesStay DEF RecordsTrue
    <3> QED
      BY <1>1, <1>3, <1>4, <2>1, <2>3, <3>7 DEF RecordsTrue
  <2> QED
    BY <1>9, <2>4, <2>5, <2>6 DEF ToolMarker
<1>10. CASE ToolSettle
  <2>1. /\ tool.pc = "settle" /\ tool.snap.life = 1 /\ <<1, Bytes(tool.snap), "after">> \in store
        /\ (\A i \in tool.items : First(i.m)) /\ UNCHANGED <<marker, store, judged>>
        /\ tool' = [tool EXCEPT !.pc = "item"] /\ journal' = journal \cup {<<tool.at.id, tool.res>>}
    BY <1>10 DEF ToolSettle, RecordsTrue, ToolTrue
  <2>2. ToolTrue'
    <3>1. tool'.pc = "item" /\ tool'.items = tool.items
      BY <1>0, <2>1 DEF Tools
    <3> QED
      BY <2>1, <3>1 DEF ToolTrue
  <2>3. \E x \in store' : x[1] = 1 /\ x[2][1] = 1 /\ x[3] = "after"
    <3>1. Bytes(tool.snap)[1] = 1
      BY <1>0, <2>1, SnapshotParts
    <3> QED
      BY <2>1, <3>1
  <2>4. JournalHonest'
    BY <2>3 DEF JournalHonest
  <2> QED
    BY <1>1, <1>2, <1>3, <2>1, <2>2, <2>4 DEF RecordsTrue
<1>11. CASE ToolEnds
  <2>1. UNCHANGED <<marker, journal, store>> /\ tool' = NoTool
    BY <1>11 DEF ToolEnds
  <2> QED
    BY <1>1, <1>2, <1>3, <1>4, <1>5, <2>1 DEF RecordsTrue
<1> QED
  BY <1>6, <1>7, <1>8, <1>9, <1>10, <1>11 DEF Reupload

LEMMA RecordsKept == Spec => []RecordsTrue
<1>1. TypeOK /\ TypeOK' /\ ConsentKept /\ RecordsTrue /\ [Next]_vars => RecordsTrue'
  <2> SUFFICES ASSUME TypeOK, TypeOK', ConsentKept, RecordsTrue, [Next]_vars PROVE RecordsTrue'
    OBVIOUS
  <2>1. CASE UNCHANGED vars
    <3>1. /\ UNCHANGED <<disk, watch, files, session, tick, marker, pending, tool, journal, store, judged, budget>>
      BY <2>1 DEF vars
    <3>2. TablesTrue'
      BY <3>1 DEF RecordsTrue, TablesTrue, FileTrue, MarkerTrue, PendTrue, Taken, Clean, First
    <3>3. LoopTrue'
      BY <3>1 DEF RecordsTrue, LoopTrue, JobTrue, RecTrue, MarkerTrue, PendTrue, Taken, Clean, First, Bytes
    <3>4. ToolTrue' /\ KeyedRight' /\ JournalHonest'
      BY <3>1 DEF RecordsTrue, ToolTrue, First, Bytes, KeyedRight, JournalHonest
    <3> QED
      BY <3>2, <3>3, <3>4 DEF RecordsTrue
  <2>2. CASE Next
    BY <2>2, WorldRecords, ChangeRecords, WatcherRecords, TickRecords, ProcessRecords, ToolRecords DEF Next
  <2> QED
    BY <2>1, <2>2
<1> QED
  BY <1>1, Types, ConsentKeeps, InitRecords, PTL DEF Spec

\* What the collector holds under a session is that session's transcript, although inode numbers are
\* reused and the session is remembered by the sink, the pending record, the marker and the name,
\* unless a marker, a session or an answer outlived its file (resolveSessionLocked, observe,
\* ForgetContent, processOne, postReupload).
THEOREM KeysRight == Spec => []KeyedRight
<1>1. RecordsTrue => KeyedRight
  BY DEF RecordsTrue
<1> QED
  BY <1>1, RecordsKept, PTL

\* A marker on disk records bytes the collector took, under the session they were sent with, and a
\* transcript is settled as accepted only once it was sent after the cutoff, although the daemon and
\* the tool write the same markers (recordAccepted, persistMarker, ToolMarker, ToolSettle).
THEOREM RecordsHonest == Spec => [](MarkerHonest /\ JournalHonest)
<1>1. RecordsTrue => MarkerHonest /\ JournalHonest
  <2> SUFFICES ASSUME RecordsTrue, NEW id \in Ids, marker[id] # None, <<"mismatch", marker[id].bytes>> \notin judged
               PROVE  \E x \in store : x[2] = marker[id].bytes /\ (x[1] = marker[id].native \/ budget.stale # {})
    BY DEF MarkerHonest, RecordsTrue
  <2>1. MarkerTrue(marker[id]) /\ KeyedRight
    BY DEF RecordsTrue, TablesTrue
  <2>2. PICK x \in store : x[2] = marker[id].bytes
    BY <2>1 DEF MarkerTrue, Taken
  <2> QED
    BY <2>1, <2>2 DEF MarkerTrue, Clean, KeyedRight
<1> QED
  BY <1>1, RecordsKept, PTL

-----------------------------------------------------------------------------
(* Why a snapshot is left alone *)

\* How a number's file may change in a step: it grows or is touched, it is deleted, another
\* transcript takes its number.
Moved(d, e) ==
  \/ e = d
  \/ e.life = d.life /\ e.mod >= d.mod /\ (e.len = 0 \/ (d.len > 0 /\ e.len >= d.len))
  \/ e.life > d.life /\ e.mod > d.mod

\* What a step may make of a queued transcript: dropped; worked on, where its memory is kept, loaded
\* from the marker, evaluated as oversize, settled by the snapshot in hand or counted a failure; or
\* observed.
Kept(f, g) == g.mk = f.mk /\ g.failed = f.failed /\ g.fails = f.fails
LoadedIs(id, f, g) ==
  /\ marker[id] # None /\ g.mk = marker[id] /\ g.eval = <<marker[id].stat, marker[id].gc>>
  /\ g.failed = f.failed /\ g.fails = f.fails
OversizeIs(id, f, g) == Kept(f, g) /\ disk[id].len > MaxBytes /\ g.eval[1] = Stat(disk[id])
AnsweredIs(id, f, g) ==
  /\ tick.pc \in {"look", "out"} /\ tick.job.id = id
  /\ tick.pc = "look" => f.mk # None /\ f.mk.bytes = Bytes(tick.snap)
  /\ tick.pc = "out" => tick.res \in {"ok", "mismatch", "reject", "idConflict"}
  /\ g.eval[1] = Stat(tick.snap) /\ g.mk # None /\ g.mk.bytes = Bytes(tick.snap) /\ g.failed = f.failed
FailedIs(id, f, g) ==
  /\ tick.pc = "out" /\ tick.job.id = id /\ tick'.pc \notin Reads
  /\ g.mk = f.mk /\ g.failed = Stat(tick.snap)
  /\ g.fails = (IF f.failed = Stat(tick.snap) THEN f.fails + 1 ELSE 1)
  /\ g.eval = (IF g.fails = MaxAttempts THEN <<Stat(tick.snap), tick.job.gc>> ELSE f.eval)
WorkedIs(id, f, g) ==
  /\ f # None /\ g.life = f.life /\ g.stat = f.stat
  /\ \/ Kept(f, g) /\ g.eval = f.eval
     \/ LoadedIs(id, f, g) \/ OversizeIs(id, f, g) \/ AnsweredIs(id, f, g) \/ FailedIs(id, f, g)
ObservedNow(id, f, g) ==
  /\ disk' = disk /\ disk[id].len > 0 /\ g.life = disk[id].life /\ g.stat = Stat(disk[id])
  /\ \/ f = None /\ g.eval = None /\ g.mk = None /\ g.failed = <<0, 0>>
     \/ f # None /\ Kept(f, g) /\ f.life = g.life /\ (g.eval = None \/ g.eval = f.eval)
FileStep(id) ==
  files'[id] = None \/ WorkedIs(id, files[id], files'[id]) \/ ObservedNow(id, files[id], files'[id])

\* What a step may make of a marker, of the loop's hands and of the tool's.
MarkerStep(id) ==
  \/ marker'[id] = None \/ marker'[id] = marker[id]
  \/ tick.rec # None /\ tick.job.id = id /\ marker'[id] = tick.rec
  \/ /\ tool.pc = "marker" /\ tool.at.id = id
     /\ marker'[id].bytes = Bytes(tool.snap) /\ marker'[id].stat = Stat(tool.snap)
HandStep ==
  /\ tick'.pc \in Reads =>
       \/ tick.pc \in Reads /\ tick'.job = tick.job /\ tick'.snap = tick.snap
       \/ /\ UNCHANGED <<disk, watch, files>> /\ tick'.job \in tick.jobs
          /\ tick'.snap = disk[tick'.job.id] /\ tick'.snap.life = tick'.job.life
  /\ tick'.rec # None =>
       /\ tick'.pc = "persist" /\ tick'.job = tick.job
       /\ \/ tick'.rec = tick.rec
          \/ tick.pc \in Reads /\ tick'.rec.bytes = Bytes(tick.snap) /\ tick'.rec.stat = Stat(tick.snap)
  /\ tick'.res \in {"reject", "idConflict"} =>
       /\ tick'.snap = tick.snap
       /\ tick'.res = tick.res \/ <<tick'.res, Bytes(tick.snap)>> \in judged'
ToolStep ==
  tool'.pc \in {"post", "marker"} =>
    \/ tool.pc \in {"post", "marker"} /\ tool'.at.id = tool.at.id /\ tool'.snap = tool.snap
    \/ UNCHANGED <<disk, watch, files>> /\ tool'.snap = disk[tool'.at.id] /\ tool'.snap.life = 1
SideStep == (\A id \in Ids : FileStep(id) /\ MarkerStep(id)) /\ HandStep /\ ToolStep

LEMMA DiskMoves ==
  ASSUME TypeOK, TypeOK', Next, NEW id \in Ids
  PROVE  Moved(disk[id], disk'[id])
<1>0. /\ disk \in [Ids -> Snapshots] /\ disk'[id] \in Snapshots
      /\ disk[id].mod \in Nat /\ disk[id].len \in Nat /\ disk[id].life \in Nat
  BY Constants DEF TypeOK, Snapshots, Lives
<1>1. ASSUME NEW i \in Ids, WriteTranscript(i)
      PROVE  Moved(disk[id], disk'[id])
  BY <1>0, <1>1, TranscriptGrows DEF Moved
<1>2. ASSUME NEW i \in Ids, ReplaceTranscript(i)
      PROVE  Moved(disk[id], disk'[id])
  <2>1. CASE i # id
    BY <1>0, <1>2, <2>1, TranscriptReplaced DEF Moved
  <2>2. CASE i = id
    BY <1>0, <1>2, <2>2, TranscriptReplaced DEF Moved
  <2> QED
    BY <2>1, <2>2
<1>3. CASE disk' = disk
  BY <1>3 DEF Moved
<1>4. Tick => Still
  BY OutcomeIs
     DEF Tick, TickPlan, savePendingRecord, TickGate, TickJob, processOne, RegisterFlight, PostContent,
         persistMarker, dropPending, recordOwedIfStale
<1>5. Consent \/ Watcher \/ Tick \/ Process \/ Reupload => disk' = disk
  BY <1>4
     DEF Consent, Current, onConsentChange, sweepPending, Watcher, RebuildWatcher, observe, Deliver, ForgetContent,
         Still, Process, Stop, Kill, Start, Down, Reupload, RunContentReupload, ToolRead, postReupload, ToolMarker,
         ToolSettle, ToolEnds, others
<1> QED
  BY <1>1, <1>2, <1>3, <1>5 DEF Next, World, WritePolicy, HoldPasses, RenewToken

\* A step that works on no transcript, or drops some.
LEMMA QuietFile ==
  ASSUME NEW id \in Ids, files'[id] = None \/ (files'[id] = files[id])
  PROVE  FileStep(id)
BY DEF FileStep, WorkedIs, Kept

\* A frame of the loop is a step of its hands.
LEMMA QuietHand ==
  ASSUME LoopFrame, RecTrue,
         tick'.res \in {"reject", "idConflict"} => tick'.res = tick.res /\ tick'.snap = tick.snap
  PROVE  HandStep
BY DEF LoopFrame, RecTrue, HandStep, Reads

LEMMA OwedHand ==
  ASSUME TypeOK, RecordsTrue, tick' = NoTick \/ tick' = Owed \/ tick' = After("drop")
                   \/ \E js \in SUBSET tick.jobs : tick' = [Owed EXCEPT !.jobs = js]
  PROVE  HandStep /\ tick'.pc \notin Reads
<1>1. LoopFrame
  BY OwedFrame
<1>2. tick'.res = None /\ tick'.pc \notin Reads
  <2>1. CASE tick' = NoTick
    BY <2>1 DEF NoTick, Reads
  <2>2. CASE tick' = Owed \/ tick' = After("drop")
    BY <2>2, LoopTyped DEF Reads
  <2>3. ASSUME NEW js \in SUBSET tick.jobs, tick' = [Owed EXCEPT !.jobs = js]
        PROVE  tick'.res = None /\ tick'.pc \notin Reads
    BY <2>3, LoopTyped DEF Ticks, Reads
  <2> QED
    BY <2>1, <2>2, <2>3
<1> QED
  BY <1>1, <1>2, QuietHand, NoneApart DEF RecordsTrue, LoopTrue, Results

\* The steps that touch neither a snapshot in hand nor the tool.
LEMMA WorldSide ==
  ASSUME TypeOK, RecordsTrue, World \/ Consent
  PROVE  SideStep
<1>1. /\ UNCHANGED <<marker, tool>> /\ tick \in Ticks
  BY DEF World, WriteTranscript, ReplaceTranscript, WritePolicy, HoldPasses, RenewToken, durable, outside,
         Consent, Current, onConsentChange, sweepPending, TypeOK
<1>2. \A id \in Ids : files'[id] = None \/ files'[id] = files[id]
  <2>1. ASSUME NEW c \in calls, onConsentChange(c)
        PROVE  <1>2!:
    BY <2>1 DEF onConsentChange, Dropped
  <2> QED
    BY <2>1 DEF World, WriteTranscript, ReplaceTranscript, WritePolicy, HoldPasses, RenewToken, daemon,
                Consent, Current, sweepPending
<1>3. tick' = tick \/ \E w : tick' = [tick EXCEPT !.withdrawn = w]
  BY DEF World, WriteTranscript, ReplaceTranscript, WritePolicy, HoldPasses, RenewToken, daemon,
         Consent, Current, onConsentChange, sweepPending
<1>4. /\ tick'.pc = tick.pc /\ tick'.job = tick.job /\ tick'.snap = tick.snap /\ tick'.rec = tick.rec /\ tick'.res = tick.res
  BY <1>1, <1>3 DEF Ticks
<1>5. HandStep
  BY <1>4 DEF HandStep, RecordsTrue, LoopTrue, RecTrue
<1>6. ToolStep /\ \A id \in Ids : MarkerStep(id)
  BY <1>1 DEF ToolStep, MarkerStep
<1> QED
  BY <1>2, <1>5, <1>6, QuietFile DEF SideStep

LEMMA WatcherSide ==
  ASSUME TypeOK, TypeOK', ConsentKept, RecordsTrue, Watcher
  PROVE  SideStep
<1>1. UNCHANGED <<disk, tick, tool>>
  BY DEF Watcher, RebuildWatcher, observe, Deliver, ForgetContent, outside
<1>2. HandStep /\ ToolStep
  BY <1>1 DEF HandStep, ToolStep, RecordsTrue, LoopTrue, RecTrue
<1>3. ASSUME NEW id \in Ids PROVE MarkerStep(id)
  <2>1. marker' = marker \/ \E i \in Ids : marker' = [marker EXCEPT ![i] = None]
    BY DEF Watcher, RebuildWatcher, observe, Deliver, ForgetContent, durable
  <2>2. marker'[id] = marker[id] \/ marker'[id] = None
    BY <2>1 DEF TypeOK
  <2> QED
    BY <2>2 DEF MarkerStep
<1>4. ASSUME NEW i \in Ids, observe(i), NEW id \in Ids
      PROVE  FileStep(id)
  <2>0. files \in [Ids -> FileStates \cup {None}] /\ watch \in Watchers
    BY DEF TypeOK
  <2>1. CASE files'[id] = files[id] \/ files'[id] = None
    BY <2>1, QuietFile
  <2>2. CASE id = i /\ files[id] = None /\ files'[id] = contentState(watch.gen, disk[id])
    <3>1. watch.gen \in Gens /\ disk[id] \in Snapshots /\ disk[id].life \in Lives
      BY DEF TypeOK, Watchers
    <3> QED
      BY <1>1, <1>4, <2>2, <3>1, FreshTyped DEF FileStep, ObservedNow, observe
  <2>3. CASE id = i /\ files[id] # None /\ files'[id] = Observed(files[id], disk[id])
    <3>1. files[id] \in FileStates /\ files[id].life \in Lives /\ FileOf(id)
      BY <2>0, <2>3 DEF FileStates, ConsentKept, WatchShape
    <3>2. files[id].life = watch.life[id] /\ watch.life[id] # 0
      BY <2>3, <3>1, Constants DEF FileOf, Lives
    <3>3. disk[id].len > 0 /\ files[id].life = disk[id].life
      BY <1>4, <2>3, <3>2 DEF observe
    <3>4. LET o == Observed(files[id], disk[id])
          IN  /\ o.life = disk[id].life /\ o.stat = Stat(disk[id]) /\ (o.eval = None \/ o.eval = files[id].eval)
              /\ Kept(files[id], o)
      BY <3>1, ObservedIs DEF Kept
    <3> HIDE DEF Kept
    <3> QED
      BY <1>1, <2>3, <3>3, <3>4 DEF FileStep, ObservedNow
  <2> QED
    BY <1>4, <2>0, <2>1, <2>2, <2>3 DEF observe
<1>5. ASSUME RebuildWatcher \/ \E i \in Ids : Deliver(i) \/ ForgetContent(i), NEW id \in Ids
      PROVE  FileStep(id)
  <2>1. files'[id] = None \/ files'[id] = files[id]
    BY <1>5 DEF RebuildWatcher, Deliver, ForgetContent, TypeOK
  <2> QED
    BY <2>1, QuietFile
<1> QED
  BY <1>2, <1>3, <1>4, <1>5 DEF SideStep, Watcher

LEMMA ProcessSide ==
  ASSUME TypeOK, RecordsTrue, Process
  PROVE  SideStep
<1>1. UNCHANGED <<marker, tool>> /\ \A id \in Ids : files'[id] = None \/ files'[id] = files[id]
  BY DEF Process, Stop, Kill, Start, Down, outside
<1>2. tick' = NoTick \/ tick' = [NoTick EXCEPT !.pc = "down"]
  BY DEF Process, Stop, Kill, Start, Down
<1>3. HandStep
  BY <1>2, NoneApart DEF NoTick, HandStep, Reads, Results
<1>4. ToolStep /\ \A id \in Ids : MarkerStep(id)
  BY <1>1 DEF ToolStep, MarkerStep
<1> QED
  BY <1>1, <1>3, <1>4, QuietFile DEF SideStep

LEMMA ToolSide ==
  ASSUME TypeOK, RecordsTrue, Reupload
  PROVE  SideStep
<1>0. /\ UNCHANGED <<disk, watch, files, tick>> /\ tool \in Tools
      /\ tool.items \subseteq Items /\ tool.at \in Items \cup {None} /\ tool.snap \in Snapshots
  BY DEF Reupload, RunContentReupload, ToolRead, postReupload, ToolMarker, ToolSettle, ToolEnds, others, daemon, TypeOK, Tools
<1>1. HandStep
  BY <1>0 DEF HandStep, RecordsTrue, LoopTrue, RecTrue
<1>2. \A id \in Ids : FileStep(id)
  BY <1>0, QuietFile
<1>3. ASSUME NEW id \in Ids PROVE MarkerStep(id)
  <2>1. CASE ToolMarker
    <3>1. tool.pc = "marker" /\ marker \in [Ids -> Markers \cup {None}] /\ tool.at \in Items
      BY <1>0, <2>1 DEF ToolMarker, TypeOK
    <3>2. PICK i \in Ids : i = tool.at.id
      BY <3>1 DEF Items
    <3> DEFINE c == contentMarker(Bytes(tool.snap), Stat(tool.snap), tool.at.m.native, tool.at.m.gc, tool.at.m.refused, FALSE)
    <3>3. marker' = marker \/ marker' = [marker EXCEPT ![i] = c]
      BY <2>1, <3>2 DEF ToolMarker
    <3>4. c.bytes = Bytes(tool.snap) /\ c.stat = Stat(tool.snap)
      BY DEF contentMarker
    <3> HIDE DEF c
    <3> QED
      BY <3>1, <3>2, <3>3, <3>4 DEF MarkerStep
  <2>2. CASE marker' = marker
    BY <2>2 DEF MarkerStep
  <2> QED
    BY <2>1, <2>2 DEF Reupload, RunContentReupload, ToolRead, postReupload, ToolSettle, ToolEnds
<1>4. ToolStep
  <2>1. CASE RunContentReupload \/ ToolEnds
    <3>1. tool' = NoTool \/ \E its : tool' = [NoTool EXCEPT !.pc = "item", !.items = its]
      BY <2>1 DEF RunContentReupload, ToolEnds
    <3>2. tool'.pc \in {"idle", "item"}
      <4>1. CASE tool' = NoTool
        BY <4>1 DEF NoTool
      <4>2. ASSUME NEW its, tool' = [NoTool EXCEPT !.pc = "item", !.items = its]
            PROVE  tool'.pc = "item"
        BY <4>2 DEF NoTool
      <4> QED
        BY <3>1, <4>1, <4>2
    <3> QED
      BY <3>2 DEF ToolStep
  <2>2. CASE ToolMarker \/ ToolSettle
    <3>1. tool'.pc \in {"settle", "item"}
      BY <1>0, <2>2 DEF ToolMarker, ToolSettle, Tools
    <3> QED
      BY <3>1 DEF ToolStep
  <2>3. CASE ToolRead
    <3>1. PICK it \in tool.items :
            /\ tool.pc = "item"
            /\ \/ tool' = [tool EXCEPT !.items = @ \ {it}]
               \/ /\ markerPrefixMatches(it.m, disk[it.id])
                  /\ tool' = [tool EXCEPT !.items = @ \ {it}, !.pc = "post", !.at = it, !.snap = disk[it.id]]
      BY <2>3 DEF ToolRead
    <3>2. CASE tool' = [tool EXCEPT !.items = @ \ {it}]
      <4>1. tool'.pc = "item"
        BY <1>0, <3>1, <3>2 DEF Tools
      <4> QED
        BY <4>1 DEF ToolStep
    <3>3. CASE /\ markerPrefixMatches(it.m, disk[it.id])
               /\ tool' = [tool EXCEPT !.items = @ \ {it}, !.pc = "post", !.at = it, !.snap = disk[it.id]]
      <4>1. tool'.at = it /\ tool'.snap = disk[it.id]
        BY <1>0, <3>3 DEF Tools
      <4>2. disk[it.id].life = 1
        BY <3>3 DEF markerPrefixMatches, First, RecordsTrue, ToolTrue
      <4> QED
        BY <1>0, <4>1, <4>2 DEF ToolStep
    <3> QED
      BY <3>1, <3>2, <3>3
  <2>4. CASE postReupload
    <3>1. /\ tool.pc = "post" /\ tool.at \in Items /\ tool.at.m \in Markers
          /\ \/ tool' = [tool EXCEPT !.pc = "marker", !.res = "accepted"]
             \/ tool' = [tool EXCEPT !.at.m.refused = TRUE]
             \/ tool' = [tool EXCEPT !.pc = "item"]
             \/ tool' = NoTool
      BY <1>0, <2>4 DEF postReupload, TypeOK, Items
    <3>2. CASE tool' = [tool EXCEPT !.at.m.refused = TRUE]
      <4>1. tool' = [tool EXCEPT !.at = [tool.at EXCEPT !.m = [tool.at.m EXCEPT !.refused = TRUE]]]
        BY <1>0, <3>1, <3>2 DEF Tools, Items
      <4> DEFINE m == [tool.at.m EXCEPT !.refused = TRUE]
                 a == [tool.at EXCEPT !.m = m]
      <4>3. a.id = tool.at.id /\ tool' = [tool EXCEPT !.at = a]
        BY <3>1, <4>1 DEF Items
      <4> HIDE DEF a, m
      <4>4. tool'.pc = "post" /\ tool'.at = a /\ tool'.snap = tool.snap
        BY <1>0, <3>1, <4>3 DEF Tools
      <4> QED
        BY <3>1, <4>3, <4>4 DEF ToolStep
    <3>3. CASE tool' = [tool EXCEPT !.pc = "marker", !.res = "accepted"]
      <4>1. tool'.pc = "marker" /\ tool'.at = tool.at /\ tool'.snap = tool.snap
        BY <1>0, <3>3 DEF Tools
      <4> QED
        BY <3>1, <4>1 DEF ToolStep
    <3>4. CASE tool' = [tool EXCEPT !.pc = "item"] \/ tool' = NoTool
      <4>1. tool'.pc \notin {"post", "marker"}
        BY <1>0, <3>4 DEF Tools, NoTool
      <4> QED
        BY <4>1 DEF ToolStep
    <3> QED
      BY <3>1, <3>2, <3>3, <3>4
  <2> QED
    BY <2>1, <2>2, <2>3, <2>4 DEF Reupload
<1> QED
  BY <1>1, <1>2, <1>3, <1>4 DEF SideStep

LEMMA PlanSide ==
  ASSUME TypeOK, RecordsTrue, (\E stable \in SUBSET Ids : TickPlan(stable)) \/ recordOwedIfStale
  PROVE  SideStep
<1> DEFINE fs == [id \in Ids |-> PlannedState(id)]
<1>0. UNCHANGED <<marker, tool>> /\ tick \in Ticks
  BY DEF TickPlan, recordOwedIfStale, durable, outside, TypeOK
<1>1. tick'.pc = "save" /\ tick'.rec = None /\ tick'.res = None
  <2>1. ASSUME NEW stable \in SUBSET Ids, TickPlan(stable)
        PROVE  <1>1!:
    <3>1. tick.rec = None /\ tick.res = None
      BY <2>1 DEF TickPlan, RecordsTrue, LoopTrue, RecTrue, TypeOK
    <3>2. \E a, b : tick' = [tick EXCEPT !.pc = "save", !.saves = a, !.jobs = b]
      BY <2>1 DEF TickPlan
    <3> QED
      BY <1>0, <3>1, <3>2 DEF Ticks
  <2>2. CASE recordOwedIfStale
    BY <2>2 DEF recordOwedIfStale, NoTick
  <2> QED
    BY <2>1, <2>2
<1>2. HandStep
  BY <1>1, NoneApart DEF HandStep, Reads, Results
<1>3. files' = files \/ files' = fs
  BY DEF TickPlan, recordOwedIfStale
<1>4. ASSUME NEW id \in Ids PROVE FileStep(id)
  <2>1. CASE files'[id] = files[id] \/ files'[id] = None
    BY <2>1, QuietFile
  <2>2. CASE Replanned(id, files'[id])
    BY <2>2 DEF FileStep, WorkedIs, Kept, LoadedIs, Replanned
  <2> QED
    BY <1>3, <2>1, <2>2, PlannedIs
<1>5. ToolStep /\ \A id \in Ids : MarkerStep(id)
  BY <1>0 DEF ToolStep, MarkerStep
<1> QED
  BY <1>2, <1>4, <1>5 DEF SideStep

LEMMA SaveSide ==
  ASSUME TypeOK, RecordsTrue, savePendingRecord
  PROVE  SideStep
<1>1. PICK s \in tick.saves :
        /\ tick.pc = "save" /\ tick' = [tick EXCEPT !.saves = @ \ {s}]
        /\ \/ files' = [files EXCEPT ![s.id] = IF @ = None THEN None ELSE [@ EXCEPT !.pend = s.rec]]
           \/ files' = files
  BY DEF savePendingRecord
<1>2. UNCHANGED <<marker, tool>> /\ s.id \in Ids
  BY DEF savePendingRecord, outside, TypeOK, Ticks, SaveSet
<1>3. tick'.pc = "save" /\ tick'.rec = tick.rec /\ tick'.res = tick.res /\ tick.rec = None /\ tick.res = None
  BY <1>1 DEF TypeOK, Ticks, RecordsTrue, LoopTrue, RecTrue
<1>4. HandStep
  BY <1>3, NoneApart DEF HandStep, Reads, Results
<1>5. ASSUME NEW id \in Ids PROVE FileStep(id)
  <2>1. CASE files'[id] = files[id] \/ files'[id] = None
    BY <2>1, QuietFile
  <2>2. CASE files[id] # None /\ files'[id] = [files[id] EXCEPT !.pend = s.rec]
    <3>1. files[id] \in FileStates
      BY <2>2 DEF TypeOK
    <3> QED
      BY <2>2, <3>1 DEF FileStep, WorkedIs, Kept, FileStates
  <2> QED
    BY <1>1, <1>2, <2>1, <2>2 DEF TypeOK
<1>6. ToolStep /\ \A id \in Ids : MarkerStep(id)
  BY <1>2 DEF ToolStep, MarkerStep
<1> QED
  BY <1>4, <1>5, <1>6 DEF SideStep

LEMMA JobSide ==
  ASSUME TypeOK, RecordsTrue, TickJob
  PROVE  SideStep
<1>0. /\ tick.pc = "job" /\ tick \in Ticks /\ tick.res = None /\ tick.rec = None
      /\ Still /\ UNCHANGED <<marker, tool>>
  BY DEF TickJob, outside, TypeOK, RecordsTrue, LoopTrue, RecTrue
<1>1. PICK j \in tick.jobs :
           /\ j \in JobSet /\ j.id \in Ids
           /\ \/ /\ tick' = NoTick \/ tick' = [Owed EXCEPT !.jobs = @ \ {j}]
                 /\ UNCHANGED <<files, pending>>
              \/ /\ files[j.id] # None /\ disk[j.id].len > MaxBytes
                 /\ files' = [files EXCEPT ![j.id] = [markEvaluated(files[j.id], Stat(disk[j.id]), j.gc) EXCEPT !.pend = None]]
                 /\ tick' = [Owed EXCEPT !.jobs = @ \ {j}]
              \/ /\ disk[j.id].life = j.life
                 /\ tick' = [tick EXCEPT !.jobs = @ \ {j}, !.job = j, !.pc = "look", !.snap = disk[j.id]]
                 /\ UNCHANGED <<files, pending>>
  BY JobTaken
<1>2. ASSUME tick' = NoTick \/ tick' = [Owed EXCEPT !.jobs = @ \ {j}]
      PROVE  HandStep
  <2>1. Owed \in Ticks /\ Owed.jobs = tick.jobs
    BY LoopTyped
  <2>2. tick' = NoTick \/ tick' = [Owed EXCEPT !.jobs = tick.jobs \ {j}]
    BY <1>2, <2>1 DEF Ticks
  <2> QED
    BY <2>2, OwedHand
<1>3. ToolStep /\ \A id \in Ids : MarkerStep(id)
  BY <1>0 DEF ToolStep, MarkerStep
<1>4. CASE files' = files /\ (tick' = NoTick \/ tick' = [Owed EXCEPT !.jobs = @ \ {j}])
  BY <1>2, <1>3, <1>4, QuietFile DEF SideStep
<1>5. CASE /\ files[j.id] # None /\ disk[j.id].len > MaxBytes
           /\ files' = [files EXCEPT ![j.id] = [markEvaluated(files[j.id], Stat(disk[j.id]), j.gc) EXCEPT !.pend = None]]
           /\ tick' = [Owed EXCEPT !.jobs = @ \ {j}]
  <2> DEFINE m == markEvaluated(files[j.id], Stat(disk[j.id]), j.gc)
             g == [m EXCEPT !.pend = None]
  <2>1. files[j.id] \in FileStates /\ Stat(disk[j.id]) \in Pairs /\ j.gc \in BOOLEAN
    BY <1>1, <1>5, SnapshotParts DEF TypeOK, JobSet
  <2>2. m \in FileStates /\ m = [files[j.id] EXCEPT !.eval = <<Stat(disk[j.id]), j.gc>>]
    BY <2>1, MarkTyped
  <2>3. /\ m.life = files[j.id].life /\ m.stat = files[j.id].stat /\ Kept(files[j.id], m)
        /\ m.eval = <<Stat(disk[j.id]), j.gc>>
    BY <2>1, <2>2 DEF FileStates, Kept
  <2> HIDE DEF m
  <2>4. g.life = m.life /\ g.stat = m.stat /\ Kept(m, g) /\ g.eval = m.eval
    BY <2>2 DEF FileStates, Kept
  <2>5. files'[j.id] = g /\ \A i \in Ids : i # j.id => files'[i] = files[i]
    BY <1>1, <1>5 DEF TypeOK, m
  <2> HIDE DEF g
  <2>6. FileStep(j.id)
    <3>1. g.eval[1] = Stat(disk[j.id]) /\ Kept(files[j.id], g)
      BY <2>3, <2>4 DEF Kept
    <3>2. OversizeIs(j.id, files[j.id], files'[j.id])
      BY <1>5, <2>5, <3>1 DEF OversizeIs
    <3> QED
      BY <1>5, <2>3, <2>4, <2>5, <3>2 DEF FileStep, WorkedIs
  <2> QED
    BY <1>2, <1>3, <1>5, <2>5, <2>6, QuietFile DEF SideStep
<1>6. CASE /\ disk[j.id].life = j.life
           /\ tick' = [tick EXCEPT !.jobs = @ \ {j}, !.job = j, !.pc = "look", !.snap = disk[j.id]]
           /\ UNCHANGED <<files, pending>>
  <2>1. tick'.pc = "look" /\ tick'.job = j /\ tick'.snap = disk[j.id] /\ tick'.rec = None /\ tick'.res = None
    BY <1>0, <1>6 DEF Ticks
  <2>2. HandStep
    BY <1>0, <1>6, <2>1, NoneApart DEF HandStep, Results, Still
  <2> QED
    BY <1>3, <1>6, <2>2, QuietFile DEF SideStep
<1> QED
  BY <1>1, <1>4, <1>5, <1>6

LEMMA LookSide ==
  ASSUME TypeOK, RecordsTrue, processOne
  PROVE  SideStep
<1>0. /\ tick.pc = "look" /\ tick \in Ticks /\ tick.res = None /\ tick.rec = None
      /\ Still /\ UNCHANGED <<marker, tool>>
  BY DEF processOne, durable, outside, TypeOK, RecordsTrue, LoopTrue, RecTrue
<1>p. PICK id \in Ids : id = tick.job.id
  BY <1>0, JobInHand
<1> DEFINE st == files[id]
<1>1. st \in FileStates \cup {None} /\ files \in [Ids -> FileStates \cup {None}]
  BY DEF TypeOK
<1>2. ToolStep /\ \A i \in Ids : MarkerStep(i)
  BY <1>0 DEF ToolStep, MarkerStep
<1>3. CASE st = None /\ tick' = Owed /\ files' = files
  BY <1>2, <1>3, OwedHand, QuietFile DEF SideStep
<1>4. CASE files' = files /\ tick' = [tick EXCEPT !.pc = "reg", !.gc = tick.job.gc /\ ~st.refused]
  <2>1. tick'.rec = None /\ tick'.res = None /\ tick'.job = tick.job /\ tick'.snap = tick.snap
    BY <1>0, <1>4 DEF Ticks
  <2>2. HandStep
    BY <1>0, <2>1, NoneApart DEF HandStep, Results, Reads
  <2> QED
    BY <1>2, <1>4, <2>2, QuietFile DEF SideStep
<1>5. CASE /\ st # None /\ sameSnapshot(st) /\ files' = [files EXCEPT ![id] = seenState(st)]
           /\ tick' = [After("persist") EXCEPT
                          !.rec = IF st.uploaded THEN [seenState(st).mk EXCEPT !.old = FALSE] ELSE None,
                          !.next = IF st.pend # None THEN "drop" ELSE "owed"]
  <2> DEFINE s == seenState(st)
  <2>r. PICK r : r = [s.mk EXCEPT !.old = FALSE]
    OBVIOUS
  <2>1. /\ s.life = st.life /\ s.stat = st.stat /\ s.failed = st.failed /\ s.eval = <<Stat(tick.snap), tick.job.gc>>
        /\ s.mk.bytes = st.mk.bytes /\ st.mk.bytes = Bytes(tick.snap) /\ st.mk \in Markers /\ s.mk \in Markers
        /\ st.uploaded => s.mk.stat = Stat(tick.snap)
        /\ r.bytes = s.mk.bytes /\ r.stat = s.mk.stat
    BY <1>0, <1>1, <1>5, <2>r, SeenIs
  <2>2. /\ After("persist") \in Ticks /\ After("persist").pc = "persist" /\ After("persist").job = tick.job
        /\ After("persist").res = None
    BY <1>0, LoopTyped
  <2>3. tick' = [After("persist") EXCEPT !.rec = IF st.uploaded THEN r ELSE None,
                                         !.next = IF st.pend # None THEN "drop" ELSE "owed"]
    BY <1>5, <2>r
  <2>4. files'[id] = s /\ (\A i \in Ids : i # id => files'[i] = files[i])
    BY <1>1, <1>5
  <2>5. st.mk # None /\ s.mk # None
    BY <2>1, NoneApart
  <2> HIDE DEF s
  <2>6. /\ tick'.pc = "persist" /\ tick'.job = tick.job /\ tick'.res = None
        /\ tick'.rec = (IF st.uploaded THEN r ELSE None)
    BY <2>2, <2>3 DEF Ticks
  <2>7. HandStep
    BY <1>0, <2>1, <2>6, NoneApart DEF HandStep, Reads, Results
  <2>8. FileStep(id)
    BY <1>0, <1>p, <1>5, <2>1, <2>4, <2>5 DEF FileStep, WorkedIs, AnsweredIs
  <2> QED
    BY <1>2, <2>4, <2>7, <2>8, QuietFile DEF SideStep
<1> QED
  BY <1>p, <1>3, <1>4, <1>5, ProcessIs

LEMMA PostSide ==
  ASSUME TypeOK, RecordsTrue, PostContent
  PROVE  SideStep
<1>0. /\ tick.pc = "fly" /\ tick \in Ticks /\ tick.rec = None /\ tick.res = None /\ UNCHANGED <<files, marker, tool>>
  BY DEF PostContent, durable, TypeOK, RecordsTrue, LoopTrue, RecTrue
<1>1. PICK res :
        /\ tick' = [tick EXCEPT !.pc = "out", !.res = res]
        /\ Answered(res, tick.job.native, Bytes(tick.snap)) \/ res = "fail"
  BY DEF PostContent
<1>2. /\ tick'.pc = "out" /\ tick'.res = res /\ tick'.job = tick.job /\ tick'.snap = tick.snap /\ tick'.rec = tick.rec
  BY <1>0, <1>1 DEF Ticks
<1>3. res \in {"reject", "idConflict"} => <<res, Bytes(tick.snap)>> \in judged'
  BY <1>1 DEF Answered
<1>4. HandStep
  BY <1>0, <1>2, <1>3 DEF HandStep, Reads
<1>5. ToolStep /\ \A i \in Ids : MarkerStep(i)
  BY <1>0 DEF ToolStep, MarkerStep
<1> QED
  BY <1>0, <1>4, <1>5, QuietFile DEF SideStep

LEMMA OutcomeSide ==
  ASSUME TypeOK, RecordsTrue, Outcome
  PROVE  SideStep
<1>0. /\ tick.pc = "out" /\ tick \in Ticks /\ tick.rec = None /\ files \in [Ids -> FileStates \cup {None}]
      /\ UNCHANGED <<marker, tool>>
  BY OutcomeIs DEF durable, outside, TypeOK, RecordsTrue, LoopTrue, RecTrue
<1>p. PICK id \in Ids : id = tick.job.id
  BY <1>0, JobInHand
<1> DEFINE st == files[id]
<1>1. ToolStep /\ \A i \in Ids : MarkerStep(i)
  BY <1>0 DEF ToolStep, MarkerStep
<1>2. ASSUME NEW g, st # None, files' = [files EXCEPT ![id] = g], WorkedIs(id, st, g)
      PROVE  \A i \in Ids : FileStep(i)
  <2>1. files'[id] = g /\ \A i \in Ids : i # id => files'[i] = files[i]
    BY <1>0, <1>2
  <2>2. FileStep(id)
    BY <1>2, <2>1 DEF FileStep
  <2> QED
    BY <2>1, <2>2, QuietFile
<1>3. ASSUME tick' = Owed \/ tick' = After("drop")
      PROVE  HandStep /\ tick'.pc \notin Reads
  BY <1>3, OwedHand
<1>4. ASSUME tick' = [tick EXCEPT !.pc = "reg", !.gc = FALSE, !.res = None]
      PROVE  HandStep
  <2>1. tick'.rec = None /\ tick'.res = None /\ tick'.job = tick.job /\ tick'.snap = tick.snap
    BY <1>0, <1>4 DEF Ticks
  <2> QED
    BY <1>0, <2>1, NoneApart DEF HandStep, Results, Reads
<1>5. ASSUME NEW r, tick' = [After("persist") EXCEPT !.next = "drop", !.rec = r],
             r = None \/ (r.bytes = Bytes(tick.snap) /\ r.stat = Stat(tick.snap))
      PROVE  HandStep
  <2>1. /\ After("persist") \in Ticks /\ After("persist").pc = "persist" /\ After("persist").job = tick.job
        /\ After("persist").res = None
    BY LoopTyped
  <2>2. tick'.pc = "persist" /\ tick'.job = tick.job /\ tick'.res = None /\ tick'.rec = r
    BY <1>5, <2>1 DEF Ticks
  <2> QED
    BY <1>0, <1>5, <2>2, NoneApart DEF HandStep, Reads, Results
<1>6. CASE /\ files' = files \/ files' = [files EXCEPT ![id] = None]
           /\ \/ tick' = Owed \/ tick' = After("drop")
              \/ tick' = [tick EXCEPT !.pc = "reg", !.gc = FALSE, !.res = None]
              \/ tick' = [After("persist") EXCEPT !.next = "drop", !.rec = None]
  <2>1. \A i \in Ids : files'[i] = None \/ files'[i] = files[i]
    BY <1>0, <1>6
  <2>2. HandStep
    BY <1>3, <1>4, <1>5, <1>6
  <2> QED
    BY <1>1, <2>1, <2>2, QuietFile DEF SideStep
<1>7. CASE tick' = Owed /\ st # None /\ files' = [files EXCEPT ![id] = recordPostFailure(st)]
  <2>1. WorkedIs(id, st, recordPostFailure(st))
    <3>1. LET r == recordPostFailure(st)
          IN  /\ r.life = st.life /\ r.stat = st.stat /\ r.mk = st.mk /\ r.failed = Stat(tick.snap)
              /\ r.fails = (IF st.failed = Stat(tick.snap) THEN st.fails + 1 ELSE 1)
              /\ r.eval = (IF r.fails = MaxAttempts THEN <<Stat(tick.snap), tick.job.gc>> ELSE st.eval)
      BY <1>0, <1>7, FailureIs
    <3>2. FailedIs(id, st, recordPostFailure(st))
      BY <1>0, <1>p, <1>3, <1>7, <3>1 DEF FailedIs
    <3> QED
      BY <1>7, <3>1, <3>2 DEF WorkedIs
  <2> QED
    BY <1>1, <1>2, <1>3, <1>7, <2>1 DEF SideStep
<1>8. CASE /\ tick.res \in {"ok", "mismatch"}
           /\ st # None /\ files' = [files EXCEPT ![id] = acceptedSnapshot(st)]
           /\ tick' = [After("persist") EXCEPT !.next = "drop", !.rec = acceptedSnapshot(st).mk]
  <2>1. LET a == acceptedSnapshot(st)
        IN  /\ a.life = st.life /\ a.stat = st.stat /\ a.failed = st.failed /\ a.eval = <<Stat(tick.snap), tick.job.gc>>
            /\ a.mk \in Markers /\ a.mk.bytes = Bytes(tick.snap) /\ a.mk.stat = Stat(tick.snap)
    BY <1>0, <1>8, AcceptedIs
  <2>2. acceptedSnapshot(st).mk # None
    BY <2>1, NoneApart
  <2>3. WorkedIs(id, st, acceptedSnapshot(st))
    BY <1>0, <1>p, <1>8, <2>1, <2>2 DEF WorkedIs, AnsweredIs
  <2>4. HandStep
    BY <1>5, <1>8, <2>1
  <2> QED
    BY <1>1, <1>2, <1>8, <2>3, <2>4 DEF SideStep
<1>9. CASE /\ tick' = [tick EXCEPT !.pc = "reg", !.gc = FALSE, !.res = None]
           /\ st # None /\ files' = [files EXCEPT ![id] = [st EXCEPT !.refused = TRUE]]
  <2>1. WorkedIs(id, st, [st EXCEPT !.refused = TRUE])
    BY <1>0, <1>9, RefusedIs DEF WorkedIs, Kept
  <2> QED
    BY <1>1, <1>2, <1>4, <1>9, <2>1 DEF SideStep
<1>10. CASE /\ tick.res \in {"idConflict", "reject"}
            /\ tick' = (IF tick.res = "reject" THEN After("drop") ELSE Owed)
            /\ st # None
            /\ files' = [files EXCEPT ![id] = [Settled(st, FALSE) EXCEPT
                                        !.pend = IF tick.res = "reject" THEN None ELSE st.pend]]
  <2> DEFINE p == IF tick.res = "reject" THEN None ELSE st.pend
             g == [Settled(st, FALSE) EXCEPT !.pend = p]
  <2>1. st \in FileStates /\ p \in Records \cup {None}
    BY <1>0, <1>10 DEF FileStates
  <2>2. /\ g.life = st.life /\ g.stat = st.stat /\ g.failed = st.failed /\ g.eval = <<Stat(tick.snap), tick.job.gc>>
        /\ g.mk \in Markers /\ g.mk.bytes = Bytes(tick.snap)
    BY <1>0, <2>1, RejectedIs
  <2>3. files' = [files EXCEPT ![id] = g] /\ g.mk # None
    BY <1>10, <2>2, NoneApart
  <2> HIDE DEF g, p
  <2>4. WorkedIs(id, st, g)
    BY <1>0, <1>p, <1>10, <2>2, <2>3 DEF WorkedIs, AnsweredIs
  <2> QED
    BY <1>1, <1>2, <1>3, <1>10, <2>3, <2>4 DEF SideStep
<1> QED
  BY <1>p, <1>6, <1>7, <1>8, <1>9, <1>10, OutcomeIs

LEMMA TickSide ==
  ASSUME TypeOK, RecordsTrue, Tick
  PROVE  SideStep
<1>0. tick \in Ticks
  BY DEF TypeOK
<1>1. CASE TickGate
  <2>1. /\ tick.pc = "save" /\ UNCHANGED <<files, marker, tool>> /\ tick.rec = None /\ tick.res = None
    BY <1>1 DEF TickGate, durable, outside, TypeOK, RecordsTrue, LoopTrue, RecTrue
  <2>2. tick' = NoTick \/ tick' = [tick EXCEPT !.pc = "job"]
    BY <1>1 DEF TickGate
  <2>3. tick'.pc \notin Reads /\ tick'.rec = None /\ tick'.res = None
    BY <1>0, <2>1, <2>2 DEF Ticks, NoTick, Reads
  <2>4. HandStep
    BY <2>3, NoneApart DEF HandStep, Results
  <2> QED
    BY <2>1, <2>4, QuietFile DEF SideStep, ToolStep, MarkerStep
<1>2. CASE RegisterFlight
  <2>1. /\ tick.pc = "reg" /\ UNCHANGED <<marker, tool>>
        /\ tick.rec = None /\ tick.res = None /\ tick.job.id \in Ids /\ files \in [Ids -> FileStates \cup {None}]
    BY <1>2, JobInHand DEF RegisterFlight, durable, outside, TypeOK, RecordsTrue, LoopTrue, RecTrue
  <2>2. ToolStep /\ \A i \in Ids : MarkerStep(i)
    BY <2>1 DEF ToolStep, MarkerStep
  <2>3. \A i \in Ids : files'[i] = None \/ files'[i] = files[i]
    BY <1>2, <2>1 DEF RegisterFlight
  <2>4. HandStep
    <3>1. CASE tick' = Owed
      BY <3>1, OwedHand
    <3>2. CASE tick' = [tick EXCEPT !.pc = "fly", !.withdrawn = FALSE, !.tok = token]
      <4>1. tick'.rec = None /\ tick'.res = None /\ tick'.job = tick.job /\ tick'.snap = tick.snap
        BY <1>0, <2>1, <3>2 DEF Ticks
      <4> QED
        BY <2>1, <4>1, NoneApart DEF HandStep, Results, Reads
    <3> QED
      BY <1>2, <3>1, <3>2 DEF RegisterFlight
  <2> QED
    BY <2>2, <2>3, <2>4, QuietFile DEF SideStep
<1>3. CASE dropPending
  <2>1. UNCHANGED <<files, marker, tool>> /\ tick' = Owed
    BY <1>3 DEF dropPending, outside
  <2> QED
    BY <2>1, OwedHand, QuietFile DEF SideStep, ToolStep, MarkerStep
<1>4. CASE persistMarker
  <2>1. UNCHANGED <<files, tool>> /\ (tick' = After("drop") \/ tick' = Owed) /\ tick.job.id \in Ids
    BY <1>4, JobInHand DEF persistMarker, outside
  <2>2. marker' = marker \/ (tick.rec # None /\ marker' = [marker EXCEPT ![tick.job.id] = tick.rec])
    BY <1>4 DEF persistMarker
  <2>3. \A i \in Ids : MarkerStep(i)
    BY <2>1, <2>2 DEF MarkerStep, TypeOK
  <2> QED
    BY <2>1, <2>3, OwedHand, QuietFile DEF SideStep, ToolStep
<1> QED
  BY <1>1, <1>2, <1>3, <1>4, PlanSide, SaveSide, JobSide, LookSide, PostSide, OutcomeSide DEF Tick

LEMMA StepSide ==
  ASSUME TypeOK, TypeOK', ConsentKept, RecordsTrue, Next
  PROVE  SideStep
BY WorldSide, WatcherSide, TickSide, ProcessSide, ToolSide DEF Next

\* Numbers are reused in order, and the clock of a number moves with them: a snapshot of an earlier
\* transcript has an earlier time than any of a later one.
Earlier(life, mod, d) ==
  /\ life <= d.life
  /\ life < d.life => mod < d.mod
  /\ life = d.life => mod <= d.mod
Dated(d, f, tracked, life, mod) ==
  /\ Earlier(life, mod, d)
  /\ f # None /\ life < f.life => mod < f.stat[2]
  /\ tracked # 0 => life <= tracked
Marks(d, f, tracked, m) == Dated(d, f, tracked, m.bytes[1], m.stat[2]) /\ m.stat[1] = m.bytes[2]

\* Every snapshot the loops hold, and every marker, is of the file's present or of its past.
TimesTrue ==
  /\ \A id \in Ids :
       /\ files[id] # None => files[id].stat[1] > 0 /\ Earlier(files[id].life, files[id].stat[2], disk[id])
       /\ marker[id] # None => Marks(disk[id], files[id], watch.life[id], marker[id])
  /\ tick.pc \in Reads =>
       Dated(disk[tick.job.id], files[tick.job.id], watch.life[tick.job.id], tick.snap.life, tick.snap.mod)
  /\ tick.rec # None => Marks(disk[tick.job.id], files[tick.job.id], watch.life[tick.job.id], tick.rec)
  /\ tool.pc \in {"post", "marker"} =>
       Dated(disk[tool.at.id], files[tool.at.id], watch.life[tool.at.id], tool.snap.life, tool.snap.mod)

LEMMA DiskNums ==
  ASSUME TypeOK, NEW id \in Ids
  PROVE  /\ disk[id] \in Snapshots /\ disk[id].life \in Nat /\ disk[id].mod \in Nat /\ disk[id].len \in Nat
         /\ watch.life[id] \in Nat
BY Constants DEF TypeOK, Snapshots, Lives, Watchers

LEMMA FileNums ==
  ASSUME TypeOK, NEW id \in Ids, files[id] # None
  PROVE  /\ files[id] \in FileStates /\ files[id].life \in Nat /\ files[id].life # 0
         /\ files[id].stat[1] \in Nat /\ files[id].stat[2] \in Nat /\ files[id].stat \in Pairs
         /\ files[id].failed[1] \in Nat /\ files[id].failed[2] \in Nat /\ files[id].failed \in Pairs
         /\ files[id].fails \in Nat
<1>1. files[id] \in FileStates
  BY DEF TypeOK
<1>2. /\ files[id].life \in Lives /\ files[id].stat \in Pairs /\ files[id].failed \in Pairs /\ files[id].fails \in Nat
  BY <1>1 DEF FileStates
<1> QED
  BY <1>1, <1>2, Constants DEF Lives, Pairs

LEMMA MarkerNums ==
  ASSUME NEW m \in Markers
  PROVE  /\ m.bytes \in Pairs /\ m.stat \in Pairs /\ m.bytes[1] \in Nat /\ m.bytes[2] \in Nat
         /\ m.stat[1] \in Nat /\ m.stat[2] \in Nat
BY DEF Markers, Pairs

LEMMA SnapNums ==
  ASSUME NEW s \in Snapshots
  PROVE  /\ s.life \in Nat /\ s.mod \in Nat /\ s.len \in Nat /\ Stat(s) \in Pairs /\ Bytes(s) \in Pairs
         /\ Stat(s)[1] = s.len /\ Stat(s)[2] = s.mod /\ Bytes(s)[1] = s.life /\ Bytes(s)[2] = s.len
BY SnapshotParts, Constants

\* A transcript that stays queued is the same one, or was observed just now.
LEMMA FileIs ==
  ASSUME NEW id \in Ids, FileStep(id), files'[id] # None
  PROVE  \/ files[id] # None /\ files'[id].life = files[id].life /\ files'[id].stat = files[id].stat
         \/ /\ disk' = disk /\ disk[id].len > 0 /\ files'[id].life = disk[id].life /\ files'[id].stat = Stat(disk[id])
            /\ files[id] = None \/ files[id].life = disk[id].life
BY DEF FileStep, WorkedIs, ObservedNow

LEMMA EarlierStays ==
  ASSUME TypeOK, TypeOK', Next, NEW id \in Ids, NEW l \in Nat, NEW m \in Nat, Earlier(l, m, disk[id])
  PROVE  Earlier(l, m, disk'[id])
<1>1. Moved(disk[id], disk'[id])
  BY DiskMoves
<1>2. /\ disk[id].life \in Nat /\ disk[id].mod \in Nat
      /\ disk'[id].life \in Nat /\ disk'[id].mod \in Nat
  BY DiskNums, Constants DEF TypeOK, Snapshots, Lives
<1> QED
  BY <1>1, <1>2 DEF Moved, Earlier

LEMMA DatedStays ==
  ASSUME TypeOK, TypeOK', Next, SideStep, NEW id \in Ids, NEW l \in Nat, NEW m \in Nat,
         Dated(disk[id], files[id], watch.life[id], l, m)
  PROVE  Dated(disk'[id], files'[id], watch'.life[id], l, m)
<1>1. Earlier(l, m, disk'[id])
  BY EarlierStays DEF Dated
<1>2. ASSUME files'[id] # None, l < files'[id].life
      PROVE  m < files'[id].stat[2]
  <2>1. FileStep(id)
    BY DEF SideStep
  <2>2. CASE files[id] # None /\ files'[id].life = files[id].life /\ files'[id].stat = files[id].stat
    BY <1>2, <2>2 DEF Dated
  <2>3. CASE disk' = disk /\ files'[id].life = disk[id].life /\ files'[id].stat = Stat(disk[id])
    <3>1. m < disk[id].mod /\ Stat(disk[id])[2] = disk[id].mod
      BY <1>2, <2>3, DiskNums, SnapNums DEF Dated, Earlier
    <3> QED
      BY <2>3, <3>1
  <2> QED
    BY <1>2, <2>1, <2>2, <2>3, FileIs
<1>3. ASSUME watch'.life[id] # 0
      PROVE  l <= watch'.life[id]
  <2>1. watch'.life[id] \in {0, watch.life[id], disk'[id].life}
    BY LivesMove
  <2> QED
    BY <1>1, <1>3, <2>1 DEF Dated, Earlier
<1> QED
  BY <1>1, <1>2, <1>3 DEF Dated

LEMMA MarksStay ==
  ASSUME TypeOK, TypeOK', Next, SideStep, NEW id \in Ids, NEW m \in Markers,
         Marks(disk[id], files[id], watch.life[id], m)
  PROVE  Marks(disk'[id], files'[id], watch'.life[id], m)
<1>1. m.bytes[1] \in Nat /\ m.stat[2] \in Nat
  BY MarkerNums
<1>2. Dated(disk'[id], files'[id], watch'.life[id], m.bytes[1], m.stat[2])
  BY <1>1, DatedStays DEF Marks
<1> QED
  BY <1>2 DEF Marks

\* A snapshot just read is the file's present, and of no later transcript than the watcher tracks.
LEMMA FreshDated ==
  ASSUME TypeOK, ConsentKept, NEW id \in Ids, watch.life[id] # 0 => disk[id].life <= watch.life[id]
  PROVE  Dated(disk[id], files[id], watch.life[id], disk[id].life, disk[id].mod)
<1>1. FileOf(id)
  BY DEF ConsentKept, WatchShape
<1>2. /\ disk[id].life \in Nat /\ disk[id].mod \in Nat /\ watch.life[id] \in Nat
      /\ files[id] # None => files[id].life \in Nat
  BY DiskNums, FileNums
<1> QED
  BY <1>1, <1>2 DEF FileOf, Dated, Earlier

LEMMA InitTimes == Init => TimesTrue
<1> SUFFICES ASSUME Init PROVE TimesTrue
  OBVIOUS
<1>1. \A id \in Ids : disk[id] = [NoFile EXCEPT !.life = 1, !.len = 1] /\ watch.life[id] = 0 /\ files[id] = None
  BY DEF Init
<1>2. \A id \in Ids : disk[id].life = 1 /\ disk[id].mod = 0
  BY <1>1 DEF NoFile
<1>3. ASSUME NEW id \in Ids, marker[id] # None
      PROVE  Marks(disk[id], files[id], watch.life[id], marker[id])
  <2>1. marker[id] = contentMarker(<<1, 1>>, <<1, 0>>, 1, FALSE, FALSE, TRUE)
    BY <1>3 DEF Init
  <2>2. marker[id].bytes = <<1, 1>> /\ marker[id].stat = <<1, 0>>
    BY <2>1 DEF contentMarker
  <2> QED
    BY <1>1, <1>2, <1>3, <2>2 DEF Marks, Dated, Earlier
<1>4. tick.pc \notin Reads /\ tick.rec = None /\ tool.pc = "idle"
  BY DEF Init, NoTick, NoTool, Reads
<1> QED
  BY <1>1, <1>3, <1>4 DEF TimesTrue

LEMMA TimesKept == Spec => []TimesTrue
<1>1. TypeOK /\ TypeOK' /\ ConsentKept /\ RecordsTrue /\ TimesTrue /\ [Next]_vars => TimesTrue'
  <2> SUFFICES ASSUME TypeOK, TypeOK', ConsentKept, RecordsTrue, TimesTrue, [Next]_vars PROVE TimesTrue'
    OBVIOUS
  <2>1. CASE UNCHANGED vars
    BY <2>1 DEF vars, TimesTrue
  <2>2. CASE Next
    <3>1. SideStep
      BY <2>2, StepSide
    <3>2. ASSUME NEW id \in Ids, files'[id] # None
          PROVE  files'[id].stat[1] > 0 /\ Earlier(files'[id].life, files'[id].stat[2], disk'[id])
      <4>1. CASE files[id] # None /\ files'[id].life = files[id].life /\ files'[id].stat = files[id].stat
        <5>1. /\ files[id].stat[1] > 0 /\ Earlier(files[id].life, files[id].stat[2], disk[id])
              /\ files[id].life \in Nat /\ files[id].stat[2] \in Nat
          BY <4>1, FileNums DEF TimesTrue
        <5> QED
          BY <2>2, <4>1, <5>1, EarlierStays
      <4>2. CASE disk' = disk /\ disk[id].len > 0 /\ files'[id].life = disk[id].life /\ files'[id].stat = Stat(disk[id])
        <5>1. Stat(disk[id])[1] = disk[id].len /\ Stat(disk[id])[2] = disk[id].mod
          BY DiskNums, SnapNums
        <5> QED
          BY <4>2, <5>1, DiskNums DEF Earlier
      <4> QED
        BY <3>1, <3>2, <4>1, <4>2, FileIs DEF SideStep
    <3>3. ASSUME NEW id \in Ids, marker'[id] # None
          PROVE  Marks(disk'[id], files'[id], watch'.life[id], marker'[id])
      <4>1. CASE marker'[id] = marker[id]
        <5>1. PICK m \in Markers : m = marker[id]
          BY <3>3, <4>1 DEF TypeOK
        <5> QED
          BY <2>2, <3>1, <3>3, <4>1, <5>1, MarksStay DEF TimesTrue
      <4>2. CASE tick.rec # None /\ tick.job.id = id /\ marker'[id] = tick.rec
        <5>1. PICK m \in Markers : m = tick.rec
          BY <4>2 DEF TypeOK, Ticks
        <5> QED
          BY <2>2, <3>1, <4>2, <5>1, MarksStay DEF TimesTrue
      <4>3. CASE /\ tool.pc = "marker" /\ tool.at.id = id
                 /\ marker'[id].bytes = Bytes(tool.snap) /\ marker'[id].stat = Stat(tool.snap)
        <5>1. PICK s \in Snapshots : s = tool.snap
          BY DEF TypeOK, Tools
        <5>2. s.life \in Nat /\ s.mod \in Nat
          BY SnapNums
        <5>3. Dated(disk'[id], files'[id], watch'.life[id], s.life, s.mod)
          BY <2>2, <3>1, <4>3, <5>1, <5>2, DatedStays DEF TimesTrue
        <5>4. Bytes(s)[1] = s.life /\ Bytes(s)[2] = s.len /\ Stat(s)[1] = s.len /\ Stat(s)[2] = s.mod
          BY SnapNums
        <5> QED
          BY <4>3, <5>1, <5>3, <5>4 DEF Marks
      <4> QED
        BY <3>1, <3>3, <4>1, <4>2, <4>3 DEF SideStep, MarkerStep
    <3>4. ASSUME tick'.pc \in Reads
          PROVE  Dated(disk'[tick'.job.id], files'[tick'.job.id], watch'.life[tick'.job.id], tick'.snap.life, tick'.snap.mod)
      <4>1. CASE tick.pc \in Reads /\ tick'.job = tick.job /\ tick'.snap = tick.snap
        <5>1. PICK id \in Ids : id = tick.job.id
          BY <4>1, JobInHand DEF Reads
        <5>2. PICK s \in Snapshots : s = tick.snap
          BY DEF TypeOK, Ticks
        <5>3. s.life \in Nat /\ s.mod \in Nat
          BY SnapNums
        <5>4. Dated(disk'[id], files'[id], watch'.life[id], s.life, s.mod)
          BY <2>2, <3>1, <4>1, <5>1, <5>2, <5>3, DatedStays DEF TimesTrue
        <5> QED
          BY <4>1, <5>1, <5>2, <5>4
      <4>2. CASE /\ UNCHANGED <<disk, watch, files>> /\ tick'.job \in tick.jobs
                 /\ tick'.snap = disk[tick'.job.id] /\ tick'.snap.life = tick'.job.life
        <5>1. PICK j \in tick.jobs : j = tick'.job
          BY <4>2
        <5>2. j \in JobSet /\ JobTrue(j)
          BY DEF TypeOK, Ticks, RecordsTrue, LoopTrue
        <5>3. PICK id \in Ids : id = j.id
          BY <5>2 DEF JobSet
        <5>4. watch.life[id] # 0 => disk[id].life <= watch.life[id]
          BY <4>2, <5>1, <5>2, <5>3 DEF JobTrue
        <5>5. Dated(disk[id], files[id], watch.life[id], disk[id].life, disk[id].mod)
          BY <5>4, FreshDated
        <5> QED
          BY <4>2, <5>1, <5>3, <5>5
      <4> QED
        BY <3>1, <3>4, <4>1, <4>2 DEF SideStep, HandStep
    <3>5. ASSUME tick'.rec # None
          PROVE  Marks(disk'[tick'.job.id], files'[tick'.job.id], watch'.life[tick'.job.id], tick'.rec)
      <4>0. tick'.job = tick.job
        BY <3>1, <3>5 DEF SideStep, HandStep
      <4>1. CASE tick'.rec = tick.rec
        <5>0. tick.pc = "persist"
          BY <3>5, <4>1 DEF RecordsTrue, LoopTrue, RecTrue
        <5>1. PICK id \in Ids : id = tick.job.id
          BY <5>0, JobInHand
        <5>2. PICK m \in Markers : m = tick.rec
          BY <3>5, <4>1 DEF TypeOK, Ticks
        <5> QED
          BY <2>2, <3>1, <3>5, <4>0, <4>1, <5>1, <5>2, MarksStay DEF TimesTrue
      <4>2. CASE tick.pc \in Reads /\ tick'.rec.bytes = Bytes(tick.snap) /\ tick'.rec.stat = Stat(tick.snap)
        <5>1. PICK id \in Ids : id = tick.job.id
          BY <4>2, JobInHand DEF Reads
        <5>2. PICK s \in Snapshots : s = tick.snap
          BY DEF TypeOK, Ticks
        <5>3. /\ s.life \in Nat /\ s.mod \in Nat
              /\ Bytes(s)[1] = s.life /\ Bytes(s)[2] = s.len /\ Stat(s)[1] = s.len /\ Stat(s)[2] = s.mod
          BY SnapNums
        <5>4. Dated(disk'[id], files'[id], watch'.life[id], s.life, s.mod)
          BY <2>2, <3>1, <4>2, <5>1, <5>2, <5>3, DatedStays DEF TimesTrue
        <5> QED
          BY <4>0, <4>2, <5>1, <5>2, <5>3, <5>4 DEF Marks
      <4> QED
        BY <3>1, <3>5, <4>1, <4>2 DEF SideStep, HandStep
    <3>6. ASSUME tool'.pc \in {"post", "marker"}
          PROVE  Dated(disk'[tool'.at.id], files'[tool'.at.id], watch'.life[tool'.at.id], tool'.snap.life, tool'.snap.mod)
      <4>1. CASE tool.pc \in {"post", "marker"} /\ tool'.at.id = tool.at.id /\ tool'.snap = tool.snap
        <5>1. PICK id \in Ids : id = tool.at.id
          BY <4>1 DEF TypeOK, Tools, Items
        <5>2. PICK s \in Snapshots : s = tool.snap
          BY DEF TypeOK, Tools
        <5>3. s.life \in Nat /\ s.mod \in Nat
          BY SnapNums
        <5>4. Dated(disk'[id], files'[id], watch'.life[id], s.life, s.mod)
          BY <2>2, <3>1, <4>1, <5>1, <5>2, <5>3, DatedStays DEF TimesTrue
        <5> QED
          BY <4>1, <5>1, <5>2, <5>4
      <4>2. CASE UNCHANGED <<disk, watch, files>> /\ tool'.snap = disk[tool'.at.id] /\ tool'.snap.life = 1
        <5>1. PICK id \in Ids : id = tool'.at.id
          BY <3>6 DEF TypeOK, Tools, Items
        <5>2. watch.life[id] # 0 => disk[id].life <= watch.life[id]
          BY <4>2, <5>1, DiskNums
        <5>3. Dated(disk[id], files[id], watch.life[id], disk[id].life, disk[id].mod)
          BY <5>2, FreshDated
        <5> QED
          BY <4>2, <5>1, <5>3
      <4> QED
        BY <3>1, <3>6, <4>1, <4>2 DEF SideStep, ToolStep
    <3> QED
      BY <3>2, <3>3, <3>4, <3>5, <3>6 DEF TimesTrue
  <2> QED
    BY <2>1, <2>2
<1> QED
  BY <1>1, Types, ConsentKeeps, RecordsKept, InitTimes, PTL DEF Spec

\* The bytes the collector has taken or judged.
SeenBytes == {x[2] : x \in store} \cup {r[2] : r \in judged}

\* A snapshot with stat s that the file has been at, and one that it has left behind.
Reached(s, d) == s[2] <= d.mod /\ (s[2] = d.mod => d.len = 0 \/ s[1] <= d.len)
Passed(s, d) == s[2] <= d.mod /\ (d.len = 0 \/ s[2] < d.mod \/ s[1] < d.len)

\* Bytes b account for stat s of the queued transcript f: they are that snapshot's, or those of a
\* transcript its number carried before, at a time f's stat has left behind.
Explains(b, s, f) == b[2] = s[1] /\ (b[1] = f.life \/ (b[1] < f.life /\ s[2] < f.stat[2]))

\* Why a queued transcript f was evaluated at stat s, and then not owed at it.
Reason(seen, d, f, s) ==
  \/ \E b \in seen : Explains(b, s, f)
  \/ f.failed = s /\ f.fails >= MaxAttempts
  \/ s[1] > MaxBytes
  \/ Passed(s, d)
ReasonsTrue ==
  /\ \A id \in Ids : files[id] # None =>
       /\ files[id].mk # None => files[id].mk.bytes \in SeenBytes
       /\ files[id].eval # None => Reason(SeenBytes, disk[id], files[id], files[id].eval[1])
       /\ Reached(files[id].failed, disk[id])
  /\ tick.pc \in Reads =>
       /\ Reached(Stat(tick.snap), disk[tick.job.id])
       /\ files[tick.job.id] # None => Reached(files[tick.job.id].failed, tick.snap)
  /\ tick.res \in {"reject", "idConflict"} => Bytes(tick.snap) \in SeenBytes

LEMMA SeenGrows ==
  ASSUME Grows
  PROVE  SeenBytes \subseteq SeenBytes'
BY DEF Grows, SeenBytes

LEMMA TakenSeen ==
  ASSUME NEW b, Taken(b)
  PROVE  b \in SeenBytes
<1>1. ASSUME <<"mismatch", b>> \in judged
      PROVE  \E r \in judged : r[2] = b
  BY <1>1
<1> QED
  BY <1>1 DEF Taken, SeenBytes

LEMMA ReachedStays ==
  ASSUME TypeOK, TypeOK', Next, NEW id \in Ids, NEW s \in Pairs
  PROVE  /\ Reached(s, disk[id]) => Reached(s, disk'[id])
         /\ Passed(s, disk[id]) => Passed(s, disk'[id])
<1>1. Moved(disk[id], disk'[id])
  BY DiskMoves
<1>2. /\ disk[id].life \in Nat /\ disk[id].mod \in Nat /\ disk[id].len \in Nat
      /\ disk'[id].life \in Nat /\ disk'[id].mod \in Nat /\ disk'[id].len \in Nat
  BY DiskNums, Constants DEF TypeOK, Snapshots, Lives
<1>3. s[1] \in Nat /\ s[2] \in Nat
  BY DEF Pairs
<1>4. Reached(s, disk[id]) => Reached(s, disk'[id])
  BY <1>1, <1>2, <1>3 DEF Moved, Reached
<1>5. Passed(s, disk[id]) => Passed(s, disk'[id])
  BY <1>1, <1>2, <1>3 DEF Moved, Passed
<1> QED
  BY <1>4, <1>5

\* A reason stays one while the transcript is the same and its stat only moves on.
LEMMA ReasonStays ==
  ASSUME TypeOK, TypeOK', Next, NEW id \in Ids, NEW s \in Pairs, NEW f, NEW g,
         Reason(SeenBytes, disk[id], f, s), g.life = f.life, g.failed = f.failed, g.fails = f.fails,
         g.stat = f.stat \/ (f.stat[2] \in Nat /\ g.stat[2] \in Nat /\ f.stat[2] <= g.stat[2])
  PROVE  Reason(SeenBytes', disk'[id], g, s)
<1>1. SeenBytes \subseteq SeenBytes'
  BY StepGrows, SeenGrows
<1>2. s[2] \in Nat
  BY DEF Pairs
<1>3. ASSUME NEW b \in SeenBytes, Explains(b, s, f)
      PROVE  Explains(b, s, g)
  BY <1>2, <1>3 DEF Explains
<1> QED
  BY <1>1, <1>3, ReachedStays DEF Reason

\* The snapshot in hand, and the marker on disk, account for the stats they have.
LEMMA SnapExplains ==
  ASSUME TypeOK, ConsentKept, TimesTrue, tick.pc \in Reads, files[tick.job.id] # None
  PROVE  Explains(Bytes(tick.snap), Stat(tick.snap), files[tick.job.id])
<1>1. PICK id \in Ids : id = tick.job.id
  BY JobInHand DEF Reads
<1>2. PICK s \in Snapshots : s = tick.snap
  BY DEF TypeOK, Ticks
<1>3. FileOf(id) /\ Dated(disk[id], files[id], watch.life[id], s.life, s.mod)
  BY <1>1, <1>2 DEF ConsentKept, WatchShape, TimesTrue
<1>4. /\ s.life \in Nat /\ Bytes(s)[1] = s.life /\ Bytes(s)[2] = s.len /\ Stat(s)[1] = s.len /\ Stat(s)[2] = s.mod
  BY SnapNums
<1>5. files[id].life \in Nat /\ files[id].life # 0 /\ files[id].life = watch.life[id]
  BY <1>1, <1>3, FileNums DEF FileOf
<1> QED
  BY <1>1, <1>2, <1>3, <1>4, <1>5 DEF Explains, Dated

LEMMA MarkExplains ==
  ASSUME TypeOK, ConsentKept, TimesTrue, NEW id \in Ids, marker[id] # None, files[id] # None
  PROVE  Explains(marker[id].bytes, marker[id].stat, files[id])
<1>1. PICK m \in Markers : m = marker[id]
  BY DEF TypeOK
<1>2. FileOf(id) /\ Marks(disk[id], files[id], watch.life[id], m)
  BY <1>1 DEF ConsentKept, WatchShape, TimesTrue
<1>3. m.bytes[1] \in Nat
  BY MarkerNums
<1>4. files[id].life \in Nat /\ files[id].life # 0 /\ files[id].life = watch.life[id]
  BY <1>2, FileNums DEF FileOf
<1> QED
  BY <1>1, <1>2, <1>3, <1>4 DEF Explains, Marks, Dated

LEMMA InitReasons == Init => ReasonsTrue
<1> SUFFICES ASSUME Init PROVE ReasonsTrue
  OBVIOUS
<1>1. tick.pc \notin Reads /\ tick.res = None /\ \A id \in Ids : files[id] = None
  BY DEF Init, NoTick, Reads
<1> QED
  BY <1>1, NoneApart DEF ReasonsTrue, Results

\* What the memory of a queued transcript says it was sent is what the collector has seen.
LEMMA MemorySeen ==
  ASSUME TypeOK, TypeOK', ConsentKept, RecordsTrue, ReasonsTrue, Next, SideStep, NEW id \in Ids,
         files'[id] # None, files'[id].mk # None
  PROVE  files'[id].mk.bytes \in SeenBytes'
<1> DEFINE f == files[id]
           g == files'[id]
<1>0. SeenBytes \subseteq SeenBytes'
  BY StepGrows, SeenGrows
<1>1. CASE f # None /\ g.mk = f.mk
  BY <1>0, <1>1 DEF ReasonsTrue
<1>2. CASE LoadedIs(id, f, g)
  <2>1. Taken(marker[id].bytes)
    BY <1>2 DEF LoadedIs, RecordsTrue, TablesTrue, MarkerTrue
  <2> QED
    BY <1>0, <1>2, <2>1, TakenSeen DEF LoadedIs
<1>3. CASE f # None /\ AnsweredIs(id, f, g)
  <2>1. CASE tick.pc = "look"
    BY <1>0, <1>3, <2>1 DEF AnsweredIs, ReasonsTrue
  <2>2. CASE tick.pc = "out"
    <3>1. tick.res \in {"ok", "mismatch"} => Taken(Bytes(tick.snap))
      BY DEF RecordsTrue, LoopTrue
    <3>2. Bytes(tick.snap) \in SeenBytes
      BY <1>3, <2>2, <3>1, TakenSeen DEF AnsweredIs, ReasonsTrue
    <3> QED
      BY <1>0, <1>3, <3>2 DEF AnsweredIs
  <2> QED
    BY <1>3, <2>1, <2>2 DEF AnsweredIs
<1>4. FileStep(id)
  BY DEF SideStep
<1> QED
  BY <1>1, <1>2, <1>3, <1>4 DEF FileStep, WorkedIs, ObservedNow, Kept, OversizeIs, FailedIs

\* A failure is recorded of a snapshot the file has been at, which is no older than the last one.
LEMMA FailureReached ==
  ASSUME TypeOK, TypeOK', ReasonsTrue, Next, SideStep, NEW id \in Ids, files'[id] # None
  PROVE  Reached(files'[id].failed, disk'[id])
<1> DEFINE f == files[id]
           g == files'[id]
<1>1. CASE f # None /\ g.failed = f.failed
  <2>1. f.failed \in Pairs /\ Reached(f.failed, disk[id])
    BY <1>1, FileNums DEF ReasonsTrue
  <2> QED
    BY <1>1, <2>1, ReachedStays
<1>2. CASE FailedIs(id, f, g)
  <2>1. Stat(tick.snap) \in Pairs /\ Reached(Stat(tick.snap), disk[id])
    BY <1>2, JobInHand DEF FailedIs, ReasonsTrue, Reads
  <2> QED
    BY <1>2, <2>1, ReachedStays DEF FailedIs
<1>3. CASE disk' = disk /\ g.failed = <<0, 0>>
  BY <1>3, DiskNums DEF Reached
<1>4. FileStep(id)
  BY DEF SideStep
<1> QED
  BY <1>1, <1>2, <1>3, <1>4 DEF FileStep, WorkedIs, ObservedNow, Kept, LoadedIs, OversizeIs, AnsweredIs

\* A snapshot that was given up and then followed by another has been left behind.
LEMMA GivenUpPassed ==
  ASSUME TypeOK, ReasonsTrue, tick.pc = "out", NEW id \in Ids, tick.job.id = id, files[id] # None,
         files[id].failed # Stat(tick.snap)
  PROVE  Passed(files[id].failed, disk[id])
<1>1. PICK s \in Snapshots : s = tick.snap
  BY DEF TypeOK, Ticks
<1>2. PICK p \in Pairs : p = files[id].failed
  BY FileNums
<1>3. Reached(Stat(s), disk[id]) /\ Reached(p, s) /\ s.len > 0 /\ p # Stat(s)
  BY <1>1, <1>2 DEF ReasonsTrue, Reads, TypeOK
<1>4. /\ s.mod \in Nat /\ s.len \in Nat /\ Stat(s) = <<s.len, s.mod>> /\ p[1] \in Nat /\ p[2] \in Nat /\ p = <<p[1], p[2]>>
  <2>1. s.mod \in Nat /\ s.len \in Nat
    BY SnapNums
  <2>2. Stat(s) = <<s.len, s.mod>>
    BY DEF Stat
  <2>3. p[1] \in Nat /\ p[2] \in Nat /\ p = <<p[1], p[2]>>
    BY DEF Pairs
  <2> QED
    BY <2>1, <2>2, <2>3
<1>5. disk[id].mod \in Nat /\ disk[id].len \in Nat
  BY DiskNums
<1>6. p[1] # s.len \/ p[2] # s.mod
  BY <1>3, <1>4
<1>7. s.mod <= disk[id].mod /\ (s.mod = disk[id].mod => disk[id].len = 0 \/ s.len <= disk[id].len)
  BY <1>3, <1>4 DEF Reached
<1>8. p[2] <= s.mod /\ (p[2] = s.mod => p[1] <= s.len)
  BY <1>3, <1>4 DEF Reached
<1>9. Passed(p, disk[id])
  BY <1>4, <1>5, <1>6, <1>7, <1>8 DEF Passed
<1> QED
  BY <1>2, <1>9

\* A step evaluates a snapshot only for a reason, and keeps the reason of what was evaluated.
LEMMA ReasonKept ==
  ASSUME TypeOK, TypeOK', ConsentKept, RecordsTrue, TimesTrue, ReasonsTrue, Next, SideStep, NEW id \in Ids,
         files'[id] # None, files'[id].eval # None
  PROVE  Reason(SeenBytes', disk'[id], files'[id], files'[id].eval[1])
<1> DEFINE f == files[id]
           g == files'[id]
<1>0. SeenBytes \subseteq SeenBytes' /\ g \in FileStates /\ g.eval[1] \in Pairs
  <2>1. g \in FileStates
    BY DEF TypeOK
  <2>2. g.eval \in Evals
    BY <2>1 DEF FileStates
  <2> QED
    BY <2>1, <2>2, StepGrows, SeenGrows DEF Evals
<1>1. ASSUME f # None, g.eval = f.eval
      PROVE  Reason(SeenBytes, disk[id], f, g.eval[1])
  BY <1>1 DEF ReasonsTrue
<1>2. CASE f # None /\ g.life = f.life /\ g.stat = f.stat /\ Kept(f, g) /\ g.eval = f.eval
  BY <1>0, <1>1, <1>2, ReasonStays DEF Kept
<1>3. CASE f # None /\ g.life = f.life /\ g.stat = f.stat /\ LoadedIs(id, f, g)
  <2>1. g.eval[1] = marker[id].stat /\ marker[id] # None
    BY <1>3 DEF LoadedIs
  <2>2. Taken(marker[id].bytes)
    BY <2>1 DEF RecordsTrue, TablesTrue, MarkerTrue
  <2>3. Explains(marker[id].bytes, g.eval[1], f) /\ marker[id].bytes \in SeenBytes'
    BY <1>0, <1>3, <2>1, <2>2, MarkExplains, TakenSeen
  <2>4. Explains(marker[id].bytes, g.eval[1], g)
    BY <1>3, <2>3 DEF Explains
  <2> QED
    BY <2>3, <2>4 DEF Reason
<1>4. CASE OversizeIs(id, f, g)
  <2>1. g.eval[1][1] = disk[id].len
    BY <1>4, DiskNums, SnapNums DEF OversizeIs
  <2> QED
    BY <1>4, <2>1 DEF OversizeIs, Reason
<1>5. CASE f # None /\ g.life = f.life /\ g.stat = f.stat /\ AnsweredIs(id, f, g)
  <2>1. tick.pc \in Reads /\ tick.job.id = id /\ g.eval[1] = Stat(tick.snap) /\ g.mk # None /\ g.mk.bytes = Bytes(tick.snap)
    BY <1>5 DEF AnsweredIs, Reads
  <2>2. Explains(Bytes(tick.snap), g.eval[1], f)
    BY <1>5, <2>1, SnapExplains
  <2>3. Explains(Bytes(tick.snap), g.eval[1], g)
    BY <1>5, <2>2 DEF Explains
  <2>4. Bytes(tick.snap) \in SeenBytes'
    BY <2>1, MemorySeen
  <2> QED
    BY <2>3, <2>4 DEF Reason
<1>6. CASE f # None /\ g.life = f.life /\ g.stat = f.stat /\ FailedIs(id, f, g)
  <2>0. MaxAttempts \in Nat /\ f.fails \in Nat
    BY <1>6, Constants, FileNums
  <2>1. CASE g.fails = MaxAttempts
    BY <1>6, <2>0, <2>1 DEF FailedIs, Reason
  <2>2. CASE g.fails # MaxAttempts
    <3>1. g.eval = f.eval /\ Reason(SeenBytes, disk[id], f, g.eval[1])
      BY <1>1, <1>6, <2>2 DEF FailedIs
    <3>2. CASE \E b \in SeenBytes : Explains(b, g.eval[1], f)
      BY <1>0, <1>6, <3>2 DEF Explains, Reason
    <3>3. CASE g.eval[1][1] > MaxBytes
      BY <3>3 DEF Reason
    <3>4. CASE Passed(g.eval[1], disk[id])
      BY <1>0, <3>4, ReachedStays DEF Reason
    <3>5. CASE f.failed = g.eval[1] /\ f.fails >= MaxAttempts
      <4>1. CASE f.failed = Stat(tick.snap)
        <5>1. g.failed = g.eval[1] /\ g.fails = f.fails + 1
          BY <1>6, <3>5, <4>1 DEF FailedIs
        <5> QED
          BY <2>0, <3>5, <5>1 DEF Reason
      <4>2. CASE f.failed # Stat(tick.snap)
        <5>1. Passed(g.eval[1], disk[id])
          BY <1>6, <3>5, <4>2, GivenUpPassed DEF FailedIs
        <5> QED
          BY <1>0, <5>1, ReachedStays DEF Reason
      <4> QED
        BY <4>1, <4>2
    <3> QED
      BY <3>1, <3>2, <3>3, <3>4, <3>5 DEF Reason
  <2> QED
    BY <2>1, <2>2
<1>7. CASE ObservedNow(id, f, g)
  <2>1. f # None /\ Kept(f, g) /\ g.life = f.life /\ g.eval = f.eval /\ g.life = disk[id].life /\ g.stat = Stat(disk[id])
    BY <1>7 DEF ObservedNow
  <2>2. Earlier(f.life, f.stat[2], disk[id]) /\ f.stat[2] \in Nat /\ f.life \in Nat
    BY <2>1, FileNums DEF TimesTrue
  <2>3. g.stat[2] = disk[id].mod /\ disk[id].mod \in Nat /\ f.stat[2] <= disk[id].mod
    BY <2>1, <2>2, DiskNums, SnapNums DEF Earlier
  <2> QED
    BY <1>0, <1>1, <2>1, <2>2, <2>3, ReasonStays DEF Kept
<1>8. FileStep(id)
  BY DEF SideStep
<1> QED
  BY <1>2, <1>3, <1>4, <1>5, <1>6, <1>7, <1>8 DEF FileStep, WorkedIs

LEMMA ReasonsKept == Spec => []ReasonsTrue
<1>1. TypeOK /\ TypeOK' /\ ConsentKept /\ RecordsTrue /\ TimesTrue /\ ReasonsTrue /\ [Next]_vars => ReasonsTrue'
  <2> SUFFICES ASSUME TypeOK, TypeOK', ConsentKept, RecordsTrue, TimesTrue, ReasonsTrue, [Next]_vars
               PROVE  ReasonsTrue'
    OBVIOUS
  <2>1. CASE UNCHANGED vars
    BY <2>1 DEF vars, ReasonsTrue, SeenBytes
  <2>2. CASE Next
    <3>1. SideStep /\ SeenBytes \subseteq SeenBytes'
      BY <2>2, StepSide, StepGrows, SeenGrows
    <3>2. ASSUME NEW id \in Ids, files'[id] # None
          PROVE  /\ files'[id].mk # None => files'[id].mk.bytes \in SeenBytes'
                 /\ files'[id].eval # None => Reason(SeenBytes', disk'[id], files'[id], files'[id].eval[1])
                 /\ Reached(files'[id].failed, disk'[id])
      BY <2>2, <3>1, <3>2, MemorySeen, ReasonKept, FailureReached
    <3>3. ASSUME tick'.pc \in Reads
          PROVE  /\ Reached(Stat(tick'.snap), disk'[tick'.job.id])
                 /\ files'[tick'.job.id] # None => Reached(files'[tick'.job.id].failed, tick'.snap)
      <4>1. CASE tick.pc \in Reads /\ tick'.job = tick.job /\ tick'.snap = tick.snap
        <5>1. PICK id \in Ids : id = tick.job.id
          BY <4>1, JobInHand DEF Reads
        <5>2. PICK s \in Snapshots : s = tick.snap
          BY DEF TypeOK, Ticks
        <5>3. Stat(s) \in Pairs /\ s.mod \in Nat /\ s.len \in Nat
          BY SnapNums
        <5>4. Reached(Stat(s), disk'[id])
          BY <2>2, <4>1, <5>1, <5>2, <5>3, ReachedStays DEF ReasonsTrue
        <5>5. ASSUME files'[id] # None
              PROVE  Reached(files'[id].failed, s)
          <6>1. FileStep(id)
            BY <3>1 DEF SideStep
          <6>2. \/ files[id] # None /\ files'[id].failed = files[id].failed
                \/ files'[id].failed = <<0, 0>>
            BY <3>3, <5>5, <6>1 DEF FileStep, WorkedIs, ObservedNow, Kept, LoadedIs, OversizeIs, AnsweredIs, FailedIs
          <6>3. CASE files'[id].failed = <<0, 0>>
            BY <5>3, <6>3 DEF Reached
          <6>4. CASE files[id] # None /\ files'[id].failed = files[id].failed
            BY <4>1, <5>1, <5>2, <6>4 DEF ReasonsTrue
          <6> QED
            BY <6>2, <6>3, <6>4
        <5> QED
          BY <4>1, <5>1, <5>2, <5>4, <5>5
      <4>2. CASE /\ UNCHANGED <<disk, watch, files>> /\ tick'.job \in tick.jobs
                 /\ tick'.snap = disk[tick'.job.id]
        <5>1. PICK id \in Ids : id = tick'.job.id
          BY <4>2 DEF TypeOK, Ticks, JobSet
        <5>2. Reached(Stat(disk[id]), disk[id])
          <6>1. /\ Stat(disk[id])[1] = disk[id].len /\ Stat(disk[id])[2] = disk[id].mod
                /\ disk[id].len \in Nat /\ disk[id].mod \in Nat
            BY DiskNums, SnapNums
          <6> QED
            BY <6>1 DEF Reached
        <5>3. files[id] # None => Reached(files[id].failed, disk[id])
          BY DEF ReasonsTrue
        <5> QED
          BY <4>2, <5>1, <5>2, <5>3
      <4> QED
        BY <3>1, <3>3, <4>1, <4>2 DEF SideStep, HandStep
    <3>4. ASSUME tick'.res \in {"reject", "idConflict"}
          PROVE  Bytes(tick'.snap) \in SeenBytes'
      <4>1. /\ tick'.snap = tick.snap
            /\ tick'.res = tick.res \/ <<tick'.res, Bytes(tick.snap)>> \in judged'
        BY <3>1, <3>4 DEF SideStep, HandStep
      <4>2. CASE tick'.res = tick.res
        BY <3>1, <3>4, <4>1, <4>2 DEF ReasonsTrue
      <4>3. CASE <<tick'.res, Bytes(tick.snap)>> \in judged'
        <5>1. \E r \in judged' : r[2] = Bytes(tick.snap)
          BY <4>3
        <5> QED
          BY <4>1, <5>1 DEF SeenBytes
      <4> QED
        BY <4>1, <4>2, <4>3
    <3> QED
      BY <3>2, <3>3, <3>4 DEF ReasonsTrue
  <2> QED
    BY <2>1, <2>2
<1> QED
  BY <1>1, Types, ConsentKeeps, RecordsKept, TimesKept, InitReasons, PTL DEF Spec

\* The uploader's own records are true: a snapshot is left alone only when the collector took or
\* judged its bytes, failed on them MaxAttempts times, they are oversize or the file has changed
\* since (observe, processOne, recordPostFailureLocked, setUploaded, ensureMarkerLoadedLocked), and
\* its markers and the tool's journal say what was sent.
THEOREM RecordsReasoned == Spec => []ContentInv
<1>1. TypeOK /\ TimesTrue /\ ReasonsTrue => HandledForReason
  <2> SUFFICES ASSUME TypeOK, TimesTrue, ReasonsTrue, NEW id \in Ids, files[id] # None, handled(files[id])
               PROVE  \/ \E x \in store : x[2] = <<files[id].life, files[id].stat[1]>>
                      \/ \E r \in judged : r[2] = <<files[id].life, files[id].stat[1]>>
                      \/ files[id].fails >= MaxAttempts /\ files[id].failed = files[id].stat
                      \/ files[id].stat[1] > MaxBytes
                      \/ Stat(disk[id]) # files[id].stat
    BY DEF HandledForReason
  <2> DEFINE f == files[id]
  <2>1. f.eval = <<f.stat, f.gc>> /\ f \in FileStates /\ f.stat[2] \in Nat /\ f.stat[1] > 0
    BY FileNums DEF handled, TimesTrue
  <2>2. f.eval # None /\ f.eval[1] = f.stat
    <3>1. f.eval \in Evals
      BY <2>1, FileNums DEF FileStates, Evals
    <3> QED
      BY <2>1, <3>1, NoneApart
  <2>3. Reason(SeenBytes, disk[id], f, f.stat)
    BY <2>2 DEF ReasonsTrue
  <2>4. CASE \E b \in SeenBytes : Explains(b, f.stat, f)
    <3>1. PICK b \in SeenBytes : Explains(b, f.stat, f)
      BY <2>4
    <3>2. b[2] = f.stat[1] /\ b[1] = f.life
      BY <2>1, <3>1 DEF Explains
    <3>3. b \in Pairs
      BY DEF SeenBytes, TypeOK
    <3>4. b = <<f.life, f.stat[1]>>
      BY <3>2, <3>3 DEF Pairs
    <3> QED
      BY <3>1, <3>4 DEF SeenBytes
  <2>5. CASE Passed(f.stat, disk[id])
    <3>1. Stat(disk[id])[1] = disk[id].len /\ Stat(disk[id])[2] = disk[id].mod /\ disk[id].len \in Nat /\ disk[id].mod \in Nat
      BY DiskNums, SnapNums
    <3> QED
      BY <2>1, <2>5, <3>1 DEF Passed
  <2> QED
    BY <2>3, <2>4, <2>5 DEF Reason
<1> QED
  BY <1>1, Types, TimesKept, ReasonsKept, RecordsHonest, PTL DEF ContentInv

-----------------------------------------------------------------------------
(* What a stop leaves behind *)

\* The loop is about to write the marker of a transcript, or to delete its pending record.
Persists(id) == tick.pc = "persist" /\ tick.job.id = id /\ tick.rec # None
Discards(id) == (tick.pc = "drop" \/ (tick.pc = "persist" /\ tick.next = "drop")) /\ tick.job.id = id

\* What the uploader believes to be on disk is there: the marker of a transcript it remembers as
\* uploaded, or is about to be, and, while its consent lasts, the pending record it remembers.
BackedFile(id) ==
  files[id] # None =>
    /\ files[id].uploaded => id \in budget.unwritten \/ marker[id] # None \/ Persists(id)
    /\ files[id].pend # None =>
         ~Discards(id) /\ (allowed(files[id].gen) => pending[id] = files[id].pend)

\* Consent that was withdrawn or replaced does not come back: generations only grow.
PolicyOrder ==
  /\ watch.gen <= latest.gen /\ latest.gen <= policy.gen
  /\ latest.gen = policy.gen /\ policy.on => latest.on

Backed == PolicyOrder /\ \A id \in Ids : BackedFile(id)

\* A step that takes nothing away from what backs a transcript.
Upheld(id) ==
  \/ files'[id] = None
  \/ /\ files[id] # None /\ files'[id].gen = files[id].gen
     /\ files'[id].uploaded => files[id].uploaded
     /\ files'[id].pend \in {None, files[id].pend}
     /\ marker[id] # None => marker'[id] # None
     /\ Persists(id) => Persists(id)' \/ marker'[id] # None \/ id \in budget'.unwritten
     /\ files'[id].pend # None =>
          /\ Discards(id)' => Discards(id)
          /\ allowed(files[id].gen) /\ pending[id] = files[id].pend => pending'[id] = pending[id]

LEMMA BackedStays ==
  ASSUME NEW id \in Ids, BackedFile(id), Upheld(id), budget.unwritten \subseteq budget'.unwritten,
         contentAllowedBy(latest', files[id].gen) => contentAllowedBy(latest, files[id].gen)
  PROVE  BackedFile(id)'
<1>1. CASE files'[id] = None
  BY <1>1 DEF BackedFile
<1>2. CASE files'[id] # None
  <2>1. files'[id].uploaded => id \in budget'.unwritten \/ marker'[id] # None \/ Persists(id)'
    BY <1>2 DEF BackedFile, Upheld
  <2>2. ASSUME files'[id].pend # None
        PROVE  ~Discards(id)' /\ (allowed(files[id].gen)' => pending'[id] = files'[id].pend)
    BY <1>2, <2>2 DEF BackedFile, Upheld, allowed
  <2> QED
    BY <2>1, <2>2 DEF BackedFile
<1> QED
  BY <1>1, <1>2

\* A marker that could not be written stays noted.
LEMMA UnwrittenStays ==
  ASSUME TypeOK, Next
  PROVE  budget.unwritten \subseteq budget'.unwritten
<1>0. budget \in Budgets
  BY DEF TypeOK
<1>1. ASSUME Op \/ Fault PROVE budget'.unwritten = budget.unwritten
  BY <1>0, <1>1 DEF Op, Fault, Budgets
<1>2. ASSUME NEW id, NEW m, NoteMarker(id, m) PROVE budget'.unwritten = budget.unwritten
  BY <1>0, <1>2 DEF NoteMarker, Budgets
<1>3. ASSUME NoteOutcome PROVE budget'.unwritten = budget.unwritten
  BY <1>0, <1>3 DEF NoteOutcome, Budgets
<1>4. ASSUME budget' = [budget EXCEPT !.ops = @ + 1, !.faults = @ + 1] PROVE budget'.unwritten = budget.unwritten
  BY <1>0, <1>4 DEF Budgets
<1>m. ASSUME NEW id, MarkerFault(id) PROVE budget.unwritten \subseteq budget'.unwritten
  BY <1>0, <1>m DEF MarkerFault, Budgets
<1>5. CASE World
  BY <1>1, <1>5 DEF World, WriteTranscript, ReplaceTranscript, WritePolicy, HoldPasses, RenewToken
<1>6. CASE Consent
  BY <1>6 DEF Consent, Current, onConsentChange, sweepPending
<1>7. CASE Watcher
  BY <1>1, <1>2, <1>7 DEF Watcher, RebuildWatcher, observe, Deliver, ForgetContent
<1>8. CASE Tick
  <2>1. CASE Outcome
    BY <1>3, <2>1, OutcomeIs
  <2>2. CASE PostContent
    BY <1>1, <2>2 DEF PostContent, Answered
  <2> QED
    BY <1>1, <1>2, <1>m, <1>8, <2>1, <2>2
       DEF Tick, TickPlan, savePendingRecord, TickGate, TickJob, processOne, RegisterFlight, persistMarker,
           dropPending, recordOwedIfStale
<1>9. CASE Process
  BY <1>1, <1>4, <1>9 DEF Process, Stop, Kill, Start
<1>10. CASE Reupload
  BY <1>1, <1>2, <1>10
     DEF Reupload, RunContentReupload, ToolRead, postReupload, Answered, ToolMarker, ToolSettle, ToolEnds
<1> QED
  BY <1>5, <1>6, <1>7, <1>8, <1>9, <1>10 DEF Next

\* The policies stay in order.
LEMMA OrderStays ==
  ASSUME TypeOK, TypeOK', PolicyOrder, Next
  PROVE  /\ PolicyOrder'
         /\ \A g \in Gens : g <= watch.gen /\ contentAllowedBy(latest', g) => contentAllowedBy(latest, g)
<1>0. /\ policy.gen \in Nat /\ latest.gen \in Nat /\ watch.gen \in Nat /\ Gens \subseteq Nat
      /\ policy'.gen \in Nat /\ latest'.gen \in Nat /\ watch'.gen \in Nat
      /\ policy \in Policies /\ watch \in Watchers
  BY Constants DEF TypeOK, Policies, Watchers, Gens
<1>1. \/ UNCHANGED <<policy, latest>> /\ watch'.gen = watch.gen
      \/ UNCHANGED <<policy, latest>> /\ watch'.gen = latest.gen
      \/ policy' = policy /\ latest' = policy /\ watch'.gen \in {watch.gen, policy.gen}
      \/ UNCHANGED <<latest, watch>> /\ policy.on /\ policy' = [policy EXCEPT !.on = FALSE]
      \/ UNCHANGED <<latest, watch>> /\ policy' = [on |-> TRUE, gen |-> policy.gen + 1]
  <2>1. CASE World
    BY <2>1 DEF World, WriteTranscript, ReplaceTranscript, WritePolicy, HoldPasses, RenewToken, daemon
  <2>2. CASE Consent
    BY <2>2 DEF Consent, Current, onConsentChange, sweepPending
  <2>3. CASE Watcher
    <3>1. CASE RebuildWatcher
      BY <3>1 DEF RebuildWatcher
    <3>2. CASE \E id \in Ids : observe(id) \/ Deliver(id) \/ ForgetContent(id)
      <4>1. PICK id \in Ids : observe(id) \/ Deliver(id) \/ ForgetContent(id)
        BY <3>2
      <4>2. UNCHANGED <<policy, latest>>
        BY <4>1 DEF observe, Deliver, ForgetContent
      <4>3. watch'.gen = watch.gen
        <5>1. CASE observe(id)
          BY <1>0, <5>1 DEF observe, Watchers
        <5>2. CASE Deliver(id)
          BY <1>0, <5>2 DEF Deliver, Watchers
        <5>3. CASE ForgetContent(id)
          BY <1>0, <5>3 DEF ForgetContent, Watchers
        <5> QED
          BY <4>1, <5>1, <5>2, <5>3
      <4> QED
        BY <4>2, <4>3
    <3> QED
      BY <2>3, <3>1, <3>2 DEF Watcher
  <2>4. CASE Tick
    <3>1. Still
      BY <2>4, OutcomeIs
         DEF Tick, TickPlan, savePendingRecord, TickGate, TickJob, processOne, RegisterFlight, PostContent,
             persistMarker, dropPending, recordOwedIfStale
    <3> QED
      BY <3>1 DEF Still
  <2>5. CASE Process
    <3>1. CASE Start
      BY <3>1 DEF Start
    <3>2. CASE Stop \/ Kill
      <4>1. UNCHANGED <<policy, latest>> /\ watch' = [watch EXCEPT !.at = None, !.life = [id \in Ids |-> 0]]
        BY <3>2 DEF Stop, Kill, Down
      <4>2. watch'.gen = watch.gen
        BY <1>0, <4>1 DEF Watchers
      <4> QED
        BY <4>1, <4>2
    <3> QED
      BY <2>5, <3>1, <3>2 DEF Process
  <2>6. CASE Reupload
    BY <2>6 DEF Reupload, RunContentReupload, ToolRead, postReupload, ToolMarker, ToolSettle, ToolEnds, others, daemon
  <2> QED
    BY <2>1, <2>2, <2>3, <2>4, <2>5, <2>6 DEF Next
<1>2. CASE policy.on /\ policy' = [policy EXCEPT !.on = FALSE] /\ UNCHANGED <<latest, watch>>
  <2>1. ~policy'.on /\ policy'.gen = policy.gen
    BY <1>0, <1>2 DEF Policies
  <2> QED
    BY <1>0, <1>2, <2>1 DEF PolicyOrder
<1>3. CASE policy' = [on |-> TRUE, gen |-> policy.gen + 1] /\ UNCHANGED <<latest, watch>>
  <2>1. policy'.gen = policy.gen + 1
    BY <1>3
  <2> QED
    BY <1>0, <1>3, <2>1 DEF PolicyOrder
<1>4. CASE UNCHANGED <<policy, latest>> /\ watch'.gen \in {watch.gen, latest.gen}
  BY <1>0, <1>4 DEF PolicyOrder
<1>5. CASE policy' = policy /\ latest' = policy /\ watch'.gen \in {watch.gen, policy.gen}
  BY <1>0, <1>5 DEF PolicyOrder, contentAllowedBy
<1> QED
  BY <1>1, <1>2, <1>3, <1>4, <1>5

\* The loop neither writes a marker nor deletes a record next.
LEMMA HandsFree ==
  ASSUME tick'.pc \notin {"persist", "drop"}, tick.pc # "persist", NEW id \in Ids,
         \/ files'[id] = None
         \/ /\ files[id] # None /\ files'[id].gen = files[id].gen
            /\ files'[id].uploaded => files[id].uploaded
            /\ files'[id].pend = None
               \/ (files'[id].pend = files[id].pend /\ pending'[id] = pending[id]),
         marker[id] # None => marker'[id] # None
  PROVE  Upheld(id)
BY DEF Upheld, Persists, Discards

\* The loop stands still, and the records too.
LEMMA HandsStill ==
  ASSUME tick'.pc = tick.pc, tick'.job = tick.job, tick'.rec = tick.rec, tick'.next = tick.next, NEW id \in Ids,
         files'[id] = None \/ (files'[id] = files[id] /\ pending'[id] = pending[id]),
         marker'[id] = marker[id]
  PROVE  Upheld(id)
BY DEF Upheld, Persists, Discards

LEMMA WorldBacked ==
  ASSUME TypeOK, ConsentKept, Backed, World \/ Consent, NEW id \in Ids
  PROVE  Upheld(id)
<1>0. tick \in Ticks
  BY DEF TypeOK
<1>1. CASE World
  <2>1. UNCHANGED <<files, tick, marker, pending>>
    BY <1>1 DEF World, WriteTranscript, ReplaceTranscript, WritePolicy, HoldPasses, RenewToken, daemon, durable
  <2> QED
    BY <2>1, HandsStill
<1>2. ASSUME NEW by \in {"tick", "other"}, Current(by) PROVE Upheld(id)
  <2>1. UNCHANGED <<files, tick, marker, pending>>
    BY <1>2 DEF Current, durable
  <2> QED
    BY <2>1, HandsStill
<1>3. ASSUME NEW c \in calls, onConsentChange(c) PROVE Upheld(id)
  <2>1. PICK w : tick' = [tick EXCEPT !.withdrawn = w]
    BY <1>3 DEF onConsentChange
  <2>2. tick'.pc = tick.pc /\ tick'.job = tick.job /\ tick'.rec = tick.rec /\ tick'.next = tick.next
    BY <1>0, <2>1 DEF Ticks
  <2>3. UNCHANGED <<marker, pending>> /\ (files'[id] = None \/ files'[id] = files[id])
    BY <1>3 DEF onConsentChange, Dropped, durable
  <2> QED
    BY <2>2, <2>3, HandsStill
<1>4. ASSUME NEW c \in calls, sweepPending(c) PROVE Upheld(id)
  <2>1. UNCHANGED <<files, tick, marker>>
        /\ pending'[id] = IF pending[id] # None /\ allowed(pending[id].gen) THEN pending[id] ELSE None
    BY <1>4 DEF sweepPending, sweepContentPending
  <2>2. files[id] # None /\ files[id].pend # None => files[id].pend.gen = files[id].gen
    BY DEF ConsentKept, WatchShape, FileOf
  <2> QED
    BY <2>1, <2>2 DEF Upheld, Persists, Discards
<1> QED
  BY <1>1, <1>2, <1>3, <1>4 DEF Consent

LEMMA WatcherBacked ==
  ASSUME TypeOK, ConsentKept, Backed, Watcher, NEW id \in Ids
  PROVE  Upheld(id) \/ BackedFile(id)'
<1>0. files \in [Ids -> FileStates \cup {None}] /\ watch \in Watchers /\ UNCHANGED tick
      /\ marker \in [Ids -> Markers \cup {None}] /\ pending \in [Ids -> Records \cup {None}]
  BY DEF TypeOK, Watcher, RebuildWatcher, observe, Deliver, ForgetContent
<1>1. CASE RebuildWatcher
  BY <1>1 DEF RebuildWatcher, Upheld
<1>2. ASSUME NEW i \in Ids, observe(i) PROVE Upheld(id) \/ BackedFile(id)'
  <2>1. UNCHANGED <<marker, pending>>
    BY <1>2 DEF observe, durable
  <2>2. CASE files'[id] = None \/ files'[id] = files[id]
    BY <1>0, <2>1, <2>2, HandsStill
  <2>3. CASE files'[id] = contentState(watch.gen, disk[id])
    <3>1. ~files'[id].uploaded /\ files'[id].pend = None
      BY <2>3 DEF contentState
    <3> QED
      BY <3>1 DEF BackedFile
  <2>4. CASE files[id] # None /\ files'[id] = Observed(files[id], disk[id])
    <3>1. files[id] \in FileStates /\ files[id].gen = watch.gen
      BY <1>0, <2>4 DEF ConsentKept, WatchShape, FileOf
    <3> DEFINE o == Observed(files[id], disk[id])
    <3>o. o.gen = watch.gen /\ o.uploaded = files[id].uploaded /\ o.pend = files[id].pend
      BY <3>1, ObservedIs
    <3> HIDE DEF o
    <3>2. /\ files'[id].gen = files[id].gen /\ (files'[id].uploaded => files[id].uploaded)
          /\ files'[id].pend = files[id].pend
      BY <2>4, <3>1, <3>o DEF o
    <3> QED
      BY <1>0, <2>1, <2>4, <3>2 DEF Upheld, Persists, Discards
  <2> QED
    BY <1>0, <1>2, <2>2, <2>3, <2>4 DEF observe
<1>3. ASSUME NEW i \in Ids, Deliver(i) PROVE Upheld(id)
  <2>1. UNCHANGED <<files, marker, pending>>
    BY <1>3 DEF Deliver
  <2> QED
    BY <1>0, <2>1, HandsStill
<1>4. ASSUME NEW i \in Ids, ForgetContent(i) PROVE Upheld(id)
  <2>1. files'[id] = None \/ (files'[id] = files[id] /\ marker'[id] = marker[id] /\ pending'[id] = pending[id])
    BY <1>0, <1>4 DEF ForgetContent
  <2> QED
    BY <1>0, <2>1, HandsStill DEF Upheld
<1> QED
  BY <1>1, <1>2, <1>3, <1>4 DEF Watcher

LEMMA ProcessBacked ==
  ASSUME TypeOK, ConsentKept, Process, NEW id \in Ids
  PROVE  Upheld(id)
<1>1. files'[id] = None
  BY DEF Process, Stop, Kill, Start, Down, ConsentKept, LoopShape
<1> QED
  BY <1>1 DEF Upheld

LEMMA ToolBacked ==
  ASSUME TypeOK, Reupload, NEW id \in Ids
  PROVE  Upheld(id)
<1>1. UNCHANGED <<files, tick, pending>>
  BY DEF Reupload, RunContentReupload, ToolRead, postReupload, ToolMarker, ToolSettle, ToolEnds, others, daemon
<1>2. marker[id] # None => marker'[id] # None
  <2>1. CASE ToolMarker
    <3>1. tool.pc = "marker" /\ marker \in [Ids -> Markers \cup {None}] /\ tool.at \in Items /\ tool.snap \in Snapshots
      BY <2>1 DEF ToolMarker, TypeOK, Tools
    <3> DEFINE c == contentMarker(Bytes(tool.snap), Stat(tool.snap), tool.at.m.native, tool.at.m.gc, tool.at.m.refused, FALSE)
    <3>2. c # None
      <4>1. tool.at.m \in Markers /\ Bytes(tool.snap) \in Pairs /\ Stat(tool.snap) \in Pairs
        BY <3>1, SnapshotParts DEF Items
      <4>2. tool.at.m.native \in Lives /\ tool.at.m.gc \in BOOLEAN /\ tool.at.m.refused \in BOOLEAN
        BY <4>1 DEF Markers
      <4>3. c \in Markers
        BY <4>1, <4>2 DEF contentMarker, Markers
      <4> QED
        BY <4>3, NoneApart
    <3>3. marker' = marker \/ marker' = [marker EXCEPT ![tool.at.id] = c]
      BY <2>1 DEF ToolMarker
    <3> HIDE DEF c
    <3> QED
      BY <3>1, <3>2, <3>3
  <2> QED
    BY <2>1 DEF Reupload, RunContentReupload, ToolRead, postReupload, ToolSettle, ToolEnds
<1> QED
  BY <1>1, <1>2 DEF Upheld, Persists, Discards

LEMMA PlanBacked ==
  ASSUME TypeOK, Backed, (\E stable \in SUBSET Ids : TickPlan(stable)) \/ recordOwedIfStale, NEW id \in Ids
  PROVE  Upheld(id) \/ BackedFile(id)'
<1> DEFINE fs == [i \in Ids |-> PlannedState(i)]
<1>0. tick \in Ticks
  BY DEF TypeOK
<1>1. /\ tick.pc \in {"idle", "owed"} /\ tick'.pc = "save" /\ UNCHANGED <<marker, pending, budget, latest>>
      /\ files' = files \/ files' = fs
  BY <1>0 DEF TickPlan, recordOwedIfStale, durable, Still, Ticks, NoTick
<1>2. CASE files'[id] = files[id] \/ files'[id] = None
  BY <1>1, <1>2, HandsFree
<1>3. CASE Replanned(id, files'[id])
  <2> DEFINE f == files[id]
             g == files'[id]
  <2>1. /\ f # None /\ g.gen = f.gen
        /\ (g.uploaded = f.uploaded) \/ marker[id] # None
        /\ g.pend = f.pend \/ g.pend = pending[id]
    BY <1>3 DEF Replanned
  <2>2. BackedFile(id) /\ ~Persists(id)
    BY <1>1 DEF Backed, Persists
  <2>3. g.uploaded => id \in budget'.unwritten \/ marker'[id] # None
    BY <1>1, <2>1, <2>2 DEF BackedFile
  <2>4. ASSUME g.pend # None PROVE ~Discards(id)' /\ (contentAllowedBy(latest', g.gen) => pending'[id] = g.pend)
    <3>1. ~Discards(id)'
      BY <1>1 DEF Discards
    <3>2. contentAllowedBy(latest', g.gen) => pending'[id] = g.pend
      BY <1>1, <2>1, <2>2, <2>4 DEF BackedFile, allowed
    <3> QED
      BY <3>1, <3>2
  <2> QED
    BY <2>3, <2>4 DEF BackedFile, allowed
<1> QED
  BY <1>1, <1>2, <1>3, PlannedIs

LEMMA SaveBacked ==
  ASSUME TypeOK, Backed, savePendingRecord, NEW id \in Ids
  PROVE  Upheld(id) \/ BackedFile(id)'
<1>1. PICK s \in tick.saves :
        /\ tick.pc = "save" /\ tick' = [tick EXCEPT !.saves = @ \ {s}]
        /\ \/ /\ pending' = [pending EXCEPT ![s.id] = s.rec]
              /\ files' = [files EXCEPT ![s.id] = IF @ = None THEN None ELSE [@ EXCEPT !.pend = s.rec]]
              /\ pendingCurrent(s) /\ budget' = budget
           \/ pending' = pending /\ files' = files
  BY DEF savePendingRecord
<1>2. /\ tick'.pc = "save" /\ marker' = marker /\ s.id \in Ids /\ s.rec \in Records
      /\ files \in [Ids -> FileStates \cup {None}] /\ pending \in [Ids -> Records \cup {None}]
  BY <1>1 DEF savePendingRecord, TypeOK, Ticks, SaveSet
<1>3. CASE files'[id] = files[id] /\ pending'[id] = pending[id]
  BY <1>1, <1>2, <1>3, HandsFree
<1>4. CASE /\ id = s.id /\ pendingCurrent(s) /\ budget' = budget
           /\ pending' = [pending EXCEPT ![s.id] = s.rec]
           /\ files' = [files EXCEPT ![s.id] = IF @ = None THEN None ELSE [@ EXCEPT !.pend = s.rec]]
  <2> DEFINE g == [files[id] EXCEPT !.pend = s.rec]
  <2>1. files[id] # None /\ files[id] \in FileStates
    BY <1>2, <1>4 DEF pendingCurrent
  <2>2. files'[id] = g /\ pending'[id] = s.rec
    BY <1>2, <1>4, <2>1
  <2>3. g.uploaded = files[id].uploaded /\ g.pend = s.rec
    BY <2>1 DEF FileStates
  <2> HIDE DEF g
  <2>4. files[id].uploaded => id \in budget.unwritten \/ marker[id] # None
    BY <1>1, <2>1 DEF Backed, BackedFile, Persists
  <2>5. files'[id].uploaded => id \in budget'.unwritten \/ marker'[id] # None
    BY <1>2, <1>4, <2>2, <2>3, <2>4
  <2> QED
    BY <1>2, <2>2, <2>3, <2>5 DEF BackedFile, Discards
<1> QED
  BY <1>1, <1>2, <1>3, <1>4

LEMMA JobBacked ==
  ASSUME TypeOK, TickJob, NEW id \in Ids
  PROVE  Upheld(id)
<1>0. tick.pc = "job" /\ tick \in Ticks /\ marker' = marker /\ files \in [Ids -> FileStates \cup {None}]
      /\ pending \in [Ids -> Records \cup {None}]
  BY DEF TickJob, TypeOK
<1>1. PICK j \in tick.jobs :
           /\ j \in JobSet /\ j.id \in Ids
           /\ \/ /\ tick' = NoTick \/ tick' = [Owed EXCEPT !.jobs = @ \ {j}]
                 /\ UNCHANGED <<files, pending>>
              \/ /\ files[j.id] # None
                 /\ files' = [files EXCEPT ![j.id] = [markEvaluated(files[j.id], Stat(disk[j.id]), j.gc) EXCEPT !.pend = None]]
                 /\ pending' = [pending EXCEPT ![j.id] = None]
                 /\ tick' = [Owed EXCEPT !.jobs = @ \ {j}]
              \/ /\ tick' = [tick EXCEPT !.jobs = @ \ {j}, !.job = j, !.pc = "look", !.snap = disk[j.id]]
                 /\ UNCHANGED <<files, pending>>
  BY JobTaken
<1>2. tick'.pc \in {"idle", "owed", "look"}
  <2>1. ASSUME tick' = [Owed EXCEPT !.jobs = @ \ {j}] PROVE tick'.pc = "owed"
    BY <2>1, LoopTyped DEF Ticks
  <2>2. ASSUME tick' = NoTick PROVE tick'.pc = "idle"
    BY <2>2 DEF NoTick
  <2>3. ASSUME tick' = [tick EXCEPT !.jobs = @ \ {j}, !.job = j, !.pc = "look", !.snap = disk[j.id]]
        PROVE  tick'.pc = "look"
    BY <1>0, <2>3 DEF Ticks
  <2> QED
    BY <1>1, <2>1, <2>2, <2>3
<1>3. CASE files'[id] = files[id] /\ pending'[id] = pending[id]
  BY <1>0, <1>2, <1>3, HandsFree
<1>4. CASE /\ id = j.id /\ files[j.id] # None
           /\ files' = [files EXCEPT ![j.id] = [markEvaluated(files[j.id], Stat(disk[j.id]), j.gc) EXCEPT !.pend = None]]
  <2> DEFINE m == markEvaluated(files[id], Stat(disk[id]), j.gc)
             g == [m EXCEPT !.pend = None]
  <2>1. files[id] \in FileStates /\ Stat(disk[id]) \in Pairs /\ j.gc \in BOOLEAN
    BY <1>0, <1>1, <1>4, SnapshotParts DEF TypeOK, JobSet
  <2>2. m \in FileStates /\ m = [files[id] EXCEPT !.eval = <<Stat(disk[id]), j.gc>>]
    BY <2>1, MarkTyped
  <2>3. m.gen = files[id].gen /\ m.uploaded = files[id].uploaded
    BY <2>1, <2>2 DEF FileStates
  <2>4. files'[id] = g
    BY <1>0, <1>4
  <2> HIDE DEF m
  <2>5. g.gen = m.gen /\ g.uploaded = m.uploaded /\ g.pend = None
    BY <2>2 DEF FileStates
  <2> HIDE DEF g
  <2>6. files'[id].gen = files[id].gen /\ (files'[id].uploaded => files[id].uploaded) /\ files'[id].pend = None
    BY <2>3, <2>4, <2>5
  <2> QED
    BY <1>0, <1>2, <1>4, <2>6, HandsFree
<1> QED
  BY <1>0, <1>1, <1>3, <1>4

LEMMA LookBacked ==
  ASSUME TypeOK, Backed, processOne, NEW id \in Ids
  PROVE  Upheld(id)
<1>0. tick.pc = "look" /\ tick \in Ticks /\ UNCHANGED <<marker, pending>> /\ files \in [Ids -> FileStates \cup {None}]
  BY ProcessIs DEF TypeOK, durable
<1>p. PICK w \in Ids : w = tick.job.id
  BY <1>0, JobInHand
<1> DEFINE st == files[w]
<1>1. CASE tick' = Owed /\ files' = files
  BY <1>0, <1>1, LoopTyped, HandsFree
<1>2. CASE files' = files /\ tick' = [tick EXCEPT !.pc = "reg", !.gc = tick.job.gc /\ ~st.refused]
  <2>1. tick'.pc = "reg"
    BY <1>0, <1>2 DEF Ticks
  <2> QED
    BY <1>0, <1>2, <2>1, HandsFree
<1>3. CASE /\ st # None /\ sameSnapshot(st) /\ files' = [files EXCEPT ![w] = seenState(st)]
           /\ tick' = [After("persist") EXCEPT
                          !.rec = IF st.uploaded THEN [seenState(st).mk EXCEPT !.old = FALSE] ELSE None,
                          !.next = IF st.pend # None THEN "drop" ELSE "owed"]
  <2>1. PICK r, n : tick' = [After("persist") EXCEPT !.rec = r, !.next = n]
    BY <1>3
  <2>2. /\ After("persist") \in Ticks /\ After("persist").pc = "persist" /\ After("persist").job = tick.job
    BY <1>0, LoopTyped
  <2>3. tick'.job = tick.job
    BY <2>1, <2>2 DEF Ticks
  <2>4. CASE id = w
    <3> DEFINE s == seenState(st)
    <3>1. s.gen = st.gen /\ s.uploaded = st.uploaded /\ s.pend = None
      BY <1>0, <1>3, SeenIs
    <3>2. files'[id] = s
      BY <1>0, <1>3, <2>4
    <3> HIDE DEF s
    <3>3. files'[id].gen = files[id].gen /\ (files'[id].uploaded => files[id].uploaded) /\ files'[id].pend = None
      BY <2>4, <3>1, <3>2
    <3> QED
      BY <1>0, <1>3, <2>4, <3>3 DEF Upheld, Persists
  <2>5. CASE id # w
    <3>1. files'[id] = files[id]
      BY <1>0, <1>3, <2>5
    <3> QED
      BY <1>0, <1>p, <2>3, <2>5, <3>1 DEF Upheld, Persists, Discards
  <2> QED
    BY <2>4, <2>5
<1> QED
  BY <1>p, <1>1, <1>2, <1>3, ProcessIs

LEMMA OutcomeBacked ==
  ASSUME TypeOK, Backed, Outcome, NEW id \in Ids
  PROVE  Upheld(id) \/ BackedFile(id)'
<1>0. /\ tick.pc = "out" /\ tick \in Ticks /\ files \in [Ids -> FileStates \cup {None}]
      /\ UNCHANGED <<marker, pending>>
  BY OutcomeIs DEF durable, TypeOK
<1>p. PICK w \in Ids : w = tick.job.id
  BY <1>0, JobInHand
<1> DEFINE st == files[w]
<1>1. Owed.pc = "owed" /\ After("drop").pc = "drop" /\ After("drop").job = tick.job
  BY LoopTyped
<1>2. ASSUME NEW g, st # None, files' = [files EXCEPT ![w] = g], g.gen = st.gen, g.uploaded => st.uploaded,
             g.pend \in {None, st.pend}, tick'.pc \notin {"persist", "drop"}
      PROVE  Upheld(id)
  <2>1. files'[id] = IF id = w THEN g ELSE files[id]
    BY <1>0, <1>2
  <2>2. CASE id = w
    BY <1>0, <1>2, <2>1, <2>2, HandsFree
  <2>3. CASE id # w
    BY <1>0, <1>2, <2>1, <2>3, HandsFree
  <2> QED
    BY <2>2, <2>3
<1>3. CASE files' = files /\ tick'.pc \notin {"persist", "drop"}
  BY <1>0, <1>3, HandsFree
<1>4. CASE tick' = Owed /\ files' = [files EXCEPT ![w] = None]
  <2>1. files'[id] = None \/ files'[id] = files[id]
    BY <1>0, <1>4
  <2> QED
    BY <1>0, <1>1, <1>4, <2>1, HandsFree
<1>5. CASE tick' = Owed /\ st # None /\ files' = [files EXCEPT ![w] = recordPostFailure(st)]
  <2> DEFINE g == recordPostFailure(st)
  <2>1. g.gen = st.gen /\ g.uploaded = st.uploaded /\ g.pend = st.pend
    BY <1>0, <1>5, FailureIs
  <2> HIDE DEF g
  <2> QED
    BY <1>1, <1>2, <1>5, <2>1 DEF g
<1>6. CASE /\ st = None /\ files' = files
           /\ tick' = [After("persist") EXCEPT !.next = "drop", !.rec = None]
  <2>1. After("persist") \in Ticks /\ After("persist").job = tick.job
    BY LoopTyped
  <2>2. tick'.job = tick.job
    BY <1>6, <2>1 DEF Ticks
  <2> QED
    BY <1>0, <1>p, <1>6, <2>2 DEF Upheld, Persists, Discards
<1>7. CASE /\ st # None /\ files' = [files EXCEPT ![w] = acceptedSnapshot(st)]
           /\ tick' = [After("persist") EXCEPT !.next = "drop", !.rec = acceptedSnapshot(st).mk]
  <2> DEFINE a == acceptedSnapshot(st)
  <2>1. After("persist") \in Ticks /\ After("persist").job = tick.job /\ After("persist").pc = "persist"
    BY LoopTyped
  <2>2. a.pend = None /\ a.mk \in Markers
    BY <1>0, <1>7, AcceptedIs
  <2>3. tick'.job = tick.job /\ tick'.pc = "persist" /\ tick'.rec = a.mk
    BY <1>7, <2>1 DEF Ticks
  <2>4. files'[id] = IF id = w THEN a ELSE files[id]
    BY <1>0, <1>7
  <2> HIDE DEF a
  <2>5. CASE id = w
    <3>1. Persists(id)'
      BY <1>p, <2>2, <2>3, <2>5, NoneApart DEF Persists
    <3>2. files'[id].pend = None
      BY <2>2, <2>4, <2>5
    <3> QED
      BY <3>1, <3>2 DEF BackedFile
  <2>6. CASE id # w
    BY <1>0, <1>p, <2>3, <2>4, <2>6 DEF Upheld, Persists, Discards
  <2> QED
    BY <2>5, <2>6
<1>8. CASE /\ tick' = [tick EXCEPT !.pc = "reg", !.gc = FALSE, !.res = None]
           /\ \/ st = None /\ files' = files
              \/ st # None /\ files' = [files EXCEPT ![w] = [st EXCEPT !.refused = TRUE]]
  <2>1. tick'.pc = "reg"
    BY <1>0, <1>8 DEF Ticks
  <2> DEFINE g == [st EXCEPT !.refused = TRUE]
  <2>2. st # None => g.gen = st.gen /\ g.uploaded = st.uploaded /\ g.pend = st.pend
    BY <1>0, RefusedIs
  <2>3. (st = None /\ files' = files) \/ (st # None /\ files' = [files EXCEPT ![w] = g])
    BY <1>8
  <2> HIDE DEF g
  <2> QED
    BY <1>2, <1>3, <2>1, <2>2, <2>3
<1>9. CASE /\ tick.res \in {"idConflict", "reject"}
           /\ tick' = (IF tick.res = "reject" THEN After("drop") ELSE Owed)
           /\ \/ st = None /\ files' = files
              \/ /\ st # None
                 /\ files' = [files EXCEPT ![w] = [Settled(st, FALSE) EXCEPT
                                             !.pend = IF tick.res = "reject" THEN None ELSE st.pend]]
  <2> DEFINE p == IF tick.res = "reject" THEN None ELSE st.pend
             g == [Settled(st, FALSE) EXCEPT !.pend = p]
  <2>1. ASSUME st # None PROVE g.gen = st.gen /\ ~g.uploaded /\ g.pend = p
    <3>1. st \in FileStates /\ p \in Records \cup {None}
      BY <1>0, <2>1 DEF FileStates
    <3> QED
      BY <1>0, <3>1, RejectedIs
  <2>2. (st = None /\ files' = files) \/ (st # None /\ files' = [files EXCEPT ![w] = g])
    BY <1>9
  <2> HIDE DEF g
  <2>3. /\ id # w => files'[id] = files[id]
        /\ id = w => files'[id] = None \/ (files'[id] = g /\ st # None)
    BY <1>0, <2>2
  <2>4. CASE id # w
    <3>1. ~Discards(id)'
      BY <1>1, <1>p, <1>9, <2>4 DEF Discards
    <3> QED
      BY <1>0, <2>3, <2>4, <3>1 DEF Upheld, Persists
  <2>5. CASE id = w
    <3>1. p # None => tick' = Owed
      BY <1>9
    <3>2. p # None => ~Discards(id)'
      BY <1>1, <3>1 DEF Discards
    <3> QED
      BY <1>0, <2>1, <2>3, <2>5, <3>2 DEF Upheld, Persists
  <2> QED
    BY <2>4, <2>5
<1> QED
  BY <1>1, <1>p, <1>3, <1>4, <1>5, <1>6, <1>7, <1>8, <1>9, OutcomeIs

LEMMA PersistBacked ==
  ASSUME TypeOK, Backed, persistMarker, NEW id \in Ids
  PROVE  Upheld(id)
<1>0. /\ tick.pc = "persist" /\ tick \in Ticks /\ UNCHANGED <<files, pending>> /\ marker \in [Ids -> Markers \cup {None}]
      /\ tick' = (IF tick.next = "drop" THEN After("drop") ELSE Owed) /\ tick.job.id \in Ids
  BY JobInHand DEF persistMarker, TypeOK
<1>1. Owed.pc = "owed" /\ After("drop").pc = "drop" /\ After("drop").job = tick.job
  BY LoopTyped
<1>2. Discards(id)' => Discards(id)
  BY <1>0, <1>1 DEF Discards
<1>3. \/ marker' = IF tick.rec = None THEN marker ELSE [marker EXCEPT ![tick.job.id] = tick.rec]
      \/ tick.rec # None /\ MarkerFault(tick.job.id) /\ UNCHANGED marker
  BY DEF persistMarker
<1>4. MarkerFault(tick.job.id) => tick.job.id \in budget'.unwritten
  BY DEF MarkerFault, TypeOK, Budgets
<1>5. marker[id] # None => marker'[id] # None
  BY <1>0, <1>3
<1>6. Persists(id) => marker'[id] # None \/ id \in budget'.unwritten
  BY <1>0, <1>3, <1>4 DEF Persists
<1> QED
  BY <1>0, <1>2, <1>5, <1>6 DEF Upheld

LEMMA TickBacked ==
  ASSUME TypeOK, Backed, Tick, NEW id \in Ids
  PROVE  Upheld(id) \/ BackedFile(id)'
<1>0. tick \in Ticks
  BY DEF TypeOK
<1>1. CASE TickGate
  <2>1. tick.pc = "save" /\ UNCHANGED <<files, marker, pending>> /\ (tick' = NoTick \/ tick' = [tick EXCEPT !.pc = "job"])
    BY <1>1 DEF TickGate, durable
  <2>2. tick'.pc \in {"idle", "job"}
    BY <1>0, <2>1 DEF Ticks, NoTick
  <2> QED
    BY <2>1, <2>2, HandsFree
<1>2. CASE RegisterFlight
  <2>1. /\ tick.pc = "reg" /\ UNCHANGED <<marker, pending>>
        /\ tick.job.id \in Ids /\ files \in [Ids -> FileStates \cup {None}]
    BY <1>2, JobInHand DEF RegisterFlight, durable, TypeOK
  <2>2. files'[id] = None \/ files'[id] = files[id]
    BY <1>2, <2>1 DEF RegisterFlight
  <2>3. tick'.pc \in {"owed", "fly"}
    BY <1>0, <1>2, LoopTyped DEF RegisterFlight, Ticks
  <2> QED
    BY <2>1, <2>2, <2>3, HandsFree
<1>3. CASE PostContent
  <2>1. tick.pc = "fly" /\ UNCHANGED <<files, marker, pending>> /\ \E r : tick' = [tick EXCEPT !.pc = "out", !.res = r]
    BY <1>3 DEF PostContent, durable
  <2>2. tick'.pc = "out"
    BY <1>0, <2>1 DEF Ticks
  <2> QED
    BY <2>1, <2>2, HandsFree
<1>4. CASE dropPending
  <2>1. /\ tick.pc = "drop" /\ UNCHANGED <<files, marker>> /\ tick' = Owed /\ Owed.pc = "owed"
        /\ pending' = pending \/ pending' = [pending EXCEPT ![tick.job.id] = None]
        /\ pending \in [Ids -> Records \cup {None}]
    BY <1>4, LoopTyped DEF dropPending, TypeOK
  <2>2. CASE id = tick.job.id
    <3>1. files[id] # None => files[id].pend = None
      BY <2>1, <2>2 DEF Backed, BackedFile, Discards
    <3> QED
      BY <2>1, <2>2, <3>1, HandsFree
  <2>3. CASE id # tick.job.id
    <3>1. pending'[id] = pending[id]
      BY <2>1, <2>3
    <3> QED
      BY <2>1, <3>1, HandsFree
  <2> QED
    BY <2>2, <2>3
<1> QED
  BY <1>1, <1>2, <1>3, <1>4, PlanBacked, SaveBacked, JobBacked, LookBacked, OutcomeBacked, PersistBacked DEF Tick

\* What memory takes to be recorded is recorded.
LEMMA BackedKept == Spec => []Backed
<1>1. Init => Backed
  BY DEF Init, Backed, PolicyOrder, BackedFile
<1>2. TypeOK /\ TypeOK' /\ ConsentKept /\ Backed /\ [Next]_vars => Backed'
  <2> SUFFICES ASSUME TypeOK, TypeOK', ConsentKept, Backed, [Next]_vars PROVE Backed'
    OBVIOUS
  <2>1. CASE UNCHANGED vars
    BY <2>1 DEF vars, Backed, PolicyOrder, BackedFile, Persists, Discards, allowed
  <2>2. CASE Next
    <3>1. PolicyOrder' /\ \A g \in Gens : g <= watch.gen /\ contentAllowedBy(latest', g) => contentAllowedBy(latest, g)
      BY <2>2, OrderStays DEF Backed
    <3>2. ASSUME NEW id \in Ids PROVE BackedFile(id)'
      <4>1. Upheld(id) \/ BackedFile(id)'
        BY <2>2, WorldBacked, WatcherBacked, TickBacked, ProcessBacked, ToolBacked DEF Next
      <4>2. CASE files[id] # None /\ Upheld(id)
        <5>1. files[id].gen = watch.gen /\ watch.gen \in Gens /\ watch.gen <= watch.gen
          BY <4>2, Constants DEF ConsentKept, WatchShape, FileOf, TypeOK, Watchers, Gens
        <5>2. contentAllowedBy(latest', files[id].gen) => contentAllowedBy(latest, files[id].gen)
          BY <3>1, <5>1
        <5>3. BackedFile(id) /\ budget.unwritten \subseteq budget'.unwritten
          BY <2>2, UnwrittenStays DEF Backed
        <5> QED
          BY <4>2, <5>2, <5>3, BackedStays
      <4>3. CASE files[id] = None /\ Upheld(id)
        BY <4>3 DEF Upheld, BackedFile
      <4> QED
        BY <4>1, <4>2, <4>3
    <3> QED
      BY <3>1, <3>2 DEF Backed
  <2> QED
    BY <2>1, <2>2
<1> QED
  BY <1>1, <1>2, Types, ConsentKeeps, PTL DEF Spec

\* The daemon goes down by a stop or a kill.
LEMMA GoesDown ==
  ASSUME TypeOK, Next, tick.pc = "idle", tick'.pc = "down"
  PROVE  Stop \/ Kill
<1>0. tick \in Ticks
  BY DEF TypeOK
<1>1. CASE World \/ Watcher \/ Reupload
  BY <1>1 DEF World, WriteTranscript, ReplaceTranscript, WritePolicy, HoldPasses, RenewToken, daemon,
              Watcher, RebuildWatcher, observe, Deliver, ForgetContent,
              Reupload, RunContentReupload, ToolRead, postReupload, ToolMarker, ToolSettle, ToolEnds, others
<1>2. CASE Consent
  <2>1. tick' = tick \/ \E w : tick' = [tick EXCEPT !.withdrawn = w]
    BY <1>2 DEF Consent, Current, onConsentChange, sweepPending
  <2>2. tick'.pc = tick.pc
    BY <1>0, <2>1 DEF Ticks
  <2> QED
    BY <2>2
<1>3. CASE Tick
  <2>1. \E stable \in SUBSET Ids : TickPlan(stable)
    BY <1>3, OutcomeIs
       DEF Tick, savePendingRecord, TickGate, TickJob, processOne, RegisterFlight, PostContent, persistMarker,
           dropPending, recordOwedIfStale
  <2>2. \E a, b : tick' = [tick EXCEPT !.pc = "save", !.saves = a, !.jobs = b]
    BY <2>1 DEF TickPlan
  <2>3. tick'.pc = "save"
    BY <1>0, <2>2 DEF Ticks
  <2> QED
    BY <2>3
<1>4. CASE Start
  BY <1>4 DEF Start
<1> QED
  BY <1>1, <1>2, <1>3, <1>4 DEF Next, Process

\* A stop writes the record of every transcript that is owed one.
LEMMA StopWrites ==
  ASSUME TypeOK, Stop, NEW id \in Ids, owes(id, PlannedState(id)),
         ~keyed(PlannedState(id), resolveSession(id, PlannedState(id)))
  PROVE  /\ pending'[id] # None /\ names(pending'[id], PlannedState(id))
         /\ pending'[id].native = resolveSession(id, PlannedState(id))
<1> DEFINE fs == [i \in Ids |-> PlannedState(i)]
           st == PlannedState(id)
           n == resolveSession(id, st)
           r == [native |-> n, gen |-> st.gen, life |-> st.life, stat |-> st.stat]
<1>1. fs[id] = st /\ fs \in [Ids -> FileStates \cup {None}]
  BY PlanTyped
<1>2. pending'[id] = IF \E s \in Saves(fs) : s.id = id THEN (CHOOSE s \in Saves(fs) : s.id = id).rec ELSE pending[id]
  BY DEF Stop
<1> HIDE DEF fs, st
<1>3. owes(id, fs[id]) /\ ~keyed(fs[id], resolveSession(id, fs[id]))
  BY <1>1 DEF st
<1>4. [id |-> id, rec |-> r] \in Saves(fs)
  BY <1>1, <1>3 DEF Saves
<1>5. \E s \in Saves(fs) : s.id = id
  BY <1>4
<1>6. PICK s \in Saves(fs) : s.id = id /\ pending'[id] = s.rec
  BY <1>2, <1>5
<1>7. /\ s.rec \in Records /\ s.rec.gen = fs[id].gen /\ s.rec.life = fs[id].life
      /\ s.rec.native = resolveSession(id, fs[id])
  BY <1>1, <1>6, SavesAre
<1> QED
  BY <1>1, <1>6, <1>7, NoneApart DEF names, st

\* A stop leaves every transcript that is still owed under a pending record or a marker that keys
\* it to the same session in the next run, although what was recorded before is known from memory
\* only, and consent may have changed meanwhile (plan, pendingRecord, recordOwed at shutdown); but for
\* one whose own marker could not be written, and the markers the tool has put over the daemon's.
THEOREM OwedSurvivesStop == Spec => OwedAcrossStop
<1> DEFINE Survives(id) ==
             LET st == PlannedState(id)
             IN  owes(id, st) =>
                   \/ pending'[id] # None /\ names(pending'[id], st)
                        /\ pending'[id].native = resolveSession(id, st)
                   \/ marker'[id] # None /\ marker'[id].native = resolveSession(id, st)
                   \/ id \in budget.unwritten \/ budget.stale # {}
           A == tick.pc = "idle" /\ tick'.pc = "down" /\ budget'.faults = budget.faults =>
                  \A id \in Ids : Survives(id)
<1>1. TypeOK /\ ConsentKept /\ RecordsTrue /\ Backed /\ [Next]_vars => [A]_vars
  <2> SUFFICES ASSUME TypeOK, ConsentKept, RecordsTrue, Backed, Next, tick.pc = "idle", tick'.pc = "down",
                      budget'.faults = budget.faults, NEW id \in Ids, owes(id, PlannedState(id)),
                      id \notin budget.unwritten, budget.stale = {}
               PROVE  LET st == PlannedState(id)
                      IN  \/ pending'[id] # None /\ names(pending'[id], st)
                               /\ pending'[id].native = resolveSession(id, st)
                          \/ marker'[id] # None /\ marker'[id].native = resolveSession(id, st)
    OBVIOUS
  <2> DEFINE st == PlannedState(id)
             n == resolveSession(id, st)
             f == files[id]
  <2>1. Stop
    <3>0. budget \in Budgets /\ budget.faults \in Nat
      BY DEF TypeOK, Budgets
    <3>1. ASSUME Kill PROVE FALSE
      <4>1. budget' = [budget EXCEPT !.ops = @ + 1, !.faults = @ + 1]
        BY <3>1 DEF Kill
      <4>2. budget'.faults = budget.faults + 1
        BY <3>0, <4>1 DEF Budgets
      <4> QED
        BY <3>0, <4>2
    <3> QED
      BY <3>1, GoesDown
  <2>2. CASE ~keyed(st, n)
    BY <2>1, <2>2, StopWrites
  <2>3. CASE keyed(st, n)
    <3>1. marker' = marker /\ st # None /\ Replanned(id, st) /\ n # 0
      BY <2>1, PlannedIs DEF Stop, Down, owes
    <3> HIDE DEF st, n
    <3>2. f # None /\ allowed(f.gen) /\ st.gen = f.gen /\ st.life = f.life /\ st \in FileStates
      BY <3>1 DEF Replanned
    <3>3. /\ FileTrue(id) /\ BackedFile(id) /\ Clean /\ ~Persists(id)
          /\ marker[id] # None => MarkerTrue(marker[id])
          /\ pending[id] # None => PendTrue(pending[id])
      BY <3>2 DEF RecordsTrue, TablesTrue, Backed, Clean, Persists
    <3>4. /\ st.mk # None => st.mk.native = f.life
          /\ st.pend # None => st.pend.native = f.life
      BY <3>1, <3>2, <3>3 DEF Replanned, FileTrue, MarkerTrue, PendTrue
    <3>5. n = f.life
      BY <3>1, <3>2, <3>3, <3>4, KeyTrue DEF FileTrue, n
    <3>6. CASE st.uploaded
      <4>1. marker[id] # None
        BY <3>1, <3>2, <3>3, <3>6 DEF Replanned, BackedFile
      <4>2. marker[id].native = f.life
        BY <3>2, <3>3, <4>1 DEF MarkerTrue, FileTrue
      <4> QED
        BY <3>1, <3>5, <4>1, <4>2 DEF st, n
    <3>7. CASE st.pend # None /\ names(st.pend, st)
      <4>1. pending[id] = st.pend
        BY <3>1, <3>2, <3>3, <3>7 DEF Replanned, BackedFile
      <4>2. pending'[id] = pending[id] \/ ~keyed(st, n)
        <5> DEFINE fs == [i \in Ids |-> PlannedState(i)]
        <5>1. pending'[id] = IF \E s \in Saves(fs) : s.id = id THEN (CHOOSE s \in Saves(fs) : s.id = id).rec ELSE pending[id]
          BY <2>1 DEF Stop
        <5>2. ASSUME NEW s \in Saves(fs), s.id = id
              PROVE  ~keyed(st, n)
          <6> HIDE DEF fs
          <6>1. PICK i \in Ids : /\ ~keyed(fs[i], resolveSession(i, fs[i]))
                                 /\ s = [id |-> i, rec |-> [native |-> resolveSession(i, fs[i]), gen |-> fs[i].gen,
                                                           life |-> fs[i].life, stat |-> fs[i].stat]]
            BY <5>2 DEF Saves
          <6>2. s.id = i
            BY <6>1
          <6> QED
            BY <5>2, <6>1, <6>2 DEF fs, st, n
        <5> QED
          BY <5>1, <5>2
      <4>3. pending'[id] = st.pend /\ st.pend.native = n
        BY <2>3, <3>4, <3>5, <3>7, <4>1, <4>2
      <4> QED
        BY <3>7, <4>3 DEF st, n
    <3> QED
      BY <2>3, <3>6, <3>7 DEF keyed
  <2> QED
    BY <2>2, <2>3
<1>2. Spec => [][A]_vars
  BY <1>1, Types, ConsentKeeps, RecordsKept, BackedKept, PTL DEF Spec
<1> QED
  BY <1>2 DEF OwedAcrossStop
=============================================================================
