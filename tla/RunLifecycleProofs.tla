------------------------- MODULE RunLifecycleProofs -------------------------
(***************************************************************************)
(* The run lifecycle for any number of runs and sessions, runs nested one  *)
(* deep, and any number of faults.                                         *)
(*                                                                         *)
(* Seen from the calls and the log, every step is one of four (Kinds): a   *)
(* wrapper moves along an edge of its own program, a handler records a     *)
(* call, a hook or the watcher captures a frame, or neither the wrappers   *)
(* nor the log change.  A wrapper never comes back to where it made a call *)
(* (AfterClosed), so a call is made once, and where its wrapper is tells   *)
(* which records are durable (CallsKept).  The shapes of the children,     *)
(* the reserves and the attribution are then kept run by run: a step       *)
(* disturbs the run it is about and, where the sidecar is rewritten, what  *)
(* the sidecar says of the others.                                         *)
(***************************************************************************)
EXTENDS RunLifecycle, FiniteSetTheorems, TLAPS

Stages == Calls \cup Gone \cup {"idle", "bare", "launch", "identity", "ack", "status", "declined", "wait",
                                "settle"}
Frames == [kind : Appends \cup {"SESSION", "USAGE"}, run : Runs \cup {None},
           session : Sessions \cup {None}, late : BOOLEAN]
Requests == [run : Runs, kind : Calls]

----------------------------------------------------------------------------
(* What the induction knows beside the properties *)

\* Where a wrapper may be once it has made a call, and whether it ever made it.
Ending == {"ENDED", "RELEASE"} \cup Gone
Running == {"ack", "status", "declined", "wait", "EXITED", "settle", "LAUNCH_FAILED"}
After(kind) ==
    CASE kind = "RESERVE" -> Calls \cup Running \cup {"launch", "identity"} \cup Gone
      [] kind = "STARTED" -> {"STARTED", "ABANDON", "launch", "identity", "REGISTERED"} \cup Running \cup Ending
      [] kind = "REGISTERED" -> {"REGISTERED"} \cup Running \cup Ending
      [] kind = "EXITED" -> {"EXITED", "settle"} \cup Ending
      [] kind = "LAUNCH_FAILED" -> {"LAUNCH_FAILED"} \cup Ending
      [] kind = "ENDED" -> Ending
      [] OTHER -> {kind} \cup Gone
At(kind, r) == [run |-> r, kind |-> kind] \in inbox \cup folding
Sent(kind, r) == Has(kind, r) \/ At(kind, r)
\* Whether call `kind' of run r is durable and its handler done.
Served(kind, r) == Has(kind, r) /\ ~At(kind, r)

\* A call is made at most once, a call the server has not begun has left no record, and what a
\* wrapper does later shows which of its records are durable.
CallShape ==
    /\ ~up => inbox = {} /\ folding = {}
    /\ \A m \in inbox : ~Has(m.kind, m.run) /\ m \notin folding
    /\ \A m \in folding : m.kind \in Appends /\ Has(m.kind, m.run)
    /\ \A r \in Runs : \A kind \in Calls : Sent(kind, r) => pc[r] \in After(kind)
    /\ \A r \in Runs :
        /\ pc[r] \in {"launch", "identity", "REGISTERED", "ENDED", "RELEASE"} \cup Running => Served("STARTED", r)
        /\ \A kind \in Appends \ {"STARTED"} : Sent(kind, r) => Served("STARTED", r)
        /\ pc[r] \in {"ack", "status", "wait", "EXITED", "settle"} => Served("REGISTERED", r)
        /\ pc[r] = "RELEASE" => Has("ENDED", r)

\* The wrapper, its shim and the status pipe are in step with each other and with the records.
ChildOf(r) ==
    /\ pc[r] \in {"idle", "RESERVE", "UNDO", "STARTED", "ABANDON", "launch"} => proc[r] = "none"
    /\ pc[r] = "identity" => proc[r] \in {"spawned", "dead"} /\ r \notin image
    /\ pc[r] \in {"REGISTERED", "ack", "declined"} => proc[r] \in {"reported", "dead"} /\ r \notin image
    /\ pc[r] = "status" => proc[r] \in {"acked", "marked", "image", "dead"}
    /\ pc[r] = "LAUNCH_FAILED" => proc[r] = "dead" /\ r \notin image
    /\ pc[r] = "wait" => proc[r] \in {"image", "dead"} /\ r \in image \cup hit
    /\ pc[r] \in {"EXITED", "settle"} => proc[r] = "dead" /\ r \in image \cup hit
    /\ pc[r] \in {"ENDED", "RELEASE"} => proc[r] \in {"none", "dead"}
    /\ pc[r] = "bare" => proc[r] \in {"image", "dead"} /\ r \notin image
    /\ proc[r] \in {"none", "spawned", "reported", "acked"} => status[r] = <<>> /\ r \notin image
    /\ proc[r] = "marked" => status[r] = <<"preExec">> /\ r \notin image
    /\ r \in image /\ pc[r] = "status" => status[r] = <<"preExec">>
    /\ proc[r] = "dead" /\ status[r] = <<"preExec">> => r \in image \cup hit
    /\ proc[r] = "image" /\ r \notin image =>
         pc[r] \in {"bare", "crashed"} /\ status[r] = <<>> /\ \A kind \in Calls : ~Sent(kind, r)
    /\ proc[r] \in {"spawned", "reported"} => Served("STARTED", r)
    /\ proc[r] \in {"acked", "marked"} \/ r \in image => Served("STARTED", r) /\ Served("REGISTERED", r)
    /\ Sent("LAUNCH_FAILED", r) => proc[r] = "dead" /\ r \notin image
    /\ Sent("EXITED", r) => r \in image \cup hit
ChildShape == \A r \in Runs : ChildOf(r)

\* The reserves in memory and in the sidecar agree on every run that no fault touched, whose calls
\* are the ones it waits for.
ReserveOf(r) ==
    /\ At("RESERVE", r) \/ pc[r] \in {"idle", "bare"} => r \notin open \cup sidecar
    /\ r \notin hit /\ up => (r \in open <=> r \in sidecar)
    /\ r \notin hit => \A kind \in Calls : At(kind, r) => pc[r] = kind
    /\ pc[r] = "ABANDON" => r \in hit

\* A run started bare: none of its calls was ever made.
Bare(r) == r \notin image /\ pc[r] \in {"bare"} \cup Gone /\ \A kind \in Calls : ~Sent(kind, r)
\* Run r is in a child that has started.
Inside(r) == proc[r] \in {"image", "dead"}

\* The records with what their proof needs of the calls and the children.
RecordsKept == RunInv /\ CallShape /\ ChildShape

----------------------------------------------------------------------------
(* Types *)

\* An answer moves its wrapper to a stage it may be in, and sends the next call.
LEMMA AnswerTypes ==
  ASSUME TypeOK, NEW m \in inbox \cup folding, NEW p \in Stages, answer(m, p)
  PROVE  pc' \in [Runs -> Stages] /\ inbox' \subseteq Requests
<1>1. m.run \in Runs /\ m.kind \in Calls
  BY DEF TypeOK
<1>2. pc' \in [Runs -> Stages]
  BY <1>1 DEF TypeOK, answer, Stages
<1>3. inbox' \subseteq Requests
  BY <1>1 DEF TypeOK, answer, Requests
<1> QED BY <1>2, <1>3

LEMMA GotoTypes ==
  ASSUME TypeOK, NEW r \in Runs, NEW p \in Stages, goto(r, p)
  PROVE  pc' \in [Runs -> Stages] /\ inbox' \subseteq Requests
BY DEF TypeOK, goto, Stages, Requests

LEMMA AfterTypes ==
  ASSUME NEW k \in Calls
  PROVE  afterOk(k) \in Stages /\ afterError(k) \in Stages
BY DEF Calls, afterOk, afterError, terminalSequence, Stages, Gone

LEMMA FaultTypes ==
  ASSUME TypeOK, NEW rs \in SUBSET Runs, Fault(rs) \/ NoFault \/ (Op /\ UNCHANGED <<faults, hit>>)
                                         \/ (hit' = hit \cup rs /\ UNCHANGED <<faults, ops>>)
  PROVE  ops' \in 0..MaxOps /\ faults' \in 0..ops' /\ hit' \subseteq Runs /\ hit \subseteq hit'
BY CapacityAssumption DEF TypeOK, Fault, NoFault, Op

\* Every step keeps the frames, and may add one.
LEMMA WalTypes ==
  ASSUME TypeOK, NEW f \in Frames, wal' = Append(wal, f), base' = base
  PROVE  wal' \in Seq(Frames) /\ base' \in 0..Len(wal')
BY DEF TypeOK, Frames

\* The daemon's steps.
LEMMA ServerTypes ==
  ASSUME TypeOK, Server
  PROVE  TypeOK'
<1> USE DEF Requests, Frames, Stages
<1>1. CASE \E m \in inbox : ReserveRun(m) \/ ReleaseRun(m)
  <2> PICK m \in inbox : ReserveRun(m) \/ ReleaseRun(m)
    BY <1>1
  <2>1. m.run \in Runs /\ m.kind \in Calls
    BY DEF TypeOK
  <2>2. open' \subseteq Runs /\ sidecar' \subseteq Runs
    BY <2>1 DEF TypeOK, ReserveRun, ReleaseRun
  <2>3. \E p \in Stages : answer(m, p)
    <3>1. "UNDO" \in Stages /\ afterOk(m.kind) \in Stages /\ afterError(m.kind) \in Stages
      BY <2>1, AfterTypes DEF Calls
    <3> QED BY <3>1 DEF ReserveRun, ReleaseRun
  <2>4. pc' \in [Runs -> Stages] /\ inbox' \subseteq Requests
    BY <2>3, AnswerTypes
  <2>5. Fault({m.run}) \/ NoFault
    BY DEF ReserveRun, ReleaseRun
  <2>6. ops' \in 0..MaxOps /\ faults' \in 0..ops' /\ hit' \subseteq Runs
    BY <2>1, <2>5, FaultTypes
  <2>7. UNCHANGED <<up, registry, sessionRuns, wal, base, folding, proc, status, image, pre, bound, home, hook>>
    BY DEF ReserveRun, ReleaseRun, log, child, sessions
  <2> QED BY <2>2, <2>4, <2>6, <2>7 DEF TypeOK
<1>2. CASE \E m \in inbox : AppendObservation(m)
  <2> PICK m \in inbox : AppendObservation(m)
    BY <1>2
  <2>1. m.run \in Runs /\ m.kind \in Calls /\ m \in Requests /\ m.kind \in Appends
    BY DEF TypeOK, AppendObservation
  <2>2. UNCHANGED <<up, open, sidecar, registry, sessionRuns, base, proc, status, image, pre, bound, home, hook>>
    BY DEF AppendObservation, daemon, child, sessions
  <2>3. Fault({m.run}) \/ NoFault
    BY DEF AppendObservation
  <2>4. ops' \in 0..MaxOps /\ faults' \in 0..ops' /\ hit' \subseteq Runs
    BY <2>1, <2>3, FaultTypes
  <2>5. CASE /\ wal' = Append(wal, Frame(m.kind, m.run, None, pc[m.run] # m.kind))
             /\ folding' = folding \cup {m} /\ inbox' = inbox \ {m} /\ pc' = pc
    <3>1. Frame(m.kind, m.run, None, pc[m.run] # m.kind) \in Frames
      BY <2>1 DEF Frame
    <3>2. wal' \in Seq(Frames) /\ base' \in 0..Len(wal')
      BY <2>2, <2>5, <3>1, WalTypes
    <3>3. inbox' \cup folding' \subseteq Requests
      BY <2>1, <2>5 DEF TypeOK
    <3> QED BY <2>2, <2>4, <2>5, <3>2, <3>3 DEF TypeOK
  <2>6. CASE answer(m, afterError(m.kind)) /\ UNCHANGED <<wal, folding>>
    <3>1. pc' \in [Runs -> Stages] /\ inbox' \subseteq Requests
      BY <2>1, <2>6, AfterTypes, AnswerTypes
    <3> QED BY <2>2, <2>4, <2>6, <3>1 DEF TypeOK
  <2> QED BY <2>5, <2>6 DEF AppendObservation
<1>3. CASE \E m \in folding : FoldAndAcknowledge(m)
  <2> PICK m \in folding : FoldAndAcknowledge(m)
    BY <1>3
  <2>1. m.run \in Runs /\ m.kind \in Calls
    BY DEF TypeOK
  <2>2. UNCHANGED <<up, open, sidecar, sessionRuns, wal, base, proc, status, image, pre, bound, home, hook>>
    BY DEF FoldAndAcknowledge, log, child, sessions
  <2>3. pc' \in [Runs -> Stages] /\ inbox' \subseteq Requests
    BY <2>1, AfterTypes, AnswerTypes DEF FoldAndAcknowledge
  <2>4. ops' \in 0..MaxOps /\ faults' \in 0..ops' /\ hit' \subseteq Runs /\ folding' \subseteq Requests
    BY DEF FoldAndAcknowledge, NoFault, TypeOK
  <2>5. registry' \in [boundaries : [Runs -> {"unknown", "open", "closed"}], registered : SUBSET Runs]
    <3>1. registry' = Fold(registry, Frame(m.kind, m.run, None, FALSE))
      BY DEF FoldAndAcknowledge
    <3>2. CASE m.kind = "REGISTERED"
      BY <2>1, <3>1, <3>2 DEF Fold, Frame, TypeOK
    <3>3. CASE m.kind \in {"STARTED", "ENDED"}
      <4>1. registry' = [registry EXCEPT !.boundaries[m.run] = foldRunBoundary(registry.boundaries[m.run], m.kind)]
        BY <3>1, <3>3 DEF Fold, Frame
      <4>2. foldRunBoundary(registry.boundaries[m.run], m.kind) \in {"unknown", "open", "closed"}
        BY DEF foldRunBoundary
      <4> HIDE DEF foldRunBoundary
      <4> QED BY <2>1, <4>1, <4>2 DEF TypeOK
    <3>4. CASE m.kind \notin {"REGISTERED", "STARTED", "ENDED"}
      BY <3>1, <3>4 DEF Fold, Frame, TypeOK
    <3> QED BY <3>2, <3>3, <3>4
  <2> QED BY <2>2, <2>3, <2>4, <2>5 DEF TypeOK
<1>4. CASE DaemonStarts
  <2>1. UNCHANGED <<sidecar, wal, base, inbox, folding, pc, proc, status, image, pre, bound, home, hook, ops,
                    faults, hit>>
        /\ up' = TRUE /\ open' = sidecar /\ sessionRuns' = [s \in Sessions |-> None]
    BY <1>4 DEF DaemonStarts, log, child, sessions, NoFault, LoadReserves
  <2>2. registry' \in [boundaries : [Runs -> {"unknown", "open", "closed"}], registered : SUBSET Runs]
    BY <1>4 DEF DaemonStarts, ReplayWAL
  <2> QED BY <2>1, <2>2 DEF TypeOK
<1> QED BY <1>1, <1>2, <1>3, <1>4 DEF Server

\* The wrapper's and the shim's steps.
LEMMA WrapperTypes ==
  ASSUME TypeOK, NEW r \in Runs,
         \/ Wrapper(r) \/ Shim(r) \/ ChildExits(r)
         \/ Run(r) \/ runUnobserved(r) \/ ShimDies(r) \/ WrapperDies(r)
  PROVE  TypeOK'
<1> USE DEF Requests, Frames, Stages
<1> DEFINE Moved == pc' \in [Runs -> Stages] /\ inbox' \subseteq Requests
           Counted == ops' \in 0..MaxOps /\ faults' \in 0..ops' /\ hit' \subseteq Runs
<1>1. Counted
  <2>1. \/ NoFault \/ Fault({r}) \/ Fault({})
        \/ hit' = hit \cup {r} /\ UNCHANGED <<faults, ops>>
    BY DEF Wrapper, Shim, ChildExits, Run, runUnobserved, ShimDies, WrapperDies, waitUnobserved, CallFails,
           launchObserved, readIdentityFails, writeAck, readLaunchStatus, waitFailedLaunch, wait,
           settleForDrain, writeIdentity, ShimDeclined, ShimMarks, ShimExecs
  <2>2. {r} \in SUBSET Runs /\ {} \in SUBSET Runs
    OBVIOUS
  <2> QED BY <2>1, <2>2, FaultTypes
<1>2. Moved
  <2>1. CASE WrapperDies(r)
    BY <2>1 DEF WrapperDies, TypeOK, Gone
  <2>2. CASE UNCHANGED <<pc, inbox>>
    BY <2>2 DEF TypeOK
  <2>3. CASE \E p \in Stages : goto(r, p)
    BY <2>3, GotoTypes
  <2>4. CASE CallFails(r)
    <3>1. afterError(pc[r]) \in Stages
      BY <2>4, AfterTypes DEF CallFails
    <3> QED BY <2>4, <3>1, GotoTypes DEF CallFails
  <2>5. CASE \/ waitUnobserved(r) \/ launchObserved(r) \/ readIdentityFails(r) \/ writeAck(r)
             \/ readLaunchStatus(r) \/ waitFailedLaunch(r) \/ wait(r) \/ settleForDrain(r)
             \/ writeIdentity(r) \/ Run(r) \/ runUnobserved(r)
    <3>1. {"done", "identity", "status", "declined", "EXITED", "ENDED", "REGISTERED", "RESERVE", "bare", "wait",
           "LAUNCH_FAILED"} \subseteq Stages
      BY DEF Calls, Gone
    <3>2. UNCHANGED <<pc, inbox>> \/ \E p \in {"done", "identity", "status", "declined", "EXITED", "ENDED", "REGISTERED", "RESERVE",
                      "bare", "wait", "LAUNCH_FAILED"} : goto(r, p)
      BY <2>5 DEF waitUnobserved, launchObserved, readIdentityFails, writeAck, readLaunchStatus, waitFailedLaunch,
                  wait, settleForDrain, writeIdentity, Run, runUnobserved, launchFailure
    <3> QED BY <2>2, <2>3, <3>1, <3>2
  <2>6. CASE ShimDeclined(r) \/ ShimMarks(r) \/ ShimExecs(r) \/ ChildExits(r) \/ ShimDies(r)
    BY <2>2, <2>6 DEF ShimDeclined, ShimMarks, ShimExecs, ChildExits, ShimDies
  <2> QED BY <2>1, <2>4, <2>5, <2>6 DEF Wrapper, Shim
<1>3. UNCHANGED <<up, open, sidecar, registry, sessionRuns, wal, base, folding, home, hook>>
  BY DEF Wrapper, Shim, ChildExits, Run, runUnobserved, ShimDies, WrapperDies, waitUnobserved, CallFails,
         launchObserved, readIdentityFails, writeAck, readLaunchStatus, waitFailedLaunch, wait,
         settleForDrain, writeIdentity, ShimDeclined, ShimMarks, ShimExecs, daemon, log, sessions, shimStep
<1>4. pre' \in [Runs -> SUBSET Sessions] /\ bound' \in [Runs -> SUBSET Sessions]
  <2>1. CASE launchObserved(r)
    BY <2>1 DEF launchObserved, preLaunchSessions, Files, TypeOK
  <2>2. CASE wait(r)
    BY <2>2 DEF wait, TypeOK
  <2>3. CASE UNCHANGED <<pre, bound>>
    BY <2>3 DEF TypeOK
  <2> QED BY <2>1, <2>2, <2>3 DEF Wrapper, Shim, ChildExits, Run, runUnobserved, ShimDies, WrapperDies,
         waitUnobserved, CallFails, readIdentityFails, writeAck, readLaunchStatus, waitFailedLaunch,
         settleForDrain, writeIdentity, ShimDeclined, ShimMarks, ShimExecs, sessions, shimStep
<1>5. image' \subseteq Runs /\ proc' \in [Runs -> {"none", "spawned", "reported", "acked", "marked", "image", "dead"}]
  <2>1. image' = image \/ image' = image \cup {r}
    BY DEF Wrapper, Shim, ChildExits, Run, runUnobserved, ShimDies, WrapperDies, waitUnobserved, CallFails,
         launchObserved, readIdentityFails, writeAck, readLaunchStatus, waitFailedLaunch, wait,
         settleForDrain, writeIdentity, ShimDeclined, ShimMarks, ShimExecs, child, shimStep
  <2>2. proc' = proc \/ \E x \in {"spawned", "reported", "acked", "marked", "image", "dead"} : proc' = [proc EXCEPT ![r] = x]
    BY DEF Wrapper, Shim, ChildExits, Run, runUnobserved, ShimDies, WrapperDies, waitUnobserved, CallFails,
         launchObserved, readIdentityFails, writeAck, readLaunchStatus, waitFailedLaunch, wait,
         settleForDrain, writeIdentity, ShimDeclined, ShimMarks, ShimExecs, child, shimStep
  <2>3. image' \subseteq Runs
    BY <2>1 DEF TypeOK
  <2>4. proc' \in [Runs -> {"none", "spawned", "reported", "acked", "marked", "image", "dead"}]
    BY <2>2 DEF TypeOK
  <2> QED BY <2>3, <2>4
<1>6. status' \in [Runs -> Seq({"preExec", "execFailed"})]
  <2>1. CASE ShimMarks(r)
    <3>1. <<"execFailed">> \in Seq({"preExec", "execFailed"}) /\ <<"preExec">> \in Seq({"preExec", "execFailed"})
      OBVIOUS
    <3>2. \/ status' = status \/ status' = [status EXCEPT ![r] = <<"execFailed">>]
          \/ status' = [status EXCEPT ![r] = <<"preExec">>]
      BY <2>1 DEF ShimMarks
    <3> QED BY <3>1, <3>2 DEF TypeOK
  <2>2. CASE ShimExecs(r)
    <3>1. Append(status[r], "execFailed") \in Seq({"preExec", "execFailed"})
      <4>1. status[r] \in Seq({"preExec", "execFailed"})
        BY DEF TypeOK
      <4> QED BY <4>1
    <3>2. status' = status \/ status' = [status EXCEPT ![r] = Append(status[r], "execFailed")]
      BY <2>2 DEF ShimExecs
    <3> QED BY <3>1, <3>2 DEF TypeOK
  <2>3. CASE readLaunchStatus(r)
    BY <2>3 DEF readLaunchStatus, TypeOK
  <2>4. CASE status' = status
    BY <2>4 DEF TypeOK
  <2> QED BY <2>1, <2>2, <2>3, <2>4 DEF Wrapper, Shim, ChildExits, Run, runUnobserved, ShimDies, WrapperDies,
         waitUnobserved, CallFails, launchObserved, readIdentityFails, writeAck, waitFailedLaunch, wait,
         settleForDrain, writeIdentity, ShimDeclined, child, shimStep
<1> QED BY <1>1, <1>2, <1>3, <1>4, <1>5, <1>6 DEF TypeOK

\* The sessions' steps, the daemon's death and compaction.
\* What lies above a run, and the nearest of some runs of one chain.
LEMMA Nested ==
  ASSUME NEW r \in Runs
  PROVE  /\ Above[r] \subseteq Runs /\ Chain(r) \subseteq Runs /\ r \in Chain(r)
         /\ \A a \in Chain(r) : Above[a] \subseteq Above[r] /\ a \notin Above[a]
  BY NestingAssumption DEF Chain

LEMMA NearestIs ==
  ASSUME NEW r \in Runs, NEW S, S \subseteq Chain(r), S # {}
  PROVE  /\ nearest(S) \in S /\ S \subseteq Chain(nearest(S))
         /\ \A a \in S : S \subseteq Chain(a) => a = nearest(S)
<1>1. \E a \in S : S \subseteq Chain(a)
  BY NestingAssumption DEF Chain
<1>2. nearest(S) \in S /\ S \subseteq Chain(nearest(S))
  BY <1>1 DEF nearest
<1>3. ASSUME NEW a \in S, S \subseteq Chain(a)
      PROVE  a = nearest(S)
  <2>1. a \in Chain(nearest(S)) /\ nearest(S) \in Chain(a) /\ a \in Runs /\ nearest(S) \in Runs
    BY <1>2, <1>3, Nested
  <2>2. a # nearest(S) => a \in Above[nearest(S)] /\ nearest(S) \in Above[a]
    BY <2>1 DEF Chain
  <2> QED BY <2>1, <2>2, Nested, NestingAssumption
<1> QED BY <1>2, <1>3

LEMMA LineageTyped ==
  ASSUME NEW s
  PROVE  proveLineage(s) \in Runs \cup {None}
<1>1. CASE home[s] \notin Runs \/ registeredAbove(s) = {}
  BY <1>1 DEF proveLineage, nearest
<1>2. CASE home[s] \in Runs /\ registeredAbove(s) # {}
  <2>1. registeredAbove(s) \subseteq Chain(home[s])
    BY DEF registeredAbove
  <2>2. nearest(registeredAbove(s)) \in Chain(home[s])
    BY <1>2, <2>1, NearestIs
  <2> QED BY <1>2, <2>2, Nested DEF proveLineage
<1> QED BY <1>1, <1>2

LEMMA OtherTypes ==
  ASSUME TypeOK,
         \/ DaemonDies \/ Compact
         \/ \E s \in Sessions : StartSession(s) \/ CaptureUsage(s) \/ Hook(s)
         \/ \E r \in Runs, s \in Sessions : discoverAndBind(r, s)
  PROVE  TypeOK'
<1> USE DEF Requests, Frames, Stages
<1>1. CASE DaemonDies
  <2>1. Fault({}) /\ {} \in SUBSET Runs
    BY <1>1 DEF DaemonDies
  <2>2. ops' \in 0..MaxOps /\ faults' \in 0..ops' /\ hit' \subseteq Runs
    BY <2>1, FaultTypes
  <2>3. /\ UNCHANGED <<open, sidecar, registry, sessionRuns, wal, base, pc, proc, status, image, pre, bound, home, hook>>
        /\ up' = FALSE /\ inbox' = {} /\ folding' = {}
    BY <1>1 DEF DaemonDies, daemon, log, child, sessions
  <2> QED BY <2>2, <2>3 DEF TypeOK
<1>2. CASE Compact
  <2>1. ops' \in 0..MaxOps /\ faults' \in 0..ops' /\ hit' \subseteq Runs
    <3>1. Op /\ UNCHANGED <<faults, hit>> /\ {} \in SUBSET Runs
      BY <1>2 DEF Compact
    <3> QED BY <3>1, FaultTypes
  <2>2. UNCHANGED <<up, open, sidecar, registry, sessionRuns, wal, inbox, folding, pc, proc, status, image, pre, bound,
                    home, hook>>
    BY <1>2 DEF Compact, daemon, child, sessions
  <2>3. base' \in 0..Len(wal)
    BY <1>2 DEF Compact, acknowledged, TypeOK
  <2> QED BY <2>1, <2>2, <2>3 DEF TypeOK
<1>3. ASSUME NEW s \in Sessions, StartSession(s)
      PROVE  TypeOK'
  <2>1. ops' \in 0..MaxOps /\ faults' \in 0..ops' /\ hit' \subseteq Runs
    <3>1. Op /\ UNCHANGED <<faults, hit>> /\ {} \in SUBSET Runs
      BY <1>3 DEF StartSession
    <3> QED BY <3>1, FaultTypes
  <2>2. UNCHANGED <<up, open, sidecar, registry, sessionRuns, wal, base, inbox, folding, pc, proc, status, image,
                    pre, bound>>
    BY <1>3 DEF StartSession, daemon, log, child
  <2>3. home' \in [Sessions -> Runs \cup {"outside", None}]
    <3>1. \E x \in Runs \cup {"outside", None} : home' = [home EXCEPT ![s] = x]
      BY <1>3 DEF StartSession
    <3> QED BY <3>1 DEF TypeOK
  <2>4. hook' \in [Sessions -> [pc : {"idle", "decide", "capture", "done"},
                              env : Runs \cup {None}, run : Runs \cup {None}]]
    <3>1. \E h \in [pc : {"idle", "decide", "capture", "done"}, env : Runs \cup {None}, run : Runs \cup {None}] :
            hook' = [hook EXCEPT ![s] = h]
      <4>1. CASE \E r \in Runs : \E env \in {withRunID(r), None} :
                   hook' = [hook EXCEPT ![s] = [pc |-> "decide", env |-> env, run |-> None]]
        BY <4>1 DEF withRunID
      <4>2. CASE hook' = [hook EXCEPT ![s].pc = "decide"]
        <5>1. hook[s] \in [pc : {"idle", "decide", "capture", "done"}, env : Runs \cup {None}, run : Runs \cup {None}]
          BY DEF TypeOK
        <5>2. [hook[s] EXCEPT !.pc = "decide"] \in
                [pc : {"idle", "decide", "capture", "done"}, env : Runs \cup {None}, run : Runs \cup {None}]
          BY <5>1
        <5>3. hook' = [hook EXCEPT ![s] = [hook[s] EXCEPT !.pc = "decide"]]
          BY <4>2
        <5> QED BY <5>2, <5>3
      <4> QED BY <1>3, <4>1, <4>2 DEF StartSession
    <3> QED BY <3>1 DEF TypeOK
  <2> QED BY <2>1, <2>2, <2>3, <2>4 DEF TypeOK
<1>4. ASSUME NEW s \in Sessions, CaptureUsage(s)
      PROVE  TypeOK'
  <2>1. UNCHANGED <<up, open, sidecar, registry, sessionRuns, base, inbox, folding, pc, proc, status, image,
                    pre, bound, home, hook, faults, ops, hit>>
        /\ wal' = Append(wal, Frame("USAGE", sessionRuns[s], s, FALSE))
    BY <1>4 DEF CaptureUsage, daemon, child, sessions, NoFault, runContextFor
  <2>2. Frame("USAGE", sessionRuns[s], s, FALSE) \in Frames
    BY DEF Frame, TypeOK
  <2>3. wal' \in Seq(Frames) /\ base' \in 0..Len(wal')
    BY <2>1, <2>2, WalTypes
  <2> QED BY <2>1, <2>3 DEF TypeOK
<1>5. ASSUME NEW s \in Sessions, Decide(s)
      PROVE  TypeOK'
  <2>1. UNCHANGED <<up, open, sidecar, registry, sessionRuns, wal, base, inbox, folding, pc, proc, status, image,
                    pre, bound, home, faults, ops, hit>>
    BY <1>5 DEF Decide, daemon, log, child, NoFault
  <2>2. decision(s) \in Runs \cup {None}
    <3>1. proveLineage(s) \in Runs \cup {None}
      BY LineageTyped
    <3>2. hook[s].env \in Runs \cup {None}
      BY DEF TypeOK
    <3> QED BY <3>1, <3>2 DEF decision
  <2>3. PICK run \in Runs \cup {None} : hook' = [hook EXCEPT ![s] = [hook[s] EXCEPT !.pc = "capture", !.run = run]]
    BY <1>5, <2>2 DEF Decide
  <2>4. hook' \in [Sessions -> [pc : {"idle", "decide", "capture", "done"},
                              env : Runs \cup {None}, run : Runs \cup {None}]]
    <3>1. hook[s] \in [pc : {"idle", "decide", "capture", "done"}, env : Runs \cup {None}, run : Runs \cup {None}]
      BY DEF TypeOK
    <3>2. [hook[s] EXCEPT !.pc = "capture", !.run = run] \in
            [pc : {"idle", "decide", "capture", "done"}, env : Runs \cup {None}, run : Runs \cup {None}]
      BY <3>1
    <3> QED BY <2>3, <3>2 DEF TypeOK
  <2> QED BY <2>1, <2>4 DEF TypeOK
<1>6. ASSUME NEW s \in Sessions, CaptureSessionLifecycle(s)
      PROVE  TypeOK'
  <2>1. /\ UNCHANGED <<up, open, sidecar, registry, sessionRuns, base, inbox, folding, pc, proc, status, image,
                       pre, bound, home, faults, ops, hit>>
        /\ wal' = Append(wal, Frame("SESSION", hook[s].run, s, FALSE)) \/ wal' = wal
        /\ hook' = [hook EXCEPT ![s] = [pc |-> "done", env |-> None, run |-> None]]
    BY <1>6 DEF CaptureSessionLifecycle, daemon, child, NoFault
  <2>2. Frame("SESSION", hook[s].run, s, FALSE) \in Frames
    BY DEF Frame, TypeOK
  <2>3. wal' \in Seq(Frames) /\ base' \in 0..Len(wal')
    <3>1. CASE wal' = wal
      BY <2>1, <3>1 DEF TypeOK
    <3>2. CASE wal' = Append(wal, Frame("SESSION", hook[s].run, s, FALSE))
      BY <2>1, <2>2, <3>2, WalTypes
    <3> QED BY <2>1, <3>1, <3>2
  <2>4. hook' \in [Sessions -> [pc : {"idle", "decide", "capture", "done"},
                              env : Runs \cup {None}, run : Runs \cup {None}]]
    BY <2>1 DEF TypeOK
  <2> QED BY <2>1, <2>3, <2>4 DEF TypeOK
<1>7. ASSUME NEW r \in Runs, NEW s \in Sessions, discoverAndBind(r, s)
      PROVE  TypeOK'
  <2>1. UNCHANGED <<up, open, sidecar, registry, wal, base, inbox, folding, pc, proc, status, image,
                    pre, home, hook, faults, ops, hit>>
    BY <1>7 DEF discoverAndBind, log, child, NoFault
  <2>2. sessionRuns' \in [Sessions -> Runs \cup {None}] /\ bound' \in [Runs -> SUBSET Sessions]
    BY <1>7 DEF discoverAndBind, TypeOK
  <2> QED BY <2>1, <2>2 DEF TypeOK
<1> QED BY <1>1, <1>2, <1>3, <1>4, <1>5, <1>6, <1>7 DEF Hook

LEMMA TypeNext ==
  ASSUME TypeOK, [Next]_vars
  PROVE  TypeOK'
<1>1. CASE UNCHANGED vars
  BY <1>1 DEF vars, TypeOK, daemon, log, child, sessions
<1> QED BY <1>1, ServerTypes, WrapperTypes, OtherTypes DEF Next, Progress

----------------------------------------------------------------------------
(* The kinds of steps *)

\* The stage a wrapper may go to next.
Edge(p, q) ==
  \/ p = "idle" /\ q \in {"RESERVE", "bare"}
  \/ p = "RESERVE" /\ q \in {"STARTED", "UNDO"}
  \/ p = "STARTED" /\ q \in {"launch", "ABANDON"}
  \/ p = "launch" /\ q \in {"identity", "ENDED"}
  \/ p = "identity" /\ q \in {"REGISTERED", "ENDED"}
  \/ p = "REGISTERED" /\ q \in {"ack", "declined"}
  \/ p = "ack" /\ q \in {"status", "declined"}
  \/ p = "status" /\ q \in {"wait", "declined"}
  \/ p = "declined" /\ q = "LAUNCH_FAILED"
  \/ p = "wait" /\ q = "EXITED"
  \/ p = "EXITED" /\ q = "settle"
  \/ p \in {"settle", "LAUNCH_FAILED"} /\ q = "ENDED"
  \/ p = "ENDED" /\ q = "RELEASE"
  \/ p \in {"RESERVE", "UNDO", "ABANDON", "EXITED", "LAUNCH_FAILED", "ENDED", "RELEASE", "bare"} /\ q = "done"
  \/ p \notin {"idle"} \cup Gone /\ q = "crashed"

\* An append that was acknowledged.
Acked(p, q) == p \in Appends /\ q = afterOk(p)

Move(r, q) ==
  /\ Edge(pc[r], q) /\ pc' = [pc EXCEPT ![r] = q]
  /\ wal' = wal /\ up' = up
  /\ folding' \subseteq folding
  /\ inbox' \subseteq inbox \cup IF q \in Calls /\ up THEN {[run |-> r, kind |-> q]} ELSE {}
  /\ Acked(pc[r], q) => [run |-> r, kind |-> pc[r]] \in folding \ folding'
Recorded(m) ==
  /\ m.kind \in Appends
  /\ wal' = Append(wal, Frame(m.kind, m.run, None, pc[m.run] # m.kind))
  /\ folding' = folding \cup {m} /\ inbox' = inbox \ {m}
  /\ UNCHANGED <<pc, up>>
Captured(f) ==
  /\ f.kind \in {"SESSION", "USAGE"}
  /\ wal' = Append(wal, f)
  /\ UNCHANGED <<pc, inbox, folding, up>>
Quiet ==
  /\ pc' = pc /\ wal' = wal /\ inbox' \subseteq inbox /\ folding' \subseteq folding
  /\ ~up' => ~up \/ (inbox' = {} /\ folding' = {})
Kinds ==
  \/ \E r \in Runs, q \in Stages : Move(r, q)
  \/ \E m \in inbox : Recorded(m)
  \/ \E f \in Frames : Captured(f)
  \/ Quiet

\* An answer moves a wrapper that waits for it and is dropped otherwise.
LEMMA AnswerKinds ==
  ASSUME TypeOK, CallShape, NEW m \in inbox \cup folding, NEW p \in Stages, answer(m, p), Edge(m.kind, p),
         wal' = wal, up' = up, folding' \subseteq folding,
         Acked(m.kind, p) => m \in folding \ folding'
  PROVE  Kinds
<1>1. m.run \in Runs /\ m = [run |-> m.run, kind |-> m.kind] /\ up
  BY DEF TypeOK, CallShape
<1>2. CASE pc[m.run] = m.kind
  <2>1. Move(m.run, p)
    BY <1>1, <1>2 DEF answer, Move
  <2> QED BY <1>1, <2>1 DEF Kinds
<1>3. CASE pc[m.run] # m.kind
  BY <1>1, <1>3 DEF answer, Kinds, Quiet
<1> QED BY <1>2, <1>3

LEMMA GotoKinds ==
  ASSUME TypeOK, NEW r \in Runs, NEW q \in Stages, goto(r, q), Edge(pc[r], q), ~Acked(pc[r], q),
         UNCHANGED <<wal, up, folding>>
  PROVE  Kinds
<1>1. Move(r, q)
  BY DEF goto, Move
<1> QED BY <1>1 DEF Kinds

LEMMA ServerKinds ==
  ASSUME TypeOK, CallShape, Server
  PROVE  Kinds
<1>1. CASE \E m \in inbox : ReserveRun(m) \/ ReleaseRun(m)
  <2> PICK m \in inbox : ReserveRun(m) \/ ReleaseRun(m)
    BY <1>1
  <2>1. \E p \in Stages : answer(m, p) /\ Edge(m.kind, p) /\ ~Acked(m.kind, p)
    BY DEF ReserveRun, ReleaseRun, Edge, afterOk, afterError, terminalSequence, Acked, Appends, Stages, Calls, Gone
  <2>2. wal' = wal /\ up' = up /\ folding' \subseteq folding
    BY DEF ReserveRun, ReleaseRun, log
  <2> QED BY <2>1, <2>2, AnswerKinds
<1>2. CASE \E m \in inbox : AppendObservation(m)
  <2> PICK m \in inbox : AppendObservation(m)
    BY <1>2
  <2>1. m.kind \in Appends /\ up' = up
    BY DEF AppendObservation
  <2>2. Recorded(m) \/ (answer(m, afterError(m.kind)) /\ wal' = wal /\ folding' \subseteq folding)
    BY <2>1 DEF AppendObservation, Recorded
  <2>3. Edge(m.kind, afterError(m.kind)) /\ ~Acked(m.kind, afterError(m.kind)) /\ afterError(m.kind) \in Stages
    BY <2>1 DEF Edge, afterOk, afterError, terminalSequence, Acked, Appends, Stages, Calls, Gone
  <2> QED BY <2>1, <2>2, <2>3, AnswerKinds DEF Kinds
<1>3. CASE \E m \in folding : FoldAndAcknowledge(m)
  <2> PICK m \in folding : FoldAndAcknowledge(m)
    BY <1>3
  <2>1. m.kind \in Appends
    BY DEF CallShape
  <2>2. answer(m, afterOk(m.kind)) /\ folding' = folding \ {m} /\ wal' = wal /\ up' = up
    BY DEF FoldAndAcknowledge, log
  <2>3. Edge(m.kind, afterOk(m.kind)) /\ afterOk(m.kind) \in Stages
    BY <2>1 DEF Edge, afterOk, terminalSequence, Appends, Stages, Calls, Gone
  <2> QED BY <2>2, <2>3, AnswerKinds
<1>4. CASE DaemonStarts
  BY <1>4 DEF DaemonStarts, log, Kinds, Quiet
<1> QED BY <1>1, <1>2, <1>3, <1>4 DEF Server

LEMMA StepKinds ==
  ASSUME TypeOK, CallShape, [Next]_vars
  PROVE  Kinds
<1>1. CASE UNCHANGED vars
  BY <1>1 DEF vars, log, Kinds, Quiet
<1>2. CASE Server
  BY <1>2, ServerKinds
<1>3. ASSUME NEW r \in Runs, CallFails(r)
      PROVE  Kinds
  <2>1. pc[r] \in Calls /\ goto(r, afterError(pc[r])) /\ UNCHANGED <<wal, up, folding>>
    BY <1>3 DEF CallFails, log
  <2>2. Edge(pc[r], afterError(pc[r])) /\ ~Acked(pc[r], afterError(pc[r])) /\ afterError(pc[r]) \in Stages
    BY <2>1 DEF Edge, afterOk, afterError, terminalSequence, Acked, Appends, Stages, Calls, Gone
  <2> QED BY <2>1, <2>2, GotoKinds
<1>4. ASSUME NEW r \in Runs,
             \/ waitUnobserved(r) \/ launchObserved(r) \/ readIdentityFails(r) \/ writeAck(r)
             \/ readLaunchStatus(r) \/ waitFailedLaunch(r) \/ wait(r) \/ settleForDrain(r)
             \/ writeIdentity(r) \/ Run(r) \/ runUnobserved(r)
      PROVE  Kinds
  <2>1. UNCHANGED <<wal, up, folding>>
    BY <1>4 DEF waitUnobserved, launchObserved, readIdentityFails, writeAck, readLaunchStatus, waitFailedLaunch,
                  wait, settleForDrain, writeIdentity, Run, runUnobserved, log, shimStep
  <2>2. \/ UNCHANGED <<pc, inbox>>
        \/ \E q \in Stages : goto(r, q) /\ Edge(pc[r], q) /\ ~Acked(pc[r], q)
    BY <1>4 DEF waitUnobserved, launchObserved, readIdentityFails, writeAck, readLaunchStatus, waitFailedLaunch,
                  wait, settleForDrain, writeIdentity, Run, runUnobserved, launchFailure,
                  Edge, Acked, Appends, Stages, Calls, Gone
  <2>3. CASE UNCHANGED <<pc, inbox>>
    BY <2>1, <2>3 DEF Kinds, Quiet
  <2> QED BY <2>1, <2>2, <2>3, GotoKinds
<1>5. ASSUME NEW r \in Runs, ShimDeclined(r) \/ ShimMarks(r) \/ ShimExecs(r) \/ ChildExits(r) \/ ShimDies(r)
      PROVE  Kinds
  BY <1>5 DEF ShimDeclined, ShimMarks, ShimExecs, ChildExits, ShimDies, shimStep, log, Kinds, Quiet
<1>6. ASSUME NEW r \in Runs, WrapperDies(r)
      PROVE  Kinds
  <2>1. Move(r, "crashed")
    BY <1>6 DEF WrapperDies, Move, Edge, Acked, afterOk, terminalSequence, Appends, Calls, shimStep, log
  <2> QED BY <2>1 DEF Kinds, Stages, Gone
<1>7. CASE DaemonDies \/ Compact
  BY <1>7 DEF DaemonDies, Compact, log, Kinds, Quiet
<1>8. ASSUME NEW s \in Sessions, StartSession(s) \/ Decide(s)
      PROVE  Kinds
  BY <1>8 DEF StartSession, Decide, log, Kinds, Quiet
<1>9. ASSUME NEW s \in Sessions, CaptureUsage(s)
      PROVE  Kinds
  <2>1. Frame("USAGE", sessionRuns[s], s, FALSE) \in Frames
    BY DEF Frame, TypeOK, Frames
  <2>2. Captured(Frame("USAGE", sessionRuns[s], s, FALSE))
    BY <1>9 DEF CaptureUsage, Captured, runContextFor, Frame
  <2> QED BY <2>1, <2>2 DEF Kinds
<1>10. ASSUME NEW s \in Sessions, CaptureSessionLifecycle(s)
      PROVE  Kinds
  <2>1. Frame("SESSION", hook[s].run, s, FALSE) \in Frames
    BY DEF Frame, TypeOK, Frames
  <2>2. Captured(Frame("SESSION", hook[s].run, s, FALSE)) \/ Quiet
    BY <1>10 DEF CaptureSessionLifecycle, Captured, Quiet, Frame
  <2> QED BY <2>1, <2>2 DEF Kinds
<1>11. ASSUME NEW r \in Runs, NEW s \in Sessions, discoverAndBind(r, s)
       PROVE  Kinds
  BY <1>11 DEF discoverAndBind, log, Kinds, Quiet
<1> QED BY <1>1, <1>2, <1>3, <1>4, <1>5, <1>6, <1>7, <1>8, <1>9, <1>10, <1>11
        DEF Next, Progress, Wrapper, Shim, Hook
----------------------------------------------------------------------------
(* Calls and records *)

\* What a new frame adds.
LEMMA AppendHas ==
  ASSUME TypeOK, NEW f \in Frames, wal' = Append(wal, f), NEW k, NEW r
  PROVE  Has(k, r)' <=> Has(k, r) \/ (f.kind = k /\ f.run = r)
<1>1. wal \in Seq(Frames) /\ Len(wal) \in Nat
  BY DEF TypeOK, Frames
<1>2. DOMAIN wal = 1..Len(wal) /\ DOMAIN wal' = 1..(Len(wal) + 1) /\ wal'[Len(wal) + 1] = f
  BY <1>1
<1>3. \A i \in 1..Len(wal) : wal'[i] = wal[i]
  BY <1>1
<1>4. Has(k, r) => Has(k, r)'
  BY <1>1, <1>2, <1>3 DEF Has
<1>5. f.kind = k /\ f.run = r => Has(k, r)'
  BY <1>1, <1>2 DEF Has
<1>6. Has(k, r)' => Has(k, r) \/ (f.kind = k /\ f.run = r)
  BY <1>1, <1>2, <1>3 DEF Has
<1> QED BY <1>4, <1>5, <1>6

\* A wrapper never returns to where it made a call.
LEMMA AfterClosed ==
  ASSUME NEW k \in Calls, NEW p \in Stages, NEW q \in Stages
  PROVE  /\ k \in After(k)
         /\ p \in After(k) /\ Edge(p, q) => q \in After(k)
         /\ Edge(p, k) => p \notin After(k)
<1> USE DEF After, Edge, Calls, Gone, Running, Ending
<1>1. k \in After(k)
  OBVIOUS
<1>2. Edge(p, k) => p \notin After(k)
  OBVIOUS
<1>3. ASSUME p \in After(k), Edge(p, q)
      PROVE  q \in After(k)
  <2>1. CASE k = "RESERVE"
    BY <1>3, <2>1
  <2>2. CASE k = "STARTED"
    BY <1>3, <2>2
  <2>3. CASE k = "REGISTERED"
    BY <1>3, <2>3
  <2>4. CASE k \notin {"RESERVE", "STARTED", "REGISTERED"}
    BY <1>3, <2>4
  <2> QED BY <2>1, <2>2, <2>3, <2>4
<1> QED BY <1>1, <1>2, <1>3

\* What a step does to one call of one run: records and calls are only added, a call by the wrapper
\* that goes there, and an acknowledgement means the handler is done.
LEMMA StepSends ==
  ASSUME TypeOK, CallShape, Kinds, NEW r \in Runs
  PROVE  /\ pc'[r] = pc[r] \/ Edge(pc[r], pc'[r])
         /\ \A k \in Calls :
              /\ Has(k, r) => Has(k, r)'
              /\ At(k, r)' => At(k, r) \/ (pc'[r] = k /\ Edge(pc[r], k))
              /\ Sent(k, r)' => Sent(k, r) \/ (pc'[r] = k /\ Edge(pc[r], k))
              /\ Served(k, r) => Served(k, r)'
         /\ \A k \in Appends : pc[r] = k /\ pc'[r] = afterOk(k) => Served(k, r)'
<1> DEFINE Goes(k) == pc'[r] = k /\ Edge(pc[r], k)
<1>0. pc \in [Runs -> Stages] /\ inbox \cup folding \subseteq Requests /\ pc[r] \in Stages
  BY DEF TypeOK, Stages, Requests
<1>1. pc'[r] = pc[r] \/ Edge(pc[r], pc'[r])
  BY <1>0 DEF Kinds, Move, Recorded, Captured, Quiet
<1>2. ASSUME NEW k \in Calls
      PROVE  /\ Has(k, r) => Has(k, r)'
             /\ At(k, r)' => At(k, r) \/ Goes(k)
             /\ Has(k, r)' => Sent(k, r)
  <2>1. ASSUME NEW x \in Runs, NEW q \in Stages, Move(x, q)
        PROVE  /\ Has(k, r) => Has(k, r)'
               /\ At(k, r)' => At(k, r) \/ Goes(k)
               /\ Has(k, r)' => Sent(k, r)
    <3>1. Has(k, r)' <=> Has(k, r)
      BY <2>1 DEF Move, Has
    <3>2. At(k, r)' => At(k, r) \/ Goes(k)
      <4>1. SUFFICES ASSUME At(k, r)', ~At(k, r)
                     PROVE  Goes(k)
        OBVIOUS
      <4>2. [run |-> r, kind |-> k] = [run |-> x, kind |-> q]
        BY <2>1, <4>1 DEF Move, At
      <4>3. r = x /\ k = q
        <5>1. [run |-> r, kind |-> k].run = [run |-> x, kind |-> q].run
              /\ [run |-> r, kind |-> k].kind = [run |-> x, kind |-> q].kind
          BY <4>2
        <5> QED BY <5>1
      <4> QED BY <1>0, <2>1, <4>3 DEF Move
    <3> QED BY <3>1, <3>2 DEF Sent
  <2>2. ASSUME NEW m \in inbox, Recorded(m)
        PROVE  /\ Has(k, r) => Has(k, r)'
               /\ At(k, r)' => At(k, r)
               /\ Has(k, r)' => Sent(k, r)
    <3>1. m \in Requests
      BY <1>0
    <3>2. Frame(m.kind, m.run, None, pc[m.run] # m.kind) \in Frames
      BY <2>2, <3>1 DEF Recorded, Frame, Frames, Requests
    <3>3. Has(k, r)' <=> Has(k, r) \/ (m.kind = k /\ m.run = r)
      BY <2>2, <3>2, AppendHas DEF Recorded, Frame
    <3>4. At(k, r)' => At(k, r)
      BY <2>2 DEF Recorded, At
    <3>5. m.kind = k /\ m.run = r => At(k, r)
      BY <3>1 DEF Requests, At
    <3> QED BY <3>3, <3>4, <3>5 DEF Sent
  <2>3. ASSUME NEW f \in Frames, Captured(f)
        PROVE  /\ Has(k, r) <=> Has(k, r)'
               /\ At(k, r)' <=> At(k, r)
    <3>1. Has(k, r)' <=> Has(k, r) \/ (f.kind = k /\ f.run = r)
      BY <2>3, AppendHas DEF Captured
    <3>2. f.kind # k
      BY <2>3 DEF Captured, Calls
    <3> QED BY <2>3, <3>1, <3>2 DEF Captured, At
  <2>4. CASE Quiet
    BY <2>4 DEF Quiet, At, Has, Sent
  <2> QED BY <2>1, <2>2, <2>3, <2>4 DEF Kinds, Sent
<1>3. ASSUME NEW k \in Calls, Served(k, r)
      PROVE  Served(k, r)'
  <2>1. pc[r] \in After(k)
    BY <1>3 DEF CallShape, Sent, Served
  <2>2. ~Goes(k)
    BY <1>0, <2>1, AfterClosed
  <2> QED BY <1>2, <1>3, <2>2 DEF Served
<1>4. ASSUME NEW k \in Appends, pc[r] = k, pc'[r] = afterOk(k)
      PROVE  Served(k, r)'
  <2>1. k # pc'[r] /\ k \in Calls
    BY <1>4 DEF afterOk, terminalSequence, Appends, Calls
  <2>2. PICK x \in Runs, q \in Stages : Move(x, q)
    BY <1>4, <2>1 DEF Kinds, Recorded, Captured, Quiet
  <2>3. x = r /\ q = pc'[r]
    BY <1>0, <1>4, <2>1, <2>2 DEF Move
  <2>4. [run |-> r, kind |-> k] \in folding \ folding'
    BY <1>4, <2>2, <2>3 DEF Move, Acked
  <2>5. Has(k, r) /\ [run |-> r, kind |-> k] \notin inbox
    BY <2>4 DEF CallShape
  <2>6. [run |-> r, kind |-> k] \notin inbox'
    <3>1. [run |-> r, kind |-> k] # [run |-> r, kind |-> pc'[r]]
      <4>1. [run |-> r, kind |-> k].kind # [run |-> r, kind |-> pc'[r]].kind
        BY <2>1
      <4> QED BY <4>1
    <3> QED BY <2>2, <2>3, <2>5, <3>1 DEF Move
  <2>7. Has(k, r)'
    BY <2>2, <2>5 DEF Move, Has
  <2> QED BY <2>4, <2>6, <2>7 DEF Served, At
<1> QED BY <1>1, <1>2, <1>3, <1>4 DEF Sent
\* Every step keeps CallShape.
LEMMA CallsKept ==
  ASSUME TypeOK, CallShape, Kinds, TypeOK'
  PROVE  CallShape'
<1>0. /\ pc \in [Runs -> Stages] /\ pc' \in [Runs -> Stages]
      /\ inbox \cup folding \subseteq Requests /\ inbox' \cup folding' \subseteq Requests
  BY DEF TypeOK, Stages, Requests
<1>1. ~up' => inbox' = {} /\ folding' = {}
  <2>1. ASSUME NEW r \in Runs, NEW q \in Stages, Move(r, q), ~up'
        PROVE  inbox' = {} /\ folding' = {}
    BY <2>1 DEF Move, CallShape
  <2>2. ASSUME NEW m \in inbox, Recorded(m)
        PROVE  up'
    BY <2>2 DEF Recorded, CallShape
  <2>3. ASSUME NEW f \in Frames, Captured(f), ~up'
        PROVE  inbox' = {} /\ folding' = {}
    BY <2>3 DEF Captured, CallShape
  <2>4. CASE Quiet
    BY <2>4 DEF Quiet, CallShape
  <2> QED BY <2>1, <2>2, <2>3, <2>4 DEF Kinds
<1>2. ASSUME NEW m \in inbox'
      PROVE  ~Has(m.kind, m.run)' /\ m \notin folding'
  <2>0. m \in Requests /\ m.run \in Runs /\ m.kind \in Calls /\ m = [run |-> m.run, kind |-> m.kind]
    BY <1>0 DEF Requests
  <2>1. ASSUME NEW r \in Runs, NEW q \in Stages, Move(r, q)
        PROVE  ~Has(m.kind, m.run)' /\ m \notin folding'
    <3>1. wal' = wal /\ folding' \subseteq folding
      BY <2>1 DEF Move
    <3>2. CASE m \in inbox
      BY <3>1, <3>2 DEF CallShape, Has
    <3>3. CASE m \notin inbox
      <4>1. m = [run |-> r, kind |-> q] /\ q \in Calls
        BY <2>1, <3>3 DEF Move
      <4>2. m.run = r /\ m.kind = q /\ Edge(pc[r], q) /\ pc[r] \in Stages
        BY <1>0, <2>1, <4>1 DEF Move
      <4>3. ~Sent(q, r)
        BY <4>1, <4>2, AfterClosed DEF CallShape
      <4> QED BY <3>1, <4>1, <4>2, <4>3 DEF Sent, At, Has
    <3> QED BY <3>2, <3>3
  <2>2. ASSUME NEW n \in inbox, Recorded(n)
        PROVE  ~Has(m.kind, m.run)' /\ m \notin folding'
    <3>1. n \in Requests /\ n = [run |-> n.run, kind |-> n.kind]
      BY <1>0 DEF Requests
    <3>2. m \in inbox /\ m # n /\ folding' = folding \cup {n}
      BY <2>2 DEF Recorded
    <3>3. Frame(n.kind, n.run, None, pc[n.run] # n.kind) \in Frames
      BY <2>2, <3>1 DEF Recorded, Frame, Frames, Requests
    <3>4. Has(m.kind, m.run)' <=> Has(m.kind, m.run) \/ (n.kind = m.kind /\ n.run = m.run)
      BY <2>2, <3>3, AppendHas DEF Recorded, Frame
    <3> QED BY <2>0, <3>1, <3>2, <3>4 DEF CallShape
  <2>3. ASSUME NEW f \in Frames, Captured(f)
        PROVE  ~Has(m.kind, m.run)' /\ m \notin folding'
    <3>1. Has(m.kind, m.run)' <=> Has(m.kind, m.run) \/ (f.kind = m.kind /\ f.run = m.run)
      BY <2>3, AppendHas DEF Captured
    <3> QED BY <2>0, <2>3, <3>1 DEF Captured, CallShape, Calls
  <2>4. CASE Quiet
    BY <2>4 DEF Quiet, CallShape, Has
  <2> QED BY <2>1, <2>2, <2>3, <2>4 DEF Kinds
<1>3. ASSUME NEW m \in folding'
      PROVE  m.kind \in Appends /\ Has(m.kind, m.run)'
  <2>0. m.run \in Runs /\ m.kind \in Calls
    BY <1>0 DEF Requests
  <2>1. CASE m \in folding
    BY <2>0, <2>1, StepSends DEF CallShape
  <2>2. CASE m \notin folding
    <3>1. m \in inbox /\ Recorded(m)
      BY <2>2 DEF Kinds, Move, Recorded, Captured, Quiet
    <3>2. Frame(m.kind, m.run, None, pc[m.run] # m.kind) \in Frames
      BY <2>0, <3>1 DEF Recorded, Frame, Frames
    <3>3. Has(m.kind, m.run)'
      BY <3>1, <3>2, AppendHas DEF Recorded, Frame
    <3> QED BY <3>1, <3>3 DEF Recorded
  <2> QED BY <2>1, <2>2
<1>4. ASSUME NEW r \in Runs, NEW kind \in Calls, Sent(kind, r)'
      PROVE  pc'[r] \in After(kind)
  <2>1. CASE pc'[r] = kind
    BY <1>0, <2>1, AfterClosed
  <2>2. CASE pc'[r] # kind
    <3>1. pc[r] \in After(kind)
      BY <1>4, <2>2, StepSends DEF CallShape
    <3>2. pc'[r] = pc[r] \/ Edge(pc[r], pc'[r])
      BY StepSends
    <3> QED BY <1>0, <3>1, <3>2, AfterClosed
  <2> QED BY <2>1, <2>2
<1>5. ASSUME NEW r \in Runs
      PROVE  /\ pc'[r] \in {"launch", "identity", "REGISTERED", "ENDED", "RELEASE"} \cup Running => Served("STARTED", r)'
             /\ \A kind \in Appends \ {"STARTED"} : Sent(kind, r)' => Served("STARTED", r)'
             /\ pc'[r] \in {"ack", "status", "wait", "EXITED", "settle"} => Served("REGISTERED", r)'
             /\ pc'[r] = "RELEASE" => Has("ENDED", r)'
  <2> DEFINE Past == {"launch", "identity", "REGISTERED", "ENDED", "RELEASE"} \cup Running
             Known == {"ack", "status", "wait", "EXITED", "settle"}
  <2>0. {"STARTED", "REGISTERED", "ENDED"} \subseteq Calls \cap Appends
    BY DEF Calls, Appends
  <2>1. pc'[r] = pc[r] \/ Edge(pc[r], pc'[r])
    BY StepSends
  <2>2. pc'[r] \in Past => Served("STARTED", r)'
    <3>1. SUFFICES ASSUME pc'[r] \in Past
                   PROVE  Served("STARTED", r)'
      OBVIOUS
    <3>2. pc[r] \in Past \/ (pc[r] = "STARTED" /\ pc'[r] = "launch")
      BY <2>1, <3>1 DEF Edge, Running
    <3>3. pc[r] \in Past => Served("STARTED", r)
      BY DEF CallShape
    <3>4. afterOk("STARTED") = "launch"
      BY DEF afterOk
    <3> QED BY <2>0, <3>2, <3>3, <3>4, StepSends
  <2>3. ASSUME NEW kind \in Appends \ {"STARTED"}, Sent(kind, r)'
        PROVE  Served("STARTED", r)'
    <3>1. kind \in Calls
      BY DEF Appends, Calls
    <3>2. CASE Sent(kind, r)
      <4>1. Served("STARTED", r)
        BY <3>2 DEF CallShape
      <4> QED BY <2>0, <4>1, StepSends
    <3>3. CASE ~Sent(kind, r)
      <4>1. pc'[r] = kind
        BY <2>3, <3>1, <3>3, StepSends
      <4>2. pc'[r] \in Past
        BY <4>1 DEF Appends, Running
      <4> QED BY <2>2, <4>2
    <3> QED BY <3>2, <3>3
  <2>4. pc'[r] \in Known => Served("REGISTERED", r)'
    <3>1. SUFFICES ASSUME pc'[r] \in Known
                   PROVE  Served("REGISTERED", r)'
      OBVIOUS
    <3>2. pc[r] \in Known \/ (pc[r] = "REGISTERED" /\ pc'[r] = "ack")
      BY <2>1, <3>1 DEF Edge
    <3>3. pc[r] \in Known => Served("REGISTERED", r)
      BY DEF CallShape
    <3>4. afterOk("REGISTERED") = "ack"
      BY DEF afterOk
    <3> QED BY <2>0, <3>2, <3>3, <3>4, StepSends
  <2>5. pc'[r] = "RELEASE" => Has("ENDED", r)'
    <3>1. SUFFICES ASSUME pc'[r] = "RELEASE"
                   PROVE  Has("ENDED", r)'
      OBVIOUS
    <3>2. pc[r] = "RELEASE" \/ (pc[r] = "ENDED" /\ pc'[r] = "RELEASE")
      BY <2>1, <3>1 DEF Edge, Gone
    <3>3. pc[r] = "RELEASE" => Has("ENDED", r)
      BY DEF CallShape
    <3>4. afterOk("ENDED") = "RELEASE"
      BY DEF afterOk, terminalSequence
    <3>5. CASE pc[r] = "RELEASE"
      BY <2>0, <3>3, <3>5, StepSends
    <3>6. CASE pc[r] = "ENDED"
      <4>1. Served("ENDED", r)'
        BY <2>0, <3>1, <3>4, <3>6, StepSends
      <4> QED BY <4>1 DEF Served
    <3> QED BY <3>2, <3>5, <3>6
  <2> QED BY <2>2, <2>3, <2>4, <2>5
<1> QED BY <1>1, <1>2, <1>3, <1>4, <1>5 DEF CallShape
\* Every step keeps TerminalOrder: a record its wrapper waits for follows only what that wrapper
\* recorded before.
LEMMA OrderKept ==
  ASSUME TypeOK, CallShape, TerminalOrder, Kinds
  PROVE  TerminalOrder'
<1>0. wal \in Seq(Frames) /\ Len(wal) \in Nat /\ inbox \subseteq Requests
  BY DEF TypeOK, Frames, Requests
<1>1. CASE wal' = wal
  BY <1>1 DEF TerminalOrder
<1>2. ASSUME NEW f \in Frames, wal' = Append(wal, f),
             ASSUME f.kind \in Appends, ~f.late
             PROVE  f.run \in Runs /\ pc[f.run] = f.kind /\ ~Has(f.kind, f.run)
      PROVE  TerminalOrder'
  <2>1. DOMAIN wal = 1..Len(wal) /\ DOMAIN wal' = 1..(Len(wal) + 1) /\ wal'[Len(wal) + 1] = f
    BY <1>0, <1>2
  <2>2. \A i \in 1..Len(wal) : wal'[i] = wal[i]
    BY <1>0, <1>2
  <2>3. SUFFICES ASSUME NEW i \in DOMAIN wal', NEW j \in DOMAIN wal', i < j, wal'[i].run = wal'[j].run,
                        wal'[i].kind \in Appends, wal'[j].kind \in Appends, ~wal'[j].late
                 PROVE  Order(wal'[i].kind) < Order(wal'[j].kind)
    BY DEF TerminalOrder
  <2>4. i \in 1..Len(wal) /\ wal'[i] = wal[i]
    BY <1>0, <2>1, <2>2, <2>3
  <2>5. CASE j \in 1..Len(wal)
    BY <2>1, <2>2, <2>3, <2>4, <2>5 DEF TerminalOrder
  <2>6. CASE j = Len(wal) + 1
    <3>1. wal'[j] = f
      BY <2>1, <2>6
    <3>2. f.run \in Runs /\ pc[f.run] = f.kind /\ ~Has(f.kind, f.run) /\ wal[i].run = f.run /\ wal[i].kind # f.kind
      BY <1>2, <2>1, <2>3, <2>4, <3>1 DEF Has
    <3>3. Has(wal[i].kind, f.run)
      BY <2>1, <2>4, <3>2 DEF Has
    <3>4. wal[i].kind \in Calls /\ wal[i].kind \in Appends /\ f.kind \in Appends
      BY <2>3, <2>4, <3>1 DEF Appends, Calls
    <3>5. f.kind \in After(wal[i].kind)
      BY <3>2, <3>3, <3>4 DEF CallShape, Sent
    <3>6. \A k, l \in Appends : l \in After(k) /\ k # l => Order(k) < Order(l)
      BY DEF Appends, After, Order, Running, Ending, Gone
    <3> QED BY <2>4, <3>1, <3>2, <3>4, <3>5, <3>6
  <2> QED BY <1>0, <2>1, <2>5, <2>6
<1>3. ASSUME NEW m \in inbox, Recorded(m)
      PROVE  TerminalOrder'
  <2> DEFINE f == Frame(m.kind, m.run, None, pc[m.run] # m.kind)
  <2>1. m.run \in Runs /\ m.kind \in Appends /\ ~Has(m.kind, m.run)
    BY <1>0, <1>3 DEF Requests, Recorded, CallShape
  <2>2. f \in Frames /\ f.kind = m.kind /\ f.run = m.run /\ f.late = (pc[m.run] # m.kind) /\ wal' = Append(wal, f)
    BY <1>3, <2>1 DEF Frame, Frames, Recorded
  <2>3. f.kind \in Appends /\ ~f.late => f.run \in Runs /\ pc[f.run] = f.kind /\ ~Has(f.kind, f.run)
    BY <2>1, <2>2
  <2> HIDE DEF f
  <2> QED BY <1>2, <2>2, <2>3
<1>4. ASSUME NEW f \in Frames, Captured(f)
      PROVE  TerminalOrder'
  <2>1. f.kind \notin Appends /\ wal' = Append(wal, f)
    BY <1>4 DEF Captured, Appends
  <2> QED BY <1>2, <2>1
<1> QED BY <1>1, <1>3, <1>4 DEF Kinds, Move, Quiet
----------------------------------------------------------------------------
(* Wrapper, shim and child *)

\* A step that leaves a run's wrapper and child alone.
LEMMA ChildUndisturbed ==
  ASSUME TypeOK, CallShape, Kinds, NEW x \in Runs, ChildOf(x),
         pc'[x] = pc[x], proc'[x] = proc[x], status'[x] = status[x], x \in image' <=> x \in image,
         hit \subseteq hit'
  PROVE  ChildOf(x)'
<1>1. \A k \in Calls : (Sent(k, x)' => Sent(k, x)) /\ (Served(k, x) => Served(k, x)')
  <2>1. \A k \in Calls : ~Edge(k, k)
    BY DEF Edge, Calls, Gone
  <2> QED BY <2>1, StepSends
<1>2. {"STARTED", "REGISTERED", "EXITED", "LAUNCH_FAILED"} \subseteq Calls
  BY DEF Calls
<1> QED BY <1>1, <1>2 DEF ChildOf

\* A step of a run's shim or child alone.
LEMMA ChildSteps ==
  ASSUME TypeOK, CallShape, Kinds, NEW r \in Runs, ChildOf(r), hit \subseteq hit',
         \/ ShimDeclined(r) \/ ShimMarks(r) \/ ShimExecs(r) \/ ChildExits(r) \/ ShimDies(r)
         \/ writeIdentity(r) /\ pc[r] # "identity"
  PROVE  ChildOf(r)'
<1>0. pc' = pc /\ pc[r] \in Stages
  BY DEF ShimDeclined, ShimMarks, ShimExecs, ChildExits, ShimDies, writeIdentity, TypeOK, Stages
<1>1. \A k \in Calls : (Sent(k, r)' => Sent(k, r)) /\ (Served(k, r) => Served(k, r)')
  <2>1. \A k \in Calls : ~Edge(k, k)
    BY DEF Edge, Calls, Gone
  <2> QED BY <1>0, <2>1, StepSends
<1>2. {"STARTED", "REGISTERED", "EXITED", "LAUNCH_FAILED"} \subseteq Calls
  BY DEF Calls
<1>3. proc \in [Runs -> {"none", "spawned", "reported", "acked", "marked", "image", "dead"}]
      /\ status \in [Runs -> Seq({"preExec", "execFailed"})]
  BY DEF TypeOK
<1>10. <<"execFailed">> # <<"preExec">> /\ <<>> # <<"preExec">>
  OBVIOUS
<1>4. CASE ShimDeclined(r)
  <2>1. proc[r] = "reported" /\ proc'[r] = "dead" /\ status' = status /\ image' = image
    BY <1>3, <1>4 DEF ShimDeclined
  <2> QED BY <1>0, <1>1, <1>2, <1>10, <2>1 DEF ChildOf
<1>5. CASE writeIdentity(r) /\ pc[r] # "identity"
  <2>1. proc[r] = "spawned" /\ proc'[r] = "dead" /\ status' = status /\ image' = image
    BY <1>3, <1>5 DEF writeIdentity
  <2> QED BY <1>0, <1>1, <1>2, <1>10, <2>1 DEF ChildOf
<1>6. CASE ChildExits(r)
  <2>1. proc[r] = "image" /\ proc'[r] = "dead" /\ status' = status /\ image' = image
    BY <1>3, <1>6 DEF ChildExits
  <2> QED BY <1>0, <1>1, <1>2, <1>10, <2>1 DEF ChildOf
<1>7. CASE ShimDies(r)
  <2>1. /\ proc[r] \in {"spawned", "reported", "acked", "marked"}
        /\ proc'[r] = "dead" /\ status' = status /\ image' = image
        /\ proc[r] = "marked" => r \in hit'
    BY <1>3, <1>7 DEF ShimDies, Fault
  <2> QED BY <1>0, <1>1, <1>2, <1>10, <2>1 DEF ChildOf
<1>8. CASE ShimMarks(r)
  <2>1. /\ proc[r] = "acked" /\ image' = image
        /\ \/ proc'[r] = "dead" /\ status'[r] \in {<<"execFailed">>, status[r]}
           \/ proc'[r] = "marked" /\ status'[r] = <<"preExec">>
    BY <1>3, <1>8 DEF ShimMarks
  <2>2. status[r] = <<>> /\ r \notin image
    BY <2>1 DEF ChildOf
  <2>3. <<"execFailed">> # <<"preExec">> /\ <<>> # <<"preExec">>
    OBVIOUS
  <2> QED BY <1>0, <1>1, <1>2, <2>1, <2>2, <2>3 DEF ChildOf
<1>9. CASE ShimExecs(r)
  <2>1. /\ proc[r] = "marked" /\ status[r] = <<"preExec">> /\ r \notin image
        /\ Served("STARTED", r) /\ Served("REGISTERED", r)
    BY <1>9 DEF ShimExecs, ChildOf
  <2>2. CASE proc'[r] = "image" /\ image' = image \cup {r} /\ status' = status
    BY <1>0, <1>1, <1>2, <2>1, <2>2 DEF ChildOf
  <2>3. CASE proc'[r] = "dead" /\ image' = image /\ status'[r] = Append(<<"preExec">>, "execFailed")
    <3>1. Append(<<"preExec">>, "execFailed") # <<"preExec">>
      <4>1. Len(Append(<<"preExec">>, "execFailed")) = 2 /\ Len(<<"preExec">>) = 1
        OBVIOUS
      <4> QED BY <4>1
    <3> QED BY <1>0, <1>1, <1>2, <2>1, <2>3, <3>1 DEF ChildOf
  <2> QED BY <1>3, <1>9, <2>1, <2>2, <2>3 DEF ShimExecs
<1> QED BY <1>4, <1>5, <1>6, <1>7, <1>8, <1>9

\* A step of a run's wrapper that leaves the child alone.
LEMMA ChildMoves ==
  ASSUME TypeOK, CallShape, Kinds, NEW x \in Runs, ChildOf(x),
         Edge(pc[x], pc'[x]), pc'[x] \in Stages, pc'[x] \notin {"bare", "identity", "status"},
         pc[x] \in {"identity", "declined", "wait", "bare"} /\ pc'[x] # "crashed" => proc[x] = "dead",
         pc[x] = "status" => pc'[x] = "crashed",
         proc'[x] = proc[x], status'[x] = status[x], x \in image' <=> x \in image,
         hit \subseteq hit'
  PROVE  ChildOf(x)'
<1>0. pc[x] \in Stages
  BY DEF TypeOK, Stages
<1>1. \A k \in Calls : (Sent(k, x)' => Sent(k, x) \/ pc'[x] = k) /\ (Served(k, x) => Served(k, x)')
  BY StepSends
<1>2. {"STARTED", "REGISTERED", "EXITED", "LAUNCH_FAILED"} \subseteq Calls /\ "crashed" \notin Calls
  BY DEF Calls
<1>3. CASE pc'[x] = "crashed"
  BY <1>1, <1>2, <1>3 DEF ChildOf
<1>4. CASE pc'[x] # "crashed"
  <2>1. \/ pc[x] \in {"RESERVE", "UNDO", "STARTED", "ABANDON", "idle"}
        \/ pc[x] = "launch" /\ pc'[x] = "ENDED"
        \/ pc[x] = "identity" /\ pc'[x] \in {"REGISTERED", "ENDED"} /\ proc[x] = "dead"
        \/ pc[x] \in {"REGISTERED", "ack"} /\ pc'[x] \in {"ack", "declined"}
        \/ pc[x] = "declined" /\ pc'[x] = "LAUNCH_FAILED" /\ proc[x] = "dead"
        \/ pc[x] = "wait" /\ pc'[x] = "EXITED" /\ proc[x] = "dead"
        \/ pc[x] \in {"EXITED", "settle"} /\ pc'[x] \in {"settle", "ENDED", "done"}
        \/ pc[x] \in {"LAUNCH_FAILED", "ENDED", "RELEASE"} /\ pc'[x] \in {"ENDED", "RELEASE", "done"}
        \/ pc[x] = "bare" /\ pc'[x] = "done" /\ proc[x] = "dead"
    BY <1>4 DEF Edge
  <2>2. pc[x] \in {"RESERVE", "UNDO", "STARTED", "ABANDON", "idle"} =>
          pc'[x] \in {"RESERVE", "UNDO", "STARTED", "ABANDON", "launch", "done"}
    BY <1>4 DEF Edge
  <2>3. proc'[x] # "image" \/ x \in image' \/ pc'[x] = "crashed"
    BY <2>1 DEF ChildOf
  <2>4. (Sent("LAUNCH_FAILED", x)' => proc[x] = "dead" /\ x \notin image) /\ (Sent("EXITED", x)' => x \in image \cup hit)
    BY <1>1, <1>2, <2>1, <2>2 DEF ChildOf
  <2>5. /\ proc[x] \in {"spawned", "reported"} => Served("STARTED", x)'
        /\ proc[x] \in {"acked", "marked"} \/ x \in image => Served("STARTED", x)' /\ Served("REGISTERED", x)'
    BY <1>1, <1>2 DEF ChildOf
  <2>6. /\ pc'[x] \in {"idle", "RESERVE", "UNDO", "STARTED", "ABANDON", "launch"} => proc'[x] = "none"
        /\ pc'[x] \in {"REGISTERED", "ack", "declined"} => proc'[x] \in {"reported", "dead"} /\ x \notin image'
        /\ pc'[x] = "LAUNCH_FAILED" => proc'[x] = "dead" /\ x \notin image'
        /\ pc'[x] \in {"EXITED", "settle"} => proc'[x] = "dead" /\ x \in image' \cup hit'
        /\ pc'[x] \in {"ENDED", "RELEASE"} => proc'[x] \in {"none", "dead"}
        /\ pc'[x] # "wait"
    BY <2>1, <2>2 DEF ChildOf
  <2> QED BY <1>4, <2>3, <2>4, <2>5, <2>6 DEF ChildOf
<1> QED BY <1>3, <1>4
\* The steps of a run's wrapper that also change the child or its pipes.
LEMMA ChildLaunches ==
  ASSUME TypeOK, CallShape, Kinds, NEW r \in Runs, ChildOf(r), hit \subseteq hit',
         \/ launchObserved(r) \/ writeAck(r) \/ readLaunchStatus(r) \/ runUnobserved(r)
         \/ writeIdentity(r) /\ pc[r] = "identity"
  PROVE  ChildOf(r)'
<1>0. /\ pc \in [Runs -> Stages] /\ status \in [Runs -> Seq({"preExec", "execFailed"})]
      /\ proc \in [Runs -> {"none", "spawned", "reported", "acked", "marked", "image", "dead"}]
  BY DEF TypeOK, Stages
<1>1. \A k \in Calls : (Sent(k, r)' => Sent(k, r) \/ pc'[r] = k) /\ (Served(k, r) => Served(k, r)')
  BY StepSends
<1>2. {"STARTED", "REGISTERED", "EXITED", "LAUNCH_FAILED"} \subseteq Calls
  BY DEF Calls
<1>3. CASE runUnobserved(r)
  <2>1. pc[r] = "idle" /\ pc'[r] = "bare" /\ proc'[r] = "image" /\ UNCHANGED <<status, image>>
    BY <1>0, <1>3 DEF runUnobserved, goto
  <2>2. \A k \in Calls : "idle" \notin After(k) /\ k # "bare"
    BY DEF Calls, After, Gone, Running, Ending
  <2>3. \A k \in Calls : ~Sent(k, r) /\ ~Sent(k, r)'
    BY <1>1, <2>1, <2>2 DEF CallShape
  <2>4. status[r] = <<>> /\ r \notin image
    BY <2>1 DEF ChildOf
  <2> QED BY <1>2, <2>1, <2>3, <2>4 DEF ChildOf
<1>4. CASE launchObserved(r)
  <2>1. /\ pc[r] = "launch" /\ UNCHANGED <<status, image>>
        /\ \/ pc'[r] = "identity" /\ proc'[r] = "spawned"
           \/ pc'[r] = "ENDED" /\ proc'[r] = proc[r]
    BY <1>0, <1>4 DEF launchObserved, goto, launchFailure
  <2>2. proc[r] = "none" /\ status[r] = <<>> /\ r \notin image
    BY <2>1 DEF ChildOf
  <2>3. Served("STARTED", r)
    BY <2>1 DEF CallShape
  <2> QED BY <1>1, <1>2, <2>1, <2>2, <2>3 DEF ChildOf
<1>5. CASE writeIdentity(r) /\ pc[r] = "identity"
  <2>1. pc'[r] = "REGISTERED" /\ proc[r] = "spawned" /\ proc'[r] = "reported" /\ UNCHANGED <<status, image>>
    BY <1>0, <1>5 DEF writeIdentity, goto
  <2> QED BY <1>1, <1>2, <2>1 DEF ChildOf
<1>6. CASE writeAck(r)
  <2>1. /\ pc[r] = "ack" /\ UNCHANGED <<status, image>>
        /\ \/ pc'[r] = "status" /\ proc[r] = "reported" /\ proc'[r] = "acked"
           \/ pc'[r] = "declined" /\ proc[r] # "reported" /\ proc'[r] = proc[r]
    BY <1>0, <1>6 DEF writeAck, goto
  <2>2. Served("STARTED", r) /\ Served("REGISTERED", r)
    BY <2>1 DEF CallShape, Running
  <2> QED BY <1>1, <1>2, <2>1, <2>2 DEF ChildOf
<1>7. CASE readLaunchStatus(r)
  <2>1. /\ pc[r] = "status" /\ status'[r] = <<>> /\ UNCHANGED <<proc, image>>
        /\ pc'[r] = "wait" \/ pc'[r] = "declined"
    BY <1>0, <1>7 DEF readLaunchStatus, goto
  <2>2. proc[r] \in {"acked", "marked", "image", "dead"} /\ (proc[r] = "image" => r \in image)
    BY <2>1 DEF ChildOf
  <2>3. pc'[r] = "wait" => proc[r] \in {"image", "dead"} /\ r \in image \cup hit
    <3>1. pc'[r] = "wait" => launched(r)
      BY <1>0, <1>7 DEF readLaunchStatus, goto
    <3> QED BY <2>2, <3>1 DEF launched, statusClosed, ChildOf
  <2>4. pc'[r] = "declined" => proc[r] = "dead" /\ r \notin image
    <3>1. SUFFICES ASSUME pc'[r] = "declined"
                   PROVE  proc[r] = "dead" /\ r \notin image
      OBVIOUS
    <3>2. /\ ~launched(r)
          /\ (status[r] = <<>> /\ statusClosed(r)) \/ (\E i \in DOMAIN status[r] : status[r][i] = "execFailed")
      BY <1>0, <1>7, <3>1 DEF readLaunchStatus, goto
    <3>3. /\ <<>> # <<"preExec">>
          /\ ~\E i \in DOMAIN <<>> : <<>>[i] = "execFailed"
          /\ ~\E i \in DOMAIN <<"preExec">> : <<"preExec">>[i] = "execFailed"
      OBVIOUS
    <3>4. CASE status[r] = <<>> /\ statusClosed(r)
      <4>1. r \notin image
        BY <2>1, <3>3, <3>4 DEF ChildOf
      <4> QED BY <2>2, <3>4, <4>1 DEF statusClosed
    <3>5. CASE \E i \in DOMAIN status[r] : status[r][i] = "execFailed"
      <4>1. status[r] # <<>> /\ status[r] # <<"preExec">>
        BY <3>3, <3>5
      <4> QED BY <2>1, <2>2, <4>1 DEF ChildOf
    <3> QED BY <3>2, <3>4, <3>5
  <2>5. <<>> # <<"preExec">> /\ pc'[r] \notin Calls
    BY <2>1 DEF Calls
  <2>6. \A k \in Calls : Sent(k, r)' => Sent(k, r)
    BY <1>1, <2>5
  <2> QED BY <1>1, <1>2, <2>1, <2>2, <2>3, <2>4, <2>5, <2>6 DEF ChildOf
<1> QED BY <1>3, <1>4, <1>5, <1>6, <1>7

\* The runs that faults touched are never forgotten.
LEMMA HitGrows ==
  ASSUME [Next]_vars
  PROVE  hit \subseteq hit'
<1>1. CASE UNCHANGED vars
  BY <1>1 DEF vars
<1>2. CASE Server
  BY <1>2 DEF Server, ReserveRun, ReleaseRun, AppendObservation, FoldAndAcknowledge, DaemonStarts, NoFault, Fault
<1>3. ASSUME NEW r \in Runs,
             \/ Wrapper(r) \/ Shim(r) \/ ChildExits(r)
             \/ Run(r) \/ runUnobserved(r) \/ ShimDies(r) \/ WrapperDies(r)
      PROVE  hit \subseteq hit'
  BY <1>3 DEF Wrapper, Shim, ChildExits, Run, runUnobserved, ShimDies, WrapperDies, waitUnobserved, CallFails,
         launchObserved, readIdentityFails, writeAck, readLaunchStatus, waitFailedLaunch, wait,
         settleForDrain, writeIdentity, ShimDeclined, ShimMarks, ShimExecs, NoFault, Fault
<1>4. CASE \/ DaemonDies \/ Compact
           \/ \E s \in Sessions : StartSession(s) \/ CaptureUsage(s) \/ Hook(s)
           \/ \E r \in Runs, s \in Sessions : discoverAndBind(r, s)
  BY <1>4 DEF DaemonDies, Compact, StartSession, CaptureUsage, Hook, Decide, CaptureSessionLifecycle,
         discoverAndBind, NoFault, Fault
<1> QED BY <1>1, <1>2, <1>3, <1>4 DEF Next, Progress

\* Every step keeps ChildShape.
LEMMA ChildKept ==
  ASSUME TypeOK, CallShape, ChildShape, Kinds, TypeOK', [Next]_vars
  PROVE  ChildShape'
<1>0. /\ pc \in [Runs -> Stages] /\ pc' \in [Runs -> Stages] /\ hit \subseteq hit'
      /\ proc \in [Runs -> {"none", "spawned", "reported", "acked", "marked", "image", "dead"}]
      /\ status \in [Runs -> Seq({"preExec", "execFailed"})]
  BY HitGrows DEF TypeOK, Stages
<1>1. SUFFICES ASSUME NEW x \in Runs, ChildOf(x)
               PROVE  ChildOf(x)'
  BY DEF ChildShape
<1>2. CASE UNCHANGED vars
  BY <1>0, <1>1, <1>2, ChildUndisturbed DEF vars, child
<1>3. CASE Server
  <2>1. UNCHANGED <<proc, status, image>>
    BY <1>3 DEF Server, ReserveRun, ReleaseRun, AppendObservation, FoldAndAcknowledge, DaemonStarts, child
  <2>2. pc'[x] = pc[x] \/ pc[x] \in Calls
    <3>1. ASSUME NEW m \in inbox \cup folding, NEW p, answer(m, p)
          PROVE  pc'[x] = pc[x] \/ pc[x] \in Calls
      <4>1. m.run \in Runs /\ m.kind \in Calls
        BY DEF TypeOK
      <4> QED BY <1>0, <3>1, <4>1 DEF answer
    <3>2. \/ pc' = pc
          \/ \E m \in inbox \cup folding : \E p \in {"UNDO", afterOk(m.kind), afterError(m.kind)} : answer(m, p)
      BY <1>3 DEF Server, ReserveRun, ReleaseRun, AppendObservation, FoldAndAcknowledge, DaemonStarts
    <3> QED BY <3>1, <3>2
  <2>3. CASE pc'[x] = pc[x]
    BY <1>0, <1>1, <2>1, <2>3, ChildUndisturbed
  <2>4. CASE pc[x] \in Calls /\ pc'[x] # pc[x]
    <3>1. Edge(pc[x], pc'[x])
      BY <2>4, StepSends
    <3>2. /\ pc'[x] \notin {"bare", "identity", "status"}
          /\ pc[x] \notin {"identity", "declined", "wait", "bare", "status"}
      BY <2>4, <3>1 DEF Edge, Calls
    <3> QED BY <1>0, <1>1, <2>1, <3>1, <3>2, ChildMoves
  <2> QED BY <2>2, <2>3, <2>4
<1>4. ASSUME NEW r \in Runs,
             \/ ShimDeclined(r) \/ ShimMarks(r) \/ ShimExecs(r) \/ ChildExits(r) \/ ShimDies(r)
             \/ writeIdentity(r) \/ launchObserved(r) \/ writeAck(r) \/ readLaunchStatus(r) \/ runUnobserved(r)
      PROVE  ChildOf(x)'
  <2>1. CASE x = r
    BY <1>0, <1>1, <1>4, <2>1, ChildSteps, ChildLaunches
  <2>2. CASE x # r
    <3>1. pc'[x] = pc[x] /\ proc'[x] = proc[x] /\ status'[x] = status[x] /\ (x \in image' <=> x \in image)
      BY <1>0, <1>4, <2>2 DEF ShimDeclined, ShimMarks, ShimExecs, ChildExits, ShimDies, writeIdentity,
         launchObserved, writeAck, readLaunchStatus, runUnobserved, goto
    <3> QED BY <1>0, <1>1, <3>1, ChildUndisturbed
  <2> QED BY <2>1, <2>2
<1>5. ASSUME NEW r \in Runs,
             \/ Run(r) \/ waitUnobserved(r) \/ CallFails(r) \/ readIdentityFails(r)
             \/ waitFailedLaunch(r) \/ wait(r) \/ settleForDrain(r) \/ WrapperDies(r)
      PROVE  ChildOf(x)'
  <2>1. UNCHANGED <<proc, status, image>>
    BY <1>5 DEF Run, waitUnobserved, CallFails, readIdentityFails, waitFailedLaunch, wait, settleForDrain,
         WrapperDies, child
  <2>2. CASE x # r
    <3>1. pc'[x] = pc[x]
      BY <1>0, <1>5, <2>2 DEF Run, waitUnobserved, CallFails, readIdentityFails, waitFailedLaunch, wait,
         settleForDrain, WrapperDies, goto
    <3> QED BY <1>0, <1>1, <2>1, <3>1, ChildUndisturbed
  <2>3. CASE x = r
    <3>1. \/ pc'[r] = "crashed" /\ pc[r] \notin {"idle"} \cup Gone
          \/ pc[r] \in Calls /\ pc'[r] = afterError(pc[r])
          \/ pc[r] = "idle" /\ pc'[r] = "RESERVE"
          \/ pc[r] = "bare" /\ proc[r] = "dead" /\ pc'[r] = "done"
          \/ pc[r] = "identity" /\ proc[r] = "dead" /\ pc'[r] = "ENDED"
          \/ pc[r] = "declined" /\ proc[r] = "dead" /\ pc'[r] = "LAUNCH_FAILED"
          \/ pc[r] = "wait" /\ proc[r] = "dead" /\ pc'[r] = "EXITED"
          \/ pc[r] = "settle" /\ pc'[r] = "ENDED"
      BY <1>0, <1>5 DEF Run, waitUnobserved, CallFails, readIdentityFails, waitFailedLaunch, wait,
         settleForDrain, WrapperDies, goto, launchFailure
    <3>2. pc[r] \in Calls => /\ afterError(pc[r]) \in {"ABANDON", "declined", "done"} 
                             /\ afterError(pc[r]) # pc[r] \/ pc[r] = "ABANDON"
                             /\ pc[r] \notin {"identity", "declined", "wait", "bare", "status"}
                             /\ Edge(pc[r], afterError(pc[r]))
      BY DEF afterError, Calls, Edge
    <3>3. Edge(pc[r], pc'[r])
      BY <3>1, <3>2 DEF Edge
    <3>4. /\ pc'[r] \notin {"bare", "identity", "status"}
          /\ pc[r] \in {"identity", "declined", "wait", "bare"} /\ pc'[r] # "crashed" => proc[r] = "dead"
          /\ pc[r] = "status" => pc'[r] = "crashed"
      BY <3>1, <3>2
    <3> QED BY <1>0, <1>1, <2>1, <2>3, <3>3, <3>4, ChildMoves
  <2> QED BY <2>2, <2>3
<1>6. CASE \/ DaemonDies \/ Compact
           \/ \E s \in Sessions : StartSession(s) \/ CaptureUsage(s) \/ Hook(s)
           \/ \E r \in Runs, s \in Sessions : discoverAndBind(r, s)
  <2>1. UNCHANGED <<pc, proc, status, image>>
    BY <1>6 DEF DaemonDies, Compact, StartSession, CaptureUsage, Hook, Decide, CaptureSessionLifecycle,
         discoverAndBind, child
  <2> QED BY <1>0, <1>1, <2>1, ChildUndisturbed
<1> QED BY <1>2, <1>3, <1>4, <1>5, <1>6 DEF Next, Progress, Wrapper, Shim
----------------------------------------------------------------------------
(* What the records say *)

\* Nothing has been called or recorded at the start.
LEMMA RunInit ==
  ASSUME Init
  PROVE  RecordsKept
<1>1. TypeOK
  BY CapacityAssumption DEF Init, TypeOK, NoRegistry, Gone
<1>2. \A k, r : ~Has(k, r) /\ ~At(k, r)
  BY DEF Init, Has, At
<1>3. CallShape
  BY <1>2 DEF Init, CallShape, Sent, Running
<1>4. ChildShape
  BY <1>2 DEF Init, ChildShape, ChildOf, Sent
<1>5. ImageRegistered /\ TerminalOrder /\ LaunchHonest
  BY <1>2 DEF Init, ImageRegistered, TerminalOrder, LaunchHonest
<1> QED BY <1>1, <1>3, <1>4, <1>5 DEF RecordsKept, RunInv

LEMMA RunNext ==
  ASSUME RecordsKept, [Next]_vars
  PROVE  RecordsKept'
<1>1. TypeOK /\ CallShape /\ ChildShape /\ TerminalOrder /\ TypeOK' /\ Kinds
  BY TypeNext, StepKinds DEF RecordsKept, RunInv
<1>2. CallShape' /\ ChildShape' /\ TerminalOrder'
  BY <1>1, CallsKept, ChildKept, OrderKept
<1>3. ImageRegistered'
  BY <1>1, <1>2 DEF ImageRegistered, ChildShape, ChildOf, Served, TypeOK
<1>4. LaunchHonest'
  BY <1>2 DEF LaunchHonest, ChildShape, ChildOf, Sent
<1> QED BY <1>1, <1>2, <1>3, <1>4 DEF RecordsKept, RunInv

\* A run's records tell its story, whatever is lost, late or killed on the way: the child's image
\* exists only once RUN_STARTED and its registration are durable, the records come in the normative
\* order, and a failed launch is recorded only of a child that never was (Run, readLaunchStatus,
\* terminalSequence).
THEOREM RecordsSound == Spec => []RunInv
<1>1. Init => RecordsKept
  BY RunInit
<1>2. RecordsKept /\ [Next]_vars => RecordsKept'
  BY RunNext
<1>3. RecordsKept => RunInv
  BY DEF RecordsKept
<1> QED BY <1>1, <1>2, <1>3, PTL DEF Spec
----------------------------------------------------------------------------
(* Reserves *)

\* What is kept of the reserve of run r.
Kept(r) ==
  /\ ReserveOf(r)
  /\ Owes(r) => r \in sidecar /\ (up => r \in open)
  /\ pc[r] = "done" /\ r \notin hit => r \notin open \cup sidecar /\ (Has("STARTED", r) => Has("ENDED", r))

\* A step on another run's reserve: the sidecar is left alone or rewritten from memory.
Aside(x) ==
  /\ x \in open' <=> x \in open
  /\ (x \in sidecar' <=> x \in sidecar) \/ (up /\ (x \in sidecar' <=> x \in open))

LEMMA ReserveUndisturbed ==
  ASSUME TypeOK, CallShape, Kinds, NEW x \in Runs, Kept(x),
         pc'[x] = pc[x], Aside(x), hit \subseteq hit', up' => up
  PROVE  Kept(x)'
<1>1. \A k \in Calls : (At(k, x)' => At(k, x)) /\ (Sent(k, x)' => Sent(k, x)) /\ (Has(k, x) => Has(k, x)')
  <2>1. \A k \in Calls : ~Edge(k, k)
    BY DEF Edge, Calls, Gone
  <2> QED BY <2>1, StepSends
<1>2. {"RESERVE", "STARTED", "ENDED"} \subseteq Calls /\ "done" \notin Calls
  BY DEF Calls
<1>3. ReserveOf(x)'
  BY <1>1, <1>2 DEF Kept, ReserveOf, Aside
<1>4. Owes(x)' => x \in sidecar' /\ (up' => x \in open')
  BY DEF Kept, Owes, Aside
<1>5. pc'[x] = "done" /\ x \notin hit' => x \notin open' \cup sidecar' /\ (Has("STARTED", x)' => Has("ENDED", x)')
  <2>1. SUFFICES ASSUME pc[x] = "done", x \notin hit
                 PROVE  x \notin open' \cup sidecar' /\ (Has("STARTED", x)' => Has("ENDED", x)')
    OBVIOUS
  <2>2. x \notin open' \cup sidecar'
    BY <2>1 DEF Kept, Aside
  <2>3. Has("STARTED", x)' => Has("STARTED", x)
    BY <1>1, <1>2, <2>1 DEF Kept, ReserveOf, Sent
  <2> QED BY <1>1, <1>2, <2>1, <2>2, <2>3 DEF Kept
<1> QED BY <1>3, <1>4, <1>5 DEF Kept

\* A step of a run's wrapper that touches no reserve.  A wrapper that comes to an end without having
\* given its reserve back was touched by a fault.
LEMMA ReserveMoves ==
  ASSUME TypeOK, CallShape, Kinds, NEW x \in Runs, Kept(x),
         Edge(pc[x], pc'[x]), pc'[x] # "STARTED", Aside(x), hit \subseteq hit', up' = up,
         pc'[x] \in {"done", "ABANDON"} => x \in hit' \/ pc[x] = "bare",
         \A k \in Calls : pc[x] = k /\ x \notin hit' => ~At(k, x)'
  PROVE  Kept(x)'
<1>1. \A k \in Calls : (At(k, x)' => At(k, x) \/ pc'[x] = k) /\ (Sent(k, x)' => Sent(k, x) \/ pc'[x] = k)
  BY StepSends
<1>2. {"RESERVE", "STARTED"} \subseteq Calls /\ "done" \notin Calls
  BY DEF Calls
<1>3. ReserveOf(x)'
  <2>1. At("RESERVE", x)' \/ pc'[x] \in {"idle", "bare"} => x \notin open' \cup sidecar'
    <3>1. SUFFICES ASSUME At("RESERVE", x)' \/ pc'[x] \in {"idle", "bare"}
                   PROVE  x \notin open \cup sidecar
      BY DEF Aside
    <3>2. pc'[x] \in {"RESERVE", "idle", "bare"} => pc[x] = "idle"
      BY DEF Edge, Gone
    <3> QED BY <1>1, <1>2, <3>1, <3>2 DEF Kept, ReserveOf
  <2>2. x \notin hit' /\ up' => (x \in open' <=> x \in sidecar')
    BY DEF Kept, ReserveOf, Aside
  <2>3. x \notin hit' => \A k \in Calls : At(k, x)' => pc'[x] = k
    BY <1>1 DEF Kept, ReserveOf
  <2>4. pc'[x] = "ABANDON" => x \in hit'
    BY DEF Edge
  <2> QED BY <2>1, <2>2, <2>3, <2>4 DEF ReserveOf
<1>4. Owes(x)' => x \in sidecar' /\ (up' => x \in open')
  <2>1. Owes(x)' => Owes(x)
    BY DEF Owes, Edge, Gone
  <2> QED BY <2>1 DEF Kept, Aside
<1>5. pc'[x] = "done" /\ x \notin hit' => x \notin open' \cup sidecar' /\ (Has("STARTED", x)' => Has("ENDED", x)')
  <2>1. SUFFICES ASSUME pc'[x] = "done", x \notin hit'
                 PROVE  x \notin open' \cup sidecar' /\ ~Has("STARTED", x)'
    OBVIOUS
  <2>2. pc[x] = "bare"
    BY <2>1
  <2>3. ~Sent("STARTED", x)
    BY <1>2, <2>2 DEF CallShape, After, Running, Ending, Gone
  <2> QED BY <1>1, <1>2, <2>1, <2>2, <2>3 DEF Kept, ReserveOf, Aside, Sent
<1> QED BY <1>3, <1>4, <1>5 DEF Kept

\* Once a call is answered it is no longer at the server.
LEMMA AnswerTakes ==
  ASSUME TypeOK, CallShape, NEW m \in inbox \cup folding, NEW p, answer(m, p), p # m.kind,
         folding' = folding \ {m}
  PROVE  ~At(m.kind, m.run)' /\ m.run \in Runs /\ m.kind \in Calls
         /\ (\A x \in Runs : x # m.run => pc'[x] = pc[x]) /\ pc'[m.run] = IF pc[m.run] = m.kind THEN p ELSE pc[m.run]
<1>1. m.run \in Runs /\ m.kind \in Calls /\ m = [run |-> m.run, kind |-> m.kind]
  BY DEF TypeOK
<1>2. m \notin inbox'
  BY <1>1 DEF answer
<1>3. ~At(m.kind, m.run)'
  BY <1>1, <1>2 DEF At
<1>4. (\A x \in Runs : x # m.run => pc'[x] = pc[x]) /\ pc'[m.run] = IF pc[m.run] = m.kind THEN p ELSE pc[m.run]
  BY <1>1 DEF answer, TypeOK
<1> QED BY <1>1, <1>3, <1>4
LEMMA ReserveTaken ==
  ASSUME TypeOK, CallShape, Kinds, NEW x \in Runs, \A r \in Runs : Kept(r), hit \subseteq hit',
         NEW m \in inbox, ReserveRun(m)
  PROVE  Kept(x)'
<1> DEFINE r == m.run
<1>1. m.kind = "RESERVE" /\ r \in Runs /\ m = [run |-> r, kind |-> "RESERVE"] /\ up /\ UNCHANGED <<up, folding, wal>>
  BY DEF ReserveRun, TypeOK, CallShape, log
<1>2. Kept(r) /\ Kept(x) /\ r \notin open \cup sidecar /\ open' = open \cup {r}
  BY <1>1 DEF Kept, ReserveOf, At, ReserveRun
<1>3. \/ sidecar' = open' /\ (answer(m, "STARTED") \/ answer(m, "UNDO"))
      \/ sidecar' = sidecar /\ r \in hit' /\ answer(m, "done")
  BY <1>1, <1>2 DEF ReserveRun, Fault, afterOk, afterError
<1>4. m \notin folding
  BY DEF CallShape
<1>5. PICK p \in {"STARTED", "UNDO", "done"} :
        /\ answer(m, p)
        /\ \/ p # "done" /\ sidecar' = open'
           \/ p = "done" /\ sidecar' = sidecar /\ r \in hit'
  BY <1>3
<1>6. ~At("RESERVE", r)' /\ (\A y \in Runs : y # r => pc'[y] = pc[y])
      /\ pc'[r] = IF pc[r] = "RESERVE" THEN p ELSE pc[r]
  BY <1>1, <1>4, <1>5, AnswerTakes
<1>7. CASE x # r
  <2>1. Aside(x)
    BY <1>1, <1>2, <1>5, <1>7 DEF Aside
  <2> QED BY <1>1, <1>2, <1>6, <1>7, <2>1, ReserveUndisturbed
<1>8. CASE x = r
  <2>1. \A k \in Calls : At(k, r)' => At(k, r) \/ pc'[r] = k
    BY <1>1, StepSends
  <2>2. At("RESERVE", r) /\ pc[r] \in After("RESERVE") /\ "RESERVE" \in Calls
    BY <1>1 DEF At, Sent, CallShape, Calls
  <2>3. pc[r] \notin {"idle", "bare"}
    BY <2>2 DEF After, Calls, Running, Gone
  <2>4. r \notin hit' => pc[r] = "RESERVE" /\ p # "done"
    BY <1>2, <1>5, <2>2 DEF Kept, ReserveOf
  <2>5. ReserveOf(r)'
    <3>1. r \notin hit' => \A k \in Calls : At(k, r)' => pc'[r] = k
      BY <1>2, <1>6, <2>1, <2>4 DEF Kept, ReserveOf
    <3>2. pc'[r] = "ABANDON" => r \in hit'
      BY <1>2, <1>6 DEF Kept, ReserveOf
    <3> QED BY <1>2, <1>5, <1>6, <2>3, <2>4, <3>1, <3>2 DEF ReserveOf
  <2>6. Owes(r)' => r \in sidecar' /\ (up' => r \in open')
    <3>1. ~Owes(r)
      BY <1>2 DEF Kept
    <3> QED BY <1>2, <1>5, <1>6, <3>1 DEF Owes
  <2>7. ~(pc'[r] = "done" /\ r \notin hit')
    BY <1>5, <1>6, <2>4
  <2> QED BY <1>8, <2>5, <2>6, <2>7 DEF Kept
<1> QED BY <1>7, <1>8

LEMMA ReserveGiven ==
  ASSUME TypeOK, CallShape, Kinds, NEW x \in Runs, \A r \in Runs : Kept(r), hit \subseteq hit',
         NEW m \in inbox, ReleaseRun(m)
  PROVE  Kept(x)'
<1> DEFINE r == m.run
<1>1. /\ m.kind \in {"RELEASE", "UNDO", "ABANDON"} /\ m.kind \in Calls /\ r \in Runs
      /\ m = [run |-> r, kind |-> m.kind] /\ up /\ UNCHANGED <<up, folding, wal>>
  BY DEF ReleaseRun, TypeOK, CallShape, log
<1>2. Kept(r) /\ Kept(x) /\ open' = open \ {r} /\ answer(m, "done") /\ m \notin folding
  BY <1>1 DEF ReleaseRun, afterOk, afterError, terminalSequence, CallShape
<1>3. \/ sidecar' = IF r \in open THEN open' ELSE sidecar
      \/ sidecar' = sidecar /\ r \in hit'
  BY DEF ReleaseRun, Fault
<1>4. ~At(m.kind, r)' /\ (\A y \in Runs : y # r => pc'[y] = pc[y])
      /\ pc'[r] = IF pc[r] = m.kind THEN "done" ELSE pc[r]
  BY <1>1, <1>2, AnswerTakes
<1>5. CASE x # r
  <2>1. Aside(x)
    BY <1>1, <1>2, <1>3, <1>5 DEF Aside
  <2> QED BY <1>1, <1>2, <1>4, <1>5, <2>1, ReserveUndisturbed
<1>6. CASE x = r
  <2>1. \A k \in Calls : At(k, r)' => At(k, r) \/ pc'[r] = k
    BY <1>1, StepSends
  <2>2. At(m.kind, r) /\ pc[r] \in After(m.kind)
    BY <1>1 DEF At, Sent, CallShape
  <2>3. pc[r] \in {m.kind} \cup Gone /\ pc'[r] \in Gone
    BY <1>1, <1>4, <2>2 DEF After, Gone
  <2>4. r \notin hit' => pc[r] = m.kind
    BY <1>1, <1>2, <2>2 DEF Kept, ReserveOf
  <2>5. r \notin open' /\ (r \notin hit' => r \notin sidecar')
    BY <1>1, <1>2, <1>3 DEF Kept, ReserveOf
  <2>6. ReserveOf(r)'
    <3>1. r \notin hit' => \A k \in Calls : At(k, r)' => pc'[r] = k
      BY <1>2, <1>4, <2>1, <2>4 DEF Kept, ReserveOf
    <3>2. pc'[r] \notin {"ABANDON", "RESERVE", "idle", "bare"}
      BY <2>3 DEF Gone
    <3>3. At("RESERVE", r)' => r \notin sidecar'
      <4>1. At("RESERVE", r)' => At("RESERVE", r)
        BY <2>1, <3>2 DEF Calls
      <4> QED BY <1>2, <1>3, <4>1 DEF Kept, ReserveOf
    <3> QED BY <2>5, <3>1, <3>2, <3>3 DEF ReserveOf
  <2>7. ~Owes(r)'
    BY <2>3 DEF Owes, Gone
  <2>8. r \notin hit' => (Has("STARTED", r)' => Has("ENDED", r)')
    <3>1. SUFFICES ASSUME r \notin hit', Has("STARTED", r)
                   PROVE  Has("ENDED", r)
      BY <1>1 DEF Has
    <3>2. pc[r] \in After("STARTED")
      BY <1>1, <3>1 DEF CallShape, Sent, Calls
    <3>3. pc[r] # "UNDO"
      BY <3>2 DEF After, Running, Ending, Gone
    <3>4. pc[r] # "ABANDON"
      BY <1>2, <3>1 DEF Kept, ReserveOf
    <3> QED BY <1>1, <2>4, <3>1, <3>3, <3>4 DEF CallShape
  <2> QED BY <1>6, <2>5, <2>6, <2>7, <2>8 DEF Kept
<1> QED BY <1>5, <1>6
\* Every step keeps every run's reserve.
LEMMA ReservesKept ==
  ASSUME TypeOK, CallShape, Kinds, \A r \in Runs : Kept(r), [Next]_vars, NEW x \in Runs
  PROVE  Kept(x)'
<1>0. pc \in [Runs -> Stages] /\ hit \subseteq hit' /\ Kept(x) /\ inbox \cup folding \subseteq Requests
  BY HitGrows DEF TypeOK, Stages, Requests
<1>1. ASSUME UNCHANGED <<pc, open, sidecar>>, up' => up
      PROVE  Kept(x)'
  BY <1>0, <1>1, ReserveUndisturbed DEF Aside
<1>2. ASSUME NEW m \in inbox \cup folding, NEW p, answer(m, p), UNCHANGED <<open, sidecar, up>>,
             folding' = folding \ {m}, p \notin {"STARTED", m.kind}, Edge(m.kind, p),
             p \in {"done", "ABANDON"} => m.run \in hit'
      PROVE  Kept(x)'
  <2>1. ~At(m.kind, m.run)' /\ m.run \in Runs /\ m.kind \in Calls
         /\ (\A y \in Runs : y # m.run => pc'[y] = pc[y]) /\ pc'[m.run] = IF pc[m.run] = m.kind THEN p ELSE pc[m.run]
    BY <1>2, AnswerTakes
  <2>2. Aside(x)
    BY <1>2 DEF Aside
  <2>3. CASE pc'[x] = pc[x]
    BY <1>0, <1>2, <2>2, <2>3, ReserveUndisturbed
  <2>4. CASE pc'[x] # pc[x]
    <3>1. x = m.run /\ pc[x] = m.kind /\ pc'[x] = p
      BY <2>1, <2>4
    <3> QED BY <1>0, <1>2, <2>1, <2>2, <3>1, ReserveMoves
  <2> QED BY <2>3, <2>4
<1>3. ASSUME NEW r \in Runs, NEW q, pc' = [pc EXCEPT ![r] = q], UNCHANGED <<open, sidecar, up>>,
             Edge(pc[r], q), q # "STARTED", q \in {"done", "ABANDON"} => r \in hit' \/ pc[r] = "bare",
             pc[r] \in Calls => r \in hit'
      PROVE  Kept(x)'
  <2>1. Aside(x)
    BY <1>3 DEF Aside
  <2>2. CASE x # r
    BY <1>0, <1>3, <2>1, <2>2, ReserveUndisturbed
  <2>3. CASE x = r
    BY <1>0, <1>3, <2>1, <2>3, ReserveMoves
  <2> QED BY <2>2, <2>3
<1>4. CASE UNCHANGED vars
  BY <1>1, <1>4 DEF vars, daemon
<1>5. CASE Server
  <2>1. ASSUME NEW m \in inbox, ReserveRun(m) \/ ReleaseRun(m)
        PROVE  Kept(x)'
    BY <1>0, <2>1, ReserveTaken, ReserveGiven
  <2>2. ASSUME NEW m \in inbox, AppendObservation(m)
        PROVE  Kept(x)'
    <3>1. m.kind \in Appends /\ UNCHANGED <<open, sidecar, up>> /\ m \notin folding
      BY <2>2 DEF AppendObservation, daemon, CallShape
    <3>2. CASE pc' = pc
      BY <1>1, <3>1, <3>2
    <3>3. CASE Fault({m.run}) /\ answer(m, afterError(m.kind)) /\ folding' = folding
      <4>1. afterError(m.kind) \notin {"STARTED", m.kind} /\ Edge(m.kind, afterError(m.kind))
        BY <3>1 DEF Appends, afterError, Edge
      <4>2. m.run \in hit' /\ folding' = folding \ {m}
        BY <3>1, <3>3 DEF Fault
      <4> QED BY <1>2, <3>1, <3>3, <4>1, <4>2
    <3> QED BY <2>2, <3>2, <3>3 DEF AppendObservation
  <2>3. ASSUME NEW m \in folding, FoldAndAcknowledge(m)
        PROVE  Kept(x)'
    <3>1. m.kind \in Appends
      BY DEF CallShape
    <3>2. UNCHANGED <<open, sidecar, up>> /\ answer(m, afterOk(m.kind)) /\ folding' = folding \ {m}
      BY <2>3 DEF FoldAndAcknowledge
    <3>3. afterOk(m.kind) \notin {"STARTED", m.kind, "done", "ABANDON"} /\ Edge(m.kind, afterOk(m.kind))
      BY <3>1 DEF Appends, afterOk, terminalSequence, Edge
    <3> QED BY <1>2, <3>2, <3>3
  <2>4. CASE DaemonStarts
    <3>1. UNCHANGED <<pc, inbox, folding, wal, sidecar, hit>> /\ open' = sidecar
      BY <2>4 DEF DaemonStarts, log, NoFault, LoadReserves
    <3>2. \A k \in Calls : (At(k, x)' <=> At(k, x)) /\ (Has(k, x)' <=> Has(k, x))
      BY <3>1 DEF At, Has
    <3>3. (Owes(x)' <=> Owes(x)) /\ {"RESERVE", "STARTED", "ENDED"} \subseteq Calls
      BY <3>1 DEF Owes, Calls
    <3> QED BY <1>0, <3>1, <3>2, <3>3 DEF Kept, ReserveOf
  <2> QED BY <1>5, <2>1, <2>2, <2>3, <2>4 DEF Server
<1>6. ASSUME NEW r \in Runs, CallFails(r)
      PROVE  Kept(x)'
  <2>1. pc' = [pc EXCEPT ![r] = afterError(pc[r])] /\ UNCHANGED <<open, sidecar, up>> /\ r \in hit' /\ pc[r] \in Calls
    BY <1>6 DEF CallFails, goto, daemon, Fault
  <2>2. Edge(pc[r], afterError(pc[r])) /\ afterError(pc[r]) # "STARTED"
    BY <2>1 DEF Calls, afterError, Edge
  <2> QED BY <1>3, <2>1, <2>2
<1>7. ASSUME NEW r \in Runs,
             \/ waitUnobserved(r) \/ launchObserved(r) \/ readIdentityFails(r) \/ writeAck(r)
             \/ readLaunchStatus(r) \/ waitFailedLaunch(r) \/ wait(r) \/ settleForDrain(r)
             \/ writeIdentity(r) \/ Run(r) \/ runUnobserved(r)
      PROVE  Kept(x)'
  <2>1. UNCHANGED <<open, sidecar, up>>
    BY <1>7 DEF waitUnobserved, launchObserved, readIdentityFails, writeAck, readLaunchStatus, waitFailedLaunch,
                  wait, settleForDrain, writeIdentity, Run, runUnobserved, daemon, shimStep
  <2>2. \/ pc' = pc
        \/ \E q \in Stages \ {"STARTED", "ABANDON"} :
             /\ goto(r, q) /\ Edge(pc[r], q) /\ pc[r] \notin Calls
             /\ q = "done" => pc[r] = "bare"
    BY <1>7 DEF waitUnobserved, launchObserved, readIdentityFails, writeAck, readLaunchStatus, waitFailedLaunch,
                  wait, settleForDrain, writeIdentity, Run, runUnobserved, launchFailure,
                  Edge, Stages, Calls, Gone
  <2> QED BY <1>1, <1>3, <2>1, <2>2 DEF goto
<1>8. ASSUME NEW r \in Runs, WrapperDies(r)
      PROVE  Kept(x)'
  <2>1. pc' = [pc EXCEPT ![r] = "crashed"] /\ UNCHANGED <<open, sidecar, up>> /\ r \in hit' /\ Edge(pc[r], "crashed")
    BY <1>8 DEF WrapperDies, shimStep, daemon, Fault, Edge
  <2> QED BY <1>3, <2>1
<1>9. CASE \/ DaemonDies \/ Compact
           \/ \E r \in Runs : ShimDeclined(r) \/ ShimMarks(r) \/ ShimExecs(r) \/ ChildExits(r) \/ ShimDies(r)
           \/ \E s \in Sessions : StartSession(s) \/ CaptureUsage(s) \/ Hook(s)
           \/ \E r \in Runs, s \in Sessions : discoverAndBind(r, s)
  <2>1. CASE \/ Compact
             \/ \E r \in Runs : ShimDeclined(r) \/ ShimMarks(r) \/ ShimExecs(r) \/ ChildExits(r) \/ ShimDies(r)
             \/ \E s \in Sessions : StartSession(s) \/ CaptureUsage(s) \/ Hook(s)
             \/ \E r \in Runs, s \in Sessions : discoverAndBind(r, s)
    <3>1. UNCHANGED <<pc, open, sidecar, up>>
      BY <2>1 DEF Compact, StartSession, CaptureUsage, Hook, Decide, CaptureSessionLifecycle,
         discoverAndBind, ShimDeclined, ShimMarks, ShimExecs, ChildExits, ShimDies, shimStep, daemon
    <3> QED BY <1>1, <3>1
  <2>2. CASE DaemonDies
    <3>1. UNCHANGED <<pc, open, sidecar>> /\ up' = FALSE
      BY <2>2 DEF DaemonDies, daemon
    <3> QED BY <1>1, <3>1
  <2> QED BY <1>9, <2>1, <2>2
<1> QED BY <1>4, <1>5, <1>6, <1>7, <1>8, <1>9 DEF Next, Progress, Wrapper, Shim
\* What is read back from the live segments was recorded.
LEMMA LiveRecorded ==
  ASSUME TypeOK, NEW i \in DOMAIN Live
  PROVE  base + i \in DOMAIN wal /\ Live[i] = wal[base + i]
<1>1. wal \in Seq(Frames) /\ base \in 0..Len(wal) /\ Len(wal) \in Nat
  BY DEF TypeOK, Frames
<1>2. Len(Live) = Len(wal) - base /\ i \in 1..Len(Live)
  BY <1>1 DEF Live
<1> QED BY <1>1, <1>2 DEF Live

\* The recovery cross-check, on any state in which the reserves are held.
LEMMA Reconciles ==
  ASSUME TypeOK, ReserveHeld
  PROVE  ReconcileSound
<1>1. ASSUME NEW r \in ScanRunEvents.terminated
      PROVE  \E k \in {"EXITED", "LAUNCH_FAILED", "ENDED"} : Has(k, r)
  <2>1. PICK i \in DOMAIN Live : Live[i].kind \in {"ENDED", "EXITED", "LAUNCH_FAILED"} /\ Live[i].run = r
    BY DEF ScanRunEvents
  <2> QED BY <2>1, LiveRecorded DEF Has
<1> QED BY <1>1 DEF ReconcileSound, ReconcileReserves, ReserveHeld

ReserveInv == RecordsKept /\ \A r \in Runs : Kept(r)

LEMMA ReserveInvariant == Spec => []ReserveInv
<1>1. Init => ReserveInv
  <2> SUFFICES ASSUME Init PROVE ReserveInv
    OBVIOUS
  <2>1. \A k, r : ~Has(k, r) /\ ~At(k, r)
    BY DEF Init, Has, At
  <2>2. \A r \in Runs : Kept(r)
    BY <2>1 DEF Init, Kept, ReserveOf, Owes
  <2> QED BY <2>2, RunInit DEF ReserveInv
<1>2. ReserveInv /\ [Next]_vars => ReserveInv'
  <2> SUFFICES ASSUME ReserveInv, [Next]_vars PROVE ReserveInv'
    OBVIOUS
  <2>1. RecordsKept'
    BY RunNext DEF ReserveInv
  <2>2. TypeOK /\ CallShape /\ Kinds
    BY StepKinds DEF ReserveInv, RecordsKept, RunInv
  <2>3. \A r \in Runs : Kept(r)'
    BY <2>2, ReservesKept DEF ReserveInv
  <2> QED BY <2>1, <2>3 DEF ReserveInv
<1> QED BY <1>1, <1>2, PTL DEF Spec

\* A reserve is held exactly as long as it is owed: in memory and in the sidecar, across restarts and
\* failed writes of either, on every way a run can end, and by the recovery cross-check (Reserve,
\* Release, LoadReserves, ReconcileReserves).
THEOREM ReservesHeld == Spec => []ReservesSound
<1>1. ReserveInv => ReservesSound
  <2> SUFFICES ASSUME ReserveInv PROVE ReservesSound
    OBVIOUS
  <2>1. ReserveHeld /\ NoLeak
    BY DEF ReserveInv, Kept, ReserveHeld, NoLeak
  <2> QED BY <2>1, Reconciles DEF ReserveInv, RecordsKept, RunInv, ReservesSound
<1> QED BY <1>1, ReserveInvariant, PTL

LEMMA MoreReserved ==
  ASSUME NEW n \in Nat, NEW a \in Nat, NEW b \in Nat, a <= b
  PROVE  n * a <= n * b
<1>1. PICK d \in Nat : b = a + d
  <2>1. b - a \in Nat /\ b = a + (b - a)
    OBVIOUS
  <2> QED BY <2>1
<1>2. n * b = n * a + n * d /\ n * d \in Nat /\ n * a \in Nat
  BY <1>1
<1> QED BY <1>2

\* A run is admitted only by the server, with its reserve and every open one counted.
LEMMA AdmittedByServer ==
  ASSUME TypeOK, CallShape, [Next]_vars, NEW r \in Runs, pc[r] = "RESERVE", pc'[r] = "STARTED"
  PROVE  up /\ Evaluate(open \cup {r})
<1>0. pc \in [Runs -> Stages] /\ inbox \cup folding \subseteq Requests
  BY DEF TypeOK, Stages, Requests
<1>1. ASSUME NEW x \in Runs,
             \/ waitUnobserved(x) \/ launchObserved(x) \/ readIdentityFails(x) \/ writeAck(x)
             \/ readLaunchStatus(x) \/ waitFailedLaunch(x) \/ wait(x) \/ settleForDrain(x)
             \/ writeIdentity(x) \/ Run(x) \/ runUnobserved(x) \/ WrapperDies(x)
             \/ ShimDeclined(x) \/ ShimMarks(x) \/ ShimExecs(x) \/ ChildExits(x) \/ ShimDies(x)
      PROVE  FALSE
  BY <1>0, <1>1 DEF waitUnobserved, launchObserved, readIdentityFails, writeAck, readLaunchStatus, waitFailedLaunch,
                  wait, settleForDrain, writeIdentity, Run, runUnobserved, launchFailure, goto, WrapperDies,
                  ShimDeclined, ShimMarks, ShimExecs, ChildExits, ShimDies
<1>2. ASSUME NEW x \in Runs, CallFails(x)
      PROVE  FALSE
  BY <1>0, <1>2 DEF CallFails, goto, afterError
<1>3. ASSUME \/ DaemonDies \/ Compact \/ DaemonStarts \/ UNCHANGED vars
             \/ \E s \in Sessions : StartSession(s) \/ CaptureUsage(s) \/ Hook(s)
             \/ \E x \in Runs, s \in Sessions : discoverAndBind(x, s)
      PROVE  FALSE
  BY <1>3 DEF DaemonDies, Compact, StartSession, CaptureUsage, Hook, Decide, CaptureSessionLifecycle,
         discoverAndBind, DaemonStarts, vars
<1>4. ASSUME NEW m \in inbox \cup folding, m.kind # "RESERVE", NEW p, answer(m, p)
      PROVE  FALSE
  <2>1. m.run \in Runs
    BY <1>0 DEF Requests
  <2> QED BY <1>0, <1>4, <2>1 DEF answer
<1>5. ASSUME NEW m \in inbox, ReleaseRun(m) \/ AppendObservation(m)
      PROVE  FALSE
  <2>1. m.kind # "RESERVE"
    BY <1>5 DEF ReleaseRun, AppendObservation, Appends
  <2> QED BY <1>4, <1>5, <2>1 DEF ReleaseRun, AppendObservation
<1>6. ASSUME NEW m \in folding, FoldAndAcknowledge(m)
      PROVE  FALSE
  <2>1. m.kind # "RESERVE"
    BY DEF CallShape, Appends
  <2> QED BY <1>4, <1>6, <2>1 DEF FoldAndAcknowledge
<1>7. ASSUME NEW m \in inbox, ReserveRun(m)
      PROVE  up /\ Evaluate(open \cup {r})
  <2>1. up /\ m.run \in Runs /\ m.kind = "RESERVE"
    BY <1>0, <1>7 DEF CallShape, Requests, ReserveRun
  <2>2. ASSUME NEW p, answer(m, p)
        PROVE  m.run = r /\ p = "STARTED"
    BY <1>0, <2>1, <2>2 DEF answer
  <2>3. answer(m, IF Evaluate(open') THEN afterOk("RESERVE") ELSE "UNDO") \/ answer(m, afterError("RESERVE"))
    BY <1>7 DEF ReserveRun
  <2>4. m.run = r /\ ((IF Evaluate(open') THEN afterOk("RESERVE") ELSE "UNDO") = "STARTED" \/ afterError("RESERVE") = "STARTED")
    BY <2>2, <2>3
  <2>5. Evaluate(open')
    BY <2>4 DEF afterError
  <2>6. open' = open \cup {r}
    BY <1>7, <2>4 DEF ReserveRun
  <2> QED BY <2>1, <2>5, <2>6
<1> QED BY <1>1, <1>2, <1>3, <1>5, <1>6, <1>7 DEF Next, Progress, Wrapper, Shim, Server

\* A run is admitted only with room for the terminal records of every run that still owes them, also
\* after a restart of the daemon: what admission counts never misses one (Evaluate, LoadReserves).
THEOREM RoomForTerminals == Spec => AdmissionHonoured
<1> DEFINE Room(r) == pc[r] = "RESERVE" /\ pc'[r] = "STARTED" =>
                        Used + Reserve * Cardinality({q \in Runs : Owes(q)} \cup {r}) + Reserve <= HardFloor
<1>1. ReserveInv /\ [Next]_vars => [\A r \in Runs : Room(r)]_vars
  <2> SUFFICES ASSUME ReserveInv, [Next]_vars, NEW r \in Runs, pc[r] = "RESERVE", pc'[r] = "STARTED"
               PROVE  Used + Reserve * Cardinality({q \in Runs : Owes(q)} \cup {r}) + Reserve <= HardFloor
    OBVIOUS
  <2> DEFINE Counted == open \cup {r}
             Owed == {q \in Runs : Owes(q)} \cup {r}
  <2>1. up /\ Evaluate(Counted) /\ TypeOK
    BY AdmittedByServer DEF ReserveInv, RecordsKept, RunInv
  <2>2. Used + Reserve * Cardinality(Counted) + Reserve <= HardFloor
    BY <2>1 DEF Evaluate
  <2>3. Owed \subseteq Counted
    BY <2>1 DEF ReserveInv, Kept
  <2>4. IsFiniteSet(Counted)
    BY <2>1, CapacityAssumption, FS_Subset DEF TypeOK
  <2>5. Cardinality(Owed) <= Cardinality(Counted) /\ Cardinality(Counted) \in Nat /\ Cardinality(Owed) \in Nat
    BY <2>3, <2>4, FS_Subset, FS_CardinalityType
  <2>6. Reserve * Cardinality(Owed) <= Reserve * Cardinality(Counted)
    BY <2>5, MoreReserved, CapacityAssumption
  <2>7. /\ Used \in Nat /\ Reserve \in Nat /\ HardFloor \in Nat
        /\ Reserve * Cardinality(Owed) \in Nat /\ Reserve * Cardinality(Counted) \in Nat
    BY <2>1, <2>5, CapacityAssumption DEF Used, TypeOK
  <2> HIDE DEF Owed, Counted
  <2>8. Used + Reserve * Cardinality(Owed) + Reserve <= HardFloor
    BY <2>2, <2>6, <2>7
  <2> QED BY <2>8 DEF Owed
<1>2. Spec => [][Next]_vars
  BY PTL DEF Spec
<1> QED BY <1>1, <1>2, ReserveInvariant, PTL DEF AdmissionHonoured
----------------------------------------------------------------------------
(* Attribution *)

\* A child that has started stays one, and a run whose child has started without being observed never
\* comes to have an observed child.
LEMMA ChildGrows ==
  ASSUME TypeOK, ChildShape, [Next]_vars, NEW x \in Runs
  PROVE  /\ x \in image => x \in image'
         /\ x \in image' /\ x \notin image => proc[x] = "marked"
         /\ Inside(x) => Inside(x)' /\ (x \in image' => x \in image)
<1>0. proc \in [Runs -> {"none", "spawned", "reported", "acked", "marked", "image", "dead"}] /\ ChildOf(x)
  BY DEF TypeOK, ChildShape
<1>1. ASSUME UNCHANGED <<proc, image>>
      PROVE  /\ x \in image => x \in image'
             /\ x \in image' /\ x \notin image => proc[x] = "marked"
             /\ Inside(x) => Inside(x)' /\ (x \in image' => x \in image)
  BY <1>1 DEF Inside
<1>2. CASE UNCHANGED vars
  BY <1>1, <1>2 DEF vars, child
<1>3. CASE Server
  BY <1>1, <1>3 DEF Server, ReserveRun, ReleaseRun, AppendObservation, FoldAndAcknowledge, DaemonStarts, child
<1>4. CASE \/ DaemonDies \/ Compact
           \/ \E s \in Sessions : StartSession(s) \/ CaptureUsage(s) \/ Hook(s)
           \/ \E r \in Runs, s \in Sessions : discoverAndBind(r, s)
  BY <1>1, <1>4 DEF DaemonDies, Compact, StartSession, CaptureUsage, Hook, Decide, CaptureSessionLifecycle,
         discoverAndBind, child
<1>5. ASSUME NEW r \in Runs,
             \/ Run(r) \/ waitUnobserved(r) \/ CallFails(r) \/ readIdentityFails(r)
             \/ waitFailedLaunch(r) \/ wait(r) \/ settleForDrain(r) \/ WrapperDies(r) \/ readLaunchStatus(r)
      PROVE  UNCHANGED <<proc, image>>
  BY <1>5 DEF Run, waitUnobserved, CallFails, readIdentityFails, waitFailedLaunch, wait, settleForDrain,
         WrapperDies, readLaunchStatus, child
<1>6. ASSUME NEW r \in Runs,
             \/ ShimDeclined(r) \/ ShimMarks(r) \/ ChildExits(r) \/ ShimDies(r) \/ writeIdentity(r)
             \/ launchObserved(r) \/ writeAck(r) \/ runUnobserved(r)
      PROVE  image' = image /\ (Inside(x) => Inside(x)')
  <2>1. image' = image
    BY <1>6 DEF ShimDeclined, ShimMarks, ChildExits, ShimDies, writeIdentity, launchObserved, writeAck, runUnobserved
  <2>2. CASE x # r
    <3>1. proc'[x] = proc[x]
      BY <1>0, <1>6, <2>2 DEF ShimDeclined, ShimMarks, ChildExits, ShimDies, writeIdentity, launchObserved, writeAck,
               runUnobserved
    <3> QED BY <2>1, <3>1 DEF Inside
  <2>3. CASE x = r
    <3>1. \/ proc[r] \in {"spawned", "reported", "acked", "marked"}
          \/ proc'[r] \in {"image", "dead"}
          \/ proc' = proc
          \/ pc[r] = "launch"
      BY <1>0, <1>6 DEF ShimDeclined, ShimMarks, ChildExits, ShimDies, writeIdentity, launchObserved, writeAck,
               runUnobserved
    <3> QED BY <1>0, <2>1, <2>3, <3>1 DEF Inside, ChildOf
  <2> QED BY <2>1, <2>2, <2>3
<1>7. ASSUME NEW r \in Runs, ShimExecs(r)
      PROVE  /\ x \in image => x \in image'
             /\ x \in image' /\ x \notin image => proc[x] = "marked"
             /\ Inside(x) => Inside(x)' /\ (x \in image' => x \in image)
  <2>1. proc[r] = "marked" /\ image' \in {image, image \cup {r}} /\ (x # r => proc'[x] = proc[x])
    BY <1>0, <1>7 DEF ShimExecs
  <2> QED BY <2>1 DEF Inside
<1> QED BY <1>1, <1>2, <1>3, <1>4, <1>5, <1>6, <1>7 DEF Next, Progress, Wrapper, Shim

\* A run started bare stays one.
LEMMA BareStays ==
  ASSUME TypeOK, CallShape, ChildShape, Kinds, [Next]_vars, NEW x \in Runs, Bare(x)
  PROVE  Bare(x)'
<1>1. pc'[x] = pc[x] \/ Edge(pc[x], pc'[x])
  BY StepSends
<1>2. pc'[x] \in {"bare"} \cup Gone
  BY <1>1 DEF Bare, Edge, Gone
<1>3. \A k \in Calls : ~Sent(k, x)'
  <2>1. \A k \in Calls : k \notin {"bare"} \cup Gone
    BY DEF Calls, Gone
  <2> QED BY <1>2, <2>1, StepSends DEF Bare
<1>4. x \notin image'
  <2>1. proc[x] # "marked"
    BY DEF Bare, ChildShape, ChildOf, Served, Sent, Calls
  <2> QED BY <2>1, ChildGrows DEF Bare
<1> QED BY <1>2, <1>3, <1>4 DEF Bare

\* A run starts in a child that is there.
LEMMA StartsInside ==
  ASSUME TypeOK, CallShape, [Next]_vars, NEW r \in Runs, pc[r] = "idle", pc'[r] # "idle", Outer[r] # None
  PROVE  proc[Outer[r]] = "image"
<1>0. pc \in [Runs -> Stages] /\ inbox \cup folding \subseteq Requests
  BY DEF TypeOK, Stages, Requests
<1>1. ASSUME NEW x \in Runs,
             \/ waitUnobserved(x) \/ launchObserved(x) \/ readIdentityFails(x) \/ writeAck(x)
             \/ readLaunchStatus(x) \/ waitFailedLaunch(x) \/ wait(x) \/ settleForDrain(x)
             \/ writeIdentity(x) \/ WrapperDies(x) \/ CallFails(x)
             \/ ShimDeclined(x) \/ ShimMarks(x) \/ ShimExecs(x) \/ ChildExits(x) \/ ShimDies(x)
      PROVE  FALSE
  <2>1. "idle" \notin Calls
    BY DEF Calls
  <2> QED BY <1>0, <1>1, <2>1 DEF waitUnobserved, launchObserved, readIdentityFails, writeAck, readLaunchStatus,
        waitFailedLaunch, wait, settleForDrain, writeIdentity, goto, WrapperDies, CallFails,
        ShimDeclined, ShimMarks, ShimExecs, ChildExits, ShimDies
<1>2. ASSUME \/ DaemonDies \/ Compact \/ DaemonStarts \/ UNCHANGED vars
             \/ \E s \in Sessions : StartSession(s) \/ CaptureUsage(s) \/ Hook(s)
             \/ \E x \in Runs, s \in Sessions : discoverAndBind(x, s)
      PROVE  FALSE
  BY <1>2 DEF DaemonDies, Compact, StartSession, CaptureUsage, Hook, Decide, CaptureSessionLifecycle,
         discoverAndBind, DaemonStarts, vars
<1>3. ASSUME NEW m \in inbox \cup folding, NEW p, answer(m, p)
      PROVE  FALSE
  <2>1. m.run \in Runs /\ m.kind # "idle"
    BY <1>0 DEF Requests, Calls
  <2> QED BY <1>0, <1>3, <2>1 DEF answer
<1>4. ASSUME NEW m \in inbox, ReserveRun(m) \/ ReleaseRun(m) \/ AppendObservation(m)
      PROVE  FALSE
  BY <1>3, <1>4 DEF ReserveRun, ReleaseRun, AppendObservation
<1>5. ASSUME NEW m \in folding, FoldAndAcknowledge(m)
      PROVE  FALSE
  BY <1>3, <1>5 DEF FoldAndAcknowledge
<1>6. ASSUME NEW x \in Runs, Run(x) \/ runUnobserved(x)
      PROVE  proc[Outer[r]] = "image"
  <2>1. x = r
    BY <1>0, <1>6 DEF Run, runUnobserved, goto
  <2> QED BY <1>6, <2>1 DEF Run, runUnobserved
<1> QED BY <1>1, <1>2, <1>4, <1>5, <1>6 DEF Next, Progress, Wrapper, Shim, Server

\* Where a run was started.
Origins == \A r \in Runs : pc[r] # "idle" => \A a \in Above[r] : a \in image \/ Bare(a)

LEMMA OriginsKept ==
  ASSUME TypeOK, CallShape, ChildShape, Kinds, [Next]_vars, Origins
  PROVE  Origins'
<1> SUFFICES ASSUME NEW r \in Runs, pc'[r] # "idle", NEW a \in Above[r]
             PROVE  a \in image' \/ Bare(a)'
  BY DEF Origins
<1>1. a \in Runs
  BY Nested
<1>2. a \in image \/ Bare(a)
  <2>1. CASE pc[r] # "idle"
    BY <2>1 DEF Origins
  <2>2. CASE pc[r] = "idle"
    <3>1. Outer[r] \in Runs /\ a \in {Outer[r]} \cup Above[Outer[r]]
      BY NestingAssumption
    <3>2. proc[Outer[r]] = "image"
      BY <2>2, <3>1, StartsInside, CapacityAssumption
    <3>3. pc[Outer[r]] # "idle" /\ (Outer[r] \in image \/ Bare(Outer[r]))
      BY <3>1, <3>2 DEF ChildShape, ChildOf, Bare, Gone
    <3> QED BY <3>1, <3>3 DEF Origins
  <2> QED BY <2>1, <2>2
<1>3. a \in image => a \in image'
  BY <1>1, ChildGrows
<1>4. Bare(a) => Bare(a)'
  BY <1>1, BareStays
<1> QED BY <1>2, <1>3, <1>4

\* The run a session belongs to does not change once its child has started.
LEMMA NearestStays ==
  ASSUME TypeOK, CallShape, ChildShape, Kinds, [Next]_vars, Origins, NEW h \in Runs, Inside(h)
  PROVE  NearestObserved(h)' = NearestObserved(h) /\ Inside(h)'
<1>1. (h \in image' <=> h \in image) /\ Inside(h)'
  BY ChildGrows
<1>2. pc[h] # "idle"
  BY DEF ChildShape, ChildOf, Inside
<1>3. ASSUME NEW a \in Above[h]
      PROVE  a \in image' <=> a \in image
  <2>1. a \in Runs
    BY Nested
  <2>2. a \in image \/ Bare(a)
    BY <1>2 DEF Origins
  <2>3. a \in image => a \in image'
    BY <2>1, ChildGrows
  <2>4. Bare(a) => a \notin image' /\ a \notin image
    BY <2>1, BareStays DEF Bare
  <2> QED BY <2>2, <2>3, <2>4
<1>4. Chain(h) \cap image' = Chain(h) \cap image
  BY <1>1, <1>3 DEF Chain
<1>5. PICK S : S = Chain(h) \cap image
  OBVIOUS
<1>6. NearestObserved(h) = nearest(S)
  BY <1>5 DEF NearestObserved
<1>7. NearestObserved(h)' = nearest(S)
  <2>1. NearestObserved(h)' = nearest(Chain(h) \cap image')
    BY DEF NearestObserved, nearest, Chain
  <2> QED BY <1>4, <1>5, <2>1
<1> QED BY <1>1, <1>6, <1>7
\* The frames after an append are the ones before it and the new one.
LEMMA AppendAt ==
  ASSUME TypeOK, NEW f \in Frames, wal' = Append(wal, f), NEW i \in DOMAIN wal'
  PROVE  /\ Len(wal) \in Nat /\ DOMAIN wal = 1..Len(wal)
         /\ \/ i \in DOMAIN wal /\ wal'[i] = wal[i]
            \/ i = Len(wal) + 1 /\ wal'[i] = f
<1>1. wal \in Seq(Frames) /\ Len(wal) \in Nat
  BY DEF TypeOK, Frames
<1>2. DOMAIN wal = 1..Len(wal) /\ DOMAIN wal' = 1..(Len(wal) + 1) /\ wal'[Len(wal) + 1] = f
  BY <1>1
<1>3. \A j \in 1..Len(wal) : wal'[j] = wal[j]
  BY <1>1
<1> QED BY <1>1, <1>2, <1>3

\* The records in the log: RUN_ENDED after RUN_STARTED, a registration after its outer runs'.
Boundaries ==
  \A i, j \in DOMAIN wal : wal[i].run = wal[j].run /\ wal[i].kind = "ENDED" /\ wal[j].kind = "STARTED" => j < i
Nesting ==
  \A i, j \in DOMAIN wal :
    /\ wal[i].kind = "REGISTERED" /\ wal[j].kind = "REGISTERED"
    /\ wal[i].run \in Runs /\ wal[j].run \in Above[wal[i].run]
    => j < i

LEMMA BoundariesKept ==
  ASSUME TypeOK, CallShape, Kinds, Boundaries
  PROVE  Boundaries'
<1>1. CASE wal' = wal
  BY <1>1 DEF Boundaries
<1>2. ASSUME NEW f \in Frames, wal' = Append(wal, f), f.kind = "STARTED" => ~Has("ENDED", f.run)
      PROVE  Boundaries'
  <2>1. SUFFICES ASSUME NEW i \in DOMAIN wal', NEW j \in DOMAIN wal', wal'[i].run = wal'[j].run,
                        wal'[i].kind = "ENDED", wal'[j].kind = "STARTED"
                 PROVE  j < i
    BY DEF Boundaries
  <2>2. /\ Len(wal) \in Nat /\ DOMAIN wal = 1..Len(wal)
        /\ \/ i \in DOMAIN wal /\ wal'[i] = wal[i]
           \/ i = Len(wal) + 1 /\ wal'[i] = f
    BY <1>2, AppendAt
  <2>3. \/ j \in DOMAIN wal /\ wal'[j] = wal[j]
        \/ j = Len(wal) + 1 /\ wal'[j] = f
    BY <1>2, AppendAt
  <2>4. CASE j = Len(wal) + 1 /\ wal'[j] = f /\ i \in DOMAIN wal /\ wal'[i] = wal[i]
    <3>1. Has("ENDED", f.run)
      BY <2>1, <2>4 DEF Has
    <3> QED BY <1>2, <2>1, <2>4, <3>1
  <2>5. CASE j \in DOMAIN wal /\ wal'[j] = wal[j] /\ i \in DOMAIN wal /\ wal'[i] = wal[i]
    BY <2>1, <2>5 DEF Boundaries
  <2>6. CASE i = Len(wal) + 1 /\ wal'[i] = f
    BY <2>1, <2>2, <2>3, <2>6
  <2> QED BY <2>2, <2>3, <2>4, <2>5, <2>6
<1>3. ASSUME NEW m \in inbox, Recorded(m)
      PROVE  Boundaries'
  <2> DEFINE f == Frame(m.kind, m.run, None, pc[m.run] # m.kind)
  <2>1. m.run \in Runs /\ m.kind \in Appends /\ m = [run |-> m.run, kind |-> m.kind]
    BY <1>3 DEF TypeOK, Recorded
  <2>2. f \in Frames /\ f.kind = m.kind /\ f.run = m.run /\ wal' = Append(wal, f)
    BY <1>3, <2>1 DEF Frame, Frames, Recorded
  <2>3. m.kind = "STARTED" => ~Has("ENDED", m.run)
    BY <2>1 DEF CallShape, Sent, Served, At, Appends
  <2> HIDE DEF f
  <2> QED BY <1>2, <2>2, <2>3
<1>4. ASSUME NEW f \in Frames, Captured(f)
      PROVE  Boundaries'
  BY <1>2, <1>4 DEF Captured
<1> QED BY <1>1, <1>3, <1>4 DEF Kinds, Move, Quiet

\* A registration that is not yet done belongs to a run in which none has started.
LEMMA OutermostFirst ==
  ASSUME TypeOK, CallShape, ChildShape, Origins, NEW r \in Runs, Sent("REGISTERED", r), NEW a \in Above[r]
  PROVE  ~At("REGISTERED", a)
<1>1. pc[r] # "idle" /\ a \in Runs
  BY Nested DEF CallShape, Calls, After, Running, Ending, Gone
<1>2. a \in image \/ Bare(a)
  BY <1>1 DEF Origins
<1> QED BY <1>1, <1>2 DEF ChildShape, ChildOf, Served, Bare, Sent, Calls

LEMMA NestingKept ==
  ASSUME TypeOK, CallShape, ChildShape, Origins, Kinds, Nesting
  PROVE  Nesting'
<1>1. CASE wal' = wal
  BY <1>1 DEF Nesting
<1>2. ASSUME NEW f \in Frames, wal' = Append(wal, f),
             f.kind = "REGISTERED" => At("REGISTERED", f.run) /\ f.run \in Runs
      PROVE  Nesting'
  <2>1. SUFFICES ASSUME NEW i \in DOMAIN wal', NEW j \in DOMAIN wal', wal'[i].kind = "REGISTERED",
                        wal'[j].kind = "REGISTERED", wal'[i].run \in Runs, wal'[j].run \in Above[wal'[i].run]
                 PROVE  j < i
    BY DEF Nesting
  <2>2. /\ Len(wal) \in Nat /\ DOMAIN wal = 1..Len(wal)
        /\ \/ i \in DOMAIN wal /\ wal'[i] = wal[i]
           \/ i = Len(wal) + 1 /\ wal'[i] = f
    BY <1>2, AppendAt
  <2>3. \/ j \in DOMAIN wal /\ wal'[j] = wal[j]
        \/ j = Len(wal) + 1 /\ wal'[j] = f
    BY <1>2, AppendAt
  <2>4. CASE j = Len(wal) + 1 /\ wal'[j] = f
    <3>1. At("REGISTERED", f.run) /\ f.run \in Runs /\ f.run \in Above[wal'[i].run]
      BY <1>2, <2>1, <2>4
    <3>2. wal'[i] # f
      BY <2>1, <3>1, NestingAssumption
    <3>3. Sent("REGISTERED", wal'[i].run)
      BY <2>1, <2>2, <3>2 DEF Sent, Has
    <3> QED BY <2>1, <3>1, <3>3, OutermostFirst
  <2>5. CASE j \in DOMAIN wal /\ wal'[j] = wal[j] /\ i \in DOMAIN wal /\ wal'[i] = wal[i]
    BY <2>1, <2>5 DEF Nesting
  <2>6. CASE i = Len(wal) + 1 /\ j \in DOMAIN wal
    BY <2>2, <2>6
  <2> QED BY <2>2, <2>3, <2>4, <2>5, <2>6
<1>3. ASSUME NEW m \in inbox, Recorded(m)
      PROVE  Nesting'
  <2> DEFINE f == Frame(m.kind, m.run, None, pc[m.run] # m.kind)
  <2>1. m.run \in Runs /\ m.kind \in Appends /\ m = [run |-> m.run, kind |-> m.kind]
    BY <1>3 DEF TypeOK, Recorded
  <2>2. f \in Frames /\ f.kind = m.kind /\ f.run = m.run /\ wal' = Append(wal, f)
    BY <1>3, <2>1 DEF Frame, Frames, Recorded
  <2>3. m.kind = "REGISTERED" => At("REGISTERED", m.run)
    BY <2>1 DEF At
  <2> HIDE DEF f
  <2> QED BY <1>2, <2>1, <2>2, <2>3
<1>4. ASSUME NEW f \in Frames, Captured(f)
      PROVE  Nesting'
  BY <1>2, <1>4 DEF Captured
<1> QED BY <1>1, <1>3, <1>4 DEF Kinds, Move, Quiet

\* A call becomes served by its own handler's end.
LEMMA ServedByHandler ==
  ASSUME TypeOK, CallShape, Kinds, NEW r \in Runs, NEW k \in Calls, Served(k, r)', ~Served(k, r)
  PROVE  [run |-> r, kind |-> k] \in folding \ folding'
<1>1. Has(k, r)' /\ ~At(k, r)'
  BY DEF Served
<1>2. CASE Has(k, r)
  <2>1. At(k, r) /\ [run |-> r, kind |-> k] \notin inbox
    BY <1>2 DEF Served, CallShape
  <2> QED BY <1>1, <2>1 DEF At
<1>3. CASE ~Has(k, r)
  <2>1. ASSUME NEW m \in inbox, Recorded(m)
        PROVE  FALSE
    <3>1. m \in Requests
      BY DEF TypeOK, Requests
    <3>2. Frame(m.kind, m.run, None, pc[m.run] # m.kind) \in Frames
      BY <2>1, <3>1 DEF Recorded, Frame, Frames, Requests
    <3>3. m.kind = k /\ m.run = r
      BY <1>1, <1>3, <2>1, <3>2, AppendHas DEF Recorded, Frame
    <3>4. m = [run |-> r, kind |-> k] /\ m \in folding'
      BY <2>1, <3>1, <3>3 DEF Recorded, Requests
    <3> QED BY <1>1, <3>4 DEF At
  <2>2. ASSUME NEW f \in Frames, Captured(f)
        PROVE  FALSE
    <3>1. f.kind = k
      BY <1>1, <1>3, <2>2, AppendHas DEF Captured
    <3> QED BY <2>2, <3>1 DEF Captured, Calls
  <2>3. wal' # wal
    BY <1>1, <1>3 DEF Has
  <2> QED BY <2>1, <2>2, <2>3 DEF Kinds, Move, Quiet
<1> QED BY <1>2, <1>3
\* The registry changes when a handler folds its record and when the daemon starts.
LEMMA RegistrySteps ==
  ASSUME [Next]_vars
  PROVE  \/ \E m \in folding : FoldAndAcknowledge(m)
         \/ DaemonStarts
         \/ registry' = registry /\ ~up'
         \/ registry' = registry /\ folding \subseteq folding' /\ up' = up
<1>1. CASE UNCHANGED vars
  BY <1>1 DEF vars, daemon
<1>2. CASE Server
  BY <1>2 DEF Server, ReserveRun, ReleaseRun, AppendObservation, daemon
<1>3. ASSUME NEW r \in Runs,
             \/ Wrapper(r) \/ Shim(r) \/ ChildExits(r)
             \/ Run(r) \/ runUnobserved(r) \/ ShimDies(r) \/ WrapperDies(r)
      PROVE  registry' = registry /\ folding \subseteq folding' /\ up' = up
  BY <1>3 DEF Wrapper, Shim, ChildExits, Run, runUnobserved, ShimDies, WrapperDies, waitUnobserved, CallFails,
         launchObserved, readIdentityFails, writeAck, readLaunchStatus, waitFailedLaunch, wait,
         settleForDrain, writeIdentity, ShimDeclined, ShimMarks, ShimExecs, daemon, shimStep
<1>4. CASE DaemonDies
  BY <1>4 DEF DaemonDies, daemon
<1>5. CASE \/ Compact
           \/ \E s \in Sessions : StartSession(s) \/ CaptureUsage(s) \/ Hook(s)
           \/ \E r \in Runs, s \in Sessions : discoverAndBind(r, s)
  BY <1>5 DEF Compact, StartSession, CaptureUsage, Hook, Decide, CaptureSessionLifecycle, discoverAndBind, daemon
<1> QED BY <1>1, <1>2, <1>3, <1>4, <1>5 DEF Next, Progress

\* What folding a record does.
LEMMA FoldSteps ==
  ASSUME TypeOK, NEW m \in folding, FoldAndAcknowledge(m)
  PROVE  /\ registry'.registered = registry.registered \cup IF m.kind = "REGISTERED" THEN {m.run} ELSE {}
         /\ \A r \in Runs :
              registry'.boundaries[r] =
                IF m.run = r /\ m.kind \in {"STARTED", "ENDED"}
                THEN foldRunBoundary(registry.boundaries[r], m.kind) ELSE registry.boundaries[r]
<1>1. registry' = Fold(registry, Frame(m.kind, m.run, None, FALSE)) /\ m.run \in Runs
  BY DEF FoldAndAcknowledge, TypeOK
<1>2. registry \in [boundaries : [Runs -> {"unknown", "open", "closed"}], registered : SUBSET Runs]
  BY DEF TypeOK
<1>3. CASE m.kind = "REGISTERED"
  <2>1. registry' = [registry EXCEPT !.registered = registry.registered \cup {m.run}]
    BY <1>1, <1>3 DEF Fold, Frame
  <2>2. registry'.registered = registry.registered \cup {m.run} /\ registry'.boundaries = registry.boundaries
    BY <1>2, <2>1
  <2> QED BY <1>3, <2>2
<1>4. CASE m.kind \in {"STARTED", "ENDED"}
  <2> DEFINE b == foldRunBoundary(registry.boundaries[m.run], m.kind)
  <2>1. registry' = [registry EXCEPT !.boundaries[m.run] = b]
    BY <1>1, <1>4 DEF Fold, Frame
  <2> HIDE DEF b
  <2>2. registry'.registered = registry.registered /\ registry'.boundaries = [registry.boundaries EXCEPT ![m.run] = b]
    BY <1>2, <2>1
  <2>3. \A r \in Runs : registry'.boundaries[r] = IF m.run = r THEN b ELSE registry.boundaries[r]
    BY <1>1, <1>2, <2>2
  <2> QED BY <1>4, <2>2, <2>3 DEF b
<1>5. CASE m.kind \notin {"REGISTERED", "STARTED", "ENDED"}
  <2>1. registry' = registry
    BY <1>1, <1>5 DEF Fold, Frame
  <2> QED BY <1>5, <2>1
<1> QED BY <1>3, <1>4, <1>5

\* What a record is read back from.
LEMMA Replayed ==
  ASSUME TypeOK, NEW k, NEW r
  PROVE  (\E i \in DOMAIN Live : Live[i].kind = k /\ Live[i].run = r)
         <=> (\E i \in DOMAIN wal : i > base /\ wal[i].kind = k /\ wal[i].run = r)
<1>0. wal \in Seq(Frames) /\ base \in 0..Len(wal) /\ Len(wal) \in Nat /\ base \in Nat
  BY DEF TypeOK, Frames
<1>1. ASSUME NEW i \in DOMAIN Live, Live[i].kind = k, Live[i].run = r
      PROVE  \E j \in DOMAIN wal : j > base /\ wal[j].kind = k /\ wal[j].run = r
  <2>1. base + i \in DOMAIN wal /\ Live[i] = wal[base + i]
    BY LiveRecorded
  <2>2. i \in 1..Len(Live) /\ Len(Live) = Len(wal) - base
    BY <1>0 DEF Live
  <2>3. base + i > base
    BY <1>0, <2>2
  <2> QED BY <1>1, <2>1, <2>3
<1>2. ASSUME NEW j \in DOMAIN wal, j > base, wal[j].kind = k, wal[j].run = r
      PROVE  \E i \in DOMAIN Live : Live[i].kind = k /\ Live[i].run = r
  <2>1. Len(Live) = Len(wal) - base /\ DOMAIN Live = 1..Len(Live)
    BY <1>0 DEF Live
  <2>2. j - base \in DOMAIN Live
    BY <1>0, <1>2, <2>1
  <2>3. base + (j - base) = j
    BY <1>0, <1>2
  <2>4. Live[j - base] = wal[j]
    BY <2>2, <2>3, LiveRecorded
  <2> QED BY <1>2, <2>2, <2>4
<1> QED BY <1>1, <1>2

\* What the registry knows of the registrations.
Known ==
  /\ \A r \in registry.registered : Has("REGISTERED", r)
  /\ up => \A r \in Runs : Served("REGISTERED", r) /\ Above[r] \cap registry.registered # {}
                            => r \in registry.registered

LEMMA KnownKept ==
  ASSUME TypeOK, CallShape, ChildShape, Origins, Kinds, Nesting, Known, [Next]_vars
  PROVE  Known'
<1>0. registry.registered \subseteq Runs /\ "REGISTERED" \in Calls /\ None \notin Runs
  BY CapacityAssumption DEF TypeOK, Calls
<1>1. \A r \in registry.registered : Has("REGISTERED", r)'
  BY <1>0, StepSends DEF Known
<1>2. CASE registry' = registry /\ ~up'
  BY <1>1, <1>2 DEF Known
<1>3. CASE registry' = registry /\ folding \subseteq folding' /\ up' = up
  <2>1. \A r \in Runs : Served("REGISTERED", r)' => Served("REGISTERED", r)
    BY <1>0, <1>3, ServedByHandler
  <2> QED BY <1>1, <1>3, <2>1 DEF Known
<1>4. ASSUME NEW m \in folding, FoldAndAcknowledge(m)
      PROVE  Known'
  <2>1. registry'.registered = registry.registered \cup IF m.kind = "REGISTERED" THEN {m.run} ELSE {}
    BY <1>4, FoldSteps
  <2>2. m.run \in Runs /\ m = [run |-> m.run, kind |-> m.kind] /\ Has(m.kind, m.run) /\ m.kind \in Calls /\ up
    BY DEF TypeOK, CallShape
  <2>3. Has(m.kind, m.run)'
    BY <2>2, StepSends
  <2>4. \A r \in registry'.registered : Has("REGISTERED", r)'
    BY <1>1, <2>1, <2>3
  <2>5. ASSUME NEW r \in Runs, Served("REGISTERED", r)', NEW a \in Above[r], a \in registry'.registered
        PROVE  r \in registry'.registered
    <3>1. CASE Served("REGISTERED", r)
      <4>2. ~At("REGISTERED", a)
        BY <3>1, OutermostFirst DEF Served, Sent
      <4>3. m.kind = "REGISTERED" => a # m.run
        BY <2>2, <4>2 DEF At
      <4>4. a \in registry.registered
        BY <2>1, <2>5, <4>3
      <4> QED BY <2>1, <2>2, <3>1, <4>4 DEF Known
    <3>2. CASE ~Served("REGISTERED", r)
      <4>1. [run |-> r, kind |-> "REGISTERED"] \in folding \ folding'
        BY <1>0, <2>5, <3>2, ServedByHandler
      <4>2. folding' = folding \ {m}
        BY <1>4 DEF FoldAndAcknowledge
      <4>3. m = [run |-> r, kind |-> "REGISTERED"]
        BY <4>1, <4>2
      <4>4. m.run = r /\ m.kind = "REGISTERED"
        BY <4>3
      <4> QED BY <2>1, <4>4
    <3> QED BY <3>1, <3>2
  <2> QED BY <2>4, <2>5 DEF Known
<1>5. CASE DaemonStarts
  <2>1. UNCHANGED <<wal, base, inbox, folding>> /\ registry' = ReplayWAL(Live)
    BY <1>5 DEF DaemonStarts, log
  <2>2. \A r \in Runs : r \in registry'.registered <=>
          \E i \in DOMAIN wal : i > base /\ wal[i].kind = "REGISTERED" /\ wal[i].run = r
    <3>1. registry'.registered = {r \in Runs : \E i \in DOMAIN Live : Live[i].kind = "REGISTERED" /\ Live[i].run = r}
      BY <2>1 DEF ReplayWAL
    <3> QED BY <3>1, Replayed
  <2>3. registry'.registered \subseteq Runs
    BY <2>1 DEF ReplayWAL
  <2>4. \A r \in registry'.registered : Has("REGISTERED", r)'
    <3> TAKE r \in registry'.registered
    <3>1. \E i \in DOMAIN wal : wal[i].kind = "REGISTERED" /\ wal[i].run = r
      BY <2>2, <2>3
    <3> QED BY <2>1, <3>1 DEF Has
  <2>5. ASSUME NEW r \in Runs, Served("REGISTERED", r)', NEW a \in Above[r], a \in registry'.registered
        PROVE  r \in registry'.registered
    <3>1. PICK i \in DOMAIN wal : wal[i].kind = "REGISTERED" /\ wal[i].run = r
      BY <2>1, <2>5 DEF Served, Has
    <3>2. PICK j \in DOMAIN wal : j > base /\ wal[j].kind = "REGISTERED" /\ wal[j].run = a
      BY <2>2, <2>3, <2>5
    <3>3. j < i
      BY <3>1, <3>2 DEF Nesting
    <3>4. i \in Nat /\ j \in Nat /\ base \in Nat
      BY <3>1, <3>2 DEF TypeOK
    <3> QED BY <2>2, <3>1, <3>2, <3>3, <3>4
  <2> QED BY <2>4, <2>5 DEF Known
<1> QED BY <1>2, <1>3, <1>4, <1>5, RegistrySteps

LEMMA OpenKept ==
  ASSUME TypeOK, CallShape, Kinds, Boundaries, NeverFalselyOpen, CallShape', [Next]_vars
  PROVE  NeverFalselyOpen'
<1>0. {"STARTED", "ENDED"} \subseteq Calls \cap Appends
  BY DEF Calls, Appends
<1> SUFFICES ASSUME up', NEW r \in Runs, registry'.boundaries[r] = "open", Has("ENDED", r)'
             PROVE  [run |-> r, kind |-> "ENDED"] \in folding'
  BY DEF NeverFalselyOpen
<1> DEFINE e == [run |-> r, kind |-> "ENDED"]
<1>1. ASSUME ~Has("ENDED", r)
      PROVE  e \in folding'
  <2>1. CASE Served("ENDED", r)'
    BY <1>0, <1>1, <2>1, ServedByHandler DEF CallShape, Served
  <2>2. CASE ~Served("ENDED", r)'
    BY <1>0, <2>2 DEF Served, At, CallShape
  <2> QED BY <2>1, <2>2
<1>2. CASE registry' = registry /\ folding \subseteq folding' /\ up' = up
  BY <1>1, <1>2 DEF NeverFalselyOpen
<1>3. ASSUME NEW m \in folding, FoldAndAcknowledge(m), Has("ENDED", r)
      PROVE  e \in folding'
  <2>1. registry'.boundaries[r] =
                IF m.run = r /\ m.kind \in {"STARTED", "ENDED"}
                THEN foldRunBoundary(registry.boundaries[r], m.kind) ELSE registry.boundaries[r]
    BY <1>3, FoldSteps
  <2>2. m = [run |-> m.run, kind |-> m.kind] /\ up /\ m.run \in Runs
    BY DEF TypeOK, CallShape
  <2>3. m.run = r => m.kind # "STARTED"
    <3>1. ~At("STARTED", r)
      BY <1>0, <1>3 DEF CallShape, Sent, Served
    <3> QED BY <2>2, <3>1 DEF At
  <2>4. m.run = r => m.kind # "ENDED"
    BY <2>1 DEF foldRunBoundary
  <2>5. registry.boundaries[r] = "open" /\ m # e
    <3>1. e.run = r /\ e.kind = "ENDED"
      OBVIOUS
    <3> QED BY <2>1, <2>3, <2>4, <3>1
  <2>6. e \in folding /\ folding' = folding \ {m}
    BY <1>3, <2>2, <2>5 DEF NeverFalselyOpen, FoldAndAcknowledge
  <2> QED BY <2>5, <2>6
<1>4. CASE DaemonStarts
  <2>1. UNCHANGED <<wal, base>> /\ registry' = ReplayWAL(Live)
    BY <1>4 DEF DaemonStarts, log
  <2> DEFINE seen(k) == \E i \in DOMAIN Live : Live[i].kind = k /\ Live[i].run = r
  <2>2. registry'.boundaries[r] = IF seen("ENDED") THEN "closed" ELSE IF seen("STARTED") THEN "open" ELSE "unknown"
    BY <2>1 DEF ReplayWAL
  <2>3. ~seen("ENDED") /\ seen("STARTED")
    BY <2>2
  <2>4. PICK j \in DOMAIN wal : j > base /\ wal[j].kind = "STARTED" /\ wal[j].run = r
    BY <2>3, Replayed
  <2>5. PICK i \in DOMAIN wal : wal[i].kind = "ENDED" /\ wal[i].run = r
    BY <2>1 DEF Has
  <2>6. j < i
    BY <2>4, <2>5 DEF Boundaries
  <2>7. i \in Nat /\ j \in Nat /\ base \in Nat
    BY <2>4, <2>5 DEF TypeOK
  <2>8. i > base
    BY <2>4, <2>6, <2>7
  <2> QED BY <2>3, <2>5, <2>8, Replayed
<1> QED BY <1>1, <1>2, <1>3, <1>4, RegistrySteps
\* The stages of a wrapper that has seen its child start.
Waited == {"wait", "EXITED", "settle"} \cup Ending
\* What a session's hook has found out, what the session is bound to, and what a frame says of one.
HookOf(s) ==
  /\ hook[s].pc \in {"decide", "capture"} => home[s] # None
  /\ hook[s].env # None => hook[s].env = home[s] /\ home[s] \in image
  /\ hook[s].run # None => hook[s].run = NearestObserved(home[s]) /\ home[s] \in Runs /\ Inside(home[s])
BindingOf(s) == sessionRuns[s] # None => pc[sessionRuns[s]] \in Waited /\ s \notin pre[sessionRuns[s]]
FrameOf(f) ==
  /\ f.kind = "SESSION" /\ f.run # None =>
       /\ f.session \in Sessions /\ home[f.session] \in Runs /\ Inside(home[f.session])
       /\ f.run = NearestObserved(home[f.session])
  /\ f.kind = "USAGE" /\ f.run # None =>
       /\ f.session \in Sessions
       /\ pc[f.run] \in Waited /\ f.session \notin pre[f.run]

\* A session's file stays where it is.
LEMMA HomeStays ==
  ASSUME TypeOK, [Next]_vars, NEW s \in Sessions, home[s] # None
  PROVE  home'[s] = home[s]
<1>1. CASE UNCHANGED vars
  BY <1>1 DEF vars, sessions
<1>2. CASE Server
  BY <1>2 DEF Server, ReserveRun, ReleaseRun, AppendObservation, FoldAndAcknowledge, DaemonStarts, sessions
<1>3. ASSUME NEW r \in Runs,
             \/ Wrapper(r) \/ Shim(r) \/ ChildExits(r)
             \/ Run(r) \/ runUnobserved(r) \/ ShimDies(r) \/ WrapperDies(r)
      PROVE  home' = home
  BY <1>3 DEF Wrapper, Shim, ChildExits, Run, runUnobserved, ShimDies, WrapperDies, waitUnobserved, CallFails,
         launchObserved, readIdentityFails, writeAck, readLaunchStatus, waitFailedLaunch, wait,
         settleForDrain, writeIdentity, ShimDeclined, ShimMarks, ShimExecs, sessions, shimStep
<1>4. CASE \/ DaemonDies \/ Compact
           \/ \E t \in Sessions : CaptureUsage(t) \/ Hook(t)
           \/ \E r \in Runs, t \in Sessions : discoverAndBind(r, t)
  BY <1>4 DEF DaemonDies, Compact, CaptureUsage, Hook, Decide, CaptureSessionLifecycle, discoverAndBind, sessions
<1>5. ASSUME NEW t \in Sessions, StartSession(t)
      PROVE  home'[s] = home[s]
  BY <1>5 DEF StartSession, TypeOK
<1> QED BY <1>1, <1>2, <1>3, <1>4, <1>5 DEF Next, Progress

\* A wrapper that has seen its child start has taken its list of earlier sessions.
LEMMA WaitedStays ==
  ASSUME TypeOK, CallShape, Kinds, [Next]_vars, NEW r \in Runs, pc[r] \in Waited
  PROVE  pc'[r] \in Waited /\ pre'[r] = pre[r]
<1>0. pc'[r] \in Waited
  <2>1. pc'[r] = pc[r] \/ Edge(pc[r], pc'[r])
    BY StepSends
  <2> QED BY <2>1 DEF Edge, Waited, Ending, Gone
<1>1. CASE UNCHANGED vars
  BY <1>0, <1>1 DEF vars, sessions
<1>2. CASE Server
  BY <1>0, <1>2 DEF Server, ReserveRun, ReleaseRun, AppendObservation, FoldAndAcknowledge, DaemonStarts, sessions
<1>3. ASSUME NEW x \in Runs,
             \/ Shim(x) \/ ChildExits(x)
             \/ Run(x) \/ runUnobserved(x) \/ ShimDies(x) \/ WrapperDies(x)
             \/ waitUnobserved(x) \/ CallFails(x) \/ readIdentityFails(x) \/ writeAck(x) \/ readLaunchStatus(x)
             \/ waitFailedLaunch(x) \/ wait(x) \/ settleForDrain(x)
      PROVE  pre' = pre
  BY <1>3 DEF Shim, ChildExits, Run, runUnobserved, ShimDies, WrapperDies, waitUnobserved, CallFails,
         readIdentityFails, writeAck, readLaunchStatus, waitFailedLaunch, wait,
         settleForDrain, writeIdentity, ShimDeclined, ShimMarks, ShimExecs, sessions, shimStep
<1>4. ASSUME NEW x \in Runs, launchObserved(x)
      PROVE  pre'[r] = pre[r]
  <2>1. x # r
    BY <1>4 DEF launchObserved, Waited, Ending, Gone
  <2> QED BY <1>4, <2>1 DEF launchObserved, TypeOK
<1>5. CASE \/ DaemonDies \/ Compact
           \/ \E s \in Sessions : StartSession(s) \/ CaptureUsage(s) \/ Hook(s)
           \/ \E x \in Runs, s \in Sessions : discoverAndBind(x, s)
  BY <1>0, <1>5 DEF DaemonDies, Compact, StartSession, CaptureUsage, Hook, Decide, CaptureSessionLifecycle,
         discoverAndBind, sessions
<1> QED BY <1>0, <1>1, <1>2, <1>3, <1>4, <1>5 DEF Next, Progress, Wrapper

\* The run of a session that is in a child.
LEMMA SessionStays ==
  ASSUME TypeOK, CallShape, ChildShape, Kinds, [Next]_vars, Origins, NEW s \in Sessions,
         home[s] \in Runs, Inside(home[s])
  PROVE  /\ home'[s] = home[s] /\ Inside(home[s])'
         /\ \A x : x = NearestObserved(home[s]) => x = NearestObserved(home[s])'
<1>1. PICK h \in Runs : h = home[s]
  OBVIOUS
<1>2. home'[s] = h
  BY <1>1, HomeStays, CapacityAssumption
<1>3. NearestObserved(h)' = NearestObserved(h) /\ Inside(h)'
  BY <1>1, NearestStays
<1>4. Inside(home[s])'
  BY <1>2, <1>3 DEF Inside
<1>5. NearestObserved(home[s])' = NearestObserved(h)'
  BY <1>2 DEF NearestObserved, nearest, Chain
<1> QED BY <1>1, <1>2, <1>3, <1>4, <1>5

LEMMA FrameStays ==
  ASSUME TypeOK, CallShape, ChildShape, Kinds, [Next]_vars, Origins, NEW f \in Frames, FrameOf(f)
  PROVE  FrameOf(f)'
<1>1. CASE f.kind = "SESSION" /\ f.run # None
  <2>1. f.session \in Sessions /\ home[f.session] \in Runs /\ Inside(home[f.session])
        /\ f.run = NearestObserved(home[f.session])
    BY <1>1 DEF FrameOf
  <2>2. home'[f.session] = home[f.session] /\ Inside(home[f.session])' /\ f.run = NearestObserved(home[f.session])'
    BY <2>1, SessionStays
  <2> QED BY <1>1, <2>1, <2>2 DEF FrameOf
<1>2. CASE f.kind = "USAGE" /\ f.run # None
  <2>1. f.run \in Runs
    BY <1>2 DEF Frames
  <2> QED BY <1>2, <2>1, WaitedStays DEF FrameOf
<1>3. CASE ~(f.kind = "USAGE" /\ f.run # None) /\ ~(f.kind = "SESSION" /\ f.run # None)
  BY <1>3 DEF FrameOf
<1> QED BY <1>1, <1>2, <1>3

LEMMA HookStays ==
  ASSUME TypeOK, CallShape, ChildShape, Kinds, [Next]_vars, Origins, NEW s \in Sessions, HookOf(s),
         hook'[s] = hook[s]
  PROVE  HookOf(s)'
<1>0. hook[s].env \in Runs \cup {None} /\ None \notin Runs
  BY CapacityAssumption DEF TypeOK
<1>1. home[s] # None => home'[s] = home[s]
  BY HomeStays
<1>2. hook[s].env # None => hook[s].env = home'[s] /\ home'[s] \in image'
  BY <1>0, <1>1, ChildGrows DEF HookOf
<1>3. hook[s].run # None => hook[s].run = NearestObserved(home[s])' /\ home'[s] \in Runs /\ Inside(home[s])'
  BY SessionStays DEF HookOf
<1> QED BY <1>1, <1>2, <1>3 DEF HookOf
\* An observed run is the nearest one to itself.
LEMMA ObservedItself ==
  ASSUME NEW r \in Runs, r \in image
  PROVE  NearestObserved(r) = r
<1>1. Chain(r) \cap image \subseteq Chain(r) /\ r \in Chain(r) \cap image
  BY Nested
<1> QED BY <1>1, NearestIs DEF NearestObserved

\* A hook decides for the nearest observed run above its session, or for none.
LEMMA DecisionHonest ==
  ASSUME TypeOK, CallShape, ChildShape, Known, up, NEW s \in Sessions, HookOf(s), decision(s) # None
  PROVE  decision(s) = NearestObserved(home[s]) /\ home[s] \in Runs /\ Inside(home[s])
<1>1. ASSUME NEW x \in Runs, proc[x] = "image", x \in registry.registered
      PROVE  x \in image
  <2>1. Sent("REGISTERED", x) /\ "REGISTERED" \in Calls
    BY <1>1 DEF Known, Sent, Calls
  <2> QED BY <1>1, <2>1 DEF ChildShape, ChildOf
<1>2. ASSUME proveLineage(s) # None
      PROVE  proveLineage(s) = NearestObserved(home[s]) /\ home[s] \in Runs /\ Inside(home[s])
  <2> DEFINE r == home[s]
             a == proveLineage(s)
             found == registeredAbove(s)
  <2>1. r \in Runs /\ found # {} /\ a = nearest(found)
    BY <1>2 DEF proveLineage, nearest
  <2>2. found \subseteq Chain(r)
    BY DEF registeredAbove
  <2>3. a \in found /\ found \subseteq Chain(a) /\ a \in Chain(r) /\ a \in Runs
    BY <2>1, <2>2, NearestIs, Nested
  <2>4. /\ proc[a] = "image" /\ a \in registry.registered
        /\ \A b \in Chain(r) : a \in Above[b] => proc[b] = "image" /\ pc[b] \notin Gone
    BY <2>3 DEF registeredAbove, LookupRegistered
  <2>5. a \in image
    BY <1>1, <2>3, <2>4
  <2>6. Inside(r)
    <3>1. proc[r] = "image"
      BY <2>1, <2>3, <2>4, Nested DEF Chain
    <3> QED BY <3>1 DEF Inside
  <2>7. ASSUME NEW b \in Chain(r) \cap image
        PROVE  b \in Chain(a)
    <3>1. SUFFICES ASSUME b \notin Chain(a)
                   PROVE  FALSE
      OBVIOUS
    <3>2. a \in Above[b] /\ b \in Runs
      <4>1. {a, b} \subseteq Chain(r) /\ {a, b} # {} /\ b \in Runs
        BY <2>1, <2>3, Nested
      <4>2. PICK S : S = {a, b}
        OBVIOUS
      <4>3. nearest(S) \in {a, b} /\ {a, b} \subseteq Chain(nearest(S))
        BY <2>1, <4>1, <4>2, NearestIs
      <4> QED BY <3>1, <4>1, <4>3 DEF Chain
    <3>3. proc[b] = "image" /\ pc[b] \notin Gone
      BY <2>4, <3>2
    <3>4. b \in registry.registered
      <4>1. Served("REGISTERED", b)
        BY <2>7, <3>2 DEF ChildShape, ChildOf
      <4> QED BY <2>4, <3>2, <4>1 DEF Known
    <3>5. \A c \in Chain(r) : b \in Above[c] => proc[c] = "image" /\ pc[c] \notin Gone
      <4> SUFFICES ASSUME NEW c \in Chain(r), b \in Above[c]
                   PROVE  proc[c] = "image" /\ pc[c] \notin Gone
        OBVIOUS
      <4>1. c \in Runs
        BY <2>1, Nested
      <4>2. a \in Above[c]
        BY <3>2, <4>1, NestingAssumption
      <4> QED BY <2>4, <4>2
    <3>6. b \in found
      BY <3>3, <3>4, <3>5 DEF registeredAbove, LookupRegistered
    <3> QED BY <2>3, <3>1, <3>6
  <2>8. a \in Chain(r) \cap image /\ Chain(r) \cap image \subseteq Chain(a)
    BY <2>3, <2>5, <2>7
  <2>9. a = nearest(Chain(r) \cap image)
    BY <2>1, <2>8, NearestIs
  <2> QED BY <2>1, <2>6, <2>9 DEF NearestObserved
<1>3. CASE hook[s].env = None
  BY <1>2, <1>3 DEF decision
<1>4. CASE hook[s].env # None
  <2>1. decision(s) = hook[s].env /\ hook[s].env = home[s] /\ home[s] \in image
    BY <1>4 DEF decision, HookOf
  <2>2. home[s] \in Runs
    BY <2>1 DEF TypeOK
  <2>3. Inside(home[s])
    <3>1. proc[home[s]] \in {"none", "spawned", "reported", "acked", "marked", "image", "dead"}
      BY <2>2 DEF TypeOK
    <3> QED BY <2>1, <2>2, <3>1 DEF ChildShape, ChildOf, Inside
  <2>4. NearestObserved(home[s]) = home[s]
    BY <2>1, <2>2, ObservedItself
  <2> QED BY <2>1, <2>2, <2>3, <2>4
<1> QED BY <1>3, <1>4

LEMMA HooksKept ==
  ASSUME TypeOK, CallShape, ChildShape, Kinds, [Next]_vars, Origins, Known, NEW s \in Sessions, HookOf(s)
  PROVE  HookOf(s)'
<1>0. /\ hook \in [Sessions -> [pc : {"idle", "decide", "capture", "done"},
                              env : Runs \cup {None}, run : Runs \cup {None}]]
      /\ home \in [Sessions -> Runs \cup {"outside", None}]
      /\ None \notin Runs \cup {"outside"}
  BY CapacityAssumption DEF TypeOK
<1>1. CASE hook'[s] = hook[s]
  BY <1>1, HookStays
<1>2. CASE StartSession(s)
  <2>1. home[s] = None /\ image' = image
    BY <1>2 DEF StartSession, child
  <2>2. hook[s].env = None /\ hook[s].run = None
    BY <1>0, <2>1 DEF HookOf
  <2>3. ASSUME NEW r \in Runs, NEW env \in {withRunID(r), None}, home' = [home EXCEPT ![s] = r],
               hook' = [hook EXCEPT ![s] = [pc |-> "decide", env |-> env, run |-> None]]
        PROVE  HookOf(s)'
    <3>1. home'[s] = r /\ hook'[s].env = env /\ hook'[s].run = None
      BY <1>0, <2>3
    <3>2. env # None => env = r /\ r \in image
      BY <2>3 DEF withRunID
    <3> QED BY <1>0, <2>1, <3>1, <3>2 DEF HookOf
  <2>4. ASSUME home' = [home EXCEPT ![s] = "outside"], hook' = [hook EXCEPT ![s].pc = "decide"]
        PROVE  HookOf(s)'
    <3>1. home'[s] = "outside" /\ hook'[s].env = hook[s].env /\ hook'[s].run = hook[s].run
      BY <1>0, <2>4
    <3> QED BY <1>0, <2>2, <3>1 DEF HookOf
  <2> QED BY <1>2, <2>3, <2>4 DEF StartSession
<1>3. CASE Decide(s)
  <2>1. UNCHANGED <<home, proc, image>> /\ hook[s].pc = "decide"
    BY <1>3 DEF Decide, child
  <2>2. PICK run : /\ hook' = [hook EXCEPT ![s] = [hook[s] EXCEPT !.pc = "capture", !.run = run]]
                   /\ run # None => up /\ run = decision(s)
    BY <1>3 DEF Decide
  <2>3. hook'[s].env = hook[s].env /\ hook'[s].run = run
    <3>1. hook'[s] = [hook[s] EXCEPT !.pc = "capture", !.run = run]
      BY <1>0, <2>2
    <3>2. hook[s] \in [pc : {"idle", "decide", "capture", "done"}, env : Runs \cup {None}, run : Runs \cup {None}]
      BY <1>0
    <3> QED BY <3>1, <3>2
  <2>4. run # None => run = NearestObserved(home[s]) /\ home[s] \in Runs /\ Inside(home[s])
    BY <2>2, DecisionHonest
  <2>5. home[s] # None /\ (hook[s].env # None => hook[s].env = home[s] /\ home[s] \in image)
    BY <2>1 DEF HookOf
  <2>6. run # None => run = NearestObserved(home[s])' /\ home'[s] \in Runs /\ Inside(home[s])'
    BY <2>1, <2>4 DEF NearestObserved, Inside, nearest, Chain
  <2> QED BY <2>1, <2>3, <2>5, <2>6 DEF HookOf
<1>4. CASE CaptureSessionLifecycle(s)
  <2>1. hook'[s] = [pc |-> "done", env |-> None, run |-> None]
    BY <1>0, <1>4 DEF CaptureSessionLifecycle
  <2>2. hook'[s].pc = "done" /\ hook'[s].env = None /\ hook'[s].run = None
    BY <2>1
  <2> QED BY <2>2 DEF HookOf
<1>5. \/ hook'[s] = hook[s] \/ StartSession(s) \/ Decide(s) \/ CaptureSessionLifecycle(s)
  <2>1. CASE UNCHANGED vars
    BY <2>1 DEF vars, sessions
  <2>2. CASE Server
    BY <2>2 DEF Server, ReserveRun, ReleaseRun, AppendObservation, FoldAndAcknowledge, DaemonStarts, sessions
  <2>3. ASSUME NEW r \in Runs,
               \/ Wrapper(r) \/ Shim(r) \/ ChildExits(r)
               \/ Run(r) \/ runUnobserved(r) \/ ShimDies(r) \/ WrapperDies(r)
        PROVE  hook' = hook
    BY <2>3 DEF Wrapper, Shim, ChildExits, Run, runUnobserved, ShimDies, WrapperDies, waitUnobserved, CallFails,
         launchObserved, readIdentityFails, writeAck, readLaunchStatus, waitFailedLaunch, wait,
         settleForDrain, writeIdentity, ShimDeclined, ShimMarks, ShimExecs, sessions, shimStep
  <2>4. CASE \/ DaemonDies \/ Compact
             \/ \E t \in Sessions : CaptureUsage(t)
             \/ \E r \in Runs, t \in Sessions : discoverAndBind(r, t)
    BY <2>4 DEF DaemonDies, Compact, CaptureUsage, discoverAndBind, sessions
  <2>5. ASSUME NEW t \in Sessions, StartSession(t) \/ Hook(t), t # s
        PROVE  hook'[s] = hook[s]
    BY <1>0, <2>5 DEF StartSession, Hook, Decide, CaptureSessionLifecycle
  <2> QED BY <2>1, <2>2, <2>3, <2>4, <2>5 DEF Next, Progress, Hook
<1> QED BY <1>1, <1>2, <1>3, <1>4, <1>5

LEMMA BindingsKept ==
  ASSUME TypeOK, CallShape, Kinds, [Next]_vars, NEW s \in Sessions, BindingOf(s)
  PROVE  BindingOf(s)'
<1>1. CASE sessionRuns'[s] = sessionRuns[s]
  <2>1. sessionRuns[s] \in Runs \cup {None}
    BY DEF TypeOK
  <2> QED BY <1>1, <2>1, WaitedStays DEF BindingOf
<1>2. CASE sessionRuns'[s] = None
  BY <1>2 DEF BindingOf
<1>3. ASSUME NEW r \in Runs, discoverAndBind(r, s)
      PROVE  BindingOf(s)'
  <2>1. sessionRuns'[s] = r /\ pc[r] = "wait" /\ s \notin pre[r]
    BY <1>3 DEF discoverAndBind, unbound, TypeOK
  <2>2. pc'[r] \in Waited /\ pre'[r] = pre[r]
    BY <2>1, WaitedStays DEF Waited
  <2> QED BY <2>1, <2>2 DEF BindingOf
<1>4. \/ sessionRuns'[s] = sessionRuns[s] \/ sessionRuns'[s] = None
      \/ \E r \in Runs : discoverAndBind(r, s)
  <2>1. CASE UNCHANGED vars
    BY <2>1 DEF vars, daemon
  <2>2. CASE Server
    BY <2>2 DEF Server, ReserveRun, ReleaseRun, AppendObservation, FoldAndAcknowledge, DaemonStarts, daemon
  <2>3. ASSUME NEW r \in Runs,
               \/ Wrapper(r) \/ Shim(r) \/ ChildExits(r)
               \/ Run(r) \/ runUnobserved(r) \/ ShimDies(r) \/ WrapperDies(r)
        PROVE  sessionRuns' = sessionRuns
    BY <2>3 DEF Wrapper, Shim, ChildExits, Run, runUnobserved, ShimDies, WrapperDies, waitUnobserved, CallFails,
         launchObserved, readIdentityFails, writeAck, readLaunchStatus, waitFailedLaunch, wait,
         settleForDrain, writeIdentity, ShimDeclined, ShimMarks, ShimExecs, daemon, shimStep
  <2>4. CASE \/ DaemonDies \/ Compact
             \/ \E t \in Sessions : StartSession(t) \/ CaptureUsage(t) \/ Hook(t)
    BY <2>4 DEF DaemonDies, Compact, CaptureUsage, StartSession, Hook, Decide, CaptureSessionLifecycle, daemon
  <2>5. ASSUME NEW r \in Runs, NEW t \in Sessions, discoverAndBind(r, t), t # s
        PROVE  sessionRuns'[s] = sessionRuns[s]
    BY <2>5 DEF discoverAndBind, TypeOK
  <2> QED BY <2>1, <2>2, <2>3, <2>4, <2>5 DEF Next, Progress
<1> QED BY <1>1, <1>2, <1>3, <1>4
\* A frame is written by a handler, by a hook with what it decided or by the watcher with the binding.
LEMMA FrameSources ==
  ASSUME TypeOK, [Next]_vars
  PROVE  \/ wal' = wal
         \/ \E m \in inbox : Recorded(m)
         \/ \E s \in Sessions : /\ wal' = Append(wal, Frame("SESSION", hook[s].run, s, FALSE))
                                /\ UNCHANGED <<pc, pre, proc, image, home>>
         \/ \E s \in Sessions : /\ wal' = Append(wal, Frame("USAGE", sessionRuns[s], s, FALSE))
                                /\ UNCHANGED <<pc, pre, proc, image, home>>
<1>1. CASE UNCHANGED vars
  BY <1>1 DEF vars, log
<1>2. CASE Server
  BY <1>2 DEF Server, ReserveRun, ReleaseRun, AppendObservation, FoldAndAcknowledge, DaemonStarts, log, Recorded
<1>3. ASSUME NEW r \in Runs,
             \/ Wrapper(r) \/ Shim(r) \/ ChildExits(r)
             \/ Run(r) \/ runUnobserved(r) \/ ShimDies(r) \/ WrapperDies(r)
      PROVE  wal' = wal
  BY <1>3 DEF Wrapper, Shim, ChildExits, Run, runUnobserved, ShimDies, WrapperDies, waitUnobserved, CallFails,
         launchObserved, readIdentityFails, writeAck, readLaunchStatus, waitFailedLaunch, wait,
         settleForDrain, writeIdentity, ShimDeclined, ShimMarks, ShimExecs, log, shimStep
<1>4. CASE \/ DaemonDies \/ Compact
           \/ \E t \in Sessions : StartSession(t) \/ Decide(t)
           \/ \E r \in Runs, t \in Sessions : discoverAndBind(r, t)
  BY <1>4 DEF DaemonDies, Compact, StartSession, Decide, discoverAndBind, log
<1>5. CASE \E t \in Sessions : CaptureUsage(t) \/ CaptureSessionLifecycle(t)
  BY <1>5 DEF CaptureUsage, CaptureSessionLifecycle, runContextFor, sessions, child
<1> QED BY <1>1, <1>2, <1>3, <1>4, <1>5 DEF Next, Progress, Hook

LEMMA FramesKept ==
  ASSUME TypeOK, CallShape, ChildShape, Kinds, [Next]_vars, Origins,
         \A s \in Sessions : HookOf(s) /\ BindingOf(s),
         \A i \in DOMAIN wal : FrameOf(wal[i])
  PROVE  \A i \in DOMAIN wal' : FrameOf(wal[i])'
<1>0. wal \in Seq(Frames)
  BY DEF TypeOK, Frames
<1>1. \A i \in DOMAIN wal : \A f \in Frames : wal[i] = f => FrameOf(f)'
  BY FrameStays
<1>2. ASSUME NEW f \in Frames, wal' = Append(wal, f), FrameOf(f)'
      PROVE  \A i \in DOMAIN wal' : FrameOf(wal[i])'
  <2> TAKE i \in DOMAIN wal'
  <2>1. PICK g \in Frames : g = wal'[i] /\ FrameOf(g)'
    <3>1. \/ i \in DOMAIN wal /\ wal'[i] = wal[i]
          \/ i = Len(wal) + 1 /\ wal'[i] = f
      BY <1>2, AppendAt
    <3>2. i \in DOMAIN wal => wal[i] \in Frames
      BY <1>0
    <3> QED BY <1>1, <1>2, <3>1, <3>2
  <2> QED BY <2>1 DEF FrameOf
<1>3. CASE wal' = wal
  <2> TAKE i \in DOMAIN wal'
  <2>1. PICK g \in Frames : g = wal'[i] /\ FrameOf(g)'
    <3>1. i \in DOMAIN wal /\ wal[i] \in Frames /\ wal'[i] = wal[i]
      BY <1>0, <1>3
    <3> QED BY <1>1, <3>1
  <2> QED BY <2>1 DEF FrameOf
<1>4. ASSUME NEW m \in inbox, Recorded(m)
      PROVE  \A i \in DOMAIN wal' : FrameOf(wal[i])'
  <2> DEFINE f == Frame(m.kind, m.run, None, pc[m.run] # m.kind)
  <2>1. m.run \in Runs /\ m.kind \in Appends
    BY <1>4 DEF TypeOK, Recorded
  <2>2. f \in Frames /\ f.kind = m.kind /\ wal' = Append(wal, f)
    BY <1>4, <2>1 DEF Frame, Frames, Recorded
  <2>3. PICK g \in Frames : g = f
    BY <2>2
  <2>4. FrameOf(g)'
    BY <2>1, <2>2, <2>3 DEF FrameOf, Appends
  <2> HIDE DEF f
  <2> QED BY <1>2, <2>2, <2>3, <2>4
<1>5. ASSUME NEW s \in Sessions, wal' = Append(wal, Frame("SESSION", hook[s].run, s, FALSE)),
             UNCHANGED <<pc, pre, proc, image, home>>
      PROVE  \A i \in DOMAIN wal' : FrameOf(wal[i])'
  <2>1. hook[s].run \in Runs \cup {None}
    BY DEF TypeOK
  <2>2. PICK g \in Frames : g = Frame("SESSION", hook[s].run, s, FALSE)
    BY <2>1 DEF Frame, Frames
  <2>3. g.kind = "SESSION" /\ g.run = hook[s].run /\ g.session = s
    BY <2>2 DEF Frame
  <2>4. FrameOf(g)
    BY <2>3 DEF FrameOf, HookOf
  <2>5. FrameOf(g)'
    BY <2>4, FrameStays
  <2> QED BY <1>2, <1>5, <2>2, <2>5
<1>6. ASSUME NEW s \in Sessions, wal' = Append(wal, Frame("USAGE", sessionRuns[s], s, FALSE)),
             UNCHANGED <<pc, pre, proc, image, home>>
      PROVE  \A i \in DOMAIN wal' : FrameOf(wal[i])'
  <2>1. sessionRuns[s] \in Runs \cup {None}
    BY DEF TypeOK
  <2>2. PICK g \in Frames : g = Frame("USAGE", sessionRuns[s], s, FALSE)
    BY <2>1 DEF Frame, Frames
  <2>3. g.kind = "USAGE" /\ g.run = sessionRuns[s] /\ g.session = s
    BY <2>2 DEF Frame
  <2>4. FrameOf(g)
    BY <2>3 DEF FrameOf, BindingOf
  <2>5. FrameOf(g)'
    BY <2>4, FrameStays
  <2> QED BY <1>2, <1>6, <2>2, <2>5
<1> QED BY <1>3, <1>4, <1>5, <1>6, FrameSources

\* The inductive invariant of attribution.
AttributionInv ==
  /\ RecordsKept
  /\ Boundaries /\ Origins /\ Nesting /\ Known /\ NeverFalselyOpen
  /\ \A s \in Sessions : HookOf(s) /\ BindingOf(s)
  /\ \A i \in DOMAIN wal : FrameOf(wal[i])

\* What is recorded of a run is that run's: the registry never shows it open after its end, however
\* folds, replays and compactions fall; a session is attached only to the run whose child it started
\* in or, from an unobserved child, to the nearest observed run around it, with runs nested to any
\* depth; usage is stamped only with a run that the session did not precede (foldRunBoundary,
\* ReplayWAL, proveLineage, discoverAndBind).
THEOREM AttributionHonest == Spec => []AttributionSound
<1>1. Init => AttributionInv
  <2> SUFFICES ASSUME Init PROVE AttributionInv
    OBVIOUS
  <2>1. wal = <<>> /\ \A k, r : ~Has(k, r)
    BY DEF Init, Has
  <2>2. Boundaries /\ Nesting /\ \A i \in DOMAIN wal : FrameOf(wal[i])
    BY <2>1 DEF Boundaries, Nesting
  <2>3. Origins /\ NeverFalselyOpen /\ Known
    BY <2>1 DEF Init, Origins, NeverFalselyOpen, Known, NoRegistry, Served
  <2>4. \A s \in Sessions : HookOf(s) /\ BindingOf(s)
    BY DEF Init, HookOf, BindingOf
  <2> QED BY <2>2, <2>3, <2>4, RunInit DEF AttributionInv
<1>2. AttributionInv /\ [Next]_vars => AttributionInv'
  <2> SUFFICES ASSUME AttributionInv, [Next]_vars PROVE AttributionInv'
    OBVIOUS
  <2>1. TypeOK /\ CallShape /\ ChildShape /\ Kinds /\ Boundaries /\ Origins /\ Nesting /\ Known /\ NeverFalselyOpen
    BY StepKinds DEF AttributionInv, RecordsKept, RunInv
  <2>2. RecordsKept' /\ CallShape'
    BY RunNext DEF AttributionInv, RecordsKept, RunInv
  <2>3. Boundaries' /\ Origins' /\ Nesting' /\ Known' /\ NeverFalselyOpen'
    BY <2>1, <2>2, BoundariesKept, OriginsKept, NestingKept, KnownKept, OpenKept
  <2>4. \A s \in Sessions : HookOf(s)' /\ BindingOf(s)'
    BY <2>1, HooksKept, BindingsKept DEF AttributionInv
  <2>5. \A i \in DOMAIN wal' : FrameOf(wal[i])'
    BY <2>1, FramesKept DEF AttributionInv
  <2> QED BY <2>2, <2>3, <2>4, <2>5 DEF AttributionInv
<1>3. AttributionInv => AttributionSound
  <2> SUFFICES ASSUME AttributionInv PROVE AttributionSound
    OBVIOUS
  <2>1. ASSUME NEW i \in DOMAIN wal, wal[i].kind = "SESSION", wal[i].run # None
        PROVE  wal[i].run = home[wal[i].session] \/ PastBypass(wal[i].run, home[wal[i].session])
    <3>1. home[wal[i].session] \in Runs /\ wal[i].run = NearestObserved(home[wal[i].session])
      BY <2>1 DEF AttributionInv, FrameOf
    <3> QED BY <3>1, ObservedItself DEF PastBypass
  <2> QED BY <2>1 DEF AttributionInv, AttributionSound, AttachHonest, BoundIsNew, FrameOf
<1> QED BY <1>1, <1>2, <1>3, PTL DEF Spec
=============================================================================
