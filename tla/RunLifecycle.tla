--------------------------- MODULE RunLifecycle ---------------------------
(***************************************************************************)
(* Explicit runs: the wrapper (internal/observer/runwrap) that turns a     *)
(* command into a run, the daemon's side of it (the reserves of            *)
(* spool/capacity.go, the local server's dispatch and the registry of      *)
(* daemon/registry.go), the Codex SessionStart hook that attaches a        *)
(* session to a run (adapter/codex/attachment_unix.go, lineage_unix.go)    *)
(* and the watcher that stamps a bound session's usage.                    *)
(*                                                                         *)
(* A wrapper makes one call at a time.  A call that has not been answered  *)
(* is at the server (`inbox`, or `folding` once its frame is durable); a   *)
(* wrapper that gives up leaves it there, and the server serves it later.  *)
(* A wrapper whose call is in neither got no connection, or its daemon     *)
(* died.  A run's child is named by its run: an OS process identity (boot  *)
(* id, pid, start time) is never reused.                                   *)
(***************************************************************************)
EXTENDS Naturals, FiniteSets, Sequences

CONSTANTS
    Runs,         \* one wrapper invocation each
    Outer,        \* [Runs -> Runs \cup {None}]: the run whose child starts this wrapper
    Above,        \* [Runs -> SUBSET Runs]: that run, the run it was started in, and so on
    Unobserved,   \* runs that may be started with --allow-unobserved
    Sessions,     \* native agent sessions
    Reserve,      \* TerminalReserveBytes; a frame is one byte
    HardFloor,    \* ceiling - one segment - scratch
    SoftThreshold,
    MaxFaults,    \* kills, timeouts, failed writes and failed spawns
    MaxOps,       \* these, compactions and sessions, together
    None

ASSUME CapacityAssumption ==
    /\ {Reserve, HardFloor, SoftThreshold, MaxFaults, MaxOps} \subseteq Nat
    /\ 0 < SoftThreshold /\ SoftThreshold < HardFloor
    /\ IsFiniteSet(Runs)
    /\ None \notin Runs \cup Sessions \cup {"outside"} /\ "outside" \notin Runs
    /\ Unobserved \subseteq Runs
\* Runs nest to any depth: above a run is a finite chain of runs, one of them the nearest of any.
ASSUME NestingAssumption ==
    /\ Outer \in [Runs -> Runs \cup {None}] /\ Above \in [Runs -> SUBSET Runs]
    /\ \A r \in Runs :
          /\ Above[r] = IF Outer[r] = None THEN {} ELSE {Outer[r]} \cup Above[Outer[r]]
          /\ r \notin Above[r] /\ \A a \in Above[r] : Above[a] \subseteq Above[r]
          /\ \A S \in SUBSET ({r} \cup Above[r]) : S # {} => \E a \in S : S \subseteq {a} \cup Above[a]

VARIABLES
    up,          \* the daemon serves
    open,        \* Reserves.open
    sidecar,     \* the reserves sidecar on disk
    wal,         \* every frame ever made durable: [kind, run, session, late]
    base,        \* the first frames of wal that compaction removed
    registry,    \* [boundaries, registered]
    sessionRuns, \* Registry.sessionRuns
    inbox,       \* calls the server has not begun: [run, kind]
    folding,     \* calls whose frame is durable and not yet folded
    pc,          \* [Runs -> where the wrapper is]
    proc,        \* [Runs -> the shim, later the child]
    status,      \* [Runs -> bytes the shim wrote to the status pipe]
    image,       \* runs whose child image came to exist
    pre,         \* [Runs -> preLaunchSessions]
    bound,       \* [Runs -> sessions this wrapper bound]
    home,        \* [Sessions -> the run whose child started it, "outside", or None: no file yet]
    hook,        \* [Sessions -> the SessionStart hook]
    faults, ops,
    hit          \* runs a fault touched

daemon == <<open, sidecar, registry, sessionRuns>>
log == <<wal, base>>
child == <<proc, status, image>>
sessions == <<pre, bound, home, hook>>
vars == <<up, daemon, log, inbox, folding, pc, child, sessions, faults, ops, hit>>

Calls == {"RESERVE", "UNDO", "STARTED", "ABANDON", "REGISTERED", "EXITED", "LAUNCH_FAILED",
          "ENDED", "RELEASE"}
Appends == {"STARTED", "REGISTERED", "EXITED", "LAUNCH_FAILED", "ENDED"}
Gone == {"done", "crashed"}

Frame(kind, r, s, late) == [kind |-> kind, run |-> r, session |-> s, late |-> late]
Live == SubSeq(wal, base + 1, Len(wal))
Has(kind, r) == \E i \in DOMAIN wal : wal[i].kind = kind /\ wal[i].run = r

NoRegistry == [boundaries |-> [r \in Runs |-> "unknown"], registered |-> {}]

Init ==
    /\ up = TRUE /\ open = {} /\ sidecar = {} /\ wal = <<>> /\ base = 0
    /\ registry = NoRegistry
    /\ sessionRuns = [s \in Sessions |-> None]
    /\ inbox = {} /\ folding = {}
    /\ pc = [r \in Runs |-> "idle"]
    /\ proc = [r \in Runs |-> "none"]
    /\ status = [r \in Runs |-> <<>>]
    /\ image = {}
    /\ pre = [r \in Runs |-> {}]
    /\ bound = [r \in Runs |-> {}]
    /\ home = [s \in Sessions |-> None]
    /\ hook = [s \in Sessions |-> [pc |-> "idle", env |-> None, run |-> None]]
    /\ faults = 0 /\ ops = 0 /\ hit = {}

Op == ops < MaxOps /\ ops' = ops + 1
Fault(rs) == Op /\ faults < MaxFaults /\ faults' = faults + 1 /\ hit' = hit \cup rs
NoFault == UNCHANGED <<faults, ops, hit>>

---------------------------------------------------------------------------
(* The wrapper's calls.                                                    *)

\* The wrapper goes to state p; if p is a call, the request reaches a daemon that is up.
goto(r, p) ==
    /\ pc' = [pc EXCEPT ![r] = p]
    /\ inbox' = inbox \cup IF p \in Calls /\ up THEN {[run |-> r, kind |-> p]} ELSE {}

\* Where an answer leads.  Everything after RUN_STARTED that is not durable leaves the run open
\* and its reserve held; a refused or unrecorded run gives its reserve back, best effort.
terminalSequence(kind) ==
    CASE kind = "EXITED" -> "settle"
      [] kind = "LAUNCH_FAILED" -> "ENDED"
      [] kind = "ENDED" -> "RELEASE"
      [] kind = "RELEASE" -> "done"
\* terminalLaunchFailure: PROCESS_LAUNCH_FAILED needs an identity, RUN_ENDED does not.
launchFailure(identity) == IF identity THEN "LAUNCH_FAILED" ELSE "ENDED"
afterOk(kind) ==
    CASE kind = "RESERVE" -> "STARTED"
      [] kind = "STARTED" -> "launch"
      [] kind = "REGISTERED" -> "ack"
      [] kind \in {"UNDO", "ABANDON"} -> "done"
      [] OTHER -> terminalSequence(kind)
\* Mutant: an unanswered RUN_ENDED is sent again.
afterErrorRetry(kind) ==
    CASE kind = "STARTED" -> "ABANDON" [] kind = "REGISTERED" -> "declined"
      [] kind = "ENDED" -> "ENDED" [] OTHER -> "done"
afterError(kind) ==
    CASE kind = "STARTED" -> "ABANDON"
      [] kind = "REGISTERED" -> "declined"
      [] OTHER -> "done"

\* The answer of call m reaches its wrapper, if that still waits for it.
answer(m, p) ==
    LET waits == pc[m.run] = m.kind
    IN  /\ pc' = IF waits THEN [pc EXCEPT ![m.run] = p] ELSE pc
        /\ inbox' = (inbox \ {m}) \cup
                    IF waits /\ p \in Calls THEN {[run |-> m.run, kind |-> p]} ELSE {}

\* A run starts: `observe run`, from a shell or from the child of another run.
Run(r) ==
    /\ pc[r] = "idle"
    /\ Outer[r] # None => proc[Outer[r]] = "image"
    /\ goto(r, "RESERVE")
    /\ NoFault
    /\ UNCHANGED <<up, daemon, log, folding, child, sessions>>

\* --allow-unobserved: the child is started bare, with no daemon contact.
runUnobserved(r) ==
    /\ pc[r] = "idle" /\ r \in Unobserved
    /\ Outer[r] # None => proc[Outer[r]] = "image"
    /\ goto(r, "bare")
    /\ proc' = [proc EXCEPT ![r] = "image"]
    /\ NoFault
    /\ UNCHANGED <<up, daemon, log, folding, status, image, sessions>>
waitUnobserved(r) ==
    /\ pc[r] = "bare" /\ proc[r] = "dead"
    /\ goto(r, "done")
    /\ NoFault
    /\ UNCHANGED <<up, daemon, log, folding, child, sessions>>

\* No daemon, no connection, or the daemon died: the call fails.  A call the server still holds
\* fails only by the client's deadline, and stays with the server.
CallFails(r) ==
    /\ pc[r] \in Calls
    /\ IF [run |-> r, kind |-> pc[r]] \in inbox \cup folding
       THEN Fault({r})
       ELSE hit' = hit \cup {r} /\ UNCHANGED <<faults, ops>>
    /\ goto(r, afterError(pc[r]))
    /\ UNCHANGED <<up, daemon, log, folding, child, sessions>>

---------------------------------------------------------------------------
(* The daemon: reserves, appends, the registry.                            *)

\* CapacityModel.Evaluate over the bytes in wal/ and the open reserves.
Used == Len(wal) - base
Pressure(committed) ==
    IF committed >= HardFloor THEN "hard" ELSE IF committed >= SoftThreshold THEN "soft" ELSE "none"
\* Mutant: the reserves of the open runs are left out of the committed bytes.
EvaluateUsed(reserved) ==
    Pressure(Used) # "hard" /\ Used + Reserve <= HardFloor
Evaluate(reserved) ==
    LET committed == Used + Reserve * Cardinality(reserved)
    IN  Pressure(committed) # "hard" /\ committed + Reserve <= HardFloor

\* ReserveRun takes the reserve and then evaluates, its own reserve counted; the map changes
\* before the sidecar is written, and stays changed when that write fails.
ReserveRun(m) ==
    /\ m.kind = "RESERVE"
    /\ open' = open \cup {m.run}
    /\ \/ /\ sidecar' = IF m.run \in open THEN sidecar ELSE open'
          /\ NoFault
          /\ answer(m, IF Evaluate(open') THEN afterOk("RESERVE") ELSE "UNDO")
       \/ /\ m.run \notin open
          /\ Fault({m.run})
          /\ answer(m, afterError("RESERVE"))
          /\ UNCHANGED sidecar
    /\ UNCHANGED <<up, registry, sessionRuns, log, folding, child, sessions>>

ReleaseRun(m) ==
    /\ m.kind \in {"RELEASE", "UNDO", "ABANDON"}
    /\ open' = open \ {m.run}
    /\ \/ /\ sidecar' = IF m.run \in open THEN open' ELSE sidecar
          /\ NoFault
          /\ answer(m, afterOk(m.kind))
       \/ /\ m.run \in open
          /\ Fault({m.run})
          /\ answer(m, afterError(m.kind))
          /\ UNCHANGED sidecar
    /\ UNCHANGED <<up, registry, sessionRuns, log, folding, child, sessions>>

\* AppendObservation: durable, or an error and no frame.
AppendObservation(m) ==
    /\ m.kind \in Appends
    /\ \/ /\ wal' = Append(wal, Frame(m.kind, m.run, None, pc[m.run] # m.kind))
          /\ folding' = folding \cup {m}
          /\ inbox' = inbox \ {m}
          /\ NoFault
          /\ UNCHANGED pc
       \/ /\ Fault({m.run})
          /\ answer(m, afterError(m.kind))
          /\ UNCHANGED <<wal, folding>>
    /\ UNCHANGED <<up, daemon, base, child, sessions>>

\* Registry.Fold.  Closure is terminal.
foldRunBoundary(b, kind) ==
    IF kind = "STARTED" /\ b # "closed" THEN "open" ELSE "closed"
Fold(reg, f) ==
    CASE f.kind = "REGISTERED" -> [reg EXCEPT !.registered = @ \cup {f.run}]
      [] f.kind \in {"STARTED", "ENDED"} ->
            [reg EXCEPT !.boundaries[f.run] = foldRunBoundary(@, f.kind)]
      [] OTHER -> reg

\* The handler folds what it appended, then acknowledges.
FoldAndAcknowledge(m) ==
    /\ registry' = Fold(registry, Frame(m.kind, m.run, None, FALSE))
    /\ folding' = folding \ {m}
    /\ answer(m, afterOk(m.kind))
    /\ NoFault
    /\ UNCHANGED <<up, open, sidecar, sessionRuns, log, child, sessions>>

acknowledged == base + 1 .. Len(wal)
\* Acknowledged segments, a prefix of the log, are compacted.  Nothing in the daemon calls this
\* yet: the registry and the reserves are checked against the day it does.
Compact ==
    /\ up /\ Op
    /\ base' \in acknowledged
    /\ UNCHANGED <<faults, hit>>
    /\ UNCHANGED <<up, daemon, wal, inbox, folding, pc, child, sessions>>

DaemonDies ==
    /\ up
    /\ Fault({})
    /\ up' = FALSE
    /\ inbox' = {} /\ folding' = {}
    /\ UNCHANGED <<daemon, log, pc, child, sessions>>

\* Mutant: the sidecar is not loaded.
LoadReservesEmpty == {}
LoadReserves == sidecar
\* ReplayWAL: what folding the given frames in their order leaves.
ReplayWAL(frames) ==
    LET seen(kind, r) == \E i \in DOMAIN frames : frames[i].kind = kind /\ frames[i].run = r
    IN  [boundaries |-> [r \in Runs |-> IF seen("ENDED", r) THEN "closed"
                                       ELSE IF seen("STARTED", r) THEN "open" ELSE "unknown"],
         registered |-> {r \in Runs : seen("REGISTERED", r)}]

\* NewSpoolWriter and ReplayWAL.  The session bindings are not rebuilt.
DaemonStarts ==
    /\ ~up
    /\ up' = TRUE
    /\ open' = LoadReserves
    /\ registry' = ReplayWAL(Live)
    /\ sessionRuns' = [s \in Sessions |-> None]
    /\ NoFault
    /\ UNCHANGED <<sidecar, log, inbox, folding, pc, child, sessions>>

\* The recovery cross-check (no caller outside the tests): ScanRunEvents and ReconcileReserves.
ScanRunEvents ==
    [started |-> {r \in Runs : \E i \in DOMAIN Live : Live[i].kind = "STARTED" /\ Live[i].run = r},
     terminated |-> {r \in Runs : \E i \in DOMAIN Live :
                        Live[i].kind \in {"ENDED", "EXITED", "LAUNCH_FAILED"} /\ Live[i].run = r}]
ReconcileReserves(events) ==
    (sidecar \cup (events.started \ events.terminated)) \ events.terminated

---------------------------------------------------------------------------
(* Launching the child through the same-PID shim.                          *)

Files == {s \in Sessions : home[s] # None}

preLaunchSessions == Files

\* Pipes and the shim; a failure here has proven no identity, so RUN_ENDED is next.
launchObserved(r) ==
    /\ pc[r] = "launch"
    /\ pre' = [pre EXCEPT ![r] = preLaunchSessions]
    /\ \/ /\ proc' = [proc EXCEPT ![r] = "spawned"]
          /\ goto(r, "identity")
          /\ NoFault
       \/ /\ Fault({})
          /\ goto(r, launchFailure(FALSE))
          /\ UNCHANGED proc
    /\ UNCHANGED <<up, daemon, log, folding, status, image, bound, home, hook>>

shimStep == <<up, daemon, log, folding, sessions>>

\* The shim reports its identity to a wrapper that reads it, which registers it.
writeIdentity(r) ==
    /\ proc[r] = "spawned"
    /\ IF pc[r] = "identity"
       THEN proc' = [proc EXCEPT ![r] = "reported"] /\ goto(r, "REGISTERED")
       ELSE proc' = [proc EXCEPT ![r] = "dead"] /\ UNCHANGED <<pc, inbox>>
    /\ NoFault
    /\ UNCHANGED <<shimStep, status, image>>
readIdentityFails(r) ==
    /\ pc[r] = "identity" /\ proc[r] = "dead"
    /\ goto(r, launchFailure(FALSE))
    /\ NoFault
    /\ UNCHANGED <<shimStep, child>>

\* The ack releases the shim; a shim that is gone breaks the pipe.
writeAck(r) ==
    /\ pc[r] = "ack"
    /\ IF proc[r] = "reported"
       THEN proc' = [proc EXCEPT ![r] = "acked"] /\ goto(r, "status")
       ELSE goto(r, "declined") /\ UNCHANGED proc
    /\ NoFault
    /\ UNCHANGED <<shimStep, status, image>>

\* Mutant: a wrapper that declines keeps the ack pipe open.
ackClosedKept(r) == pc[r] = "crashed"
\* The ack pipe is closed without a byte: the wrapper declined, or it died.
ackClosed(r) == pc[r] \in {"declined", "crashed"}
ShimDeclined(r) ==
    /\ proc[r] = "reported" /\ ackClosed(r)
    /\ proc' = [proc EXCEPT ![r] = "dead"]
    /\ NoFault
    /\ UNCHANGED <<shimStep, pc, inbox, status, image>>

\* The shim resolves the target and asserts that it is about to exec; without a reader for that
\* assertion it does not exec.
ShimMarks(r) ==
    /\ proc[r] = "acked"
    /\ \/ /\ status' = [status EXCEPT ![r] = <<"execFailed">>]
          /\ proc' = [proc EXCEPT ![r] = "dead"]
       \/ /\ pc[r] # "crashed"
          /\ status' = [status EXCEPT ![r] = <<"preExec">>]
          /\ proc' = [proc EXCEPT ![r] = "marked"]
       \/ /\ pc[r] = "crashed"
          /\ proc' = [proc EXCEPT ![r] = "dead"]
          /\ UNCHANGED status
    /\ NoFault
    /\ UNCHANGED <<shimStep, pc, inbox, image>>
ShimExecs(r) ==
    /\ proc[r] = "marked"
    /\ \/ /\ proc' = [proc EXCEPT ![r] = "image"]
          /\ image' = image \cup {r}
          /\ UNCHANGED status
       \/ /\ status' = [status EXCEPT ![r] = Append(@, "execFailed")]
          /\ proc' = [proc EXCEPT ![r] = "dead"]
          /\ UNCHANGED image
    /\ NoFault
    /\ UNCHANGED <<shimStep, pc, inbox>>

ShimDies(r) ==
    /\ proc[r] \in {"spawned", "reported", "acked", "marked"}
    /\ proc' = [proc EXCEPT ![r] = "dead"]
    /\ Fault(IF proc[r] = "marked" THEN {r} ELSE {})
    /\ UNCHANGED <<shimStep, pc, inbox, status, image>>

\* Launch is asserted by the marker, never by a bare end of file.
statusClosed(r) == proc[r] \in {"image", "dead"}
launched(r) == statusClosed(r) /\ status[r] = <<"preExec">>
readLaunchStatus(r) ==
    /\ pc[r] = "status"
    /\ \/ launched(r) /\ goto(r, "wait")
       \/ /\ ~launched(r)
          /\ (status[r] = <<>> /\ statusClosed(r)) \/ (\E i \in DOMAIN status[r] : status[r][i] = "execFailed")
          /\ goto(r, "declined")
    /\ status' = [status EXCEPT ![r] = <<>>]
    /\ NoFault
    /\ UNCHANGED <<shimStep, proc, image>>

\* A failed launch is waited for and closed: its identity is proven.
waitFailedLaunch(r) ==
    /\ pc[r] = "declined" /\ proc[r] = "dead"
    /\ goto(r, launchFailure(TRUE))
    /\ NoFault
    /\ UNCHANGED <<shimStep, child>>

ChildExits(r) ==
    /\ proc[r] = "image"
    /\ proc' = [proc EXCEPT ![r] = "dead"]
    /\ NoFault
    /\ UNCHANGED <<shimStep, pc, inbox, status, image>>
wait(r) ==
    /\ pc[r] = "wait" /\ proc[r] = "dead"
    /\ goto(r, "EXITED")
    /\ bound' = [bound EXCEPT ![r] = {}]
    /\ NoFault
    /\ UNCHANGED <<up, daemon, log, folding, child, pre, home, hook>>

\* The watcher is given time to read the session's tail; the daemon's drain is always COMPLETE.
settleForDrain(r) ==
    /\ pc[r] = "settle"
    /\ goto(r, "ENDED")
    /\ NoFault
    /\ UNCHANGED <<shimStep, child>>

\* A wrapper killed before it sent its next request, or after.
WrapperDies(r) ==
    /\ pc[r] \notin {"idle"} \cup Gone
    /\ pc' = [pc EXCEPT ![r] = "crashed"]
    /\ inbox' \in {inbox, {m \in inbox : m.run # r}}
    /\ Fault({r})
    /\ UNCHANGED <<shimStep, child>>

---------------------------------------------------------------------------
(* Sessions: the wrapper's binding, the hook, the watcher's usage.         *)

\* The run id in the environment of r's child; an unobserved wrapper strips it.
withRunID(r) == IF r \in image THEN r ELSE None

\* A session starts in a run's child, or outside every run, and its hook runs.  An agent may
\* clear the environment it gives the session.
StartSession(s) ==
    /\ home[s] = None
    /\ \/ \E r \in Runs : \E env \in {withRunID(r), None} :
            /\ proc[r] = "image"
            /\ home' = [home EXCEPT ![s] = r]
            /\ hook' = [hook EXCEPT ![s] = [pc |-> "decide", env |-> env, run |-> None]]
       \/ /\ home' = [home EXCEPT ![s] = "outside"]
          /\ hook' = [hook EXCEPT ![s].pc = "decide"]
    /\ Op
    /\ UNCHANGED <<faults, hit>>
    /\ UNCHANGED <<up, daemon, log, inbox, folding, pc, child, pre, bound>>

LookupRegistered(r) == r \in registry.registered
ResolveInherited(r) == registry.boundaries[r]

\* A run and the runs above it, and the nearest of some of them.
Chain(r) == {r} \cup Above[r]
nearest(rs) == IF rs = {} THEN None ELSE CHOOSE a \in rs : rs \subseteq Chain(a)

\* The registered processes above the hook.  The walk ends where a process has exited: its
\* children were handed to init.
registeredAbove(s) ==
    LET reached(a) == /\ proc[a] = "image"
                      /\ \A b \in Chain(home[s]) : a \in Above[b] => proc[b] = "image" /\ pc[b] \notin Gone
    IN  {a \in Chain(home[s]) : reached(a) /\ LookupRegistered(a)}
\* Mutant: the farthest registered ancestor wins.
proveLineageOuter(s) ==
    IF home[s] \notin Runs \/ registeredAbove(s) = {} THEN None
    ELSE CHOOSE a \in registeredAbove(s) : \A b \in registeredAbove(s) : a \in Chain(b)
proveLineage(s) == IF home[s] \in Runs THEN nearest(registeredAbove(s)) ELSE None

\* The run a hook attaches its session to, or None: inferred or quarantined.
decision(s) ==
    LET env == hook[s].env
        lineage == proveLineage(s)
    IN  IF env = None THEN lineage
        ELSE IF ResolveInherited(env) = "open" /\ lineage \in {None, env} THEN env
        ELSE None

\* A failed query, another workspace, or a clear or compact event attaches nothing.
Decide(s) ==
    /\ hook[s].pc = "decide"
    /\ \E run \in {None} \cup (IF up THEN {decision(s)} ELSE {}) :
          hook' = [hook EXCEPT ![s] = [@ EXCEPT !.pc = "capture", !.run = run]]
    /\ NoFault
    /\ UNCHANGED <<up, daemon, log, inbox, folding, pc, child, pre, bound, home>>

\* The SESSION_LIFECYCLE append; without an acknowledgement the hook only says so.
CaptureSessionLifecycle(s) ==
    /\ hook[s].pc = "capture"
    /\ hook' = [hook EXCEPT ![s] = [pc |-> "done", env |-> None, run |-> None]]
    /\ \/ up /\ wal' = Append(wal, Frame("SESSION", hook[s].run, s, FALSE))
       \/ ~up /\ UNCHANGED wal
    /\ NoFault
    /\ UNCHANGED <<up, daemon, base, inbox, folding, pc, child, pre, bound, home>>

unbound(r) == Files \ (pre[r] \cup bound[r])
\* discoverAndBind: while the child runs, each file that was not there before it.  The scan after
\* the child's exit carries a cancelled context, so it binds nothing.
discoverAndBind(r, s) ==
    /\ pc[r] = "wait" /\ up
    /\ s \in unbound(r)
    /\ sessionRuns' = [sessionRuns EXCEPT ![s] = r]
    /\ bound' = [bound EXCEPT ![r] = @ \cup {s}]
    /\ NoFault
    /\ UNCHANGED <<up, open, sidecar, registry, log, inbox, folding, pc, child, pre, home, hook>>

\* The watcher captures the session's usage, stamped with the run bound to the session.
runContextFor(s) == sessionRuns[s]
CaptureUsage(s) ==
    /\ up /\ s \in Files
    /\ ~\E i \in DOMAIN wal : wal[i].kind = "USAGE" /\ wal[i].session = s
    /\ wal' = Append(wal, Frame("USAGE", runContextFor(s), s, FALSE))
    /\ NoFault
    /\ UNCHANGED <<up, daemon, base, inbox, folding, pc, child, sessions>>

---------------------------------------------------------------------------
Wrapper(r) ==
    \/ waitUnobserved(r) \/ CallFails(r)
    \/ launchObserved(r) \/ readIdentityFails(r) \/ writeAck(r) \/ readLaunchStatus(r)
    \/ waitFailedLaunch(r) \/ wait(r) \/ settleForDrain(r)
Shim(r) == writeIdentity(r) \/ ShimDeclined(r) \/ ShimMarks(r) \/ ShimExecs(r)
Server ==
    \/ \E m \in inbox : ReserveRun(m) \/ ReleaseRun(m) \/ AppendObservation(m)
    \/ \E m \in folding : FoldAndAcknowledge(m)
    \/ DaemonStarts
Hook(s) == Decide(s) \/ CaptureSessionLifecycle(s)

\* What the code, the operating system and the service manager go on to do by themselves.
Progress ==
    \/ \E r \in Runs : Wrapper(r) \/ Shim(r) \/ ChildExits(r)
    \/ Server
    \/ \E s \in Sessions : Hook(s)

Next ==
    \/ Progress
    \/ \E r \in Runs : Run(r) \/ runUnobserved(r) \/ ShimDies(r) \/ WrapperDies(r)
    \/ DaemonDies \/ Compact
    \/ \E s \in Sessions : StartSession(s) \/ CaptureUsage(s)
    \/ \E r \in Runs, s \in Sessions : discoverAndBind(r, s)

Spec == Init /\ [][Next]_vars
---------------------------------------------------------------------------
(* Properties *)

\* The state of the wrappers, the daemon and the log has its types.
TypeOK ==
    /\ up \in BOOLEAN
    /\ open \subseteq Runs /\ sidecar \subseteq Runs
    /\ wal \in Seq([kind : Appends \cup {"SESSION", "USAGE"}, run : Runs \cup {None},
                    session : Sessions \cup {None}, late : BOOLEAN])
    /\ base \in 0..Len(wal) /\ ops \in 0..MaxOps /\ faults \in 0..ops
    /\ registry \in [boundaries : [Runs -> {"unknown", "open", "closed"}], registered : SUBSET Runs]
    /\ sessionRuns \in [Sessions -> Runs \cup {None}]
    /\ inbox \cup folding \subseteq [run : Runs, kind : Calls]
    /\ pc \in [Runs -> Calls \cup Gone \cup {"idle", "bare", "launch", "identity", "ack",
                                            "status", "declined", "wait", "settle"}]
    /\ proc \in [Runs -> {"none", "spawned", "reported", "acked", "marked", "image", "dead"}]
    /\ status \in [Runs -> Seq({"preExec", "execFailed"})]
    /\ image \subseteq Runs /\ hit \subseteq Runs
    /\ pre \in [Runs -> SUBSET Sessions] /\ bound \in [Runs -> SUBSET Sessions]
    /\ home \in [Sessions -> Runs \cup {"outside", None}]
    /\ hook \in [Sessions -> [pc : {"idle", "decide", "capture", "done"},
                              env : Runs \cup {None}, run : Runs \cup {None}]]

\* No image of an observed child exists before its RUN_STARTED and its REGISTERED are durable,
\* whatever was lost on the way ("registration is durable before the child image exists").
ImageRegistered == \A r \in image : Has("STARTED", r) /\ Has("REGISTERED", r)

\* A run's records come in the normative order and RUN_ENDED closes them: what follows it, or
\* comes out of turn, was given up on by its wrapper before it was served.
Order(kind) == CASE kind = "STARTED" -> 1 [] kind = "REGISTERED" -> 2
                 [] kind \in {"EXITED", "LAUNCH_FAILED"} -> 3 [] kind = "ENDED" -> 4
TerminalOrder ==
    \A i, j \in DOMAIN wal :
        i < j /\ wal[i].run = wal[j].run /\ {wal[i].kind, wal[j].kind} \subseteq Appends /\ ~wal[j].late
            => Order(wal[i].kind) < Order(wal[j].kind)

\* PROCESS_LAUNCH_FAILED is recorded only of a run whose child never existed, and PROCESS_EXITED
\* only of one that existed, or was killed between the marker and execve.
LaunchHonest ==
    \A r \in Runs :
        /\ Has("LAUNCH_FAILED", r) => r \notin image
        /\ Has("EXITED", r) => r \in image \cup hit

\* Runs whose wrapper may still owe terminal records.
Owes(r) == pc[r] \in {"STARTED", "launch", "identity", "REGISTERED", "ack", "status", "declined",
                      "wait", "EXITED", "settle", "LAUNCH_FAILED", "ENDED"}

\* A run that owes its terminal records holds its reserve, in the daemon and in the sidecar: an
\* admitted run never loses its terminal capacity to another run, a restart or a failed write.
ReserveHeld == \A r \in Runs : Owes(r) => r \in sidecar /\ (up => r \in open)

\* A run no fault touched ends closed and without a reserve: refused, failed to launch or exited.
NoLeak ==
    \A r \in Runs : pc[r] = "done" /\ r \notin hit =>
        /\ r \notin open \cup sidecar
        /\ Has("STARTED", r) => Has("ENDED", r)

\* A run is admitted only with room for the terminal records of every run that still owes them,
\* also after a restart of the daemon.
AdmissionHonoured ==
    [][\A r \in Runs : pc[r] = "RESERVE" /\ pc'[r] = "STARTED" =>
          Used + Reserve * Cardinality({q \in Runs : Owes(q)} \cup {r}) + Reserve <= HardFloor]_vars

\* The registry never shows a run open whose RUN_ENDED is durable, but for the moment before the
\* fold: live folds, replays and compaction in any order.
NeverFalselyOpen ==
    up => \A r \in Runs :
        registry.boundaries[r] = "open" /\ Has("ENDED", r) => [run |-> r, kind |-> "ENDED"] \in folding

\* The nearest run at or above r whose child was observed.
NearestObserved(r) == IF r \in Runs THEN nearest(Chain(r) \cap image) ELSE None
\* The exception: a session of an unobserved child is attached, by lineage alone, to the nearest
\* observed run around it (attachment_unix.go:218-225), although runUnobserved says it "stays its
\* own inferred run" (run.go:390-393): stripping the run id does not hide the ancestry.
PastBypass(a, r) == r \in Runs \ image /\ a = NearestObserved(r)
\* A session is attached only to the run whose child it started in, never to an outer or a
\* finished one, but for the sessions of unobserved children.
AttachHonest ==
    \A i \in DOMAIN wal : wal[i].kind = "SESSION" /\ wal[i].run # None =>
        wal[i].run = home[wal[i].session] \/ PastBypass(wal[i].run, home[wal[i].session])

\* Usage is never stamped with a run that the session's file preceded.
BoundIsNew ==
    \A i \in DOMAIN wal : wal[i].kind = "USAGE" /\ wal[i].run # None =>
        wal[i].session \notin pre[wal[i].run]

\* The recovery cross-check keeps the reserve of every run that owes its records and has no
\* terminal frame, its RUN_STARTED compacted or not, and frees that of a run seen to terminate.
ReconcileSound ==
    LET kept == ReconcileReserves(ScanRunEvents)
    IN  \A r \in Runs :
          /\ (Owes(r) /\ \A k \in {"EXITED", "LAUNCH_FAILED", "ENDED"} : ~Has(k, r)) => r \in kept
          /\ r \in ScanRunEvents.terminated => r \notin kept

\* A run's records tell its story: the child runs only once registered, boundaries in order, and
\* exits and failed launches told apart (Run, readLaunchStatus, terminalExit).
RunInv == TypeOK /\ ImageRegistered /\ TerminalOrder /\ LaunchHonest

\* A reserve is held while it is owed, across restarts and failed writes; a run no fault touched
\* gives it back on every way it can end; and the recovery cross-check agrees (Reserve, Release,
\* LoadReserves, ReconcileReserves).
ReservesSound == ReserveHeld /\ NoLeak /\ ReconcileSound

\* What is recorded of a run is that run's: it is not shown open after its end, no session is
\* attached to a run it did not start in (a session of an unobserved child goes to the observed run
\* around it), no usage to a run it preceded (foldRunBoundary, proveLineage, discoverAndBind).
AttributionSound == NeverFalselyOpen /\ AttachHonest /\ BoundIsNew

\* Every wrapper comes to an end: no call, no handshake with the shim and no wait leaves it, the
\* daemon and the shim waiting for each other.  No step of Progress can be repeated, so this is
\* termination once requests are served, deadlines pass, children exit and a dead daemon restarts.
NoStandstill == (\E r \in Runs : pc[r] \notin {"idle"} \cup Gone) => ENABLED Progress
=============================================================================
