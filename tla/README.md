# Verification of gasworks

TLA+ models of this repository, the TLC configurations that check them, and
TLAPS proofs about the spool, its delivery, the consent fence, the content side
channel, the run lifecycle, the credential store and the client commands that use
servers. gasworks has two halves. The observer
(`internal/observer`) is a daemon that captures coding-agent activity on a
developer's machine, keeps it in a write-ahead log and uploads it to the
Collector in order, under consent the machine's owner can withdraw at any
moment; a run wrapper and a hook tell it which run a session belongs to. The
`gasworks` command (`cmd/gasworks`) logs a person in, keeps credentials in a
store several processes share, and mints keys for service principals.

## 1. The system

### Components

| Component | Source | State it keeps | Operations |
|---|---|---|---|
| Durable spool | `spool/{segment,recover,compact,frame}.go`, `local/server_unix.go` (`SpoolWriter`) | segment files `wal/<first>.seg`, identity sidecar, the writer's open segment, `highestDurable` | recover, reclaim, open or create, append, rotate, roll back, compact |
| Acknowledgement state | `spool/ack.go` | ack sidecar, `acknowledgedThrough`, in-flight range | load, note durable, set in flight, acknowledge |
| Run reserves | `spool/capacity.go` | reserve map and file, pressure level | reserve, release, evaluate, reconcile |
| Batch uploader | `upload/*.go`, `daemon/service.go` (`uploadLoop`) | none between passes | plan, send, classify, retry, validate |
| Consent source | `consent/consent.go` | published policy and version | load, check, narrow, fail closed |
| Consent fence | `daemon/consent_{fence,watch}.go` | origins, withheld set, attempted mark, ledger file, shutdown record | record, ceiling, refresh, apply, before-send, record shutdown, load |
| Daemon service | `daemon/service.go` | loops, directory lock, readiness | start, Shutdown |
| Local append server | `local/*_unix.go` | connections, writer | append, reserve, release, status |
| Run registry | `daemon/{registry,wrapper_client,seam}.go` | boundaries, registered processes, session bindings | fold, replay, look up |
| Run wrapper, hook | `runwrap/*.go`, `adapter/codex/{hook,attachment,lineage}_*.go` | child process, pipes to the shim, bound sessions | reserve, register, launch, bind, drain; prove lineage, attach |
| Content side channel | `daemon/content*.go`, `daemon/reupload.go` | tracked files, flight, refusal, marker and pending files, the tool's journal | observe, plan, read, send, settle, withdraw, stop, re-upload |
| Sinks | `daemon/{sink,partial_sink}.go` | session threading | append candidates |
| Transcript tail | `adapter/codex/{watch,cursor,rollout,claude,transcript_state}.go` | cursor, carry of the parse, counted sidecar | drain, ingest, deliver, commit, settle, upgrade, reset |
| Root seal | `adapter/codex/{watch,root_policy}.go` | baselines per inode, lineage fences per locator, control record, cursors | activate, walk, inherit, reseal, retire, flush |
| Project membership, root policy file | `adapter/codex/*membership*.go`, `rootpolicy` | index, roots file | match, admit |
| Evidence, wire, guard, prefix map | `evidence`, `wire`, `contentguard`, `prefixmap` | none | validate, encode, scan |
| Credential store and tokens | `store`, `keystore`, `sts`, `cmd/gasworks/{gettoken,login,logout,rotate,keys,edge}.go` | `credentials.json`, `edge-session.json`, keys | login, refresh, exchange, enrol, rotate, clear |
| Login flows | `edgedevice`, `oidc` | device authorization, deadline, interval | issue, poll, redeem, confirm; callback |
| Service key minting | `cmd/gasworks/{sp,secretout,interrupt}.go`, `climint` | challenge, reserved file, held signal | reserve, open, poll, redeem, persist, render, rescue |
| Axes and forwarder | `eventsaxis`, `usageaxis`, `recallaxis`, `cmd/gasworks-forwarder` | poll cursor | poll, forward |

`PROJECT.json` says of each how much of it is modelled.

### How they interact

- Producers (the watcher's sink, the run wrapper and the hook) call the local
  server over a Unix socket; the `SpoolWriter` assigns the sequence, fsyncs and
  replies. The reply may be lost, and the append may finish after its client
  gave up.
- The upload loop is a ticker. Each pass loads the ack sidecar into a fresh
  `AckState`, reads frames from the segments while the writer appends, forms a
  batch, sends it, and writes the sidecar. `Compact`, which removes segments below
  the sidecar, is part of the spool and has no caller in production
  (`docs/observer-daemon-release.md:517`); it is modelled so that the spool and the
  registry are checked against the day it has one.
- The consent loop re-reads the policy file and publishes a version; the watcher
  admits under the version it last saw; the fence sits between the append reply
  (where a frame gets its origin) and the upload (where it is sent as captured
  or as a placeholder). Its ledger is the only durable trace of its decisions.
- The watcher walks a root, decides of every file which part lies before the
  owner's consent, tails the rest and hands candidates to the sink; it tells the
  content uploader which transcripts exist and which session each carries. The
  uploader sends whole transcripts beside the log. A re-upload tool, another
  process, works on the same marker files.
- The run wrapper reserves space for its terminal records, records RUN_STARTED,
  starts a shim that reports its identity and waits until it is registered before
  it becomes the child. The registry folds those records; the hook inside the
  child asks it which run it is in.
- `Shutdown` stops the loops, records the origins of unsent frames, drains once
  more and exits; it has a deadline that may pass anywhere in between.
- The Collector (external) binds each sequence to the first body it receives
  and refuses a different one for good.
- The `gasworks` processes share two documents under a lock and a key store the
  lock does not cover; Keycloak, the STS, the cli-edge and the mint plane are
  external.

### What is hard

Kills and power losses between a write and its fsync or between two files that
must agree; rename done although the call reported an error; loops, a tool and
a shutdown in any order; a withdrawal between a check and a send; replies lost
after the effect; inode numbers reused and files renamed under a walk; state
files of older releases; a handshake between two processes of which either may
die; a token rotated at the server and not saved; a secret the server reveals
once. `PROJECT.json` lists the hazards by line, with the property that would
notice each.

### What correctness means

- Spool: what a producer was told is durable stays readable, unchanged, until
  acknowledged; no sequence stands for two payloads; every start succeeds, unless
  a power loss spoiled a frame nobody was told of.
- Delivery: the watermark is never ahead of the Collector; everything durable
  is delivered eventually; what can be split to fit is never refused for size.
- Fence: after a withdrawal nothing captured under it leaves as captured, unless
  it was already handed to the sender; no sequence leaves in two forms; only
  what the owner withdrew is withheld.
- Tail: every response's usage is counted, with its final value, under an
  opened session, and twice only where the sink cannot recognise it.
- Seal: what existed at consent is never delivered; what came later is, or its
  loss is reported, as far as fingerprints tell files apart.
- Content: no upload outlives its consent, none goes under another transcript's
  session, and what a stopped daemon owed is owed by the next.
- Runs: no child runs unregistered; records come in order; a reserve is held as
  long as it is owed; sessions are attributed to the run they belong to.
- Clients: one login in force; nothing cached outlives its login; a new sign-in is
  asked for with a reason; what is left where nobody can revoke it has a fault that
  accounts for it; a minted key's secret is never lost and the report is true.

## 2. Modules

| Module | Models | Composes |
|---|---|---|
| `DurableLog` | abstract: accepted observations, delivered in order, each once | |
| `Spool` | segments, sidecars, `SpoolWriter`, kills, power losses | refines `DurableLog` |
| `SpoolProofs` | theorems about `Spool` | extends `Spool` |
| `ConsentFence` | watcher, upload lane, consent loop, fence, ledger, Shutdown | uses the spool as the number of the highest durable frame, as `Spool` justifies |
| `Delivery` | upload pass, planner, deliverer, `AckState`, Collector's replies | frames by size; payloads are in the other two |
| `TranscriptTail` | one transcript: cursor, parse carry, sidecar, drain, sink | watcher and parsers and sink |
| `RootSeal` | one root: walk, baselines, fences, control record | watcher and control files |
| `ContentUpload` | whole-transcript uploads and the re-upload tool | watcher's calls, consent, uploader, tool, Collector |
| `RunLifecycle` | runs: wrapper, shim, reserves, server, registry, hook, binding | seven actors over one log |
| `CredentialStore` | concurrent `gasworks` commands over one profile | store, key store, STS, Keycloak, cli-edge |
| `DeviceFlow` | the three login flows | client, server, person |
| `MintKey` | `gasworks sp mint-key` | client, file system, signals, mint plane |
| `DeliveryProofs`, `ConsentFenceProofs`, `ContentUploadProofs`, `RunLifecycleProofs`, `CredentialStoreProofs` | theorems about the module of that name | each extends its module |
| `ClientProofs` | theorems about `MintKey` and `DeviceFlow` | extends both |
| `NatBounds` | least and greatest elements of sets of naturals, for the proofs | |
| `MCSpool`, `MCConsentFence`, `MCDelivery`, `MCTranscriptTail`, `MCRootSeal`, `MCContentUpload`, `MCRunLifecycle` | model values, transcripts and symmetry for the runs | |
| `MCClients` | chooses one of `CredentialStore`, `DeviceFlow`, `MintKey` per behaviour; they share no state | the three |

Each module has one state invariant that gathers its types and the consistency
of its bookkeeping from named parts (`SpoolInv`, `FenceInv`, `DeliveryInv`,
`TailInv`, `SealInv`, `ContentInv`, `RunInv`, `CredInv`, `FlowInv`, `MintInv`);
what the component promises to others is stated apart from it.

### Spool

`seg[f]` is the file `wal/<f>.seg`: header state, last complete frame, last
frame on stable storage, what follows it, and which payloads were written there
since the last fsync. `wal` holds the payloads. `pc` is the point the process has
reached between two system calls that a crash can separate.

| Action | Code |
|---|---|
| `Recover` | `spool.Recover`: walk, truncate a torn tail, drop an interrupted create, next sequence |
| `BindIdentity`, `ReclaimEmptyTrailingSegment`, `OpenOrCreateSegment` | `NewSpoolWriter` |
| `CreateHeader`, `CreateSync`, `CreateFails` | `CreateSegment`, one action per durable step |
| `AppendObservation`, `WriteFrame`, `SyncFrame`, `AppendFails`, `AppendExhausted`, `Rotate` | `appendFrameLocked`, `Segment.Append`, `rollback` |
| `Deliver`, `Acknowledge`, `Compact` | reader side: `ReadRange`, `AckState.Acknowledge`, `Compact` |
| `Stop`, `Kill`, `PowerLoss`, `Writeback` | environment; a power loss keeps any image the missing fsync allows |

Frame sizes are abstracted: a segment with a frame may be full for the next one
and is full with `SegFrames`. A frame that was not synced may read back after a
power loss as absent, cut short, of full length and failing its checksum, or whole
(`TailImages`). Left out: errors of recovery's own file operations
(`recover.go:322`), which end the start and leave the rest to the next one.

### ConsentFence

The watcher's append is three steps (admitted, durable, recorded), because a
withdrawal, a shutdown or a crash may fall between them. The lane is `Ceiling`,
`Refresh`, `PlanBatch`, `BeforeSend`, `Send`, `Acknowledge`, one action per lock
section of the fence. `CheckPolicy` is one tick of the consent loop.
`RecordShutdown` covers the record written before the final drain and the one
written when the deadline passes. `Start` is `newConsentFence` with the policy it
is given. Ghosts: `cap` (consent each frame was captured under), `sent`, `tried`,
`untracked` (frames whose origin the design gives up), `safe`, `unsure`,
`unsynced` (a ledger write reported failed although its rename was done).

### Delivery

One pass is `PassBegins`, then `PlanNext`, an exchange with the Collector and
`Acknowledge` until `NothingOwed`, or an ending by `Hold`, `RetriesExhausted`,
`PersistFails` or `Interrupted`. The exchange is one of `Store`, `StoreUnheard`
(stored, the reply lost or an error), `Reject`, `Refuse`, `Misanswer` (a 200 that
does not match), `TimeOut` with `ArriveLate` (the batch lands after the client
has given up). `Bytes` is the body size the byte budget cuts on, the difference of
two cumulative sizes (`Offset`), so that the proofs need no induction over a batch.
Left out: errors of reading the sidecar and the segments (`service.go:866`,
`batch.go:161`), which end a pass before it has changed anything.

### TranscriptTail

A transcript is a script of records, each ending at a unit offset; the file is a
prefix of it, and `gen` counts in-place rewrites. `cur` is the `Cursor` in
memory with the carry of the parse (mode and totals of a rollout, session, open
Claude responses, ids counted); `disk` and `side` are its state file and
counted-id sidecar. `DrainRead` is read, parse, deliver a prefix and commit;
`DrainSettle` counts what a quiet file left open; `DrainRestart` and
`DrainUpgrade` are the reset after an invalid offset and the carry derived from
an older release's state; `SaveCounted` and `SaveState` are the two writes of a
save, and `SaveFails` covers a state file that was replaced before the directory's
fsync failed. `deliver` is the sink: it remembers the sessions it started and the
last `UsageMemory` usages with an id, and the append a delivery stops at may be
durable although its reply did not come (`consent_fence.go:49`). Some usages have no id
(`anon`), and a line may have a candidate after its usage (`RefCand`), so that delivery can
stop inside a line. Left out: what tool, message and work candidates say, diagnostics, and
an in-place rewrite between the corroboration and the read on one descriptor.

### RootSeal

Files are sequences of records, named by inodes and linked at locators, and
their owner renames, links, replaces, truncates and edits them. The walk visits
one locator per action; `cursorFor` chooses between a tracked cursor, a saved one
and a fresh one, `inheritSealLineage` decides what a new inode continues,
`reconcileLineage` which fence stands at a locator, and `FlushPolicyControls` is
the write that must come before a floor is used; `PollEnds` flushes again what the
drains added. Fingerprints are the record at
the floor. `cut` marks a number whose file or history changed under a record the
daemon keeps, until the first drain that reads it; `blind` marks what no fingerprint
will tell. Left out: a failing sink while files are reconciled, a bump of the
generation, and the floors of project members.

### ContentUpload

One action per critical section of `content.go`: the tick plans, writes pending
records, reads, registers the flight, posts, and settles; every file operation
is an action after the lock was released. `calls` holds the `onConsentChange`
calls in progress. A transcript is a life of an inode number. The writes of markers and
pending records and the delete of an accepted one (`dropPending`) may fail; `unwritten`
holds the transcripts whose marker could not be written. The tool leaves out a
transcript whose name is another one's (`misnamed`), as `reupload.go:271` does for
codex, or sends it, as it does for claude. Left out: back-off
times and the minimum gap (a hold may end at any moment), header validation and
screening, torn state files (`writeStateFile` is atomic), loss of power, and failing
deletes in `sweepPending` and `ForgetContent` (`content_pending.go:275`, `content.go:1118`),
whose files stay until the next sweep, at a consent change or a start.

### RunLifecycle

The wrapper's calls are messages in `inbox`, and in `folding` between the append
and the fold; a wrapper that gives up leaves its message behind, and the frame
it causes is marked `late`. The shim's handshake is `writeIdentity`, `writeAck`,
`ShimMarks`, `ShimExecs`, with the pipes' end of file. `DaemonStarts` loads
reserves and replays what compaction left of the log; `ReplayWAL` is written as what
the fold over the log arrives at, and `MCRunLifecycle` checks it against that fold on
every log of up to three records (`ReplayIsFold`). `Above` gives the runs a run was
started in, to any depth (`maxAncestryDepth`, 256 processes, is not modelled);
`proveLineage` takes the nearest registered one that the walk over live processes reaches.
The hook's look-ups along that walk are one step. Left out: signal
forwarding, reuse of process ids, a corrupt sidecar, events that attach nothing
(another workspace, clear and compact), a drain that is not complete.

### CredentialStore, DeviceFlow, MintKey

`CredentialStore` has one action per hold of the store's lock and one per request
between two holds, for `login`, `login --edge-device`, `getToken`, `rotate-key`,
`whoami` and `logout`; bd's own login is an environment step. One organisation,
product and key backend; expiry is an event (`Lapse`), of a refresh token too. What the
code does best-effort may fail: deleting and purging keys, revoking a root, putting
`edge-session.json` back after a failed commit. `EdgeRefused` gathers the refusals
that ask for a new sign-in whatever the root is worth. The error of a machine
without an approved key store (`keys.go:30`) asks for a setting, says that a sign-in
will not help, and is outside. `DeviceFlow` has a clock:
sleeps and lost answers take time. In it and in `MintKey` a sleep ends at most one tick
late: a suspended machine, after which `sp.go:693` does not look at the deadline again
before it polls, is outside, and so is a negative interval from Keycloak. `MintKey` follows the reserved file from
reservation to rendering through every write, the fallback file and the
terminal; `guard` is the held signal; `Meddle` is another program moving or
replacing the file. The mint plane's 425 and named refusals are taken as true,
which is what the client's comments rely on. A failing `fstat` in
`stillTheReservation` (`secretout.go:601`) takes the same rescue path as a moved file and
has no step of its own.

## 3. Runs

| Run | Asks | Result |
|---|---|---|
| `spool_kill` | kills at every step of startup, append, rotation, delivery, compaction, with failing writes and creates | no sequence is bound or reported twice, the watermark follows the Collector, every start serves, `DurableLog` is implemented |
| `spool_power` | power losses in place of kills | nothing reported is lost, a start is refused only over a spoiled frame nobody was told of; the invariant of the proofs |
| `spool_exhaust` | the end of the sequence space; stops, a kill or a power loss, failing writes and truncates | an append always ends with the writer ready again |
| `fence_crash` | all loops, Shutdown, a crash, a lost append reply, a failing ledger write, with and without a policy | the ledger is exact, one form per sequence, a withdrawal reaches every attributed unsent frame |
| `fence_aside` | withdraw, re-register, graceful restarts, segments moved aside in between | a new consent does not cover old captures; stale decisions withhold nothing new; everything durable is acknowledged while the daemon serves |
| `delivery` | lost, late, wrong and refused exchanges, failing sidecar writes, interrupted passes, three frame sizes | watermark behind the Collector; `AckState` never refuses its own callers; only a single frame can be over the limits; everything the Collector can take is acknowledged |
| `tail` | seven transcripts of both dialects, read in chunks with two faults (crash, failed or unheard delivery, failed save, rewrite, lost sidecar tail), from state files of three releases | nothing lost, each response with its final value and once, but for three exceptions, everything counted in the end |
| `seal` | three locators, three inodes, two operations and an edit by the owner, a crash or a walk that sees too little | history stays sealed, nothing later is skipped where fingerprints tell, floors are durable before use |
| `content` | one inode number with two lives, consent edits, every answer of the Collector, stop, kill, a failing write or delete, the re-upload tool | consent reaches flights and queued records, sessions are right, records are true, what is owed survives a stop |
| `content_cutoff` | is a marker's date the date of an upload? | no, see below |
| `runs` | a run and a nested run, either of them observed or not, one session, a fault anywhere, admission at the limit | order, reserves, attribution and admission hold, and no state is a standstill |
| `clients` | two commands at once over one store; the login flows; key minting | one login in force, honest commands, nothing stranded without a fault; paced flows that end and keep an approval; no minted key is lost |

Every property has a mutant, a plausible bug in a mapped definition, that TLC
finds. A property of several named parts has one, which breaks one of the parts.

Deadlock is checked in the spool, fence, delivery and seal runs. It is off where
the system may stop: a transcript that is finished, a daemon and a tool with the
bounds used up, wrappers that are done (`NoStandstill` states there what deadlock
freedom would), commands that have ended.

### Disagreements between code and comments

`content_cutoff` states what a comment of the repository promises and ends in a
counterexample (quotes in `PROJECT.json`, `findings`): when only a transcript's
modification time moved, `processOne` re-dates its marker without sending it, and
a re-upload with a cutoff in between does not select it.

Others are exceptions written into a property, or appear when a configuration
is changed as said.

Spool, delivery, fence:

- `MCSpool_kill` with `Endings = {"kill", "power"}`, `MaxCrashes = 3`, no deadlock check and
  `NeverReassigned`: recovery counts a frame it reads from the page cache as durable (`recover.go:154`). Kill,
  upload, power loss, and its sequence is given away. This is why `spool_kill` and
  `spool_power` are two runs.
- `MCSpool_exhaust` with `Endings = {}`, `Faults = {"create"}`, no deadlock check: a create that fails
  during rotation leaves the closed segment in place; every append fails until a
  restart (`server_unix.go:735`).
- `RefusesOnlyUnreported` excepts a power loss during an append that leaves the frame's
  length without all of its bytes. Recovery takes it for "corruption inside a complete frame"
  and refuses the start (`recover.go:307`, by the checksums of `frame.go:250` and `:278`) until
  an operator steps in, although no producer was told of the frame. The comment at `frame.go:238`
  rests on "trailing truncation only ever removes bytes from the end", which a lost fsync does not
  promise.
- `MCSpool_exhaust` with `Endings = {"stop"}`, `SequenceMax = 5` and `RefusesOnlyUnreported`: `rollback`
  ignores a failed truncate (`segment.go:247`). The rest of the failed frame can lie
  behind the next one, and the next start refuses.
- `MCSpool_kill` with `RefusesOnlyUnreported`, without deadlock check, and each of these:
  `Endings = {"kill", "power"}`, `Faults = {"create"}` (recovery adopts a frame that was never
  synced, `rotate` closes the segment without fsync, and a power loss tears the frame in a
  segment that is no longer last);
  `Endings = {"stop", "power"}`, `Faults = {"write"}` (the bytes of a failed append are cut
  off without fsync, `segment.go:247`, and a power loss after a rotation
  brings them back behind a segment that is no longer last).
  `NeverReassigned` is violated for `{"stop", "power"}` with failing writes and truncates. The
  hypotheses of the proofs in section 4 exclude these and the mixtures named above.
- `MCSpool_exhaust` with `Endings = {"stop"}` and `ReportedOnce`: a restart after the last
  sequence was used opens a segment at that sequence and reports it again
  (`server_unix.go:649`).
- `MCDelivery_deliver` with limits of the Collector below the local ones and `OverLimitsAlone`: the
  companion never asks for the Collector's limits (`cmd/gasworks-companion/daemon.go:156`),
  so a batch that could be split is refused on every pass, where `upload/batch.go:36`
  promises the minimum of both.
- `MCDelivery_deliver` with `ReplayedUnchanged`: after exhausted retries the next pass
  forms its batch anew, where `retry.go:55` and `service.go:858` say it is
  replayed byte for byte.
- `ConsentRespected` excepts segments moved aside: the whole shutdown record is dropped
  when its last frames are gone, with the origins of those still there
  (`consent_fence.go:289`).
- `NoConflict`, `RecordExact` and `ConsentRespected` except a ledger write whose rename was done
  and whose directory fsync failed: the file is in place and taken for absent
  (`consent_fence.go:525`).
- `MCConsentFence_aside` with `MaxCrashes = 2` and `NoConflict` or `OnlyWithdrawnWithheld`:
  decisions on frames moved aside are dropped in memory only (`consent_fence.go:278`), and
  a run after the next crash finds them in the ledger and applies them to the new frames
  that took the sequences. This is why both theorems assume `asides = 0`.

Watcher and content:

- `NoDuplicateInProcess` has three exceptions, where the sink's own comment promises
  at-least-once delivery and counts on recognising a repeat (`sink.go:28`, `:83`). An append
  that is durable and whose reply does not come in time is delivered again under a new
  sequence. A usage without an id "can never be recognized" (`sink.go:93`): it is repeated when delivery stops
  behind it in its line, or anywhere in a chunk read while the cursor skips an overlong
  line, of which nothing is committed (`watch.go:1423`). And an id is recognised only among the
  last 32 (`usageMemory`, "which never hold more than a few"): a chunk read while skipping may have more.
- A state file that was replaced before the fsync of its directory failed (`cursor.go:711`)
  leaves the cursor in memory with the older claim on the sidecar. The next save cuts the sidecar back
  to that claim (`cursor.go:592`), and a crash inside it loses ids that the state file owns:
  their responses may be counted twice after a rewrite, as after a lost sidecar tail. The run
  lets this happen only while no tail was lost.
- `NothingSkipped` excepts `blind`. A floor without a fingerprint stays in force for a number
  that is given to another file: activation seals every regular file, one that `Match` does not admit
  never gets a fingerprint, and its floor is retired only after two corroborated walks without it
  (`root_policy.go:489`). A transcript that takes the number before that is fenced up to the dead
  floor without a report. The same holds of an edit that keeps the bytes which end at the
  floor, or changes bytes above it: `corroborateOffset` says such an edit "can only over-deliver already-consented
  bytes" (`watch.go:1676`), and records behind it can be passed over.
- `MCRootSeal` with `MaxOps = 3` and `SealHolds`: a number is freed and used again inside one walk that
  has already recorded it at another locator, and history gets past the seal.
- `MCRootSeal` with `QuietActivation = FALSE` and `SealHolds`: a rename during the activation walk
  hides a file from it, and its history is delivered later; the comments at
  `watch.go:560` and `:738` accept a race only in the other direction.
- `KeyedRight` excepts `budget.stale`: a marker or a session of an earlier transcript keys a
  new file on a reused inode number after a kill, a swept generation, or a marker
  written after `ForgetContent` (`content.go:632`, `:1108`), where `ForgetContent`'s
  comment says that a later file with the number "starts fresh rather than resurrecting a
  stale marker or session".
- The same exception covers an answer that outlives its file, which a proof attempt turned
  up: `postSnapshot` looks the state up again by inode number when the answer is there
  (`content.go:808`). If the transcript was replaced meanwhile, a rejection of the old bytes
  is recorded on the new transcript, with the old session as the session to send under; the
  plan writes that session to the pending record, and after a kill, before the sink has
  learnt the new one, the new bytes go out under it. `MCContentUpload` with `MaxFaults = 2`,
  `MaxOps = 2` and `NoteOutcome` reduced to `UNCHANGED budget` shows it.
- `MarkerHonest` (the session) and `OwedAcrossStop` except `budget.stale` too, for `MaxOps = 4`:
  `processOne` re-dates a stale marker with a session its bytes were not sent under, and the
  tool puts the marker of an earlier transcript over the daemon's.
- `HandledForReason` has a last alternative, which a proof attempt turned up for `MaxAttempts = 2`:
  a snapshot was given up, and a failure of a newer one, read by a job planned before the
  watcher observed it, has restarted the count (`recordPostFailureLocked`, `content.go:957`).
  The old stat then has no recorded reason; it is no longer the file's, and the next poll
  makes the transcript owed again.
- `reuploadRootsFromPolicy` says the tool never sends what the live consent does not
  cover; it reads the policy once, at its start.
- `OwedAcrossStop` excepts a transcript whose own marker could not be written: it is
  remembered as uploaded, and the stop writes no record for it. A pending record that could not be
  written or deleted, or an answer that refused or shed the transcript, is not excepted.

Runs:

- A transport error on `ReserveTerminal` returns without a release; `ReconcileReserves` and
  `ScanRunEvents`, which would repair it ("recovery reconciles it", `drain.go`), have no
  caller outside the tests. `NoLeak` excepts runs a fault touched.
- `Reserve` and `Release` change the map before the sidecar is written: a retry after a
  failed write is a no-op that reports success (`capacity.go:96`).
- The session of an `--allow-unobserved` child "stays its own inferred run" (`run.go:390-393`; `:32`
  says the bypass "registers no ancestry"). Stripping the run id does not hide the process
  tree: where the child was started inside an observed run, `Decide` finds no inherited id and attaches the session by lineage to that
  run (`attachment_unix.go:218-225`). `PastBypass` is this exception in `AttachHonest`; with it replaced by
  `FALSE`, `runs` violates `AttributionSound` in 16 steps.
- Admission evaluates the level after the run's own reserve is counted, and passive
  appends never consult it.
- `ScanRunEvents` takes PROCESS_EXITED for terminal, the wrapper releases only after RUN_ENDED.
- RUN_STARTED may be durable although the wrapper reports that it is not; a late
  REGISTERED may follow RUN_ENDED (`late` in `TerminalOrder`).
- The final scan of `discoverAndBind` runs under the cancelled context and binds nothing
  (`bind.go:57`); binding takes any new file, another run's session included
  (`BoundIsNew` says only that it is new); bindings are lost when the daemon restarts.

Clients:

- `logout` purges keys outside the lock before it clears the store: it can remove the key a
  concurrent login has just enrolled, leave one enrolled after the purge
  (`logout.go:35` says none is left), and clear an edge login committed after its
  snapshot without revoking its root. These are `stray`, `purged` and `adrift`.
- A crash or failed save between Keycloak's rotation and the write loses the refresh
  token (`gettoken.go:343`).
- Only an edge login (`edge.go:193`) and `logout` (`logout.go:24`) revoke the refresh token they
  replace or clear; a refresh forgets the keys of the sessions it drops and revokes nothing
  (`gettoken.go:370`). A proof attempt showed that the model had kept a token from the
  optimistic read that the code does not keep; `credential` now drops it.
- A new sign-in is asked for in more cases than a spent credential: an edge command does so on a
  400 of the STS (`edge.go:403-416`), on an org that is not the root's (`:388`) and on any error of reading
  its key (`:477`), which a second attempt or a setting may repair. `ReloginHonest` takes each as the
  command's own reason (`hit`).
- Keys are deleted and purged best-effort with the error dropped (`keys.go:101-121`, `keystore/file.go:141`), and
  `restoreEdge` may fail after a failed commit (`store/edge.go:154`, `:195`): the previous root is then in
  no file and alive. These join `stray` and `adrift`.
- A superseded edge login is told to log in again although a Keycloak login is in force.
- The expiry grace recovers a lost redeem (`edgedevice.go:50`) only when the interval is
  not longer than the grace and the loss is not late (`lateLoss`).
- The Keycloak device grant may poll one interval after its deadline and gives up on any
  transport error.
- `discard` removes the path without the `stillTheReservation` check, so a file that has
  replaced the reservation is removed (`secretout.go:331`); the last message "in no file
  and on no stream" can be false after a failed truncate; a second signal after the guard
  is released can take the report; a stderr pipe without a reader ends the process by
  SIGPIPE before the terminal is tried (`secretout.go:937`, not modelled). `mintSeen.late`
  is the residual the comments accept: the file moves after the last check.

### Bounds

- Spool: three sequences and segments of at most two frames give an empty, a
  partial and a full segment, two and three files at once, and an empty trailing
  segment behind a full one. Two payloads tell a reassignment from a rewrite. Two
  crashes let recovery meet what an interrupted recovery left (one in
  `spool_exhaust`, which has both kinds). `SequenceMax` is
  one above `AppendBound` except where the end itself is the question.
- Fence: a batch of two and two sequences give a batch, a remainder and an unsent
  frame; two generations are needed for re-registration. One crash is enough for
  what a crash leaves and the run that meets it. One root: that a withdrawal spares
  other roots is not checked. Other producers leave a sequence to an append already admitted
  (`Room`), so that the bound itself never blocks the gate.
- Delivery: a local budget of two frames and two bytes and a Collector limit of
  three bytes, with sizes 1, 3 and 4, cut a batch by count, by bytes and not at
  all, and include a frame over the local budget and one the Collector refuses. Two
  attempts distinguish a retry from the exhausted case.
- Tail: chunks of three units and lines of one, two and four cut lines anywhere and
  include one over the partial-line bound; two open responses with three side by
  side reach the eviction; a sink that remembers two usages forgets; each fault once, two
  together, so that a fault meets the recovery from another.
- Seal: three locators, two of them matching, and three inodes give a rename, a replacement
  and a reuse; two operations and one edit after the activation, one fault. With three operations
  `SealHolds` is violated as said above, and `NothingSkipped` held over the 12.9 million
  states searched before the run was ended.
- Content: two lives of an inode number, snapshots of up to three units with two
  allowed (an oversize one), two generations, one attempt, one fault and three changes
  of the world: a withdrawal and a new consent beside an append, or a stop, a start
  and one change.
- Runs: one run inside another. With three nested runs more than six million states were searched
  without a violation, and the proofs cover any depth. Reserve 2, soft threshold 4 and
  hard floor 6 admit two runs and refuse one more; a fault and another operation.
- Clients: two processes and two commands, one fault, one lapse; server intervals and
  lifetimes of zero, below, at and above what the client clamps to; three lost
  requests in a row; three faults and two signals while minting.

### Fairness

- `Spool`: weak fairness of startup and of serving an append. Both are straight
  code without waits, and the service manager restarts a stopped daemon. Faults,
  kills and appends by producers are not fair.
- `ConsentFence`: the ticker fires again and a pass has no unbounded wait (weak,
  lane); a client append has a deadline (weak); the daemon is restarted (weak);
  the network does not lose every request or every reply (strong, `Send` and
  `Acknowledge`), which the code needs and cannot provide itself.
- `Delivery`: weak for the steps of a pass, whose requests and backoffs are
  bounded in time; strong for `Store`: the Collector takes and confirms a batch
  offered again and again.
- `TranscriptTail`: polling goes on while there is something to read (stated as: infinitely
  often nothing is pollable or a drain happens, which is weak fairness of `Drain`),
  saves follow, a dead daemon is restarted, and the provider finishes its transcript.
- The other modules state safety; `NoStandstill` is what `RunLifecycle` has in place of a
  liveness property: no step of `Progress` can be repeated, so a state in which one is
  enabled leads to the end of every wrapper.

## 4. Proofs

The theorems hold for every value of the constants that the modules' assumptions
allow: any number of frames, roots, transcripts, runs, processes' faults and crashes.
The assumptions are types of the constants and what the code's own constants satisfy.

| Module | Theorem | Statement |
|---|---|---|
| `SpoolProofs` | `InvariantHolds`, `Durability` | `Spec => []SpoolInv`, `Spec => []ReportedDurable` |
| | `AckOnlyCollected`, `ReplyOnce` | `Spec => AckFollowsCollector`, `Spec => ReportedOnce` |
| | `BoundForGood`, `StartsAccepted` | `Spec => []NeverReassigned`, `Spec => []RefusesOnlyUnreported`, each for the endings and faults its hypothesis allows |
| | `RefinesDurableLog` | `Spec => ImplementsDurableLog`, under the hypothesis of `BoundForGood` |
| `DeliveryProofs` | `WatermarkBehindCollector` | `Spec => []AckBehindCollector` |
| | `WatermarkMovesUp` | `Spec => [][ackFile' >= ackFile]_ackFile` |
| | `DeliverySound` | `Spec => []DeliveryInv` |
| `ConsentFenceProofs` | `FenceSound`, `WithdrawalReaches` | `Spec => []FenceInv`, `Spec => ConsentRespected` |
| | `NeverConflicts`, `OnlyWithdrawn` | `Spec => [](asides = 0 => NoConflict)`, the same for `OnlyWithdrawnWithheld` |
| `ContentUploadProofs` | `ConsentHonoured`, `KeysRight` | `Spec => []ConsentCovered`, `Spec => []KeyedRight` |
| | `RecordsReasoned`, `RecordsHonest` | `Spec => []ContentInv`, `Spec => [](MarkerHonest /\ JournalHonest)` |
| | `OwedSurvivesStop` | `Spec => OwedAcrossStop` |
| `RunLifecycleProofs` | `RecordsSound`, `ReservesHeld` | `Spec => []RunInv`, `Spec => []ReservesSound` |
| | `RoomForTerminals`, `AttributionHonest` | `Spec => AdmissionHonoured`, `Spec => []AttributionSound` |
| `CredentialStoreProofs` | `DocumentsSound`, `CommandsAreHonest` | `CredSpec => []CredInv`, `CredSpec => []CommandsHonest` |
| | `CredentialsAccounted` | `CredSpec => []NothingStranded` |
| `ClientProofs` | `MintSound`, `MintedKeyKept` | `MintSpec => []MintInv`, `MintSpec => []KeyKept` |
| | `LoginSound`, `ApprovalKeeps` | `FlowSpec => []FlowInv`, `FlowSpec => []ApprovalNotWasted` |

All follow one pattern: an inductive invariant, one lemma per action or group of
actions that keeps it, and a last step that reads the property off. The runs check the
named parts of these invariants where they are part of a property, and each was checked
with TLC before it was proved.

### Spool

Assumptions: `SpoolAssumption` (types of the constants, payloads distinct from
the three tail marks), and `AppendBound < SequenceMax`: producers stop before the
sequence space ends. The second cannot be dropped: section 3 names the
counterexample at the last sequence.

`ReportedDurable` is not inductive: it says nothing of what recovery or the
writer will do next. `SpoolInv` adds

- `FileShape`, `NoOverlap`: frames lie inside their file and files do not
  overlap, except for a headerless last file that startup removes; so a sequence
  has one place on disk and compaction or reclaim of another file cannot lose it;
- `FrontAcknowledged`: the first file starts at or below the watermark plus one,
  so that the walk of recovery leaves no gap unseen;
- `FreshShape`: a file whose creation is not durable is last and empty, so a
  power loss that removes it removes no frame;
- `BootShape`: what the walk found (next is above every frame on disk) is still
  true when the writer opens its segment;
- `WriterShape`: the writer's segment is the last one and ends where
  `highestDurable` says, so an append or its rollback touches only the new frame;
- `AckShape`: watermark, batch in flight and Collector are ordered.

The proof has one lemma per action (`RecoverStep`, `AppendStep`, `PowerLossStep`,
...) and lemmas about the walk (`WalkSeparates`, `WalkBelowNext`,
`WalkComplete`). `spool_power` checks `SpoolInv` with TLC on the same module. The
proofs of these four theorems cover mixtures no run has: any number of kills, power
losses, failing writes, truncates and creates together.

The next three hold only for some mixtures, which is what section 3 shows and what their
hypotheses say.

`BoundForGood` and `RefinesDurableLog` assume `ReadsAreSafe`: either there is no power loss, or
there is no kill and no failing truncate. What a reader then takes from a segment
is synced, or survives as long as the daemon's own memory does. `KeptInv` adds to
`SpoolInv` that a sequence the Collector has bound is acknowledged or still held
(`CollectedHeld`) with the payload it was bound to (`HeldRight`), is below the next one to be
written (`CollectedBelow`), and that what lies behind the last committed frame is bound to nothing
(`TailUnbound`); with power losses, that every committed frame is on stable storage
(`SyncedShape`). The refinement then has two steps of interest: `SyncFrame` reports a payload to
a producer that the log has not given away, and `Deliver` binds a prefix that agrees with what was
reported; every other step is a stutter.

`StartsAccepted` assumes `WritesAreSafe`: no power loss and no failing truncate, or no kill and no
failing write. `ChainInv` says what a start checks: segments join and only the last
may end in a torn frame (`ChainShape`, `LastShape`), the identity sidecar is there before any file
(`IdentShape`), and with power losses everything but an append in progress is on stable
storage (`StableShape`). The one state it does not cover is `Spoiled`: power failed during an append
and its frame fails its checksum; there every start ends in a refusal, over a frame
that was never reported. TLC checked `KeptInv` for `{"stop", "kill"}` with all three faults and for
`{"stop", "power"}` with failing writes and creates, `ChainInv` for `{"stop", "kill"}` with failing
writes and creates, and `ChainInv \/ Spoiled` for `{"stop", "power"}` with failing creates, before they
were proved.

### Delivery

`PassInv` (types, where a pass stands, what `AckState` holds, the watermark) is
inductive. `DeliverySound` assumes `MaxObservations <= ServerObservations` and
`MaxBatchBytes <= ServerBytes`: without them `OverLimitsAlone` is false (section 3). What
the planner takes is the longest prefix within both budgets (`NatBounds` gives the
greatest element), so a batch above the Collector's limits has a single frame.

### Consent fence

`FenceInv` is inductive: it ties the lane's batch, the fence's memory, the ledger and
the shutdown record to each other. The other three add one conjunct each:
`DecisionShape` (a decision stays in the ledger until its frame is acknowledged, so a
sequence sent once is sent the same way again), `OriginShape` (the origin of every unsent
frame is in memory, in the shutdown record or given up) and `WithheldShape` (a consent
that is gone stays gone). `asides = 0` is needed for `NoConflict` and
`OnlyWithdrawnWithheld`, see section 3; `ConsentRespected` has its own exception for it.

### Content side channel

`ConsentKept` is the invariant behind `ConsentHonoured`. A transcript is queued under the
generation and the life its watcher has (`WatchShape`), and so is every record planned
from it; therefore `onConsentChange` leaves no state from which `savePendingRecord` could
write a record the new policy does not cover, although it was planned before. A request
the policy does not cover is cancelled, or the call that will cancel it is still running
(`FlightShape`).

`RecordsTrue` is the invariant behind `KeysRight` and `RecordsHonest`. While nothing is
stale, the threaded session, the marker, the pending record and the marker in memory name
the transcript that is queued (`TablesTrue`); a job is about the transcript on disk or an
earlier one (`LoopTrue`), so a marker written late for the transcript on disk is the queued
one's; the tool works on old markers, which are all of the first transcript (`ToolTrue`).
The proof attempt found the missing case of `budget.stale` that section 3 describes.

`HandledForReason`, the rest of `ContentInv`, needs two more. `TimesTrue` orders what the
loops hold: a snapshot in hand and a marker are of the file's present or past, and one of an
earlier transcript with the number is older than the stat of the queued one; without it a
marker of an earlier transcript could make a new file of the same length look evaluated.
`ReasonsTrue` keeps, for the stat last evaluated, the reason it was evaluated for or the fact
that the file has left that stat behind, which is what survives a restarted count. Both rest
on `SideStep`, one description of what any step may do to a queued transcript, a marker
and the snapshots in hand.

`OwedSurvivesStop` is about memory standing for files: the last `recordOwed` writes no record
for a transcript it remembers as keyed. `Backed` says that it may: an uploaded transcript has
its marker on disk, or the loop is about to write it, and a remembered pending record is the one
on disk for as long as its consent lasts. Because generations only grow
(`PolicyOrder`), a record that a sweep has removed is never one the plan still relies on.
That marker and record name the right session follows from `RecordsTrue`. A marker that could not be
written leaves its transcript in `unwritten`, the one exception beside `stale`. TLC checked `Backed` on
`MCContentUpload` and with `MaxFaults = 0`, `MaxOps = 4`.

### Run lifecycle

`CapacityAssumption` orders the thresholds; `NestingAssumption` says that the runs around a run
are a chain, of any length. Seen from the log
every step is one of four kinds. `CallShape` says which of a wrapper's records are
durable given where the wrapper is, `ChildShape` what the shim and the child may have
done by then; with `RunInv` they are inductive (`RecordsKept`). `ReserveInv` adds what the
map and the sidecar hold for each run, `AttributionInv` the order of boundaries and
registrations in the log, which is what a replay after compaction relies on. That the nearest
registered run a hook reaches is the nearest observed one (`NearestIs`, `LineageTyped`,
`ObservedItself`) follows from the walk ending at the first process that has exited. `ReservesHeld`
is one-sided where a fault struck: an owed reserve is never lost, but only a run no
fault touched is shown to give its own back.

### Clients

`MintAssumption` and `FlowAssumption` state the inequalities between the code's time
constants (a redeem's margin covers its timeout, intervals are clamped into their
bounds); what a server names is any natural number. `MintShape` and `FlowShape` say what
holds where the program stands, and `RecoveryShape` that after a redeem whose answer was
lost there is time for one more poll. `ApprovalKeeps` has the exceptions `RootRecovered` lists; it
ends with the confirmation by the STS, and what `cmdLoginEdgeDevice` then gives up for an
org or a local failure (`edge.go:120-181`) is in `CredentialStore`, as `Abandon`.

`CredAssumption` asks for finitely many processes and natural bounds on commands, faults and
lapses. The three theorems about the store share one inductive invariant, `StoreInv`:

- `Room` counts: the generations, serials and refresh tokens used so far and those the commands
  under way may still use fit the bounds derived from `MaxCommands`. So the bounds never
  stop a step, and a value about to be handed out is fresh;
- `Jobs` says of each command what it holds where it stands: the shape of its working copy
  (`JobShape`), that everything in it was handed out before and an outcome has its reason
  (`KnownJob`), and how it relates to the two documents and the keyring (`PlacedJob`): a login
  about to be committed is in neither document, what a cleanup retires is not in force;
- `Apart`: no two commands hold the generation or the refresh token of one login about to be
  committed;
- `Documents` and `InForce`: what a document caches or enrols belongs to the login it carries,
  and the login last committed is the one in force;
- `Owned`: a live root or a stored key belongs to a document or to a command that will
  dispose of it, unless one of the ghosts of section 3 accounts for it.

None of the three properties is inductive alone: whether a logout strands a key depends on
what a login holds that has not committed yet, and whether a refresh is refused for a
reason on whose token it is. The proof has one lemma per action. Each establishes
the step's own job and documents; what happens to the jobs of the others is
one argument, `Undisturbed`: a step only adds to what was handed out, and touches nothing
another command owns.

### Only model-checked

- Liveness and everything with `ENABLED` (`NoStandstill`), which are beyond the prover.
- `NeverReassigned`, `RefusesOnlyUnreported` and the refinement of `DurableLog` at the last sequence, where
  producers do not stop before the sequence space ends.
- `TranscriptTail` and `RootSeal`: what a parse or a walk computes is a fold over records,
  which would need induction over data.

## 5. Not modelled

- Evidence validation, wire encoding, content guard, prefix map, the root policy file:
  functions of one input without shared state. The same holds of the parsers'
  tool, message and work candidates.
- Project membership (`membership*.go`): the index of a project store and the floors
  of members that join late.
- A corrupt consent ledger (refuses the start) and a daemon without a fence; a policy
  file that cannot be used (`failClosed`, `narrowRoots`); the directory lock and
  readiness; peer credentials, connection limits and framing of the local server.
- A compaction between two reads of one batch: a pass reads atomically here; in
  the code the read fails and the next tick repeats the pass.
- The Windows and macOS variants of launcher, lineage and key store.
- The remaining commands (`service_principal.go`, `whoami`, `inspect`, relays), configuration,
  HTTP, DPoP and JWT handling: one request each, or cryptography.
- The events, usage and recall axes and the forwarder.

## 6. Plan

1. `EventsAxis`: polling cursor and forwarding.
2. `ConsentSource`: `failClosed` and `narrowRoots` as an input to the fence: a
   policy that cannot be read never widens consent.
3. Project members in `RootSeal`; a reader that interleaves with a write in `Spool`.
