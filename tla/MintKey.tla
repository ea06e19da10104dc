-------------------------------- MODULE MintKey --------------------------------
(***************************************************************************)
(* `gasworks sp mint-key` (cmd/gasworks/sp.go, secretout.go, interrupt.go, *)
(* internal/climint): a challenge is opened (leg A), a person approves it  *)
(* in a browser, and redeeming it (leg C) mints a key whose secret the     *)
(* server reveals once and nobody can revoke.  The file the secret goes to *)
(* is reserved before leg A; leg C's answer is written there before it is  *)
(* parsed, then rendered; a destination that fails sends the bytes to a    *)
(* fallback file, and after that to the terminal.                          *)
(*                                                                         *)
(* Signals, kill -9, failing disk operations, answers that are lost or cut *)
(* and somebody moving the reserved file happen between any two steps.     *)
(* The mint plane is modelled by what the client's comments rely on: a 425 *)
(* or a 4xx that names a refusal is only sent when nothing was minted.     *)
(***************************************************************************)
EXTENDS Naturals

CONSTANTS mintChallengeTTLSecs, mintSessionMarginSecs, mintRedeemMarginSecs,
          MaxChallengeTTLSecs, mintTimeout,
          minPendingInterval, defaultPendingInterval, maxPendingInterval,
          MintWindows,    \* expires_in of leg A; 0: absent
          MintIntervals,  \* interval of a 425; 0: absent
          SessionLives,   \* lifetimes of the sessions the STS issues
          MaxMintFaults,  \* bound: disk operations and requests that fail
          MaxMintSignals  \* bound: catchable signals

\* What the client's own numbers are to one another: the redeem margin holds a
\* whole request, the session demanded beforehand holds leg A and the first
\* redeem, and the window assumed when none is named is one a server may name.
ASSUME MintAssumption ==
  /\ {mintChallengeTTLSecs, mintSessionMarginSecs, mintRedeemMarginSecs, MaxChallengeTTLSecs,
      mintTimeout, minPendingInterval, defaultPendingInterval, maxPendingInterval,
      MaxMintFaults, MaxMintSignals} \subseteq Nat
  /\ MintWindows \subseteq Nat /\ MintIntervals \subseteq Nat /\ SessionLives \subseteq Nat
  /\ mintTimeout <= mintRedeemMarginSecs
  /\ mintRedeemMarginSecs <= mintChallengeTTLSecs + mintSessionMarginSecs
  /\ 2 * mintTimeout <= mintChallengeTTLSecs + mintSessionMarginSecs
  /\ mintChallengeTTLSecs <= MaxChallengeTTLSecs

VARIABLES mint,      \* the command: where it is and what it holds
          plane,     \* the challenge, the key, and what leg C did there
          dest,      \* the reserved file
          spare,     \* the fallback file, and what was printed
          guard,     \* mintInterrupt
          mintClock, \* now
          mintSeen   \* history and bounds

mintVars == <<mint, plane, dest, spare, guard, mintClock, mintSeen>>

\* What a 2xx body is: the contract's envelope, one whose secret this client
\* cannot find, one whose secret it cannot use, one cut short, and one no mint
\* plane sent.
Bodies  == {"whole", "drifted", "unusable", "cut", "portal"}
Silence == {"lost", "5xx", "empty"}
Refusals == {"refused", "expired"}
Conflicts == {"conflict", "consumed"}
AnswerKinds == Bodies \cup Silence \cup Refusals \cup Conflicts \cup {"425", "unsent"}

Stages == {"flags", "reserve", "identity", "legA", "opened", "poll", "wire", "answered",
           "sleep", "arrived", "write", "render", "rewrite", "cut", "restore",
           "settle", "report", "rescue", "print"}

MintFault == mintSeen.faults < MaxMintFaults
Slip      == [mintSeen EXCEPT !.faults = @ + 1]
DiskSlip  == [Slip EXCEPT !.disk = @ + 1]

-----------------------------------------------------------------------------
(* climint: what leg C's answer means *)

Revealed(a) == a \in Bodies

SaysConsumed(a) == a = "consumed"

\* A 409 or 410 is open unless its code names a refusal.
MayHaveMinted(a) == SaysConsumed(a) \/ a = "conflict"

\* Mutant: any answer but silence is taken for the server's word.
legCSettledAny(a) == a = "425" \/ a \in Refusals \cup Conflicts

legCSettled(a) ==
  a = "425" \/ (a \in Refusals \cup Conflicts /\ ~MayHaveMinted(a))

\* decodeCredential: whether a secret was read out of the body.
held(body) == body \in {"whole", "unusable"}

\* A secret with a control or replacement character is no credential.
unusableSecret(body) == body = "unusable"

\* Why the answer cannot become the file that was asked for: an envelope that
\* cannot be read, a body that stopped arriving, a secret that cannot be used.
mintProblem(body) == body \in {"drifted", "portal", "cut"} \/ unusableSecret(body)

\* climint.seconds, clamped where the number enters the program.
challengeSeconds(v) == IF v > MaxChallengeTTLSecs THEN MaxChallengeTTLSecs ELSE v

\* A missing interval becomes the default, a long one the maximum.
pendingInterval(v) ==
  LET secs == IF v >= minPendingInterval THEN v ELSE defaultPendingInterval IN
  IF secs > maxPendingInterval THEN maxPendingInterval ELSE secs

-----------------------------------------------------------------------------
(* The reservation, and the ways the command ends *)

NoDest == [link |-> "none", content |-> "none", tail |-> FALSE, armed |-> FALSE,
           name |-> "none"]

\* discard: closes the file and, while it is armed, removes what is at its path.
discarded(d) ==
  IF d.armed THEN [d EXCEPT !.armed = FALSE, !.link = "removed"] ELSE d

\* The command returns with a message; the deferred discard runs.
Returns(says) ==
  /\ mint' = [mint EXCEPT !.over = "returned", !.told = says]
  /\ dest' = discarded(dest)

\* Flags, --out, the format and the mint origin are judged before anything is
\* created or sent.
MintStart ==
  /\ mint.at = "flags"
  /\ mint' = [mint EXCEPT !.at = "reserve"]
  /\ UNCHANGED <<plane, dest, spare, guard, mintClock, mintSeen>>

\* mintRequest: scopes outside the product, duplicates, wildcards in the refs.
RefuseFlags ==
  /\ mint.at = "flags"
  /\ Returns("refused")
  /\ UNCHANGED <<plane, spare, guard, mintClock, mintSeen>>

\* --dry-run prints the request and contacts nothing.
DryRun ==
  /\ mint.at = "flags"
  /\ Returns("nothing")
  /\ UNCHANGED <<plane, spare, guard, mintClock, mintSeen>>

\* reserveSecretDestination: created exclusively, its mode checked, its blocks
\* claimed and flushed; one that fails is thrown away.
ReserveDestination ==
  /\ mint.at = "reserve"
  /\ \/ /\ \E name \in {"--out", "partial"} :
             dest' = [link |-> "ours", content |-> "proof", tail |-> TRUE,
                      armed |-> TRUE, name |-> name]
        /\ mint' = [mint EXCEPT !.at = "identity"]
        /\ UNCHANGED mintSeen
     \/ /\ MintFault /\ mintSeen' = DiskSlip
        /\ Returns("refused")
  /\ UNCHANGED <<plane, spare, guard, mintClock>>

outlivesTheCeremony(life) == life > mintChallengeTTLSecs + mintSessionMarginSecs

\* The cached session when it is long enough and its key is there, else a new
\* one, of which the same is demanded.  Expiries are instants; the clock is 0.
ensureMintSession(cached, new) == IF outlivesTheCeremony(cached) THEN cached ELSE new

\* An edge login, a missing or changed credential and a session that is not a
\* user's are refused.
ResolveMintIdentity ==
  /\ mint.at = "identity"
  /\ \/ Returns("refused")
     \/ \E cached \in SessionLives \cup {0}, new \in SessionLives :
          LET life == ensureMintSession(cached, new) IN
          IF outlivesTheCeremony(life)
            THEN mint' = [mint EXCEPT !.at = "legA", !.expires = life] /\ UNCHANGED dest
            ELSE Returns("nothing")
  /\ UNCHANGED <<plane, spare, guard, mintClock, mintSeen>>

-----------------------------------------------------------------------------
(* runMintCeremony *)

\* Whichever comes first: the challenge's window or the session, less what the
\* last redeem needs.
pollDeadline(opened, window) ==
  LET limit == mint.expires - mintRedeemMarginSecs IN
  IF limit < opened + window THEN limit ELSE opened + window

\* Leg A.
CreateChallenge ==
  /\ mint.at = "legA"
  /\ \/ Returns("nothing") /\ UNCHANGED <<plane, mintClock>>
     \/ \E v \in MintWindows, took \in 0..mintTimeout :
          /\ mint' = [mint EXCEPT !.at = "opened", !.window = challengeSeconds(v)]
          /\ plane' = [plane EXCEPT !.status = "open"]
          /\ mintClock' = mintClock + took
          /\ UNCHANGED dest
  /\ UNCHANGED <<spare, guard, mintSeen>>

\* checkApprovalURL refuses a URL that is not the mint plane's own; then the
\* deadline and the prompt.
PromptForApproval ==
  /\ mint.at = "opened"
  /\ \/ Returns("nothing")
     \/ LET window == IF mint.window > 0 THEN mint.window ELSE mintChallengeTTLSecs IN
        /\ mint' = [mint EXCEPT !.at = "poll", !.window = 0,
                                !.deadline = pollDeadline(mintClock, window)]
        /\ UNCHANGED dest
  /\ UNCHANGED <<plane, spare, guard, mintClock, mintSeen>>

\* interrupt.hold, then the request.
HoldAndRedeem ==
  /\ mint.at = "poll"
  /\ mint' = [mint EXCEPT !.at = "wire"]
  /\ guard' = [held |-> TRUE, first |-> FALSE]
  /\ UNCHANGED <<plane, dest, spare, mintClock, mintSeen>>

\* External: the mint plane handles the redeem that reached it.
PlaneRedeems ==
  /\ mint.at = "wire" /\ plane.did = "nothing"
  /\ \E did \in CASE plane.status = "open"     -> {"pends"}
                  [] plane.status = "approved" -> {"mints", "refuses"}
                  [] OTHER                     -> {"refuses"} :
       plane' = [plane EXCEPT !.did = did, !.key = @ \/ did = "mints"]
  /\ UNCHANGED <<mint, dest, spare, guard, mintClock, mintSeen>>

\* External: the person; an approval or a refusal, which expiry is too.
Approves ==
  /\ plane.status = "open" /\ mint.over = "no"
  /\ \E s \in {"approved", "denied"} : plane' = [plane EXCEPT !.status = s]
  /\ UNCHANGED <<mint, dest, spare, guard, mintClock, mintSeen>>

\* External: what may come back for what the plane did, and what comes back
\* when something between the two fails.
Answers(did) ==
  CASE did = "pends"   -> {"425"}
    [] did = "refuses" -> Refusals
    [] did = "mints"   -> {"whole"}
    [] OTHER           -> {}
Mishaps(did) ==
  CASE did = "nothing" -> {"unsent", "lost", "5xx", "portal"}
    [] did = "mints"   -> {"lost", "5xx", "empty", "drifted", "unusable", "cut"} \cup Conflicts
    [] OTHER           -> {"lost", "5xx"} \cup (IF did = "refuses" THEN {"conflict"} ELSE {})

\* CompleteChallenge returns; a 2xx body goes to persist before it is parsed.
\* A request that went unanswered took its whole timeout.
CompleteChallenge ==
  /\ mint.at = "wire"
  /\ \E a \in AnswerKinds :
       /\ \/ a \in Answers(plane.did) /\ UNCHANGED mintSeen
          \/ a \in Mishaps(plane.did) /\ MintFault /\ mintSeen' = Slip
       /\ mint' = [mint EXCEPT !.at = IF Revealed(a) THEN "arrived" ELSE "answered",
                               !.answer = a, !.body = IF Revealed(a) THEN a ELSE "none"]
       /\ mintClock' = mintClock + (IF a = "lost" THEN mintTimeout ELSE 0)
  /\ plane' = [plane EXCEPT !.did = "nothing"]
  /\ UNCHANGED <<dest, spare, guard>>

Released == [held |-> FALSE, first |-> FALSE]

\* cancelAsInterrupted: the recorded signal is honoured now, and the command
\* says that nothing was minted.
Cancels == Returns("nothing")

\* reportUnresolvedRedemption: the outcome is unknown, or the plane itself says
\* the challenge was redeemed.
unresolved(a) == IF SaysConsumed(a) THEN "unresolved: redeemed" ELSE "unresolved"

\* mintFailure: the server's refusal, and what it means for the next attempt.
mintFailure(a) == IF a = "expired" THEN "spent" ELSE "nothing"

\* The rest of the loop for an answer that revealed nothing.  The report of an
\* unresolved redemption is printed with the guard still held.
HandleAnswer ==
  /\ mint.at = "answered"
  /\ guard' = Released
  /\ IF mint.answer = "unsent" THEN Returns("nothing")
     ELSE IF ~legCSettled(mint.answer) THEN Returns(unresolved(mint.answer))
     ELSE IF guard.first THEN Cancels
     ELSE IF mint.answer # "425" THEN Returns(mintFailure(mint.answer))
     ELSE \E v \in MintIntervals :
            LET wait == pendingInterval(v) IN
            IF mintClock + wait >= mint.deadline THEN Returns("nothing")
            ELSE mint' = [mint EXCEPT !.at = "sleep", !.wait = wait] /\ UNCHANGED dest
  /\ UNCHANGED <<plane, spare, mintClock, mintSeen>>

\* The sleep, which the scheduler may prolong (bound: by one tick; the loop does not look
\* at the clock again after it, so a suspend during the sleep is outside the model).
SleepPending ==
  /\ mint.at = "sleep"
  /\ \E late \in 0..1 : mintClock' = mintClock + mint.wait + late
  /\ mint' = [mint EXCEPT !.at = "poll", !.wait = 0, !.answer = "none"]
  /\ UNCHANGED <<plane, dest, spare, guard, mintSeen>>

-----------------------------------------------------------------------------
(* persist *)

claimed == [dest EXCEPT !.armed = FALSE]

\* Room for the response is claimed before the disarm; then the disarm.
PersistReserve ==
  /\ mint.at = "arrived"
  /\ \/ /\ mint' = [mint EXCEPT !.at = "write"]
        /\ dest' = claimed
        /\ UNCHANGED mintSeen
     \/ /\ MintFault /\ mintSeen' = DiskSlip
        /\ mint' = [mint EXCEPT !.at = "render", !.sinkErr = TRUE]
        /\ UNCHANGED dest
  /\ UNCHANGED <<plane, spare, guard, mintClock>>

\* WriteAt, Sync and the read-back, whose verdict is the only one that counts.
PersistWrite ==
  /\ mint.at = "write"
  /\ \/ /\ dest' = [dest EXCEPT !.content = "response"]
        /\ mint' = [mint EXCEPT !.at = "render"]
        /\ UNCHANGED mintSeen
     \/ /\ MintFault /\ mintSeen' = DiskSlip
        /\ \E c \in {"proof", "torn", "response"} :
             /\ dest' = [dest EXCEPT !.content = c]
             /\ mint' = [mint EXCEPT !.at = "render", !.sinkErr = (c # "response")]
  /\ UNCHANGED <<plane, spare, guard, mintClock>>

-----------------------------------------------------------------------------
(* renderMintedCredential *)

\* Mutant: the path is not looked at again.
stillTheReservationAlways == TRUE

stillTheReservation == dest.link = "ours"

\* keepResponse: the file is cut back to the response; a truncate that fails
\* is said out loud and leaves the placeholder's tail.
kept(d) == {[d EXCEPT !.tail = FALSE]} \cup (IF MintFault THEN {d} ELSE {})

RenderChecks ==
  /\ mint.at = "render"
  /\ IF mint.sinkErr \/ ~stillTheReservation
       THEN mint' = [mint EXCEPT !.at = "rescue"] /\ UNCHANGED <<dest, mintSeen>>
     ELSE IF mintProblem(mint.body)
       THEN /\ mint' = [mint EXCEPT !.at = "settle", !.says = "raw"]
            /\ \E d \in kept(dest) :
                 dest' = d /\ mintSeen' = IF d.tail THEN DiskSlip ELSE mintSeen
     ELSE mint' = [mint EXCEPT !.at = "rewrite"] /\ UNCHANGED <<dest, mintSeen>>
  /\ UNCHANGED <<plane, spare, guard, mintClock>>

\* rewrite up to the flush: over the response, at offset 0.
RewriteOver ==
  /\ mint.at = "rewrite"
  /\ \/ /\ dest' = [dest EXCEPT !.content = "rendering"]
        /\ mint' = [mint EXCEPT !.at = "cut"]
        /\ UNCHANGED mintSeen
     \/ /\ MintFault /\ mintSeen' = DiskSlip
        /\ \E c \in {"response", "torn", "rendering"} : dest' = [dest EXCEPT !.content = c]
        /\ mint' = [mint EXCEPT !.at = "restore"]
  /\ UNCHANGED <<plane, spare, guard, mintClock>>

\* rewrite's truncate: a tail would be read as part of the credential, so
\* failing to cut it is an error.
RewriteCut ==
  /\ mint.at = "cut"
  /\ \/ /\ dest' = [dest EXCEPT !.tail = FALSE]
        /\ mint' = [mint EXCEPT !.at = "settle", !.says = "saved"]
        /\ UNCHANGED mintSeen
     \/ /\ MintFault /\ mintSeen' = DiskSlip
        /\ mint' = [mint EXCEPT !.at = "rescue"]
        /\ UNCHANGED dest
  /\ UNCHANGED <<plane, spare, guard, mintClock>>

\* The response is put back and read back; only what is read decides.
restoreResponse ==
  \/ /\ dest' = [dest EXCEPT !.content = "response", !.tail = FALSE]
     /\ mint' = [mint EXCEPT !.at = "settle", !.says = "raw"]
     /\ UNCHANGED mintSeen
  \/ /\ MintFault /\ mintSeen' = DiskSlip
     /\ \E c \in {"torn", "response"} :
          /\ dest' = [dest EXCEPT !.content = c]
          /\ mint' = IF c = "response" THEN [mint EXCEPT !.at = "settle", !.says = "raw"]
                     ELSE [mint EXCEPT !.at = "rescue"]

RestoreResponse ==
  /\ mint.at = "restore"
  /\ restoreResponse
  /\ UNCHANGED <<plane, spare, guard, mintClock>>

\* rename never overwrites: a link to a name that exists fails.
rename(d, name) == [d EXCEPT !.name = name]

\* A provisional name becomes the key's, or a unique one when that is taken, or
\* stays when neither link can be made.
promote(d) == {rename(d, "key id"), rename(d, "unique")} \cup (IF MintFault THEN {d} ELSE {})

\* settle: close and promote.  The guard is released before the report.
Settle ==
  /\ mint.at = "settle"
  /\ dest' \in IF dest.name = "partial" THEN promote(dest) ELSE {dest}
  /\ mintSeen' = IF dest'.name = "partial" THEN DiskSlip ELSE mintSeen
  /\ mint' = [mint EXCEPT !.at = "report"]
  /\ guard' = Released
  /\ UNCHANGED <<plane, spare, mintClock>>

\* A key is only called minted when its secret was read.
reportUnrenderedMint(body) == IF held(body) THEN "raw: minted" ELSE "raw: unknown"

ReportMint ==
  /\ mint.at = "report"
  /\ Returns(IF mint.says = "saved" THEN "saved" ELSE reportUnrenderedMint(mint.body))
  /\ UNCHANGED <<plane, spare, guard, mintClock, mintSeen>>

-----------------------------------------------------------------------------
(* rescueMintedSecret *)

rescueContent(body) == IF mintProblem(body) THEN "response" ELSE "rendering"

\* Which of its messages the rescue ends with.
rescueMintedSecret(body, shown) ==
  CASE shown = "none"     -> IF held(body) THEN "rescued: minted" ELSE "rescued: unknown"
    [] shown = "terminal" -> "printed"
    [] shown = "failed"   -> "nowhere"
    [] OTHER              -> "stderr"

\* writeFallbackSecret: a new file in the minted-keys directory.  It may not be
\* created, be cut short or not be flushed; what was written is left in place.
\* The guard is held across it.
RescueToFile ==
  /\ mint.at = "rescue"
  /\ \/ /\ spare' = [spare EXCEPT !.file = rescueContent(mint.body)]
        /\ Returns(rescueMintedSecret(mint.body, "none"))
        /\ guard' = Released
        /\ UNCHANGED mintSeen
     \/ /\ MintFault /\ mintSeen' = DiskSlip
        /\ \E f \in {"none", "torn", rescueContent(mint.body)} : spare' = [spare EXCEPT !.file = f]
        /\ mint' = [mint EXCEPT !.at = "print"]
        /\ UNCHANGED <<dest, guard>>
  /\ UNCHANGED <<plane, mintClock>>

\* stderr always, the operator's terminal unless stderr is one.  A stream that
\* accepts the bytes may keep none of them, so only a terminal is a delivery.
writeLastResort(stderr, tty) == IF stderr = "terminal" \/ tty THEN "terminal" ELSE stderr

RescueToTerminal ==
  /\ mint.at = "print"
  /\ \E stderr \in {"terminal", "kept", "discarded", "failed"}, tty \in BOOLEAN :
       LET shown == writeLastResort(stderr, tty) IN
       /\ spare' = [spare EXCEPT !.shown = shown]
       /\ Returns(rescueMintedSecret(mint.body, shown))
  /\ guard' = Released
  /\ UNCHANGED <<plane, mintClock, mintSeen>>

-----------------------------------------------------------------------------
(* Signals, and the reserved file's surroundings *)

\* One of the four mint signals: recorded under the guard, else fatal at once.
SignalArrives ==
  /\ mintSeen.signals < MaxMintSignals
  /\ mintSeen' = [mintSeen EXCEPT !.signals = @ + 1]
  /\ IF guard.held THEN guard' = [guard EXCEPT !.first = TRUE] /\ UNCHANGED mint
     ELSE mint' = [mint EXCEPT !.over = "signalled"] /\ UNCHANGED guard
  /\ UNCHANGED <<plane, dest, spare, mintClock>>

\* kill -9, which nothing can hold.
KillNine ==
  /\ mint' = [mint EXCEPT !.over = "killed"]
  /\ UNCHANGED <<plane, dest, spare, guard, mintClock, mintSeen>>

\* Somebody unlinks or replaces the reserved file while it is held open.
Meddle ==
  /\ dest.link = "ours" /\ ~mintSeen.late
  /\ \E l \in {"gone", "other"} : dest' = [dest EXCEPT !.link = l]
  /\ mintSeen' = [mintSeen EXCEPT !.late = mint.at \in {"rewrite", "cut", "restore", "settle", "report"}]
  /\ UNCHANGED <<mint, plane, spare, guard, mintClock>>

-----------------------------------------------------------------------------
MintInit ==
  /\ mint = [at |-> "flags", over |-> "no", expires |-> 0, deadline |-> 0,
             wait |-> 0, window |-> 0, answer |-> "none", body |-> "none", sinkErr |-> FALSE,
             says |-> "none", told |-> "none"]
  /\ plane = [status |-> "none", key |-> FALSE, did |-> "nothing"]
  /\ dest = NoDest
  /\ spare = [file |-> "none", shown |-> "none"]
  /\ guard = Released
  /\ mintClock = 0
  /\ mintSeen = [faults |-> 0, disk |-> 0, signals |-> 0, late |-> FALSE]

MintNext ==
  /\ mint.over = "no"
  /\ \/ MintStart \/ RefuseFlags \/ DryRun \/ ReserveDestination \/ ResolveMintIdentity
     \/ CreateChallenge \/ PromptForApproval
     \/ HoldAndRedeem \/ PlaneRedeems \/ Approves \/ CompleteChallenge
     \/ HandleAnswer \/ SleepPending
     \/ PersistReserve \/ PersistWrite
     \/ RenderChecks \/ RewriteOver \/ RewriteCut \/ RestoreResponse
     \/ Settle \/ ReportMint \/ RescueToFile \/ RescueToTerminal
     \/ SignalArrives \/ KillNine \/ Meddle

MintSpec == MintInit /\ [][MintNext]_mintVars

-----------------------------------------------------------------------------
(* Properties *)

LastInstant == 2 * mintTimeout + MaxChallengeTTLSecs + maxPendingInterval
Denials  == {"none", "refused", "nothing", "spent"}
Tellings == Denials \cup
  {"unresolved", "unresolved: redeemed", "saved", "raw: minted", "raw: unknown",
   "rescued: minted", "rescued: unknown", "printed", "stderr", "nowhere"}

MintCommands ==
  [at : Stages, over : {"no", "returned", "signalled", "killed"},
   expires : SessionLives \cup {0}, deadline : 0..LastInstant,
   wait : 0..maxPendingInterval, window : 0..MaxChallengeTTLSecs,
   answer : AnswerKinds \cup {"none"}, body : Bodies \cup {"none"},
   sinkErr : BOOLEAN, says : {"none", "saved", "raw"}, told : Tellings]
Planes ==
  [status : {"none", "open", "approved", "denied"}, key : BOOLEAN,
   did : {"nothing", "pends", "refuses", "mints"}]
Destinations ==
  [link : {"none", "ours", "gone", "other", "removed"},
   content : {"none", "proof", "response", "rendering", "torn"},
   tail : BOOLEAN, armed : BOOLEAN,
   name : {"none", "--out", "partial", "key id", "unique"}]
Spares ==
  [file : {"none", "torn", "response", "rendering"},
   shown : {"none", "terminal", "kept", "discarded", "failed"}]
Guards == [held : BOOLEAN, first : BOOLEAN]
Histories ==
  [faults : 0..MaxMintFaults, disk : 0..MaxMintFaults,
   signals : 0..MaxMintSignals, late : BOOLEAN]

\* The types, and the deadline: whatever number leg A's answer carries, the
\* deadline computed from it is a bounded instant (runMintCeremony, seconds).
MintTypeOK ==
  /\ mint \in MintCommands /\ plane \in Planes /\ dest \in Destinations
  /\ spare \in Spares /\ guard \in Guards /\ mintClock \in 0..LastInstant
  /\ mintSeen \in Histories /\ mintSeen.disk <= mintSeen.faults

\* The answer is in the file the operator will open, whole.
InDestination == dest.link = "ours" /\ dest.content \in {"response", "rendering"}
Somewhere == InDestination \/ spare.file \in {"response", "rendering"} \/ spare.shown \in {"terminal", "kept"}

\* What has gone wrong: failed disk operations, and the reserved file moved.
Troubles == mintSeen.disk + (IF dest.link \in {"gone", "other"} THEN 1 ELSE 0)

\* Once leg C has answered with bytes, no signal and no single failing disk
\* operation or moved file costs them: when the command is over they are in a
\* file or in front of somebody.  A kill -9 costs them only before persist has
\* returned, or on top of a failure (persist, rewrite, restoreResponse,
\* rescueMintedSecret).
SecretKept ==
  (mint.body # "none" /\ mint.over # "no" /\ ~Somewhere)
    => \/ mint.over # "killed" /\ Troubles >= 2
       \/ mint.over = "killed" /\ (Troubles >= 1 \/ mint.at \in {"arrived", "write"})
       \/ mintSeen.late

\* A key the mint plane issued is never walked away from: the command says
\* "nothing was minted", or dies of a signal in silence, only when there is no
\* key or the secret is in its file (legCSettled, mintInterrupt).
KeyNeverAbandoned ==
  (plane.key /\ mint.over \in {"returned", "signalled"} /\ mint.told \in Denials)
    => InDestination \/ mintSeen.late

\* What the last message says is so: a file it calls the credential holds the
\* whole rendering and nothing else, a file it calls the response holds the
\* response, a fallback it names is whole, and a key it says was minted was
\* (renderMintedCredential, reportUnrenderedMint, rescueMintedSecret,
\* reportUnresolvedRedemption).
ReportTrue ==
  /\ mint.told = "saved" =>
       /\ dest.content = "rendering" /\ ~dest.tail
       /\ dest.name # "partial" \/ mintSeen.disk > 0
       /\ dest.link = "ours" \/ mintSeen.late
  /\ mint.told \in {"raw: minted", "raw: unknown"} =>
       dest.content = "response" /\ (dest.link = "ours" \/ mintSeen.late)
  /\ mint.told = "rescued: minted" => spare.file # "torn" /\ spare.file # "none"
  /\ mint.told = "rescued: unknown" => spare.file = "response"
  /\ mint.told \in {"saved", "raw: minted", "rescued: minted", "unresolved: redeemed"} => plane.key

\* Every redeem is sent while the session both legs are pinned to still has a
\* whole request timeout to live, whatever window the server named
\* (ensureMintSession, the poll deadline).
RedeemInSession == mint.at = "wire" => mintClock + mintTimeout <= mint.expires

Unopened == {"flags", "reserve", "identity", "legA", "opened", "poll", "sleep"}
Arrived  == {"arrived", "write", "render", "rewrite", "cut", "restore", "settle", "report",
             "rescue", "print"}

\* While the command runs, the guard is held from before a redeem until its
\* outcome is reported or its bytes are in a file (hold, release).
GuardShape == guard.held <=> mint.at \in {"wire", "answered"} \cup (Arrived \ {"report"})

\* Where there may be a key, and what the client has heard of it: before the
\* redeem there is none, an answer that settles the challenge means there is
\* none, and a secret that was read belongs to one (redeemMintedKey, legCSettled).
KeyShape ==
  /\ mint.at \in Unopened => ~plane.key
  /\ plane.did # "nothing" => mint.at = "wire"
  /\ mint.at = "wire" => (plane.key <=> plane.did = "mints")
  /\ mint.at = "answered" =>
       /\ mint.answer \in AnswerKinds \ Bodies
       /\ mint.answer \in {"425", "unsent"} \cup Refusals => ~plane.key
       /\ mint.answer = "consumed" => plane.key
  /\ mint.body # "none" <=> mint.at \in Arrived
  /\ held(mint.body) => plane.key

\* What is in the reserved file at each step of persist, rewrite and settle, and
\* how much has gone wrong by the time the fallbacks are tried.
FileShape ==
  /\ mint.told = "none"
  /\ mint.sinkErr => mint.at \in {"render", "rescue", "print"}
  /\ mint.at \notin {"flags", "reserve"} => dest.link \in {"ours", "gone", "other"}
  /\ mint.at \in {"write", "rewrite", "cut", "restore", "settle", "report"} => ~dest.armed
  /\ mint.at \in {"rewrite", "cut", "restore", "settle", "report"} => dest.link = "ours" \/ mintSeen.late
  /\ mint.at = "render" =>
       IF mint.sinkErr THEN mintSeen.disk >= 1 ELSE ~dest.armed /\ dest.content = "response"
  /\ mint.at = "rewrite" => dest.content = "response"
  /\ mint.at = "cut" => dest.content = "rendering"
  /\ mint.at \in {"rewrite", "cut"} => mint.body = "whole"
  /\ mint.at = "restore" => mintSeen.disk >= 1
  /\ mint.at \in {"settle", "report"} =>
       \/ mint.says = "saved" /\ dest.content = "rendering" /\ ~dest.tail /\ plane.key
       \/ mint.says = "raw" /\ dest.content = "response"
  /\ mint.at = "report" => dest.name # "partial" \/ mintSeen.disk > 0
  /\ mint.at = "rescue" => Troubles >= 1 /\ (dest.armed => mintSeen.disk >= 1)
  /\ mint.at = "print" => Troubles >= 2 /\ (dest.armed => mintSeen.disk >= 2)

\* The clock against the session and the poll deadline, step by step.
TimeShape ==
  LET closes == mintTimeout + MaxChallengeTTLSecs IN
  /\ mint.at \in {"flags", "reserve", "identity", "legA"} => mintClock = 0
  /\ mint.at \notin {"flags", "reserve", "identity"} => outlivesTheCeremony(mint.expires)
  /\ mint.at = "opened" => mintClock <= mintTimeout
  /\ mint.deadline <= closes
  /\ mint.at \in {"wire", "answered", "sleep", "poll"} =>
       mint.deadline + mintRedeemMarginSecs <= mint.expires
  /\ mint.at \in {"poll", "wire"} => mintClock + mintTimeout <= mint.expires /\ mintClock <= closes
  /\ mint.at = "answered" /\ mint.answer # "lost" => mintClock <= closes
  /\ mint.at = "sleep" => mintClock + mint.wait < mint.deadline

\* The command at each of its steps (runMintCeremony, renderMintedCredential).
MintShape == mint.over = "no" => GuardShape /\ KeyShape /\ FileShape /\ TimeShape

\* The command's state is sound: types, redeems inside the session, each step
\* as the ones before it left things, and a last message that is true
\* (runMintCeremony, rescueMintedSecret).
MintInv == MintTypeOK /\ MintShape /\ ReportTrue /\ RedeemInSession

\* A minted key is never lost: neither its secret nor the fact that it exists
\* (persist, rewrite, legCSettled, mintInterrupt).
KeyKept == SecretKept /\ KeyNeverAbandoned
=============================================================================
