---------------------------- MODULE ClientProofs ----------------------------
(***************************************************************************)
(* Proofs about two commands of the client: the minting of a service key   *)
(* (module MintKey) and the login flows (module DeviceFlow), for every     *)
(* interval, window and lifetime a server may name and any number of lost  *)
(* answers, failing disk operations and signals.                           *)
(*                                                                         *)
(*   MintSound       MintSpec => []MintInv                                 *)
(*   MintedKeyKept   MintSpec => []KeyKept                                 *)
(*   LoginSound      FlowSpec => []FlowInv                                 *)
(*   ApprovalKeeps   FlowSpec => []ApprovalNotWasted                       *)
(*                                                                         *)
(* Both programs are one long sequence of steps.  MintShape and FlowShape  *)
(* say what is true where the program stands, each step carries that to    *)
(* the next place, and the promises are read off at the end of it.         *)
(***************************************************************************)
EXTENDS DeviceFlow, MintKey, TLAPS

-----------------------------------------------------------------------------
(* mint-key: the inductive invariant, and the two ways a step can end *)

\* The invariant of the induction is what the run checks, both properties at
\* once: MintShape says what the steps of a running command rest on.
MintKept == MintInv /\ KeyKept

\* While the command runs nothing has been said and nothing is over: its types
\* and its shape are all there is to show.
LEMMA RunningIsSound ==
  ASSUME MintTypeOK', MintShape', mint'.over = "no"
  PROVE  MintKept'
BY MintAssumption
   DEF MintKept, MintInv, KeyKept, MintTypeOK, MintCommands, MintShape, FileShape, TimeShape,
       ReportTrue, RedeemInSession, SecretKept, KeyNeverAbandoned

\* Once it is over, only what it leaves behind and what it said matter.
LEMMA OverIsSound ==
  ASSUME MintTypeOK', mint'.over # "no", ReportTrue', SecretKept', KeyNeverAbandoned', mint'.at # "wire"
  PROVE  MintKept'
BY DEF MintKept, MintInv, KeyKept, MintShape, RedeemInSession

\* Returns ends the command with a message and, through discard, may unlink the
\* reservation; it changes nothing else of either.
LEMMA ReturnsEnds ==
  ASSUME MintTypeOK, NEW says \in Tellings, Returns(says)
  PROVE  /\ mint' \in MintCommands /\ dest' \in Destinations
         /\ mint' = [mint EXCEPT !.over = "returned", !.told = says]
         /\ mint'.over = "returned" /\ mint'.told = says
         /\ mint'.at = mint.at /\ mint'.body = mint.body
         /\ dest'.content = dest.content /\ dest'.tail = dest.tail /\ dest'.name = dest.name
         /\ ~dest.armed => dest'.link = dest.link
         /\ dest.armed => dest'.link = "removed"
<1>1. mint' = [mint EXCEPT !.over = "returned", !.told = says] /\ dest' = discarded(dest)
  BY DEF Returns
<1>2. mint' \in MintCommands /\ mint'.over = "returned" /\ mint'.told = says
       /\ mint'.at = mint.at /\ mint'.body = mint.body
  BY <1>1 DEF MintTypeOK, MintCommands
<1>3. CASE dest.armed
  <2>1. dest' = [dest EXCEPT !.armed = FALSE, !.link = "removed"]
    BY <1>1, <1>3 DEF discarded
  <2> QED
    BY <1>1, <1>2, <1>3, <2>1 DEF MintTypeOK, Destinations
<1>4. CASE ~dest.armed
  <2>1. dest' = dest
    BY <1>1, <1>4 DEF discarded
  <2> QED
    BY <1>1, <1>2, <1>4, <2>1 DEF MintTypeOK
<1> QED
  BY <1>3, <1>4

\* Before a redeem there is no key and no answer: whatever the command says then
\* costs nothing.
LEMMA EarlyEnd ==
  ASSUME MintKept, mint.over = "no", mint.at \in Unopened,
         NEW says \in {"refused", "nothing"}, Returns(says),
         plane' = plane, spare' = spare, guard' = guard, mintClock' = mintClock,
         mintSeen' \in Histories, mintSeen'.disk <= mintSeen'.faults
  PROVE  MintKept'
<1>1. MintTypeOK /\ KeyShape
  BY DEF MintKept, MintInv, MintShape
<1>2. says \in Tellings
  BY DEF Tellings, Denials
<1>3. MintTypeOK'
  BY <1>1, <1>2, ReturnsEnds DEF MintTypeOK
<1>4. mint'.over = "returned" /\ mint'.told = says /\ mint'.at = mint.at /\ mint'.body = mint.body
  BY <1>1, <1>2, ReturnsEnds
<1>5. ~plane.key /\ mint.body = "none" /\ mint.at # "wire"
  BY <1>1 DEF KeyShape, Unopened, Arrived
<1> QED
  BY <1>3, <1>4, <1>5, OverIsSound DEF ReportTrue, SecretKept, KeyNeverAbandoned

\* The command's numbers are natural numbers.
LEMMA MintNumbers ==
  ASSUME MintTypeOK
  PROVE  /\ mint.expires \in Nat /\ mint.deadline \in 0..LastInstant /\ LastInstant \in Nat
         /\ mint.window \in 0..MaxChallengeTTLSecs /\ mint.wait \in 0..maxPendingInterval
<1>1. /\ mint.expires \in SessionLives \cup {0} /\ mint.deadline \in 0..LastInstant
      /\ mint.window \in 0..MaxChallengeTTLSecs /\ mint.wait \in 0..maxPendingInterval
  BY DEF MintTypeOK, MintCommands
<1>2. SessionLives \subseteq Nat
  BY MintAssumption
<1>3. LastInstant \in Nat
  BY MintAssumption DEF LastInstant
<1>4. mint.expires \in Nat
  <2>1. CASE mint.expires \in SessionLives
    BY <1>2, <2>1
  <2>2. CASE mint.expires = 0
    BY <2>2
  <2> QED
    BY <1>1, <2>1, <2>2
<1> QED
  BY <1>1, <1>3, <1>4

\* A failed disk operation is counted, within the bound.
LEMMA SlipTyped ==
  ASSUME MintTypeOK, MintFault
  PROVE  /\ DiskSlip \in Histories /\ DiskSlip.disk <= DiskSlip.faults
         /\ DiskSlip.disk = mintSeen.disk + 1 /\ DiskSlip.late = mintSeen.late
         /\ Slip \in Histories /\ Slip.disk <= Slip.faults
         /\ Slip.disk = mintSeen.disk /\ Slip.late = mintSeen.late
<1>1. mintSeen \in Histories /\ mintSeen.disk <= mintSeen.faults /\ mintSeen.faults < MaxMintFaults
  BY DEF MintTypeOK, MintFault
<1>2. MaxMintFaults \in Nat
  BY MintAssumption
<1>3. Slip = [mintSeen EXCEPT !.faults = mintSeen.faults + 1]
  BY DEF Slip
<1>4. /\ Slip \in Histories /\ Slip.disk = mintSeen.disk /\ Slip.late = mintSeen.late
      /\ Slip.faults = mintSeen.faults + 1
  BY <1>1, <1>2, <1>3 DEF Histories
<1>5. DiskSlip = [Slip EXCEPT !.disk = Slip.disk + 1]
  BY DEF DiskSlip
<1>6. /\ DiskSlip \in Histories /\ DiskSlip.disk = Slip.disk + 1 /\ DiskSlip.late = Slip.late
      /\ DiskSlip.faults = Slip.faults
  BY <1>1, <1>2, <1>4, <1>5 DEF Histories
<1> QED
  BY <1>1, <1>2, <1>4, <1>6 DEF Histories

-----------------------------------------------------------------------------
(* mint-key: before the redeem *)

LEMMA MintStartKeeps ==
  ASSUME MintKept, mint.over = "no", MintStart
  PROVE  MintKept'
<1> USE DEF MintKept, MintInv, MintTypeOK, MintShape, MintStart
<1>1. MintTypeOK'
  <2>1. mint' \in MintCommands
    BY DEF MintCommands, Stages
  <2> QED
    BY <2>1
<1>2. GuardShape' /\ KeyShape'
  BY DEF MintCommands, GuardShape, KeyShape, Arrived, Unopened, held
<1>3. FileShape' /\ TimeShape'
  BY DEF MintCommands, FileShape, TimeShape, outlivesTheCeremony, Troubles
<1>4. mint'.over = "no"
  BY DEF MintCommands
<1> QED
  BY <1>1, <1>2, <1>3, <1>4, RunningIsSound

LEMMA StartOverKeeps ==
  ASSUME MintKept, mint.over = "no", RefuseFlags \/ DryRun
  PROVE  MintKept'
BY EarlyEnd DEF MintKept, MintInv, MintTypeOK, RefuseFlags, DryRun, Unopened

LEMMA ReserveDestinationKeeps ==
  ASSUME MintKept, mint.over = "no", ReserveDestination
  PROVE  MintKept'
<1> USE DEF MintKept, MintInv, MintTypeOK, MintShape
<1>1. CASE MintFault /\ mintSeen' = DiskSlip /\ Returns("refused")
  BY <1>1, SlipTyped, EarlyEnd DEF ReserveDestination, Unopened
<1>2. ASSUME NEW name \in {"--out", "partial"},
             dest' = [link |-> "ours", content |-> "proof", tail |-> TRUE,
                      armed |-> TRUE, name |-> name],
             mint' = [mint EXCEPT !.at = "identity"], UNCHANGED mintSeen
      PROVE  MintKept'
  <2>0. mint.at = "reserve" /\ plane' = plane /\ spare' = spare /\ guard' = guard /\ mintClock' = mintClock
    BY DEF ReserveDestination
  <2>1. dest' \in Destinations
    BY <1>2 DEF Destinations
  <2>2. mint' \in MintCommands /\ mint'.at = "identity" /\ mint'.over = "no"
        /\ mint'.told = mint.told /\ mint'.sinkErr = mint.sinkErr /\ mint'.body = mint.body /\ mint'.deadline = mint.deadline
    BY <1>2 DEF MintCommands, Stages
  <2>3. MintTypeOK'
    BY <1>2, <2>0, <2>1, <2>2
  <2>4. GuardShape' /\ KeyShape'
    BY <2>0, <2>2 DEF GuardShape, KeyShape, Arrived, Unopened, held
  <2>5. FileShape' /\ TimeShape'
    BY <1>2, <2>0, <2>2 DEF FileShape, TimeShape
  <2> QED
    BY <2>2, <2>3, <2>4, <2>5, RunningIsSound
<1> QED
  BY <1>1, <1>2 DEF ReserveDestination

LEMMA ResolveMintIdentityKeeps ==
  ASSUME MintKept, mint.over = "no", ResolveMintIdentity
  PROVE  MintKept'
<1> USE DEF MintKept, MintInv, MintTypeOK, MintShape
<1>1. mint.at = "identity" /\ plane' = plane /\ spare' = spare /\ guard' = guard
      /\ mintClock' = mintClock /\ mintSeen' = mintSeen
  BY DEF ResolveMintIdentity
<1>2. CASE Returns("refused") \/ Returns("nothing")
  BY <1>1, <1>2, EarlyEnd DEF Unopened
<1>3. ASSUME NEW life \in SessionLives \cup {0}, outlivesTheCeremony(life),
             mint' = [mint EXCEPT !.at = "legA", !.expires = life], UNCHANGED dest
      PROVE  MintKept'
  <2>1. mint' \in MintCommands /\ mint'.at = "legA" /\ mint'.over = "no" /\ mint'.expires = life
        /\ mint'.told = mint.told /\ mint'.sinkErr = mint.sinkErr /\ mint'.body = mint.body /\ mint'.deadline = mint.deadline
    BY <1>3 DEF MintCommands, Stages
  <2>2. MintTypeOK'
    BY <1>1, <1>3, <2>1
  <2>3. GuardShape' /\ KeyShape'
    BY <1>1, <2>1 DEF GuardShape, KeyShape, Arrived, Unopened, held
  <2>4. FileShape' /\ TimeShape'
    BY <1>1, <1>3, <2>1 DEF FileShape, TimeShape
  <2> QED
    BY <2>1, <2>2, <2>3, <2>4, RunningIsSound
<1> QED
  BY <1>2, <1>3 DEF ResolveMintIdentity, ensureMintSession
LEMMA CreateChallengeKeeps ==
  ASSUME MintKept, mint.over = "no", CreateChallenge
  PROVE  MintKept'
<1> USE DEF MintKept, MintInv, MintTypeOK, MintShape
<1>1. mint.at = "legA" /\ spare' = spare /\ guard' = guard /\ mintSeen' = mintSeen
  BY DEF CreateChallenge
<1>2. CASE Returns("nothing") /\ UNCHANGED <<plane, mintClock>>
  BY <1>1, <1>2, EarlyEnd DEF Unopened
<1>3. ASSUME NEW v \in MintWindows, NEW took \in 0..mintTimeout,
             mint' = [mint EXCEPT !.at = "opened", !.window = challengeSeconds(v)],
             plane' = [plane EXCEPT !.status = "open"],
             mintClock' = mintClock + took, UNCHANGED dest
      PROVE  MintKept'
  <2>1. challengeSeconds(v) \in 0..MaxChallengeTTLSecs
    BY MintAssumption DEF challengeSeconds
  <2>2. mint' \in MintCommands /\ mint'.at = "opened" /\ mint'.over = "no" /\ mint'.expires = mint.expires
        /\ mint'.told = mint.told /\ mint'.sinkErr = mint.sinkErr /\ mint'.body = mint.body /\ mint'.deadline = mint.deadline
    BY <1>3, <2>1 DEF MintCommands, Stages
  <2>3. plane' \in Planes /\ plane'.key = plane.key /\ plane'.did = plane.did
    BY <1>3 DEF Planes
  <2>4. mintClock' \in 0..mintTimeout /\ mintClock' \in 0..LastInstant
    BY <1>1, <1>3, MintAssumption DEF TimeShape, LastInstant
  <2>5. MintTypeOK'
    BY <1>1, <1>3, <2>2, <2>3, <2>4
  <2>6. GuardShape' /\ KeyShape'
    BY <1>1, <2>2, <2>3 DEF GuardShape, KeyShape, Arrived, Unopened, held
  <2>7. FileShape' /\ TimeShape'
    BY <1>1, <1>3, <2>2, <2>4 DEF FileShape, TimeShape
  <2> QED
    BY <2>2, <2>5, <2>6, <2>7, RunningIsSound
<1> QED
  BY <1>2, <1>3 DEF CreateChallenge

\* The deadline leaves the margin of a redeem, and the first redeem is sent at
\* once: it fits because of the session that was demanded.
LEMMA PromptForApprovalKeeps ==
  ASSUME MintKept, mint.over = "no", PromptForApproval
  PROVE  MintKept'
<1> USE DEF MintKept, MintInv, MintTypeOK, MintShape
<1>1. mint.at = "opened" /\ plane' = plane /\ spare' = spare /\ guard' = guard
      /\ mintClock' = mintClock /\ mintSeen' = mintSeen
  BY DEF PromptForApproval
<1>2. CASE Returns("nothing")
  BY <1>1, <1>2, EarlyEnd DEF Unopened
<1>3. ASSUME NEW window, window = IF mint.window > 0 THEN mint.window ELSE mintChallengeTTLSecs,
             mint' = [mint EXCEPT !.at = "poll", !.window = 0,
                                  !.deadline = pollDeadline(mintClock, window)],
             UNCHANGED dest
      PROVE  MintKept'
  <2>1. mint.window \in 0..MaxChallengeTTLSecs /\ mint.expires \in Nat
    BY MintNumbers
  <2>2. window \in 0..MaxChallengeTTLSecs
    BY <1>3, <2>1, MintAssumption
  <2>3. mintClock \in 0..mintTimeout /\ outlivesTheCeremony(mint.expires)
    BY <1>1 DEF TimeShape
  <2>4. PICK d : d = pollDeadline(mintClock, window)
    OBVIOUS
  <2>5. d \in 0..(mintTimeout + MaxChallengeTTLSecs) /\ d + mintRedeemMarginSecs <= mint.expires
    BY <2>1, <2>2, <2>3, <2>4, MintAssumption DEF pollDeadline, outlivesTheCeremony
  <2>6. d \in 0..LastInstant /\ 0 \in 0..MaxChallengeTTLSecs
    BY <2>5, MintAssumption DEF LastInstant
  <2>7. mint' \in MintCommands /\ mint'.at = "poll" /\ mint'.over = "no" /\ mint'.expires = mint.expires
        /\ mint'.told = mint.told /\ mint'.sinkErr = mint.sinkErr /\ mint'.body = mint.body /\ mint'.deadline = d
    BY <1>3, <2>4, <2>6 DEF MintCommands, Stages
  <2>8. MintTypeOK'
    BY <1>1, <1>3, <2>7
  <2>9. GuardShape' /\ KeyShape'
    BY <1>1, <2>7 DEF GuardShape, KeyShape, Arrived, Unopened, held
  <2>10. FileShape'
    BY <1>1, <1>3, <2>7 DEF FileShape
  <2>11. TimeShape'
    BY <1>1, <2>1, <2>3, <2>5, <2>7, MintAssumption DEF TimeShape, outlivesTheCeremony
  <2> QED
    BY <2>7, <2>8, <2>9, <2>10, <2>11, RunningIsSound
<1> QED
  BY <1>2, <1>3 DEF PromptForApproval

LEMMA HoldAndRedeemKeeps ==
  ASSUME MintKept, mint.over = "no", HoldAndRedeem
  PROVE  MintKept'
<1> USE DEF MintKept, MintInv, MintTypeOK, MintShape
<1>1. mint.at = "poll" /\ mint' = [mint EXCEPT !.at = "wire"] /\ guard' = [held |-> TRUE, first |-> FALSE]
      /\ plane' = plane /\ dest' = dest /\ spare' = spare /\ mintClock' = mintClock /\ mintSeen' = mintSeen
  BY DEF HoldAndRedeem
<1>2. mint' \in MintCommands /\ mint'.at = "wire" /\ mint'.over = "no" /\ mint'.expires = mint.expires
      /\ mint'.told = mint.told /\ mint'.sinkErr = mint.sinkErr /\ mint'.body = mint.body /\ mint'.deadline = mint.deadline
  BY <1>1 DEF MintCommands, Stages
<1>3. guard' \in Guards /\ guard'.held
  BY <1>1 DEF Guards
<1>4. MintTypeOK'
  BY <1>1, <1>2, <1>3
<1>5. GuardShape' /\ KeyShape'
  BY <1>1, <1>2, <1>3 DEF GuardShape, KeyShape, Arrived, Unopened, held, Planes
<1>6. FileShape' /\ TimeShape'
  BY <1>1, <1>2 DEF FileShape, TimeShape
<1> QED
  BY <1>2, <1>4, <1>5, <1>6, RunningIsSound
-----------------------------------------------------------------------------
(* mint-key: the redeem and its answer *)

\* The plane's own steps: a key appears only under a redeem, with the guard held.
LEMMA PlaneKeeps ==
  ASSUME MintKept, mint.over = "no", PlaneRedeems \/ Approves
  PROVE  MintKept'
<1> USE DEF MintKept, MintInv, MintTypeOK, MintShape
<1>1. mint' = mint /\ dest' = dest /\ spare' = spare /\ guard' = guard
      /\ mintClock' = mintClock /\ mintSeen' = mintSeen
  BY DEF PlaneRedeems, Approves
<1>2. /\ plane' \in Planes
      /\ \/ plane'.key = plane.key /\ plane'.did = plane.did
         \/ mint.at = "wire" /\ plane.did = "nothing" /\ (plane'.key <=> plane.key \/ plane'.did = "mints")
  <2>1. CASE Approves
    BY <2>1 DEF Approves, Planes
  <2>2. CASE PlaneRedeems
    <3>1. PICK did \in {"pends", "mints", "refuses"} : plane' = [plane EXCEPT !.did = did, !.key = @ \/ did = "mints"]
      BY <2>2 DEF PlaneRedeems
    <3>2. plane' \in Planes /\ plane'.did = did /\ (plane'.key <=> plane.key \/ did = "mints")
      BY <3>1 DEF Planes
    <3> QED
      BY <2>2, <3>2 DEF PlaneRedeems
  <2> QED
    BY <2>1, <2>2
<1>3. MintTypeOK'
  BY <1>1, <1>2
<1>4. GuardShape' /\ KeyShape'
  BY <1>1, <1>2 DEF GuardShape, KeyShape, Arrived, Unopened, held, Planes
<1>5. FileShape' /\ TimeShape'
  BY <1>1, <1>2 DEF FileShape, TimeShape, Troubles, KeyShape
<1> QED
  BY <1>1, <1>3, <1>4, <1>5, RunningIsSound

\* What an answer proves about the key: one that settles the challenge, or was
\* never sent, means there is none; a body with a secret in it, and "consumed",
\* mean there is one.
LEMMA AnswerMeans ==
  ASSUME MintKept, mint.over = "no", mint.at = "wire",
         NEW a \in Answers(plane.did) \cup Mishaps(plane.did)
  PROVE  /\ a \in AnswerKinds
         /\ a \in {"425", "unsent"} \cup Refusals => ~plane.key
         /\ a = "consumed" \/ held(a) => plane.key
BY DEF MintKept, MintInv, MintTypeOK, MintShape, KeyShape, Planes, Answers, Mishaps, AnswerKinds,
       Bodies, Silence, Refusals, Conflicts, held

LEMMA CompleteChallengeKeeps ==
  ASSUME MintKept, mint.over = "no", CompleteChallenge
  PROVE  MintKept'
<1> USE DEF MintKept, MintInv, MintTypeOK, MintShape
<1>1. PICK a \in AnswerKinds :
        /\ \/ a \in Answers(plane.did) /\ UNCHANGED mintSeen
           \/ a \in Mishaps(plane.did) /\ MintFault /\ mintSeen' = Slip
        /\ mint' = [mint EXCEPT !.at = IF Revealed(a) THEN "arrived" ELSE "answered",
                                !.answer = a, !.body = IF Revealed(a) THEN a ELSE "none"]
        /\ mintClock' = mintClock + (IF a = "lost" THEN mintTimeout ELSE 0)
  BY DEF CompleteChallenge
<1>2. mint.at = "wire" /\ plane' = [plane EXCEPT !.did = "nothing"] /\ dest' = dest /\ spare' = spare /\ guard' = guard
  BY DEF CompleteChallenge
<1>3. /\ a \in {"425", "unsent"} \cup Refusals => ~plane.key
      /\ a = "consumed" \/ held(a) => plane.key
  BY <1>1, <1>2, AnswerMeans
<1>4. plane' \in Planes /\ plane'.did = "nothing" /\ plane'.key = plane.key
  BY <1>2 DEF Planes
<1>5. mintSeen' \in Histories /\ mintSeen'.disk <= mintSeen'.faults
      /\ mintSeen'.disk = mintSeen.disk /\ mintSeen'.late = mintSeen.late
  BY <1>1, SlipTyped
<1>6. mintClock' \in 0..LastInstant
  BY <1>1, <1>2, MintAssumption DEF TimeShape, LastInstant
<1>7. CASE a \in Bodies
  <2>1. mint' = [mint EXCEPT !.at = "arrived", !.answer = a, !.body = a]
    BY <1>1, <1>7 DEF Revealed
  <2>2. mint' \in MintCommands /\ mint'.at = "arrived" /\ mint'.body = a /\ mint'.over = "no"
        /\ mint'.told = mint.told /\ mint'.sinkErr = mint.sinkErr /\ mint'.deadline = mint.deadline /\ mint'.expires = mint.expires
    BY <1>7, <2>1 DEF MintCommands, Stages
  <2>3. MintTypeOK'
    BY <1>2, <1>4, <1>5, <1>6, <2>2
  <2>4. GuardShape' /\ KeyShape'
    BY <1>2, <1>3, <1>4, <1>7, <2>2 DEF GuardShape, KeyShape, Arrived, Unopened, Bodies
  <2>5. FileShape' /\ TimeShape'
    BY <1>2, <2>2 DEF FileShape, TimeShape
  <2> QED
    BY <2>2, <2>3, <2>4, <2>5, RunningIsSound
<1>8. CASE a \notin Bodies
  <2>1. mint' = [mint EXCEPT !.at = "answered", !.answer = a, !.body = "none"]
    BY <1>1, <1>8 DEF Revealed
  <2>2. mint' \in MintCommands /\ mint'.at = "answered" /\ mint'.body = "none" /\ mint'.over = "no" /\ mint'.answer = a
        /\ mint'.told = mint.told /\ mint'.sinkErr = mint.sinkErr /\ mint'.deadline = mint.deadline /\ mint'.expires = mint.expires
    BY <1>1, <1>8, <2>1 DEF MintCommands, Stages
  <2>3. MintTypeOK'
    BY <1>2, <1>4, <1>5, <1>6, <2>2
  <2>4. GuardShape' /\ KeyShape'
    BY <1>2, <1>3, <1>4, <1>8, <2>2 DEF GuardShape, KeyShape, Arrived, Unopened, held
  <2>5. FileShape'
    BY <1>2, <2>2 DEF FileShape
  <2>6. TimeShape'
    BY <1>1, <1>2, <2>2 DEF TimeShape
  <2> QED
    BY <2>2, <2>3, <2>4, <2>5, <2>6, RunningIsSound
<1> QED
  BY <1>7, <1>8

\* No message of this step denies a key there is: the answers that are taken for
\* the server's word come without one.
LEMMA HandleAnswerKeeps ==
  ASSUME MintKept, mint.over = "no", HandleAnswer
  PROVE  MintKept'
<1> USE DEF MintKept, MintInv, MintTypeOK, MintShape
<1>1. mint.at = "answered" /\ guard' = Released /\ plane' = plane /\ spare' = spare
      /\ mintClock' = mintClock /\ mintSeen' = mintSeen
  BY DEF HandleAnswer
<1>2. guard' \in Guards /\ ~guard'.held
  BY <1>1 DEF Released, Guards
<1>3. mint.body = "none" /\ mint.answer \in AnswerKinds \ Bodies
      /\ (mint.answer \in {"425", "unsent"} \cup Refusals => ~plane.key)
      /\ (mint.answer = "consumed" => plane.key)
  BY <1>1 DEF KeyShape, Arrived
<1>4. ASSUME NEW says \in Tellings, Returns(says),
             says \in {"nothing", "spent"} => ~plane.key,
             says \in {"nothing", "spent", "unresolved", "unresolved: redeemed"},
             says = "unresolved: redeemed" => plane.key
      PROVE  MintKept'
  <2>1. /\ mint' \in MintCommands /\ dest' \in Destinations
        /\ mint'.over = "returned" /\ mint'.told = says /\ mint'.at = "answered" /\ mint'.body = "none"
    BY <1>1, <1>3, <1>4, ReturnsEnds
  <2>2. MintTypeOK'
    BY <1>1, <1>2, <2>1
  <2> QED
    BY <1>1, <1>4, <2>1, <2>2, OverIsSound DEF ReportTrue, SecretKept, KeyNeverAbandoned, Denials
<1>5. ASSUME NEW v \in MintIntervals, mint.answer = "425",
             ~(mintClock + pendingInterval(v) >= mint.deadline),
             mint' = [mint EXCEPT !.at = "sleep", !.wait = pendingInterval(v)], UNCHANGED dest
      PROVE  MintKept'
  <2>1. PICK w : w = pendingInterval(v)
    OBVIOUS
  <2>2. w \in 0..maxPendingInterval
    BY <2>1, MintAssumption DEF pendingInterval
  <2>3. mint' \in MintCommands /\ mint'.at = "sleep" /\ mint'.over = "no" /\ mint'.wait = w /\ mint'.expires = mint.expires
        /\ mint'.told = mint.told /\ mint'.sinkErr = mint.sinkErr /\ mint'.body = mint.body /\ mint'.deadline = mint.deadline
    BY <1>5, <2>1, <2>2 DEF MintCommands, Stages
  <2>4. MintTypeOK'
    BY <1>1, <1>2, <1>5, <2>3
  <2>5. GuardShape' /\ KeyShape'
    BY <1>1, <1>2, <1>3, <1>5, <2>3 DEF GuardShape, KeyShape, Arrived, Unopened, held
  <2>6. FileShape'
    BY <1>1, <1>5, <2>3 DEF FileShape
  <2>7. mint.deadline \in Nat /\ mintClock \in Nat
    BY MintAssumption DEF MintCommands, LastInstant
  <2>8. TimeShape'
    BY <1>1, <1>5, <2>1, <2>2, <2>3, <2>7, MintAssumption DEF TimeShape
  <2> QED
    BY <2>3, <2>4, <2>5, <2>6, <2>8, RunningIsSound
<1>6. CASE ~legCSettled(mint.answer) /\ mint.answer # "unsent"
  <2>1. Returns(unresolved(mint.answer))
    BY <1>6 DEF HandleAnswer
  <2> QED
    BY <1>3, <1>4, <2>1 DEF unresolved, SaysConsumed, Tellings
<1>7. CASE legCSettled(mint.answer) \/ mint.answer = "unsent"
  <2>1. ~plane.key
    BY <1>3, <1>7 DEF legCSettled, MayHaveMinted, SaysConsumed, Refusals, Conflicts
  <2>2. CASE Returns("nothing") \/ Returns("spent")
    BY <1>4, <2>1, <2>2 DEF Tellings, Denials
  <2>3. \/ Returns("nothing") \/ Returns(mintFailure(mint.answer))
        \/ /\ mint.answer = "425"
           /\ \E v \in MintIntervals :
                IF mintClock + pendingInterval(v) >= mint.deadline THEN Returns("nothing")
                ELSE mint' = [mint EXCEPT !.at = "sleep", !.wait = pendingInterval(v)] /\ UNCHANGED dest
    BY <1>7 DEF HandleAnswer, Cancels
  <2> QED
    BY <1>5, <2>2, <2>3 DEF mintFailure
<1> QED
  BY <1>6, <1>7

LEMMA SleepPendingKeeps ==
  ASSUME MintKept, mint.over = "no", SleepPending
  PROVE  MintKept'
<1> USE DEF MintKept, MintInv, MintTypeOK, MintShape
<1>1. mint.at = "sleep" /\ mint' = [mint EXCEPT !.at = "poll", !.wait = 0, !.answer = "none"]
      /\ plane' = plane /\ dest' = dest /\ spare' = spare /\ guard' = guard /\ mintSeen' = mintSeen
  BY DEF SleepPending
<1>2. mint' \in MintCommands /\ mint'.at = "poll" /\ mint'.over = "no" /\ mint'.expires = mint.expires
      /\ mint'.told = mint.told /\ mint'.sinkErr = mint.sinkErr /\ mint'.body = mint.body /\ mint'.deadline = mint.deadline
  <2>1. 0 \in 0..maxPendingInterval
    BY MintAssumption
  <2> QED
    BY <1>1, <2>1 DEF MintCommands, Stages
<1>3. mint.wait \in Nat /\ mint.deadline \in 0..LastInstant /\ mint.expires \in Nat
  BY MintNumbers, MintAssumption
<1>4. mintClock' \in 0..mint.deadline /\ mintClock' \in 0..LastInstant
  BY <1>1, <1>3, MintAssumption DEF SleepPending, TimeShape, LastInstant
<1>5. MintTypeOK'
  BY <1>1, <1>2, <1>4
<1>6. GuardShape' /\ KeyShape'
  BY <1>1, <1>2 DEF GuardShape, KeyShape, Arrived, Unopened, held
<1>7. FileShape'
  BY <1>1, <1>2 DEF FileShape
<1>8. TimeShape'
  BY <1>1, <1>2, <1>3, <1>4, MintAssumption DEF TimeShape, LastInstant
<1> QED
  BY <1>2, <1>5, <1>6, <1>7, <1>8, RunningIsSound
-----------------------------------------------------------------------------
(* mint-key: the secret on its way to a file *)

\* What the steps between the answer and the report leave alone.
LEMMA Carried ==
  ASSUME MintTypeOK, NEW at \in Stages, mint' = [mint EXCEPT !.at = at]
  PROVE  /\ mint' \in MintCommands /\ mint'.at = at /\ mint'.over = mint.over
         /\ mint'.told = mint.told /\ mint'.body = mint.body /\ mint'.says = mint.says
         /\ mint'.deadline = mint.deadline /\ mint'.expires = mint.expires /\ mint'.sinkErr = mint.sinkErr
BY DEF MintTypeOK, MintCommands

LEMMA CarriedSink ==
  ASSUME MintTypeOK, NEW at \in Stages, NEW err \in BOOLEAN,
         mint' = [mint EXCEPT !.at = at, !.sinkErr = err]
  PROVE  /\ mint' \in MintCommands /\ mint'.at = at /\ mint'.over = mint.over
         /\ mint'.told = mint.told /\ mint'.body = mint.body /\ mint'.sinkErr = err
         /\ mint'.deadline = mint.deadline /\ mint'.expires = mint.expires
BY DEF MintTypeOK, MintCommands

LEMMA CarriedSays ==
  ASSUME MintTypeOK, NEW at \in Stages, NEW says \in {"none", "saved", "raw"},
         mint' = [mint EXCEPT !.at = at, !.says = says]
  PROVE  /\ mint' \in MintCommands /\ mint'.at = at /\ mint'.over = mint.over
         /\ mint'.told = mint.told /\ mint'.body = mint.body /\ mint'.says = says /\ mint'.sinkErr = mint.sinkErr
         /\ mint'.deadline = mint.deadline /\ mint'.expires = mint.expires
BY DEF MintTypeOK, MintCommands

\* A step from one held stage after the answer to another keeps the guard, the
\* key and the clock: only the file's shape is left to show.
LEMMA StillHeld ==
  ASSUME MintKept, mint.over = "no", mint.at \in Arrived \ {"report"},
         mint' \in MintCommands, mint'.at \in Arrived \ {"report"}, mint'.over = "no",
         mint'.body = mint.body, mint'.deadline = mint.deadline, mint'.expires = mint.expires,
         plane' = plane, spare' = spare, guard' = guard, mintClock' = mintClock,
         dest' \in Destinations, mintSeen' \in Histories, mintSeen'.disk <= mintSeen'.faults,
         FileShape'
  PROVE  MintKept'
<1> USE DEF MintKept, MintInv, MintTypeOK, MintShape
<1>1. MintTypeOK'
  OBVIOUS
<1>2. GuardShape' /\ KeyShape'
  BY DEF GuardShape, KeyShape, Arrived, Unopened, held
<1>3. TimeShape'
  BY DEF TimeShape, Arrived, outlivesTheCeremony
<1> QED
  BY <1>1, <1>2, <1>3, RunningIsSound

LEMMA PersistReserveKeeps ==
  ASSUME MintKept, mint.over = "no", PersistReserve
  PROVE  MintKept'
<1> USE DEF MintKept, MintInv, MintShape
<1>0. MintTypeOK /\ FileShape /\ mint.at = "arrived" /\ mint.at \in Arrived \ {"report"}
      /\ plane' = plane /\ spare' = spare /\ guard' = guard /\ mintClock' = mintClock
  BY DEF PersistReserve, Arrived
<1>1. CASE mint' = [mint EXCEPT !.at = "write"] /\ dest' = claimed /\ UNCHANGED mintSeen
  <2>1. dest' \in Destinations /\ ~dest'.armed /\ dest'.link = dest.link
    BY <1>0, <1>1 DEF claimed, MintTypeOK, Destinations
  <2>2. /\ mint' \in MintCommands /\ mint'.at = "write" /\ mint'.over = "no" /\ mint'.sinkErr = mint.sinkErr
        /\ mint'.told = mint.told /\ mint'.body = mint.body
        /\ mint'.deadline = mint.deadline /\ mint'.expires = mint.expires
    BY <1>0, <1>1, Carried DEF Stages
  <2>3. FileShape'
    BY <1>0, <1>1, <2>1, <2>2 DEF FileShape
  <2> QED
    BY <1>0, <1>1, <2>1, <2>2, <2>3, StillHeld DEF MintTypeOK, Arrived
<1>2. CASE MintFault /\ mintSeen' = DiskSlip /\ mint' = [mint EXCEPT !.at = "render", !.sinkErr = TRUE] /\ UNCHANGED dest
  <2>1. mintSeen' \in Histories /\ mintSeen'.disk <= mintSeen'.faults /\ mintSeen'.disk = mintSeen.disk + 1
    BY <1>0, <1>2, SlipTyped
  <2>2. /\ mint' \in MintCommands /\ mint'.at = "render" /\ mint'.over = "no" /\ mint'.sinkErr = TRUE
        /\ mint'.told = mint.told /\ mint'.body = mint.body
        /\ mint'.deadline = mint.deadline /\ mint'.expires = mint.expires
    BY <1>0, <1>2, CarriedSink DEF Stages
  <2>3. mintSeen.disk \in Nat
    BY <1>0 DEF MintTypeOK, Histories
  <2>4. FileShape'
    BY <1>0, <1>2, <2>1, <2>2, <2>3 DEF FileShape
  <2> QED
    BY <1>0, <1>2, <2>1, <2>2, <2>4, StillHeld DEF MintTypeOK, Arrived
<1> QED
  BY <1>1, <1>2 DEF PersistReserve

\* What a write to the reserved file leaves of it.
LEMMA ContentOnly ==
  ASSUME MintTypeOK, NEW c \in {"none", "proof", "response", "rendering", "torn"},
         dest' = [dest EXCEPT !.content = c]
  PROVE  /\ dest' \in Destinations /\ dest'.content = c /\ dest'.link = dest.link
         /\ dest'.armed = dest.armed /\ dest'.tail = dest.tail /\ dest'.name = dest.name
BY DEF MintTypeOK, Destinations

LEMMA PersistWriteKeeps ==
  ASSUME MintKept, mint.over = "no", PersistWrite
  PROVE  MintKept'
<1> USE DEF MintKept, MintInv, MintShape
<1>0. MintTypeOK /\ FileShape /\ mint.at = "write" /\ mint.at \in Arrived \ {"report"}
      /\ plane' = plane /\ spare' = spare /\ guard' = guard /\ mintClock' = mintClock
  BY DEF PersistWrite, Arrived
<1>1. CASE /\ dest' = [dest EXCEPT !.content = "response"]
           /\ mint' = [mint EXCEPT !.at = "render"] /\ UNCHANGED mintSeen
  <2>1. /\ mint' \in MintCommands /\ mint'.at = "render" /\ mint'.over = "no" /\ mint'.sinkErr = mint.sinkErr
        /\ mint'.told = mint.told /\ mint'.body = mint.body
        /\ mint'.deadline = mint.deadline /\ mint'.expires = mint.expires
    BY <1>0, <1>1, Carried DEF Stages
  <2>2. dest' \in Destinations /\ dest'.content = "response" /\ dest'.link = dest.link /\ dest'.armed = dest.armed
    BY <1>0, <1>1, ContentOnly
  <2>3. FileShape'
    BY <1>0, <1>1, <2>1, <2>2 DEF FileShape
  <2> QED
    BY <1>0, <1>1, <2>1, <2>2, <2>3, StillHeld DEF MintTypeOK, Arrived
<1>2. ASSUME MintFault, mintSeen' = DiskSlip, NEW c \in {"proof", "torn", "response"},
             dest' = [dest EXCEPT !.content = c],
             mint' = [mint EXCEPT !.at = "render", !.sinkErr = (c # "response")]
      PROVE  MintKept'
  <2>1. /\ mintSeen' \in Histories /\ mintSeen'.disk <= mintSeen'.faults
        /\ mintSeen'.disk = mintSeen.disk + 1 /\ mintSeen.disk \in Nat
    BY <1>0, <1>2, SlipTyped DEF MintTypeOK, Histories
  <2>2. /\ mint' \in MintCommands /\ mint'.at = "render" /\ mint'.over = "no" /\ mint'.sinkErr = (c # "response")
        /\ mint'.told = mint.told /\ mint'.body = mint.body
        /\ mint'.deadline = mint.deadline /\ mint'.expires = mint.expires
    BY <1>0, <1>2, CarriedSink DEF Stages
  <2>3. dest' \in Destinations /\ dest'.content = c /\ dest'.link = dest.link /\ dest'.armed = dest.armed
    BY <1>0, <1>2, ContentOnly
  <2>4. FileShape'
    <3>1. CASE c = "response"
      BY <1>0, <2>1, <2>2, <2>3, <3>1 DEF FileShape
    <3>2. CASE c # "response"
      <4>1. mint'.sinkErr = TRUE
        BY <2>2, <3>2
      <4>2. mintSeen'.disk >= 1
        BY <2>1
      <4> QED
        BY <1>0, <2>1, <2>2, <2>3, <4>1, <4>2 DEF FileShape
    <3> QED
      BY <3>1, <3>2
  <2> QED
    BY <1>0, <2>1, <2>2, <2>3, <2>4, StillHeld DEF MintTypeOK, Arrived
<1> QED
  BY <1>1, <1>2 DEF PersistWrite
\* The checks before the rendering: what is sent to the fallbacks has met with
\* trouble, and what is kept as the response is the response.
LEMMA RenderChecksKeeps ==
  ASSUME MintKept, mint.over = "no", RenderChecks
  PROVE  MintKept'
<1> USE DEF MintKept, MintInv, MintShape
<1>0. MintTypeOK /\ FileShape /\ KeyShape /\ mint.at = "render" /\ mint.at \in Arrived \ {"report"}
      /\ plane' = plane /\ spare' = spare /\ guard' = guard /\ mintClock' = mintClock
  BY DEF RenderChecks, Arrived
<1>1. mintSeen.disk \in Nat /\ mint.sinkErr \in BOOLEAN /\ dest \in Destinations
  BY <1>0 DEF MintTypeOK, Histories, MintCommands
<1>2. CASE mint.sinkErr \/ ~stillTheReservation
  <2>1. mint' = [mint EXCEPT !.at = "rescue"] /\ dest' = dest /\ mintSeen' = mintSeen
    BY <1>2 DEF RenderChecks
  <2>2. /\ mint' \in MintCommands /\ mint'.at = "rescue" /\ mint'.over = "no" /\ mint'.sinkErr = mint.sinkErr
        /\ mint'.told = mint.told /\ mint'.body = mint.body
        /\ mint'.deadline = mint.deadline /\ mint'.expires = mint.expires
    BY <1>0, <2>1, Carried DEF Stages
  <2>3. Troubles >= 1 /\ (dest.armed => mintSeen.disk >= 1)
    BY <1>0, <1>1, <1>2 DEF FileShape, Troubles, stillTheReservation
  <2>4. FileShape'
    BY <1>0, <2>1, <2>2, <2>3 DEF FileShape, Troubles
  <2> QED
    BY <1>0, <2>1, <2>2, <2>4, StillHeld DEF MintTypeOK, Arrived
<1>3. CASE ~mint.sinkErr /\ stillTheReservation /\ mintProblem(mint.body)
  <2>1. PICK d \in kept(dest) :
          /\ mint' = [mint EXCEPT !.at = "settle", !.says = "raw"]
          /\ dest' = d /\ mintSeen' = IF d.tail THEN DiskSlip ELSE mintSeen
    BY <1>3 DEF RenderChecks
  <2>2. /\ mint' \in MintCommands /\ mint'.at = "settle" /\ mint'.over = "no" /\ mint'.sinkErr = mint.sinkErr
        /\ mint'.told = mint.told /\ mint'.body = mint.body /\ mint'.says = "raw"
        /\ mint'.deadline = mint.deadline /\ mint'.expires = mint.expires
    BY <1>0, <2>1, CarriedSays DEF Stages
  <2>3. /\ d \in Destinations /\ d.link = dest.link /\ d.armed = dest.armed /\ d.content = dest.content
        /\ d = dest => MintFault \/ ~d.tail
        /\ d # dest => ~d.tail
    BY <1>1, <2>1 DEF kept, Destinations
  <2>4. mintSeen' \in Histories /\ mintSeen'.disk <= mintSeen'.faults /\ mintSeen'.late = mintSeen.late
    BY <1>0, <2>1, <2>3, SlipTyped DEF MintTypeOK
  <2>5. FileShape'
    BY <1>0, <1>3, <2>1, <2>2, <2>3, <2>4 DEF FileShape, stillTheReservation
  <2> QED
    BY <1>0, <2>1, <2>2, <2>3, <2>4, <2>5, StillHeld DEF Arrived
<1>4. CASE ~mint.sinkErr /\ stillTheReservation /\ ~mintProblem(mint.body)
  <2>1. mint' = [mint EXCEPT !.at = "rewrite"] /\ dest' = dest /\ mintSeen' = mintSeen
    BY <1>4 DEF RenderChecks
  <2>2. /\ mint' \in MintCommands /\ mint'.at = "rewrite" /\ mint'.over = "no" /\ mint'.sinkErr = mint.sinkErr
        /\ mint'.told = mint.told /\ mint'.body = mint.body
        /\ mint'.deadline = mint.deadline /\ mint'.expires = mint.expires
    BY <1>0, <2>1, Carried DEF Stages
  <2>3. mint.body = "whole"
    <3>1. mint.body \in Bodies
      BY <1>0 DEF KeyShape, MintTypeOK, MintCommands
    <3> QED
      BY <1>4, <3>1 DEF mintProblem, unusableSecret, Bodies
  <2>4. FileShape'
    BY <1>0, <1>4, <2>1, <2>2, <2>3 DEF FileShape, stillTheReservation
  <2> QED
    BY <1>0, <2>1, <2>2, <2>4, StillHeld DEF MintTypeOK, Arrived
<1> QED
  BY <1>1, <1>2, <1>3, <1>4

LEMMA RewriteOverKeeps ==
  ASSUME MintKept, mint.over = "no", RewriteOver
  PROVE  MintKept'
<1> USE DEF MintKept, MintInv, MintShape
<1>0. MintTypeOK /\ FileShape /\ mint.at = "rewrite" /\ mint.at \in Arrived \ {"report"}
      /\ plane' = plane /\ spare' = spare /\ guard' = guard /\ mintClock' = mintClock
  BY DEF RewriteOver, Arrived
<1>1. CASE /\ dest' = [dest EXCEPT !.content = "rendering"]
           /\ mint' = [mint EXCEPT !.at = "cut"] /\ UNCHANGED mintSeen
  <2>1. /\ mint' \in MintCommands /\ mint'.at = "cut" /\ mint'.over = "no" /\ mint'.sinkErr = mint.sinkErr
        /\ mint'.told = mint.told /\ mint'.body = mint.body
        /\ mint'.deadline = mint.deadline /\ mint'.expires = mint.expires
    BY <1>0, <1>1, Carried DEF Stages
  <2>2. dest' \in Destinations /\ dest'.content = "rendering" /\ dest'.link = dest.link /\ dest'.armed = dest.armed
    BY <1>0, <1>1, ContentOnly
  <2>3. FileShape'
    BY <1>0, <1>1, <2>1, <2>2 DEF FileShape
  <2> QED
    BY <1>0, <1>1, <2>1, <2>2, <2>3, StillHeld DEF MintTypeOK, Arrived
<1>2. ASSUME MintFault, mintSeen' = DiskSlip, NEW c \in {"response", "torn", "rendering"},
             dest' = [dest EXCEPT !.content = c], mint' = [mint EXCEPT !.at = "restore"]
      PROVE  MintKept'
  <2>1. /\ mintSeen' \in Histories /\ mintSeen'.disk <= mintSeen'.faults /\ mintSeen'.late = mintSeen.late
        /\ mintSeen'.disk = mintSeen.disk + 1 /\ mintSeen.disk \in Nat
    BY <1>0, <1>2, SlipTyped DEF MintTypeOK, Histories
  <2>2. /\ mint' \in MintCommands /\ mint'.at = "restore" /\ mint'.over = "no" /\ mint'.sinkErr = mint.sinkErr
        /\ mint'.told = mint.told /\ mint'.body = mint.body
        /\ mint'.deadline = mint.deadline /\ mint'.expires = mint.expires
    BY <1>0, <1>2, Carried DEF Stages
  <2>3. dest' \in Destinations /\ dest'.link = dest.link /\ dest'.armed = dest.armed
    BY <1>0, <1>2, ContentOnly
  <2>4. FileShape'
    BY <1>0, <2>1, <2>2, <2>3 DEF FileShape
  <2> QED
    BY <1>0, <2>1, <2>2, <2>3, <2>4, StillHeld DEF Arrived
<1> QED
  BY <1>1, <1>2 DEF RewriteOver

LEMMA RewriteCutKeeps ==
  ASSUME MintKept, mint.over = "no", RewriteCut
  PROVE  MintKept'
<1> USE DEF MintKept, MintInv, MintShape
<1>0. MintTypeOK /\ FileShape /\ KeyShape /\ mint.at = "cut" /\ mint.at \in Arrived \ {"report"}
      /\ plane' = plane /\ spare' = spare /\ guard' = guard /\ mintClock' = mintClock
  BY DEF RewriteCut, Arrived
<1>1. CASE /\ dest' = [dest EXCEPT !.tail = FALSE]
           /\ mint' = [mint EXCEPT !.at = "settle", !.says = "saved"] /\ UNCHANGED mintSeen
  <2>1. /\ mint' \in MintCommands /\ mint'.at = "settle" /\ mint'.over = "no" /\ mint'.sinkErr = mint.sinkErr
        /\ mint'.told = mint.told /\ mint'.body = mint.body /\ mint'.says = "saved"
        /\ mint'.deadline = mint.deadline /\ mint'.expires = mint.expires
    BY <1>0, <1>1, CarriedSays DEF Stages
  <2>2. dest' \in Destinations /\ dest'.content = dest.content /\ dest'.link = dest.link /\ dest'.armed = dest.armed /\ ~dest'.tail
    BY <1>0, <1>1 DEF MintTypeOK, Destinations
  <2>3. plane.key
    BY <1>0 DEF FileShape, KeyShape, held
  <2>4. FileShape'
    BY <1>0, <1>1, <2>1, <2>2, <2>3 DEF FileShape
  <2> QED
    BY <1>0, <1>1, <2>1, <2>2, <2>4, StillHeld DEF MintTypeOK, Arrived
<1>2. CASE MintFault /\ mintSeen' = DiskSlip /\ mint' = [mint EXCEPT !.at = "rescue"] /\ UNCHANGED dest
  <2>1. /\ mintSeen' \in Histories /\ mintSeen'.disk <= mintSeen'.faults
        /\ mintSeen'.disk = mintSeen.disk + 1 /\ mintSeen.disk \in Nat
    BY <1>0, <1>2, SlipTyped DEF MintTypeOK, Histories
  <2>2. /\ mint' \in MintCommands /\ mint'.at = "rescue" /\ mint'.over = "no" /\ mint'.sinkErr = mint.sinkErr
        /\ mint'.told = mint.told /\ mint'.body = mint.body
        /\ mint'.deadline = mint.deadline /\ mint'.expires = mint.expires
    BY <1>0, <1>2, Carried DEF Stages
  <2>3. FileShape'
    BY <1>0, <1>2, <2>1, <2>2 DEF FileShape, Troubles
  <2> QED
    BY <1>0, <1>2, <2>1, <2>2, <2>3, StillHeld DEF MintTypeOK, Arrived
<1> QED
  BY <1>1, <1>2 DEF RewriteCut

\* Only what is read back decides: the response is in the file, or a disk
\* operation has failed and the fallbacks are tried.
LEMMA RestoreResponseKeeps ==
  ASSUME MintKept, mint.over = "no", RestoreResponse
  PROVE  MintKept'
<1> USE DEF MintKept, MintInv, MintShape
<1>0. MintTypeOK /\ FileShape /\ mint.at = "restore" /\ mint.at \in Arrived \ {"report"}
      /\ plane' = plane /\ spare' = spare /\ guard' = guard /\ mintClock' = mintClock
  BY DEF RestoreResponse, Arrived
<1>1. ASSUME dest' \in Destinations, dest'.content = "response", dest'.link = dest.link, dest'.armed = dest.armed,
             mint' = [mint EXCEPT !.at = "settle", !.says = "raw"],
             mintSeen' \in Histories, mintSeen'.disk <= mintSeen'.faults, mintSeen'.late = mintSeen.late
      PROVE  MintKept'
  <2>1. /\ mint' \in MintCommands /\ mint'.at = "settle" /\ mint'.over = "no" /\ mint'.sinkErr = mint.sinkErr
        /\ mint'.told = mint.told /\ mint'.body = mint.body /\ mint'.says = "raw"
        /\ mint'.deadline = mint.deadline /\ mint'.expires = mint.expires
    BY <1>0, <1>1, CarriedSays DEF Stages
  <2>2. FileShape'
    BY <1>0, <1>1, <2>1 DEF FileShape
  <2> QED
    BY <1>0, <1>1, <2>1, <2>2, StillHeld DEF Arrived
<1>2. CASE /\ dest' = [dest EXCEPT !.content = "response", !.tail = FALSE]
           /\ mint' = [mint EXCEPT !.at = "settle", !.says = "raw"] /\ UNCHANGED mintSeen
  <2>1. dest' \in Destinations /\ dest'.content = "response" /\ dest'.link = dest.link /\ dest'.armed = dest.armed
    BY <1>0, <1>2 DEF MintTypeOK, Destinations
  <2> QED
    BY <1>0, <1>1, <1>2, <2>1 DEF MintTypeOK
<1>3. ASSUME MintFault, mintSeen' = DiskSlip, NEW c \in {"torn", "response"},
             dest' = [dest EXCEPT !.content = c],
             mint' = IF c = "response" THEN [mint EXCEPT !.at = "settle", !.says = "raw"]
                     ELSE [mint EXCEPT !.at = "rescue"]
      PROVE  MintKept'
  <2>1. /\ mintSeen' \in Histories /\ mintSeen'.disk <= mintSeen'.faults /\ mintSeen'.late = mintSeen.late
        /\ mintSeen'.disk = mintSeen.disk + 1 /\ mintSeen.disk \in Nat
    BY <1>0, <1>3, SlipTyped DEF MintTypeOK, Histories
  <2>2. dest' \in Destinations /\ dest'.content = c /\ dest'.link = dest.link /\ dest'.armed = dest.armed
    BY <1>0, <1>3, ContentOnly
  <2>3. CASE c = "response"
    BY <1>1, <1>3, <2>1, <2>2, <2>3
  <2>4. CASE c = "torn"
    <3>1. mint' = [mint EXCEPT !.at = "rescue"]
      BY <1>3, <2>4
    <3>2. /\ mint' \in MintCommands /\ mint'.at = "rescue" /\ mint'.over = "no" /\ mint'.sinkErr = mint.sinkErr
          /\ mint'.told = mint.told /\ mint'.body = mint.body
          /\ mint'.deadline = mint.deadline /\ mint'.expires = mint.expires
      BY <1>0, <3>1, Carried DEF Stages
    <3>3. FileShape'
      BY <1>0, <2>1, <2>2, <3>2 DEF FileShape, Troubles
    <3> QED
      BY <1>0, <2>1, <2>2, <3>2, <3>3, StillHeld DEF Arrived
  <2> QED
    BY <1>3, <2>3, <2>4
<1> QED
  BY <1>2, <1>3 DEF RestoreResponse, restoreResponse
\* The file is closed and named; the guard is let go, and what the report will
\* say is already true.
LEMMA SettleKeeps ==
  ASSUME MintKept, mint.over = "no", Settle
  PROVE  MintKept'
<1> USE DEF MintKept, MintInv, MintShape
<1>0. MintTypeOK /\ FileShape /\ KeyShape /\ TimeShape /\ mint.at = "settle"
      /\ mint' = [mint EXCEPT !.at = "report"] /\ guard' = Released
      /\ plane' = plane /\ spare' = spare /\ mintClock' = mintClock
  BY DEF Settle
<1>1. guard' \in Guards /\ ~guard'.held
  BY <1>0 DEF Released, Guards
<1>2. /\ mint' \in MintCommands /\ mint'.at = "report" /\ mint'.over = "no" /\ mint'.sinkErr = mint.sinkErr
      /\ mint'.told = mint.told /\ mint'.body = mint.body /\ mint'.says = mint.says
      /\ mint'.deadline = mint.deadline /\ mint'.expires = mint.expires
  BY <1>0, Carried DEF Stages
<1>3. dest \in Destinations /\ mintSeen.disk \in Nat
  BY <1>0 DEF MintTypeOK, Histories
<1>4. /\ dest' \in Destinations /\ dest'.link = dest.link /\ dest'.content = dest.content
      /\ dest'.tail = dest.tail /\ dest'.armed = dest.armed
      /\ dest'.name = "partial" => MintFault
  BY <1>3 DEF Settle, promote, rename, Destinations
<1>5. /\ mintSeen' \in Histories /\ mintSeen'.disk <= mintSeen'.faults /\ mintSeen'.late = mintSeen.late
      /\ dest'.name = "partial" => mintSeen'.disk > 0
  <2>1. mintSeen' = IF dest'.name = "partial" THEN DiskSlip ELSE mintSeen
    BY DEF Settle
  <2>2. CASE dest'.name = "partial"
    BY <1>0, <1>3, <1>4, <2>1, <2>2, SlipTyped
  <2>3. CASE dest'.name # "partial"
    BY <1>0, <2>1, <2>3 DEF MintTypeOK
  <2> QED
    BY <2>2, <2>3
<1>6. MintTypeOK'
  BY <1>0, <1>1, <1>2, <1>4, <1>5 DEF MintTypeOK
<1>7. GuardShape' /\ KeyShape'
  BY <1>0, <1>1, <1>2 DEF GuardShape, KeyShape, Arrived, Unopened, held
<1>8. FileShape'
  BY <1>0, <1>2, <1>4, <1>5 DEF FileShape
<1>9. TimeShape'
  BY <1>0, <1>2 DEF TimeShape
<1> QED
  BY <1>2, <1>6, <1>7, <1>8, <1>9, RunningIsSound

LEMMA ReportMintKeeps ==
  ASSUME MintKept, mint.over = "no", ReportMint
  PROVE  MintKept'
<1> USE DEF MintKept, MintInv, MintShape
<1>0. MintTypeOK /\ FileShape /\ KeyShape /\ mint.at = "report"
      /\ plane' = plane /\ spare' = spare /\ guard' = guard /\ mintClock' = mintClock /\ mintSeen' = mintSeen
  BY DEF ReportMint
<1>1. PICK says \in {"saved", "raw: minted", "raw: unknown"} :
        /\ Returns(says)
        /\ says = "saved" <=> mint.says = "saved"
        /\ says = "raw: minted" => held(mint.body)
  BY DEF ReportMint, reportUnrenderedMint
<1>2. /\ mint' \in MintCommands /\ dest' \in Destinations
      /\ mint'.over = "returned" /\ mint'.told = says /\ mint'.at = "report" /\ mint'.body = mint.body
      /\ dest'.content = dest.content /\ dest'.tail = dest.tail /\ dest'.name = dest.name
      /\ dest'.link = dest.link
  <2>1. says \in Tellings /\ ~dest.armed
    BY <1>0, <1>1 DEF Tellings, FileShape
  <2> QED
    BY <1>0, <1>1, <2>1, ReturnsEnds
<1>3. MintTypeOK'
  BY <1>0, <1>2 DEF MintTypeOK
<1>4. dest.link = "ours" \/ mintSeen.late
  BY <1>0 DEF FileShape
<1>5. \/ mint.says = "saved" /\ dest.content = "rendering" /\ ~dest.tail /\ plane.key
      \/ mint.says = "raw" /\ dest.content = "response"
  BY <1>0 DEF FileShape
<1>6. dest.name # "partial" \/ mintSeen.disk > 0
  BY <1>0 DEF FileShape
<1>7. held(mint.body) => plane.key
  BY <1>0 DEF KeyShape
<1>8. ReportTrue'
  BY <1>0, <1>1, <1>2, <1>4, <1>5, <1>6, <1>7 DEF ReportTrue
<1>9. SecretKept' /\ KeyNeverAbandoned'
  BY <1>0, <1>1, <1>2, <1>4, <1>5 DEF SecretKept, KeyNeverAbandoned, Somewhere, InDestination, Denials
<1> QED
  BY <1>2, <1>3, <1>8, <1>9, OverIsSound

\* A fallback that was written whole keeps the bytes; one that was not leaves
\* two troubles behind it.
LEMMA RescueToFileKeeps ==
  ASSUME MintKept, mint.over = "no", RescueToFile
  PROVE  MintKept'
<1> USE DEF MintKept, MintInv, MintShape
<1>0. MintTypeOK /\ FileShape /\ KeyShape /\ mint.at = "rescue" /\ plane' = plane /\ mintClock' = mintClock
  BY DEF RescueToFile
<1>1. mint.body \in Bodies /\ rescueContent(mint.body) \in {"response", "rendering"}
      /\ (~held(mint.body) => rescueContent(mint.body) = "response")
  <2>1. mint.body \in Bodies
    BY <1>0 DEF KeyShape, MintTypeOK, MintCommands, Arrived
  <2> QED
    BY <2>1 DEF rescueContent, mintProblem, held, Bodies
<1>2. CASE /\ spare' = [spare EXCEPT !.file = rescueContent(mint.body)]
           /\ Returns(rescueMintedSecret(mint.body, "none"))
           /\ guard' = Released /\ UNCHANGED mintSeen
  <2>1. spare' \in Spares /\ spare'.file = rescueContent(mint.body)
    BY <1>0, <1>1, <1>2 DEF MintTypeOK, Spares
  <2>2. guard' \in Guards
    BY <1>2 DEF Released, Guards
  <2>3. PICK says \in {"rescued: minted", "rescued: unknown"} :
          Returns(says) /\ (says = "rescued: minted" <=> held(mint.body))
    BY <1>2 DEF rescueMintedSecret
  <2>4. /\ mint' \in MintCommands /\ dest' \in Destinations
        /\ mint'.over = "returned" /\ mint'.told = says /\ mint'.at = "rescue" /\ mint'.body = mint.body
    <3>1. says \in Tellings
      BY DEF Tellings
    <3> QED
      BY <1>0, <2>3, <3>1, ReturnsEnds
  <2>5. MintTypeOK'
    BY <1>0, <1>2, <2>1, <2>2, <2>4 DEF MintTypeOK
  <2>6. held(mint.body) => plane.key
    BY <1>0 DEF KeyShape
  <2>7. ReportTrue'
    BY <1>0, <1>1, <2>1, <2>3, <2>4, <2>6 DEF ReportTrue
  <2>8. SecretKept' /\ KeyNeverAbandoned'
    BY <1>1, <2>1, <2>3, <2>4 DEF SecretKept, KeyNeverAbandoned, Somewhere, Denials
  <2> QED
    BY <2>4, <2>5, <2>7, <2>8, OverIsSound
<1>3. ASSUME MintFault, mintSeen' = DiskSlip, NEW f \in {"none", "torn", rescueContent(mint.body)},
             spare' = [spare EXCEPT !.file = f], mint' = [mint EXCEPT !.at = "print"],
             UNCHANGED <<dest, guard>>
      PROVE  MintKept'
  <2>1. spare' \in Spares
    BY <1>0, <1>1, <1>3 DEF MintTypeOK, Spares
  <2>2. /\ mintSeen' \in Histories /\ mintSeen'.disk <= mintSeen'.faults
        /\ mintSeen'.disk = mintSeen.disk + 1 /\ mintSeen.disk \in Nat
    BY <1>0, <1>3, SlipTyped DEF MintTypeOK, Histories
  <2>3. /\ mint' \in MintCommands /\ mint'.at = "print" /\ mint'.over = "no" /\ mint'.sinkErr = mint.sinkErr
        /\ mint'.told = mint.told /\ mint'.body = mint.body
        /\ mint'.deadline = mint.deadline /\ mint'.expires = mint.expires
    BY <1>0, <1>3, Carried DEF Stages
  <2>4. MintTypeOK'
    BY <1>0, <1>3, <2>1, <2>2, <2>3 DEF MintTypeOK
  <2>5. GuardShape' /\ KeyShape' /\ TimeShape'
    BY <1>0, <1>3, <2>3 DEF GuardShape, KeyShape, TimeShape, Arrived, Unopened, held
  <2>6. FileShape'
    BY <1>0, <1>3, <2>2, <2>3 DEF FileShape, Troubles
  <2> QED
    BY <2>3, <2>4, <2>5, <2>6, RunningIsSound
<1> QED
  BY <1>2, <1>3 DEF RescueToFile

LEMMA RescueToTerminalKeeps ==
  ASSUME MintKept, mint.over = "no", RescueToTerminal
  PROVE  MintKept'
<1> USE DEF MintKept, MintInv, MintShape
<1>0. MintTypeOK /\ FileShape /\ mint.at = "print" /\ plane' = plane /\ mintClock' = mintClock
      /\ mintSeen' = mintSeen /\ guard' = Released
  BY DEF RescueToTerminal
<1>1. PICK shown \in {"terminal", "kept", "discarded", "failed"} :
        /\ spare' = [spare EXCEPT !.shown = shown]
        /\ Returns(rescueMintedSecret(mint.body, shown))
  BY DEF RescueToTerminal, writeLastResort
<1>2. PICK says \in {"printed", "nowhere", "stderr"} : Returns(says)
  BY <1>1 DEF rescueMintedSecret
<1>3. spare' \in Spares
  BY <1>0, <1>1 DEF MintTypeOK, Spares
<1>4. guard' \in Guards
  BY <1>0 DEF Released, Guards
<1>5. /\ mint' \in MintCommands /\ dest' \in Destinations
      /\ mint'.over = "returned" /\ mint'.told = says /\ mint'.at = "print" /\ mint'.body = mint.body
      /\ (~dest.armed => dest'.link = dest.link) /\ (dest.armed => dest'.link = "removed")
  <2>1. says \in Tellings
    BY DEF Tellings
  <2> QED
    BY <1>0, <1>2, <2>1, ReturnsEnds
<1>6. MintTypeOK'
  BY <1>0, <1>3, <1>4, <1>5 DEF MintTypeOK
<1>7. Troubles' >= 2
  <2>1. Troubles >= 2 /\ (dest.armed => mintSeen.disk >= 2)
    BY <1>0 DEF FileShape
  <2>2. mintSeen.disk \in Nat
    BY <1>0 DEF MintTypeOK, Histories
  <2> QED
    BY <1>0, <1>5, <2>1, <2>2 DEF Troubles
<1> QED
  BY <1>5, <1>6, <1>7, OverIsSound DEF ReportTrue, SecretKept, KeyNeverAbandoned, Denials

-----------------------------------------------------------------------------
(* mint-key: signals, kill -9 and a moved file, at any step *)

LEMMA MeddleKeeps ==
  ASSUME MintKept, mint.over = "no", Meddle
  PROVE  MintKept'
<1> USE DEF MintKept, MintInv, MintShape
<1>0. MintTypeOK /\ FileShape /\ dest.link = "ours" /\ ~mintSeen.late /\ mint' = mint
      /\ plane' = plane /\ spare' = spare /\ guard' = guard /\ mintClock' = mintClock
  BY DEF Meddle
<1>1. PICK l \in {"gone", "other"} : dest' = [dest EXCEPT !.link = l]
  BY DEF Meddle
<1>2. /\ dest' \in Destinations /\ dest'.link = l /\ dest'.content = dest.content
      /\ dest'.tail = dest.tail /\ dest'.armed = dest.armed /\ dest'.name = dest.name
  BY <1>0, <1>1 DEF MintTypeOK, Destinations
<1>3. /\ mintSeen' \in Histories /\ mintSeen'.disk = mintSeen.disk /\ mintSeen'.faults = mintSeen.faults
      /\ mint.at \in {"rewrite", "cut", "restore", "settle", "report"} => mintSeen'.late
      /\ mintSeen.disk \in Nat
  <2>1. mintSeen \in Histories
    BY <1>0 DEF MintTypeOK
  <2> DEFINE b == mint.at \in {"rewrite", "cut", "restore", "settle", "report"}
  <2>2. mintSeen' = [mintSeen EXCEPT !.late = b] /\ b \in BOOLEAN
    BY DEF Meddle
  <2> HIDE DEF b
  <2>3. /\ mintSeen'.faults = mintSeen.faults /\ mintSeen'.disk = mintSeen.disk
        /\ mintSeen'.late = b /\ mintSeen'.signals = mintSeen.signals
    BY <2>1, <2>2 DEF Histories
  <2>4. mintSeen' \in Histories
    BY <2>1, <2>2, Zenon DEF Histories
  <2>5. b => mintSeen'.late
    BY <2>3, Zenon
  <2> QED
    BY <2>1, <2>3, <2>4, <2>5 DEF Histories, b
<1>4. MintTypeOK'
  BY <1>0, <1>2, <1>3 DEF MintTypeOK
<1>5. GuardShape' /\ KeyShape' /\ TimeShape'
  BY <1>0 DEF GuardShape, KeyShape, TimeShape, outlivesTheCeremony
<1>6. Troubles' = Troubles + 1 /\ Troubles \in Nat
  BY <1>0, <1>2, <1>3 DEF Troubles
<1>7. FileShape'
  BY <1>0, <1>2, <1>3, <1>6 DEF FileShape
<1> QED
  BY <1>0, <1>4, <1>5, <1>7, RunningIsSound

\* A command stopped without a word: the secret is where its stage has put it.
LEMMA StoppedSilently ==
  ASSUME MintKept, mint.over = "no", NEW over \in {"signalled", "killed"},
         mint' = [mint EXCEPT !.over = over],
         over = "signalled" => ~guard.held,
         plane' = plane, dest' = dest, spare' = spare, guard' = guard, mintClock' = mintClock,
         mintSeen' \in Histories, mintSeen'.disk <= mintSeen'.faults,
         mintSeen'.disk = mintSeen.disk, mintSeen'.late = mintSeen.late
  PROVE  MintKept'
<1> USE DEF MintKept, MintInv, MintShape
<1>0. MintTypeOK /\ GuardShape /\ KeyShape /\ FileShape /\ RedeemInSession
  OBVIOUS
<1>1. mint' \in MintCommands /\ mint'.over = over /\ mint'.at = mint.at /\ mint'.body = mint.body
      /\ mint'.told = "none" /\ mint'.expires = mint.expires
  BY <1>0 DEF MintTypeOK, MintCommands, FileShape
<1>2. MintTypeOK'
  BY <1>0, <1>1 DEF MintTypeOK
<1>3. ReportTrue'
  BY <1>1 DEF ReportTrue
<1>4. RedeemInSession'
  BY <1>0, <1>1 DEF RedeemInSession
<1>5. mintSeen.disk \in Nat /\ mint.at \in Stages /\ mint.sinkErr \in BOOLEAN
  BY <1>0 DEF MintTypeOK, Histories, MintCommands
<1>6. mint.at \in Arrived /\ mint.at \notin {"arrived", "write"} =>
        InDestination \/ Troubles >= 1 \/ mintSeen.late
  BY <1>0, <1>5 DEF FileShape, Arrived, InDestination, Troubles
<1>7. InDestination' = InDestination /\ Troubles' = Troubles /\ Somewhere' = Somewhere
  BY DEF InDestination, Troubles, Somewhere
<1>8. ~guard.held /\ mint.at \in Arrived => InDestination \/ mintSeen.late
  BY <1>0 DEF GuardShape, FileShape, InDestination
<1>9. mint.at \in Arrived <=> mint.body # "none"
  BY <1>0 DEF KeyShape
<1>10. SecretKept'
  BY <1>1, <1>6, <1>7, <1>8, <1>9 DEF SecretKept, Somewhere
<1>11. ~guard.held /\ mint.at \notin Arrived => ~plane.key
  BY <1>0, <1>5 DEF GuardShape, KeyShape, Stages, Unopened, Arrived
<1>12. KeyNeverAbandoned'
  BY <1>1, <1>7, <1>8, <1>11 DEF KeyNeverAbandoned
<1> QED
  BY <1>1, <1>2, <1>3, <1>4, <1>10, <1>12 DEF KeyKept

LEMMA SignalArrivesKeeps ==
  ASSUME MintKept, mint.over = "no", SignalArrives
  PROVE  MintKept'
<1> USE DEF MintKept, MintInv, MintShape
<1>0. MintTypeOK /\ plane' = plane /\ dest' = dest /\ spare' = spare /\ mintClock' = mintClock
  BY DEF SignalArrives
<1>1. /\ mintSeen' \in Histories /\ mintSeen'.disk <= mintSeen'.faults
      /\ mintSeen'.disk = mintSeen.disk /\ mintSeen'.late = mintSeen.late
  <2>1. mintSeen \in Histories /\ mintSeen.disk <= mintSeen.faults
    BY <1>0 DEF MintTypeOK
  <2>2. mintSeen.signals < MaxMintSignals /\ mintSeen' = [mintSeen EXCEPT !.signals = mintSeen.signals + 1]
    BY DEF SignalArrives
  <2>3. MaxMintSignals \in Nat
    BY MintAssumption
  <2> QED
    BY <2>1, <2>2, <2>3 DEF Histories
<1>2. CASE guard.held
  <2>1. guard' = [guard EXCEPT !.first = TRUE] /\ mint' = mint
    BY <1>2 DEF SignalArrives
  <2>2. guard' \in Guards /\ guard'.held = guard.held
    BY <1>0, <2>1 DEF MintTypeOK, Guards
  <2>3. MintTypeOK'
    BY <1>0, <1>1, <2>1, <2>2 DEF MintTypeOK
  <2>4. GuardShape' /\ KeyShape' /\ TimeShape'
    BY <1>0, <2>1, <2>2 DEF GuardShape, KeyShape, TimeShape, outlivesTheCeremony
  <2>5. FileShape'
    BY <1>0, <1>1, <2>1 DEF FileShape, Troubles
  <2> QED
    BY <2>1, <2>3, <2>4, <2>5, RunningIsSound
<1>3. CASE ~guard.held
  BY <1>0, <1>1, <1>3, StoppedSilently DEF SignalArrives
<1> QED
  BY <1>2, <1>3

LEMMA KillNineKeeps ==
  ASSUME MintKept, mint.over = "no", KillNine
  PROVE  MintKept'
<1>1. mintSeen \in Histories /\ mintSeen.disk <= mintSeen.faults
  BY DEF MintKept, MintInv, MintTypeOK
<1> QED
  BY <1>1, StoppedSilently DEF KillNine

-----------------------------------------------------------------------------
(* mint-key: the theorems *)

LEMMA MintInitKept == MintInit => MintKept
<1> SUFFICES ASSUME MintInit PROVE MintKept
  OBVIOUS
<1>1. MintTypeOK
  <2>1. 0 \in 0..LastInstant /\ 0 \in 0..maxPendingInterval /\ 0 \in 0..MaxChallengeTTLSecs
        /\ 0 \in 0..MaxMintFaults /\ 0 \in 0..MaxMintSignals
    BY MintAssumption DEF LastInstant
  <2>2. mint \in MintCommands
    BY <2>1 DEF MintInit, MintCommands, Stages, Tellings, Denials
  <2>3. plane \in Planes /\ dest \in Destinations /\ spare \in Spares /\ guard \in Guards
    BY DEF MintInit, Planes, Destinations, NoDest, Spares, Guards, Released
  <2>4. mintSeen \in Histories /\ mintSeen.disk <= mintSeen.faults
    BY <2>1 DEF MintInit, Histories
  <2> QED
    BY <2>1, <2>2, <2>3, <2>4 DEF MintInit, MintTypeOK
<1>2. GuardShape /\ KeyShape
  BY DEF MintInit, GuardShape, KeyShape, Released, Arrived, Unopened, held
<1>3. FileShape /\ TimeShape
  BY MintAssumption DEF MintInit, FileShape, TimeShape, NoDest
<1> QED
  BY <1>1, <1>2, <1>3
     DEF MintInit, MintKept, MintInv, MintShape, KeyKept, ReportTrue, RedeemInSession, SecretKept, KeyNeverAbandoned

LEMMA MintStepKeeps ==
  ASSUME MintKept, [MintNext]_mintVars
  PROVE  MintKept'
<1>1. CASE MintNext
  BY <1>1, MintStartKeeps, StartOverKeeps, ReserveDestinationKeeps, ResolveMintIdentityKeeps,
     CreateChallengeKeeps, PromptForApprovalKeeps, HoldAndRedeemKeeps, PlaneKeeps,
     CompleteChallengeKeeps, HandleAnswerKeeps, SleepPendingKeeps, PersistReserveKeeps,
     PersistWriteKeeps, RenderChecksKeeps, RewriteOverKeeps, RewriteCutKeeps, RestoreResponseKeeps,
     SettleKeeps, ReportMintKeeps, RescueToFileKeeps, RescueToTerminalKeeps,
     SignalArrivesKeeps, KillNineKeeps, MeddleKeeps
     DEF MintNext
<1>2. CASE UNCHANGED mintVars
  <2>1. /\ mint' = mint /\ plane' = plane /\ dest' = dest /\ spare' = spare /\ guard' = guard
        /\ mintClock' = mintClock /\ mintSeen' = mintSeen
    BY <1>2 DEF mintVars
  <2>2. MintTypeOK' = MintTypeOK /\ GuardShape' = GuardShape /\ KeyShape' = KeyShape
    BY <2>1 DEF MintTypeOK, GuardShape, KeyShape
  <2>3. FileShape' = FileShape /\ TimeShape' = TimeShape
    BY <2>1 DEF FileShape, TimeShape, Troubles
  <2>4. ReportTrue' = ReportTrue /\ RedeemInSession' = RedeemInSession
    BY <2>1 DEF ReportTrue, RedeemInSession
  <2>5. SecretKept' = SecretKept /\ KeyNeverAbandoned' = KeyNeverAbandoned
    BY <2>1 DEF SecretKept, KeyNeverAbandoned, Somewhere, InDestination, Troubles
  <2> QED
    BY <2>1, <2>2, <2>3, <2>4, <2>5 DEF MintKept, MintInv, MintShape, KeyKept
<1> QED
  BY <1>1, <1>2

\* The state of `gasworks sp mint-key` is sound at every step, for every window,
\* interval and session lifetime the servers may name: every redeem is sent
\* inside the session (runMintCeremony, ensureMintSession), and what the last
\* message says of the file, the fallback and the key is true
\* (renderMintedCredential, rescueMintedSecret, reportUnresolvedRedemption).
THEOREM MintSound == MintSpec => []MintInv
<1>1. MintKept => MintInv
  BY DEF MintKept
<1> QED
  BY MintInitKept, MintStepKeeps, <1>1, PTL DEF MintSpec

\* A minted key is never lost: its secret survives any signal and any single
\* failing disk operation or moved file (persist, rewrite, restoreResponse,
\* rescueMintedSecret), and "nothing was minted" is never said of a key that
\* exists (legCSettled, mintInterrupt).
THEOREM MintedKeyKept == MintSpec => []KeyKept
<1>1. MintKept => KeyKept
  BY DEF MintKept
<1> QED
  BY MintInitKept, MintStepKeeps, <1>1, PTL DEF MintSpec
-----------------------------------------------------------------------------
(* login: the inductive invariant *)

\* After a redeem whose answer was lost there is time for one more poll before
\* the deadline, and the deadline is no later than the end of the server's
\* replay: this is what makes the lost root come back.
RecoveryShape ==
  flow.way = "edge" =>
    /\ Polling /\ told.usable =>
         flow.deadline = told.window /\ told.window <= edge.expires + expiryGrace
    /\ flow.at = "sleep" /\ edge.live /\ told.usable /\ ~told.lateLoss =>
         clock + flow.interval + 1 <= told.window

FlowKept == FlowInv /\ ApprovalNotWasted /\ RecoveryShape

\* The client's numbers, one by one.
LEMMA FlowNumbers ==
  /\ minInterval \in Nat /\ defaultInterval \in Nat /\ maxInterval \in Nat /\ slowDownStep \in Nat
  /\ maxSeconds \in Nat /\ defaultLifetime \in Nat /\ maxLifetime \in Nat /\ expiryGrace \in Nat
  /\ requestTimeout \in Nat /\ deviceLoginCap \in Nat /\ MaxFlowFaults \in Nat
  /\ 0 < minInterval /\ minInterval <= defaultInterval /\ defaultInterval <= maxInterval
  /\ maxLifetime <= maxSeconds
BY FlowAssumption

\* Whatever the server sends, the interval is one the client honours, is no
\* less than the server's up to the ceiling, and never shrinks; a slow_down
\* adds its step up to the ceiling.
LEMMA ClampBounds ==
  ASSUME NEW d \in Nat
  PROVE  /\ clampInterval(d) \in minInterval..maxInterval
         /\ Sooner(d, maxInterval) <= clampInterval(d)
BY FlowNumbers DEF clampInterval, Sooner, Later

LEMMA SecondsTyped ==
  ASSUME NEW v \in Nat, NEW def \in Nat
  PROVE  seconds(v, def) \in Nat
BY FlowNumbers DEF seconds

LEMMA NextIntervalBounds ==
  ASSUME NEW current \in minInterval..maxInterval, NEW server \in Nat, NEW slow \in BOOLEAN
  PROVE  /\ nextInterval(current, server, slow) \in minInterval..maxInterval
         /\ nextInterval(current, server, slow) >= Sooner(server, maxInterval)
         /\ nextInterval(current, server, slow) >= current
         /\ slow => nextInterval(current, server, slow) >= Sooner(maxInterval, current + slowDownStep)
<1>1. CASE slow
  BY <1>1, FlowNumbers DEF nextInterval, clampInterval, Sooner, Later
<1>2. CASE ~slow
  BY <1>2, FlowNumbers DEF nextInterval, clampInterval, Sooner, Later
<1> QED
  BY <1>1, <1>2

\* One slow_down more.
LEMMA SlowedOnce ==
  ASSUME NEW n \in Nat
  PROVE  n * slowDownStep \in Nat /\ (n + 1) * slowDownStep = n * slowDownStep + slowDownStep
BY FlowNumbers

-----------------------------------------------------------------------------
(* login: the cli-edge flow *)

\* A lost or refused request is counted, within the bound.
LEMMA HitTyped ==
  ASSUME FlowTypeOK, FlowFault
  PROVE  /\ Hit \in Tolds /\ Hit.faults = told.faults + 1 /\ Hit.named = told.named /\ Hit.slow = told.slow
         /\ Hit.since = told.since /\ Hit.usable = told.usable /\ Hit.window = told.window
         /\ Hit.refused = told.refused /\ Hit.lateLoss = told.lateLoss /\ Hit.unrevoked = told.unrevoked
         /\ Hit.rejected = told.rejected /\ Hit.first = told.first
<1>1. told \in Tolds /\ told.faults < MaxFlowFaults
  BY DEF FlowTypeOK, FlowFault
<1>2. Hit = [told EXCEPT !.faults = told.faults + 1]
  BY DEF Hit
<1> QED
  BY <1>1, <1>2, FlowNumbers DEF Tolds

\* Ends ends the flow with a result and changes nothing else of it.
LEMMA EndsTyped ==
  ASSUME FlowTypeOK, NEW result \in Results
  PROVE  /\ Ends(result) \in Flows /\ Ends(result).at = "done" /\ Ends(result).result = result
         /\ Ends(result).way = flow.way /\ Ends(result).failures = flow.failures
         /\ Ends(result).interval = flow.interval /\ Ends(result).callback = flow.callback
         /\ Ends(result).delivered = flow.delivered /\ Ends(result).nonce = flow.nonce
BY DEF FlowTypeOK, Flows, Ends

\* A step of the cli-edge flow only has its own part of the invariant to keep.
LEMMA EdgeStep ==
  ASSUME FlowKept, flow.way = "edge",
         flow' \in Flows, edge' \in Edges, told' \in Tolds, clock' \in Nat, flow'.way = "edge",
         flow'.interval <= maxInterval, EdgeShape', Paced', FlowEnds',
         (Polling => told.since <= clock)', ApprovalNotWasted', RecoveryShape'
  PROVE  FlowKept'
BY DEF FlowKept, FlowInv, FlowTypeOK, FlowShape, BrowserOwn

\* A cli-edge flow that is over keeps nothing but its outcome.
LEMMA EdgeOver ==
  ASSUME FlowKept, flow.way = "edge",
         flow' \in Flows, edge' \in Edges, told' \in Tolds, clock' \in Nat,
         flow'.way = "edge", flow'.at = "done", flow'.interval = flow.interval,
         edge'.root = "none" => ~edge'.live, ApprovalNotWasted'
  PROVE  FlowKept'
<1>1. EdgeShape'
  BY DEF EdgeShape, Polling
<1>2. Paced' /\ FlowEnds' /\ (Polling => told.since <= clock)' /\ RecoveryShape'
  BY DEF Paced, FlowEnds, Polling, RecoveryShape
<1>3. flow'.interval <= maxInterval
  BY DEF FlowKept, FlowInv, FlowTypeOK
<1> QED
  BY <1>1, <1>2, <1>3, EdgeStep

LEMMA IssueKeeps ==
  ASSUME FlowKept, Issue
  PROVE  FlowKept'
<1>0. FlowTypeOK /\ EdgeShape /\ flow.at = "issue" /\ flow.way = "edge"
  BY DEF FlowKept, FlowInv, FlowShape, Issue
<1>1. ASSUME FlowFault, told' = Hit, NEW status \in {"404", "405", "429", "400", "none", "5xx", "200"},
             flow' = Ends(classifyIssue(status)), UNCHANGED <<edge, clock>>
      PROVE  FlowKept'
  <2>1. classifyIssue(status) \in Results \ {"login", "refused"}
    BY DEF classifyIssue, Results
  <2>2. flow' \in Flows /\ flow'.at = "done" /\ flow'.result \notin {"login", "refused"} /\ flow'.way = "edge" /\ flow'.interval = flow.interval
    BY <1>0, <1>1, <2>1, EndsTyped
  <2>3. told' \in Tolds
    BY <1>0, <1>1, HitTyped
  <2>4. ~edge.live /\ edge \in Edges /\ clock \in Nat
    BY <1>0 DEF EdgeShape, FlowTypeOK
  <2>5. ApprovalNotWasted'
    BY <1>1, <2>2, <2>4 DEF ApprovalNotWasted, RootRecovered, ApprovalKept
  <2> QED
    BY <1>0, <1>1, <2>2, <2>3, <2>4, <2>5, EdgeOver
<1>2. ASSUME NEW iv \in ServerIntervals, NEW life \in ServerLifetimes, NEW took \in 0..1,
             flow' = parseAuthorization(iv, life),
             clock' = clock + took,
             edge' = [status |-> "pending", root |-> "none", live |-> FALSE,
                      expires |-> clock + took + (IF life = 0 THEN defaultLifetime
                                                  ELSE Sooner(life, maxLifetime))],
             told' = [told EXCEPT !.named = Sooner(seconds(iv, 0), maxInterval),
                                  !.since = clock + took,
                                  !.usable = life \in 1..maxLifetime,
                                  !.window = clock + life + expiryGrace]
      PROVE  FlowKept'
  <2>1. iv \in Nat /\ life \in Nat /\ clock \in Nat /\ clock' \in Nat /\ clock' <= clock + 1
    BY <1>0, <1>2, FlowAssumption DEF FlowTypeOK
  <2>2. PICK i : i = clampInterval(seconds(iv, defaultInterval))
    OBVIOUS
  <2>3. PICK n : n = Sooner(seconds(iv, 0), maxInterval)
    OBVIOUS
  <2>4. i \in minInterval..maxInterval /\ n \in Nat /\ n <= i
    BY <2>1, <2>2, <2>3, SecondsTyped, ClampBounds, FlowNumbers DEF seconds, Sooner
  <2>5. PICK l : l = lifetime(life)
    OBVIOUS
  <2>6. l \in Nat /\ (life \in 1..maxLifetime => l = life)
    BY <2>1, <2>5, SecondsTyped, FlowNumbers DEF lifetime, seconds
  <2>7. /\ flow' \in Flows /\ flow'.at = "sleep" /\ flow'.way = "edge" /\ flow'.interval = i
        /\ flow'.deadline = clock + l + expiryGrace /\ flow'.result = flow.result /\ flow'.failures = flow.failures
    <3>1. flow' = [flow EXCEPT !.at = "sleep", !.interval = i, !.deadline = clock + l + expiryGrace]
      BY <1>2, <2>2, <2>5 DEF parseAuthorization
    <3>2. i \in Nat /\ clock + l + expiryGrace \in Nat
      BY <2>1, <2>4, <2>6, FlowNumbers
    <3> QED
      BY <1>0, <3>1, <3>2 DEF FlowTypeOK, Flows
  <2> DEFINE u == life \in 1..maxLifetime
  <2>8. told' = [told EXCEPT !.named = n, !.since = clock', !.usable = u, !.window = clock + life + expiryGrace]
        /\ u \in BOOLEAN
    BY <1>2, <2>3
  <2>9. u => l = life
    BY <2>6
  <2> HIDE DEF u
  <2>10. clock + life + expiryGrace \in Nat
    BY <2>1, FlowNumbers
  <2>11. /\ told' \in Tolds /\ told'.named = n /\ told'.since = clock' /\ told'.usable = u
         /\ told'.window = clock + life + expiryGrace /\ told'.slow = told.slow
    BY <1>0, <2>1, <2>4, <2>8, <2>10 DEF FlowTypeOK, Tolds
  <2>12. edge' \in Edges /\ edge'.root = "none" /\ ~edge'.live
         /\ (life \in 1..maxLifetime => edge'.expires >= clock + life)
    BY <1>2, <2>1, FlowNumbers DEF Edges, Sooner
  <2>13. u => flow'.deadline = told'.window /\ told'.window <= edge'.expires + expiryGrace
    BY <2>1, <2>7, <2>9, <2>11, <2>12, FlowNumbers DEF Edges, u
  <2>14. Sooner(maxInterval, minInterval + 0) <= i
    BY <2>4, FlowNumbers DEF Sooner
  <2>15. EdgeShape'
    <3>1. told'.slow = 0 /\ told'.slow * slowDownStep = 0
      BY <1>0, <2>11, FlowNumbers DEF EdgeShape
    <3> QED
      BY <1>0, <2>4, <2>7, <2>11, <2>12, <2>14, <3>1 DEF EdgeShape, Polling, Slowed
  <2>16. Paced' /\ FlowEnds'
    BY <2>1, <2>4, <2>6, <2>7, FlowNumbers DEF Paced, FlowEnds, Later
  <2>17. RecoveryShape'
    BY <2>7, <2>11, <2>12, <2>13 DEF RecoveryShape
  <2>18. ApprovalNotWasted' /\ told'.since <= clock' /\ flow'.interval <= maxInterval
    BY <1>0, <2>1, <2>4, <2>7, <2>11 DEF ApprovalNotWasted, RootRecovered, ApprovalKept, EdgeShape
  <2> QED
    BY <1>0, <2>1, <2>7, <2>11, <2>12, <2>15, <2>16, <2>17, <2>18, EdgeStep
<1> QED
  BY <1>1, <1>2 DEF Issue

LEMMA WakeKeeps ==
  ASSUME FlowKept, Wake
  PROVE  FlowKept'
<1>0. FlowTypeOK /\ EdgeShape /\ flow.at = "sleep" /\ flow.way = "edge" /\ edge' = edge /\ told' = told
      /\ RecoveryShape /\ told.since <= clock /\ flow \in Flows /\ told \in Tolds /\ edge \in Edges
  BY DEF FlowKept, FlowInv, FlowShape, FlowTypeOK, Wake, Polling
<1>1. PICK late \in 0..1 : clock' = clock + flow.interval + late
  BY DEF Wake
<1>2. flow' = IF clock' > flow.deadline THEN Ends("expired") ELSE [flow EXCEPT !.at = "poll"]
  BY DEF Wake
<1>3. clock \in Nat /\ flow.interval \in Nat /\ flow.deadline \in Nat /\ clock' \in Nat /\ told.named \in Nat /\ told.since \in Nat
  BY <1>0, <1>1 DEF FlowTypeOK, Flows, Tolds
<1>4. CASE clock' > flow.deadline
  <2>1. flow' = Ends("expired") /\ "expired" \in Results
    BY <1>2, <1>4 DEF Results
  <2>2. flow' \in Flows /\ flow'.at = "done" /\ flow'.result = "expired" /\ flow'.way = "edge" /\ flow'.interval = flow.interval
    BY <1>0, <2>1, EndsTyped
  <2>3. edge.live /\ told.usable => told.lateLoss
    BY <1>0, <1>1, <1>3, <1>4 DEF RecoveryShape, Polling, Tolds
  <2>4. ApprovalNotWasted'
    BY <1>0, <2>2, <2>3 DEF ApprovalNotWasted, RootRecovered, ApprovalKept
  <2> QED
    BY <1>0, <1>3, <2>2, <2>4, EdgeOver DEF EdgeShape
<1>5. CASE ~(clock' > flow.deadline)
  <2>1. flow' = [flow EXCEPT !.at = "poll"]
    BY <1>2, <1>5
  <2>2. /\ flow' \in Flows /\ flow'.at = "poll" /\ flow'.way = "edge" /\ flow'.interval = flow.interval
        /\ flow'.deadline = flow.deadline /\ flow'.result = flow.result /\ flow'.failures = flow.failures
    BY <1>0, <2>1 DEF Flows
  <2>3. EdgeShape'
    BY <1>0, <1>3, <1>5, <2>2 DEF EdgeShape, Polling, Slowed
  <2>4. Paced'
    <3>1. flow.interval >= told.named /\ flow.interval >= Sooner(maxInterval, minInterval + told.slow * slowDownStep)
      BY <1>0 DEF EdgeShape, Polling, Slowed
    <3>2. told.slow * slowDownStep \in Nat
      BY <1>0, SlowedOnce DEF Tolds
    <3>3. clock' - told.since >= flow.interval
      BY <1>0, <1>1, <1>3
    <3>4. PICK floor \in Nat : floor = Sooner(maxInterval, minInterval + told.slow * slowDownStep)
      BY <3>2, FlowNumbers DEF Sooner
    <3>5. clock' - told.since >= told.named /\ clock' - told.since >= floor
      BY <1>3, <3>1, <3>3, <3>4
    <3> QED
      BY <1>0, <2>2, <3>4, <3>5 DEF Paced
  <2>5. FlowEnds'
    BY <1>3, <1>5, <2>2, FlowNumbers DEF FlowEnds, Later
  <2>6. RecoveryShape'
    BY <1>0, <2>2 DEF RecoveryShape, Polling
  <2>7. ApprovalNotWasted' /\ told'.since <= clock' /\ flow'.interval <= maxInterval
    BY <1>0, <1>1, <1>3, <2>2 DEF ApprovalNotWasted, RootRecovered, ApprovalKept, EdgeShape, FlowTypeOK
  <2> QED
    BY <1>0, <1>3, <2>2, <2>3, <2>4, <2>5, <2>6, <2>7, EdgeStep
<1> QED
  BY <1>4, <1>5
\* What a server's answer to a poll leaves of the authorization: it mints at
\* most one root, and keeps it.
LEMMA AnsweredTyped ==
  ASSUME FlowTypeOK, NEW kind \in RootKinds
  PROVE  /\ Answered(kind).edge \in Edges /\ Answered(kind).edge.expires = edge.expires
         /\ Answered(kind).edge.root = "none" => Answered(kind).edge = edge
         /\ Answered(kind).edge # edge => edge.root = "none"
         /\ Answered(kind).says \in {"redeemed", "expired_token", "access_denied", "authorization_pending"}
         /\ Answered(kind).says = "redeemed" => Answered(kind).edge.root \in RootKinds
         /\ Answered(kind).says # "redeemed" => Answered(kind).edge = edge
         /\ Answered(kind).says \in {"access_denied", "authorization_pending"} => edge.root = "none"
         /\ Answered(kind).says = "expired_token" =>
              edge.root = "none" \/ ~(clock <= edge.expires + expiryGrace)
<1>1. edge \in Edges
  BY DEF FlowTypeOK
<1>2. CASE edge.root # "none"
  <2>1. Answered(kind) = [edge |-> edge, says |-> IF clock <= edge.expires + expiryGrace THEN "redeemed" ELSE "expired_token"]
    BY <1>2 DEF Answered
  <2> QED
    BY <1>1, <1>2, <2>1 DEF Edges
<1>3. CASE edge.root = "none"
  <2>1. [edge EXCEPT !.root = kind, !.live = TRUE] \in Edges
        /\ [edge EXCEPT !.root = kind, !.live = TRUE].root = kind
        /\ [edge EXCEPT !.root = kind, !.live = TRUE].expires = edge.expires
    BY <1>1 DEF Edges
  <2>2. kind # "none"
    BY DEF RootKinds
  <2>3. \/ Answered(kind) = [edge |-> [edge EXCEPT !.root = kind, !.live = TRUE], says |-> "redeemed"]
        \/ \E s \in {"expired_token", "access_denied", "authorization_pending"} :
             Answered(kind) = [edge |-> edge, says |-> s]
    BY <1>3 DEF Answered
  <2>4. CASE Answered(kind) = [edge |-> [edge EXCEPT !.root = kind, !.live = TRUE], says |-> "redeemed"]
    <3>1. Answered(kind).edge = [edge EXCEPT !.root = kind, !.live = TRUE] /\ Answered(kind).says = "redeemed"
      BY <2>4
    <3> QED
      BY <1>3, <2>1, <2>2, <3>1
  <2>5. ASSUME NEW s \in {"expired_token", "access_denied", "authorization_pending"},
               Answered(kind) = [edge |-> edge, says |-> s]
        PROVE  Answered(kind).edge = edge /\ Answered(kind).says = s
    BY <2>5
  <2> QED
    BY <1>1, <1>3, <2>3, <2>4, <2>5
<1> QED
  BY <1>2, <1>3

\* Asked records the answer's time and what it asked for, and nothing else.
LEMMA AskedTyped ==
  ASSUME FlowTypeOK, NEW says, NEW iv \in Nat
  PROVE  /\ Asked(says, iv) \in Tolds /\ Asked(says, iv).since = clock
         /\ Asked(says, iv).named = told.named \/ Asked(says, iv).named = Later(told.named, Sooner(seconds(iv, 0), maxInterval))
         /\ says \notin {"authorization_pending", "slow_down", "429"} => Asked(says, iv).named = told.named
         /\ Asked(says, iv).slow = IF says \in {"slow_down", "429"} THEN told.slow + 1 ELSE told.slow
         /\ Asked(says, iv).faults = told.faults /\ Asked(says, iv).usable = told.usable
         /\ Asked(says, iv).window = told.window /\ Asked(says, iv).refused = told.refused
         /\ Asked(says, iv).lateLoss = told.lateLoss /\ Asked(says, iv).unrevoked = told.unrevoked
         /\ Asked(says, iv).rejected = told.rejected /\ Asked(says, iv).first = told.first
<1>1. told \in Tolds /\ clock \in Nat
  BY DEF FlowTypeOK
<1>2. PICK n : n = IF says \in {"authorization_pending", "slow_down", "429"}
                     THEN Later(told.named, Sooner(seconds(iv, 0), maxInterval)) ELSE told.named
  OBVIOUS
<1>3. PICK k : k = IF says \in {"slow_down", "429"} THEN told.slow + 1 ELSE told.slow
  OBVIOUS
<1>4. Asked(says, iv) = [told EXCEPT !.since = clock, !.named = n, !.slow = k]
  BY <1>2, <1>3 DEF Asked
<1>5. n \in Nat /\ k \in Nat
  <2>1. seconds(iv, 0) \in Nat /\ told.named \in Nat /\ told.slow \in Nat
    BY <1>1, SecondsTyped DEF Tolds
  <2> QED
    BY <1>2, <1>3, <2>1, FlowNumbers DEF Later, Sooner
<1>6. /\ Asked(says, iv) \in Tolds /\ Asked(says, iv).since = clock /\ Asked(says, iv).named = n
      /\ Asked(says, iv).slow = k
      /\ Asked(says, iv).faults = told.faults /\ Asked(says, iv).usable = told.usable
      /\ Asked(says, iv).window = told.window /\ Asked(says, iv).refused = told.refused
      /\ Asked(says, iv).lateLoss = told.lateLoss /\ Asked(says, iv).unrevoked = told.unrevoked
      /\ Asked(says, iv).rejected = told.rejected /\ Asked(says, iv).first = told.first
  BY <1>1, <1>4, <1>5 DEF Tolds
<1> QED
  BY <1>2, <1>3, <1>6

\* An answer that asks the client to wait: the next interval covers it.
LEMMA WaitsKeeps ==
  ASSUME FlowKept, flow.at = "poll", flow.way = "edge",
         NEW says \in {"authorization_pending", "slow_down", "429"}, NEW iv \in Nat,
         flow' = onPoll(says, iv), told' = Asked(says, iv), edge' = edge, clock' = clock,
         edge.root = "none"
  PROVE  FlowKept'
<1>0. FlowTypeOK /\ EdgeShape /\ RecoveryShape /\ flow \in Flows /\ edge \in Edges /\ told \in Tolds /\ clock \in Nat
  BY DEF FlowKept, FlowInv, FlowShape, FlowTypeOK
<1> DEFINE slow == says \in {"slow_down", "429"}
           i == nextInterval(flow.interval, seconds(iv, 0), slow)
<1>1. flow' = [flow EXCEPT !.at = "sleep", !.failures = 0, !.interval = i]
  <2>1. pollState(says) = IF slow THEN "pollSlowDown" ELSE "pollPending"
    BY DEF pollState
  <2>2. (pollState(says) = "pollSlowDown") = slow
    BY <2>1
  <2>3. onPoll(says, iv) = [flow EXCEPT !.at = "sleep", !.failures = 0,
                      !.interval = nextInterval(@, seconds(iv, 0), pollState(says) = "pollSlowDown")]
    BY <2>1 DEF onPoll
  <2> QED
    BY <2>2, <2>3
<1>2. slow \in BOOLEAN /\ seconds(iv, 0) \in Nat /\ flow.interval \in minInterval..maxInterval
  BY <1>0, SecondsTyped DEF EdgeShape, Polling
<1> HIDE DEF slow
<1>3. /\ i \in minInterval..maxInterval /\ i >= Sooner(seconds(iv, 0), maxInterval) /\ i >= flow.interval
      /\ slow => i >= Sooner(maxInterval, flow.interval + slowDownStep)
  BY <1>2, NextIntervalBounds
<1> HIDE DEF i
<1>4. /\ flow' \in Flows /\ flow'.at = "sleep" /\ flow'.way = "edge" /\ flow'.interval = i /\ flow'.failures = 0
      /\ flow'.deadline = flow.deadline /\ flow'.result = flow.result
  <2>1. i \in Nat /\ 0 \in 0..maxConsecutiveTransient
    BY <1>3, FlowNumbers DEF maxConsecutiveTransient
  <2> QED
    BY <1>0, <1>1, <2>1 DEF Flows
<1>5. /\ told' \in Tolds /\ told'.since = clock
      /\ told'.named \in {told.named, Later(told.named, Sooner(seconds(iv, 0), maxInterval))}
      /\ told'.slow = (IF slow THEN told.slow + 1 ELSE told.slow)
      /\ told'.usable = told.usable /\ told'.window = told.window
  BY <1>0, AskedTyped DEF slow
<1>6. flow'.interval >= told'.named
  BY <1>0, <1>2, <1>3, <1>4, <1>5, FlowNumbers DEF EdgeShape, Polling, Later, Tolds
<1>7. flow'.interval >= Sooner(maxInterval, minInterval + told'.slow * slowDownStep)
  <2>1. PICK s \in Nat : s = told.slow * slowDownStep /\ (told.slow + 1) * slowDownStep = s + slowDownStep
    BY <1>0, SlowedOnce DEF Tolds
  <2>2. flow.interval >= Sooner(maxInterval, minInterval + s)
    BY <1>0, <2>1 DEF EdgeShape, Polling, Slowed
  <2>3. CASE slow
    <3>1. told'.slow * slowDownStep = s + slowDownStep
      BY <1>5, <2>1, <2>3
    <3> QED
      BY <1>2, <1>3, <1>4, <2>2, <2>3, <3>1, FlowNumbers DEF Sooner
  <2>4. CASE ~slow
    <3>1. told'.slow * slowDownStep = s
      BY <1>5, <2>1, <2>4
    <3> QED
      BY <1>2, <1>3, <1>4, <2>2, <2>4, <3>1, FlowNumbers DEF Sooner
  <2> QED
    BY <2>3, <2>4
<1>8. EdgeShape'
  BY <1>0, <1>3, <1>4, <1>6, <1>7 DEF EdgeShape, Polling, Slowed, maxConsecutiveTransient
<1>9. Paced' /\ FlowEnds'
  <2>1. clock <= flow.deadline /\ flow.deadline \in Nat
    BY <1>0 DEF EdgeShape, Flows
  <2> QED
    BY <1>0, <1>3, <1>4, <2>1, FlowNumbers DEF Paced, FlowEnds, Later
<1>10. RecoveryShape'
  BY <1>0, <1>4, <1>5 DEF RecoveryShape, Polling, EdgeShape
<1>11. ApprovalNotWasted'
  BY <1>0, <1>4 DEF ApprovalNotWasted, RootRecovered, ApprovalKept, EdgeShape
<1> QED
  BY <1>0, <1>3, <1>4, <1>5, <1>8, <1>9, <1>10, <1>11, EdgeStep
\* A poll's refusals end the flow with the matching error.
LEMMA RefusalTyped ==
  ASSUME NEW says
  PROVE  refusal(says) \in Results \ {"login", "refused"}
BY DEF refusal, Results

\* After an answer that is not a root and not a request to wait.
LEMMA RefusedKeeps ==
  ASSUME FlowKept, flow.at = "poll", flow.way = "edge", NEW says,
         pollState(says) = "pollTerminal", flow' = Ends(refusal(says)),
         told' \in Tolds, edge' \in Edges, clock' \in Nat, edge'.root = "none" => ~edge'.live,
         edge'.live => told'.lateLoss \/ told'.refused \/ ~told'.usable \/ edge'.root = "unnameable"
  PROVE  FlowKept'
<1>1. FlowTypeOK
  BY DEF FlowKept, FlowInv
<1>2. flow' \in Flows /\ flow'.at = "done" /\ flow'.result \notin {"login", "refused"} /\ flow'.way = "edge" /\ flow'.interval = flow.interval
  BY <1>1, RefusalTyped, EndsTyped
<1>3. ApprovalNotWasted'
  BY <1>2 DEF ApprovalNotWasted, RootRecovered, ApprovalKept
<1> QED
  BY <1>2, <1>3, EdgeOver

\* A root the client will not keep goes to be revoked, one it will to be confirmed.
LEMMA RedeemedKeeps ==
  ASSUME FlowKept, flow.at = "poll", flow.way = "edge", NEW root \in RootKinds \ {"unnameable"}, NEW iv,
         flow' = onPoll(root, iv),
         told' \in Tolds, edge' \in Edges, clock' \in Nat, edge'.root = "none" => ~edge'.live
  PROVE  FlowKept'
<1>0. FlowTypeOK /\ EdgeShape /\ flow \in Flows /\ flow.interval <= maxInterval
  BY DEF FlowKept, FlowInv, FlowShape, FlowTypeOK
<1>1. /\ flow' \in Flows /\ flow'.at \in {"confirm", "revoke"} /\ flow'.way = "edge"
      /\ flow'.interval = flow.interval /\ flow'.result # "refused"
      /\ flow'.at = "confirm" => flow'.result = "none" /\ flow'.failures = 0
  <2>1. CASE root = "bound"
    <3>1. onPoll(root, iv) = [flow EXCEPT !.at = "confirm", !.failures = 0]
      BY <2>1 DEF onPoll, pollState
    <3>2. 0 \in 0..maxConsecutiveTransient
      BY DEF maxConsecutiveTransient
    <3>3. flow.result = "none"
      BY <1>0 DEF EdgeShape
    <3> QED
      BY <1>0, <3>1, <3>2, <3>3 DEF Flows
  <2>2. CASE root \in {"unbound", "oversize"}
    <3>1. pollState(root) \in {"pollNotKeyBound", "pollUnusable"}
      BY <2>2 DEF pollState
    <3>2. PICK r \in {"not_key_bound", "protocol"} : onPoll(root, iv) = [flow EXCEPT !.at = "revoke", !.result = r]
      BY <3>1 DEF onPoll
    <3> QED
      BY <1>0, <3>2 DEF Flows, Results
  <2> QED
    BY <2>1, <2>2 DEF RootKinds
<1>2. EdgeShape'
  BY <1>1 DEF EdgeShape, Polling, maxConsecutiveTransient
<1>3. Paced' /\ FlowEnds' /\ (Polling => told.since <= clock)' /\ RecoveryShape'
  BY <1>1 DEF Paced, FlowEnds, Polling, RecoveryShape
<1>4. ApprovalNotWasted'
  BY <1>1 DEF ApprovalNotWasted, RootRecovered, ApprovalKept
<1> QED
  BY <1>0, <1>1, <1>2, <1>3, <1>4, EdgeStep

LEMMA PollKeeps ==
  ASSUME FlowKept, Poll
  PROVE  FlowKept'
<1>0. FlowTypeOK /\ EdgeShape /\ RecoveryShape /\ flow.at = "poll" /\ flow.way = "edge" /\ clock' = clock
      /\ flow \in Flows /\ edge \in Edges /\ told \in Tolds /\ clock \in Nat
  BY DEF FlowKept, FlowInv, FlowShape, FlowTypeOK, Poll
<1>1. PICK kind \in RootKinds, iv \in ServerIntervals :
        LET a == Answered(kind)
            ending == IF a.says = "redeemed" THEN a.edge.root ELSE a.says
        IN \/ edge' = a.edge /\ flow' = onPoll(ending, iv) /\ told' = Asked(ending, iv)
           \/ /\ a.says = "authorization_pending"
              /\ \E says \in {"slow_down", "429"} : flow' = onPoll(says, iv) /\ told' = Asked(says, iv)
              /\ UNCHANGED edge
  BY DEF Poll
<1>2. PICK a : a = Answered(kind)
  OBVIOUS
<1>3. iv \in Nat
  BY FlowAssumption
<1>4. /\ a.edge \in Edges /\ a.edge.expires = edge.expires
      /\ a.edge.root = "none" => ~a.edge.live
      /\ a.says \in {"redeemed", "expired_token", "access_denied", "authorization_pending"}
      /\ a.says = "redeemed" => a.edge.root \in RootKinds
      /\ a.says # "redeemed" => a.edge = edge
      /\ a.says \in {"access_denied", "authorization_pending"} => edge.root = "none"
      /\ a.says = "expired_token" => edge.root = "none" \/ ~(clock <= edge.expires + expiryGrace)
  BY <1>0, <1>2, AnsweredTyped DEF EdgeShape
<1>5. ASSUME NEW says \in {"slow_down", "429"}, a.says = "authorization_pending",
             flow' = onPoll(says, iv), told' = Asked(says, iv), UNCHANGED edge
      PROVE  FlowKept'
  BY <1>0, <1>3, <1>4, <1>5, WaitsKeeps
<1>6. ASSUME NEW ending, ending = IF a.says = "redeemed" THEN a.edge.root ELSE a.says,
             edge' = a.edge, flow' = onPoll(ending, iv), told' = Asked(ending, iv)
      PROVE  FlowKept'
  <2>1. told' \in Tolds /\ told'.lateLoss = told.lateLoss /\ told'.usable = told.usable
    BY <1>0, <1>3, <1>6, AskedTyped
  <2>2. CASE a.says = "redeemed" /\ a.edge.root # "unnameable"
    <3>1. ending \in RootKinds \ {"unnameable"}
      BY <1>4, <1>6, <2>2
    <3> QED
      BY <1>0, <1>4, <1>6, <2>1, <3>1, RedeemedKeeps
  <2>3. CASE a.says = "redeemed" /\ a.edge.root = "unnameable"
    <3>1. pollState(ending) = "pollTerminal"
      BY <1>6, <2>3 DEF pollState
    <3>2. flow' = Ends(refusal(ending))
      BY <1>6, <3>1 DEF onPoll
    <3> QED
      BY <1>0, <1>4, <1>6, <2>1, <2>3, <3>1, <3>2, RefusedKeeps
  <2>4. CASE a.says = "authorization_pending"
    <3>1. ending = "authorization_pending" /\ edge' = edge /\ edge.root = "none"
      BY <1>4, <1>6, <2>4
    <3> QED
      BY <1>0, <1>3, <1>6, <3>1, WaitsKeeps
  <2>5. CASE a.says \in {"expired_token", "access_denied"}
    <3>1. pollState(ending) = "pollTerminal" /\ edge' = edge
      BY <1>4, <1>6, <2>5 DEF pollState
    <3>2. flow' = Ends(refusal(ending))
      BY <1>6, <3>1 DEF onPoll
    <3>3. edge.live => told'.lateLoss \/ ~told'.usable
      <4>1. edge.root # "none" => ~(clock <= edge.expires + expiryGrace)
        BY <1>4, <2>5
      <4>2. clock <= flow.deadline /\ flow.deadline \in Nat
        BY <1>0 DEF EdgeShape, Flows
      <4>3. told.usable => flow.deadline <= edge.expires + expiryGrace
        BY <1>0 DEF RecoveryShape, Polling
      <4>4. edge.live => edge.root # "none"
        BY <1>0 DEF EdgeShape
      <4>5. edge.expires + expiryGrace \in Nat
        BY <1>0, FlowNumbers DEF Edges
      <4> QED
        BY <1>0, <2>1, <4>1, <4>2, <4>3, <4>4, <4>5
    <3> QED
      BY <1>0, <1>4, <1>6, <2>1, <3>1, <3>2, <3>3, RefusedKeeps
  <2> QED
    BY <1>4, <2>2, <2>3, <2>4, <2>5
<1> QED
  BY <1>1, <1>2, <1>5, <1>6

\* A poll without an answer: the next one comes while the server still replays,
\* unless the loss came too late for it.
LEMMA TransientKeeps ==
  ASSUME FlowKept, flow.at = "poll", flow.way = "edge", flow' = onTransient,
         told' \in Tolds, told'.named = told.named, told'.slow = told.slow, told'.usable = told.usable,
         told'.window = told.window, told'.since = clock', clock' \in Nat, clock' <= clock + requestTimeout,
         told'.lateLoss = FALSE => clock' + flow.interval + 1 <= told.window,
         edge' \in Edges, edge'.expires = edge.expires, edge'.root = "none" => ~edge'.live
  PROVE  FlowKept'
<1>0. FlowTypeOK /\ EdgeShape /\ RecoveryShape /\ flow \in Flows /\ told \in Tolds /\ clock \in Nat
      /\ flow.interval <= maxInterval
  BY DEF FlowKept, FlowInv, FlowShape, FlowTypeOK
<1>1. flow.failures \in 0..2 /\ flow.result = "none"
  BY <1>0 DEF EdgeShape, Flows, maxConsecutiveTransient
<1>2. CASE flow.failures + 1 >= maxConsecutiveTransient
  <2>1. flow' = [Ends("unavailable") EXCEPT !.failures = @ + 1]
    BY <1>2 DEF onTransient
  <2>2. /\ Ends("unavailable") \in Flows /\ Ends("unavailable").at = "done" /\ Ends("unavailable").result = "unavailable"
        /\ Ends("unavailable").way = flow.way /\ Ends("unavailable").failures = flow.failures
        /\ Ends("unavailable").interval = flow.interval
    <3>1. "unavailable" \in Results
      BY DEF Results
    <3> QED
      BY <1>0, <3>1, EndsTyped
  <2>3. /\ flow' \in Flows /\ flow'.at = "done" /\ flow'.result = "unavailable" /\ flow'.way = "edge"
        /\ flow'.interval = flow.interval /\ flow'.failures = flow.failures + 1
    BY <1>1, <2>1, <2>2 DEF Flows, maxConsecutiveTransient
  <2>4. ApprovalNotWasted'
    BY <1>1, <1>2, <2>3 DEF ApprovalNotWasted, RootRecovered, ApprovalKept, maxConsecutiveTransient
  <2> QED
    BY <2>3, <2>4, EdgeOver
<1>3. CASE ~(flow.failures + 1 >= maxConsecutiveTransient)
  <2>1. flow' = [flow EXCEPT !.at = "sleep", !.failures = @ + 1]
    BY <1>3 DEF onTransient
  <2>2. /\ flow' \in Flows /\ flow'.at = "sleep" /\ flow'.way = "edge" /\ flow'.interval = flow.interval
        /\ flow'.deadline = flow.deadline /\ flow'.result = "none" /\ flow'.failures < maxConsecutiveTransient
    <3>1. PICK f \in 0..maxConsecutiveTransient : f = flow.failures + 1 /\ f < maxConsecutiveTransient
      BY <1>1, <1>3 DEF maxConsecutiveTransient
    <3>2. flow' = [flow EXCEPT !.at = "sleep", !.failures = f]
      BY <2>1, <3>1
    <3> QED
      BY <1>0, <1>1, <3>1, <3>2 DEF Flows
  <2>3. EdgeShape'
    BY <1>0, <2>2 DEF EdgeShape, Polling, Slowed
  <2>4. Paced' /\ FlowEnds'
    <3>1. clock <= flow.deadline /\ flow.deadline \in Nat /\ flow.interval \in Nat
      BY <1>0 DEF EdgeShape, Flows
    <3> QED
      BY <1>0, <2>2, <3>1, FlowNumbers DEF Paced, FlowEnds, Later
  <2>5. RecoveryShape'
    BY <1>0, <2>2 DEF RecoveryShape, Polling, Tolds
  <2>6. ApprovalNotWasted'
    BY <2>2 DEF ApprovalNotWasted, RootRecovered, ApprovalKept
  <2> QED
    BY <1>0, <2>2, <2>3, <2>4, <2>5, <2>6, EdgeStep
<1> QED
  BY <1>2, <1>3
\* The history after a poll that failed: what Asked records, and whether the
\* loss came too late for another poll.
LEMMA LossTyped ==
  ASSUME FlowTypeOK, FlowFault, NEW says, NEW r \in BOOLEAN, NEW late \in BOOLEAN, NEW now \in Nat,
         says \notin {"authorization_pending", "slow_down", "429"},
         told' = [Asked(says, 0) EXCEPT !.faults = @ + 1, !.since = now, !.refused = r, !.lateLoss = late]
  PROVE  /\ told' \in Tolds /\ told'.named = told.named /\ told'.slow = told.slow /\ told'.since = now
         /\ told'.usable = told.usable /\ told'.window = told.window /\ told'.lateLoss = late /\ told'.refused = r
<1>1. /\ Asked(says, 0) \in Tolds /\ Asked(says, 0).named = told.named /\ Asked(says, 0).slow = told.slow
      /\ Asked(says, 0).faults = told.faults /\ Asked(says, 0).usable = told.usable
      /\ Asked(says, 0).window = told.window
  BY AskedTyped
<1>2. told.faults + 1 \in 0..MaxFlowFaults
  BY FlowNumbers DEF FlowTypeOK, FlowFault, Tolds
<1>3. told' = [Asked(says, 0) EXCEPT !.faults = told.faults + 1, !.since = now, !.refused = r, !.lateLoss = late]
  BY <1>1
<1> QED
  BY <1>1, <1>2, <1>3 DEF Tolds

LEMMA PollFailsKeeps ==
  ASSUME FlowKept, PollFails
  PROVE  FlowKept'
<1>0. FlowTypeOK /\ EdgeShape /\ flow.at = "poll" /\ flow.way = "edge" /\ FlowFault
      /\ flow \in Flows /\ edge \in Edges /\ told \in Tolds /\ clock \in Nat /\ flow.interval \in Nat
      /\ told.window \in Nat
  BY DEF FlowKept, FlowInv, FlowShape, FlowTypeOK, PollFails, Flows, Tolds
<1>1. ASSUME NEW says \in {"5xx", "400", "404", "invalid_dpop_proof", "200"},
             flow' = onPoll(says, 0),
             told' = [Asked(says, 0) EXCEPT !.faults = @ + 1, !.refused = says # "5xx",
                        !.lateLoss = clock + flow.interval + 1 > told.window],
             UNCHANGED <<edge, clock>>
      PROVE  FlowKept'
  <2> DEFINE late == clock + flow.interval + 1 > told.window
             r == says # "5xx"
  <2>1. late \in BOOLEAN /\ r \in BOOLEAN /\ (~late => clock + flow.interval + 1 <= told.window)
    BY <1>0
  <2>2. told' = [Asked(says, 0) EXCEPT !.faults = @ + 1, !.refused = r, !.lateLoss = late]
    BY <1>1
  <2>3. says # "5xx" => r
    OBVIOUS
  <2> HIDE DEF late, r
  <2>4. Asked(says, 0).since = clock /\ Asked(says, 0) \in Tolds
    BY <1>0, AskedTyped
  <2>5. told' = [Asked(says, 0) EXCEPT !.faults = @ + 1, !.since = clock, !.refused = r, !.lateLoss = late]
    BY <2>2, <2>4 DEF Tolds
  <2>6. /\ told' \in Tolds /\ told'.named = told.named /\ told'.slow = told.slow /\ told'.since = clock
        /\ told'.usable = told.usable /\ told'.window = told.window /\ told'.lateLoss = late /\ told'.refused = r
    <3>1. says \notin {"authorization_pending", "slow_down", "429"}
      OBVIOUS
    <3> QED
      BY <1>0, <2>1, <2>5, <3>1, LossTyped
  <2>7. CASE says = "5xx"
    <3>1. flow' = onTransient
      BY <1>1, <2>7 DEF onPoll, pollState
    <3>2. told'.lateLoss = FALSE => clock + flow.interval + 1 <= told.window
      BY <2>1, <2>6, Zenon
    <3>3. clock' = clock /\ edge' = edge /\ clock <= clock + requestTimeout
      BY <1>0, <1>1, FlowNumbers
    <3>4. edge.root = "none" => ~edge.live
      BY <1>0 DEF EdgeShape
    <3> QED
      BY <1>0, <2>6, <3>1, <3>2, <3>3, <3>4, TransientKeeps
  <2>8. CASE says # "5xx"
    <3>1. pollState(says) = "pollTerminal"
      BY <2>8 DEF pollState
    <3>2. flow' = Ends(refusal(says))
      BY <1>1, <3>1 DEF onPoll
    <3>3. told'.refused
      BY <2>3, <2>6, <2>8
    <3> QED
      BY <1>0, <1>1, <2>6, <3>1, <3>2, <3>3, RefusedKeeps DEF EdgeShape
  <2> QED
    BY <2>7, <2>8
<1>2. ASSUME NEW kind \in RootKinds,
             edge' = Answered(kind).edge, flow' = onPoll("none", 0), clock' = clock + requestTimeout,
             told' = [Asked("none", 0) EXCEPT
                        !.faults = @ + 1, !.since = clock',
                        !.lateLoss = clock' + flow.interval + 1 > told.window]
      PROVE  FlowKept'
  <2>0. PICK now \in Nat : now = clock + requestTimeout /\ clock' = now
    BY <1>0, <1>2, FlowNumbers
  <2> DEFINE late == now + flow.interval + 1 > told.window
  <2>1. late \in BOOLEAN /\ (~late => now + flow.interval + 1 <= told.window)
    BY <1>0, <2>0
  <2>2. told' = [Asked("none", 0) EXCEPT !.faults = @ + 1, !.since = now, !.lateLoss = late]
    BY <1>2, <2>0
  <2> HIDE DEF late
  <2>3. Asked("none", 0) \in Tolds /\ Asked("none", 0).refused = told.refused /\ told.refused \in BOOLEAN
    BY <1>0, AskedTyped DEF Tolds
  <2>4. told' = [Asked("none", 0) EXCEPT !.faults = @ + 1, !.since = now, !.refused = told.refused, !.lateLoss = late]
    BY <2>2, <2>3 DEF Tolds
  <2>5. /\ told' \in Tolds /\ told'.named = told.named /\ told'.slow = told.slow /\ told'.since = now
        /\ told'.usable = told.usable /\ told'.window = told.window /\ told'.lateLoss = late
    <3>1. "none" \notin {"authorization_pending", "slow_down", "429"}
      OBVIOUS
    <3> QED
      BY <1>0, <2>1, <2>3, <2>4, <3>1, LossTyped
  <2>6. flow' = onTransient
    BY <1>2 DEF onPoll, pollState
  <2>7. edge' \in Edges /\ edge'.expires = edge.expires /\ (edge'.root = "none" => ~edge'.live)
    BY <1>0, <1>2, AnsweredTyped DEF EdgeShape
  <2>8. told'.lateLoss = FALSE => now + flow.interval + 1 <= told.window
    BY <2>1, <2>5, Zenon
  <2>9. clock' = now /\ now <= clock + requestTimeout
    BY <1>0, <2>0, FlowNumbers
  <2> QED
    BY <1>0, <2>5, <2>6, <2>7, <2>8, <2>9, TransientKeeps
<1> QED
  BY <1>1, <1>2 DEF PollFails
LEMMA RevokeKeeps ==
  ASSUME FlowKept, Revoke
  PROVE  FlowKept'
<1>0. FlowTypeOK /\ FlowShape /\ ApprovalKept /\ flow.at = "revoke" /\ flow' = Ends(flow.result) /\ clock' = clock
      /\ flow \in Flows /\ edge \in Edges /\ told \in Tolds /\ clock \in Nat
  BY DEF FlowKept, FlowInv, FlowTypeOK, ApprovalNotWasted, Revoke
<1>1. flow.way = "edge" /\ EdgeShape
  BY <1>0 DEF FlowShape, KeycloakShape, BrowserShape, Flows, Ways
<1>2. /\ flow' \in Flows /\ flow'.at = "done" /\ flow'.way = "edge" /\ flow'.interval = flow.interval
      /\ flow'.result = flow.result /\ flow'.failures = flow.failures
  <2>1. flow.result \in Results
    BY <1>0 DEF Flows
  <2> QED
    BY <1>0, <1>1, <2>1, EndsTyped
<1>3. CASE edge' = [edge EXCEPT !.live = FALSE] /\ UNCHANGED told
  <2>1. edge' \in Edges /\ edge'.live = FALSE
    BY <1>0, <1>3 DEF Edges
  <2>2. ApprovalNotWasted'
    BY <1>0, <1>2, <1>3, <2>1 DEF ApprovalNotWasted, RootRecovered, ApprovalKept
  <2> QED
    BY <1>0, <1>1, <1>2, <1>3, <2>1, <2>2, EdgeOver
<1>4. CASE FlowFault /\ told' = [Hit EXCEPT !.unrevoked = TRUE] /\ UNCHANGED edge
  <2>1. told' \in Tolds /\ told'.unrevoked = TRUE /\ told'.rejected = told.rejected
    <3>1. Hit \in Tolds /\ Hit.rejected = told.rejected
      BY <1>0, <1>4, HitTyped
    <3> QED
      BY <1>4, <3>1 DEF Tolds
  <2>2. ApprovalNotWasted'
    BY <1>0, <1>2, <2>1 DEF ApprovalNotWasted, RootRecovered, ApprovalKept
  <2> QED
    BY <1>0, <1>1, <1>2, <1>4, <2>1, <2>2, EdgeOver DEF EdgeShape
<1> QED
  BY <1>3, <1>4 DEF Revoke

LEMMA ConfirmKeeps ==
  ASSUME FlowKept, Confirm
  PROVE  FlowKept'
<1>0. FlowTypeOK /\ FlowShape /\ flow.at = "confirm" /\ edge' = edge /\ clock' = clock
      /\ flow \in Flows /\ edge \in Edges /\ told \in Tolds /\ clock \in Nat
  BY DEF FlowKept, FlowInv, FlowTypeOK, Confirm
<1>1. flow.way = "edge" /\ EdgeShape /\ flow.interval <= maxInterval
  BY <1>0 DEF FlowShape, FlowTypeOK, KeycloakShape, BrowserShape, Flows, Ways
<1>2. flow.result = "none" /\ flow.failures \in 0..2
  BY <1>0, <1>1 DEF EdgeShape, Flows, maxConsecutiveTransient
<1>3. CASE flow' = Ends("login") /\ UNCHANGED told
  <2>1. flow' \in Flows /\ flow'.at = "done" /\ flow'.way = "edge" /\ flow'.interval = flow.interval /\ flow'.result = "login"
    <3>1. "login" \in Results
      BY DEF Results
    <3> QED
      BY <1>0, <1>1, <1>3, <3>1, EndsTyped
  <2>2. ApprovalNotWasted'
    BY <2>1 DEF ApprovalNotWasted, RootRecovered, ApprovalKept
  <2> QED
    BY <1>0, <1>1, <1>3, <2>1, <2>2, EdgeOver DEF EdgeShape
<1>4. ASSUME NEW transient \in BOOLEAN, FlowFault, told' = [Hit EXCEPT !.rejected = ~transient],
             flow' = IF confirmEdgeRoot(transient) THEN [flow EXCEPT !.failures = @ + 1]
                     ELSE [flow EXCEPT !.at = "revoke", !.failures = @ + 1, !.result = "refused"]
      PROVE  FlowKept'
  <2>1. told' \in Tolds /\ (transient \/ told'.rejected)
    <3>1. Hit \in Tolds
      BY <1>0, <1>4, HitTyped
    <3>2. CASE transient
      BY <1>4, <3>1, <3>2 DEF Tolds
    <3>3. CASE ~transient
      <4>1. told' = [Hit EXCEPT !.rejected = TRUE]
        BY <1>4, <3>3
      <4> QED
        BY <3>1, <4>1 DEF Tolds
    <3> QED
      BY <3>2, <3>3
  <2>2. PICK f \in 0..maxConsecutiveTransient : f = flow.failures + 1
    BY <1>2 DEF maxConsecutiveTransient
  <2>3. /\ flow' \in Flows /\ flow'.way = "edge" /\ flow'.interval = flow.interval
        /\ \/ flow'.at = "confirm" /\ flow'.result = "none" /\ flow'.failures < maxConsecutiveTransient
           \/ /\ flow'.at = "revoke" /\ flow'.failures = f
              /\ flow.failures + 1 >= edgeConfirmAttempts \/ ~transient
    <3>1. CASE confirmEdgeRoot(transient)
      <4>1. flow' = [flow EXCEPT !.failures = f]
        BY <1>4, <2>2, <3>1
      <4>2. f < maxConsecutiveTransient
        BY <1>2, <2>2, <3>1 DEF confirmEdgeRoot, maxConsecutiveTransient, edgeConfirmAttempts
      <4> QED
        BY <1>0, <1>1, <1>2, <2>2, <4>1, <4>2 DEF Flows
    <3>2. CASE ~confirmEdgeRoot(transient)
      <4>1. flow' = [flow EXCEPT !.at = "revoke", !.failures = f, !.result = "refused"]
        BY <1>4, <2>2, <3>2
      <4>2. flow.failures + 1 >= edgeConfirmAttempts \/ ~transient
        BY <1>2, <3>2 DEF confirmEdgeRoot, edgeConfirmAttempts
      <4> QED
        BY <1>0, <1>1, <2>2, <4>1, <4>2 DEF Flows, Results
    <3> QED
      BY <3>1, <3>2
  <2>4. EdgeShape'
    BY <1>0, <1>1, <2>3 DEF EdgeShape, Polling
  <2>5. Paced' /\ FlowEnds' /\ (Polling => told.since <= clock)' /\ RecoveryShape'
    BY <2>3 DEF Paced, FlowEnds, Polling, RecoveryShape
  <2>6. ApprovalNotWasted'
    BY <2>1, <2>2, <2>3 DEF ApprovalNotWasted, RootRecovered, ApprovalKept
  <2> QED
    BY <1>0, <1>1, <2>1, <2>3, <2>4, <2>5, <2>6, EdgeStep
<1> QED
  BY <1>3, <1>4 DEF Confirm

LEMMA DecidesKeeps ==
  ASSUME FlowKept, Decides
  PROVE  FlowKept'
<1>1. PICK s \in {"approved", "denied"} : edge' = [edge EXCEPT !.status = s]
  BY DEF Decides
<1>2. flow' = flow /\ clock' = clock /\ told' = told
  BY DEF Decides
<1>3. edge' \in Edges /\ edge'.root = edge.root /\ edge'.live = edge.live /\ edge'.expires = edge.expires
  BY <1>1 DEF FlowKept, FlowInv, FlowTypeOK, Edges
<1>4. FlowTypeOK'
  BY <1>2, <1>3 DEF FlowKept, FlowInv, FlowTypeOK
<1>5. FlowShape'
  BY <1>2, <1>3 DEF FlowKept, FlowInv, FlowShape, EdgeShape, KeycloakShape, BrowserShape, Polling, Slowed
<1>6. Paced' /\ FlowEnds' /\ BrowserOwn'
  BY <1>2, <1>3 DEF FlowKept, FlowInv, Paced, FlowEnds, BrowserOwn
<1>7. ApprovalNotWasted' /\ RecoveryShape'
  BY <1>2, <1>3 DEF FlowKept, ApprovalNotWasted, RootRecovered, ApprovalKept, RecoveryShape, Polling
<1> QED
  BY <1>4, <1>5, <1>6, <1>7 DEF FlowKept, FlowInv

-----------------------------------------------------------------------------
(* login: Keycloak's device grant *)

LEMMA KeycloakStep ==
  ASSUME FlowKept, flow.way = "keycloak",
         flow' \in Flows, edge' \in Edges, told' \in Tolds, clock' \in Nat, flow'.way = "keycloak",
         KeycloakShape', Paced', (Polling => told.since <= clock)'
  PROVE  FlowKept'
<1>1. FlowEnds'
  <2>1. flow'.deadline \in Nat /\ flow'.interval \in Nat
    BY DEF Flows
  <2> QED
    BY <2>1, FlowNumbers DEF KeycloakShape, FlowEnds, Polling, Later
<1> QED
  BY <1>1 DEF FlowKept, FlowInv, FlowTypeOK, FlowShape, BrowserOwn, KeycloakShape,
              ApprovalNotWasted, RootRecovered, ApprovalKept, RecoveryShape

LEMMA KeycloakOver ==
  ASSUME FlowKept, flow.way = "keycloak", NEW result \in Results \ {"refused"}, flow' = Ends(result),
         edge' \in Edges, told' \in Tolds, clock' \in Nat
  PROVE  FlowKept'
<1>1. FlowTypeOK
  BY DEF FlowKept, FlowInv
<1>2. flow' \in Flows /\ flow'.at = "done" /\ flow'.way = "keycloak" /\ flow'.result # "refused"
  BY <1>1, EndsTyped
<1>3. KeycloakShape' /\ Paced' /\ (Polling => told.since <= clock)'
  BY <1>2 DEF KeycloakShape, Paced, Polling
<1> QED
  BY <1>2, <1>3, KeycloakStep

LEMMA DeviceIssueKeeps ==
  ASSUME FlowKept, DeviceIssue
  PROVE  FlowKept'
<1>0. FlowTypeOK /\ KeycloakShape /\ flow.at = "issue" /\ flow.way = "keycloak" /\ clock' = clock
      /\ flow \in Flows /\ edge \in Edges /\ told \in Tolds /\ clock \in Nat
  BY DEF FlowKept, FlowInv, FlowShape, FlowTypeOK, DeviceIssue
<1>1. CASE FlowFault /\ told' = Hit /\ flow' = Ends("unavailable") /\ UNCHANGED edge
  BY <1>0, <1>1, HitTyped, KeycloakOver DEF Results
<1>2. ASSUME NEW iv \in ServerIntervals, NEW life \in ServerLifetimes, NEW interval \in pollIntervals(iv),
             flow' = [flow EXCEPT !.at = "sleep",
                        !.interval = interval,
                        !.deadline = clock + (IF life = 0 THEN deviceLoginCap ELSE Sooner(life, deviceLoginCap))],
             edge' = [status |-> "pending", root |-> "none", live |-> FALSE,
                      expires |-> clock + (IF life = 0 THEN deviceLoginCap ELSE life)],
             told' = [told EXCEPT !.named = iv, !.since = clock]
      PROVE  FlowKept'
  <2>1. iv \in Nat /\ life \in Nat
    BY FlowAssumption
  <2>2. PICK i \in Nat : i = interval /\ i >= iv
    BY <2>1, FlowNumbers DEF pollIntervals
  <2>3. PICK d \in Nat : d = clock + (IF life = 0 THEN deviceLoginCap ELSE Sooner(life, deviceLoginCap)) /\ d >= clock
    BY <1>0, <2>1, FlowNumbers DEF Sooner
  <2>4. /\ flow' \in Flows /\ flow'.at = "sleep" /\ flow'.way = "keycloak" /\ flow'.interval = i
        /\ flow'.deadline = d /\ flow'.result = flow.result
    BY <1>0, <1>2, <2>2, <2>3 DEF Flows
  <2>5. edge' \in Edges
    BY <1>0, <1>2, <2>1, FlowNumbers DEF Edges
  <2>6. told' \in Tolds /\ told'.named = iv /\ told'.since = clock /\ told'.slow = told.slow
    BY <1>0, <1>2, <2>1 DEF Tolds
  <2>7. told'.slow * slowDownStep = 0
    BY <1>0, <2>6, FlowNumbers DEF KeycloakShape
  <2>8. KeycloakShape'
    BY <1>0, <2>2, <2>3, <2>4, <2>6, <2>7 DEF KeycloakShape, Polling, Slowed, Later
  <2>9. Paced' /\ (Polling => told.since <= clock)'
    BY <1>0, <2>4, <2>6 DEF Paced, Polling
  <2> QED
    BY <1>0, <2>4, <2>5, <2>6, <2>8, <2>9, KeycloakStep
<1> QED
  BY <1>1, <1>2 DEF DeviceIssue
LEMMA DeviceWakeKeeps ==
  ASSUME FlowKept, DeviceWake
  PROVE  FlowKept'
<1>0. FlowTypeOK /\ KeycloakShape /\ flow.at = "sleep" /\ flow.way = "keycloak" /\ edge' = edge /\ told' = told
      /\ told.since <= clock /\ flow \in Flows /\ edge \in Edges /\ told \in Tolds /\ clock \in Nat
  BY DEF FlowKept, FlowInv, FlowShape, FlowTypeOK, DeviceWake, Polling
<1>1. CASE clock < flow.deadline
  <2>1. clock' = clock + Later(flow.interval, 1) /\ flow' = [flow EXCEPT !.at = "poll"]
    BY <1>1 DEF DeviceWake
  <2>2. /\ flow' \in Flows /\ flow'.at = "poll" /\ flow'.way = "keycloak" /\ flow'.interval = flow.interval
        /\ flow'.deadline = flow.deadline /\ flow'.result = flow.result
    BY <1>0, <2>1 DEF Flows
  <2>3. PICK s \in Nat : s = told.slow * slowDownStep
    BY <1>0, SlowedOnce DEF Tolds
  <2>4. flow.interval >= s /\ flow.interval >= told.named
    BY <1>0, <2>3 DEF KeycloakShape, Polling, Slowed
  <2>5. flow.interval \in Nat /\ flow.deadline \in Nat /\ told.since \in Nat /\ told.named \in Nat
    BY <1>0 DEF Flows, Tolds
  <2>6. PICK w \in Nat : w = Later(flow.interval, 1) /\ w >= flow.interval /\ w >= 1 /\ clock' = clock + w /\ clock' \in Nat
    BY <1>0, <2>1, <2>4, <2>5 DEF Later
  <2>7. KeycloakShape'
    <3>1. clock' <= flow.deadline + Later(flow.interval, 1)
      BY <1>0, <1>1, <2>5, <2>6
    <3> QED
      BY <1>0, <2>2, <2>3, <2>4, <3>1 DEF KeycloakShape, Polling, Slowed
  <2>8. Paced'
    <3>1. clock' - told.since >= told.named /\ clock' - told.since >= Later(1, s)
      BY <1>0, <2>4, <2>5, <2>6 DEF Later
    <3> QED
      BY <1>0, <2>2, <2>3, <3>1 DEF Paced
  <2>9. told'.since <= clock'
    BY <1>0, <2>5, <2>6
  <2> QED
    BY <1>0, <2>2, <2>6, <2>7, <2>8, <2>9, KeycloakStep
<1>2. CASE ~(clock < flow.deadline)
  <2>1. flow' = Ends("timed_out") /\ clock' = clock /\ "timed_out" \in Results \ {"refused"}
    BY <1>2 DEF DeviceWake, Results
  <2> QED
    BY <1>0, <2>1, KeycloakOver
<1> QED
  BY <1>1, <1>2

LEMMA DevicePollKeeps ==
  ASSUME FlowKept, DevicePoll
  PROVE  FlowKept'
<1>0. FlowTypeOK /\ KeycloakShape /\ flow.at = "poll" /\ flow.way = "keycloak" /\ clock' = clock
      /\ told.since <= clock /\ flow \in Flows /\ edge \in Edges /\ told \in Tolds /\ clock \in Nat
  BY DEF FlowKept, FlowInv, FlowShape, FlowTypeOK, DevicePoll, Polling
<1>1. PICK a : a = Answered("bound")
  OBVIOUS
<1>2. a.edge \in Edges
      /\ a.says \in {"redeemed", "expired_token", "access_denied", "authorization_pending"}
  BY <1>0, <1>1, AnsweredTyped DEF RootKinds
<1>3. PICK s \in Nat : s = told.slow * slowDownStep /\ (told.slow + 1) * slowDownStep = s + slowDownStep
  BY <1>0, SlowedOnce DEF Tolds
<1>4. flow.interval >= s /\ flow.interval >= told.named /\ clock <= flow.deadline + Later(flow.interval, 1)
  BY <1>0, <1>3 DEF KeycloakShape, Polling, Slowed
<1>5. flow.interval \in Nat /\ flow.deadline \in Nat /\ told.named \in Nat /\ told.slow \in Nat
  BY <1>0 DEF Flows, Tolds
\* Still pending, at the same interval or one step longer.
<1>6. ASSUME NEW i \in Nat, flow' = [flow EXCEPT !.at = "sleep", !.interval = i], i >= flow.interval,
             edge' \in Edges, told' \in Tolds, told'.since = clock, told'.named = told.named,
             i >= told'.slow * slowDownStep
      PROVE  FlowKept'
  <2>1. /\ flow' \in Flows /\ flow'.at = "sleep" /\ flow'.way = "keycloak" /\ flow'.interval = i
        /\ flow'.deadline = flow.deadline /\ flow'.result = flow.result
    BY <1>0, <1>6 DEF Flows
  <2>2. i >= told.named /\ clock <= flow.deadline + Later(i, 1)
    BY <1>0, <1>4, <1>5, <1>6 DEF Later
  <2>3. KeycloakShape'
    BY <1>0, <1>6, <2>1, <2>2 DEF KeycloakShape, Polling, Slowed
  <2>4. Paced' /\ (Polling => told.since <= clock)'
    BY <1>0, <1>6, <2>1 DEF Paced, Polling
  <2> QED
    BY <1>0, <1>6, <2>1, <2>3, <2>4, KeycloakStep
<1>7. CASE /\ edge' = a.edge
           /\ flow' = IF a.says = "redeemed" THEN Ends("login")
                      ELSE IF a.says = "authorization_pending" THEN [flow EXCEPT !.at = "sleep"] ELSE Ends(refusal(a.says))
           /\ told' = Asked(a.says, 0)
  <2>1. /\ told' \in Tolds /\ told'.since = clock
        /\ told'.named \in {told.named, Later(told.named, Sooner(seconds(0, 0), maxInterval))}
        /\ told'.slow = told.slow
    BY <1>0, <1>2, <1>7, AskedTyped
  <2>2. told'.named = told.named
    BY <1>5, <2>1, FlowNumbers DEF seconds, Sooner, Later
  <2>3. CASE a.says = "redeemed"
    BY <1>0, <1>2, <1>7, <2>1, <2>3, KeycloakOver DEF Results
  <2>4. CASE a.says = "authorization_pending"
    <3>1. flow' = [flow EXCEPT !.at = "sleep"]
      BY <1>7, <2>4
    <3>2. PICK i \in Nat : i = flow.interval
      BY <1>5
    <3>3. flow' = [flow EXCEPT !.at = "sleep", !.interval = i]
      BY <1>0, <3>1, <3>2 DEF Flows
    <3>4. i >= flow.interval /\ i >= told'.slow * slowDownStep
      BY <1>3, <1>4, <1>5, <2>1, <3>2
    <3> QED
      BY <1>2, <1>6, <1>7, <2>1, <2>2, <3>3, <3>4
  <2>5. CASE a.says \notin {"redeemed", "authorization_pending"}
    <3>1. flow' = Ends(refusal(a.says))
      BY <1>7, <2>5
    <3> QED
      BY <1>0, <1>2, <1>7, <2>1, <3>1, RefusalTyped, KeycloakOver
  <2> QED
    BY <2>3, <2>4, <2>5
<1>8. CASE /\ flow' = [flow EXCEPT !.at = "sleep", !.interval = @ + slowDownStep]
           /\ told' = Asked("slow_down", 0) /\ UNCHANGED edge
  <2>1. /\ told' \in Tolds /\ told'.since = clock
        /\ told'.named \in {told.named, Later(told.named, Sooner(seconds(0, 0), maxInterval))}
        /\ told'.slow = told.slow + 1
    BY <1>0, <1>8, AskedTyped
  <2>2. told'.named = told.named
    BY <1>5, <2>1, FlowNumbers DEF seconds, Sooner, Later
  <2>3. PICK i \in Nat : i = flow.interval + slowDownStep
    BY <1>5, FlowNumbers
  <2>4. flow' = [flow EXCEPT !.at = "sleep", !.interval = i]
    BY <1>8, <2>3
  <2>5. i >= flow.interval /\ i >= told'.slow * slowDownStep
    BY <1>3, <1>4, <1>5, <2>1, <2>3, FlowNumbers
  <2> QED
    BY <1>0, <1>6, <1>8, <2>1, <2>2, <2>4, <2>5
<1>9. CASE /\ FlowFault /\ edge' \in {edge, a.edge}
           /\ flow' = Ends("unavailable")
           /\ told' = [Asked("none", 0) EXCEPT !.faults = @ + 1]
  <2>1. Asked("none", 0) \in Tolds /\ Asked("none", 0).faults = told.faults
    BY <1>0, AskedTyped
  <2>2. told.faults + 1 \in 0..MaxFlowFaults
    BY <1>0, <1>9, FlowNumbers DEF FlowFault, Tolds
  <2>3. told' \in Tolds
    BY <1>9, <2>1, <2>2 DEF Tolds
  <2>4. "unavailable" \in Results \ {"refused"} /\ edge' \in Edges
    BY <1>0, <1>2, <1>9 DEF Results
  <2> QED
    BY <1>0, <1>9, <2>3, <2>4, KeycloakOver
<1> QED
  BY <1>1, <1>7, <1>8, <1>9 DEF DevicePoll

-----------------------------------------------------------------------------
(* login: the browser *)

LEMMA BrowserStep ==
  ASSUME FlowKept, flow.way = "browser",
         flow' \in Flows, told' \in Tolds, edge' = edge, clock' = clock, flow'.way = "browser",
         BrowserShape', BrowserOwn'
  PROVE  FlowKept'
<1>1. clock \in Nat /\ edge \in Edges
  BY DEF FlowKept, FlowInv, FlowTypeOK
<1>2. flow'.at \in {"issue", "exchange", "done"} /\ flow'.result # "refused"
  BY DEF BrowserShape
<1>3. Paced' /\ FlowEnds' /\ (Polling => told.since <= clock)'
  BY <1>2 DEF Paced, FlowEnds, Polling
<1>4. FlowTypeOK' /\ FlowShape'
  BY <1>1, <1>3 DEF FlowTypeOK, FlowShape
<1>5. ApprovalNotWasted' /\ RecoveryShape'
  BY <1>2 DEF ApprovalNotWasted, RootRecovered, ApprovalKept, RecoveryShape
<1> QED
  BY <1>3, <1>4, <1>5 DEF FlowKept, FlowInv

\* The first callback is the one that stays.
LEMMA CallbackKeeps ==
  ASSUME FlowKept, Callback
  PROVE  FlowKept'
<1>0. FlowTypeOK /\ BrowserShape /\ BrowserOwn /\ flow.way = "browser" /\ flow.at \in {"issue", "exchange"}
      /\ FlowFault /\ edge' = edge /\ clock' = clock /\ flow \in Flows /\ told \in Tolds
  BY DEF FlowKept, FlowInv, FlowShape, FlowTypeOK, Callback
<1>1. PICK c \in Callbacks : flow' = deliver(c) /\ told' = [Hit EXCEPT !.first = IF told.faults = 0 THEN c ELSE @]
  BY DEF Callback
<1>2. Hit \in Tolds /\ Hit.faults = told.faults + 1 /\ Hit.first = told.first /\ told.faults \in Nat /\ told.first \in Callbacks
  BY <1>0, HitTyped DEF Tolds
<1>3. told' \in Tolds /\ told'.faults = told.faults + 1 /\ told'.first = (IF told.faults = 0 THEN c ELSE told.first)
  <2>1. PICK f \in Callbacks : f = IF told.faults = 0 THEN c ELSE told.first
    BY <1>2
  <2>2. told' = [Hit EXCEPT !.first = f]
    BY <1>1, <1>2, <2>1
  <2> QED
    BY <1>2, <2>1, <2>2 DEF Tolds
<1>4. told'.faults > 0
  BY <1>2, <1>3
<1>5. CASE flow.delivered
  <2>1. flow' = flow /\ told.faults > 0
    BY <1>0, <1>1, <1>5 DEF deliver, BrowserShape
  <2>2. told'.first = told.first
    BY <1>2, <1>3, <2>1
  <2>3. BrowserShape' /\ BrowserOwn'
    BY <1>0, <1>4, <1>5, <2>1, <2>2 DEF BrowserShape, BrowserOwn
  <2> QED
    BY <1>0, <1>3, <2>1, <2>3, BrowserStep
<1>6. CASE ~flow.delivered
  <2>1. flow' = [flow EXCEPT !.callback = c, !.delivered = TRUE] /\ told.faults = 0
    BY <1>0, <1>1, <1>2, <1>6 DEF deliver, BrowserShape
  <2>2. /\ flow' \in Flows /\ flow'.callback = c /\ flow'.delivered = TRUE /\ flow'.way = "browser"
        /\ flow'.at = flow.at /\ flow'.result = flow.result
    BY <1>0, <2>1 DEF Flows
  <2>3. flow.at = "issue" /\ flow.result = "none"
    BY <1>0, <1>6 DEF BrowserShape
  <2>4. BrowserShape' /\ BrowserOwn'
    BY <1>3, <1>4, <2>1, <2>2, <2>3 DEF BrowserShape, BrowserOwn
  <2> QED
    BY <1>0, <1>3, <2>2, <2>4, BrowserStep
<1> QED
  BY <1>5, <1>6

LEMMA BrowserOver ==
  ASSUME FlowKept, flow.way = "browser", NEW result \in Results \ {"refused", "login"}, flow' = Ends(result),
         edge' = edge, clock' = clock, told' = told
  PROVE  FlowKept'
<1>0. FlowTypeOK /\ BrowserShape /\ BrowserOwn /\ told \in Tolds
  BY DEF FlowKept, FlowInv, FlowShape, FlowTypeOK
<1>1. /\ flow' \in Flows /\ flow'.at = "done" /\ flow'.result = result /\ flow'.way = "browser"
      /\ flow'.callback = flow.callback /\ flow'.delivered = flow.delivered
  BY <1>0, EndsTyped
<1>2. BrowserShape' /\ BrowserOwn'
  BY <1>0, <1>1 DEF BrowserShape, BrowserOwn
<1> QED
  BY <1>0, <1>1, <1>2, BrowserStep

LEMMA ReceiveKeeps ==
  ASSUME FlowKept, Receive
  PROVE  FlowKept'
<1>0. FlowTypeOK /\ BrowserShape /\ BrowserOwn /\ flow.way = "browser" /\ flow.at = "issue"
      /\ edge' = edge /\ clock' = clock /\ told' = told /\ flow \in Flows /\ told \in Tolds
  BY DEF FlowKept, FlowInv, FlowShape, FlowTypeOK, Receive
<1>1. CASE \E r \in {"timed_out", "unavailable", "denied"} : flow' = Ends(r)
  BY <1>0, <1>1, BrowserOver DEF Results
<1>2. CASE flow.delivered /\ flow.callback.state = "own" /\ flow' = [flow EXCEPT !.at = "exchange"]
  <2>1. /\ flow' \in Flows /\ flow'.at = "exchange" /\ flow'.result = flow.result /\ flow'.way = "browser"
        /\ flow'.callback = flow.callback /\ flow'.delivered = flow.delivered
    BY <1>0, <1>2 DEF Flows
  <2>2. BrowserShape' /\ BrowserOwn'
    BY <1>0, <1>2, <2>1 DEF BrowserShape, BrowserOwn
  <2> QED
    BY <1>0, <2>1, <2>2, BrowserStep
<1> QED
  BY <1>1, <1>2 DEF Receive

LEMMA RedeemKeeps ==
  ASSUME FlowKept, Redeem
  PROVE  FlowKept'
<1>0. FlowTypeOK /\ BrowserShape /\ BrowserOwn /\ flow.way = "browser" /\ flow.at = "exchange"
      /\ edge' = edge /\ clock' = clock /\ told' = told /\ flow \in Flows /\ told \in Tolds
  BY DEF FlowKept, FlowInv, FlowShape, FlowTypeOK, Redeem
<1>1. CASE flow' = Ends("unavailable")
  BY <1>0, <1>1, BrowserOver DEF Results
<1>2. ASSUME NEW nonce \in {"own", "other", "empty"}, flow.callback.code = "own",
             flow' = [flow EXCEPT !.at = "done", !.nonce = nonce,
                         !.result = IF nonceMatches(nonce) THEN "login" ELSE "denied"]
      PROVE  FlowKept'
  <2>1. PICK r \in {"login", "denied"} :
          flow' = [flow EXCEPT !.at = "done", !.nonce = nonce, !.result = r] /\ (r = "login" => nonce = "own")
    BY <1>2 DEF nonceMatches
  <2>2. /\ flow' \in Flows /\ flow'.at = "done" /\ flow'.result = r /\ flow'.nonce = nonce /\ flow'.way = "browser"
        /\ flow'.callback = flow.callback /\ flow'.delivered = flow.delivered
    BY <1>0, <2>1 DEF Flows, Results
  <2>3. flow.callback = [state |-> "own", code |-> "own"]
    <3>1. flow.callback \in Callbacks /\ flow.callback.state = "own"
      BY <1>0 DEF Flows, BrowserShape
    <3> QED
      BY <1>2, <3>1 DEF Callbacks
  <2>4. BrowserShape' /\ BrowserOwn'
    BY <1>0, <2>1, <2>2, <2>3 DEF BrowserShape, BrowserOwn
  <2> QED
    BY <1>0, <2>2, <2>4, BrowserStep
<1> QED
  BY <1>1, <1>2 DEF Redeem

-----------------------------------------------------------------------------
(* login: the theorems *)

LEMMA FlowInitKept == FlowInit => FlowKept
<1> SUFFICES ASSUME FlowInit PROVE FlowKept
  OBVIOUS
<1>1. PICK way \in Ways :
        flow = [way |-> way, at |-> "issue", interval |-> 0, deadline |-> 0, failures |-> 0,
                result |-> "none", callback |-> NoCallback, delivered |-> FALSE, nonce |-> "empty"]
  BY DEF FlowInit
<1>2. NoCallback \in Callbacks /\ 0 \in 0..maxConsecutiveTransient /\ 0 \in 0..MaxFlowFaults
  BY FlowNumbers DEF NoCallback, Callbacks, maxConsecutiveTransient
<1>3. flow \in Flows
  BY <1>1, <1>2 DEF Flows, Results
<1>4. edge \in Edges /\ told \in Tolds /\ clock \in Nat
  BY <1>2 DEF FlowInit, Edges, Tolds
<1>5. FlowTypeOK
  BY <1>1, <1>3, <1>4, FlowNumbers DEF FlowTypeOK
<1>6. FlowShape /\ RecoveryShape
  BY <1>1, <1>2 DEF FlowInit, FlowShape, RecoveryShape, EdgeShape, KeycloakShape, BrowserShape, Polling, maxConsecutiveTransient
<1>7. Paced /\ FlowEnds /\ BrowserOwn /\ ApprovalNotWasted
  BY <1>1 DEF Paced, FlowEnds, BrowserOwn, ApprovalNotWasted, RootRecovered, ApprovalKept
<1> QED
  BY <1>5, <1>6, <1>7 DEF FlowKept, FlowInv

LEMMA FlowStepKeeps ==
  ASSUME FlowKept, [FlowNext]_flowVars
  PROVE  FlowKept'
<1>1. CASE FlowNext
  BY <1>1, IssueKeeps, WakeKeeps, PollKeeps, PollFailsKeeps, RevokeKeeps, ConfirmKeeps, DecidesKeeps,
     DeviceIssueKeeps, DeviceWakeKeeps, DevicePollKeeps, CallbackKeeps, ReceiveKeeps, RedeemKeeps
     DEF FlowNext
<1>2. CASE UNCHANGED flowVars
  <2>1. flow' = flow /\ edge' = edge /\ clock' = clock /\ told' = told
    BY <1>2 DEF flowVars
  <2>2. FlowTypeOK' = FlowTypeOK /\ FlowShape' = FlowShape
    BY <2>1 DEF FlowTypeOK, FlowShape, EdgeShape, KeycloakShape, BrowserShape, Polling, Slowed
  <2>3. Paced' = Paced /\ FlowEnds' = FlowEnds /\ BrowserOwn' = BrowserOwn
    BY <2>1 DEF Paced, FlowEnds, BrowserOwn
  <2>4. ApprovalNotWasted' = ApprovalNotWasted /\ RecoveryShape' = RecoveryShape
    BY <2>1 DEF ApprovalNotWasted, RootRecovered, ApprovalKept, RecoveryShape, Polling
  <2> QED
    BY <2>2, <2>3, <2>4 DEF FlowKept, FlowInv
<1> QED
  BY <1>1, <1>2

\* Every login flow is sound for every interval and lifetime the servers may
\* send: no poll comes sooner than the server asked, with its slow_downs counted
\* (Await, nextInterval, DeviceLogin), a flow is over in time, and a browser
\* login's tokens are its own (browserLoginWithScope).
THEOREM LoginSound == FlowSpec => []FlowInv
<1>1. FlowKept => FlowInv
  BY DEF FlowKept
<1> QED
  BY FlowInitKept, FlowStepKeeps, <1>1, PTL DEF FlowSpec

\* What the person approved is not thrown away: a redeemed root reaches the
\* client or is revoked, whichever answers are lost (Await, Revoke), and a bound
\* root is given up only after a refusal or three attempts (confirmEdgeRoot).
THEOREM ApprovalKeeps == FlowSpec => []ApprovalNotWasted
<1>1. FlowKept => ApprovalNotWasted
  BY DEF FlowKept
<1> QED
  BY FlowInitKept, FlowStepKeeps, <1>1, PTL DEF FlowSpec
=============================================================================
