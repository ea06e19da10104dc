------------------------------ MODULE DeviceFlow ------------------------------
(***************************************************************************)
(* The three ways `gasworks login` obtains a credential: the cli-edge       *)
(* device flow (internal/edgedevice and confirmEdgeRoot in                  *)
(* cmd/gasworks/edge.go), Keycloak's device grant and the browser loopback  *)
(* (internal/oidc).  Time is a clock in ticks; a sleep and a lost answer    *)
(* take time, an answer that arrives takes none.  The cli-edge, the STS,    *)
(* Keycloak and the person who approves are modelled by what the client's   *)
(* code and comments rely on.                                               *)
(***************************************************************************)
EXTENDS Naturals

CONSTANTS minInterval, defaultInterval, maxInterval, slowDownStep, maxSeconds,
          defaultLifetime, maxLifetime, expiryGrace, requestTimeout,
          deviceLoginCap,
          ServerIntervals, ServerLifetimes, \* numbers a server may send; 0: absent
          MaxFlowFaults                     \* bound: lost, refused and failed requests

\* The client's own numbers: the interval it falls back to is one it would
\* honour, and a lifetime it honours is one it can read.
ASSUME FlowAssumption ==
  /\ {minInterval, defaultInterval, maxInterval, slowDownStep, maxSeconds, defaultLifetime,
      maxLifetime, expiryGrace, requestTimeout, deviceLoginCap, MaxFlowFaults} \subseteq Nat
  /\ ServerIntervals \subseteq Nat /\ ServerLifetimes \subseteq Nat
  /\ 0 < minInterval /\ minInterval <= defaultInterval /\ defaultInterval <= maxInterval
  /\ maxLifetime <= maxSeconds

maxConsecutiveTransient == 3
edgeConfirmAttempts     == 3

VARIABLES flow,    \* the client
          edge,    \* the server's device authorization, and the root it minted
          clock,   \* now
          told     \* history: what the server asked for and what was lost

flowVars == <<flow, edge, clock, told>>

Ways      == {"edge", "keycloak", "browser"}
RootKinds == {"bound", "unbound", "oversize", "unnameable"}
Later(a, b)  == IF a > b THEN a ELSE b
Sooner(a, b) == IF a < b THEN a ELSE b

\* One request too many failed, was refused or was lost.
FlowFault == told.faults < MaxFlowFaults
Hit       == [told EXCEPT !.faults = @ + 1]

Ends(result) == [flow EXCEPT !.at = "done", !.result = result]

-----------------------------------------------------------------------------
(* Numbers from the server *)

\* A whole number of seconds up to an hour, or the default.
seconds(v, def) == IF v \in 1..maxSeconds THEN v ELSE def

clampInterval(d) ==
  IF d = 0 THEN defaultInterval ELSE Sooner(Later(d, minInterval), maxInterval)

lifetime(v) ==
  LET d == seconds(v, 0) IN IF d = 0 \/ d > maxLifetime THEN defaultLifetime ELSE d

\* Mutant: takes the interval of the last answer.
nextIntervalLast(current, server, slowDown) ==
  clampInterval(IF server > 0 THEN server ELSE IF slowDown THEN current + slowDownStep ELSE current)

\* A larger server interval is honoured on every answer, and polling never
\* gets faster; slow_down adds a step of its own.
nextInterval(current, server, slowDown) ==
  clampInterval(Later(IF slowDown THEN current + slowDownStep ELSE current, server))

-----------------------------------------------------------------------------
(* The cli-edge, and the person *)

\* The server's side of a poll: it redeems an approved authorization by minting
\* a root, and replays the committed result until the grace has passed.
Answered(kind) ==
  IF edge.root # "none"
    THEN [edge |-> edge, says |-> IF clock <= edge.expires + expiryGrace THEN "redeemed" ELSE "expired_token"]
  ELSE IF clock > edge.expires THEN [edge |-> edge, says |-> "expired_token"]
  ELSE IF edge.status = "approved"
    THEN [edge |-> [edge EXCEPT !.root = kind, !.live = TRUE], says |-> "redeemed"]
  ELSE IF edge.status = "denied" THEN [edge |-> edge, says |-> "access_denied"]
  ELSE [edge |-> edge, says |-> "authorization_pending"]

Decides ==
  /\ flow.at # "done" /\ edge.status = "pending"
  /\ \E s \in {"approved", "denied"} : edge' = [edge EXCEPT !.status = s]
  /\ UNCHANGED <<flow, clock, told>>

-----------------------------------------------------------------------------
(* edgedevice: Issue, Await, Revoke *)

classifyIssue(status) ==
  CASE status \in {"404", "405"}  -> "not_enabled"
    [] status = "429"             -> "rate_limited"
    [] status = "400"             -> "invalid_request"
    [] status \in {"none", "5xx"} -> "unavailable"
    [] OTHER                      -> "protocol"

\* Mutant: stops when the code expires.
parseAuthorizationNoGrace(iv, life) ==
  [flow EXCEPT !.at = "sleep",
               !.interval = clampInterval(seconds(iv, defaultInterval)),
               !.deadline = clock + lifetime(life)]

\* parseAuthorization: the answer's numbers clamped; a code or a verification
\* URI that cannot be shown is a protocol error.
parseAuthorization(iv, life) ==
  [flow EXCEPT !.at = "sleep",
               !.interval = clampInterval(seconds(iv, defaultInterval)),
               !.deadline = clock + lifetime(life) + expiryGrace]

\* Opens the authorization; its lifetime is counted from before the request.
Issue ==
  /\ flow.at = "issue" /\ flow.way = "edge"
  /\ \/ \E iv \in ServerIntervals, life \in ServerLifetimes, took \in 0..1 :
          /\ flow' = parseAuthorization(iv, life)
          /\ clock' = clock + took
          /\ edge' = [status |-> "pending", root |-> "none", live |-> FALSE,
                      expires |-> clock + took + (IF life = 0 THEN defaultLifetime
                                                  ELSE Sooner(life, maxLifetime))]
          /\ told' = [told EXCEPT !.named = Sooner(seconds(iv, 0), maxInterval),
                                  !.since = clock + took,
                                  !.usable = life \in 1..maxLifetime,
                                  !.window = clock + life + expiryGrace]
     \/ /\ FlowFault /\ told' = Hit
        /\ \E status \in {"404", "405", "429", "400", "none", "5xx", "200"} :
             flow' = Ends(classifyIssue(status))
        /\ UNCHANGED <<edge, clock>>

\* The sleep of Await's loop, which the scheduler may prolong (bound: by one tick), and its deadline.
Wake ==
  /\ flow.at = "sleep" /\ flow.way = "edge"
  /\ \E late \in 0..1 :
       /\ clock' = clock + flow.interval + late
       /\ flow' = IF clock' > flow.deadline THEN Ends("expired") ELSE [flow EXCEPT !.at = "poll"]
  /\ UNCHANGED <<edge, told>>

\* What poll and redeemed make of the answer.
pollState(says) ==
  CASE says = "bound"      -> "pollRedeemed"
    [] says = "unbound"    -> "pollNotKeyBound"
    [] says = "oversize"   -> "pollUnusable"
    [] says = "authorization_pending"         -> "pollPending"
    [] says \in {"slow_down", "429"}          -> "pollSlowDown"
    [] says \in {"none", "5xx"}               -> "pollTransient"
    [] OTHER                                  -> "pollTerminal"

refusal(says) ==
  CASE says = "access_denied" -> "denied"
    [] says = "expired_token" -> "expired"
    [] says = "invalid_dpop_proof" -> "invalid_proof"
    [] says = "400"           -> "invalid_request"
    [] says = "404"           -> "not_enabled"
    [] OTHER                  -> "protocol"

\* A poll without an answer is repeated: if it was the redeem, the next one
\* with the same key recovers the root.
onTransient ==
  IF flow.failures + 1 >= maxConsecutiveTransient
    THEN [Ends("unavailable") EXCEPT !.failures = @ + 1]
    ELSE [flow EXCEPT !.at = "sleep", !.failures = @ + 1]

\* Await's switch over a poll's result.
onPoll(says, iv) ==
  CASE pollState(says) = "pollRedeemed" -> [flow EXCEPT !.at = "confirm", !.failures = 0]
    [] pollState(says) \in {"pollNotKeyBound", "pollUnusable"} ->
         [flow EXCEPT !.at = "revoke", !.result = IF says = "unbound" THEN "not_key_bound" ELSE "protocol"]
    [] pollState(says) \in {"pollPending", "pollSlowDown"} ->
         [flow EXCEPT !.at = "sleep", !.failures = 0,
                      !.interval = nextInterval(@, seconds(iv, 0), pollState(says) = "pollSlowDown")]
    [] pollState(says) = "pollTransient" -> onTransient
    [] OTHER -> Ends(refusal(says))

\* When the last poll was answered, and what the server has asked for until now.
Asked(says, iv) ==
  LET waiting == says \in {"authorization_pending", "slow_down", "429"} IN
  [told EXCEPT !.since = clock,
               !.named = IF waiting THEN Later(@, Sooner(seconds(iv, 0), maxInterval)) ELSE @,
               !.slow = IF says \in {"slow_down", "429"} THEN @ + 1 ELSE @]

\* A poll that is answered.
Poll ==
  /\ flow.at = "poll" /\ flow.way = "edge"
  /\ \E kind \in RootKinds, iv \in ServerIntervals :
       LET a == Answered(kind)
           ending == IF a.says = "redeemed" THEN a.edge.root ELSE a.says
       IN
       /\ kind = "bound" \/ a.edge # edge
       /\ \/ /\ edge' = a.edge
             /\ flow' = onPoll(ending, iv)
             /\ told' = Asked(ending, iv)
          \/ /\ a.says = "authorization_pending"          \* polled too fast for it
             /\ \E says \in {"slow_down", "429"} :
                  flow' = onPoll(says, iv) /\ told' = Asked(says, iv)
             /\ UNCHANGED edge
  /\ UNCHANGED clock

\* A poll that is refused out of hand, or whose answer is lost after the server
\* may have redeemed.
PollFails ==
  /\ flow.at = "poll" /\ flow.way = "edge" /\ FlowFault
  /\ \/ \E says \in {"5xx", "400", "404", "invalid_dpop_proof", "200"} :
          /\ flow' = onPoll(says, 0)
          /\ told' = [Asked(says, 0) EXCEPT !.faults = @ + 1, !.refused = says # "5xx",
                        !.lateLoss = clock + flow.interval + 1 > told.window]
          /\ UNCHANGED <<edge, clock>>
     \/ \E kind \in RootKinds :
          /\ kind = "bound" \/ Answered(kind).edge # edge
          /\ edge' = Answered(kind).edge
          /\ flow' = onPoll("none", 0)
          /\ clock' = clock + requestTimeout
          /\ told' = [Asked("none", 0) EXCEPT
                        !.faults = @ + 1, !.since = clock',
                        !.lateLoss = clock' + flow.interval + 1 > told.window]

\* Revoke is best-effort.
Revoke ==
  /\ flow.at = "revoke"
  /\ flow' = Ends(flow.result)
  /\ \/ edge' = [edge EXCEPT !.live = FALSE] /\ UNCHANGED told
     \/ FlowFault /\ told' = [Hit EXCEPT !.unrevoked = TRUE] /\ UNCHANGED edge
  /\ UNCHANGED clock

-----------------------------------------------------------------------------
(* The login's confirmation of a new root *)

\* Whether a failed confirmation is tried again.
confirmEdgeRoot(transient) == transient /\ flow.failures + 1 < edgeConfirmAttempts

\* The STS is asked about the root before anything local changes; a root that
\* is given up is revoked.
Confirm ==
  /\ flow.at = "confirm"
  /\ \/ flow' = Ends("login") /\ UNCHANGED told
     \/ \E transient \in BOOLEAN :
          /\ FlowFault
          /\ told' = [Hit EXCEPT !.rejected = ~transient]
          /\ flow' = IF confirmEdgeRoot(transient)
                       THEN [flow EXCEPT !.failures = @ + 1]
                       ELSE [flow EXCEPT !.at = "revoke", !.failures = @ + 1, !.result = "refused"]
  /\ UNCHANGED <<edge, clock>>

-----------------------------------------------------------------------------
(* oidc.DeviceLogin *)

\* An interval of 0 that the server does name is kept, and slept as one second.
pollIntervals(iv) == IF iv = 0 THEN {0, defaultInterval} ELSE {iv}

DeviceIssue ==
  /\ flow.at = "issue" /\ flow.way = "keycloak"
  /\ \/ \E iv \in ServerIntervals, life \in ServerLifetimes : \E interval \in pollIntervals(iv) :
          /\ flow' = [flow EXCEPT !.at = "sleep",
                        !.interval = interval,
                        !.deadline = clock + (IF life = 0 THEN deviceLoginCap ELSE Sooner(life, deviceLoginCap))]
          /\ edge' = [status |-> "pending", root |-> "none", live |-> FALSE,
                      expires |-> clock + (IF life = 0 THEN deviceLoginCap ELSE life)]
          /\ told' = [told EXCEPT !.named = iv, !.since = clock]
     \/ FlowFault /\ told' = Hit /\ flow' = Ends("unavailable") /\ UNCHANGED edge
  /\ UNCHANGED clock

\* The loop's condition comes before the sleep, so the last poll may come one
\* interval after the deadline.
DeviceWake ==
  /\ flow.at = "sleep" /\ flow.way = "keycloak"
  /\ IF clock < flow.deadline
       THEN clock' = clock + Later(flow.interval, 1) /\ flow' = [flow EXCEPT !.at = "poll"]
       ELSE flow' = Ends("timed_out") /\ UNCHANGED clock
  /\ UNCHANGED <<edge, told>>

\* Any failure but authorization_pending and slow_down is final.
DevicePoll ==
  /\ flow.at = "poll" /\ flow.way = "keycloak"
  /\ LET a == Answered("bound")
         pending == a.says = "authorization_pending"
     IN
     \/ /\ edge' = a.edge
        /\ flow' = IF a.says = "redeemed" THEN Ends("login")
                   ELSE IF pending THEN [flow EXCEPT !.at = "sleep"] ELSE Ends(refusal(a.says))
        /\ told' = Asked(a.says, 0)
     \/ /\ pending
        /\ flow' = [flow EXCEPT !.at = "sleep", !.interval = @ + slowDownStep]
        /\ told' = Asked("slow_down", 0)
        /\ UNCHANGED edge
     \/ /\ FlowFault /\ edge' \in {edge, a.edge}
        /\ flow' = Ends("unavailable")
        /\ told' = [Asked("none", 0) EXCEPT !.faults = @ + 1]
  /\ UNCHANGED clock

-----------------------------------------------------------------------------
(* oidc.browserLoginWithScope *)

\* A request to the loopback's /callback: whose state it carries and whether it
\* carries a code.  "none" is a request with neither a code nor an error.
Callbacks == [state : {"own", "other", "empty"}, code : {"own", "other", "none", "error"}]
NoCallback == [state |-> "empty", code |-> "none"]

\* sync.Once: the first request is delivered, later ones are answered and dropped.
deliver(c) == IF flow.delivered THEN flow ELSE [flow EXCEPT !.callback = c, !.delivered = TRUE]

\* The loopback serves requests, each in its own goroutine, until the login ends.
Callback ==
  /\ flow.way = "browser" /\ flow.at \in {"issue", "exchange"}
  /\ FlowFault
  /\ \E c \in Callbacks :
       /\ flow' = deliver(c)
       /\ told' = [Hit EXCEPT !.first = IF told.faults = 0 THEN c ELSE @]
  /\ UNCHANGED <<edge, clock>>

\* The checks on what was delivered, or the timeout.
Receive ==
  /\ flow.way = "browser" /\ flow.at = "issue"
  /\ \/ flow' = Ends("timed_out")
     \/ /\ flow.delivered
        /\ flow' = IF flow.callback.code = "error" THEN Ends("unavailable")
                   ELSE IF flow.callback.code = "none" THEN Ends("timed_out")
                   ELSE IF flow.callback.state # "own" THEN Ends("denied")
                   ELSE [flow EXCEPT !.at = "exchange"]
  /\ UNCHANGED <<edge, clock, told>>

nonceMatches(nonce) == nonce = "own"

\* The code is exchanged with this login's verifier, which Keycloak accepts for
\* this login's code only; the id_token's nonce is then compared.  An exchange
\* that is refused or gets no answer ends the login.
Redeem ==
  /\ flow.way = "browser" /\ flow.at = "exchange"
  /\ \/ /\ flow.callback.code = "own"
        /\ \E nonce \in {"own", "other", "empty"} :
             flow' = [flow EXCEPT !.at = "done", !.nonce = nonce,
                        !.result = IF nonceMatches(nonce) THEN "login" ELSE "denied"]
     \/ flow' = Ends("unavailable")
  /\ UNCHANGED <<edge, clock, told>>

-----------------------------------------------------------------------------

FlowInit ==
  /\ \E way \in Ways :
       flow = [way |-> way, at |-> "issue", interval |-> 0, deadline |-> 0, failures |-> 0,
               result |-> "none", callback |-> NoCallback, delivered |-> FALSE, nonce |-> "empty"]
  /\ edge = [status |-> "none", root |-> "none", live |-> FALSE, expires |-> 0]
  /\ clock = 0
  /\ told = [faults |-> 0, named |-> 0, slow |-> 0, since |-> 0, usable |-> FALSE, window |-> 0,
             refused |-> FALSE, lateLoss |-> FALSE, unrevoked |-> FALSE, rejected |-> FALSE,
             first |-> NoCallback]

FlowNext ==
  \/ Issue \/ Wake \/ Poll \/ PollFails \/ Revoke \/ Confirm \/ Decides
  \/ DeviceIssue \/ DeviceWake \/ DevicePoll
  \/ Callback \/ Receive \/ Redeem

FlowSpec == FlowInit /\ [][FlowNext]_flowVars

-----------------------------------------------------------------------------
(* Properties *)

Results == {"none", "login", "not_enabled", "rate_limited", "invalid_request", "unavailable",
            "protocol", "expired", "denied", "invalid_proof", "not_key_bound", "refused", "timed_out"}

Flows ==
  [way : Ways, at : {"issue", "sleep", "poll", "confirm", "revoke", "exchange", "done"},
   interval : Nat, deadline : Nat, failures : 0..maxConsecutiveTransient, result : Results,
   callback : Callbacks, delivered : BOOLEAN, nonce : {"own", "other", "empty"}]
Edges ==
  [status : {"none", "pending", "approved", "denied"}, root : RootKinds \cup {"none"},
   live : BOOLEAN, expires : Nat]
Tolds ==
  [faults : 0..MaxFlowFaults, named : Nat, slow : Nat, since : Nat, usable : BOOLEAN, window : Nat,
   refused : BOOLEAN, lateLoss : BOOLEAN, unrevoked : BOOLEAN, rejected : BOOLEAN, first : Callbacks]

\* The client's and the server's records are well formed, and an edge-device
\* flow's interval stays within what the client will honour.
FlowTypeOK ==
  /\ flow \in Flows /\ edge \in Edges /\ told \in Tolds /\ clock \in Nat
  /\ flow.way = "edge" => flow.interval <= maxInterval

\* No poll comes sooner after the last answer than any interval the server has
\* named so far, or than its slow_downs add up to.
Paced ==
  flow.at = "poll" =>
    LET gap == clock - told.since IN
    /\ gap >= told.named
    /\ gap >= (IF flow.way = "edge" THEN Sooner(maxInterval, minInterval + told.slow * slowDownStep)
               ELSE Later(1, told.slow * slowDownStep))

\* A redeem whose answer was lost is recovered by the polls that follow, and a
\* root the client will not keep is revoked.  A login ends with a live root it
\* does not hold only if three answers in a row were lost, the one that was
\* lost came too late for another poll before the replay window closes, the
\* server refused the next poll, did not name a usable lifetime or a token that
\* can be presented, or the revocation was lost.
RootRecovered ==
  flow.way = "edge" /\ flow.at = "done" /\ edge.live /\ flow.result # "login" =>
    \/ flow.failures >= maxConsecutiveTransient
    \/ told.lateLoss \/ told.refused \/ told.unrevoked \/ ~told.usable
    \/ edge.root = "unnameable"

\* An approved device costs the person a fresh sign-in: a bound root that was
\* redeemed is given up only after a definitive refusal by the STS or three
\* attempts without an answer.
ApprovalKept ==
  flow.result = "refused" => told.rejected \/ flow.failures >= edgeConfirmAttempts

\* A device login ends: it never runs on for more than one interval and one
\* request past the lifetime the server gave the code.
FlowEnds ==
  flow.at \in {"sleep", "poll"} => clock <= flow.deadline + Later(flow.interval, 1) + requestTimeout

\* A browser login's tokens come from the first callback, which carried this
\* login's state, and from an id_token with this login's nonce; a later callback
\* never replaces the one being checked.
BrowserOwn ==
  /\ flow.way = "browser" /\ flow.delivered => flow.callback = told.first
  /\ flow.way = "browser" /\ flow.result = "login" =>
       flow.callback = [state |-> "own", code |-> "own"] /\ flow.nonce = "own"

Polling == flow.at \in {"sleep", "poll"}
\* What the slow_downs add up to.
Slowed == told.slow * slowDownStep

\* The cli-edge flow between its steps: the interval carries everything the
\* server asked for, and a poll comes before the deadline.
EdgeShape ==
  /\ flow.at # "exchange" /\ (edge.root = "none" => ~edge.live)
  /\ flow.at = "issue" => edge.root = "none" /\ told.slow = 0 /\ told.named = 0
  /\ flow.at \in {"issue", "sleep", "poll", "confirm"} =>
       flow.result = "none" /\ flow.failures < maxConsecutiveTransient
  /\ Polling =>
       /\ flow.interval \in minInterval..maxInterval /\ flow.interval >= told.named
       /\ flow.interval >= Sooner(maxInterval, minInterval + Slowed)
  /\ flow.at = "poll" => clock <= flow.deadline

\* Keycloak's device grant: the same for its interval, which has no ceiling.
KeycloakShape ==
  /\ flow.at \in {"issue", "sleep", "poll", "done"} /\ flow.result # "refused"
  /\ flow.at = "issue" => told.slow = 0 /\ told.named = 0
  /\ Polling =>
       /\ flow.interval >= Slowed /\ flow.interval >= told.named
       /\ clock <= flow.deadline + Later(flow.interval, 1)

\* The browser login: a fault is a callback, and the first one is the one kept.
BrowserShape ==
  /\ flow.at \in {"issue", "exchange", "done"} /\ flow.result # "refused"
  /\ flow.delivered <=> told.faults > 0
  /\ flow.at # "done" => flow.result = "none"
  /\ flow.at = "exchange" => flow.delivered /\ flow.callback.state = "own"

\* Each kind of login at each of its steps (Await, DeviceLogin, BrowserLogin).
FlowShape ==
  /\ flow.way = "edge" => EdgeShape
  /\ flow.way = "keycloak" => KeycloakShape
  /\ flow.way = "browser" => BrowserShape
  /\ Polling => told.since <= clock

\* A flow is sound: types, each step as the ones before it left things, paced as
\* the server asked, over in time, and its own (Await, DeviceLogin, BrowserLogin).
FlowInv == FlowTypeOK /\ FlowShape /\ Paced /\ FlowEnds /\ BrowserOwn

\* What the person approved is not thrown away: a root redeemed at the server
\* reaches the client or is revoked (Await, confirmEdgeRoot).
ApprovalNotWasted == RootRecovered /\ ApprovalKept
=============================================================================
