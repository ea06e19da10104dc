--------------------------- MODULE CredentialStore ---------------------------
(***************************************************************************)
(* Several gasworks commands (login, login --edge-device, getToken,        *)
(* rotate-key, whoami, logout) run at once over one profile:               *)
(* credentials.json and edge-session.json under a cross-process lock       *)
(* (internal/store), the DPoP keys in the credential store, which that     *)
(* lock does not cover (internal/keystore, cmd/gasworks/keys.go),          *)
(* Keycloak, the STS and the cli-edge.  Every hold of the lock is one      *)
(* action; everything a command does between two holds interleaves with    *)
(* the other commands.                                                     *)
(*                                                                         *)
(* One org, one product and one credential backend.  A DPoP key is named   *)
(* by the serial of the session or root that was bound to it, so session t *)
(* answers exactly a proof by key t.  A serial of 0 is "none".             *)
(***************************************************************************)
EXTENDS Naturals, FiniteSets, Sequences

CONSTANTS CLIs,        \* the processes
          MaxCommands, \* bound: commands started
          MaxCredFaults, \* bound: crashes, failed writes, failed requests
          MaxLapses    \* bound: expiries and server-side revocations

ASSUME CredAssumption ==
  /\ IsFiniteSet(CLIs)
  /\ MaxCommands \in Nat
  /\ MaxCredFaults \in Nat
  /\ MaxLapses \in Nat

\* Bounds that follow: each command creates at most one generation, two
\* sessions or roots, and one refresh token.
Gens    == 0..(MaxCommands + 2)
Serials == 0..(2 * MaxCommands + 2)
Tokens  == 0..(MaxCommands + 2)
Kinds   == {"human", "edge-device"}
Handles == Kinds \X Gens
Origins == 1..2

VARIABLES creds,     \* credentials.json
          edgeFile,  \* edge-session.json
          keyring,   \* the credential store: handle -> key
          idp,       \* Keycloak: the refresh tokens it honours
          issued,    \* STS sessions and cli-edge roots, by serial
          job,       \* each process's command and what it has read so far
          used,      \* what the bounds have been spent on
          ghost      \* history: what was created, and what faults and races left behind

credVars == <<creds, edgeFile, keyring, idp, issued, job, used, ghost>>

\* The account behind a login: the login that created it.
Nobody    == <<"nobody", 0>>
NoSession == [token |-> 0, fresh |-> FALSE]
NoEIA     == [who |-> Nobody, fresh |-> FALSE]
NoEdge    == [gen |-> 0, root |-> 0]

\* The zero Data: what load returns for a missing or corrupt file.
EmptyData ==
  [id |-> "none", refresh |-> 0, who |-> Nobody, gen |-> 0,
   sessions |-> [g \in Gens |-> NoSession],
   eia |-> [h \in Handles |-> NoEIA]]

Idle == [at |-> "idle", cmd |-> "none", force |-> FALSE, retried |-> FALSE,
         hit |-> FALSE, gen |-> 0, who |-> Nobody, token |-> 0, key |-> 0,
         root |-> 0, orphans |-> {}, oldEdge |-> NoEdge, refresh |-> 0]

-----------------------------------------------------------------------------
(* Documents *)

validCredentialGeneration(g) == g # 0

\* The edge session in force carries the generation credentials.json carries.
activeEdgeSession ==
  /\ edgeFile.root # 0
  /\ validCredentialGeneration(edgeFile.gen)
  /\ edgeFile.gen = creds.gen

hasKeycloakLogin(d) == d.refresh # 0 \/ d.id # "none"

\* Assertions are cached per credential kind and generation.
eiaCacheKeyFor(kind, g) == <<kind, g>>

\* The handle is a hash of the cache key, which names the generation.
sessionKeyHandle(kind, g) == <<kind, g>>

\* dropSessions: the keys of the sessions that leave the document.
orphanedBy(d) ==
  {sessionKeyHandle("human", g) : g \in {h \in Gens : d.sessions[h].token # 0}}

dropped(d) == [d EXCEPT !.sessions = EmptyData.sessions, !.eia = EmptyData.eia]

newCredentialGeneration == ghost.gens + 1

\* ensureCredentialGeneration: a document with no generation gets one, which
\* fences out every session written before it.
stamped(d) ==
  IF validCredentialGeneration(d.gen) THEN d
  ELSE [dropped(d) EXCEPT !.gen = newCredentialGeneration]

\* The file backend: one file per handle, replaced by rename.
Get(h) == keyring[h]
Put(h, key) == [keyring EXCEPT ![h] = key]

loadSessionKey(h) == Get(h)

forget(ring, hs) == [h \in Handles |-> IF h \in hs THEN 0 ELSE ring[h]]

-----------------------------------------------------------------------------
(* Process bookkeeping *)

Set(p, new)   == job' = [job EXCEPT ![p] = new]
Fault         == /\ used.faults < MaxCredFaults
                 /\ used' = [used EXCEPT !.faults = @ + 1]
NoFault       == used' = used
Unavailable(p) == Set(p, [job[p] EXCEPT !.at = "unavailable", !.hit = TRUE])
Changed(p)    == Set(p, [job[p] EXCEPT !.at = "changed"])
Relogin(p, t) == Set(p, [job[p] EXCEPT !.at = "relogin", !.refresh = t])
Kind(p)       == IF job[p].root = 0 THEN "human" ELSE "edge-device"
Fenced(p)     == creds.gen # job[p].gen
Live(t)       == issued[t].live
World         == <<edgeFile, keyring, idp, issued>>

\* A name that did not resolve sent nothing; any other failure of a request
\* that changes state leaves its outcome uncertain.
unresolvedHost(out) == out = "dns"
retryable(out)      == out \in {"dns", "down"}

\* mayCrossOrigin: whether a failure may be taken to the next STS origin.  A
\* provisioning discovery changes state.
mayCrossOrigin(out, changes) == IF changes THEN unresolvedHost(out) ELSE retryable(out)

\* What each origin would answer, and the walk over them in order.
Outcomes == [Origins -> {"ok", "dns", "down", "refused"}]
walk(outs, changes) == IF mayCrossOrigin(outs[1], changes) THEN 2 ELSE 1
answer(outs, changes) == outs[walk(outs, changes)]
replays(outs, changes) ==
  changes /\ Cardinality({i \in 1..walk(outs, changes) : outs[i] # "dns"}) > 1

\* One request to the STS; anything but an answer from the first origin is a fault.
Ask(outs, changes) ==
  /\ IF outs[1] = "ok" THEN NoFault ELSE Fault
  /\ ghost' = [ghost EXCEPT !.replayed = @ \/ replays(outs, changes)]

Start(p, cmd, force) ==
  /\ job[p].at = "idle"
  /\ used.commands < MaxCommands
  /\ force => cmd = "getToken"
  /\ used' = [used EXCEPT !.commands = @ + 1]
  /\ Set(p, [Idle EXCEPT !.cmd = cmd, !.force = force,
        !.at = CASE cmd = "login"      -> "grant"
                 [] cmd = "edgeLogin"  -> "await"
                 [] cmd = "logout"     -> "logout"
                 [] force              -> "invalidate"
                 [] OTHER              -> "snapshot"])
  /\ UNCHANGED <<creds, World, ghost>>

Exit(p) ==
  /\ job[p].at \in {"ok", "changed", "relogin", "unavailable"}
  /\ Set(p, Idle)
  /\ UNCHANGED <<creds, World, used, ghost>>

-----------------------------------------------------------------------------
(* mintEIA and rotate-key over a Keycloak login *)

\* --refresh drops every cached assertion first.
ForceRefresh(p) ==
  /\ job[p].at = "invalidate"
  /\ \/ /\ creds' = [creds EXCEPT !.eia = EmptyData.eia]
        /\ Set(p, [job[p] EXCEPT !.at = "snapshot"])
        /\ NoFault
     \/ /\ Fault
        /\ Unavailable(p)
        /\ UNCHANGED creds
  /\ UNCHANGED <<World, ghost>>

\* loadActiveEdgeSession: both documents under one hold of the lock.
LoadSnapshot(p) ==
  /\ job[p].at = "snapshot"
  /\ \/ /\ ~activeEdgeSession /\ (job[p].cmd = "whoami" => creds.id # "none")
        /\ Set(p, [job[p] EXCEPT !.at = "load"])
     \/ /\ ~activeEdgeSession /\ job[p].cmd = "whoami" /\ creds.id = "none"
        /\ Relogin(p, 0)
     \/ /\ activeEdgeSession /\ job[p].cmd \in {"getToken", "whoami"}
        /\ Set(p, [job[p] EXCEPT !.at = "edge_key", !.gen = edgeFile.gen, !.root = edgeFile.root])
     \/ /\ activeEdgeSession /\ job[p].cmd = "rotate"  \* errEdgeSessionCommand
        /\ Set(p, Idle)
  /\ UNCHANGED <<creds, World, used, ghost>>

\* The token of the optimistic read is not used again.
credential(p, d) ==
  [job[p] EXCEPT !.at = "context", !.gen = d.gen, !.who = d.who, !.refresh = 0]

\* ensureHumanCredential's optimistic read.
EnsureLoad(p) ==
  /\ job[p].at = "load"
  /\ IF creds.id = "fresh" /\ validCredentialGeneration(creds.gen)
       THEN Set(p, credential(p, creds))
       ELSE Set(p, [job[p] EXCEPT !.at = "refresh", !.refresh = creds.refresh])
  /\ UNCHANGED <<creds, World, used, ghost>>

\* The document EnsureRefresh saves, and the keys its stamp orphans.
Saved(p, d) ==
  LET orphans == IF validCredentialGeneration(creds.gen) THEN {} ELSE orphanedBy(creds) IN
  /\ creds' = d
  /\ Set(p, [credential(p, d) EXCEPT !.at = IF orphans = {} THEN "context" ELSE "cleanup",
                                     !.orphans = orphans])

restamped(d, g) ==
  IF validCredentialGeneration(d.gen) THEN g
  ELSE [g EXCEPT !.gens = newCredentialGeneration,
                 !.owner[newCredentialGeneration] = d.who,
                 !.last.gen = newCredentialGeneration]

\* Mutant: redeems the token of the optimistic read.
redeemsRead(p) == job[p].refresh

\* The token ensureHumanCredential redeems: the one it reads under the lock.
redeems(p) == creds.refresh

\* Its locked read-modify-write: re-check, stamp, and refresh while the lock is
\* held, so that the rotated token is saved before anyone else can use it.
EnsureRefresh(p) ==
  /\ job[p].at = "refresh"
  /\ \/ /\ creds.id = "fresh"
        /\ Saved(p, stamped(creds))
        /\ ghost' = restamped(creds, ghost)
        /\ NoFault /\ UNCHANGED idp
     \/ /\ creds.id # "fresh" /\ creds.refresh = 0     \* not logged in
        /\ Relogin(p, 0)
        /\ NoFault /\ UNCHANGED <<creds, idp, ghost>>
     \/ /\ creds.id # "fresh" /\ creds.refresh # 0 /\ redeems(p) \notin idp   \* invalid_grant
        /\ Relogin(p, redeems(p))
        /\ NoFault /\ UNCHANGED <<creds, idp, ghost>>
     \/ /\ creds.id # "fresh" /\ redeems(p) \in idp
        /\ LET rotated == ghost.tokens + 1 IN
           \/ /\ Saved(p, [stamped(creds) EXCEPT !.id = "fresh", !.refresh = rotated])
              /\ idp' = (idp \ {redeems(p)}) \cup {rotated}
              /\ ghost' = [restamped(creds, ghost) EXCEPT !.tokens = rotated]
              /\ NoFault
           \/ /\ Fault                       \* Keycloak unreachable
              /\ Unavailable(p)
              /\ UNCHANGED <<creds, idp, ghost>>
           \/ /\ Fault                       \* rotated, and the write failed
              /\ Unavailable(p)
              /\ idp' = (idp \ {redeems(p)}) \cup {rotated}
              /\ ghost' = [ghost EXCEPT !.tokens = rotated, !.spent = @ \cup {redeems(p)}]
              /\ UNCHANGED creds
  /\ UNCHANGED <<edgeFile, keyring, issued>>

\* Best-effort work after a commit or a failed enrolment: forgetSessionKeys,
\* retireEdgeSession, oidc.Revoke of a replaced refresh token.  A key that could
\* not be deleted and a revocation that did not arrive are not reported.
Cleanup(p) ==
  LET old == job[p].oldEdge
      hs  == job[p].orphans \cup
             (IF old.root = 0 THEN {} ELSE {sessionKeyHandle("edge-device", old.gen)})
  IN
  /\ job[p].at = "cleanup"
  /\ \E kept \in SUBSET hs, lost \in SUBSET {"root", "token"} :
       /\ IF kept = {} /\ lost = {} THEN NoFault ELSE Fault
       /\ keyring' = forget(keyring, hs \ kept)
       /\ idp' = IF "token" \in lost THEN idp ELSE idp \ {job[p].refresh}
       /\ issued' = IF "root" \in lost THEN issued ELSE [issued EXCEPT ![old.root].live = FALSE]
       /\ ghost' = [ghost EXCEPT !.spent = @ \cup {job[p].refresh}, !.stray = @ \cup kept,
                                 !.adrift = @ \cup (IF "root" \in lost THEN {old.root} ELSE {})]
  /\ Set(p, [job[p] EXCEPT !.orphans = {}, !.oldEdge = NoEdge, !.refresh = 0,
        !.at = IF job[p].hit THEN "unavailable"
               ELSE IF job[p].cmd \in {"login", "edgeLogin"} THEN "ok" ELSE "context"])
  /\ UNCHANGED <<creds, edgeFile>>

\* sts.Context (getToken's provisions), then the document is read again and fenced.
Discover(p) ==
  LET cached  == creds.eia[eiaCacheKeyFor("human", job[p].gen)]
      session == creds.sessions[job[p].gen]
      hit     == job[p].cmd = "getToken" /\ ~job[p].force /\ cached.fresh
      changes == job[p].cmd = "getToken"
  IN
  /\ job[p].at = "context"
  /\ \E outs \in Outcomes :
       /\ Ask(outs, changes)
       /\ \/ /\ job[p].cmd = "whoami"        \* prints the claims whatever the STS says
             /\ Set(p, [job[p] EXCEPT !.at = "ok"])
          \/ job[p].cmd # "whoami" /\ answer(outs, changes) # "ok" /\ Unavailable(p)
          \/ job[p].cmd # "whoami" /\ answer(outs, changes) = "ok" /\ Fenced(p) /\ Changed(p)
          \/ /\ job[p].cmd # "whoami" /\ answer(outs, changes) = "ok" /\ ~Fenced(p)
             /\ Set(p, IF hit THEN [job[p] EXCEPT !.at = "ok", !.who = cached.who]
                       ELSE IF job[p].cmd = "getToken" /\ session.fresh
                       THEN [job[p] EXCEPT !.at = "session_key", !.token = session.token]
                       ELSE [job[p] EXCEPT !.at = "sts_login"])
  /\ UNCHANGED <<creds, World>>

\* ensureSession loads the key after the document was read and unlocked.
SessionKey(p) ==
  LET key == loadSessionKey(sessionKeyHandle("human", job[p].gen)) IN
  /\ job[p].at = "session_key"
  /\ \/ /\ NoFault
        /\ Set(p, [job[p] EXCEPT !.key = key, !.at = IF key = 0 THEN "sts_login" ELSE "exchange"])
     \/ /\ Fault                             \* unreadable: a fresh session
        /\ Set(p, [job[p] EXCEPT !.key = 0, !.at = "sts_login"])
  /\ UNCHANGED <<creds, World, ghost>>

\* newSession and rotate-key: a fresh key, and a session bound to it, at the one
\* origin that served discovery (WithSTSBase).
StsLogin(p) ==
  LET t == ghost.serial + 1 IN
  /\ job[p].at = "sts_login"
  /\ \/ /\ ghost' = [ghost EXCEPT !.serial = t]
        /\ issued' = [issued EXCEPT ![t] = [kind |-> "human", who |-> job[p].who, live |-> TRUE]]
        /\ Set(p, [job[p] EXCEPT !.at = "enrol", !.token = t, !.key = t])
        /\ NoFault
     \/ Fault /\ Unavailable(p) /\ UNCHANGED <<issued, ghost>>
  /\ UNCHANGED <<creds, edgeFile, keyring, idp>>

\* The document with the session of this job under its cache key; rotate-key
\* also stops handing out what the superseded session minted.
withSession(p) ==
  [creds EXCEPT !.sessions[job[p].gen] = [token |-> job[p].token, fresh |-> TRUE],
                !.eia = IF job[p].cmd = "rotate" THEN EmptyData.eia ELSE @]

\* The locked write of a new session: fence, enrol the key, replace the entry.
Enrol(p) ==
  LET h == sessionKeyHandle("human", job[p].gen) IN
  /\ job[p].at = "enrol"
  /\ \/ /\ Fenced(p) /\ Changed(p)
        /\ NoFault /\ UNCHANGED <<creds, keyring, ghost>>
     \/ /\ ~Fenced(p)
        /\ creds' = withSession(p)
        /\ keyring' = Put(h, job[p].key)
        /\ Set(p, [job[p] EXCEPT !.at = IF job[p].cmd = "rotate" THEN "ok" ELSE "exchange"])
        /\ NoFault /\ UNCHANGED ghost
     \/ /\ ~Fenced(p) /\ Fault                \* the credential store refused the key
        /\ Unavailable(p)
        /\ UNCHANGED <<creds, keyring, ghost>>
     \/ /\ ~Fenced(p) /\ Fault                \* enrolled, and the document was not written
        /\ keyring' = Put(h, job[p].key)
        /\ ghost' = [ghost EXCEPT !.torn = TRUE]
        /\ Set(p, [job[p] EXCEPT !.at = "cleanup", !.hit = TRUE, !.orphans = {h}])
        /\ UNCHANGED creds
     \/ /\ ~Fenced(p) /\ Fault                \* killed between the two
        /\ keyring' = Put(h, job[p].key)
        /\ ghost' = [ghost EXCEPT !.torn = TRUE, !.stray = @ \cup {h}]
        /\ Set(p, Idle)
        /\ UNCHANGED creds
  /\ UNCHANGED <<edgeFile, idp, issued>>

\* What the STS makes of a session presented with a proof by key.
accepts(t, key) == Live(t) /\ key = t

\* sts.Exchange: one attempt at one origin.  A 401 is answered once, by
\* establishing a new session.
Exchange(p) ==
  /\ job[p].at = "exchange"
  /\ \/ Fault /\ Unavailable(p)
     \/ /\ accepts(job[p].token, job[p].key) /\ NoFault
        /\ Set(p, [job[p] EXCEPT !.at = "cache", !.who = issued[job[p].token].who])
     \/ /\ ~accepts(job[p].token, job[p].key) /\ NoFault
        /\ Set(p, IF job[p].retried THEN [job[p] EXCEPT !.at = "unavailable"]
                  ELSE [job[p] EXCEPT !.at = "sts_login", !.retried = TRUE])
  /\ UNCHANGED <<creds, World, ghost>>

\* Mutant: caches without the fence.
CacheEIAUnfenced(p) ==
  /\ job[p].at = "cache" /\ NoFault
  /\ creds' = [creds EXCEPT !.eia[eiaCacheKeyFor(Kind(p), job[p].gen)] = [who |-> job[p].who, fresh |-> TRUE]]
  /\ Set(p, [job[p] EXCEPT !.at = "ok"])
  /\ UNCHANGED <<World, ghost>>

\* cacheMintedEIA: the fence is checked again before the assertion is cached.
CacheEIA(p) ==
  /\ job[p].at = "cache"
  /\ \/ /\ Fenced(p) /\ Changed(p)
        /\ NoFault /\ UNCHANGED creds
     \/ /\ ~Fenced(p) /\ NoFault
        /\ creds' = [creds EXCEPT !.eia[eiaCacheKeyFor(Kind(p), job[p].gen)] =
                         [who |-> job[p].who, fresh |-> TRUE]]
        /\ Set(p, [job[p] EXCEPT !.at = "ok"])
     \/ /\ ~Fenced(p) /\ Fault
        /\ Unavailable(p) /\ UNCHANGED creds
  /\ UNCHANGED <<World, ghost>>

-----------------------------------------------------------------------------
(* mintEIAWithEdge *)

\* A 401, or a key that is gone: the root is spent and only a new login helps.
EdgeRelogin(p) == Set(p, [job[p] EXCEPT !.at = "relogin"])

\* The same advice for what this command alone met, whatever the root is still
\* worth: a key that cannot be read (edgeKeyUnavailable), a 400 from an STS that
\* does not accept edge sessions or this proof (edgeSessionNotAccepted,
\* edgeProofRejected), an org the root is not pinned to (edgeOrgMismatch).
EdgeRefused(p) == Set(p, [job[p] EXCEPT !.at = "relogin", !.hit = TRUE])

EdgeKey(p) ==
  LET key == loadSessionKey(sessionKeyHandle("edge-device", job[p].gen)) IN
  /\ job[p].at = "edge_key"
  /\ \/ /\ NoFault
        /\ IF key = 0 THEN EdgeRelogin(p) ELSE Set(p, [job[p] EXCEPT !.key = key, !.at = "edge_context"])
     \/ Fault /\ EdgeRefused(p)
  /\ UNCHANGED <<creds, World, ghost>>

\* sts.SessionContext (a read, so any retryable failure crosses), the fenced
\* read of the document, and the cache.
EdgeDiscover(p) ==
  LET cached == creds.eia[eiaCacheKeyFor("edge-device", job[p].gen)] IN
  /\ job[p].at = "edge_context"
  /\ \E outs \in Outcomes :
       /\ Ask(outs, FALSE)
       /\ \/ answer(outs, FALSE) # "ok" /\ Unavailable(p)
          \/ answer(outs, FALSE) = "refused" /\ EdgeRefused(p)
          \/ /\ answer(outs, FALSE) = "ok" /\ accepts(job[p].root, job[p].key)
             /\ job[p].cmd # "whoami" /\ ~Fenced(p)
             /\ EdgeRefused(p)                \* --org or the default names another org
          \/ /\ answer(outs, FALSE) = "ok"
             /\ IF ~accepts(job[p].root, job[p].key) THEN EdgeRelogin(p)
                ELSE IF job[p].cmd = "whoami" THEN Set(p, [job[p] EXCEPT !.at = "ok"])
                ELSE IF Fenced(p) THEN Changed(p)
                ELSE IF ~job[p].force /\ cached.fresh
                THEN Set(p, [job[p] EXCEPT !.at = "ok", !.who = cached.who])
                ELSE Set(p, [job[p] EXCEPT !.at = "edge_exchange"])
  /\ UNCHANGED <<creds, World>>

\* The root is the session: a 401 asks for a new login.
EdgeExchange(p) ==
  /\ job[p].at = "edge_exchange"
  /\ \/ Fault /\ (Unavailable(p) \/ EdgeRefused(p))
     \/ /\ NoFault
        /\ IF accepts(job[p].root, job[p].key)
             THEN Set(p, [job[p] EXCEPT !.at = "cache", !.who = issued[job[p].root].who])
             ELSE EdgeRelogin(p)
  /\ UNCHANGED <<creds, World, ghost>>

-----------------------------------------------------------------------------
(* Signing in and out *)

\* The Keycloak grant of `gasworks login`: a refresh token of a new lineage.
Grant(p) ==
  /\ job[p].at = "grant"
  /\ ghost' = [ghost EXCEPT !.tokens = @ + 1]
  /\ idp' = idp \cup {ghost.tokens + 1}
  /\ Set(p, [job[p] EXCEPT !.at = "commit", !.token = ghost.tokens + 1])
  /\ UNCHANGED <<creds, edgeFile, keyring, issued, used>>

\* The login a commit puts in force.
committed(kind, g, who) ==
  [ghost EXCEPT !.gens = IF g > @ THEN g ELSE @, !.owner[g] = who,
                !.last = [kind |-> kind, gen |-> g], !.overwritten = FALSE]

\* store.Transact with RemoveEdge: credentials.json first, then the unlink.
LoginCommit(p) ==
  LET g    == newCredentialGeneration
      who  == <<"human", job[p].token>>
      data == [dropped(creds) EXCEPT !.id = "fresh", !.refresh = job[p].token, !.gen = g, !.who = who]
      next == [job[p] EXCEPT !.at = "cleanup", !.orphans = orphanedBy(creds), !.oldEdge = edgeFile]
  IN
  /\ job[p].at = "commit"
  /\ \/ /\ creds' = data /\ edgeFile' = NoEdge
        /\ ghost' = committed("human", g, who)
        /\ Set(p, next) /\ NoFault
     \/ /\ Fault                             \* the unlink failed; it is not reported
        /\ creds' = data /\ UNCHANGED edgeFile
        /\ ghost' = committed("human", g, who)
        /\ Set(p, next)
     \/ /\ Fault                             \* the write failed
        /\ Unavailable(p)
        /\ UNCHANGED <<creds, edgeFile, ghost>>
  /\ UNCHANGED <<keyring, idp, issued>>

\* The cli-edge device flow (module DeviceFlow) redeemed an approval: a root
\* bound to the key this process generated.
EdgeAwait(p) ==
  LET r == ghost.serial + 1 IN
  /\ job[p].at = "await"
  /\ ghost' = [ghost EXCEPT !.serial = r]
  /\ issued' = [issued EXCEPT ![r] = [kind |-> "edge-device", who |-> <<"edge-device", r>>, live |-> TRUE]]
  /\ Set(p, [job[p] EXCEPT !.at = "confirm", !.root = r, !.key = r])
  /\ UNCHANGED <<creds, edgeFile, keyring, idp, used>>

\* confirmEdgeRoot and the org checks: nothing local changes before the STS
\* has answered for the root.
EdgeConfirm(p) ==
  /\ job[p].at = "confirm"
  /\ \/ /\ accepts(job[p].root, job[p].key) /\ NoFault
        /\ Set(p, [job[p] EXCEPT !.at = "edge_enrol"])
     \/ /\ IF accepts(job[p].root, job[p].key) THEN Fault ELSE NoFault
        /\ Set(p, [job[p] EXCEPT !.at = "abandon", !.hit = TRUE])
  /\ UNCHANGED <<creds, World, ghost>>

\* The key goes in under the new login's own handle, outside the lock.
EdgeEnrol(p) ==
  LET g == newCredentialGeneration IN
  /\ job[p].at = "edge_enrol"
  /\ \/ /\ keyring' = Put(sessionKeyHandle("edge-device", g), job[p].key)
        /\ ghost' = [ghost EXCEPT !.gens = g, !.owner[g] = issued[job[p].root].who]
        /\ Set(p, [job[p] EXCEPT !.at = "edge_commit", !.gen = g])
        /\ NoFault
     \/ /\ Fault
        /\ Set(p, [job[p] EXCEPT !.at = "abandon", !.hit = TRUE])
        /\ UNCHANGED <<keyring, ghost>>
  /\ UNCHANGED <<creds, edgeFile, idp, issued>>

edgeData(p) == [dropped(creds) EXCEPT !.id = "none", !.refresh = 0, !.gen = job[p].gen,
                                     !.who = issued[job[p].root].who]
edgeRecord(p) == [gen |-> job[p].gen, root |-> job[p].root]
givenUp(p) == [job[p] EXCEPT !.at = "abandon", !.hit = TRUE,
                             !.orphans = {sessionKeyHandle("edge-device", job[p].gen)}]

\* store.Transact with ReplaceEdge: edge-session.json first, fenced out until
\* credentials.json commits its generation; put back, if it can be, when that
\* write fails.
EdgeCommit(p) ==
  /\ job[p].at = "edge_commit"
  /\ \/ /\ edgeFile' = edgeRecord(p) /\ creds' = edgeData(p)
        /\ ghost' = committed("edge-device", job[p].gen, issued[job[p].root].who)
        /\ Set(p, [job[p] EXCEPT !.at = "cleanup", !.orphans = orphanedBy(creds),
                                 !.oldEdge = edgeFile, !.refresh = creds.refresh])
        /\ NoFault
     \/ /\ Fault                             \* a write failed; restoreEdge
        /\ Set(p, givenUp(p))
        /\ UNCHANGED <<creds, edgeFile, ghost>>
     \/ /\ Fault           \* restoreEdge failed too, or killed between the two writes
        /\ edgeFile' = edgeRecord(p) /\ UNCHANGED creds
        /\ ghost' = [ghost EXCEPT !.overwritten = TRUE, !.adrift = @ \cup {edgeFile.root},
                                  !.stray = @ \cup {sessionKeyHandle("edge-device", edgeFile.gen)}]
        /\ Set(p, givenUp(p)) \/ Set(p, Idle)
  /\ UNCHANGED <<keyring, idp, issued>>

\* Mutant: returns the error and leaves the root.
AbandonLive(p) ==
  /\ job[p].at = "abandon"
  /\ keyring' = forget(keyring, job[p].orphans)
  /\ Set(p, [Idle EXCEPT !.at = "unavailable", !.hit = TRUE])
  /\ UNCHANGED <<creds, edgeFile, idp, issued, used, ghost>>

\* Every failure after the redeem revokes the root before returning, if the
\* cli-edge can be reached, and forgets its key, if that can be deleted.
Abandon(p) ==
  /\ job[p].at = "abandon"
  /\ \E kept \in SUBSET job[p].orphans, lost \in BOOLEAN :
       /\ IF kept = {} /\ ~lost THEN NoFault ELSE Fault
       /\ keyring' = forget(keyring, job[p].orphans \ kept)
       /\ issued' = IF lost THEN issued ELSE [issued EXCEPT ![job[p].root].live = FALSE]
       /\ ghost' = [ghost EXCEPT !.stray = @ \cup kept,
                                 !.adrift = @ \cup (IF lost THEN {job[p].root} ELSE {})]
  /\ Set(p, [Idle EXCEPT !.at = "unavailable", !.hit = TRUE])
  /\ UNCHANGED <<creds, edgeFile, idp>>

\* logout reads what it will revoke ...
LogoutSnapshot(p) ==
  /\ job[p].at = "logout"
  /\ Set(p, [job[p] EXCEPT !.at = "revoke", !.refresh = creds.refresh, !.oldEdge = edgeFile])
  /\ UNCHANGED <<creds, World, used, ghost>>

\* ... revokes it, best-effort ...
LogoutRevoke(p) ==
  /\ job[p].at = "revoke"
  /\ Set(p, [job[p] EXCEPT !.at = "purge"])
  /\ \/ /\ idp' = idp \ {job[p].refresh}
        /\ issued' = [issued EXCEPT ![job[p].oldEdge.root].live = FALSE]
        /\ ghost' = [ghost EXCEPT !.spent = @ \cup {job[p].refresh}]
        /\ NoFault
     \/ /\ Fault
        /\ ghost' = [ghost EXCEPT !.adrift = @ \cup {job[p].oldEdge.root}]
        /\ UNCHANGED <<idp, issued>>
  /\ UNCHANGED <<creds, edgeFile, keyring>>

\* ... purges the credential store, outside the lock, as far as it can ...
LogoutPurge(p) ==
  LET held == {h \in Handles : keyring[h] # 0} IN
  /\ job[p].at = "purge"
  /\ \E kept \in SUBSET held :
       /\ IF kept = {} THEN NoFault ELSE Fault
       /\ keyring' = forget(keyring, Handles \ kept)
       /\ ghost' = [ghost EXCEPT !.purged = @ \cup (held \ kept), !.stray = @ \cup kept]
  /\ Set(p, [job[p] EXCEPT !.at = "clear"])
  /\ UNCHANGED <<creds, edgeFile, idp, issued>>

\* ... and clears both documents, credentials.json first.  Whatever another
\* command committed since the snapshot goes with them.
LogoutClear(p) ==
  /\ job[p].at = "clear"
  /\ creds' = EmptyData
  /\ ghost' = [ghost EXCEPT !.last = [kind |-> "none", gen |-> 0],
                            !.adrift = @ \cup {edgeFile.root},
                            !.stray = @ \cup {h \in Handles : keyring[h] # 0}]
  /\ \/ /\ edgeFile' = NoEdge /\ NoFault
        /\ Set(p, [job[p] EXCEPT !.at = "ok"])
     \/ /\ Fault /\ UNCHANGED edgeFile      \* the second unlink failed
        /\ Unavailable(p)
  /\ UNCHANGED <<keyring, idp, issued>>

-----------------------------------------------------------------------------
(* The environment *)

\* A process dies between two of its steps; what only it knew of is adrift.
Kill(p) ==
  /\ job[p].at \notin {"idle", "ok", "changed", "relogin", "unavailable"}
  /\ Fault
  /\ ghost' = [ghost EXCEPT
       !.adrift = @ \cup {job[p].oldEdge.root} \cup (IF job[p].cmd = "edgeLogin" THEN {job[p].root} ELSE {}),
       !.stray  = @ \cup job[p].orphans
                    \cup {sessionKeyHandle("edge-device", job[p].oldEdge.gen)}
                    \cup (IF job[p].cmd = "edgeLogin"
                            THEN {sessionKeyHandle("edge-device", job[p].gen)} ELSE {})]
  /\ Set(p, Idle)
  /\ UNCHANGED <<creds, World>>

\* Time passes, or a server ends a session, a root or a refresh token.
Lapse ==
  /\ used.lapses < MaxLapses
  /\ used' = [used EXCEPT !.lapses = @ + 1]
  /\ \/ /\ creds.id = "fresh"
        /\ creds' = [creds EXCEPT !.id = "stale"] /\ UNCHANGED <<idp, issued, ghost>>
     \/ \E g \in Gens :
          /\ creds.sessions[g].fresh
          /\ creds' = [creds EXCEPT !.sessions[g].fresh = FALSE] /\ UNCHANGED <<idp, issued, ghost>>
     \/ \E h \in Handles :
          /\ creds.eia[h].fresh
          /\ creds' = [creds EXCEPT !.eia[h].fresh = FALSE] /\ UNCHANGED <<idp, issued, ghost>>
     \/ \E t \in Serials :
          /\ Live(t)
          /\ issued' = [issued EXCEPT ![t].live = FALSE]
          /\ ghost' = [ghost EXCEPT !.adrift = @ \cup {t}]
          /\ UNCHANGED <<creds, idp>>
     \/ \E t \in idp :
          /\ idp' = idp \ {t}
          /\ ghost' = [ghost EXCEPT !.spent = @ \cup {t}]
          /\ UNCHANGED <<creds, issued>>
  /\ UNCHANGED <<edgeFile, keyring, job>>

\* bd-enterprise signs in: it shares credentials.json and its lock, and knows
\* nothing of edge-session.json or of this CLI's keys.
BdLogin ==
  LET g == newCredentialGeneration
      t == ghost.tokens + 1
      who == <<"human", t>>
  IN
  /\ used.commands < MaxCommands
  /\ used' = [used EXCEPT !.commands = @ + 1]
  /\ creds' = [dropped(creds) EXCEPT !.id = "fresh", !.refresh = t, !.gen = g, !.who = who]
  /\ idp' = idp \cup {t}
  /\ ghost' = [committed("human", g, who) EXCEPT !.tokens = t, !.stray = @ \cup orphanedBy(creds)]
  /\ UNCHANGED <<edgeFile, keyring, issued, job>>

Commands == {"login", "edgeLogin", "getToken", "rotate", "whoami", "logout"}

\* Logged out; a Keycloak login with a session; one written before
\* generations existed; an edge-device login.
CredInit ==
  /\ job = [p \in CLIs |-> Idle]
  /\ used = [commands |-> 0, faults |-> 0, lapses |-> 0]
  /\ \E kind \in {"none", "human", "legacy", "edge-device"}, id \in {"fresh", "stale"} :
       LET g   == IF kind = "legacy" THEN 0 ELSE 1
           who == IF kind = "edge-device" THEN <<"edge-device", 1>> ELSE <<"human", 1>>
           h   == sessionKeyHandle(IF kind = "edge-device" THEN kind ELSE "human", g)
           keycloak == kind \in {"human", "legacy"}
       IN
       /\ id = "fresh" => keycloak
       /\ creds = IF kind = "none" THEN EmptyData
                  ELSE IF keycloak
                  THEN [EmptyData EXCEPT !.id = id, !.refresh = 1, !.who = who, !.gen = g,
                                         !.sessions[g] = [token |-> 1, fresh |-> TRUE]]
                  ELSE [EmptyData EXCEPT !.who = who, !.gen = g]
       /\ edgeFile = IF kind = "edge-device" THEN [gen |-> g, root |-> 1] ELSE NoEdge
       /\ keyring = [x \in Handles |-> IF kind # "none" /\ x = h THEN 1 ELSE 0]
       /\ idp = IF keycloak THEN {1} ELSE {}
       /\ issued = [t \in Serials |->
                      IF t = 1 /\ kind # "none"
                      THEN [kind |-> IF keycloak THEN "human" ELSE kind, who |-> who, live |-> TRUE]
                      ELSE [kind |-> "none", who |-> Nobody, live |-> FALSE]]
       /\ ghost = [gens |-> 1, serial |-> 1, tokens |-> 1,
                   owner |-> [x \in Gens |-> IF x = g /\ kind # "none" THEN who ELSE Nobody],
                   last |-> [kind |-> IF keycloak THEN "human" ELSE kind,
                             gen |-> IF kind = "none" THEN 0 ELSE g],
                   spent |-> {0}, adrift |-> {0}, stray |-> {}, purged |-> {},
                   torn |-> FALSE, overwritten |-> FALSE, replayed |-> FALSE]

CredStep(p) ==
  \/ \E cmd \in Commands, force \in BOOLEAN : Start(p, cmd, force)
  \/ ForceRefresh(p) \/ LoadSnapshot(p) \/ EnsureLoad(p) \/ EnsureRefresh(p)
  \/ Cleanup(p) \/ Discover(p) \/ SessionKey(p) \/ StsLogin(p) \/ Enrol(p)
  \/ Exchange(p) \/ CacheEIA(p) \/ EdgeKey(p) \/ EdgeDiscover(p) \/ EdgeExchange(p)
  \/ Grant(p) \/ LoginCommit(p) \/ EdgeAwait(p) \/ EdgeConfirm(p) \/ EdgeEnrol(p)
  \/ EdgeCommit(p) \/ Abandon(p) \/ LogoutSnapshot(p) \/ LogoutRevoke(p)
  \/ LogoutPurge(p) \/ LogoutClear(p) \/ Exit(p) \/ Kill(p)

CredNext == Lapse \/ BdLogin \/ \E p \in CLIs : CredStep(p)

CredSpec == CredInit /\ [][CredNext]_credVars

-----------------------------------------------------------------------------
(* Properties *)

Accounts == {Nobody} \cup ({"human"} \X Tokens) \cup ({"edge-device"} \X Serials)
Session  == [token : Serials, fresh : BOOLEAN]
EIA      == [who : Accounts, fresh : BOOLEAN]

\* The documents, the credential store and the servers' records are well formed.
CredTypeOK ==
  /\ creds \in [id : {"none", "fresh", "stale"}, refresh : Tokens, who : Accounts, gen : Gens,
                sessions : [Gens -> Session], eia : [Handles -> EIA]]
  /\ edgeFile \in [gen : Gens, root : Serials]
  /\ keyring \in [Handles -> Serials]
  /\ idp \subseteq Tokens
  /\ \A p \in CLIs : job[p].gen \in Gens /\ job[p].orphans \subseteq Handles

\* CredentialGeneration fences session and assertion writes across login and
\* logout: nothing is stored under a generation other than the document's,
\* nothing stored for one login was minted from another's session, and what a
\* command prints is a token of the login it started from.
CacheFenced ==
  /\ \A g \in Gens : creds.sessions[g].token # 0 =>
       g = creds.gen /\ issued[creds.sessions[g].token].who = creds.who
  /\ \A h \in Handles : creds.eia[h] # NoEIA => h[2] = creds.gen /\ creds.eia[h].who = creds.who
  /\ \A p \in CLIs : job[p].at = "ok" /\ job[p].cmd = "getToken" => job[p].who = ghost.owner[job[p].gen]

\* Two commands establishing the same session never leave it with the other's
\* key; only a write cut between the two stores does.
SessionBound ==
  \A g \in Gens :
    LET t == creds.sessions[g].token IN
    t # 0 => keyring[sessionKeyHandle("human", g)] \in {0, t} \/ ghost.torn

\* The login last committed stays in force until another commits or a logout
\* clears it, however a later one dies: a Keycloak login stays usable, an edge
\* session is at worst signed out, and the two are never in force together.
OneLoginInForce ==
  /\ ghost.last.kind = "human" => creds.gen = ghost.last.gen /\ hasKeycloakLogin(creds)
  /\ ghost.last.kind = "edge-device" =>
       creds.gen = ghost.last.gen /\ (activeEdgeSession \/ ghost.overwritten)
  /\ ghost.last.kind = "none" => creds = EmptyData
  /\ activeEdgeSession => ~hasKeycloakLogin(creds)

\* The refresh token is redeemed and its rotation saved under the lock: over a
\* Keycloak login a command is told to sign in again only when there is none, or
\* the token it redeemed has ended, was revoked or its rotation could not be
\* saved; over an edge session when the root has ended, was superseded or lost
\* its key to a sign-out, or this command itself could not read the key, was
\* answered with a 400 (sessions of this kind, or the proof, not accepted) or
\* was asked for an org the root is not pinned to.
ReloginHonest ==
  \A p \in CLIs : job[p].at = "relogin" =>
    IF job[p].root = 0 THEN job[p].refresh \in ghost.spent
    ELSE \/ job[p].hit
         \/ ~Live(job[p].root)
         \/ <<"edge-device", job[p].gen>> \in ghost.purged
         \/ ghost.last.gen # job[p].gen

\* Stale sessions, replaced keys and server-side revocations are repaired by
\* one new session: a command fails only for a fault it met itself, or when the
\* STS has ended that new session too.
FailsOnlyByFault ==
  \A p \in CLIs : job[p].at = "unavailable" =>
    job[p].hit \/ (job[p].retried /\ ~Live(job[p].token))

\* A request that changes state is never sent to a second STS origin once one
\* has been reached.
NeverReplayed == ~ghost.replayed

\* A live cli-edge root is one edge-session.json or a running command knows of;
\* only a kill, a lost revocation, an edge-session.json that could not be put
\* back after a failed commit or a logout that clears a login it did not read
\* leaves one behind.
RootAccounted ==
  \A r \in Serials :
    Live(r) /\ issued[r].kind = "edge-device" /\ r \notin ghost.adrift =>
      \/ edgeFile.root = r
      \/ \E p \in CLIs : r \in {job[p].root, job[p].oldEdge.root}

\* A private key in the credential store belongs to a stored session or root,
\* or to a command that will store or forget it; only a kill, a delete or a purge
\* that failed, an edge-session.json that could not be put back, bd's login or a
\* logout racing an enrolment leaves one behind.
KeyAccounted ==
  \A h \in Handles :
    keyring[h] # 0 /\ h \notin ghost.stray =>
      \/ h[1] = "human" /\ creds.sessions[h[2]].token # 0
      \/ h[1] = "edge-device" /\ edgeFile.root # 0 /\ edgeFile.gen = h[2]
      \/ \E p \in CLIs : \/ h \in job[p].orphans
                         \/ h[1] = "edge-device" /\ h[2] \in {job[p].gen, job[p].oldEdge.gen}

\* The documents are sound: types, and one login in force that everything cached
\* or enrolled belongs to (Update, Transact, newSession).
CredInv == CredTypeOK /\ CacheFenced /\ SessionBound /\ OneLoginInForce

\* A command tells its user the truth and repairs what it can: no needless
\* sign-in, no failure without a fault, no request sent twice (ensureIDToken,
\* getToken, mayCrossOrigin).
CommandsHonest == ReloginHonest /\ FailsOnlyByFault /\ NeverReplayed

\* No cli-edge root and no DPoP key is left where nobody can revoke or erase it,
\* but for what the two parts except (abandon, logout, orphanedBy).
NothingStranded == RootAccounted /\ KeyAccounted
=============================================================================
