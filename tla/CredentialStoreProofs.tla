------------------------ MODULE CredentialStoreProofs ------------------------
(***************************************************************************)
(* Proofs about CredentialStore, for any finite set of processes and any   *)
(* number of commands, faults and lapses:                                  *)
(*   DocumentsSound        CredSpec => []CredInv                           *)
(*   CommandsAreHonest     CredSpec => []CommandsHonest                    *)
(*   CredentialsAccounted  CredSpec => []NothingStranded                   *)
(* All three follow from one inductive invariant, StoreInv.  Its parts:    *)
(*   Types      the state's types;                                         *)
(*   Room       counting: generations, tokens and serials never run out;   *)
(*   Jobs       what each command holds at each point of its own code      *)
(*              (JobShape), against what was created (KnownJob) and against *)
(*              the documents and the credential store (PlacedJob);        *)
(*   Apart      what one command alone holds until it commits it;          *)
(*   Documents, InForce   the documents against what was created;          *)
(*   Owned      who answers for each live root and stored key.             *)
(* A step is shown to leave the other commands' parts alone once and for   *)
(* all (Grows, Undisturbed, StepJobs), so each action's lemma is about the *)
(* command that moves.                                                     *)
(***************************************************************************)
EXTENDS CredentialStore, FiniteSetTheorems, TLAPS

-----------------------------------------------------------------------------
(* The invariant *)

\* Where a command can be.
Ats == {"idle", "invalidate", "snapshot", "load", "refresh", "context", "session_key",
        "sts_login", "enrol", "exchange", "cache", "edge_key", "edge_context",
        "edge_exchange", "grant", "commit", "await", "confirm", "edge_enrol",
        "edge_commit", "abandon", "cleanup", "logout", "revoke", "purge", "clear",
        "ok", "changed", "relogin", "unavailable"}

\* credentials.json.
Data == [id : {"none", "fresh", "stale"}, refresh : Tokens, who : Accounts, gen : Gens,
         sessions : [Gens -> Session], eia : [Handles -> EIA]]
\* edge-session.json.
EdgeRecord == [gen : Gens, root : Serials]
\* What the STS and the cli-edge remember of a session or root.
IssuedRecord == [kind : Kinds \cup {"none"}, who : Accounts, live : BOOLEAN]
\* A command and what it has read so far.
Job == [at : Ats, cmd : Commands \cup {"none"}, force : BOOLEAN, retried : BOOLEAN,
        hit : BOOLEAN, gen : Gens, who : Accounts, token : Serials, key : Serials,
        root : Serials, orphans : SUBSET Handles, oldEdge : EdgeRecord, refresh : Tokens]
\* What the bounds have been spent on.
Used == [commands : 0..MaxCommands, faults : 0..MaxCredFaults, lapses : 0..MaxLapses]
\* The history variable.
Ghost == [gens : Gens, serial : Serials, tokens : Tokens, owner : [Gens -> Accounts],
          last : [kind : Kinds \cup {"none"}, gen : Gens], spent : SUBSET Tokens,
          adrift : SUBSET Serials, stray : SUBSET Handles, purged : SUBSET Handles,
          torn : BOOLEAN, overwritten : BOOLEAN, replayed : BOOLEAN]

\* Everything has its type; CredTypeOK is a part of this.
Types ==
  /\ creds \in Data /\ edgeFile \in EdgeRecord /\ keyring \in [Handles -> Serials]
  /\ idp \in SUBSET Tokens /\ issued \in [Serials -> IssuedRecord] /\ job \in [CLIs -> Job]
  /\ used \in Used /\ ghost \in Ghost

\* From a command's start to the credential it will use.
Asking == {"invalidate", "snapshot", "load", "refresh"}
\* A command that may still create a generation ...
Stamps(j) == j.at \in Asking \cup {"await", "confirm", "edge_enrol", "grant", "commit"}
\* ... or a refresh token ...
Redeems(j) == j.at \in Asking \cup {"grant"}
\* A getToken, rotate or whoami whose stamp left keys to forget, after which it
\* goes on to mint.
Returns(j) == j.at = "cleanup" /\ ~j.hit /\ j.cmd \notin {"login", "edgeLogin"}
\* ... or a session or root, once ...
MayBind(j) ==
  \/ j.at \in Asking \cup {"context", "session_key", "sts_login", "await"}
  \/ j.at \in {"enrol", "exchange"} /\ ~j.retried
  \/ Returns(j)
\* ... and a second time, after a 401.
MayRebind(j) ==
  \/ j.at \in Asking \cup {"context", "session_key"}
  \/ j.at = "sts_login" /\ ~j.retried
  \/ Returns(j)
\* What has been created, with what the running commands may still create, is
\* within what the started commands allow: the bounds of Gens, Serials and Tokens
\* are never met, whatever the order.
Room ==
  /\ ghost.gens + Cardinality({p \in CLIs : Stamps(job[p])}) <= used.commands + 1
  /\ ghost.tokens + Cardinality({p \in CLIs : Redeems(job[p])}) <= used.commands + 1
  /\ ghost.serial + Cardinality({p \in CLIs : MayBind(job[p])})
       + Cardinality({p \in CLIs : MayRebind(job[p])}) <= 2 * used.commands + 1

\* From the credential to the assertion, over a Keycloak login.
Minting == {"context", "session_key", "sts_login", "enrol", "exchange"}
\* The same over an edge session.
Reading == {"edge_key", "edge_context", "edge_exchange"}
\* From the redeemed root to its commit or its revocation.
Enrolling == {"confirm", "edge_enrol", "edge_commit", "abandon"}
\* The handle of an edge root's key.
EdgeKeyOf(g) == <<"edge-device", g>>

\* What a command holds at each point, whatever the others do.
JobShape(j) ==
  /\ j.at \in Asking \cup Minting \/ Returns(j) =>
       j.root = 0 /\ j.cmd \in {"getToken", "rotate", "whoami"} /\ j.oldEdge = NoEdge
  /\ j.at \in Minting \cup Reading \cup {"cache", "edge_commit"} => j.gen # 0
  /\ j.at \in {"sts_login", "enrol"} => j.cmd # "whoami"
  /\ j.at \in {"session_key", "exchange"} => j.cmd = "getToken"
  /\ j.at \in Reading => j.root # 0 /\ j.cmd \in {"getToken", "whoami"}
  /\ j.at \in {"edge_context", "edge_exchange"} => j.key = j.root
  /\ Returns(j) => j.gen # 0 /\ ~j.retried
  /\ j.at = "cleanup" => \A h \in j.orphans : h[1] = "human"
  /\ j.at \in Enrolling \cup {"await"} => j.cmd = "edgeLogin" /\ j.oldEdge = NoEdge
  /\ j.at \in {"await", "confirm", "edge_enrol"} => j.gen = 0 /\ j.orphans = {}
  /\ j.at \in Enrolling => j.root # 0 /\ j.orphans \subseteq {EdgeKeyOf(j.gen)}
  /\ j.at \in {"confirm", "edge_enrol", "edge_commit"} => j.key = j.root /\ j.orphans = {}
  /\ j.at = "abandon" /\ j.orphans # {} => j.gen # 0
  /\ j.at \in {"grant", "commit"} => j.cmd = "login"
  /\ j.at = "commit" => j.token # 0
  /\ j.at \in {"logout", "revoke", "purge", "clear"} => j.cmd = "logout"
  /\ j.at \in Asking \cup {"context", "session_key", "grant"} => ~j.retried
  /\ j.at = "enrol" => j.key = j.token /\ j.token # 0
  /\ j.at = "exchange" /\ j.retried => j.key = j.token

\* What a command holds, against what was created: nothing it names is of the
\* future, the login it started from owns what it was given, and an outcome it
\* reports has its reason.
KnownJob(j) ==
  /\ j.gen <= ghost.gens /\ j.oldEdge.gen <= ghost.gens /\ j.root <= ghost.serial
  /\ j.retried \/ j.at \in {"session_key", "enrol", "exchange"} => j.token <= ghost.serial
  /\ j.at \in Minting \cup {"cache"} \/ Returns(j) => j.who = ghost.owner[j.gen]
  /\ j.at = "ok" /\ j.cmd = "getToken" => j.who = ghost.owner[j.gen]
  /\ j.at \in {"session_key", "enrol", "exchange"} => issued[j.token].who = ghost.owner[j.gen]
  /\ j.at \in Reading \cup {"edge_commit"} => issued[j.root].who = ghost.owner[j.gen]
  /\ j.at = "unavailable" => j.hit \/ (j.retried /\ ~Live(j.token))
  /\ j.at = "relogin" /\ j.root = 0 => j.refresh \in ghost.spent

\* What a command holds, against the documents and the credential store: an edge
\* session it uses is not a Keycloak login's, what it will forget or revoke is not
\* the login in force, and the login it will commit is not yet known to anyone.
PlacedJob(j) ==
  /\ j.at \in Reading \/ (j.at = "relogin" /\ j.root # 0) =>
       j.gen # 0 /\ (ghost.last.gen = j.gen => ghost.last.kind = "edge-device")
  /\ j.at \in {"edge_key", "edge_commit"} => keyring[EdgeKeyOf(j.gen)] \in {0, j.root}
  /\ j.at = "edge_commit" =>
       /\ j.gen # creds.gen /\ j.gen # edgeFile.gen
       /\ keyring[EdgeKeyOf(j.gen)] # 0 \/ EdgeKeyOf(j.gen) \in ghost.purged
  /\ j.at = "abandon" /\ j.gen # 0 => j.gen # ghost.last.gen
  /\ j.at = "cleanup" /\ j.oldEdge.root # 0 => j.oldEdge.gen # 0 /\ j.oldEdge.gen # ghost.last.gen
  /\ j.at = "relogin" /\ j.root # 0 =>
       j.hit \/ ~Live(j.root) \/ EdgeKeyOf(j.gen) \in ghost.purged \/ ghost.last.gen # j.gen
  /\ j.at = "commit" => j.token <= ghost.tokens /\ j.token # creds.refresh /\ j.token \in idp \cup ghost.spent

\* No two commands hold the generation or the refresh token of one login that is
\* about to be committed.
Apart ==
  \A p, q \in CLIs : p # q =>
    /\ job[q].at = "edge_commit" =>
         job[p].gen # job[q].gen /\ job[p].oldEdge.gen # job[q].gen
    /\ job[p].at = "commit" /\ job[q].at = "commit" => job[p].token # job[q].token

\* What the documents name was created, and is of the login they carry.
Documents ==
  /\ creds.gen = ghost.last.gen /\ creds.gen <= ghost.gens /\ edgeFile.gen <= ghost.gens
  /\ edgeFile.root <= ghost.serial
  /\ creds.refresh <= ghost.tokens /\ creds.refresh \in idp \cup ghost.spent
  /\ 0 \in ghost.spent /\ 0 \notin idp /\ \A t \in idp : t <= ghost.tokens
  /\ \A t \in Serials : t = 0 \/ t > ghost.serial => issued[t].kind = "none" /\ ~Live(t)
  /\ creds.gen # 0 => ghost.owner[creds.gen] = creds.who
  /\ \A g \in Gens : /\ creds.sessions[g].fresh => creds.sessions[g].token # 0
                     /\ creds.sessions[g].token # 0 =>
                          /\ g = creds.gen /\ creds.sessions[g].token <= ghost.serial
                          /\ issued[creds.sessions[g].token].who = creds.who
  /\ \A h \in Handles : creds.eia[h] # NoEIA => h[2] = creds.gen /\ creds.eia[h].who = creds.who
  /\ SessionBound

\* The login last committed is the one the documents put in force, and an edge
\* session's key is its own, or was erased by a sign-out.
InForce ==
  /\ ghost.last.kind = "human" => hasKeycloakLogin(creds) /\ ~activeEdgeSession
  /\ ghost.last.kind = "edge-device" =>
       /\ creds.gen # 0 /\ ~hasKeycloakLogin(creds) /\ (activeEdgeSession \/ ghost.overwritten)
       /\ keyring[EdgeKeyOf(creds.gen)] # 0 \/ EdgeKeyOf(creds.gen) \in ghost.purged
  /\ ghost.last.kind = "none" => creds = EmptyData
  /\ edgeFile.root # 0 =>
       /\ edgeFile.gen # 0 /\ keyring[EdgeKeyOf(edgeFile.gen)] \in {0, edgeFile.root}
       /\ ghost.owner[edgeFile.gen] = issued[edgeFile.root].who

\* A command that will commit or revoke root r.
OwnsRoot(j, r) ==
  \/ j.at \in Enrolling /\ j.root = r
  \/ j.at = "cleanup" /\ j.oldEdge.root = r

\* A command that will commit or forget the key under h.
OwnsKey(j, h) ==
  \/ j.at \in {"cleanup", "abandon"} /\ h \in j.orphans
  \/ /\ h[1] = "edge-device"
     /\ \/ j.at = "edge_commit" /\ j.gen = h[2]
        \/ j.at = "cleanup" /\ j.oldEdge.root # 0 /\ j.oldEdge.gen = h[2]

\* A key the documents know of.
StoredKey(h) ==
  \/ h[1] = "human" /\ creds.sessions[h[2]].token # 0
  \/ h[1] = "edge-device" /\ edgeFile.root # 0 /\ edgeFile.gen = h[2]

\* Every live root and every stored key has an owner, unless a kill, a lost
\* revocation or a racing logout left it behind.
Owned ==
  /\ \A r \in Serials :
       Live(r) /\ issued[r].kind = "edge-device" /\ r \notin ghost.adrift =>
         edgeFile.root = r \/ \E p \in CLIs : OwnsRoot(job[p], r)
  /\ \A h \in Handles :
       keyring[h] # 0 /\ h \notin ghost.stray =>
         StoredKey(h) \/ \E p \in CLIs : OwnsKey(job[p], h)

\* Every command's part of the invariant.
Jobs == \A p \in CLIs : JobShape(job[p]) /\ KnownJob(job[p]) /\ PlacedJob(job[p])

\* The inductive invariant.
StoreInv == Types /\ Room /\ Jobs /\ Apart /\ Documents /\ InForce /\ Owned /\ ~ghost.replayed

\* Handles are pairs of a kind and a generation.
LEMMA HandleFacts ==
  /\ \A h \in Handles : h[1] \in Kinds /\ h[2] \in Gens /\ h = <<h[1], h[2]>>
  /\ \A g \in Gens : /\ <<"human", g>> \in Handles /\ EdgeKeyOf(g) \in Handles
                     /\ EdgeKeyOf(g) = <<"edge-device", g>>
                     /\ EdgeKeyOf(g)[1] = "edge-device" /\ EdgeKeyOf(g)[2] = g
                     /\ <<"human", g>>[1] = "human" /\ <<"human", g>>[2] = g
  /\ \A f, g \in Gens : /\ EdgeKeyOf(f) = EdgeKeyOf(g) => f = g
                        /\ EdgeKeyOf(f) # <<"human", g>>
BY DEF Handles, Kinds, EdgeKeyOf

\* Serials, generations and tokens are naturals.
LEMMA NumberFacts ==
  /\ Gens \subseteq Nat /\ Serials \subseteq Nat /\ Tokens \subseteq Nat
  /\ 0 \in Gens /\ 0 \in Serials /\ 0 \in Tokens /\ 1 \in Gens /\ 1 \in Serials /\ 1 \in Tokens
  /\ Tokens \subseteq Serials
  /\ Nobody \in Accounts
BY CredAssumption DEF Gens, Serials, Tokens, Accounts

\* Counting over a finite set of commands: a subset counts no more ...
LEMMA CountSub ==
  ASSUME NEW A \in SUBSET CLIs, NEW B \in SUBSET CLIs, B \subseteq A
  PROVE  Cardinality(A) \in Nat /\ Cardinality(B) \in Nat /\ Cardinality(B) <= Cardinality(A)
<1>1. IsFiniteSet(A) /\ IsFiniteSet(B)
  BY CredAssumption, FS_Subset
<1> QED BY <1>1, FS_CardinalityType, FS_Subset

\* ... without one of its members, one less ...
LEMMA CountLess ==
  ASSUME NEW A \in SUBSET CLIs, NEW B \in SUBSET CLIs, NEW p \in A, B \subseteq A \ {p}
  PROVE  /\ Cardinality(A) \in Nat /\ Cardinality(B) \in Nat
         /\ Cardinality(B) + 1 <= Cardinality(A)
<1>1. IsFiniteSet(A) /\ IsFiniteSet(B)
  BY CredAssumption, FS_Subset
<1>2. Cardinality(A \ {p}) = Cardinality(A) - 1
  BY <1>1, FS_RemoveElement
<1>3. Cardinality(B) <= Cardinality(A \ {p})
  BY CountSub
<1> QED BY <1>1, <1>2, <1>3, FS_CardinalityType

\* ... and with one more command, at most one more.
LEMMA CountMore ==
  ASSUME NEW A \in SUBSET CLIs, NEW B \in SUBSET CLIs, NEW p \in CLIs, B \subseteq A \cup {p}
  PROVE  /\ Cardinality(A) \in Nat /\ Cardinality(B) \in Nat
         /\ Cardinality(B) <= Cardinality(A) + 1
<1>1. IsFiniteSet(A) /\ IsFiniteSet(B)
  BY CredAssumption, FS_Subset
<1>2. Cardinality(A \cup {p}) \in Nat /\ Cardinality(A \cup {p}) <= Cardinality(A) + 1
  <2>1. Cardinality(A \cup {p}) = IF p \in A THEN Cardinality(A) ELSE Cardinality(A) + 1
    BY <1>1, FS_AddElement
  <2> QED BY <1>1, <2>1, FS_CardinalityType
<1>3. Cardinality(B) <= Cardinality(A \cup {p})
  BY CountSub
<1> QED BY <1>1, <1>2, <1>3, FS_CardinalityType

\* There is room for one more generation, token and serial.
LEMMA RoomLeft ==
  ASSUME Types, Room
  PROVE  /\ ghost.gens \in Nat /\ ghost.tokens \in Nat /\ ghost.serial \in Nat
         /\ used.commands \in Nat
         /\ ghost.gens + 1 \in Gens /\ ghost.tokens + 1 \in Tokens /\ ghost.serial + 1 \in Serials
<1> USE CredAssumption
<1>1. /\ ghost.gens \in Nat /\ ghost.tokens \in Nat /\ ghost.serial \in Nat
      /\ used.commands \in Nat /\ used.commands <= MaxCommands
  BY DEF Types, Ghost, Used, Gens, Tokens, Serials
<1> DEFINE S == {p \in CLIs : Stamps(job[p])}
           R == {p \in CLIs : Redeems(job[p])}
           B == {p \in CLIs : MayBind(job[p])}
           C == {p \in CLIs : MayRebind(job[p])}
<1>2. Cardinality(S) \in Nat /\ Cardinality(R) \in Nat /\ Cardinality(B) \in Nat /\ Cardinality(C) \in Nat
  BY CountSub
<1>3. /\ ghost.gens + Cardinality(S) <= used.commands + 1
      /\ ghost.tokens + Cardinality(R) <= used.commands + 1
      /\ ghost.serial + Cardinality(B) + Cardinality(C) <= 2 * used.commands + 1
  BY DEF Room
<1> HIDE DEF S, R, B, C
<1> QED BY <1>1, <1>2, <1>3 DEF Gens, Tokens, Serials

\* A command that uses up what it may still create leaves the others theirs.
LEMMA RoomStep ==
  ASSUME Types, Types', Room, NEW p \in CLIs, NEW k \in Job, job' = [job EXCEPT ![p] = k],
         used'.commands = used.commands,
         \/ ghost'.gens = ghost.gens /\ (Stamps(k) => Stamps(job[p]))
         \/ ghost'.gens = ghost.gens + 1 /\ Stamps(job[p]) /\ ~Stamps(k),
         \/ ghost'.tokens = ghost.tokens /\ (Redeems(k) => Redeems(job[p]))
         \/ ghost'.tokens = ghost.tokens + 1 /\ Redeems(job[p]) /\ ~Redeems(k),
         \/ /\ ghost'.serial = ghost.serial
            /\ (MayBind(k) => MayBind(job[p])) /\ (MayRebind(k) => MayRebind(job[p]))
         \/ /\ ghost'.serial = ghost.serial + 1 /\ ~MayRebind(k)
            /\ \/ MayBind(job[p]) /\ ~MayBind(k)
               \/ MayRebind(job[p]) /\ (MayBind(k) => MayBind(job[p]))
  PROVE  Room'
<1> DEFINE S == {q \in CLIs : Stamps(job[q])}     S2 == {q \in CLIs : Stamps(job'[q])}
           R == {q \in CLIs : Redeems(job[q])}    R2 == {q \in CLIs : Redeems(job'[q])}
           B == {q \in CLIs : MayBind(job[q])}    B2 == {q \in CLIs : MayBind(job'[q])}
           C == {q \in CLIs : MayRebind(job[q])}  C2 == {q \in CLIs : MayRebind(job'[q])}
<1>1. job'[p] = k /\ \A q \in CLIs : q # p => job'[q] = job[q]
  BY DEF Types
<1>2. /\ ghost.gens \in Nat /\ ghost.tokens \in Nat /\ ghost.serial \in Nat /\ used.commands \in Nat
  BY CredAssumption DEF Types, Ghost, Used, Gens, Tokens, Serials
<1>3. /\ ghost.gens + Cardinality(S) <= used.commands + 1
      /\ ghost.tokens + Cardinality(R) <= used.commands + 1
      /\ ghost.serial + Cardinality(B) + Cardinality(C) <= 2 * used.commands + 1
  BY DEF Room
<1>4. ghost'.gens + Cardinality(S2) <= used.commands + 1
  <2>1. CASE ghost'.gens = ghost.gens /\ (Stamps(k) => Stamps(job[p]))
    <3>1. S2 \subseteq S
      BY <1>1, <2>1
    <3>2. Cardinality(S) \in Nat /\ Cardinality(S2) \in Nat /\ Cardinality(S2) <= Cardinality(S)
      BY <3>1, CountSub
    <3> HIDE DEF S, S2
    <3> QED BY <1>2, <1>3, <2>1, <3>2
  <2>2. CASE ghost'.gens = ghost.gens + 1 /\ Stamps(job[p]) /\ ~Stamps(k)
    <3>1. p \in S /\ S2 \subseteq S \ {p}
      BY <1>1, <2>2
    <3>2. Cardinality(S) \in Nat /\ Cardinality(S2) \in Nat /\ Cardinality(S2) + 1 <= Cardinality(S)
      BY <3>1, CountLess
    <3> HIDE DEF S, S2
    <3> QED BY <1>2, <1>3, <2>2, <3>2
  <2> QED BY <2>1, <2>2
<1>5. ghost'.tokens + Cardinality(R2) <= used.commands + 1
  <2>1. CASE ghost'.tokens = ghost.tokens /\ (Redeems(k) => Redeems(job[p]))
    <3>1. R2 \subseteq R
      BY <1>1, <2>1
    <3>2. Cardinality(R) \in Nat /\ Cardinality(R2) \in Nat /\ Cardinality(R2) <= Cardinality(R)
      BY <3>1, CountSub
    <3> HIDE DEF R, R2
    <3> QED BY <1>2, <1>3, <2>1, <3>2
  <2>2. CASE ghost'.tokens = ghost.tokens + 1 /\ Redeems(job[p]) /\ ~Redeems(k)
    <3>1. p \in R /\ R2 \subseteq R \ {p}
      BY <1>1, <2>2
    <3>2. Cardinality(R) \in Nat /\ Cardinality(R2) \in Nat /\ Cardinality(R2) + 1 <= Cardinality(R)
      BY <3>1, CountLess
    <3> HIDE DEF R, R2
    <3> QED BY <1>2, <1>3, <2>2, <3>2
  <2> QED BY <2>1, <2>2
<1>6. ghost'.serial + Cardinality(B2) + Cardinality(C2) <= 2 * used.commands + 1
  <2>0. Cardinality(B) \in Nat /\ Cardinality(B2) \in Nat /\ Cardinality(C) \in Nat /\ Cardinality(C2) \in Nat
    BY CountSub
  <2>1. CASE /\ ghost'.serial = ghost.serial
             /\ (MayBind(k) => MayBind(job[p])) /\ (MayRebind(k) => MayRebind(job[p]))
    <3>1. B2 \subseteq B /\ C2 \subseteq C
      BY <1>1, <2>1
    <3>2. Cardinality(B2) <= Cardinality(B) /\ Cardinality(C2) <= Cardinality(C)
      BY <3>1, CountSub
    <3> HIDE DEF B, B2, C, C2
    <3> QED BY <1>2, <1>3, <2>0, <2>1, <3>2
  <2>2. CASE ghost'.serial = ghost.serial + 1 /\ ~MayRebind(k) /\ MayBind(job[p]) /\ ~MayBind(k)
    <3>1. p \in B /\ B2 \subseteq B \ {p} /\ C2 \subseteq C
      BY <1>1, <2>2
    <3>2. Cardinality(B2) + 1 <= Cardinality(B) /\ Cardinality(C2) <= Cardinality(C)
      BY <3>1, CountSub, CountLess
    <3> HIDE DEF B, B2, C, C2
    <3> QED BY <1>2, <1>3, <2>0, <2>2, <3>2
  <2>3. CASE /\ ghost'.serial = ghost.serial + 1 /\ ~MayRebind(k) /\ MayRebind(job[p])
             /\ (MayBind(k) => MayBind(job[p]))
    <3>1. p \in C /\ C2 \subseteq C \ {p} /\ B2 \subseteq B
      BY <1>1, <2>3
    <3>2. Cardinality(B2) <= Cardinality(B) /\ Cardinality(C2) + 1 <= Cardinality(C)
      BY <3>1, CountSub, CountLess
    <3> HIDE DEF B, B2, C, C2
    <3> QED BY <1>2, <1>3, <2>0, <2>3, <3>2
  <2> QED BY <2>1, <2>2, <2>3
<1> QED BY <1>4, <1>5, <1>6 DEF Room

\* A command that starts brings its own room.
LEMMA RoomMore ==
  ASSUME Types, Types', Room, NEW p \in CLIs, NEW k \in Job, job' = [job EXCEPT ![p] = k],
         used'.commands = used.commands + 1, UNCHANGED ghost
  PROVE  Room'
<1> DEFINE S == {q \in CLIs : Stamps(job[q])}     S2 == {q \in CLIs : Stamps(job'[q])}
           R == {q \in CLIs : Redeems(job[q])}    R2 == {q \in CLIs : Redeems(job'[q])}
           B == {q \in CLIs : MayBind(job[q])}    B2 == {q \in CLIs : MayBind(job'[q])}
           C == {q \in CLIs : MayRebind(job[q])}  C2 == {q \in CLIs : MayRebind(job'[q])}
<1>1. \A q \in CLIs : q # p => job'[q] = job[q]
  BY DEF Types
<1>2. /\ ghost.gens \in Nat /\ ghost.tokens \in Nat /\ ghost.serial \in Nat /\ used.commands \in Nat
  BY CredAssumption DEF Types, Ghost, Used, Gens, Tokens, Serials
<1>3. /\ ghost.gens + Cardinality(S) <= used.commands + 1
      /\ ghost.tokens + Cardinality(R) <= used.commands + 1
      /\ ghost.serial + Cardinality(B) + Cardinality(C) <= 2 * used.commands + 1
  BY DEF Room
<1>4. S2 \subseteq S \cup {p} /\ R2 \subseteq R \cup {p} /\ B2 \subseteq B \cup {p} /\ C2 \subseteq C \cup {p}
  BY <1>1
<1>5. /\ Cardinality(S) \in Nat /\ Cardinality(S2) \in Nat /\ Cardinality(S2) <= Cardinality(S) + 1
      /\ Cardinality(R) \in Nat /\ Cardinality(R2) \in Nat /\ Cardinality(R2) <= Cardinality(R) + 1
  BY <1>4, CountMore
<1>6. /\ Cardinality(B) \in Nat /\ Cardinality(B2) \in Nat /\ Cardinality(B2) <= Cardinality(B) + 1
      /\ Cardinality(C) \in Nat /\ Cardinality(C2) \in Nat /\ Cardinality(C2) <= Cardinality(C) + 1
  BY <1>4, CountMore
<1>7. /\ ghost.gens + Cardinality(S2) <= used.commands + 1 + 1
      /\ ghost.tokens + Cardinality(R2) <= used.commands + 1 + 1
      /\ ghost.serial + Cardinality(B2) + Cardinality(C2) <= 2 * (used.commands + 1) + 1
  <2> HIDE DEF S, S2, R, R2, B, B2, C, C2
  <2> QED BY <1>2, <1>3, <1>5, <1>6
<1> QED BY <1>7 DEF Room

\* What a state means to a command that is not the one moving.
Grows ==
  /\ ghost.gens <= ghost'.gens /\ ghost.serial <= ghost'.serial /\ ghost.tokens <= ghost'.tokens
  /\ \A g \in Gens : g <= ghost.gens => ghost'.owner[g] = ghost.owner[g]
  /\ \A t \in Serials : t <= ghost.serial =>
       issued'[t].who = issued[t].who /\ (issued'[t].live => issued[t].live)
  /\ ghost.spent \subseteq ghost'.spent /\ ghost.purged \subseteq ghost'.purged

\* What a command knows of what was created stays true.
LEMMA KnownStays ==
  ASSUME Types, Types', Grows, NEW j \in Job, KnownJob(j)
  PROVE  KnownJob(j)'
<1>1. /\ j.gen \in Gens /\ j.oldEdge.gen \in Nat /\ j.root \in Serials /\ j.token \in Serials
      /\ j.gen \in Nat /\ j.root \in Nat /\ j.token \in Nat
      /\ ghost.gens \in Nat /\ ghost'.gens \in Nat /\ ghost.serial \in Nat /\ ghost'.serial \in Nat
  BY NumberFacts DEF Job, EdgeRecord, Types, Ghost
<1>2. j.gen <= ghost.gens /\ j.oldEdge.gen <= ghost.gens /\ j.root <= ghost.serial
  BY DEF KnownJob
<1>3. ghost'.owner[j.gen] = ghost.owner[j.gen]
  BY <1>1, <1>2 DEF Grows
<1>4. issued'[j.root].who = issued[j.root].who /\ (j.token <= ghost.serial =>
        issued'[j.token].who = issued[j.token].who /\ (Live(j.token)' => Live(j.token)))
  BY <1>1, <1>2 DEF Grows, Live
<1>5. j.gen <= ghost'.gens /\ j.oldEdge.gen <= ghost'.gens /\ j.root <= ghost'.serial
      /\ (j.token <= ghost.serial => j.token <= ghost'.serial)
  BY <1>1, <1>2 DEF Grows
<1> QED BY <1>3, <1>4, <1>5 DEF KnownJob, Grows

\* What a step may not do to a command that is not the one moving.
Undisturbed(j) ==
  /\ \/ ghost'.last = ghost.last \/ ghost'.last.gen = 0
     \/ ghost'.last.gen # j.gen /\ ghost'.last.gen # j.oldEdge.gen
  /\ j.at \in {"edge_key", "edge_commit"} =>
       keyring'[EdgeKeyOf(j.gen)] \in {0, keyring[EdgeKeyOf(j.gen)]}
  /\ j.at = "edge_commit" =>
       /\ creds'.gen # j.gen /\ edgeFile'.gen # j.gen
       /\ keyring'[EdgeKeyOf(j.gen)] = keyring[EdgeKeyOf(j.gen)] \/ EdgeKeyOf(j.gen) \in ghost'.purged
  /\ j.at = "commit" => creds'.refresh # j.token /\ j.token \in idp' \cup ghost'.spent

\* What a command holds against the documents stays true under an undisturbing
\* step.
LEMMA PlacedStays ==
  ASSUME Types, Types', Grows, NEW j \in Job, JobShape(j), KnownJob(j), PlacedJob(j), Undisturbed(j)
  PROVE  PlacedJob(j)'
<1>1. /\ j.root \in Serials /\ j.token \in Nat /\ ghost.tokens \in Nat /\ ghost'.tokens \in Nat
  BY NumberFacts DEF Job, EdgeRecord, Types, Ghost
<1>2. j.root <= ghost.serial
  BY DEF KnownJob
<1>3. Live(j.root)' => Live(j.root)
  BY <1>1, <1>2 DEF Grows, Live
<1>4. j.token <= ghost.tokens => j.token <= ghost'.tokens
  BY <1>1 DEF Grows
<1>5. /\ ghost.purged \subseteq ghost'.purged
      /\ j.at \in Reading \/ j.at = "edge_commit" => j.gen # 0
  BY DEF Grows, JobShape
<1>6. j.at \in Reading \/ (j.at = "relogin" /\ j.root # 0) =>
       j.gen # 0 /\ (ghost'.last.gen = j.gen => ghost'.last.kind = "edge-device")
  BY DEF PlacedJob, Undisturbed
<1>7. j.at \in {"edge_key", "edge_commit"} => keyring'[EdgeKeyOf(j.gen)] \in {0, j.root}
  BY DEF PlacedJob, Undisturbed
<1>8. j.at = "edge_commit" =>
       /\ j.gen # creds'.gen /\ j.gen # edgeFile'.gen
       /\ keyring'[EdgeKeyOf(j.gen)] # 0 \/ EdgeKeyOf(j.gen) \in ghost'.purged
  BY <1>5 DEF PlacedJob, Undisturbed
<1>9. /\ j.at = "abandon" /\ j.gen # 0 => j.gen # ghost'.last.gen
      /\ j.at = "cleanup" /\ j.oldEdge.root # 0 => j.oldEdge.gen # 0 /\ j.oldEdge.gen # ghost'.last.gen
  BY DEF PlacedJob, Undisturbed
<1>10. j.at = "relogin" /\ j.root # 0 =>
        (j.hit \/ ~Live(j.root) \/ EdgeKeyOf(j.gen) \in ghost.purged \/ ghost.last.gen # j.gen)'
  BY <1>3, <1>5 DEF PlacedJob, Undisturbed
<1>11. j.at = "commit" => (j.token <= ghost.tokens /\ j.token # creds.refresh /\ j.token \in idp \cup ghost.spent)'
  BY <1>4 DEF PlacedJob, Undisturbed
<1> QED BY <1>6, <1>7, <1>8, <1>9, <1>10, <1>11 DEF PlacedJob

\* One command moves: the others keep what they know.
LEMMA StepJobs ==
  ASSUME StoreInv, Types', Grows, NEW p \in CLIs, NEW k \in Job, job' = [job EXCEPT ![p] = k],
         \A q \in CLIs : q # p => Undisturbed(job[q]),
         JobShape(k), KnownJob(k)', PlacedJob(k)',
         \A q \in CLIs : q # p =>
           /\ job[q].at = "edge_commit" => k.gen # job[q].gen /\ k.oldEdge.gen # job[q].gen
           /\ k.at = "edge_commit" => job[q].gen # k.gen /\ job[q].oldEdge.gen # k.gen
           /\ k.at = "commit" /\ job[q].at = "commit" => job[q].token # k.token
  PROVE  Jobs' /\ Apart'
<1>1. job'[p] = k /\ \A q \in CLIs : q # p => job'[q] = job[q]
  BY DEF StoreInv, Types
<1>2. \A q \in CLIs : job[q] \in Job
  BY DEF StoreInv, Types
<1>3. ASSUME NEW q \in CLIs PROVE (JobShape(job[q]) /\ KnownJob(job[q]) /\ PlacedJob(job[q]))'
  <2>1. CASE q = p
    <3>1. job'[q] = k
      BY <1>1, <2>1
    <3> QED BY <3>1 DEF KnownJob, PlacedJob, Returns, EdgeKeyOf, Live
  <2>2. CASE q # p
    <3>1. PICK j \in Job : j = job[q]
      BY <1>2
    <3>2. job'[q] = j
      BY <1>1, <2>2, <3>1
    <3>3. JobShape(j) /\ KnownJob(j) /\ PlacedJob(j) /\ Undisturbed(j)
      BY <2>2, <3>1 DEF StoreInv, Jobs
    <3>4. KnownJob(j)' /\ PlacedJob(j)'
      BY <3>3, KnownStays, PlacedStays DEF StoreInv
    <3> QED BY <3>2, <3>3, <3>4 DEF KnownJob, PlacedJob, Returns, EdgeKeyOf, Live
  <2> QED BY <2>1, <2>2
<1>4. Apart'
  BY <1>1 DEF StoreInv, Apart
<1> QED BY <1>3, <1>4 DEF Jobs

\* Every live root and every key keeps its owner, or gets a new one.
LEMMA StepOwned ==
  ASSUME StoreInv, NEW p \in CLIs, NEW k \in Job, job' = [job EXCEPT ![p] = k],
         \A r \in Serials : issued'[r].live /\ issued'[r].kind = "edge-device" /\ r \notin ghost'.adrift =>
           \/ edgeFile'.root = r \/ OwnsRoot(k, r)
           \/ /\ issued[r].live /\ issued[r].kind = "edge-device" /\ r \notin ghost.adrift
              /\ edgeFile.root # r /\ ~OwnsRoot(job[p], r),
         \A h \in Handles : keyring'[h] # 0 /\ h \notin ghost'.stray =>
           \/ StoredKey(h)' \/ OwnsKey(k, h)
           \/ keyring[h] # 0 /\ h \notin ghost.stray /\ ~StoredKey(h) /\ ~OwnsKey(job[p], h)
  PROVE  Owned'
<1>1. job'[p] = k /\ \A q \in CLIs : q # p => job'[q] = job[q]
  BY DEF StoreInv, Types
<1>2. ASSUME NEW r \in Serials, issued'[r].live, issued'[r].kind = "edge-device", r \notin ghost'.adrift
      PROVE  edgeFile'.root = r \/ \E q \in CLIs : OwnsRoot(job'[q], r)
  <2>1. CASE edgeFile'.root = r \/ OwnsRoot(k, r)
    BY <1>1, <2>1
  <2>2. CASE /\ issued[r].live /\ issued[r].kind = "edge-device" /\ r \notin ghost.adrift
             /\ edgeFile.root # r /\ ~OwnsRoot(job[p], r)
    <3>1. PICK q \in CLIs : OwnsRoot(job[q], r)
      BY <2>2 DEF StoreInv, Owned, Live
    <3> QED BY <1>1, <2>2, <3>1
  <2> QED BY <1>2, <2>1, <2>2
<1>3. ASSUME NEW h \in Handles, keyring'[h] # 0, h \notin ghost'.stray
      PROVE  StoredKey(h)' \/ \E q \in CLIs : OwnsKey(job'[q], h)
  <2>1. CASE StoredKey(h)' \/ OwnsKey(k, h)
    BY <1>1, <2>1
  <2>2. CASE keyring[h] # 0 /\ h \notin ghost.stray /\ ~StoredKey(h) /\ ~OwnsKey(job[p], h)
    <3>1. PICK q \in CLIs : OwnsKey(job[q], h)
      BY <2>2 DEF StoreInv, Owned
    <3> QED BY <1>1, <2>2, <3>1
  <2> QED BY <1>3, <2>1, <2>2
<1> QED BY <1>2, <1>3 DEF Owned, Live

\* A step that changes nothing but what a command remembers.
LEMMA QuietStep ==
  ASSUME StoreInv, NEW p \in CLIs, NEW k \in Job, job' = [job EXCEPT ![p] = k],
         UNCHANGED <<creds, edgeFile, keyring, idp, issued, ghost>>, used' \in Used,
         JobShape(k), KnownJob(k), PlacedJob(k), k.at \notin {"edge_commit", "commit"},
         k.gen \in {0, job[p].gen, creds.gen, edgeFile.gen},
         k.oldEdge.gen \in {0, job[p].oldEdge.gen, edgeFile.gen},
         \/ used'.commands = used.commands + 1
         \/ /\ used'.commands = used.commands
            /\ Stamps(k) => Stamps(job[p])
            /\ Redeems(k) => Redeems(job[p])
            /\ MayBind(k) => MayBind(job[p])
            /\ MayRebind(k) => MayRebind(job[p]),
         \A r \in Serials : OwnsRoot(job[p], r) => OwnsRoot(k, r),
         \A h \in Handles : OwnsKey(job[p], h) => OwnsKey(k, h)
  PROVE  StoreInv'
<1>1. Types /\ Room /\ Jobs /\ Apart /\ Documents /\ InForce /\ Owned
  BY DEF StoreInv
<1>2. Types'
  BY <1>1 DEF Types
<1>3. Room'
  BY <1>1, <1>2, RoomStep, RoomMore
<1>4. Documents' /\ InForce'
  BY <1>1 DEF Documents, InForce, SessionBound, activeEdgeSession, Live, hasKeycloakLogin
<1>5. Grows
  <2>1. ghost.gens \in Nat /\ ghost.serial \in Nat /\ ghost.tokens \in Nat
    BY <1>1, RoomLeft
  <2> QED BY <2>1 DEF Grows
<1>6. \A q \in CLIs : q # p => Undisturbed(job[q])
  BY <1>1 DEF Undisturbed, Jobs, PlacedJob
<1>7. KnownJob(k)' /\ PlacedJob(k)'
  BY DEF KnownJob, PlacedJob, Live
<1>8. ASSUME NEW q \in CLIs, q # p
      PROVE  /\ job[q].at = "edge_commit" => k.gen # job[q].gen /\ k.oldEdge.gen # job[q].gen
             /\ k.at = "edge_commit" => job[q].gen # k.gen /\ job[q].oldEdge.gen # k.gen
             /\ k.at = "commit" /\ job[q].at = "commit" => job[q].token # k.token
  <2>1. job[q].at = "edge_commit" =>
          /\ job[q].gen # 0 /\ job[q].gen # creds.gen /\ job[q].gen # edgeFile.gen
          /\ job[p].gen # job[q].gen /\ job[p].oldEdge.gen # job[q].gen
    BY <1>1, <1>8 DEF Jobs, JobShape, PlacedJob, Apart
  <2> QED BY <2>1
<1>9. Jobs' /\ Apart'
  BY <1>2, <1>5, <1>6, <1>7, <1>8, StepJobs
<1>10. Owned'
  <2>1. ASSUME NEW r \in Serials, issued'[r].live, issued'[r].kind = "edge-device", r \notin ghost'.adrift
        PROVE  \/ edgeFile'.root = r \/ OwnsRoot(k, r)
               \/ /\ issued[r].live /\ issued[r].kind = "edge-device" /\ r \notin ghost.adrift
                  /\ edgeFile.root # r /\ ~OwnsRoot(job[p], r)
    BY <2>1
  <2>2. ASSUME NEW h \in Handles, keyring'[h] # 0, h \notin ghost'.stray
        PROVE  \/ StoredKey(h)' \/ OwnsKey(k, h)
               \/ keyring[h] # 0 /\ h \notin ghost.stray /\ ~StoredKey(h) /\ ~OwnsKey(job[p], h)
    BY <2>2 DEF StoredKey
  <2> QED BY <2>1, <2>2, StepOwned
<1> QED BY <1>2, <1>3, <1>4, <1>9, <1>10 DEF StoreInv

\* What a fault or a free step spends.
LEMMA Spends ==
  ASSUME Types, Fault \/ NoFault
  PROVE  used' \in Used /\ used'.commands = used.commands
<1>1. used \in Used
  BY DEF Types
<1>2. CASE NoFault
  BY <1>1, <1>2 DEF NoFault
<1>3. CASE Fault
  <2>1. used.faults + 1 \in 0..MaxCredFaults
    BY <1>1, <1>3, CredAssumption DEF Fault, Used
  <2> QED BY <1>1, <1>3, <2>1 DEF Fault, Used
<1> QED BY <1>2, <1>3

\* The facts a moving command starts from.
LEMMA JobFacts ==
  ASSUME StoreInv, NEW p \in CLIs
  PROVE  /\ job[p] \in Job /\ JobShape(job[p]) /\ KnownJob(job[p]) /\ PlacedJob(job[p])
         /\ Types /\ Documents /\ InForce
         /\ job \in [CLIs -> Job]
BY DEF StoreInv, Types, Jobs

\* A command stops with an answer, a failure or a crash that strands nothing.
LEMMA Stops ==
  ASSUME StoreInv, NEW p \in CLIs, NEW k \in Job, job' = [job EXCEPT ![p] = k],
         UNCHANGED <<creds, edgeFile, keyring, idp, issued, ghost>>, Fault \/ NoFault,
         k.at \in {"idle", "ok", "changed", "unavailable"},
         k.at = "idle" => k = Idle,
         k.at # "idle" => /\ k.gen = job[p].gen /\ k.oldEdge = job[p].oldEdge /\ k.root = job[p].root
                          /\ k.token = job[p].token /\ k.retried = job[p].retried,
         k.at = "unavailable" => k.hit \/ (k.retried /\ ~Live(k.token)),
         k.at = "ok" /\ k.cmd = "getToken" => k.who = ghost.owner[k.gen],
         job[p].at \notin Enrolling \cup {"cleanup"}
  PROVE  StoreInv'
<1>1. /\ job[p] \in Job /\ KnownJob(job[p]) /\ Types
  BY JobFacts
<1>2. used' \in Used /\ used'.commands = used.commands
  BY <1>1, Spends
<1>3. /\ k.gen \in {0, job[p].gen} /\ k.oldEdge.gen \in {0, job[p].oldEdge.gen}
      /\ k.root \in {0, job[p].root} /\ (k.retried => k.token = job[p].token /\ job[p].retried)
  BY DEF Idle, NoEdge
<1>4. KnownJob(k)
  <2>1. ghost.gens \in Nat /\ ghost.serial \in Nat
    BY <1>1, NumberFacts DEF Types, Ghost
  <2> QED BY <1>1, <1>3, <2>1 DEF KnownJob, Minting, Reading, Returns
<1>5. JobShape(k) /\ PlacedJob(k)
  BY DEF JobShape, PlacedJob, Asking, Minting, Reading, Enrolling, Returns
<1>6. ~Stamps(k) /\ ~Redeems(k) /\ ~MayBind(k) /\ ~MayRebind(k)
  BY DEF Stamps, Redeems, MayBind, MayRebind, Asking, Returns
<1>7. /\ \A r \in Serials : ~OwnsRoot(job[p], r)
      /\ \A h \in Handles : ~OwnsKey(job[p], h)
  BY DEF OwnsRoot, OwnsKey, Enrolling
<1> QED BY <1>2, <1>3, <1>4, <1>5, <1>6, <1>7, QuietStep

\* LoadSnapshot preserves the invariant.
LEMMA LoadStep ==
  ASSUME StoreInv, NEW p \in CLIs, LoadSnapshot(p)
  PROVE  StoreInv'
<1>1. /\ job[p] \in Job /\ JobShape(job[p]) /\ KnownJob(job[p]) /\ PlacedJob(job[p]) /\ Types /\ Documents /\ InForce
  BY JobFacts
<1>2. /\ UNCHANGED <<creds, edgeFile, keyring, idp, issued, ghost>> /\ NoFault /\ job[p].at = "snapshot"
  BY DEF LoadSnapshot, World, NoFault
<1>3. used' \in Used /\ used'.commands = used.commands
  BY <1>1, <1>2, Spends
<1>4. job[p].root = 0 /\ ~job[p].retried /\ job[p].oldEdge = NoEdge /\ job[p].cmd \in {"getToken", "rotate", "whoami"}
  BY <1>1, <1>2 DEF JobShape, Asking
<1>5. /\ \A r \in Serials : ~OwnsRoot(job[p], r)
      /\ \A h \in Handles : ~OwnsKey(job[p], h)
  BY <1>2 DEF OwnsRoot, OwnsKey, Enrolling
<1>6. Stamps(job[p]) /\ Redeems(job[p]) /\ MayBind(job[p]) /\ MayRebind(job[p])
  BY <1>2 DEF Stamps, Redeems, MayBind, MayRebind, Asking
<1>7. CASE Set(p, [job[p] EXCEPT !.at = "load"])
  <2>1. PICK k \in Job : k = [job[p] EXCEPT !.at = "load"]
    BY <1>1 DEF Job, Ats
  <2>2. /\ k.at = "load" /\ k.gen = job[p].gen /\ k.oldEdge = job[p].oldEdge /\ k.root = 0
        /\ k.cmd = job[p].cmd /\ ~k.retried
    BY <1>1, <1>4, <2>1 DEF Job
  <2>3. JobShape(k) /\ KnownJob(k) /\ PlacedJob(k)
    BY <1>1, <1>4, <2>2 DEF JobShape, KnownJob, PlacedJob, Asking, Minting, Reading, Enrolling, Returns
  <2> QED BY <1>2, <1>3, <1>5, <1>6, <1>7, <2>1, <2>2, <2>3, QuietStep DEF Set
<1>8. CASE Relogin(p, 0)
  <2>1. PICK k \in Job : k = [job[p] EXCEPT !.at = "relogin", !.refresh = 0]
    BY <1>1, NumberFacts DEF Job, Ats
  <2>2. /\ k.at = "relogin" /\ k.gen = job[p].gen /\ k.oldEdge = job[p].oldEdge /\ k.root = 0
        /\ ~k.retried /\ k.refresh = 0
    BY <1>1, <1>4, <2>1 DEF Job
  <2>3. JobShape(k) /\ KnownJob(k) /\ PlacedJob(k)
    BY <1>1, <1>4, <2>2 DEF JobShape, KnownJob, PlacedJob, Asking, Minting, Reading, Enrolling, Returns, Documents
  <2>4. job' = [job EXCEPT ![p] = k]
    BY <1>8, <2>1 DEF Relogin, Set
  <2> QED BY <1>2, <1>3, <1>5, <1>6, <2>2, <2>3, <2>4, QuietStep
<1>9. CASE activeEdgeSession /\ job[p].cmd \in {"getToken", "whoami"} /\
           Set(p, [job[p] EXCEPT !.at = "edge_key", !.gen = edgeFile.gen, !.root = edgeFile.root])
  <2>0. edgeFile.gen \in Gens /\ edgeFile.root \in Serials
    BY <1>1 DEF Types, EdgeRecord
  <2>1. PICK k \in Job : k = [job[p] EXCEPT !.at = "edge_key", !.gen = edgeFile.gen, !.root = edgeFile.root]
    BY <1>1, <2>0 DEF Job, Ats
  <2>2. /\ k.at = "edge_key" /\ k.gen = edgeFile.gen /\ k.oldEdge = job[p].oldEdge /\ k.root = edgeFile.root
        /\ k.cmd = job[p].cmd /\ ~k.retried
    BY <1>1, <1>4, <2>1 DEF Job
  <2>3. edgeFile.root # 0 /\ edgeFile.gen # 0 /\ edgeFile.gen = creds.gen /\ creds.gen = ghost.last.gen
    BY <1>1, <1>9 DEF activeEdgeSession, validCredentialGeneration, Documents
  <2>4. ghost.last.kind = "edge-device"
    <3>1. ghost.last.kind \in {"human", "edge-device", "none"}
      BY <1>1 DEF Types, Ghost, Kinds
    <3>2. ghost.last.kind # "none"
      BY <1>1, <2>3 DEF InForce, EmptyData
    <3> QED BY <1>1, <1>9, <3>1, <3>2 DEF InForce
  <2>5. JobShape(k)
    BY <1>9, <2>2, <2>3 DEF JobShape, Asking, Minting, Reading, Enrolling, Returns
  <2>6. KnownJob(k) /\ PlacedJob(k)
    BY <1>1, <2>2, <2>3, <2>4 DEF KnownJob, PlacedJob, Minting, Reading, Returns, Documents, InForce
  <2> QED BY <1>2, <1>3, <1>5, <1>6, <1>9, <2>1, <2>2, <2>5, <2>6, QuietStep
         DEF Set, Stamps, Redeems, MayBind, MayRebind, Asking, Returns
<1>10. CASE Set(p, Idle)
  <2>1. PICK k \in Job : k = Idle
    BY NumberFacts DEF Idle, Job, Ats, NoEdge, EdgeRecord
  <2>2. k.at = "idle"
    BY <2>1 DEF Idle
  <2> QED BY <1>2, <1>10, <2>1, <2>2, Stops DEF Set, Enrolling
<1> QED BY <1>7, <1>8, <1>9, <1>10 DEF LoadSnapshot

\* The ways a command stops.
LEMMA StopSteps ==
  ASSUME StoreInv, NEW p \in CLIs,
         UNCHANGED <<creds, edgeFile, keyring, idp, issued, ghost>>, Fault \/ NoFault,
         \/ Unavailable(p) \/ Changed(p) \/ Set(p, Idle)
         \/ Set(p, [job[p] EXCEPT !.at = "ok"]) /\ (job[p].cmd = "getToken" => job[p].who = ghost.owner[job[p].gen])
         \/ \E w \in Accounts : Set(p, [job[p] EXCEPT !.at = "ok", !.who = w]) /\ w = ghost.owner[job[p].gen]
         \/ Set(p, [job[p] EXCEPT !.at = "unavailable"]) /\ job[p].retried /\ ~Live(job[p].token),
         job[p].at \notin Enrolling \cup {"cleanup"}
  PROVE  StoreInv'
<1>1. job[p] \in Job
  BY JobFacts
<1>2. CASE Unavailable(p)
  <2>1. PICK k \in Job : k = [job[p] EXCEPT !.at = "unavailable", !.hit = TRUE]
    BY <1>1 DEF Job, Ats
  <2>2. /\ k.at = "unavailable" /\ k.gen = job[p].gen /\ k.oldEdge = job[p].oldEdge /\ k.root = job[p].root
        /\ k.token = job[p].token /\ k.retried = job[p].retried /\ k.hit
    BY <1>1, <2>1 DEF Job
  <2>3. job' = [job EXCEPT ![p] = k]
    BY <1>2, <2>1 DEF Unavailable, Set
  <2> QED BY <2>2, <2>3, Stops
<1>3. CASE Changed(p)
  <2>1. PICK k \in Job : k = [job[p] EXCEPT !.at = "changed"]
    BY <1>1 DEF Job, Ats
  <2>2. /\ k.at = "changed" /\ k.gen = job[p].gen /\ k.oldEdge = job[p].oldEdge /\ k.root = job[p].root
        /\ k.token = job[p].token /\ k.retried = job[p].retried
    BY <1>1, <2>1 DEF Job
  <2>3. job' = [job EXCEPT ![p] = k]
    BY <1>3, <2>1 DEF Changed, Set
  <2> QED BY <2>2, <2>3, Stops
<1>4. CASE Set(p, Idle)
  <2>1. PICK k \in Job : k = Idle
    BY NumberFacts DEF Idle, Job, Ats, NoEdge, EdgeRecord
  <2>2. k.at = "idle" /\ job' = [job EXCEPT ![p] = k]
    BY <1>4, <2>1 DEF Idle, Set
  <2> QED BY <2>1, <2>2, Stops
<1>5. CASE Set(p, [job[p] EXCEPT !.at = "ok"]) /\ (job[p].cmd = "getToken" => job[p].who = ghost.owner[job[p].gen])
  <2>1. PICK k \in Job : k = [job[p] EXCEPT !.at = "ok"]
    BY <1>1 DEF Job, Ats
  <2>2. /\ k.at = "ok" /\ k.gen = job[p].gen /\ k.oldEdge = job[p].oldEdge /\ k.root = job[p].root
        /\ k.token = job[p].token /\ k.retried = job[p].retried /\ k.cmd = job[p].cmd /\ k.who = job[p].who
    BY <1>1, <2>1 DEF Job
  <2>3. job' = [job EXCEPT ![p] = k]
    BY <1>5, <2>1 DEF Set
  <2> QED BY <1>5, <2>2, <2>3, Stops
<1>6. CASE \E w \in Accounts : Set(p, [job[p] EXCEPT !.at = "ok", !.who = w]) /\ w = ghost.owner[job[p].gen]
  <2>0. PICK w \in Accounts : Set(p, [job[p] EXCEPT !.at = "ok", !.who = w]) /\ w = ghost.owner[job[p].gen]
    BY <1>6
  <2>1. PICK k \in Job : k = [job[p] EXCEPT !.at = "ok", !.who = w]
    BY <1>1 DEF Job, Ats
  <2>2. /\ k.at = "ok" /\ k.gen = job[p].gen /\ k.oldEdge = job[p].oldEdge /\ k.root = job[p].root
        /\ k.token = job[p].token /\ k.retried = job[p].retried /\ k.who = w
    BY <1>1, <2>1 DEF Job
  <2>3. job' = [job EXCEPT ![p] = k]
    BY <2>0, <2>1 DEF Set
  <2> QED BY <2>0, <2>2, <2>3, Stops
<1>7. CASE Set(p, [job[p] EXCEPT !.at = "unavailable"]) /\ job[p].retried /\ ~Live(job[p].token)
  <2>1. PICK k \in Job : k = [job[p] EXCEPT !.at = "unavailable"]
    BY <1>1 DEF Job, Ats
  <2>2. /\ k.at = "unavailable" /\ k.gen = job[p].gen /\ k.oldEdge = job[p].oldEdge /\ k.root = job[p].root
        /\ k.token = job[p].token /\ k.retried = job[p].retried
    BY <1>1, <2>1 DEF Job
  <2>3. job' = [job EXCEPT ![p] = k]
    BY <1>7, <2>1 DEF Set
  <2> QED BY <1>7, <2>2, <2>3, Stops
<1> QED BY <1>2, <1>3, <1>4, <1>5, <1>6, <1>7

\* A request that changes state is sent to a second origin only when the name
\* of the first did not resolve.
LEMMA AskOnce ==
  ASSUME StoreInv, NEW outs \in Outcomes, NEW changes \in BOOLEAN, Ask(outs, changes)
  PROVE  UNCHANGED ghost /\ (Fault \/ NoFault)
<1>1. ~replays(outs, changes)
  <2>1. SUFFICES ASSUME changes
                 PROVE  ~(Cardinality({i \in 1..walk(outs, changes) : outs[i] # "dns"}) > 1)
    BY DEF replays
  <2> DEFINE W == {i \in 1..walk(outs, changes) : outs[i] # "dns"}
  <2>2. W \subseteq {1} \/ W \subseteq {2}
    BY <2>1 DEF walk, mayCrossOrigin, unresolvedHost
  <2>3. \A x : IsFiniteSet({x}) /\ Cardinality({x}) = 1
    BY FS_Singleton
  <2>4. Cardinality(W) \in Nat /\ Cardinality(W) <= 1
    <3>1. PICK x : W \subseteq {x}
      BY <2>2
    <3>2. IsFiniteSet(W) /\ Cardinality(W) <= Cardinality({x})
      BY <2>3, <3>1, FS_Subset
    <3> HIDE DEF W
    <3> QED BY <2>3, <3>2, FS_CardinalityType
  <2> HIDE DEF W
  <2>5. ~(Cardinality(W) > 1)
    BY <2>4
  <2> QED BY <2>5 DEF W
<1>2. ghost' = ghost
  <2>1. ghost.replayed = FALSE /\ ghost \in Ghost
    BY DEF StoreInv, Types, Ghost
  <2>2. ghost' = [ghost EXCEPT !.replayed = @ \/ replays(outs, changes)]
    BY DEF Ask
  <2>3. (FALSE \/ replays(outs, changes)) = FALSE
    BY <1>1, Zenon
  <2>4. ghost' = [ghost EXCEPT !.replayed = FALSE]
    BY <2>1, <2>2, <2>3
  <2> QED BY <2>1, <2>4 DEF Ghost
<1> QED BY <1>2 DEF Ask

\* Start preserves the invariant.
LEMMA StartStep ==
  ASSUME StoreInv, NEW p \in CLIs, NEW cmd \in Commands, NEW force \in BOOLEAN, Start(p, cmd, force)
  PROVE  StoreInv'
<1>1. /\ job[p] \in Job /\ Types /\ Documents
  BY JobFacts
<1>2. /\ UNCHANGED <<creds, edgeFile, keyring, idp, issued, ghost>> /\ job[p].at = "idle"
      /\ used.commands < MaxCommands /\ used' = [used EXCEPT !.commands = @ + 1]
      /\ force => cmd = "getToken"
  BY DEF Start, World
<1>3. used' \in Used /\ used'.commands = used.commands + 1
  <2>1. used \in Used /\ used.commands + 1 \in 0..MaxCommands
    BY <1>1, <1>2, CredAssumption DEF Types, Used
  <2> QED BY <1>2, <2>1 DEF Used
<1>4. PICK a \in {"grant", "await", "logout", "invalidate", "snapshot"} :
        /\ Set(p, [Idle EXCEPT !.cmd = cmd, !.force = force, !.at = a])
        /\ a = "grant" => cmd = "login"
        /\ a = "await" => cmd = "edgeLogin"
        /\ a = "logout" => cmd = "logout"
        /\ a \in {"invalidate", "snapshot"} => cmd \in {"getToken", "rotate", "whoami"}
  BY <1>2 DEF Start, Commands
<1>5. PICK k \in Job : k = [Idle EXCEPT !.cmd = cmd, !.force = force, !.at = a]
  BY NumberFacts DEF Idle, Job, Ats, NoEdge, EdgeRecord
<1>6. /\ k.at = a /\ k.cmd = cmd /\ k.gen = 0 /\ k.oldEdge = NoEdge /\ k.root = 0 /\ ~k.retried
      /\ k.orphans = {} /\ k.oldEdge.gen = 0 /\ k.oldEdge.root = 0
  BY <1>5 DEF Idle, NoEdge
<1>7. JobShape(k)
  BY <1>4, <1>6 DEF JobShape, Asking, Minting, Reading, Enrolling, Returns
<1>8. KnownJob(k) /\ PlacedJob(k)
  <2>1. ghost.gens \in Nat /\ ghost.serial \in Nat
    BY <1>1, NumberFacts DEF Types, Ghost
  <2> QED BY <1>6, <2>1 DEF KnownJob, PlacedJob, Minting, Reading, Returns
<1>9. /\ \A r \in Serials : ~OwnsRoot(job[p], r)
      /\ \A h \in Handles : ~OwnsKey(job[p], h)
  BY <1>2 DEF OwnsRoot, OwnsKey, Enrolling
<1> QED BY <1>2, <1>3, <1>4, <1>5, <1>6, <1>7, <1>8, <1>9, QuietStep DEF Set

\* Exit preserves the invariant.
LEMMA ExitStep ==
  ASSUME StoreInv, NEW p \in CLIs, Exit(p)
  PROVE  StoreInv'
BY StopSteps DEF Exit, World, NoFault, Enrolling

\* EnsureLoad preserves the invariant.
LEMMA EnsureLoadStep ==
  ASSUME StoreInv, NEW p \in CLIs, EnsureLoad(p)
  PROVE  StoreInv'
<1>1. /\ job[p] \in Job /\ JobShape(job[p]) /\ KnownJob(job[p]) /\ PlacedJob(job[p]) /\ Types /\ Documents /\ InForce
  BY JobFacts
<1>2. /\ UNCHANGED <<creds, edgeFile, keyring, idp, issued, ghost>> /\ NoFault /\ job[p].at = "load"
  BY DEF EnsureLoad, World, NoFault
<1>3. used' \in Used /\ used'.commands = used.commands
  BY <1>1, <1>2, Spends
<1>4. job[p].root = 0 /\ ~job[p].retried /\ job[p].oldEdge = NoEdge /\ job[p].cmd \in {"getToken", "rotate", "whoami"}
  BY <1>1, <1>2 DEF JobShape, Asking
<1>5. /\ \A r \in Serials : ~OwnsRoot(job[p], r)
      /\ \A h \in Handles : ~OwnsKey(job[p], h)
  BY <1>2 DEF OwnsRoot, OwnsKey, Enrolling
<1>6. Stamps(job[p]) /\ Redeems(job[p]) /\ MayBind(job[p]) /\ MayRebind(job[p])
  BY <1>2 DEF Stamps, Redeems, MayBind, MayRebind, Asking
<1>0. creds \in Data
  BY <1>1 DEF Types
<1>7. CASE creds.gen # 0 /\ Set(p, credential(p, creds))
  <2>1. PICK k \in Job : k = [job[p] EXCEPT !.at = "context", !.gen = creds.gen, !.who = creds.who, !.refresh = 0]
    BY <1>0, <1>1, NumberFacts DEF Job, Ats, Data
  <2>2. /\ k.at = "context" /\ k.gen = creds.gen /\ k.oldEdge = job[p].oldEdge /\ k.root = 0
        /\ k.cmd = job[p].cmd /\ ~k.retried /\ k.who = creds.who
    BY <1>1, <1>4, <2>1 DEF Job
  <2>3. JobShape(k)
    BY <1>4, <1>7, <2>2 DEF JobShape, Asking, Minting, Reading, Enrolling, Returns
  <2>4. KnownJob(k) /\ PlacedJob(k)
    <3>1. ghost.serial \in Nat
      BY <1>1, NumberFacts DEF Types, Ghost
    <3> QED BY <1>1, <1>7, <2>2, <3>1 DEF KnownJob, PlacedJob, Minting, Reading, Returns, Documents
  <2>5. job' = [job EXCEPT ![p] = k]
    BY <1>7, <2>1 DEF Set, credential
  <2> QED BY <1>2, <1>3, <1>5, <1>6, <2>2, <2>3, <2>4, <2>5, QuietStep
<1>8. CASE Set(p, [job[p] EXCEPT !.at = "refresh", !.refresh = creds.refresh])
  <2>1. PICK k \in Job : k = [job[p] EXCEPT !.at = "refresh", !.refresh = creds.refresh]
    BY <1>0, <1>1 DEF Job, Ats, Data
  <2>2. /\ k.at = "refresh" /\ k.gen = job[p].gen /\ k.oldEdge = job[p].oldEdge /\ k.root = 0
        /\ k.cmd = job[p].cmd /\ ~k.retried
    BY <1>1, <1>4, <2>1 DEF Job
  <2>3. JobShape(k) /\ KnownJob(k) /\ PlacedJob(k)
    BY <1>1, <1>4, <2>2 DEF JobShape, KnownJob, PlacedJob, Asking, Minting, Reading, Enrolling, Returns
  <2>4. job' = [job EXCEPT ![p] = k]
    BY <1>8, <2>1 DEF Set
  <2> QED BY <1>2, <1>3, <1>5, <1>6, <2>2, <2>3, <2>4, QuietStep
<1> QED BY <1>7, <1>8 DEF EnsureLoad, validCredentialGeneration

\* A fresh cached assertion of the generation in force is of its login.
LEMMA CachedWho ==
  ASSUME StoreInv, NEW h \in Handles, creds.eia[h].fresh, creds.gen # 0
  PROVE  creds.eia[h].who \in Accounts /\ creds.eia[h].who = ghost.owner[creds.gen]
<1>1. creds.eia[h] \in EIA
  BY DEF StoreInv, Types, Data
<1>2. creds.eia[h] # NoEIA
  BY DEF NoEIA
<1> QED BY <1>1, <1>2 DEF StoreInv, Documents, EIA

\* A command that keeps its generation goes on with what it knows of it.
LEMMA GoesOn ==
  ASSUME StoreInv, NEW p \in CLIs, NEW k \in Job, job' = [job EXCEPT ![p] = k],
         UNCHANGED <<creds, edgeFile, keyring, idp, issued, ghost>>, Fault \/ NoFault,
         job[p].at \in Minting \cup Reading, k.at \in Minting \cup Reading \cup {"cache"},
         k.gen = job[p].gen, k.oldEdge = job[p].oldEdge, k.root = job[p].root, k.cmd = job[p].cmd,
         JobShape(k),
         k.at \in Reading => job[p].at \in Reading,
         k.at # "edge_key",
         k.at \in Minting \cup {"cache"} => k.who = ghost.owner[k.gen],
         k.at \in {"session_key", "enrol", "exchange"} \/ k.retried =>
           k.token <= ghost.serial,
         k.at \in {"session_key", "enrol", "exchange"} => issued[k.token].who = ghost.owner[k.gen],
         MayBind(k) => MayBind(job[p]), MayRebind(k) => MayRebind(job[p])
  PROVE  StoreInv'
<1>1. /\ job[p] \in Job /\ JobShape(job[p]) /\ KnownJob(job[p]) /\ PlacedJob(job[p]) /\ Types
  BY JobFacts
<1>2. used' \in Used /\ used'.commands = used.commands
  BY <1>1, Spends
<1>3. /\ \A r \in Serials : ~OwnsRoot(job[p], r)
      /\ \A h \in Handles : ~OwnsKey(job[p], h)
  BY DEF OwnsRoot, OwnsKey, Enrolling, Minting, Reading
<1>4. ~Stamps(k) /\ ~Redeems(k)
  BY DEF Stamps, Redeems, Asking, Minting, Reading
<1>5. KnownJob(k) /\ PlacedJob(k)
  BY <1>1 DEF KnownJob, PlacedJob, Minting, Reading, Returns
<1> QED BY <1>2, <1>3, <1>4, <1>5, QuietStep DEF Minting, Reading

\* Discover preserves the invariant.
LEMMA DiscoverStep ==
  ASSUME StoreInv, NEW p \in CLIs, Discover(p)
  PROVE  StoreInv'
<1>1. /\ job[p] \in Job /\ JobShape(job[p]) /\ KnownJob(job[p]) /\ Types /\ Documents
  BY JobFacts
<1>2. job[p].at = "context" /\ UNCHANGED <<creds, edgeFile, keyring, idp, issued>>
  BY DEF Discover, World
<1>3. /\ UNCHANGED ghost /\ (Fault \/ NoFault)
  <2>1. PICK outs \in Outcomes : Ask(outs, job[p].cmd = "getToken")
    BY DEF Discover
  <2>2. (job[p].cmd = "getToken") \in BOOLEAN
    OBVIOUS
  <2> QED BY <2>1, <2>2, AskOnce
<1>4. /\ job[p].oldEdge = NoEdge /\ job[p].root = 0 /\ ~job[p].retried /\ job[p].gen # 0 /\ job[p].gen \in Gens
      /\ job[p].who = ghost.owner[job[p].gen] /\ job[p].cmd \in {"getToken", "rotate", "whoami"}
  BY <1>1, <1>2 DEF JobShape, KnownJob, Minting, Asking, Job
<1>5. job[p].at \notin Enrolling \cup {"cleanup"} /\ job[p].at \in Minting
      /\ MayBind(job[p]) /\ MayRebind(job[p])
  BY <1>2 DEF Enrolling, Minting, MayBind, MayRebind
<1>6. CASE \/ job[p].cmd = "whoami" /\ Set(p, [job[p] EXCEPT !.at = "ok"])
           \/ Unavailable(p) \/ Changed(p)
  BY <1>2, <1>3, <1>5, <1>6, StopSteps
<1>7. ASSUME job[p].cmd # "whoami", ~Fenced(p),
             Set(p, IF job[p].cmd = "getToken" /\ ~job[p].force /\ creds.eia[eiaCacheKeyFor("human", job[p].gen)].fresh
                    THEN [job[p] EXCEPT !.at = "ok", !.who = creds.eia[eiaCacheKeyFor("human", job[p].gen)].who]
                    ELSE IF job[p].cmd = "getToken" /\ creds.sessions[job[p].gen].fresh
                    THEN [job[p] EXCEPT !.at = "session_key", !.token = creds.sessions[job[p].gen].token]
                    ELSE [job[p] EXCEPT !.at = "sts_login"])
      PROVE  StoreInv'
  <2>1. creds.gen = job[p].gen
    BY <1>7 DEF Fenced
  <2>2. CASE /\ creds.eia[eiaCacheKeyFor("human", job[p].gen)].fresh
             /\ Set(p, [job[p] EXCEPT !.at = "ok", !.who = creds.eia[eiaCacheKeyFor("human", job[p].gen)].who])
    <3>1. eiaCacheKeyFor("human", job[p].gen) \in Handles
      BY <1>4, HandleFacts DEF eiaCacheKeyFor
    <3>2. PICK w \in Accounts : w = creds.eia[eiaCacheKeyFor("human", job[p].gen)].who /\ w = ghost.owner[job[p].gen]
      BY <1>4, <2>1, <2>2, <3>1, CachedWho
    <3> QED BY <1>2, <1>3, <1>5, <2>2, <3>2, StopSteps
  <2>3. CASE /\ job[p].cmd = "getToken" /\ creds.sessions[job[p].gen].fresh
             /\ Set(p, [job[p] EXCEPT !.at = "session_key", !.token = creds.sessions[job[p].gen].token])
    <3>1. /\ creds.sessions[job[p].gen].token \in Serials /\ creds.sessions[job[p].gen].token <= ghost.serial
          /\ issued[creds.sessions[job[p].gen].token].who = ghost.owner[job[p].gen]
      <4>1. creds.sessions[job[p].gen] \in Session
        BY <1>1, <1>4 DEF Types, Data
      <4> QED BY <1>1, <1>4, <2>1, <2>3, <4>1 DEF Documents, Session
    <3>2. PICK k \in Job : k = [job[p] EXCEPT !.at = "session_key", !.token = creds.sessions[job[p].gen].token]
      BY <1>1, <3>1 DEF Job, Ats
    <3>3. /\ k.at = "session_key" /\ k.gen = job[p].gen /\ k.oldEdge = job[p].oldEdge /\ k.root = job[p].root
          /\ k.cmd = job[p].cmd /\ ~k.retried /\ k.who = job[p].who /\ k.token = creds.sessions[job[p].gen].token
      BY <1>1, <1>4, <3>2 DEF Job
    <3>4. JobShape(k)
      BY <1>4, <2>3, <3>3 DEF JobShape, Asking, Minting, Reading, Enrolling, Returns
    <3>5. job' = [job EXCEPT ![p] = k]
      BY <2>3, <3>2 DEF Set
    <3>6. k.at \in Minting /\ k.at \notin Reading
      BY <3>3 DEF Minting, Reading
    <3> QED BY <1>2, <1>3, <1>4, <1>5, <3>1, <3>3, <3>4, <3>5, <3>6, GoesOn
  <2>4. CASE Set(p, [job[p] EXCEPT !.at = "sts_login"])
    <3>2. PICK k \in Job : k = [job[p] EXCEPT !.at = "sts_login"]
      BY <1>1 DEF Job, Ats
    <3>3. /\ k.at = "sts_login" /\ k.gen = job[p].gen /\ k.oldEdge = job[p].oldEdge /\ k.root = job[p].root
          /\ k.cmd = job[p].cmd /\ ~k.retried /\ k.who = job[p].who
      BY <1>1, <1>4, <3>2 DEF Job
    <3>4. JobShape(k)
      BY <1>4, <1>7, <3>3 DEF JobShape, Asking, Minting, Reading, Enrolling, Returns
    <3>5. job' = [job EXCEPT ![p] = k]
      BY <2>4, <3>2 DEF Set
    <3>6. k.at \in Minting /\ k.at \notin Reading
      BY <3>3 DEF Minting, Reading
    <3> QED BY <1>2, <1>3, <1>4, <1>5, <3>3, <3>4, <3>5, <3>6, GoesOn
  <2> QED BY <1>7, <2>2, <2>3, <2>4
<1> QED BY <1>6, <1>7 DEF Discover

\* SessionKey preserves the invariant.
LEMMA SessionKeyStep ==
  ASSUME StoreInv, NEW p \in CLIs, SessionKey(p)
  PROVE  StoreInv'
<1>1. /\ job[p] \in Job /\ JobShape(job[p]) /\ KnownJob(job[p]) /\ Types
  BY JobFacts
<1>2. job[p].at = "session_key" /\ UNCHANGED <<creds, edgeFile, keyring, idp, issued, ghost>> /\ (Fault \/ NoFault)
  BY DEF SessionKey, World
<1>3. /\ job[p].oldEdge = NoEdge /\ job[p].root = 0 /\ ~job[p].retried /\ job[p].gen # 0 /\ job[p].gen \in Gens
      /\ job[p].who = ghost.owner[job[p].gen] /\ job[p].cmd = "getToken"
      /\ job[p].token <= ghost.serial /\ issued[job[p].token].who = ghost.owner[job[p].gen]
  BY <1>1, <1>2 DEF JobShape, KnownJob, Minting, Asking, Job
<1>4. MayBind(job[p]) /\ MayRebind(job[p])
  BY <1>2 DEF MayBind, MayRebind
<1>5. loadSessionKey(sessionKeyHandle("human", job[p].gen)) \in Serials
  <2>1. keyring[<<"human", job[p].gen>>] \in Serials
    BY <1>1, <1>3, HandleFacts DEF Types
  <2> QED BY <2>1 DEF loadSessionKey, Get, sessionKeyHandle
<1>6. PICK key \in Serials, a \in {"sts_login", "exchange"} : Set(p, [job[p] EXCEPT !.key = key, !.at = a])
  BY <1>5, NumberFacts DEF SessionKey
<1>7. PICK k \in Job : k = [job[p] EXCEPT !.key = key, !.at = a]
  BY <1>1 DEF Job, Ats
<1>8. /\ k.at = a /\ k.gen = job[p].gen /\ k.oldEdge = job[p].oldEdge /\ k.root = job[p].root
      /\ k.cmd = job[p].cmd /\ ~k.retried /\ k.who = job[p].who /\ k.token = job[p].token
  BY <1>1, <1>3, <1>7 DEF Job
<1>9. JobShape(k)
  BY <1>3, <1>8 DEF JobShape, Asking, Minting, Reading, Enrolling, Returns
<1>10. job' = [job EXCEPT ![p] = k]
  BY <1>6, <1>7 DEF Set
<1>11. k.at \in Minting /\ k.at \notin Reading /\ job[p].at \in Minting
  BY <1>2, <1>8 DEF Minting, Reading
<1> QED BY <1>2, <1>3, <1>4, <1>8, <1>9, <1>10, <1>11, GoesOn

\* Exchange preserves the invariant.
LEMMA ExchangeStep ==
  ASSUME StoreInv, NEW p \in CLIs, Exchange(p)
  PROVE  StoreInv'
<1>1. /\ job[p] \in Job /\ JobShape(job[p]) /\ KnownJob(job[p]) /\ Types
  BY JobFacts
<1>2. /\ job[p].at = "exchange" /\ UNCHANGED <<creds, edgeFile, keyring, idp, issued, ghost>>
      /\ (Fault \/ NoFault)
  BY DEF Exchange, World
<1>3. /\ job[p].oldEdge = NoEdge /\ job[p].root = 0 /\ job[p].gen # 0 /\ job[p].cmd = "getToken"
      /\ job[p].who = ghost.owner[job[p].gen] /\ (job[p].retried => job[p].key = job[p].token)
      /\ job[p].token <= ghost.serial /\ issued[job[p].token].who = ghost.owner[job[p].gen]
      /\ job[p].token \in Serials
  BY <1>1, <1>2 DEF JobShape, KnownJob, Minting, Asking, Job
<1>4. job[p].at \notin Enrolling \cup {"cleanup"} /\ job[p].at \in Minting
  BY <1>2 DEF Enrolling, Minting
<1>5. CASE Unavailable(p)
  BY <1>2, <1>4, <1>5, StopSteps
<1>6. CASE Set(p, [job[p] EXCEPT !.at = "cache", !.who = issued[job[p].token].who])
  <2>1. issued[job[p].token].who \in Accounts
    BY <1>1, <1>3 DEF Types, IssuedRecord
  <2>2. PICK k \in Job : k = [job[p] EXCEPT !.at = "cache", !.who = issued[job[p].token].who]
    BY <1>1, <2>1 DEF Job, Ats
  <2>3. /\ k.at = "cache" /\ k.gen = job[p].gen /\ k.oldEdge = job[p].oldEdge /\ k.root = job[p].root
        /\ k.cmd = job[p].cmd /\ k.who = ghost.owner[job[p].gen] /\ k.token = job[p].token
    BY <1>1, <1>3, <2>2 DEF Job
  <2>4. JobShape(k) /\ ~MayBind(k) /\ ~MayRebind(k) /\ k.at \notin Reading
    BY <1>3, <2>3 DEF JobShape, Asking, Minting, Reading, Enrolling, Returns, MayBind, MayRebind
  <2>5. job' = [job EXCEPT ![p] = k]
    BY <1>6, <2>2 DEF Set
  <2> QED BY <1>2, <1>3, <1>4, <2>3, <2>4, <2>5, GoesOn
<1>7. CASE job[p].retried /\ ~accepts(job[p].token, job[p].key) /\ Set(p, [job[p] EXCEPT !.at = "unavailable"])
  <2>1. ~Live(job[p].token)
    BY <1>3, <1>7 DEF accepts
  <2> QED BY <1>2, <1>4, <1>7, <2>1, StopSteps
<1>8. CASE ~job[p].retried /\ Set(p, [job[p] EXCEPT !.at = "sts_login", !.retried = TRUE])
  <2>2. PICK k \in Job : k = [job[p] EXCEPT !.at = "sts_login", !.retried = TRUE]
    BY <1>1 DEF Job, Ats
  <2>3. /\ k.at = "sts_login" /\ k.gen = job[p].gen /\ k.oldEdge = job[p].oldEdge /\ k.root = job[p].root
        /\ k.cmd = job[p].cmd /\ k.who = job[p].who /\ k.token = job[p].token /\ k.retried
    BY <1>1, <2>2 DEF Job
  <2>4. JobShape(k) /\ ~MayRebind(k) /\ k.at \notin Reading /\ k.at \in Minting
    BY <1>3, <2>3 DEF JobShape, Asking, Minting, Reading, Enrolling, Returns, MayRebind
  <2>5. job' = [job EXCEPT ![p] = k] /\ MayBind(job[p])
    BY <1>2, <1>8, <2>2 DEF Set, MayBind
  <2> QED BY <1>2, <1>3, <1>4, <2>3, <2>4, <2>5, GoesOn
<1> QED BY <1>5, <1>6, <1>7, <1>8 DEF Exchange

\* An edge command is told to sign in again.
LEMMA EdgeReloginStep ==
  ASSUME StoreInv, NEW p \in CLIs, job[p].at \in Reading,
         UNCHANGED <<creds, edgeFile, keyring, idp, issued, ghost>>, Fault \/ NoFault,
         \/ EdgeRefused(p)
         \/ /\ EdgeRelogin(p)
            /\ ~Live(job[p].root) \/ EdgeKeyOf(job[p].gen) \in ghost.purged \/ ghost.last.gen # job[p].gen
  PROVE  StoreInv'
<1>1. /\ job[p] \in Job /\ JobShape(job[p]) /\ KnownJob(job[p]) /\ PlacedJob(job[p]) /\ Types
  BY JobFacts
<1>2. used' \in Used /\ used'.commands = used.commands
  BY <1>1, Spends
<1>3. PICK k \in Job :
        /\ job' = [job EXCEPT ![p] = k]
        /\ k.at = "relogin" /\ k.gen = job[p].gen /\ k.oldEdge = job[p].oldEdge /\ k.root = job[p].root
        /\ k.token = job[p].token /\ k.retried = job[p].retried
        /\ k.hit \/ ~Live(k.root) \/ EdgeKeyOf(k.gen) \in ghost.purged \/ ghost.last.gen # k.gen
  <2>1. CASE EdgeRefused(p)
    <3>1. PICK k \in Job : k = [job[p] EXCEPT !.at = "relogin", !.hit = TRUE]
      BY <1>1 DEF Job, Ats
    <3>2. /\ k.at = "relogin" /\ k.gen = job[p].gen /\ k.oldEdge = job[p].oldEdge /\ k.root = job[p].root
          /\ k.token = job[p].token /\ k.retried = job[p].retried /\ k.hit
      BY <1>1, <3>1 DEF Job
    <3>3. job' = [job EXCEPT ![p] = k]
      BY <2>1, <3>1 DEF EdgeRefused, Set
    <3> QED BY <3>2, <3>3
  <2>2. CASE /\ EdgeRelogin(p)
             /\ ~Live(job[p].root) \/ EdgeKeyOf(job[p].gen) \in ghost.purged \/ ghost.last.gen # job[p].gen
    <3>1. PICK k \in Job : k = [job[p] EXCEPT !.at = "relogin"]
      BY <1>1 DEF Job, Ats
    <3>2. /\ k.at = "relogin" /\ k.gen = job[p].gen /\ k.oldEdge = job[p].oldEdge /\ k.root = job[p].root
          /\ k.token = job[p].token /\ k.retried = job[p].retried
      BY <1>1, <3>1 DEF Job
    <3>3. job' = [job EXCEPT ![p] = k]
      BY <2>2, <3>1 DEF EdgeRelogin, Set
    <3> QED BY <2>2, <3>2, <3>3
  <2> QED BY <2>1, <2>2
<1>4. /\ k.at = "relogin" /\ k.gen = job[p].gen /\ k.oldEdge = job[p].oldEdge /\ k.root = job[p].root
      /\ k.token = job[p].token /\ k.retried = job[p].retried
  BY <1>3
<1>5. JobShape(k) /\ ~Stamps(k) /\ ~Redeems(k) /\ ~MayBind(k) /\ ~MayRebind(k)
  BY <1>4 DEF JobShape, Asking, Minting, Reading, Enrolling, Returns, Stamps, Redeems, MayBind, MayRebind
<1>6. k.root # 0
  BY <1>1, <1>4 DEF JobShape
<1>7. KnownJob(k) /\ PlacedJob(k)
  BY <1>1, <1>3, <1>6 DEF KnownJob, PlacedJob, Minting, Reading, Returns
<1>8. /\ \A r \in Serials : ~OwnsRoot(job[p], r)
      /\ \A h \in Handles : ~OwnsKey(job[p], h)
  BY DEF OwnsRoot, OwnsKey, Enrolling, Reading
<1>9. job' = [job EXCEPT ![p] = k]
  BY <1>3
<1> QED BY <1>2, <1>4, <1>5, <1>7, <1>8, <1>9, QuietStep

\* EdgeKey preserves the invariant.
LEMMA EdgeKeyStep ==
  ASSUME StoreInv, NEW p \in CLIs, EdgeKey(p)
  PROVE  StoreInv'
<1>1. /\ job[p] \in Job /\ JobShape(job[p]) /\ KnownJob(job[p]) /\ PlacedJob(job[p]) /\ Types /\ Documents /\ InForce
  BY JobFacts
<1>2. /\ job[p].at = "edge_key" /\ UNCHANGED <<creds, edgeFile, keyring, idp, issued, ghost>>
      /\ (Fault \/ NoFault)
  BY DEF EdgeKey, World
<1>3. /\ job[p].root # 0 /\ job[p].gen # 0 /\ job[p].gen \in Gens /\ job[p].cmd \in {"getToken", "whoami"}
      /\ job[p].at \in Reading
  BY <1>1, <1>2 DEF JobShape, Reading, Job
<1>4. PICK key \in Serials : key = keyring[EdgeKeyOf(job[p].gen)]
  BY <1>1, <1>3, HandleFacts DEF Types
<1>5. key \in {0, job[p].root}
  BY <1>1, <1>2, <1>4 DEF PlacedJob
<1>6. key = loadSessionKey(sessionKeyHandle("edge-device", job[p].gen))
  BY <1>4 DEF loadSessionKey, sessionKeyHandle, Get, EdgeKeyOf
<1>r. CASE EdgeRefused(p)
  BY <1>2, <1>3, <1>r, EdgeReloginStep
<1>7. CASE key = 0 /\ ~EdgeRefused(p)
  <2>1. EdgeRelogin(p)
    BY <1>6, <1>7 DEF EdgeKey
  <2>2. EdgeKeyOf(job[p].gen) \in ghost.purged \/ ghost.last.gen # job[p].gen
    BY <1>1, <1>3, <1>4, <1>7 DEF PlacedJob, Documents, InForce
  <2> QED BY <1>2, <1>3, <2>1, <2>2, EdgeReloginStep
<1>8. CASE key # 0 /\ ~EdgeRefused(p)
  <2>1. PICK k \in Job : k = [job[p] EXCEPT !.key = key, !.at = "edge_context"]
    BY <1>1 DEF Job, Ats
  <2>2. /\ k.at = "edge_context" /\ k.gen = job[p].gen /\ k.oldEdge = job[p].oldEdge /\ k.root = job[p].root
        /\ k.cmd = job[p].cmd /\ k.key = job[p].root /\ k.retried = job[p].retried /\ k.token = job[p].token
    BY <1>1, <1>5, <1>8, <2>1 DEF Job
  <2>3. JobShape(k) /\ ~MayBind(k) /\ ~MayRebind(k) /\ k.at \in Reading /\ k.at \notin Minting
    BY <1>3, <2>2 DEF JobShape, Asking, Minting, Reading, Enrolling, Returns, MayBind, MayRebind
  <2>4. job' = [job EXCEPT ![p] = k]
    BY <1>6, <1>8, <2>1 DEF Set, EdgeKey
  <2>5. k.retried => k.token <= ghost.serial
    BY <1>1, <2>2 DEF KnownJob
  <2> QED BY <1>2, <1>3, <2>2, <2>3, <2>4, <2>5, GoesOn
<1> QED BY <1>r, <1>7, <1>8

\* EdgeDiscover preserves the invariant.
LEMMA EdgeDiscoverStep ==
  ASSUME StoreInv, NEW p \in CLIs, EdgeDiscover(p)
  PROVE  StoreInv'
<1>1. /\ job[p] \in Job /\ JobShape(job[p]) /\ KnownJob(job[p]) /\ PlacedJob(job[p]) /\ Types /\ Documents /\ InForce
  BY JobFacts
<1>2. job[p].at = "edge_context" /\ UNCHANGED <<creds, edgeFile, keyring, idp, issued>>
  BY DEF EdgeDiscover, World
<1>3. UNCHANGED ghost /\ (Fault \/ NoFault)
  <2>1. PICK outs \in Outcomes : Ask(outs, FALSE)
    BY DEF EdgeDiscover
  <2> QED BY <2>1, AskOnce
<1>4. /\ job[p].root # 0 /\ job[p].gen # 0 /\ job[p].gen \in Gens /\ job[p].cmd \in {"getToken", "whoami"}
      /\ job[p].at \in Reading /\ job[p].key = job[p].root /\ job[p].at \notin Enrolling \cup {"cleanup"}
  BY <1>1, <1>2 DEF JobShape, Reading, Enrolling, Job
<1>5. CASE Unavailable(p) \/ Changed(p)
  BY <1>2, <1>3, <1>4, <1>5, StopSteps
<1>6. CASE EdgeRefused(p) \/ (~accepts(job[p].root, job[p].key) /\ EdgeRelogin(p))
  BY <1>2, <1>3, <1>4, <1>6, EdgeReloginStep DEF accepts
<1>7. CASE job[p].cmd = "whoami" /\ Set(p, [job[p] EXCEPT !.at = "ok"])
  BY <1>2, <1>3, <1>4, <1>7, StopSteps
<1>8. CASE /\ ~Fenced(p) /\ creds.eia[eiaCacheKeyFor("edge-device", job[p].gen)].fresh
           /\ Set(p, [job[p] EXCEPT !.at = "ok", !.who = creds.eia[eiaCacheKeyFor("edge-device", job[p].gen)].who])
  <2>1. eiaCacheKeyFor("edge-device", job[p].gen) \in Handles
    BY <1>4, HandleFacts DEF eiaCacheKeyFor, EdgeKeyOf
  <2>2. PICK w \in Accounts : /\ w = creds.eia[eiaCacheKeyFor("edge-device", job[p].gen)].who
                              /\ w = ghost.owner[job[p].gen]
    BY <1>4, <1>8, <2>1, CachedWho DEF Fenced
  <2> QED BY <1>2, <1>3, <1>4, <1>8, <2>2, StopSteps
<1>9. CASE Set(p, [job[p] EXCEPT !.at = "edge_exchange"])
  <2>1. PICK k \in Job : k = [job[p] EXCEPT !.at = "edge_exchange"]
    BY <1>1 DEF Job, Ats
  <2>2. /\ k.at = "edge_exchange" /\ k.gen = job[p].gen /\ k.oldEdge = job[p].oldEdge /\ k.root = job[p].root
        /\ k.cmd = job[p].cmd /\ k.key = job[p].root /\ k.retried = job[p].retried /\ k.token = job[p].token
    BY <1>1, <1>4, <2>1 DEF Job
  <2>3. JobShape(k) /\ ~MayBind(k) /\ ~MayRebind(k) /\ k.at \in Reading /\ k.at \notin Minting
    BY <1>4, <2>2 DEF JobShape, Asking, Minting, Reading, Enrolling, Returns, MayBind, MayRebind
  <2>4. job' = [job EXCEPT ![p] = k]
    BY <1>9, <2>1 DEF Set
  <2>5. k.retried => k.token <= ghost.serial
    BY <1>1, <2>2 DEF KnownJob
  <2> QED BY <1>2, <1>3, <1>4, <2>2, <2>3, <2>4, <2>5, GoesOn
<1> QED BY <1>5, <1>6, <1>7, <1>8, <1>9 DEF EdgeDiscover

\* EdgeExchange preserves the invariant.
LEMMA EdgeExchangeStep ==
  ASSUME StoreInv, NEW p \in CLIs, EdgeExchange(p)
  PROVE  StoreInv'
<1>1. /\ job[p] \in Job /\ JobShape(job[p]) /\ KnownJob(job[p]) /\ Types
  BY JobFacts
<1>2. /\ job[p].at = "edge_exchange" /\ UNCHANGED <<creds, edgeFile, keyring, idp, issued, ghost>>
      /\ (Fault \/ NoFault)
  BY DEF EdgeExchange, World
<1>4. /\ job[p].root # 0 /\ job[p].gen # 0 /\ job[p].root \in Serials /\ job[p].cmd \in {"getToken", "whoami"}
      /\ job[p].at \in Reading /\ job[p].key = job[p].root /\ job[p].at \notin Enrolling \cup {"cleanup"}
      /\ issued[job[p].root].who = ghost.owner[job[p].gen]
  BY <1>1, <1>2 DEF JobShape, KnownJob, Reading, Enrolling, Job
<1>5. CASE Unavailable(p)
  BY <1>2, <1>4, <1>5, StopSteps
<1>6. CASE EdgeRefused(p) \/ (~accepts(job[p].root, job[p].key) /\ EdgeRelogin(p))
  BY <1>2, <1>4, <1>6, EdgeReloginStep DEF accepts
<1>7. CASE Set(p, [job[p] EXCEPT !.at = "cache", !.who = issued[job[p].root].who])
  <2>1. issued[job[p].root].who \in Accounts
    BY <1>1, <1>4 DEF Types, IssuedRecord
  <2>2. PICK k \in Job : k = [job[p] EXCEPT !.at = "cache", !.who = issued[job[p].root].who]
    BY <1>1, <2>1 DEF Job, Ats
  <2>3. /\ k.at = "cache" /\ k.gen = job[p].gen /\ k.oldEdge = job[p].oldEdge /\ k.root = job[p].root
        /\ k.cmd = job[p].cmd /\ k.who = ghost.owner[job[p].gen] /\ k.token = job[p].token
        /\ k.retried = job[p].retried
    BY <1>1, <1>4, <2>2 DEF Job
  <2>4. JobShape(k) /\ ~MayBind(k) /\ ~MayRebind(k) /\ k.at \notin Reading
    BY <1>4, <2>3 DEF JobShape, Asking, Minting, Reading, Enrolling, Returns, MayBind, MayRebind
  <2>5. job' = [job EXCEPT ![p] = k]
    BY <1>7, <2>2 DEF Set
  <2>6. k.retried => k.token <= ghost.serial
    BY <1>1, <2>3 DEF KnownJob
  <2> QED BY <1>2, <1>4, <2>3, <2>4, <2>5, <2>6, GoesOn
<1> QED BY <1>5, <1>6, <1>7 DEF EdgeExchange

\* An edge sign-in that fails keeps its root until it has revoked it.
LEMMA AbandonsLater ==
  ASSUME StoreInv, NEW p \in CLIs, NEW k \in Job, job' = [job EXCEPT ![p] = k],
         UNCHANGED <<creds, edgeFile, keyring, idp, issued, ghost>>, Fault \/ NoFault,
         job[p].at \in {"confirm", "edge_enrol", "edge_commit"},
         \/ k = [job[p] EXCEPT !.at = "edge_enrol"] /\ job[p].at = "confirm"
         \/ k = [job[p] EXCEPT !.at = "abandon", !.hit = TRUE] /\ job[p].at # "edge_commit"
         \/ /\ k = [job[p] EXCEPT !.at = "abandon", !.hit = TRUE, !.orphans = {EdgeKeyOf(job[p].gen)}]
            /\ job[p].at = "edge_commit"
  PROVE  StoreInv'
<1>1. /\ job[p] \in Job /\ JobShape(job[p]) /\ KnownJob(job[p]) /\ PlacedJob(job[p]) /\ Types /\ Documents
  BY JobFacts
<1>2. used' \in Used /\ used'.commands = used.commands
  BY <1>1, Spends
<1>3. /\ k.at \in {"edge_enrol", "abandon"} /\ k.gen = job[p].gen /\ k.oldEdge = job[p].oldEdge
      /\ k.root = job[p].root /\ k.cmd = job[p].cmd /\ k.key = job[p].key /\ k.token = job[p].token
      /\ k.retried = job[p].retried
      /\ k.at = "edge_enrol" => job[p].at = "confirm"
      /\ job[p].at # "edge_commit" => k.orphans = job[p].orphans
      /\ job[p].at = "edge_commit" => k.orphans = {EdgeKeyOf(job[p].gen)} /\ k.at = "abandon"
  <2>1. CASE k = [job[p] EXCEPT !.at = "edge_enrol"] /\ job[p].at = "confirm"
    BY <1>1, <2>1 DEF Job
  <2>2. CASE k = [job[p] EXCEPT !.at = "abandon", !.hit = TRUE] /\ job[p].at # "edge_commit"
    BY <1>1, <2>2 DEF Job
  <2>3. CASE /\ k = [job[p] EXCEPT !.at = "abandon", !.hit = TRUE, !.orphans = {EdgeKeyOf(job[p].gen)}]
             /\ job[p].at = "edge_commit"
    BY <1>1, <2>3 DEF Job
  <2> QED BY <2>1, <2>2, <2>3
<1>4. /\ job[p].cmd = "edgeLogin" /\ job[p].oldEdge = NoEdge /\ job[p].root # 0 /\ job[p].key = job[p].root
      /\ job[p].orphans = {} /\ (job[p].at # "edge_commit" => job[p].gen = 0)
      /\ (job[p].at = "edge_commit" => job[p].gen # 0)
  BY <1>1 DEF JobShape, Enrolling
<1>5. JobShape(k)
  BY <1>3, <1>4 DEF JobShape, Asking, Minting, Reading, Enrolling, Returns
<1>6. KnownJob(k)
  BY <1>1, <1>3 DEF KnownJob, Minting, Reading, Returns
<1>7. PlacedJob(k)
  BY <1>1, <1>3, <1>4 DEF PlacedJob, Reading, Documents
<1>8. ~Redeems(k) /\ ~MayBind(k) /\ ~MayRebind(k) /\ (Stamps(k) => Stamps(job[p]))
  BY <1>3 DEF Stamps, Redeems, MayBind, MayRebind, Asking, Returns
<1>9. \A r \in Serials : OwnsRoot(job[p], r) => OwnsRoot(k, r)
  BY <1>3 DEF OwnsRoot, Enrolling
<1>10. \A h \in Handles : OwnsKey(job[p], h) => OwnsKey(k, h)
  <2>1. ASSUME NEW h \in Handles, OwnsKey(job[p], h) PROVE OwnsKey(k, h)
    <3>1. job[p].at = "edge_commit" /\ h[1] = "edge-device" /\ h[2] = job[p].gen
      BY <2>1 DEF OwnsKey
    <3>2. h = EdgeKeyOf(job[p].gen)
      BY <3>1, HandleFacts DEF EdgeKeyOf
    <3> QED BY <1>3, <3>1, <3>2 DEF OwnsKey
  <2> QED BY <2>1
<1> QED BY <1>2, <1>3, <1>5, <1>6, <1>7, <1>8, <1>9, <1>10, QuietStep

\* EdgeConfirm preserves the invariant.
LEMMA EdgeConfirmStep ==
  ASSUME StoreInv, NEW p \in CLIs, EdgeConfirm(p)
  PROVE  StoreInv'
<1>1. job[p] \in Job
  BY JobFacts
<1>2. /\ job[p].at = "confirm" /\ UNCHANGED <<creds, edgeFile, keyring, idp, issued, ghost>>
      /\ (Fault \/ NoFault)
  BY DEF EdgeConfirm, World
<1>3. CASE Set(p, [job[p] EXCEPT !.at = "edge_enrol"])
  <2>1. PICK k \in Job : k = [job[p] EXCEPT !.at = "edge_enrol"]
    BY <1>1 DEF Job, Ats
  <2> QED BY <1>2, <1>3, <2>1, AbandonsLater DEF Set
<1>4. CASE Set(p, [job[p] EXCEPT !.at = "abandon", !.hit = TRUE])
  <2>1. PICK k \in Job : k = [job[p] EXCEPT !.at = "abandon", !.hit = TRUE]
    BY <1>1 DEF Job, Ats
  <2> QED BY <1>2, <1>4, <2>1, AbandonsLater DEF Set
<1> QED BY <1>3, <1>4 DEF EdgeConfirm

\* LogoutSnapshot preserves the invariant.
LEMMA LogoutSnapshotStep ==
  ASSUME StoreInv, NEW p \in CLIs, LogoutSnapshot(p)
  PROVE  StoreInv'
<1>1. /\ job[p] \in Job /\ JobShape(job[p]) /\ KnownJob(job[p]) /\ Types /\ Documents
  BY JobFacts
<1>2. /\ job[p].at = "logout" /\ UNCHANGED <<creds, edgeFile, keyring, idp, issued, ghost>> /\ NoFault
  BY DEF LogoutSnapshot, World, NoFault
<1>3. used' \in Used /\ used'.commands = used.commands
  BY <1>1, <1>2, Spends
<1>4. PICK k \in Job : k = [job[p] EXCEPT !.at = "revoke", !.refresh = creds.refresh, !.oldEdge = edgeFile]
  BY <1>1 DEF Job, Ats, Types, Data
<1>5. /\ k.at = "revoke" /\ k.gen = job[p].gen /\ k.oldEdge = edgeFile /\ k.root = job[p].root
      /\ k.cmd = job[p].cmd /\ k.token = job[p].token /\ k.retried = job[p].retried
  BY <1>1, <1>4 DEF Job
<1>6. JobShape(k)
  BY <1>1, <1>2, <1>5 DEF JobShape, Asking, Minting, Reading, Enrolling, Returns
<1>7. KnownJob(k) /\ PlacedJob(k)
  BY <1>1, <1>5 DEF KnownJob, PlacedJob, Documents, Minting, Reading, Returns
<1>8. ~Stamps(k) /\ ~Redeems(k) /\ ~MayBind(k) /\ ~MayRebind(k)
  BY <1>5 DEF Stamps, Redeems, MayBind, MayRebind, Asking, Returns
<1>9. /\ \A r \in Serials : ~OwnsRoot(job[p], r)
      /\ \A h \in Handles : ~OwnsKey(job[p], h)
  BY <1>2 DEF OwnsRoot, OwnsKey, Enrolling
<1>10. job' = [job EXCEPT ![p] = k]
  BY <1>4 DEF LogoutSnapshot, Set
<1> QED BY <1>2, <1>3, <1>5, <1>6, <1>7, <1>8, <1>9, <1>10, QuietStep

\* A command at rest owns nothing and will create nothing.
LEMMA Resting ==
  ASSUME NEW k \in Job, k.at \in {"idle", "ok", "changed", "unavailable"}
  PROVE  /\ JobShape(k) /\ PlacedJob(k) /\ PlacedJob(k)'
         /\ ~Stamps(k) /\ ~Redeems(k) /\ ~MayBind(k) /\ ~MayRebind(k)
         /\ \A r : ~OwnsRoot(k, r)
         /\ \A h : ~OwnsKey(k, h)
<1>1. JobShape(k)
  BY DEF JobShape, Asking, Minting, Reading, Enrolling, Returns
<1>2. PlacedJob(k) /\ PlacedJob(k)'
  BY DEF PlacedJob, Reading
<1>3. ~Stamps(k) /\ ~Redeems(k) /\ ~MayBind(k) /\ ~MayRebind(k)
  BY DEF Stamps, Redeems, MayBind, MayRebind, Asking, Returns
<1>4. (\A r : ~OwnsRoot(k, r)) /\ (\A h : ~OwnsKey(k, h))
  BY DEF OwnsRoot, OwnsKey, Enrolling
<1> QED BY <1>1, <1>2, <1>3, <1>4

\* What a command at rest reports is so.
LEMMA RestKnown ==
  ASSUME StoreInv, Types', Grows, NEW p \in CLIs, NEW k \in Job,
         k.at \in {"idle", "ok", "changed", "unavailable"},
         k.gen \in {0, job[p].gen}, k.oldEdge.gen \in {0, job[p].oldEdge.gen}, k.root \in {0, job[p].root},
         k.retried => job[p].retried /\ k.token = job[p].token,
         k.at = "unavailable" => k.hit,
         k.at = "ok" /\ k.cmd = "getToken" => k.who = ghost'.owner[k.gen]
  PROVE  KnownJob(k)'
<1>1. job[p] \in Job /\ KnownJob(job[p]) /\ Types
  BY JobFacts
<1>2. /\ job[p].gen \in Nat /\ job[p].oldEdge.gen \in Nat /\ job[p].root \in Nat /\ job[p].token \in Nat
      /\ ghost.gens \in Nat /\ ghost'.gens \in Nat /\ ghost.serial \in Nat /\ ghost'.serial \in Nat
  BY <1>1, NumberFacts DEF Job, EdgeRecord, Types, Ghost
<1>3. /\ k.gen <= ghost'.gens /\ k.oldEdge.gen <= ghost'.gens /\ k.root <= ghost'.serial
      /\ (k.retried => k.token <= ghost'.serial)
  BY <1>1, <1>2 DEF KnownJob, Grows
<1> QED BY <1>3 DEF KnownJob, Minting, Reading, Returns

\* The generation of a login about to commit is its own.
LEMMA ApartFrom ==
  ASSUME StoreInv, NEW p \in CLIs, NEW q \in CLIs, q # p, job[q].at = "edge_commit"
  PROVE  /\ job[q].gen \in Gens /\ job[q].gen # 0 /\ job[q].gen # creds.gen /\ job[q].gen # edgeFile.gen
         /\ job[p].gen # job[q].gen /\ job[p].oldEdge.gen # job[q].gen
         /\ job[q].gen <= ghost.gens
BY DEF StoreInv, Types, Job, Jobs, JobShape, KnownJob, PlacedJob, Apart

\* A locked write that leaves the login and its sessions as they are.
SameLogin ==
  /\ creds' \in Data /\ creds'.gen = creds.gen /\ creds'.refresh = creds.refresh /\ creds'.who = creds.who
  /\ creds'.id = "none" <=> creds.id = "none"
  /\ \A g \in Gens : /\ creds'.sessions[g].token = creds.sessions[g].token
                     /\ creds'.sessions[g].fresh => creds.sessions[g].fresh
  /\ \A h \in Handles : creds'.eia[h] # NoEIA => h[2] = creds.gen /\ creds'.eia[h].who = creds.who
  /\ ghost.last.kind = "none" => creds' = EmptyData

\* Writing the document of the same login keeps it sound.
LEMMA SameDocuments ==
  ASSUME StoreInv, SameLogin, UNCHANGED <<edgeFile, keyring, idp, issued, ghost>>
  PROVE  Documents' /\ InForce' /\ Grows
<1>1. Types /\ Documents /\ InForce /\ Room
  BY DEF StoreInv
<1>2. ghost.gens \in Nat /\ ghost.serial \in Nat /\ ghost.tokens \in Nat
  BY <1>1, RoomLeft
<1>3. SessionBound'
  BY <1>1 DEF Documents, SessionBound, SameLogin
<1>4. Documents'
  BY <1>1, <1>3 DEF Documents, SameLogin, Live
<1>5. hasKeycloakLogin(creds)' <=> hasKeycloakLogin(creds)
  BY DEF hasKeycloakLogin, SameLogin
<1>6. activeEdgeSession' <=> activeEdgeSession
  BY DEF activeEdgeSession, SameLogin
<1>7. InForce'
  BY <1>1, <1>5, <1>6 DEF InForce, SameLogin, hasKeycloakLogin
<1> QED BY <1>2, <1>4, <1>7 DEF Grows

\* A command that writes the document of the login it read, and nothing else.
LEMMA WriteStep ==
  ASSUME StoreInv, SameLogin, UNCHANGED <<edgeFile, keyring, idp, issued, ghost>>, Fault \/ NoFault,
         NEW p \in CLIs, NEW k \in Job, job' = [job EXCEPT ![p] = k],
         JobShape(k), KnownJob(k), PlacedJob(k), k.at \notin {"edge_commit", "commit"},
         k.gen = job[p].gen, k.oldEdge = job[p].oldEdge,
         Stamps(k) => Stamps(job[p]), Redeems(k) => Redeems(job[p]),
         MayBind(k) => MayBind(job[p]), MayRebind(k) => MayRebind(job[p]),
         job[p].at \notin Enrolling \cup {"cleanup"}
  PROVE  StoreInv'
<1>1. Types /\ Room /\ Documents /\ InForce
  BY DEF StoreInv
<1>2. used' \in Used /\ used'.commands = used.commands
  BY <1>1, Spends
<1>3. Types'
  BY <1>1, <1>2 DEF Types, SameLogin
<1>4. Room'
  BY <1>1, <1>2, <1>3, RoomStep
<1>5. Documents' /\ InForce' /\ Grows
  BY SameDocuments
<1>6. \A q \in CLIs : q # p => Undisturbed(job[q])
  BY DEF StoreInv, Undisturbed, Jobs, PlacedJob, SameLogin
<1>7. KnownJob(k)' /\ PlacedJob(k)'
  BY DEF KnownJob, PlacedJob, Live, SameLogin
<1>8. Jobs' /\ Apart'
  <2>1. ASSUME NEW q \in CLIs, q # p
        PROVE  /\ job[q].at = "edge_commit" => k.gen # job[q].gen /\ k.oldEdge.gen # job[q].gen
               /\ k.at = "edge_commit" => job[q].gen # k.gen /\ job[q].oldEdge.gen # k.gen
               /\ k.at = "commit" /\ job[q].at = "commit" => job[q].token # k.token
    BY <2>1, ApartFrom
  <2> QED BY <1>3, <1>5, <1>6, <1>7, <2>1, StepJobs
<1>9. Owned'
  <2>1. \A r \in Serials : ~OwnsRoot(job[p], r)
    BY DEF OwnsRoot
  <2>2. \A h \in Handles : ~OwnsKey(job[p], h)
    BY DEF OwnsKey, Enrolling
  <2>3. \A h \in Handles : StoredKey(h) => StoredKey(h)'
    BY HandleFacts DEF StoredKey, SameLogin
  <2> QED BY <2>1, <2>2, <2>3, StepOwned
<1> QED BY <1>3, <1>4, <1>5, <1>8, <1>9 DEF StoreInv

\* The zero document.
LEMMA EmptyFacts ==
  /\ EmptyData.eia \in [Handles -> EIA] /\ \A h \in Handles : EmptyData.eia[h] = NoEIA
  /\ EmptyData.sessions \in [Gens -> Session] /\ \A g \in Gens : EmptyData.sessions[g] = NoSession
  /\ NoSession.token = 0 /\ NoSession.fresh = FALSE
  /\ EmptyData.id = "none" /\ EmptyData.refresh = 0 /\ EmptyData.gen = 0 /\ EmptyData.who = Nobody
  /\ EmptyData \in Data
BY NumberFacts DEF EmptyData, NoEIA, NoSession, EIA, Session, Data

\* ForceRefresh preserves the invariant.
LEMMA ForceRefreshStep ==
  ASSUME StoreInv, NEW p \in CLIs, ForceRefresh(p)
  PROVE  StoreInv'
<1>1. /\ job[p] \in Job /\ JobShape(job[p]) /\ KnownJob(job[p]) /\ Types /\ Documents /\ InForce
  BY JobFacts
<1>2. job[p].at = "invalidate" /\ UNCHANGED <<edgeFile, keyring, idp, issued, ghost>> /\ (Fault \/ NoFault)
  BY DEF ForceRefresh, World
<1>3. job[p].at \notin Enrolling \cup {"cleanup"}
  BY <1>2 DEF Enrolling
<1>4. CASE Unavailable(p) /\ UNCHANGED creds
  BY <1>2, <1>3, <1>4, StopSteps
<1>5. CASE creds' = [creds EXCEPT !.eia = EmptyData.eia] /\ Set(p, [job[p] EXCEPT !.at = "snapshot"])
  <2>1. creds \in Data
    BY <1>1 DEF Types
  <2>2. creds' \in Data
    BY <1>5, <2>1, EmptyFacts DEF Data
  <2>3. /\ creds'.gen = creds.gen /\ creds'.refresh = creds.refresh /\ creds'.who = creds.who
        /\ creds'.id = creds.id /\ creds'.sessions = creds.sessions /\ creds'.eia = EmptyData.eia
    BY <1>5, <2>1 DEF Data
  <2>4. creds = EmptyData => creds' = EmptyData
    BY <1>5 DEF EmptyData
  <2>5. SameLogin
    BY <1>1, <2>2, <2>3, <2>4, EmptyFacts DEF SameLogin, InForce
  <2>6. PICK k \in Job : k = [job[p] EXCEPT !.at = "snapshot"]
    BY <1>1 DEF Job, Ats
  <2>7. /\ k.at = "snapshot" /\ k.gen = job[p].gen /\ k.oldEdge = job[p].oldEdge /\ k.root = job[p].root
        /\ k.cmd = job[p].cmd /\ k.retried = job[p].retried /\ k.token = job[p].token
    BY <1>1, <2>6 DEF Job
  <2>8. JobShape(k) /\ KnownJob(k) /\ PlacedJob(k)
    BY <1>1, <1>2, <2>7 DEF JobShape, KnownJob, PlacedJob, Asking, Minting, Reading, Enrolling, Returns
  <2>9. Stamps(job[p]) /\ Redeems(job[p]) /\ MayBind(job[p]) /\ MayRebind(job[p])
    BY <1>2 DEF Stamps, Redeems, MayBind, MayRebind, Asking
  <2>10. job' = [job EXCEPT ![p] = k]
    BY <1>5, <2>6 DEF Set
  <2> QED BY <1>2, <1>3, <2>5, <2>7, <2>8, <2>9, <2>10, WriteStep
<1> QED BY <1>4, <1>5 DEF ForceRefresh

\* CacheEIA preserves the invariant.
LEMMA CacheEIAStep ==
  ASSUME StoreInv, NEW p \in CLIs, CacheEIA(p)
  PROVE  StoreInv'
<1>1. /\ job[p] \in Job /\ JobShape(job[p]) /\ KnownJob(job[p]) /\ Types /\ Documents /\ InForce
  BY JobFacts
<1>2. job[p].at = "cache" /\ UNCHANGED <<edgeFile, keyring, idp, issued, ghost>> /\ (Fault \/ NoFault)
  BY DEF CacheEIA, World
<1>3. job[p].at \notin Enrolling \cup {"cleanup"} /\ job[p].gen # 0 /\ job[p].gen \in Gens
      /\ job[p].who = ghost.owner[job[p].gen] /\ job[p].who \in Accounts
  BY <1>1, <1>2 DEF Enrolling, JobShape, KnownJob, Job
<1>4. CASE (Changed(p) \/ Unavailable(p)) /\ UNCHANGED creds
  BY <1>2, <1>3, <1>4, StopSteps
<1>5. CASE /\ ~Fenced(p)
           /\ creds' = [creds EXCEPT !.eia[eiaCacheKeyFor(Kind(p), job[p].gen)] = [who |-> job[p].who, fresh |-> TRUE]]
           /\ Set(p, [job[p] EXCEPT !.at = "ok"])
  <2>1. creds \in Data /\ creds.gen = job[p].gen
    BY <1>1, <1>5 DEF Types, Fenced
  <2>2. PICK c \in Handles : c = eiaCacheKeyFor(Kind(p), job[p].gen) /\ c[2] = job[p].gen
    BY <1>3, HandleFacts DEF eiaCacheKeyFor, Kind, EdgeKeyOf
  <2>0. [who |-> job[p].who, fresh |-> TRUE] \in EIA
    BY <1>3 DEF EIA
  <2>3. PICK e \in EIA : e = [who |-> job[p].who, fresh |-> TRUE] /\ e.who = job[p].who
    BY <2>0
  <2>4. creds' = [creds EXCEPT !.eia = [creds.eia EXCEPT ![c] = e]]
    BY <1>5, <2>2, <2>3
  <2>5. creds.eia \in [Handles -> EIA]
    BY <2>1 DEF Data
  <2>6. /\ creds'.gen = creds.gen /\ creds'.refresh = creds.refresh /\ creds'.who = creds.who
        /\ creds'.id = creds.id /\ creds'.sessions = creds.sessions /\ creds'.eia = [creds.eia EXCEPT ![c] = e]
        /\ creds' \in Data
    BY <2>1, <2>4, <2>5 DEF Data
  <2>7. ghost.last.kind # "none"
    BY <1>1, <1>3, <2>1, EmptyFacts DEF InForce
  <2>8. creds.who = job[p].who
    BY <1>1, <1>3, <2>1 DEF Documents
  <2>9. \A h \in Handles : creds'.eia[h] # NoEIA => h[2] = creds.gen /\ creds'.eia[h].who = creds.who
    <3>1. ASSUME NEW h \in Handles, creds'.eia[h] # NoEIA
          PROVE  h[2] = creds.gen /\ creds'.eia[h].who = creds.who
      <4>1. CASE h = c
        BY <2>1, <2>2, <2>3, <2>5, <2>6, <2>8, <4>1
      <4>2. CASE h # c
        <5>1. creds'.eia[h] = creds.eia[h]
          BY <2>5, <2>6, <4>2
        <5> QED BY <1>1, <3>1, <5>1 DEF Documents
      <4> QED BY <4>1, <4>2
    <3> QED BY <3>1
  <2>10. SameLogin
    BY <2>6, <2>7, <2>9 DEF SameLogin
  <2>11. PICK k \in Job : k = [job[p] EXCEPT !.at = "ok"]
    BY <1>1 DEF Job, Ats
  <2>12. /\ k.at = "ok" /\ k.gen = job[p].gen /\ k.oldEdge = job[p].oldEdge /\ k.root = job[p].root
         /\ k.who = job[p].who /\ k.retried = job[p].retried /\ k.token = job[p].token
    BY <1>1, <2>11 DEF Job
  <2>13. KnownJob(k)
    BY <1>1, <1>3, <2>12 DEF KnownJob, Minting, Reading, Returns
  <2>14. job' = [job EXCEPT ![p] = k]
    BY <1>5, <2>11 DEF Set
  <2> QED BY <1>2, <1>3, <2>10, <2>12, <2>13, <2>14, Resting, WriteStep
<1> QED BY <1>4, <1>5 DEF CacheEIA

\* A new session or root, bound to a key the command has just made.
LEMMA BindStep ==
  ASSUME StoreInv, NEW p \in CLIs, NEW k \in Job, job' = [job EXCEPT ![p] = k], NoFault,
         NEW t, t = ghost.serial + 1, NEW kind \in Kinds, NEW w \in Accounts,
         issued' = [issued EXCEPT ![t] = [kind |-> kind, who |-> w, live |-> TRUE]],
         ghost' = [ghost EXCEPT !.serial = t],
         UNCHANGED <<creds, edgeFile, keyring, idp>>,
         JobShape(k), k.gen = job[p].gen, k.oldEdge = job[p].oldEdge,
         k.at \notin {"edge_commit", "commit"}, PlacedJob(k), k.at # "relogin",
         k.at \notin {"unavailable", "relogin", "session_key"} \cup Reading,
         k.at = "enrol" => k.token = t /\ w = ghost.owner[k.gen] /\ k.root = job[p].root,
         k.at = "confirm" => k.root = t /\ kind = "edge-device" /\ k.token = job[p].token /\ k.retried = job[p].retried,
         k.at \in {"enrol", "confirm"},
         k.at = "enrol" => k.who = ghost.owner[k.gen] /\ kind = "human",
         ~MayRebind(k), ~Stamps(k) \/ Stamps(job[p]), ~Redeems(k),
         \/ MayBind(job[p]) /\ ~MayBind(k)
         \/ MayRebind(job[p]) /\ (MayBind(k) => MayBind(job[p])),
         job[p].at \notin Enrolling \cup {"cleanup"}
  PROVE  StoreInv'
<1>1. /\ job[p] \in Job /\ KnownJob(job[p]) /\ Types /\ Documents /\ InForce
  BY JobFacts
<1>0. Room
  BY DEF StoreInv
<1>2. used' \in Used /\ used'.commands = used.commands
  BY <1>1, Spends
<1>3. /\ t \in Serials /\ t \in Nat /\ t # 0 /\ ghost.serial \in Nat /\ ghost.serial < t
      /\ ghost.gens \in Nat /\ ghost.tokens \in Nat
  BY <1>0, <1>1, RoomLeft
<1>4. /\ ghost' \in Ghost /\ ghost'.serial = t /\ ghost'.gens = ghost.gens /\ ghost'.tokens = ghost.tokens
      /\ ghost'.owner = ghost.owner /\ ghost'.last = ghost.last /\ ghost'.spent = ghost.spent
      /\ ghost'.adrift = ghost.adrift /\ ghost'.stray = ghost.stray /\ ghost'.purged = ghost.purged
      /\ ghost'.torn = ghost.torn /\ ghost'.overwritten = ghost.overwritten /\ ghost'.replayed = ghost.replayed
  BY <1>1, <1>3 DEF Types, Ghost
<1>5. /\ issued' \in [Serials -> IssuedRecord]
      /\ issued'[t].kind = kind /\ issued'[t].who = w /\ \A r \in Serials : r # t => issued'[r] = issued[r]
  BY <1>1, <1>3 DEF Types, IssuedRecord
<1>6. Types'
  BY <1>1, <1>2, <1>4, <1>5 DEF Types
<1>7. Room'
  BY <1>0, <1>1, <1>2, <1>3, <1>4, <1>6, RoomStep
<1>8. \A r \in Serials : r <= ghost.serial => r # t
  BY <1>3, NumberFacts
<1>9. Grows
  BY <1>3, <1>4, <1>5, <1>8 DEF Grows
<1>10. \A q \in CLIs : q # p => Undisturbed(job[q])
  BY <1>4 DEF StoreInv, Undisturbed, Jobs, PlacedJob
<1>11. KnownJob(k)'
  <2>1. /\ k.gen <= ghost.gens /\ k.oldEdge.gen <= ghost.gens /\ job[p].root <= ghost.serial
        /\ job[p].root \in Nat /\ job[p].token \in Nat
    BY <1>1, NumberFacts DEF KnownJob, Job
  <2>2. k.root <= t /\ (k.retried \/ k.at = "enrol" => k.token <= t)
    BY <1>1, <1>3, <2>1 DEF KnownJob
  <2> QED BY <1>3, <1>4, <1>5, <2>1, <2>2 DEF KnownJob, Minting, Reading, Returns
<1>12. PlacedJob(k)'
  BY <1>4 DEF PlacedJob, Reading
<1>13. Jobs' /\ Apart'
  <2>1. ASSUME NEW q \in CLIs, q # p
        PROVE  /\ job[q].at = "edge_commit" => k.gen # job[q].gen /\ k.oldEdge.gen # job[q].gen
               /\ k.at = "edge_commit" => job[q].gen # k.gen /\ job[q].oldEdge.gen # k.gen
               /\ k.at = "commit" /\ job[q].at = "commit" => job[q].token # k.token
    BY <2>1, ApartFrom
  <2> QED BY <1>6, <1>9, <1>10, <1>11, <1>12, <2>1, StepJobs
<1>14. Documents'
  <2>1. \A r \in Serials : r = 0 \/ r > t => issued'[r].kind = "none" /\ ~issued'[r].live
    <3>1. ASSUME NEW r \in Serials, r = 0 \/ r > t PROVE issued'[r].kind = "none" /\ ~issued'[r].live
      <4>1. r # t /\ (r = 0 \/ r > ghost.serial)
        BY <1>3, <3>1, NumberFacts
      <4> QED BY <1>1, <1>5, <4>1 DEF Documents, Live
    <3> QED BY <3>1
  <2>2. edgeFile.root <= t
    BY <1>1, <1>3, NumberFacts DEF Documents, Types, EdgeRecord
  <2>3. \A g \in Gens : creds.sessions[g].token # 0 =>
          /\ g = creds.gen /\ creds.sessions[g].token <= t
          /\ issued'[creds.sessions[g].token].who = creds.who
    <3>1. ASSUME NEW g \in Gens, creds.sessions[g].token # 0
          PROVE  /\ g = creds.gen /\ creds.sessions[g].token <= t
                 /\ issued'[creds.sessions[g].token].who = creds.who
      <4>1. creds.sessions[g] \in Session
        BY <1>1 DEF Types, Data
      <4>2. creds.sessions[g].token \in Serials /\ creds.sessions[g].token \in Nat
        BY <4>1, NumberFacts DEF Session
      <4>3. g = creds.gen /\ creds.sessions[g].token <= ghost.serial /\ issued[creds.sessions[g].token].who = creds.who
        BY <1>1, <3>1 DEF Documents
      <4> QED BY <1>3, <1>5, <1>8, <4>2, <4>3
    <3> QED BY <3>1
  <2>4. SessionBound'
    BY <1>1, <1>4 DEF Documents, SessionBound
  <2> QED BY <1>1, <1>4, <2>1, <2>2, <2>3, <2>4 DEF Documents, Live
<1>15. InForce'
  <2>1. issued'[edgeFile.root] = issued[edgeFile.root]
    BY <1>1, <1>5, <1>8 DEF Documents, Types, EdgeRecord
  <2> QED BY <1>1, <1>4, <2>1 DEF InForce, activeEdgeSession, hasKeycloakLogin
<1>16. Owned'
  <2>1. /\ \A r \in Serials : ~OwnsRoot(job[p], r)
        /\ \A h \in Handles : ~OwnsKey(job[p], h)
    BY DEF OwnsRoot, OwnsKey, Enrolling
  <2>2. k.at = "confirm" => OwnsRoot(k, t)
    BY DEF OwnsRoot, Enrolling
  <2>3. ASSUME NEW r \in Serials, issued'[r].live, issued'[r].kind = "edge-device", r \notin ghost'.adrift
        PROVE  \/ edgeFile'.root = r \/ OwnsRoot(k, r)
               \/ /\ issued[r].live /\ issued[r].kind = "edge-device" /\ r \notin ghost.adrift
                  /\ edgeFile.root # r /\ ~OwnsRoot(job[p], r)
    BY <1>4, <1>5, <2>1, <2>2, <2>3
  <2>4. \A h \in Handles : StoredKey(h)' <=> StoredKey(h)
    BY DEF StoredKey
  <2> QED BY <1>4, <2>1, <2>3, <2>4, StepOwned
<1> QED BY <1>4, <1>6, <1>7, <1>13, <1>14, <1>15, <1>16 DEF StoreInv

\* StsLogin preserves the invariant.
LEMMA StsLoginStep ==
  ASSUME StoreInv, NEW p \in CLIs, StsLogin(p)
  PROVE  StoreInv'
<1>1. /\ job[p] \in Job /\ JobShape(job[p]) /\ KnownJob(job[p]) /\ Types
  BY JobFacts
<1>2. job[p].at = "sts_login" /\ UNCHANGED <<creds, edgeFile, keyring, idp>>
  BY DEF StsLogin
<1>3. /\ job[p].root = 0 /\ job[p].gen # 0 /\ job[p].cmd \in {"getToken", "rotate"}
      /\ job[p].who = ghost.owner[job[p].gen] /\ job[p].oldEdge = NoEdge /\ job[p].who \in Accounts
      /\ job[p].at \notin Enrolling \cup {"cleanup"}
  BY <1>1, <1>2 DEF JobShape, KnownJob, Minting, Asking, Enrolling, Job
<1>4. CASE Fault /\ Unavailable(p) /\ UNCHANGED <<issued, ghost>>
  BY <1>2, <1>3, <1>4, StopSteps
<1>5. PICK t : t = ghost.serial + 1
  OBVIOUS
<1>6. t \in Serials /\ t # 0
  BY <1>1, <1>5, RoomLeft DEF StoreInv
<1>7. CASE /\ ghost' = [ghost EXCEPT !.serial = t]
           /\ issued' = [issued EXCEPT ![t] = [kind |-> "human", who |-> job[p].who, live |-> TRUE]]
           /\ Set(p, [job[p] EXCEPT !.at = "enrol", !.token = t, !.key = t])
           /\ NoFault
  <2>1. PICK k \in Job : k = [job[p] EXCEPT !.at = "enrol", !.token = t, !.key = t]
    BY <1>1, <1>6 DEF Job, Ats
  <2>2. /\ k.at = "enrol" /\ k.gen = job[p].gen /\ k.oldEdge = job[p].oldEdge /\ k.root = job[p].root
        /\ k.cmd = job[p].cmd /\ k.token = t /\ k.key = t /\ k.who = job[p].who /\ k.retried = job[p].retried
    BY <1>1, <2>1 DEF Job
  <2>3. JobShape(k)
    BY <1>3, <1>6, <2>2 DEF JobShape, Asking, Minting, Reading, Enrolling, Returns
  <2>4. PlacedJob(k) /\ ~MayRebind(k) /\ ~Stamps(k) /\ ~Redeems(k)
    BY <2>2 DEF PlacedJob, Reading, MayRebind, Stamps, Redeems, Asking, Returns
  <2>5. \/ MayBind(job[p]) /\ ~MayBind(k)
        \/ MayRebind(job[p]) /\ (MayBind(k) => MayBind(job[p]))
    BY <1>2, <2>2 DEF MayBind, MayRebind, Asking, Returns
  <2>6. job' = [job EXCEPT ![p] = k]
    BY <1>7, <2>1 DEF Set
  <2>7. k.at \notin {"unavailable", "relogin", "session_key"} \cup Reading /\ "human" \in Kinds
    BY <2>2 DEF Reading, Kinds
  <2> QED BY <1>2, <1>3, <1>5, <1>7, <2>2, <2>3, <2>4, <2>5, <2>6, <2>7, BindStep
<1> QED BY <1>4, <1>5, <1>7 DEF StsLogin

\* EdgeAwait preserves the invariant.
LEMMA EdgeAwaitStep ==
  ASSUME StoreInv, NEW p \in CLIs, EdgeAwait(p)
  PROVE  StoreInv'
<1>1. /\ job[p] \in Job /\ JobShape(job[p]) /\ KnownJob(job[p]) /\ Types
  BY JobFacts
<1>2. job[p].at = "await" /\ UNCHANGED <<creds, edgeFile, keyring, idp>> /\ NoFault
  BY DEF EdgeAwait, NoFault
<1>3. /\ job[p].gen = 0 /\ job[p].cmd = "edgeLogin" /\ job[p].oldEdge = NoEdge /\ job[p].orphans = {}
      /\ job[p].at \notin Enrolling \cup {"cleanup"}
  BY <1>1, <1>2 DEF JobShape, Enrolling
<1>5. PICK t : t = ghost.serial + 1
  OBVIOUS
<1>6. t \in Serials /\ t # 0
  BY <1>1, <1>5, RoomLeft DEF StoreInv
<1>7. PICK w \in Accounts : w = <<"edge-device", t>>
  BY <1>6 DEF Accounts
<1>8. /\ ghost' = [ghost EXCEPT !.serial = t]
      /\ issued' = [issued EXCEPT ![t] = [kind |-> "edge-device", who |-> w, live |-> TRUE]]
      /\ Set(p, [job[p] EXCEPT !.at = "confirm", !.root = t, !.key = t])
  BY <1>5, <1>7 DEF EdgeAwait
<1>9. PICK k \in Job : k = [job[p] EXCEPT !.at = "confirm", !.root = t, !.key = t]
  BY <1>1, <1>6 DEF Job, Ats
<1>10. /\ k.at = "confirm" /\ k.gen = job[p].gen /\ k.oldEdge = job[p].oldEdge /\ k.root = t
       /\ k.cmd = job[p].cmd /\ k.key = t /\ k.retried = job[p].retried /\ k.token = job[p].token
       /\ k.orphans = job[p].orphans
  BY <1>1, <1>9 DEF Job
<1>11. JobShape(k)
  BY <1>3, <1>6, <1>10 DEF JobShape, Asking, Minting, Reading, Enrolling, Returns
<1>12. PlacedJob(k) /\ ~MayRebind(k) /\ ~Redeems(k) /\ Stamps(job[p]) /\ MayBind(job[p]) /\ ~MayBind(k)
  BY <1>2, <1>10 DEF PlacedJob, Reading, MayRebind, MayBind, Stamps, Redeems, Asking, Returns
<1>13. job' = [job EXCEPT ![p] = k]
  BY <1>8, <1>9 DEF Set
<1>14. k.at \notin {"unavailable", "relogin", "session_key"} \cup Reading /\ "edge-device" \in Kinds
  BY <1>10 DEF Reading, Kinds
<1> QED BY <1>2, <1>3, <1>5, <1>8, <1>10, <1>11, <1>12, <1>13, <1>14, BindStep

\* The key of a human session is enrolled: the edge keys and the login stay.
LEMMA EnrolKey ==
  ASSUME StoreInv, NEW p \in CLIs, job[p].at = "enrol", ~Fenced(p),
         keyring' = Put(sessionKeyHandle("human", job[p].gen), job[p].key)
  PROVE  /\ keyring' \in [Handles -> Serials]
         /\ keyring'[<<"human", creds.gen>>] = job[p].token
         /\ \A h \in Handles : h # <<"human", creds.gen>> => keyring'[h] = keyring[h]
         /\ \A g \in Gens : keyring'[EdgeKeyOf(g)] = keyring[EdgeKeyOf(g)]
         /\ creds.gen = job[p].gen /\ creds.gen \in Gens /\ creds.gen # 0 /\ <<"human", creds.gen>> \in Handles
         /\ job[p].token # 0 /\ job[p].token \in Serials /\ job[p].token <= ghost.serial
         /\ issued[job[p].token].who = creds.who /\ ghost.last.kind # "none" /\ job[p].who = creds.who
<1>1. /\ job[p] \in Job /\ JobShape(job[p]) /\ KnownJob(job[p]) /\ Types /\ Documents /\ InForce
  BY JobFacts
<1>2. /\ creds.gen = job[p].gen /\ job[p].gen \in Gens /\ job[p].gen # 0
      /\ job[p].key = job[p].token /\ job[p].token # 0 /\ job[p].token \in Serials
      /\ job[p].token <= ghost.serial /\ issued[job[p].token].who = ghost.owner[job[p].gen]
      /\ job[p].who = ghost.owner[job[p].gen]
  BY <1>1 DEF Fenced, Job, JobShape, KnownJob, Minting
<1>3. keyring \in [Handles -> Serials] /\ <<"human", creds.gen>> \in Handles
  BY <1>1, <1>2, HandleFacts DEF Types
<1>4. keyring' = [keyring EXCEPT ![<<"human", creds.gen>>] = job[p].token]
  BY <1>2 DEF Put, sessionKeyHandle
<1>5. ghost.last.kind # "none"
  BY <1>1, <1>2, EmptyFacts DEF InForce
<1>6. issued[job[p].token].who = creds.who /\ job[p].who = creds.who
  BY <1>1, <1>2 DEF Documents
<1>7. /\ keyring' \in [Handles -> Serials]
      /\ keyring'[<<"human", creds.gen>>] = job[p].token
      /\ \A h \in Handles : h # <<"human", creds.gen>> => keyring'[h] = keyring[h]
  BY <1>2, <1>3, <1>4
<1>8. \A g \in Gens : keyring'[EdgeKeyOf(g)] = keyring[EdgeKeyOf(g)]
  <2>1. ASSUME NEW g \in Gens PROVE EdgeKeyOf(g) \in Handles /\ EdgeKeyOf(g) # <<"human", creds.gen>>
    BY <1>2, HandleFacts
  <2> QED BY <1>7, <2>1
<1> QED BY <1>2, <1>3, <1>5, <1>6, <1>7, <1>8

\* The key is enrolled and the session written under the fence.
LEMMA EnrolledStep ==
  ASSUME StoreInv, NEW p \in CLIs, job[p].at = "enrol", ~Fenced(p), NoFault,
         creds' = withSession(p), keyring' = Put(sessionKeyHandle("human", job[p].gen), job[p].key),
         Set(p, [job[p] EXCEPT !.at = IF job[p].cmd = "rotate" THEN "ok" ELSE "exchange"]),
         UNCHANGED <<edgeFile, idp, issued, ghost>>
  PROVE  StoreInv'
<1>1. /\ job[p] \in Job /\ JobShape(job[p]) /\ KnownJob(job[p]) /\ Types /\ Documents /\ InForce
  BY JobFacts
<1>0. Room
  BY DEF StoreInv
<1>2. used' \in Used /\ used'.commands = used.commands
  BY <1>1, Spends
<1> DEFINE g == creds.gen
           hk == <<"human", creds.gen>>
<1>3. /\ keyring' \in [Handles -> Serials] /\ keyring'[hk] = job[p].token
      /\ \A h \in Handles : h # hk => keyring'[h] = keyring[h]
      /\ \A x \in Gens : keyring'[EdgeKeyOf(x)] = keyring[EdgeKeyOf(x)]
      /\ g = job[p].gen /\ g \in Gens /\ g # 0 /\ hk \in Handles
      /\ job[p].token # 0 /\ job[p].token \in Serials /\ job[p].token <= ghost.serial
      /\ issued[job[p].token].who = creds.who /\ ghost.last.kind # "none" /\ job[p].who = creds.who
  BY EnrolKey
<1>4. PICK s \in Session : s = [token |-> job[p].token, fresh |-> TRUE] /\ s.token = job[p].token
  <2>1. [token |-> job[p].token, fresh |-> TRUE] \in Session
    BY <1>3 DEF Session
  <2> QED BY <2>1
<1>5. PICK E \in [Handles -> EIA] : E = (IF job[p].cmd = "rotate" THEN EmptyData.eia ELSE creds.eia)
  BY <1>1, EmptyFacts DEF Types, Data
<1>6. creds \in Data /\ creds.sessions \in [Gens -> Session]
  BY <1>1 DEF Types, Data
<1>7. creds' = [creds EXCEPT !.sessions = [creds.sessions EXCEPT ![g] = s], !.eia = E]
  BY <1>3, <1>4, <1>5, <1>6 DEF withSession, Data
<1>8. /\ creds' \in Data /\ creds'.gen = g /\ creds'.refresh = creds.refresh /\ creds'.who = creds.who
      /\ creds'.id = creds.id /\ creds'.sessions = [creds.sessions EXCEPT ![g] = s] /\ creds'.eia = E
  <2>1. PICK f \in [Gens -> Session] : f = [creds.sessions EXCEPT ![g] = s]
    BY <1>4, <1>6
  <2>2. creds' = [creds EXCEPT !.sessions = f, !.eia = E] /\ creds.gen = g
    BY <1>3, <1>7, <2>1
  <2> QED BY <1>6, <2>1, <2>2 DEF Data
<1>9. /\ creds'.sessions[g].token = job[p].token
      /\ \A x \in Gens : x # g => creds'.sessions[x] = creds.sessions[x]
  BY <1>3, <1>4, <1>6, <1>8
<1>10. Types'
  BY <1>1, <1>2, <1>3, <1>8, JobFacts DEF Types, Set, Job, Ats
<1>11. SessionBound'
  <2>1. \A x \in Gens : creds'.sessions[x].token # 0 => x = g
    BY <1>1, <1>9 DEF Documents
  <2> QED BY <1>3, <1>9, <2>1 DEF SessionBound, sessionKeyHandle
<1>12. Documents'
  <2>1. ASSUME NEW x \in Gens
        PROVE  /\ creds'.sessions[x].fresh => creds'.sessions[x].token # 0
               /\ creds'.sessions[x].token # 0 =>
                    /\ x = g /\ creds'.sessions[x].token <= ghost.serial
                    /\ issued[creds'.sessions[x].token].who = creds.who
    <3>1. CASE x = g
      BY <1>3, <1>9, <3>1
    <3>2. CASE x # g
      BY <1>1, <1>9, <3>2 DEF Documents
    <3> QED BY <3>1, <3>2
  <2>2. ASSUME NEW h \in Handles, E[h] # NoEIA PROVE h[2] = g /\ E[h].who = creds.who
    <3>1. E[h] = creds.eia[h]
      BY <1>5, <2>2, EmptyFacts
    <3> QED BY <1>1, <2>2, <3>1 DEF Documents
  <2> QED BY <1>1, <1>8, <1>11, <2>1, <2>2 DEF Documents, Live
<1>13. InForce'
  <2>1. (hasKeycloakLogin(creds)' <=> hasKeycloakLogin(creds)) /\ (activeEdgeSession' <=> activeEdgeSession)
    BY <1>8 DEF hasKeycloakLogin, activeEdgeSession
  <2>2. edgeFile.gen \in Gens
    BY <1>1 DEF Types, EdgeRecord
  <2> QED BY <1>1, <1>3, <1>8, <2>1, <2>2 DEF InForce, hasKeycloakLogin
<1>14. Grows
  BY <1>0, <1>1, RoomLeft DEF Grows
<1>15. \A q \in CLIs : q # p => Undisturbed(job[q])
  <2>1. \A q \in CLIs : job[q].gen \in Gens
    BY <1>1 DEF Types, Job
  <2> QED BY <1>3, <1>8, <2>1 DEF StoreInv, Undisturbed, Jobs, PlacedJob
<1>16. job[p].root = 0 /\ job[p].cmd \in {"getToken", "rotate"} /\ job[p].oldEdge = NoEdge
  BY <1>1 DEF JobShape, Minting
<1>17. PICK a \in {"ok", "exchange"} : a = IF job[p].cmd = "rotate" THEN "ok" ELSE "exchange"
  OBVIOUS
<1>18. PICK k \in Job : k = [job[p] EXCEPT !.at = a]
  BY <1>1, <1>17 DEF Job, Ats
<1>19. /\ k.at = a /\ k.gen = job[p].gen /\ k.oldEdge = job[p].oldEdge /\ k.root = job[p].root
       /\ k.cmd = job[p].cmd /\ k.token = job[p].token /\ k.key = job[p].key /\ k.who = job[p].who
       /\ k.retried = job[p].retried
  BY <1>1, <1>18 DEF Job
<1>20. job' = [job EXCEPT ![p] = k]
  BY <1>17, <1>18 DEF Set
<1>21. JobShape(k)
  BY <1>1, <1>3, <1>16, <1>17, <1>19 DEF JobShape, Asking, Minting, Reading, Enrolling, Returns
<1>22. KnownJob(k)'
  BY <1>1, <1>17, <1>19 DEF KnownJob, Minting, Reading, Returns
<1>23. PlacedJob(k)'
  BY <1>17, <1>19 DEF PlacedJob, Reading
<1>24. ~Stamps(k) /\ ~Redeems(k) /\ ~MayRebind(k) /\ (MayBind(k) => MayBind(job[p]))
  BY <1>17, <1>19 DEF Stamps, Redeems, MayBind, MayRebind, Asking, Returns
<1>25. Room'
  BY <1>0, <1>1, <1>2, <1>10, <1>20, <1>24, RoomStep
<1>26. Jobs' /\ Apart'
  <2>1. ASSUME NEW q \in CLIs, q # p
        PROVE  /\ job[q].at = "edge_commit" => k.gen # job[q].gen /\ k.oldEdge.gen # job[q].gen
               /\ k.at = "edge_commit" => job[q].gen # k.gen /\ job[q].oldEdge.gen # k.gen
               /\ k.at = "commit" /\ job[q].at = "commit" => job[q].token # k.token
    BY <1>17, <1>19, <2>1, ApartFrom
  <2> QED BY <1>10, <1>14, <1>15, <1>20, <1>21, <1>22, <1>23, <2>1, StepJobs
<1>27. Owned'
  <2>1. /\ \A r \in Serials : ~OwnsRoot(job[p], r)
        /\ \A h \in Handles : ~OwnsKey(job[p], h)
    BY DEF OwnsRoot, OwnsKey, Enrolling
  <2>2. ASSUME NEW h \in Handles, keyring'[h] # 0, h \notin ghost'.stray
        PROVE  \/ StoredKey(h)' \/ OwnsKey(k, h)
               \/ keyring[h] # 0 /\ h \notin ghost.stray /\ ~StoredKey(h) /\ ~OwnsKey(job[p], h)
    <3>1. CASE h = hk
      BY <1>3, <1>9, <3>1, HandleFacts DEF StoredKey
    <3>2. CASE h # hk
      <4>1. StoredKey(h) => StoredKey(h)'
        BY <1>3, <1>9, <3>2, HandleFacts DEF StoredKey
      <4> QED BY <1>3, <2>1, <2>2, <3>2, <4>1
    <3> QED BY <3>1, <3>2
  <2> QED BY <1>20, <2>1, <2>2, StepOwned
<1> QED BY <1>10, <1>12, <1>13, <1>25, <1>26, <1>27 DEF StoreInv

\* The key went in and the document did not: the session entry may be without its key.
LEMMA TornStep ==
  ASSUME StoreInv, NEW p \in CLIs, job[p].at = "enrol", ~Fenced(p), Fault,
         keyring' = Put(sessionKeyHandle("human", job[p].gen), job[p].key),
         UNCHANGED <<creds, edgeFile, idp, issued>>,
         \/ /\ ghost' = [ghost EXCEPT !.torn = TRUE]
            /\ Set(p, [job[p] EXCEPT !.at = "cleanup", !.hit = TRUE,
                                     !.orphans = {sessionKeyHandle("human", job[p].gen)}])
         \/ /\ ghost' = [ghost EXCEPT !.torn = TRUE, !.stray = @ \cup {sessionKeyHandle("human", job[p].gen)}]
            /\ Set(p, Idle)
  PROVE  StoreInv'
<1>1. /\ job[p] \in Job /\ JobShape(job[p]) /\ KnownJob(job[p]) /\ Types /\ Documents /\ InForce
  BY JobFacts
<1>0. Room
  BY DEF StoreInv
<1>2. used' \in Used /\ used'.commands = used.commands
  BY <1>1, Spends
<1> DEFINE hk == <<"human", creds.gen>>
<1>3. /\ keyring' \in [Handles -> Serials]
      /\ \A h \in Handles : h # hk => keyring'[h] = keyring[h]
      /\ \A x \in Gens : keyring'[EdgeKeyOf(x)] = keyring[EdgeKeyOf(x)]
      /\ hk = sessionKeyHandle("human", job[p].gen) /\ hk \in Handles /\ hk[1] = "human"
  BY EnrolKey DEF sessionKeyHandle
<1>4. /\ ghost' \in Ghost /\ ghost'.serial = ghost.serial /\ ghost'.gens = ghost.gens /\ ghost'.tokens = ghost.tokens
      /\ ghost'.owner = ghost.owner /\ ghost'.last = ghost.last /\ ghost'.spent = ghost.spent
      /\ ghost'.adrift = ghost.adrift /\ ghost.stray \subseteq ghost'.stray /\ ghost'.purged = ghost.purged
      /\ ghost'.torn = TRUE /\ ghost'.overwritten = ghost.overwritten /\ ghost'.replayed = ghost.replayed
  <2>1. ghost \in Ghost /\ ghost.stray \cup {hk} \in SUBSET Handles
    BY <1>1, <1>3 DEF Types, Ghost
  <2>2. ghost' = [ghost EXCEPT !.torn = TRUE] \/ ghost' = [ghost EXCEPT !.torn = TRUE, !.stray = ghost.stray \cup {hk}]
    BY <1>3
  <2>3. PICK S \in SUBSET Handles : S = ghost.stray \cup {hk}
    BY <2>1
  <2>4. CASE ghost' = [ghost EXCEPT !.torn = TRUE]
    BY <2>1, <2>4 DEF Ghost
  <2>5. CASE ghost' = [ghost EXCEPT !.torn = TRUE, !.stray = S]
    <3>1. ghost.stray \subseteq S
      BY <2>3
    <3> QED BY <2>1, <2>5, <3>1 DEF Ghost
  <2> QED BY <2>2, <2>3, <2>4, <2>5
<1>5. PICK k \in Job :
        /\ job' = [job EXCEPT ![p] = k]
        /\ \/ /\ k = [job[p] EXCEPT !.at = "cleanup", !.hit = TRUE, !.orphans = {hk}]
           \/ k = Idle /\ hk \in ghost'.stray
  <2>1. CASE Set(p, [job[p] EXCEPT !.at = "cleanup", !.hit = TRUE, !.orphans = {sessionKeyHandle("human", job[p].gen)}])
    <3>1. [job[p] EXCEPT !.at = "cleanup", !.hit = TRUE, !.orphans = {hk}] \in Job
      BY <1>1, <1>3 DEF Job, Ats
    <3> QED BY <1>3, <2>1, <3>1 DEF Set
  <2>2. CASE /\ ghost' = [ghost EXCEPT !.torn = TRUE, !.stray = @ \cup {sessionKeyHandle("human", job[p].gen)}]
             /\ Set(p, Idle)
    <3>1. Idle \in Job
      BY NumberFacts DEF Idle, Job, Ats, NoEdge, EdgeRecord
    <3>2. hk \in ghost'.stray
      BY <1>1, <1>3, <2>2 DEF Types, Ghost
    <3> QED BY <2>2, <3>1, <3>2 DEF Set
  <2> QED BY <2>1, <2>2
<1>6. \/ /\ k.at = "cleanup" /\ k.gen = job[p].gen /\ k.oldEdge = job[p].oldEdge /\ k.root = job[p].root
         /\ k.hit /\ k.orphans = {hk} /\ k.retried = job[p].retried /\ k.token = job[p].token
      \/ /\ k.at = "idle" /\ k.gen = 0 /\ k.oldEdge = NoEdge /\ k.root = 0 /\ ~k.retried /\ hk \in ghost'.stray
  <2> HIDE DEF hk
  <2>1. CASE k = [job[p] EXCEPT !.at = "cleanup", !.hit = TRUE, !.orphans = {hk}]
    BY <1>1, <2>1 DEF Job
  <2>2. CASE k = Idle /\ hk \in ghost'.stray
    BY <2>2 DEF Idle
  <2> QED BY <1>5, <2>1, <2>2
<1>7. job[p].oldEdge = NoEdge /\ NoEdge.root = 0 /\ NoEdge.gen = 0
  BY <1>1 DEF JobShape, Minting, NoEdge
<1>8. Types'
  BY <1>1, <1>2, <1>3, <1>4, <1>5 DEF Types
<1>9. ghost.gens \in Nat /\ ghost.serial \in Nat /\ ghost.tokens \in Nat
  BY <1>0, <1>1, RoomLeft
<1>10. Grows
  BY <1>4, <1>9 DEF Grows
<1>11. \A q \in CLIs : q # p => Undisturbed(job[q])
  <2>1. \A q \in CLIs : job[q].gen \in Gens
    BY <1>1 DEF Types, Job
  <2> QED BY <1>3, <1>4, <2>1 DEF StoreInv, Undisturbed, Jobs, PlacedJob
<1>12. JobShape(k)
  BY <1>3, <1>6 DEF JobShape, Asking, Minting, Reading, Enrolling, Returns
<1>13. KnownJob(k)'
  BY <1>1, <1>4, <1>6, <1>7, <1>9 DEF KnownJob, Minting, Reading, Returns
<1>14. PlacedJob(k)'
  BY <1>6, <1>7 DEF PlacedJob, Reading
<1>15. ~Stamps(k) /\ ~Redeems(k) /\ ~MayBind(k) /\ ~MayRebind(k)
  BY <1>6 DEF Stamps, Redeems, MayBind, MayRebind, Asking, Returns
<1>16. Room'
  BY <1>0, <1>1, <1>2, <1>4, <1>5, <1>8, <1>15, RoomStep
<1>17. Jobs' /\ Apart'
  <2>1. ASSUME NEW q \in CLIs, q # p
        PROVE  /\ job[q].at = "edge_commit" => k.gen # job[q].gen /\ k.oldEdge.gen # job[q].gen
               /\ k.at = "edge_commit" => job[q].gen # k.gen /\ job[q].oldEdge.gen # k.gen
               /\ k.at = "commit" /\ job[q].at = "commit" => job[q].token # k.token
    BY <1>6, <1>7, <2>1, ApartFrom
  <2> QED BY <1>5, <1>8, <1>10, <1>11, <1>12, <1>13, <1>14, <2>1, StepJobs
<1>18. Documents'
  <2>1. SessionBound'
    BY <1>4 DEF SessionBound
  <2> QED BY <1>1, <1>4, <2>1 DEF Documents, Live
<1>19. InForce'
  <2>1. edgeFile.gen \in Gens /\ creds.gen \in Gens
    BY <1>1 DEF Types, EdgeRecord, Data
  <2> QED BY <1>1, <1>3, <1>4, <2>1 DEF InForce, hasKeycloakLogin, activeEdgeSession
<1>20. Owned'
  <2>1. /\ \A r \in Serials : ~OwnsRoot(job[p], r)
        /\ \A h \in Handles : ~OwnsKey(job[p], h)
    BY DEF OwnsRoot, OwnsKey, Enrolling
  <2>2. ASSUME NEW h \in Handles, keyring'[h] # 0, h \notin ghost'.stray
        PROVE  \/ StoredKey(h)' \/ OwnsKey(k, h)
               \/ keyring[h] # 0 /\ h \notin ghost.stray /\ ~StoredKey(h) /\ ~OwnsKey(job[p], h)
    <3>1. CASE h = hk
      BY <1>6, <2>2, <3>1 DEF OwnsKey
    <3>2. CASE h # hk
      <4>1. StoredKey(h) => StoredKey(h)'
        BY DEF StoredKey
      <4> QED BY <1>3, <1>4, <2>1, <2>2, <3>2, <4>1
    <3> QED BY <3>1, <3>2
  <2> QED BY <1>4, <1>5, <2>1, <2>2, StepOwned
<1> QED BY <1>4, <1>8, <1>16, <1>17, <1>18, <1>19, <1>20 DEF StoreInv

\* Enrol preserves the invariant.
LEMMA EnrolStep ==
  ASSUME StoreInv, NEW p \in CLIs, Enrol(p)
  PROVE  StoreInv'
<1>1. job[p].at = "enrol" /\ UNCHANGED <<edgeFile, idp, issued>> /\ (Fault \/ NoFault)
  BY DEF Enrol
<1>2. CASE (Changed(p) \/ Unavailable(p)) /\ UNCHANGED <<creds, keyring, ghost>>
  BY <1>1, <1>2, StopSteps DEF Enrolling
<1>3. CASE /\ ~Fenced(p) /\ creds' = withSession(p)
           /\ keyring' = Put(sessionKeyHandle("human", job[p].gen), job[p].key)
           /\ Set(p, [job[p] EXCEPT !.at = IF job[p].cmd = "rotate" THEN "ok" ELSE "exchange"])
           /\ NoFault /\ UNCHANGED ghost
  BY <1>1, <1>3, EnrolledStep
<1>4. CASE /\ ~Fenced(p) /\ Fault
           /\ keyring' = Put(sessionKeyHandle("human", job[p].gen), job[p].key)
           /\ ghost' = [ghost EXCEPT !.torn = TRUE]
           /\ Set(p, [job[p] EXCEPT !.at = "cleanup", !.hit = TRUE,
                                    !.orphans = {sessionKeyHandle("human", job[p].gen)}])
           /\ UNCHANGED creds
  BY <1>1, <1>4, TornStep
<1>5. CASE /\ ~Fenced(p) /\ Fault
           /\ keyring' = Put(sessionKeyHandle("human", job[p].gen), job[p].key)
           /\ ghost' = [ghost EXCEPT !.torn = TRUE, !.stray = @ \cup {sessionKeyHandle("human", job[p].gen)}]
           /\ Set(p, Idle)
           /\ UNCHANGED creds
  BY <1>1, <1>5, TornStep
<1> QED BY <1>2, <1>3, <1>4, <1>5 DEF Enrol

\* A document whose sessions are dropped, and the handles of what it drops.
LEMMA DropFacts ==
  ASSUME NEW d \in Data
  PROVE  /\ dropped(d) \in Data
         /\ dropped(d).id = d.id /\ dropped(d).refresh = d.refresh /\ dropped(d).who = d.who
         /\ dropped(d).gen = d.gen /\ dropped(d).sessions = EmptyData.sessions /\ dropped(d).eia = EmptyData.eia
         /\ orphanedBy(d) \subseteq Handles /\ \A h \in orphanedBy(d) : h[1] = "human"
         /\ \A h \in Handles : h[1] = "human" /\ d.sessions[h[2]].token # 0 => h \in orphanedBy(d)
<1>1. /\ dropped(d) \in Data
      /\ dropped(d).id = d.id /\ dropped(d).refresh = d.refresh /\ dropped(d).who = d.who
      /\ dropped(d).gen = d.gen /\ dropped(d).sessions = EmptyData.sessions /\ dropped(d).eia = EmptyData.eia
  BY EmptyFacts DEF dropped, Data
<1>2. orphanedBy(d) \subseteq Handles /\ \A h \in orphanedBy(d) : h[1] = "human"
  BY HandleFacts DEF orphanedBy, sessionKeyHandle
<1>3. ASSUME NEW h \in Handles, h[1] = "human", d.sessions[h[2]].token # 0 PROVE h \in orphanedBy(d)
  <2>1. h = <<"human", h[2]>> /\ h[2] \in Gens
    BY <1>3, HandleFacts
  <2> QED BY <1>3, <2>1 DEF orphanedBy, sessionKeyHandle
<1> QED BY <1>1, <1>2, <1>3

\* What the locked refresh saves: the login is the same one, under a generation.
Refreshed ==
  /\ creds' \in Data /\ creds'.id = "fresh" /\ creds'.who = creds.who
  /\ \/ creds'.refresh = creds.refresh /\ idp' = idp /\ ghost'.tokens = ghost.tokens
     \/ /\ creds'.refresh = ghost.tokens + 1 /\ ghost'.tokens = ghost.tokens + 1
        /\ idp' = (idp \ {creds.refresh}) \cup {ghost.tokens + 1}
  /\ creds.gen # 0 =>
       /\ creds'.gen = creds.gen /\ creds'.sessions = creds.sessions /\ creds'.eia = creds.eia
       /\ ghost'.gens = ghost.gens /\ ghost'.owner = ghost.owner /\ ghost'.last = ghost.last
  /\ creds.gen = 0 =>
       /\ creds'.gen = ghost.gens + 1 /\ creds'.sessions = EmptyData.sessions /\ creds'.eia = EmptyData.eia
       /\ ghost'.gens = ghost.gens + 1 /\ ghost'.owner = [ghost.owner EXCEPT ![ghost.gens + 1] = creds.who]
       /\ ghost'.last.kind = ghost.last.kind /\ ghost'.last.gen = ghost.gens + 1
  /\ ghost' \in Ghost /\ ghost'.serial = ghost.serial /\ ghost'.spent = ghost.spent
  /\ ghost'.adrift = ghost.adrift /\ ghost'.stray = ghost.stray /\ ghost'.purged = ghost.purged
  /\ ghost'.torn = ghost.torn /\ ghost'.overwritten = ghost.overwritten /\ ghost'.replayed = ghost.replayed

\* ensureHumanCredential's two saves are of that form.
LEMMA RefreshedBy ==
  ASSUME StoreInv,
         \/ /\ creds.id = "fresh" /\ creds' = stamped(creds)
            /\ ghost' = restamped(creds, ghost) /\ UNCHANGED idp
         \/ /\ creds' = [stamped(creds) EXCEPT !.id = "fresh", !.refresh = ghost.tokens + 1]
            /\ idp' = (idp \ {creds.refresh}) \cup {ghost.tokens + 1}
            /\ ghost' = [restamped(creds, ghost) EXCEPT !.tokens = ghost.tokens + 1]
  PROVE  Refreshed
<1>1. Types /\ Room /\ creds \in Data /\ ghost \in Ghost
  BY DEF StoreInv, Types
<1>2. ghost.gens + 1 \in Gens /\ ghost.tokens + 1 \in Tokens
  BY <1>1, RoomLeft
<1>3. PICK d \in Data : d = stamped(creds)
  <2>1. dropped(creds) \in Data
    BY <1>1, DropFacts
  <2>2. [dropped(creds) EXCEPT !.gen = ghost.gens + 1] \in Data
    BY <1>2, <2>1 DEF Data
  <2> QED BY <1>1, <2>2 DEF stamped, newCredentialGeneration
<1>4. /\ d.id = creds.id /\ d.refresh = creds.refresh /\ d.who = creds.who
      /\ creds.gen # 0 => d = creds
      /\ creds.gen = 0 => d.gen = ghost.gens + 1 /\ d.sessions = EmptyData.sessions /\ d.eia = EmptyData.eia
  <2>1. CASE creds.gen # 0
    BY <1>3, <2>1 DEF stamped, validCredentialGeneration
  <2>2. CASE creds.gen = 0
    <3>1. d = [dropped(creds) EXCEPT !.gen = ghost.gens + 1]
      BY <1>3, <2>2 DEF stamped, validCredentialGeneration, newCredentialGeneration
    <3> QED BY <1>1, <2>2, <3>1, DropFacts DEF Data
  <2> QED BY <2>1, <2>2
<1>5. PICK g \in Ghost : g = restamped(creds, ghost)
  <2>1. CASE creds.gen # 0
    BY <1>1, <2>1 DEF restamped, validCredentialGeneration
  <2>2. CASE creds.gen = 0
    <3>1. restamped(creds, ghost) = [ghost EXCEPT !.gens = ghost.gens + 1,
             !.owner = [ghost.owner EXCEPT ![ghost.gens + 1] = creds.who],
             !.last = [ghost.last EXCEPT !.gen = ghost.gens + 1]]
      BY <1>1, <2>2 DEF restamped, validCredentialGeneration, newCredentialGeneration, Ghost
    <3>2. /\ [ghost.owner EXCEPT ![ghost.gens + 1] = creds.who] \in [Gens -> Accounts]
          /\ [ghost.last EXCEPT !.gen = ghost.gens + 1] \in [kind : Kinds \cup {"none"}, gen : Gens]
      BY <1>1, <1>2 DEF Ghost, Data
    <3> QED BY <1>1, <1>2, <3>1, <3>2 DEF Ghost
  <2> QED BY <2>1, <2>2
<1>6. /\ creds.gen # 0 => g = ghost
      /\ creds.gen = 0 =>
           /\ g.gens = ghost.gens + 1 /\ g.owner = [ghost.owner EXCEPT ![ghost.gens + 1] = creds.who]
           /\ g.last.kind = ghost.last.kind /\ g.last.gen = ghost.gens + 1
      /\ g.tokens = ghost.tokens /\ g.serial = ghost.serial /\ g.spent = ghost.spent
      /\ g.adrift = ghost.adrift /\ g.stray = ghost.stray /\ g.purged = ghost.purged
      /\ g.torn = ghost.torn /\ g.overwritten = ghost.overwritten /\ g.replayed = ghost.replayed
  <2>1. CASE creds.gen # 0
    BY <1>5, <2>1 DEF restamped, validCredentialGeneration
  <2>2. CASE creds.gen = 0
    <3>1. g = [ghost EXCEPT !.gens = ghost.gens + 1,
             !.owner = [ghost.owner EXCEPT ![ghost.gens + 1] = creds.who],
             !.last = [ghost.last EXCEPT !.gen = ghost.gens + 1]]
      BY <1>1, <1>5, <2>2 DEF restamped, validCredentialGeneration, newCredentialGeneration, Ghost
    <3> QED BY <1>1, <2>2, <3>1 DEF Ghost
  <2> QED BY <2>1, <2>2
<1>7. CASE creds.id = "fresh" /\ creds' = d /\ ghost' = g /\ UNCHANGED idp
  BY <1>4, <1>6, <1>7 DEF Refreshed
<1>8. CASE /\ creds' = [d EXCEPT !.id = "fresh", !.refresh = ghost.tokens + 1]
           /\ idp' = (idp \ {creds.refresh}) \cup {ghost.tokens + 1}
           /\ ghost' = [g EXCEPT !.tokens = ghost.tokens + 1]
  <2>1. /\ creds' \in Data /\ creds'.id = "fresh" /\ creds'.refresh = ghost.tokens + 1 /\ creds'.who = d.who
        /\ creds'.gen = d.gen /\ creds'.sessions = d.sessions /\ creds'.eia = d.eia
    BY <1>2, <1>8 DEF Data
  <2>2. /\ ghost' \in Ghost /\ ghost'.tokens = ghost.tokens + 1 /\ ghost'.gens = g.gens /\ ghost'.owner = g.owner
        /\ ghost'.last = g.last /\ ghost'.serial = g.serial /\ ghost'.spent = g.spent
        /\ ghost'.adrift = g.adrift /\ ghost'.stray = g.stray /\ ghost'.purged = g.purged
        /\ ghost'.torn = g.torn /\ ghost'.overwritten = g.overwritten /\ ghost'.replayed = g.replayed
    BY <1>2, <1>8 DEF Ghost
  <2> QED BY <1>4, <1>6, <1>8, <2>1, <2>2 DEF Refreshed
<1> QED BY <1>3, <1>5, <1>7, <1>8

\* A stamp or a refresh is saved under the lock.
LEMMA SavedStep ==
  ASSUME StoreInv, NEW p \in CLIs, job[p].at = "refresh", Refreshed, NoFault,
         hasKeycloakLogin(creds), UNCHANGED <<edgeFile, keyring, issued>>, Saved(p, creds')
  PROVE  StoreInv'
<1>1. /\ job[p] \in Job /\ JobShape(job[p]) /\ KnownJob(job[p]) /\ Types /\ Documents /\ InForce
  BY JobFacts
<1>0. Room
  BY DEF StoreInv
<1>2. used' \in Used /\ used'.commands = used.commands
  BY <1>1, Spends
<1>3. /\ ghost.gens \in Nat /\ ghost.serial \in Nat /\ ghost.tokens \in Nat
      /\ ghost.gens + 1 \in Gens /\ ghost.tokens + 1 \in Tokens /\ ghost.gens + 1 # 0 /\ ghost.tokens + 1 # 0
  BY <1>0, <1>1, RoomLeft
<1>4. creds \in Data /\ creds.gen \in Gens /\ creds.gen \in Nat /\ creds.gen <= ghost.gens
  BY <1>1, NumberFacts DEF Types, Data, Documents
<1>5. ghost.last.kind = "human"
  <2>1. ghost.last.kind \in {"human", "edge-device", "none"}
    BY <1>1 DEF Types, Ghost, Kinds
  <2>2. ghost.last.kind # "none"
    BY <1>1, EmptyFacts DEF InForce, hasKeycloakLogin
  <2> QED BY <1>1, <2>1, <2>2 DEF InForce
<1>6a. PICK O : O = IF creds.gen # 0 THEN {} ELSE orphanedBy(creds)
  OBVIOUS
<1>6. /\ O \in SUBSET Handles /\ \A h \in O : h[1] = "human"
      /\ creds.gen = 0 => \A h \in Handles : h[1] = "human" /\ creds.sessions[h[2]].token # 0 => h \in O
  <2>1. CASE creds.gen # 0
    BY <1>6a, <2>1
  <2>2. CASE creds.gen = 0
    BY <1>4, <1>6a, <2>2, DropFacts
  <2> QED BY <2>1, <2>2
<1>7. PICK a \in {"context", "cleanup"} : (a = "context" <=> O = {})
  OBVIOUS
<1>8. creds'.gen \in Gens /\ creds'.gen # 0 /\ creds'.who \in Accounts
  BY <1>3 DEF Refreshed, Data
<1>9. PICK k \in Job :
        k = [job[p] EXCEPT !.at = a, !.gen = creds'.gen, !.who = creds'.who, !.refresh = 0, !.orphans = O]
  BY <1>1, <1>6, <1>7, <1>8, NumberFacts DEF Job, Ats
<1>10. job' = [job EXCEPT ![p] = k]
  <2>1. Set(p, [credential(p, creds') EXCEPT !.at = IF O = {} THEN "context" ELSE "cleanup", !.orphans = O])
    BY <1>6a DEF Saved, validCredentialGeneration
  <2>2. [credential(p, creds') EXCEPT !.at = a, !.orphans = O] = k
    BY <1>1, <1>9 DEF credential, Job
  <2>3. a = IF O = {} THEN "context" ELSE "cleanup"
    BY <1>7
  <2> QED BY <2>1, <2>2, <2>3 DEF Set
<1>11. /\ k.at = a /\ k.gen = creds'.gen /\ k.who = creds.who /\ k.orphans = O /\ k.oldEdge = job[p].oldEdge
       /\ k.root = job[p].root /\ k.cmd = job[p].cmd /\ k.retried = job[p].retried /\ k.token = job[p].token
       /\ k.hit = job[p].hit
  BY <1>1, <1>9 DEF Job, Refreshed
<1>12. /\ job[p].root = 0 /\ ~job[p].retried /\ job[p].cmd \in {"getToken", "rotate", "whoami"}
       /\ job[p].oldEdge = NoEdge /\ NoEdge.gen = 0 /\ NoEdge.root = 0
  BY <1>1 DEF JobShape, Asking, NoEdge
<1>13. idp' \in SUBSET Tokens
  BY <1>1, <1>3 DEF Types, Refreshed
<1>14. Types'
  BY <1>1, <1>2, <1>10, <1>13 DEF Types, Refreshed
<1>15. JobShape(k)
  BY <1>6, <1>7, <1>8, <1>11, <1>12 DEF JobShape, Asking, Minting, Reading, Enrolling, Returns
<1>16. creds'.gen <= ghost'.gens /\ ghost'.owner[creds'.gen] = creds.who /\ creds'.gen = ghost'.last.gen
  <2>1. CASE creds.gen # 0
    BY <1>1, <1>4, <2>1 DEF Refreshed, Documents
  <2>2. CASE creds.gen = 0
    BY <1>1, <1>3, <2>2 DEF Refreshed, Types, Ghost
  <2> QED BY <2>1, <2>2
<1>17. KnownJob(k)'
  <2>1. 0 <= ghost'.gens /\ 0 <= ghost'.serial
    BY <1>3 DEF Refreshed
  <2> QED BY <1>7, <1>11, <1>12, <1>16, <2>1 DEF KnownJob, Minting, Reading, Returns
<1>18. PlacedJob(k)'
  BY <1>7, <1>11, <1>12 DEF PlacedJob, Reading
<1>19. /\ ~Stamps(k) /\ ~Redeems(k) /\ Stamps(job[p]) /\ Redeems(job[p]) /\ MayBind(job[p]) /\ MayRebind(job[p])
  BY <1>7, <1>11 DEF Stamps, Redeems, MayBind, MayRebind, Asking
<1>20. Room'
  <2>1. ghost'.gens = ghost.gens \/ ghost'.gens = ghost.gens + 1
    BY DEF Refreshed
  <2>2. ghost'.tokens = ghost.tokens \/ ghost'.tokens = ghost.tokens + 1
    BY DEF Refreshed
  <2>3. ghost'.serial = ghost.serial
    BY DEF Refreshed
  <2> QED BY <1>0, <1>1, <1>2, <1>10, <1>14, <1>19, <2>1, <2>2, <2>3, RoomStep
<1>21. Grows
  <2>1. ASSUME NEW x \in Gens, x <= ghost.gens PROVE ghost'.owner[x] = ghost.owner[x]
    <3>1. x # ghost.gens + 1
      BY <1>3, <2>1, NumberFacts
    <3> QED BY <1>1, <3>1 DEF Refreshed, Types, Ghost
  <2>2. ghost.gens <= ghost'.gens /\ ghost.serial <= ghost'.serial /\ ghost.tokens <= ghost'.tokens
    BY <1>3 DEF Refreshed
  <2> QED BY <2>1, <2>2 DEF Grows, Refreshed
<1>22. ASSUME NEW q \in CLIs, q # p PROVE Undisturbed(job[q])
  <2>1. /\ job[q] \in Job /\ KnownJob(job[q]) /\ PlacedJob(job[q]) /\ JobShape(job[q])
    BY JobFacts
  <2>2. job[q].gen # ghost.gens + 1 /\ job[q].oldEdge.gen # ghost.gens + 1
    BY <1>3, <2>1, NumberFacts DEF KnownJob, Job, EdgeRecord
  <2>3. ghost'.last = ghost.last \/ (ghost'.last.gen # job[q].gen /\ ghost'.last.gen # job[q].oldEdge.gen)
    BY <2>2 DEF Refreshed
  <2>4. job[q].at = "edge_commit" => creds'.gen # job[q].gen /\ edgeFile'.gen # job[q].gen
    BY <2>1, <2>2 DEF Refreshed, PlacedJob
  <2>5. job[q].at = "commit" => creds'.refresh # job[q].token /\ job[q].token \in idp' \cup ghost'.spent
    <3>1. job[q].at = "commit" => job[q].token # ghost.tokens + 1
      BY <1>3, <2>1, NumberFacts DEF PlacedJob, Job
    <3> QED BY <2>1, <3>1 DEF Refreshed, PlacedJob
  <2> QED BY <2>3, <2>4, <2>5 DEF Undisturbed
<1>23. Jobs' /\ Apart'
  <2>1. ASSUME NEW q \in CLIs, q # p
        PROVE  /\ job[q].at = "edge_commit" => k.gen # job[q].gen /\ k.oldEdge.gen # job[q].gen
               /\ k.at = "edge_commit" => job[q].gen # k.gen /\ job[q].oldEdge.gen # k.gen
               /\ k.at = "commit" /\ job[q].at = "commit" => job[q].token # k.token
    <3>1. job[q].at = "edge_commit" => job[q].gen # ghost.gens + 1
      BY <1>3, <2>1, ApartFrom, NumberFacts
    <3>2. job[q].at = "edge_commit" => k.gen # job[q].gen
      BY <1>11, <2>1, <3>1, ApartFrom DEF Refreshed
    <3> QED BY <1>7, <1>11, <2>1, <3>2, ApartFrom
  <2> QED BY <1>10, <1>14, <1>15, <1>17, <1>18, <1>21, <1>22, <2>1, StepJobs
<1>24. Documents'
  <2>1. /\ creds'.refresh <= ghost'.tokens /\ creds'.refresh \in idp' \cup ghost'.spent
        /\ 0 \in ghost'.spent /\ 0 \notin idp' /\ \A t \in idp' : t <= ghost'.tokens
    <3>1. CASE creds'.refresh = creds.refresh /\ idp' = idp /\ ghost'.tokens = ghost.tokens
      BY <1>1, <3>1 DEF Documents, Refreshed
    <3>2. CASE /\ creds'.refresh = ghost.tokens + 1 /\ ghost'.tokens = ghost.tokens + 1
               /\ idp' = (idp \ {creds.refresh}) \cup {ghost.tokens + 1}
      <4>1. \A t \in idp : t \in Nat
        BY <1>1, NumberFacts DEF Types
      <4> QED BY <1>1, <1>3, <3>2, <4>1 DEF Documents, Refreshed
    <3> QED BY <3>1, <3>2 DEF Refreshed
  <2>2. edgeFile.gen <= ghost'.gens
    <3>1. edgeFile.gen \in Nat /\ edgeFile.gen <= ghost.gens
      BY <1>1, NumberFacts DEF Documents, Types, EdgeRecord
    <3>2. ghost'.gens = ghost.gens \/ ghost'.gens = ghost.gens + 1
      BY DEF Refreshed
    <3> QED BY <1>3, <3>1, <3>2
  <2>3. SessionBound' /\ \A x \in Gens :
          /\ creds'.sessions[x].fresh => creds'.sessions[x].token # 0
          /\ creds'.sessions[x].token # 0 =>
               /\ x = creds'.gen /\ creds'.sessions[x].token <= ghost.serial
               /\ issued[creds'.sessions[x].token].who = creds.who
    <3>1. CASE creds.gen # 0
      BY <1>1, <3>1 DEF Documents, Refreshed, SessionBound
    <3>2. CASE creds.gen = 0
      BY <3>2, EmptyFacts DEF Refreshed, SessionBound
    <3> QED BY <3>1, <3>2
  <2>4. \A h \in Handles : creds'.eia[h] # NoEIA => h[2] = creds'.gen /\ creds'.eia[h].who = creds.who
    <3>1. CASE creds.gen # 0
      BY <1>1, <3>1 DEF Documents, Refreshed
    <3>2. CASE creds.gen = 0
      BY <3>2, EmptyFacts DEF Refreshed
    <3> QED BY <3>1, <3>2
  <2>5. /\ creds'.who = creds.who /\ ghost'.serial = ghost.serial
    BY DEF Refreshed
  <2> QED BY <1>1, <1>16, <2>1, <2>2, <2>3, <2>4, <2>5 DEF Documents, Live
<1>25. InForce'
  <2>1. ghost'.last.kind = "human" /\ hasKeycloakLogin(creds')
    BY <1>5 DEF Refreshed, hasKeycloakLogin
  <2>2. ~activeEdgeSession'
    <3>1. CASE creds.gen # 0
      BY <1>1, <1>5, <3>1 DEF InForce, activeEdgeSession, Refreshed
    <3>2. CASE creds.gen = 0
      <4>1. edgeFile.gen # ghost.gens + 1
        BY <1>1, <1>3, NumberFacts DEF Documents, Types, EdgeRecord
      <4> QED BY <3>2, <4>1 DEF activeEdgeSession, Refreshed
    <3> QED BY <3>1, <3>2
  <2>3. edgeFile.root # 0 =>
       /\ edgeFile.gen # 0 /\ keyring[EdgeKeyOf(edgeFile.gen)] \in {0, edgeFile.root}
       /\ ghost'.owner[edgeFile.gen] = issued[edgeFile.root].who
    <3>1. ghost'.owner[edgeFile.gen] = ghost.owner[edgeFile.gen]
      BY <1>1, <1>21 DEF Grows, Documents, Types, EdgeRecord
    <3> QED BY <1>1, <3>1 DEF InForce
  <2> QED BY <2>1, <2>2, <2>3 DEF InForce, hasKeycloakLogin
<1>26. Owned'
  <2>1. /\ \A r \in Serials : ~OwnsRoot(job[p], r)
        /\ \A h \in Handles : ~OwnsKey(job[p], h)
    BY DEF OwnsRoot, OwnsKey, Enrolling
  <2>2. ASSUME NEW h \in Handles, keyring'[h] # 0, h \notin ghost'.stray
        PROVE  \/ StoredKey(h)' \/ OwnsKey(k, h)
               \/ keyring[h] # 0 /\ h \notin ghost.stray /\ ~StoredKey(h) /\ ~OwnsKey(job[p], h)
    <3>1. CASE StoredKey(h)
      <4>1. CASE creds.gen # 0
        BY <3>1, <4>1 DEF StoredKey, Refreshed
      <4>2. CASE creds.gen = 0
        BY <1>6, <1>7, <1>11, <3>1, <4>2 DEF StoredKey, OwnsKey
      <4> QED BY <4>1, <4>2
    <3>2. CASE ~StoredKey(h)
      BY <2>1, <2>2, <3>2 DEF Refreshed
    <3> QED BY <3>1, <3>2
  <2>3. ghost'.adrift = ghost.adrift
    BY DEF Refreshed
  <2> QED BY <1>10, <2>1, <2>2, <2>3, StepOwned
<1>27. ghost'.replayed = ghost.replayed
  BY DEF Refreshed
<1> QED BY <1>14, <1>20, <1>23, <1>24, <1>25, <1>26, <1>27 DEF StoreInv

\* Keycloak issues a refresh token that no document carries yet.
LEMMA TokenStep ==
  ASSUME StoreInv, NEW p \in CLIs, NEW k \in Job, job' = [job EXCEPT ![p] = k],
         UNCHANGED <<creds, edgeFile, keyring, issued>>, Fault \/ NoFault,
         NEW S \in SUBSET Tokens, ghost.spent \subseteq S,
         ghost' = [ghost EXCEPT !.tokens = ghost.tokens + 1, !.spent = S],
         idp' \subseteq idp \cup {ghost.tokens + 1}, idp \subseteq idp' \cup S,
         JobShape(k), KnownJob(k), PlacedJob(k)', k.gen = job[p].gen, k.oldEdge = job[p].oldEdge,
         Redeems(job[p]), ~Redeems(k), Stamps(k) => Stamps(job[p]), ~MayBind(k), ~MayRebind(k),
         k.at # "edge_commit", k.at = "commit" => k.token = ghost.tokens + 1,
         job[p].at \notin Enrolling \cup {"cleanup"}
  PROVE  StoreInv'
<1>1. /\ job[p] \in Job /\ KnownJob(job[p]) /\ Types /\ Documents /\ InForce
  BY JobFacts
<1>0. Room
  BY DEF StoreInv
<1>2. used' \in Used /\ used'.commands = used.commands
  BY <1>1, Spends
<1>3. /\ ghost.gens \in Nat /\ ghost.serial \in Nat /\ ghost.tokens \in Nat /\ ghost.tokens + 1 \in Tokens
      /\ ghost.tokens + 1 # 0
  BY <1>0, <1>1, RoomLeft
<1>4. /\ ghost' \in Ghost /\ ghost'.serial = ghost.serial /\ ghost'.gens = ghost.gens /\ ghost'.tokens = ghost.tokens + 1
      /\ ghost'.owner = ghost.owner /\ ghost'.last = ghost.last /\ ghost'.spent = S
      /\ ghost'.adrift = ghost.adrift /\ ghost'.stray = ghost.stray /\ ghost'.purged = ghost.purged
      /\ ghost'.torn = ghost.torn /\ ghost'.overwritten = ghost.overwritten /\ ghost'.replayed = ghost.replayed
  BY <1>1, <1>3 DEF Types, Ghost
<1>5. Types'
  BY <1>1, <1>2, <1>3, <1>4 DEF Types
<1>6. Room'
  BY <1>0, <1>1, <1>2, <1>4, <1>5, RoomStep
<1>7. Grows
  BY <1>3, <1>4 DEF Grows
<1>8. ASSUME NEW q \in CLIs, q # p PROVE Undisturbed(job[q])
  <2>1. PlacedJob(job[q])
    BY JobFacts
  <2>2. job[q].at = "commit" => creds'.refresh # job[q].token /\ job[q].token \in idp' \cup ghost'.spent
    BY <1>4, <2>1 DEF PlacedJob
  <2>3. job[q].at = "edge_commit" => creds'.gen # job[q].gen /\ edgeFile'.gen # job[q].gen
    BY <2>1 DEF PlacedJob
  <2> QED BY <1>4, <2>2, <2>3 DEF Undisturbed
<1>9. KnownJob(k)'
  BY <1>1, <1>5, <1>7, KnownStays
<1>10. Jobs' /\ Apart'
  <2>1. ASSUME NEW q \in CLIs, q # p
        PROVE  /\ job[q].at = "edge_commit" => k.gen # job[q].gen /\ k.oldEdge.gen # job[q].gen
               /\ k.at = "edge_commit" => job[q].gen # k.gen /\ job[q].oldEdge.gen # k.gen
               /\ k.at = "commit" /\ job[q].at = "commit" => job[q].token # k.token
    <3>1. job[q] \in Job /\ PlacedJob(job[q])
      BY JobFacts
    <3>2. job[q].at = "commit" => job[q].token # ghost.tokens + 1
      BY <1>3, <3>1, NumberFacts DEF PlacedJob, Job
    <3> QED BY <2>1, <3>2, ApartFrom
  <2> QED BY <1>5, <1>7, <1>8, <1>9, <2>1, StepJobs
<1>11. Documents'
  <2>1. creds.refresh <= ghost'.tokens /\ creds.refresh \in idp' \cup ghost'.spent
    <3>1. creds.refresh \in Nat /\ creds.refresh <= ghost.tokens /\ creds.refresh \in idp \cup ghost.spent
      BY <1>1, NumberFacts DEF Documents, Types, Data
    <3> QED BY <1>3, <1>4, <3>1
  <2>2. 0 \in ghost'.spent /\ 0 \notin idp' /\ \A t \in idp' : t <= ghost'.tokens
    <3>1. \A t \in idp : t \in Nat /\ t <= ghost.tokens
      BY <1>1, NumberFacts DEF Documents, Types
    <3>2. 0 \in ghost.spent /\ 0 \notin idp
      BY <1>1 DEF Documents
    <3>3. \A t \in idp' : t \in idp \/ t = ghost.tokens + 1
      OBVIOUS
    <3> QED BY <1>3, <1>4, <3>1, <3>2, <3>3
  <2>3. SessionBound'
    BY <1>1, <1>4 DEF Documents, SessionBound
  <2> QED BY <1>1, <1>4, <2>1, <2>2, <2>3 DEF Documents, Live
<1>12. InForce'
  BY <1>1, <1>4 DEF InForce, activeEdgeSession, hasKeycloakLogin
<1>13. Owned'
  <2>1. /\ \A r \in Serials : ~OwnsRoot(job[p], r)
        /\ \A h \in Handles : ~OwnsKey(job[p], h)
    BY DEF OwnsRoot, OwnsKey, Enrolling
  <2>2. \A h \in Handles : StoredKey(h)' <=> StoredKey(h)
    BY DEF StoredKey
  <2> QED BY <1>4, <2>1, <2>2, StepOwned
<1> QED BY <1>4, <1>5, <1>6, <1>10, <1>11, <1>12, <1>13 DEF StoreInv

\* Grant preserves the invariant.
LEMMA GrantStep ==
  ASSUME StoreInv, NEW p \in CLIs, Grant(p)
  PROVE  StoreInv'
<1>1. /\ job[p] \in Job /\ JobShape(job[p]) /\ KnownJob(job[p]) /\ Types /\ Documents
  BY JobFacts
<1>2. /\ job[p].at = "grant" /\ UNCHANGED <<creds, edgeFile, keyring, issued>> /\ NoFault
      /\ ghost' = [ghost EXCEPT !.tokens = ghost.tokens + 1] /\ idp' = idp \cup {ghost.tokens + 1}
      /\ Set(p, [job[p] EXCEPT !.at = "commit", !.token = ghost.tokens + 1])
  BY <1>1 DEF Grant, NoFault, Types, Ghost
<1>3. ghost.tokens \in Nat /\ ghost.tokens + 1 \in Tokens /\ ghost.tokens + 1 # 0
  BY <1>1, RoomLeft DEF StoreInv
<1>4. ghost' = [ghost EXCEPT !.tokens = ghost.tokens + 1, !.spent = ghost.spent] /\ ghost.spent \in SUBSET Tokens
      /\ ghost'.tokens = ghost.tokens + 1
  BY <1>1, <1>2 DEF Types, Ghost
<1>5. PICK k \in Job : k = [job[p] EXCEPT !.at = "commit", !.token = ghost.tokens + 1]
  BY <1>1, <1>3, NumberFacts DEF Job, Ats
<1>6. /\ k.at = "commit" /\ k.gen = job[p].gen /\ k.oldEdge = job[p].oldEdge /\ k.root = job[p].root
      /\ k.cmd = job[p].cmd /\ k.retried = job[p].retried /\ k.token = ghost.tokens + 1
  BY <1>1, <1>5 DEF Job
<1>7. job[p].cmd = "login" /\ ~job[p].retried
  BY <1>1, <1>2 DEF JobShape
<1>8. JobShape(k)
  BY <1>3, <1>6, <1>7 DEF JobShape, Asking, Minting, Reading, Enrolling, Returns
<1>9. KnownJob(k)
  BY <1>1, <1>6, <1>7 DEF KnownJob, Minting, Reading, Returns
<1>10. PlacedJob(k)'
  <2>1. creds.refresh # ghost.tokens + 1 /\ ghost.tokens + 1 <= ghost.tokens + 1
    BY <1>1, <1>3, NumberFacts DEF Documents, Types, Data
  <2> QED BY <1>2, <1>4, <1>6, <2>1 DEF PlacedJob, Reading
<1>11. /\ Redeems(job[p]) /\ ~Redeems(k) /\ Stamps(job[p]) /\ ~MayBind(k) /\ ~MayRebind(k)
       /\ job[p].at \notin Enrolling \cup {"cleanup"}
  BY <1>2, <1>6 DEF Redeems, Stamps, MayBind, MayRebind, Asking, Returns, Enrolling
<1>12. job' = [job EXCEPT ![p] = k]
  BY <1>2, <1>5 DEF Set
<1> QED BY <1>2, <1>4, <1>6, <1>8, <1>9, <1>10, <1>11, <1>12, TokenStep

\* A Keycloak command is told to sign in again.
LEMMA ReloginStep ==
  ASSUME StoreInv, NEW p \in CLIs, NEW t \in ghost.spent, Relogin(p, t), job[p].at = "refresh", NoFault,
         UNCHANGED <<creds, edgeFile, keyring, idp, issued, ghost>>
  PROVE  StoreInv'
<1>1. /\ job[p] \in Job /\ JobShape(job[p]) /\ KnownJob(job[p]) /\ Types
  BY JobFacts
<1>2. used' \in Used /\ used'.commands = used.commands
  BY <1>1, Spends
<1>3. t \in Tokens
  BY <1>1 DEF Types, Ghost
<1>4. PICK k \in Job : k = [job[p] EXCEPT !.at = "relogin", !.refresh = t]
  BY <1>1, <1>3 DEF Job, Ats
<1>5. /\ k.at = "relogin" /\ k.gen = job[p].gen /\ k.oldEdge = job[p].oldEdge /\ k.root = job[p].root
      /\ k.refresh = t /\ k.retried = job[p].retried /\ k.token = job[p].token
  BY <1>1, <1>4 DEF Job
<1>6. job[p].root = 0
  BY <1>1 DEF JobShape, Asking
<1>7. JobShape(k) /\ KnownJob(k) /\ PlacedJob(k)
  BY <1>1, <1>5, <1>6 DEF JobShape, KnownJob, PlacedJob, Asking, Minting, Reading, Enrolling, Returns
<1>8. ~Stamps(k) /\ ~Redeems(k) /\ ~MayBind(k) /\ ~MayRebind(k)
  BY <1>5 DEF Stamps, Redeems, MayBind, MayRebind, Asking, Returns
<1>9. /\ \A r \in Serials : ~OwnsRoot(job[p], r)
      /\ \A h \in Handles : ~OwnsKey(job[p], h)
  BY DEF OwnsRoot, OwnsKey, Enrolling
<1>10. job' = [job EXCEPT ![p] = k]
  BY <1>4 DEF Relogin, Set
<1> QED BY <1>2, <1>5, <1>7, <1>8, <1>9, <1>10, QuietStep

\* EnsureRefresh preserves the invariant.
LEMMA EnsureRefreshStep ==
  ASSUME StoreInv, NEW p \in CLIs, EnsureRefresh(p)
  PROVE  StoreInv'
<1>1. /\ job[p] \in Job /\ JobShape(job[p]) /\ KnownJob(job[p]) /\ Types /\ Documents
  BY JobFacts
<1>2. job[p].at = "refresh" /\ UNCHANGED <<edgeFile, keyring, issued>>
      /\ job[p].at \notin Enrolling \cup {"cleanup"}
  BY DEF EnsureRefresh, Enrolling
<1>3. CASE /\ creds.id = "fresh" /\ Saved(p, stamped(creds))
           /\ ghost' = restamped(creds, ghost) /\ NoFault /\ UNCHANGED idp
  <2>1. creds' = stamped(creds) /\ Saved(p, creds')
    BY <1>3 DEF Saved
  <2>2. Refreshed
    BY <1>3, <2>1, RefreshedBy
  <2>3. hasKeycloakLogin(creds)
    BY <1>3 DEF hasKeycloakLogin
  <2> QED BY <1>2, <1>3, <2>1, <2>2, <2>3, SavedStep
<1>4. CASE Relogin(p, 0) /\ NoFault /\ UNCHANGED <<creds, idp, ghost>>
  BY <1>1, <1>2, <1>4, ReloginStep DEF Documents
<1>5. CASE /\ redeems(p) \notin idp /\ Relogin(p, redeems(p)) /\ NoFault /\ UNCHANGED <<creds, idp, ghost>>
  <2>1. creds.refresh \in ghost.spent
    BY <1>1, <1>5 DEF Documents, redeems
  <2> QED BY <1>2, <1>5, <2>1, ReloginStep DEF redeems
<1>6. CASE /\ redeems(p) \in idp
           /\ Saved(p, [stamped(creds) EXCEPT !.id = "fresh", !.refresh = ghost.tokens + 1])
           /\ idp' = (idp \ {redeems(p)}) \cup {ghost.tokens + 1}
           /\ ghost' = [restamped(creds, ghost) EXCEPT !.tokens = ghost.tokens + 1]
           /\ NoFault
  <2>1. creds' = [stamped(creds) EXCEPT !.id = "fresh", !.refresh = ghost.tokens + 1] /\ Saved(p, creds')
    BY <1>6 DEF Saved
  <2>2. idp' = (idp \ {creds.refresh}) \cup {ghost.tokens + 1} /\ creds.refresh \in idp
    BY <1>6 DEF redeems
  <2>3. Refreshed
    BY <1>6, <2>1, <2>2, RefreshedBy
  <2>4. hasKeycloakLogin(creds)
    BY <1>1, <2>2 DEF hasKeycloakLogin, Documents
  <2> QED BY <1>2, <1>6, <2>1, <2>3, <2>4, SavedStep
<1>7. CASE Fault /\ Unavailable(p) /\ UNCHANGED <<creds, idp, ghost>>
  BY <1>2, <1>7, StopSteps
<1>8. CASE /\ Fault /\ Unavailable(p) /\ UNCHANGED creds
           /\ idp' = (idp \ {redeems(p)}) \cup {ghost.tokens + 1}
           /\ ghost' = [ghost EXCEPT !.tokens = ghost.tokens + 1, !.spent = @ \cup {redeems(p)}]
  <2>1. PICK S \in SUBSET Tokens : S = ghost.spent \cup {creds.refresh}
    BY <1>1 DEF Types, Ghost, Data
  <2>2. ghost' = [ghost EXCEPT !.tokens = ghost.tokens + 1, !.spent = S]
    BY <1>1, <1>8, <2>1 DEF redeems, Types, Ghost
  <2>3. ghost.spent \subseteq S /\ idp' \subseteq idp \cup {ghost.tokens + 1} /\ idp \subseteq idp' \cup S
    BY <1>8, <2>1 DEF redeems
  <2>4. PICK k \in Job : k = [job[p] EXCEPT !.at = "unavailable", !.hit = TRUE]
    BY <1>1 DEF Job, Ats
  <2>5. /\ k.at = "unavailable" /\ k.gen = job[p].gen /\ k.oldEdge = job[p].oldEdge /\ k.root = job[p].root
        /\ k.token = job[p].token /\ k.retried = job[p].retried /\ k.hit
    BY <1>1, <2>4 DEF Job
  <2>6. job' = [job EXCEPT ![p] = k]
    BY <1>8, <2>4 DEF Unavailable, Set
  <2>7. KnownJob(k)
    BY <1>1, <2>5 DEF KnownJob, Minting, Reading, Returns
  <2>8. Redeems(job[p])
    BY <1>2 DEF Redeems, Asking
  <2> QED BY <1>2, <1>8, <2>2, <2>3, <2>5, <2>6, <2>7, <2>8, Resting, TokenStep
<1> QED BY <1>3, <1>4, <1>5, <1>6, <1>7, <1>8 DEF EnsureRefresh

\* A step after which the same login is in force; what it knew of may be gone.
Settled ==
  /\ ghost' \in Ghost /\ ghost'.serial = ghost.serial /\ ghost'.gens = ghost.gens /\ ghost'.tokens = ghost.tokens
  /\ ghost'.owner = ghost.owner /\ ghost'.last = ghost.last /\ ghost.spent \subseteq ghost'.spent
  /\ ghost.adrift \subseteq ghost'.adrift /\ ghost.stray \subseteq ghost'.stray /\ ghost.purged \subseteq ghost'.purged
  /\ ghost'.torn = ghost.torn /\ ghost'.overwritten = ghost.overwritten /\ ghost'.replayed = ghost.replayed

\* Keys are forgotten, tokens and roots revoked, never those of the login in force.
LEMMA ForgetStep ==
  ASSUME StoreInv, NEW p \in CLIs, NEW k \in Job, job' = [job EXCEPT ![p] = k],
         UNCHANGED <<creds, edgeFile>>, Fault \/ NoFault, Settled,
         NEW hs, keyring' \in [Handles -> Serials],
         \A h \in Handles : keyring'[h] = IF h \in hs THEN 0 ELSE keyring[h],
         \A g \in Gens : EdgeKeyOf(g) \in hs =>
           \/ keyring[EdgeKeyOf(g)] = 0 \/ EdgeKeyOf(g) \in ghost'.purged
           \/ g # creds.gen /\ \A q \in CLIs : q # p /\ job[q].at = "edge_commit" => g # job[q].gen,
         idp' \subseteq idp, idp \subseteq idp' \cup ghost'.spent,
         issued' \in [Serials -> IssuedRecord],
         \A r \in Serials : /\ issued'[r].kind = issued[r].kind /\ issued'[r].who = issued[r].who
                            /\ issued'[r].live => issued[r].live,
         JobShape(k), KnownJob(k), PlacedJob(k)',
         k.gen \in {0, job[p].gen}, k.oldEdge \in {NoEdge, job[p].oldEdge},
         k.at \notin {"edge_commit", "commit"},
         Stamps(k) => Stamps(job[p]), Redeems(k) => Redeems(job[p]),
         MayBind(k) => MayBind(job[p]), MayRebind(k) => MayRebind(job[p]),
         \A r \in Serials : OwnsRoot(job[p], r) =>
           ~issued'[r].live \/ r \in ghost'.adrift \/ issued'[r].kind # "edge-device",
         \A h \in Handles : OwnsKey(job[p], h) => h \in hs \/ h \in ghost'.stray
  PROVE  StoreInv'
<1>1. /\ job[p] \in Job /\ KnownJob(job[p]) /\ Types /\ Documents /\ InForce
  BY JobFacts
<1>0. Room
  BY DEF StoreInv
<1>2. used' \in Used /\ used'.commands = used.commands
  BY <1>1, Spends
<1>3. /\ ghost.gens \in Nat /\ ghost.serial \in Nat /\ ghost.tokens \in Nat
  BY <1>0, <1>1, RoomLeft
<1>5. Types'
  BY <1>1, <1>2 DEF Types, Settled
<1>6. Room'
  BY <1>0, <1>1, <1>2, <1>5, RoomStep DEF Settled
<1>7. Grows
  BY <1>3 DEF Grows, Settled
<1>4. \A g \in Gens : keyring'[EdgeKeyOf(g)] \in {0, keyring[EdgeKeyOf(g)]}
  BY HandleFacts
<1>8. ASSUME NEW q \in CLIs, q # p PROVE Undisturbed(job[q])
  <2>1. PlacedJob(job[q]) /\ job[q].gen \in Gens
    BY JobFacts DEF Job
  <2>2. job[q].at = "commit" => creds'.refresh # job[q].token /\ job[q].token \in idp' \cup ghost'.spent
    BY <2>1 DEF PlacedJob, Settled
  <2>3. job[q].at = "edge_commit" => creds'.gen # job[q].gen /\ edgeFile'.gen # job[q].gen
    BY <2>1 DEF PlacedJob
  <2>4. job[q].at = "edge_commit" =>
          keyring'[EdgeKeyOf(job[q].gen)] = keyring[EdgeKeyOf(job[q].gen)] \/ EdgeKeyOf(job[q].gen) \in ghost'.purged
    <3>1. EdgeKeyOf(job[q].gen) \in Handles
      BY <2>1, HandleFacts
    <3>2. CASE EdgeKeyOf(job[q].gen) \notin hs
      BY <3>1, <3>2
    <3>3. CASE EdgeKeyOf(job[q].gen) \in hs /\ job[q].at = "edge_commit"
      <4>1. keyring'[EdgeKeyOf(job[q].gen)] = 0
        BY <3>1, <3>3
      <4>2. keyring[EdgeKeyOf(job[q].gen)] = 0 \/ EdgeKeyOf(job[q].gen) \in ghost'.purged
        BY <1>8, <2>1, <3>3
      <4> QED BY <4>1, <4>2
    <3> QED BY <3>2, <3>3
  <2> QED BY <1>4, <2>1, <2>2, <2>3, <2>4 DEF Undisturbed, Settled
<1>9. KnownJob(k)'
  BY <1>1, <1>5, <1>7, KnownStays
<1>10. Jobs' /\ Apart'
  <2>1. ASSUME NEW q \in CLIs, q # p
        PROVE  /\ job[q].at = "edge_commit" => k.gen # job[q].gen /\ k.oldEdge.gen # job[q].gen
               /\ k.at = "edge_commit" => job[q].gen # k.gen /\ job[q].oldEdge.gen # k.gen
               /\ k.at = "commit" /\ job[q].at = "commit" => job[q].token # k.token
    BY <2>1, ApartFrom DEF NoEdge
  <2> QED BY <1>5, <1>7, <1>8, <1>9, <2>1, StepJobs
<1>11. Documents'
  <2>1. creds.refresh \in idp' \cup ghost'.spent /\ 0 \in ghost'.spent /\ 0 \notin idp'
        /\ \A t \in idp' : t <= ghost'.tokens
    BY <1>1 DEF Documents, Settled
  <2>2. SessionBound'
    <3>1. \A g \in Gens : sessionKeyHandle("human", g) \in Handles
      BY HandleFacts DEF sessionKeyHandle
    <3>2. \A g \in Gens : keyring'[sessionKeyHandle("human", g)] \in {0, keyring[sessionKeyHandle("human", g)]}
      BY <3>1
    <3>3. SessionBound /\ ghost'.torn = ghost.torn
      BY <1>1 DEF Documents, Settled
    <3> QED BY <3>2, <3>3 DEF SessionBound
  <2>3. \A t \in Serials : t = 0 \/ t > ghost'.serial => issued'[t].kind = "none" /\ ~issued'[t].live
    BY <1>1 DEF Documents, Live, Settled
  <2>4. \A g \in Gens : /\ creds.sessions[g].fresh => creds.sessions[g].token # 0
                        /\ creds.sessions[g].token # 0 =>
                             /\ g = creds.gen /\ creds.sessions[g].token <= ghost'.serial
                             /\ issued'[creds.sessions[g].token].who = creds.who
    <3>1. \A g \in Gens : creds.sessions[g].token \in Serials
      BY <1>1 DEF Types, Data, Session
    <3> QED BY <1>1, <3>1 DEF Documents, Settled
  <2> QED BY <1>1, <2>1, <2>2, <2>3, <2>4 DEF Documents, Live, Settled
<1>12. InForce'
  <2>1. /\ edgeFile.gen \in Gens /\ edgeFile.root \in Serials /\ creds.gen \in Gens
    BY <1>1 DEF Types, EdgeRecord, Data
  <2>2. keyring[EdgeKeyOf(creds.gen)] # 0 \/ EdgeKeyOf(creds.gen) \in ghost.purged =>
          keyring'[EdgeKeyOf(creds.gen)] # 0 \/ EdgeKeyOf(creds.gen) \in ghost'.purged
    BY <2>1, HandleFacts DEF Settled
  <2>3. edgeFile.root # 0 =>
       /\ edgeFile.gen # 0 /\ keyring'[EdgeKeyOf(edgeFile.gen)] \in {0, edgeFile.root}
       /\ ghost'.owner[edgeFile.gen] = issued'[edgeFile.root].who
    BY <1>1, <1>4, <2>1 DEF InForce, Settled
  <2>4. (activeEdgeSession' <=> activeEdgeSession) /\ (hasKeycloakLogin(creds)' <=> hasKeycloakLogin(creds))
        /\ ghost'.last = ghost.last /\ ghost'.overwritten = ghost.overwritten
    BY DEF activeEdgeSession, hasKeycloakLogin, Settled
  <2> QED BY <1>1, <2>2, <2>3, <2>4 DEF InForce, hasKeycloakLogin
<1>13. Owned'
  <2>2. \A h \in Handles : StoredKey(h)' <=> StoredKey(h)
    BY DEF StoredKey
  <2>3. ASSUME NEW r \in Serials, issued'[r].live, issued'[r].kind = "edge-device", r \notin ghost'.adrift
        PROVE  \/ edgeFile'.root = r \/ OwnsRoot(k, r)
               \/ /\ issued[r].live /\ issued[r].kind = "edge-device" /\ r \notin ghost.adrift
                  /\ edgeFile.root # r /\ ~OwnsRoot(job[p], r)
    BY <2>3 DEF Settled
  <2>4. ASSUME NEW h \in Handles, keyring'[h] # 0, h \notin ghost'.stray
        PROVE  \/ StoredKey(h)' \/ OwnsKey(k, h)
               \/ keyring[h] # 0 /\ h \notin ghost.stray /\ ~StoredKey(h) /\ ~OwnsKey(job[p], h)
    BY <2>2, <2>4 DEF Settled
  <2> QED BY <2>3, <2>4, StepOwned
<1> QED BY <1>5, <1>6, <1>10, <1>11, <1>12, <1>13 DEF StoreInv, Settled

\* What forgetting keys leaves in the credential store.
LEMMA ForgetFacts ==
  ASSUME Types, NEW hs
  PROVE  /\ forget(keyring, hs) \in [Handles -> Serials]
         /\ \A h \in Handles : forget(keyring, hs)[h] = IF h \in hs THEN 0 ELSE keyring[h]
BY NumberFacts DEF Types, forget

\* A revocation ends one session or root.
LEMMA RevokeFacts ==
  ASSUME Types, NEW r \in Serials, issued' = [issued EXCEPT ![r].live = FALSE]
  PROVE  /\ issued' \in [Serials -> IssuedRecord] /\ ~issued'[r].live
         /\ \A x \in Serials : /\ issued'[x].kind = issued[x].kind /\ issued'[x].who = issued[x].who
                               /\ issued'[x].live => issued[x].live
BY DEF Types, IssuedRecord

\* Cleanup preserves the invariant.
LEMMA CleanupStep ==
  ASSUME StoreInv, NEW p \in CLIs, Cleanup(p)
  PROVE  StoreInv'
<1>1. /\ job[p] \in Job /\ JobShape(job[p]) /\ KnownJob(job[p]) /\ PlacedJob(job[p]) /\ Types /\ Documents
  BY JobFacts
<1>2. /\ job[p].at = "cleanup" /\ UNCHANGED <<creds, edgeFile>> /\ idp \ {job[p].refresh} \subseteq idp'
      /\ idp' \subseteq idp /\ (Fault \/ NoFault)
  BY DEF Cleanup
<1>3. /\ job[p].refresh \in Tokens /\ job[p].oldEdge.root \in Serials /\ job[p].oldEdge.gen \in Gens
      /\ job[p].orphans \subseteq Handles /\ \A h \in job[p].orphans : h[1] = "human"
  BY <1>1, <1>2 DEF Job, EdgeRecord, JobShape
<1>a. PICK all \in SUBSET Handles :
        all = job[p].orphans \cup (IF job[p].oldEdge.root = 0 THEN {} ELSE {EdgeKeyOf(job[p].oldEdge.gen)})
  BY <1>3, HandleFacts
<1>b. PICK kept \in SUBSET all, lost \in SUBSET {"root", "token"} :
        /\ keyring' = forget(keyring, all \ kept)
        /\ issued' = IF "root" \in lost THEN issued ELSE [issued EXCEPT ![job[p].oldEdge.root].live = FALSE]
        /\ ghost' = [ghost EXCEPT !.spent = @ \cup {job[p].refresh}, !.stray = @ \cup kept,
                       !.adrift = @ \cup (IF "root" \in lost THEN {job[p].oldEdge.root} ELSE {})]
  BY <1>a DEF Cleanup, sessionKeyHandle, EdgeKeyOf
<1>4. PICK hs : hs = all \ kept /\ keyring' = forget(keyring, hs)
  BY <1>b
<1>5. /\ keyring' \in [Handles -> Serials]
      /\ \A h \in Handles : keyring'[h] = IF h \in hs THEN 0 ELSE keyring[h]
  BY <1>1, <1>4, ForgetFacts
<1>6. ASSUME NEW g \in Gens, EdgeKeyOf(g) \in hs
      PROVE  g # creds.gen /\ \A q \in CLIs : q # p /\ job[q].at = "edge_commit" => g # job[q].gen
  <2>1. job[p].oldEdge.root # 0 /\ EdgeKeyOf(g) = EdgeKeyOf(job[p].oldEdge.gen)
    BY <1>3, <1>a, <1>4, <1>6, HandleFacts
  <2>2. g = job[p].oldEdge.gen
    BY <1>3, <2>1, HandleFacts
  <2>3. g # creds.gen
    BY <1>1, <1>2, <2>1, <2>2 DEF PlacedJob, Documents
  <2> QED BY <2>2, <2>3, ApartFrom
<1>7. Settled /\ idp \subseteq idp' \cup ghost'.spent /\ kept \subseteq ghost'.stray
      /\ (issued' = [issued EXCEPT ![job[p].oldEdge.root].live = FALSE]
          \/ (issued' = issued /\ job[p].oldEdge.root \in ghost'.adrift))
  <2>1. ghost \in Ghost
    BY <1>1 DEF Types
  <2>2. PICK A \in SUBSET Serials :
          A = ghost.adrift \cup (IF "root" \in lost THEN {job[p].oldEdge.root} ELSE {})
    BY <1>3, <2>1 DEF Ghost
  <2>3. PICK S \in SUBSET Handles : S = ghost.stray \cup kept
    BY <1>a, <1>b, <2>1 DEF Ghost
  <2>4. PICK T \in SUBSET Tokens : T = ghost.spent \cup {job[p].refresh}
    BY <1>3, <2>1 DEF Ghost
  <2>5. ghost' = [ghost EXCEPT !.spent = T, !.stray = S, !.adrift = A]
    BY <1>b, <2>1, <2>2, <2>3, <2>4 DEF Ghost
  <2>6. Settled /\ ghost'.spent = T /\ ghost'.stray = S /\ ghost'.adrift = A
    BY <2>1, <2>2, <2>3, <2>4, <2>5 DEF Settled, Ghost
  <2>7. idp \subseteq idp' \cup ghost'.spent
    BY <1>2, <2>4, <2>6
  <2> QED BY <1>b, <2>2, <2>3, <2>6, <2>7
<1>8. /\ issued' \in [Serials -> IssuedRecord]
      /\ \A r \in Serials : /\ issued'[r].kind = issued[r].kind /\ issued'[r].who = issued[r].who
                            /\ issued'[r].live => issued[r].live
      /\ ~issued'[job[p].oldEdge.root].live \/ job[p].oldEdge.root \in ghost'.adrift
  BY <1>1, <1>3, <1>7, RevokeFacts DEF Types
<1>9. PICK a \in {"unavailable", "ok", "context"} :
        a = IF job[p].hit THEN "unavailable" ELSE IF job[p].cmd \in {"login", "edgeLogin"} THEN "ok" ELSE "context"
  OBVIOUS
<1>10. PICK k \in Job : k = [job[p] EXCEPT !.orphans = {}, !.oldEdge = NoEdge, !.refresh = 0, !.at = a]
  BY <1>1, <1>9, NumberFacts DEF Job, Ats, NoEdge, EdgeRecord
<1>11. job' = [job EXCEPT ![p] = k]
  BY <1>9, <1>10 DEF Cleanup, Set
<1>12. /\ k.at = a /\ k.gen = job[p].gen /\ k.oldEdge = NoEdge /\ k.root = job[p].root /\ k.cmd = job[p].cmd
       /\ k.retried = job[p].retried /\ k.token = job[p].token /\ k.who = job[p].who /\ k.hit = job[p].hit
       /\ NoEdge.gen = 0 /\ k.orphans = {}
  BY <1>1, <1>10 DEF Job, NoEdge
<1>13. a = "context" => Returns(job[p])
  BY <1>2, <1>9 DEF Returns
<1>14. JobShape(k)
  BY <1>1, <1>9, <1>12, <1>13 DEF JobShape, Asking, Minting, Reading, Enrolling, Returns
<1>15. KnownJob(k)
  <2>1. ghost.gens \in Nat
    BY <1>1, NumberFacts DEF Types, Ghost
  <2> QED BY <1>1, <1>9, <1>12, <1>13, <2>1 DEF KnownJob, Minting, Reading, Returns
<1>16. PlacedJob(k)'
  BY <1>9, <1>12 DEF PlacedJob, Reading
<1>17. ~Stamps(k) /\ ~Redeems(k) /\ (MayBind(k) => MayBind(job[p])) /\ (MayRebind(k) => MayRebind(job[p]))
  BY <1>9, <1>12, <1>13 DEF Stamps, Redeems, MayBind, MayRebind, Asking, Returns
<1>18. \A r \in Serials : OwnsRoot(job[p], r) => r = job[p].oldEdge.root
  BY <1>2 DEF OwnsRoot, Enrolling
<1>19. \A h \in Handles : OwnsKey(job[p], h) => h \in all
  <2>1. ASSUME NEW h \in Handles, OwnsKey(job[p], h) PROVE h \in all
    <3>1. \/ h \in job[p].orphans
          \/ h[1] = "edge-device" /\ job[p].oldEdge.root # 0 /\ job[p].oldEdge.gen = h[2]
      BY <1>2, <2>1 DEF OwnsKey
    <3> QED BY <1>a, <3>1, HandleFacts DEF EdgeKeyOf
  <2> QED BY <2>1
<1>20. /\ k.at \notin {"edge_commit", "commit"} /\ idp' \subseteq idp
       /\ k.gen \in {0, job[p].gen} /\ k.oldEdge \in {NoEdge, job[p].oldEdge}
  BY <1>2, <1>9, <1>12
<1>21. \A r \in Serials : OwnsRoot(job[p], r) =>
         ~issued'[r].live \/ r \in ghost'.adrift \/ issued'[r].kind # "edge-device"
  BY <1>8, <1>18
<1>22. idp \subseteq idp' \cup ghost'.spent /\ Settled
  BY <1>7
<1>23. /\ issued' \in [Serials -> IssuedRecord]
       /\ \A r \in Serials : /\ issued'[r].kind = issued[r].kind /\ issued'[r].who = issued[r].who
                             /\ issued'[r].live => issued[r].live
  BY <1>8
<1>24. \A g \in Gens : EdgeKeyOf(g) \in hs =>
         \/ keyring[EdgeKeyOf(g)] = 0 \/ EdgeKeyOf(g) \in ghost'.purged
         \/ g # creds.gen /\ \A q \in CLIs : q # p /\ job[q].at = "edge_commit" => g # job[q].gen
  BY <1>6
<1>25. \A h \in Handles : OwnsKey(job[p], h) => h \in hs \/ h \in ghost'.stray
  BY <1>4, <1>7, <1>19
<1> QED BY <1>2, <1>5, <1>24, <1>25, <1>11, <1>14, <1>15, <1>16, <1>17, <1>20, <1>21, <1>22, <1>23, ForgetStep

\* A process with no command.
LEMMA IdleFacts ==
  /\ Idle \in Job /\ Idle.at = "idle" /\ Idle.gen = 0 /\ Idle.oldEdge = NoEdge /\ Idle.root = 0 /\ ~Idle.retried
  /\ NoEdge.gen = 0 /\ NoEdge.root = 0 /\ Idle.token = 0
BY NumberFacts DEF Idle, Job, Ats, NoEdge, EdgeRecord

\* A command ends, forgetting or revoking what is not the login in force.
LEMMA EndStep ==
  ASSUME StoreInv, NEW p \in CLIs, NEW k \in Job, job' = [job EXCEPT ![p] = k],
         UNCHANGED <<creds, edgeFile, idp>>, Fault \/ NoFault, Settled,
         k.at \in {"idle", "unavailable"}, k.at = "unavailable" => k.hit,
         k.gen = 0, k.oldEdge = NoEdge, k.root = 0, ~k.retried,
         NEW hs, keyring' \in [Handles -> Serials],
         \A h \in Handles : keyring'[h] = IF h \in hs THEN 0 ELSE keyring[h],
         \A g \in Gens : EdgeKeyOf(g) \in hs =>
           g # creds.gen /\ \A q \in CLIs : q # p /\ job[q].at = "edge_commit" => g # job[q].gen,
         issued' \in [Serials -> IssuedRecord],
         \A r \in Serials : /\ issued'[r].kind = issued[r].kind /\ issued'[r].who = issued[r].who
                            /\ issued'[r].live => issued[r].live,
         \A r \in Serials : OwnsRoot(job[p], r) => ~issued'[r].live \/ r \in ghost'.adrift,
         \A h \in Handles : OwnsKey(job[p], h) => h \in hs \/ h \in ghost'.stray
  PROVE  StoreInv'
<1>1. Types
  BY DEF StoreInv
<1>2. ghost.gens \in Nat /\ ghost.serial \in Nat
  BY <1>1, NumberFacts DEF Types, Ghost
<1>3. KnownJob(k)
  BY <1>2 DEF KnownJob, Minting, Reading, Returns, NoEdge
<1>4. /\ JobShape(k) /\ PlacedJob(k)' /\ ~Stamps(k) /\ ~Redeems(k) /\ ~MayBind(k) /\ ~MayRebind(k)
  BY Resting
<1>5. /\ k.at \notin {"edge_commit", "commit"} /\ k.gen \in {0, job[p].gen} /\ k.oldEdge \in {NoEdge, job[p].oldEdge}
      /\ idp' \subseteq idp /\ idp \subseteq idp' \cup ghost'.spent
  OBVIOUS
<1>6. \A g \in Gens : EdgeKeyOf(g) \in hs =>
         \/ keyring[EdgeKeyOf(g)] = 0 \/ EdgeKeyOf(g) \in ghost'.purged
         \/ g # creds.gen /\ \A q \in CLIs : q # p /\ job[q].at = "edge_commit" => g # job[q].gen
  OBVIOUS
<1>7. \A r \in Serials : OwnsRoot(job[p], r) =>
           ~issued'[r].live \/ r \in ghost'.adrift \/ issued'[r].kind # "edge-device"
  OBVIOUS
<1> QED BY <1>3, <1>4, <1>5, <1>6, <1>7, ForgetStep

\* Abandon preserves the invariant.
LEMMA AbandonStep ==
  ASSUME StoreInv, NEW p \in CLIs, Abandon(p)
  PROVE  StoreInv'
<1>1. /\ job[p] \in Job /\ JobShape(job[p]) /\ KnownJob(job[p]) /\ PlacedJob(job[p]) /\ Types /\ Documents
  BY JobFacts
<1>2. /\ job[p].at = "abandon" /\ UNCHANGED <<creds, edgeFile, idp>> /\ (Fault \/ NoFault)
  BY DEF Abandon
<1>k. PICK kept \in SUBSET job[p].orphans, lost \in BOOLEAN :
        /\ keyring' = forget(keyring, job[p].orphans \ kept)
        /\ issued' = IF lost THEN issued ELSE [issued EXCEPT ![job[p].root].live = FALSE]
        /\ ghost' = [ghost EXCEPT !.stray = @ \cup kept,
                       !.adrift = @ \cup (IF lost THEN {job[p].root} ELSE {})]
  BY DEF Abandon
<1>3. /\ job[p].orphans \subseteq {EdgeKeyOf(job[p].gen)} /\ (job[p].orphans # {} => job[p].gen # 0)
      /\ job[p].root \in Serials /\ job[p].gen \in Gens /\ job[p].orphans \subseteq Handles
  BY <1>1, <1>2 DEF JobShape, Enrolling, Job
<1>4. PICK hs : hs = job[p].orphans \ kept
  OBVIOUS
<1>5. /\ keyring' \in [Handles -> Serials]
      /\ \A h \in Handles : keyring'[h] = IF h \in hs THEN 0 ELSE keyring[h]
  BY <1>1, <1>k, <1>4, ForgetFacts
<1>6. ASSUME NEW g \in Gens, EdgeKeyOf(g) \in hs
      PROVE  g # creds.gen /\ \A q \in CLIs : q # p /\ job[q].at = "edge_commit" => g # job[q].gen
  <2>1. g = job[p].gen /\ job[p].gen # 0
    BY <1>3, <1>4, <1>6, HandleFacts
  <2>2. g # creds.gen
    BY <1>1, <1>2, <2>1 DEF PlacedJob, Documents
  <2> QED BY <2>1, <2>2, ApartFrom
<1>7. /\ Settled /\ kept \subseteq ghost'.stray
      /\ issued' \in [Serials -> IssuedRecord]
      /\ \A r \in Serials : /\ issued'[r].kind = issued[r].kind /\ issued'[r].who = issued[r].who
                            /\ issued'[r].live => issued[r].live
      /\ ~issued'[job[p].root].live \/ job[p].root \in ghost'.adrift
  <2>1. ghost \in Ghost
    BY <1>1 DEF Types
  <2>2. PICK A \in SUBSET Serials : A = ghost.adrift \cup (IF lost THEN {job[p].root} ELSE {})
    BY <1>3, <2>1 DEF Ghost
  <2>3. PICK S \in SUBSET Handles : S = ghost.stray \cup kept
    BY <1>3, <1>k, <2>1 DEF Ghost
  <2>4. ghost' = [ghost EXCEPT !.stray = S, !.adrift = A]
    BY <1>k, <2>1, <2>2, <2>3 DEF Ghost
  <2>5. Settled /\ ghost'.stray = S /\ ghost'.adrift = A
    BY <2>1, <2>2, <2>3, <2>4 DEF Settled, Ghost
  <2>6. CASE lost
    <3>1. issued' = issued
      BY <1>k, <2>6
    <3> QED BY <1>1, <2>2, <2>3, <2>5, <2>6, <3>1 DEF Types
  <2>7. CASE ~lost
    <3>1. issued' = [issued EXCEPT ![job[p].root].live = FALSE]
      BY <1>k, <2>7
    <3> QED BY <1>1, <1>3, <2>3, <2>5, <3>1, RevokeFacts
  <2> QED BY <2>6, <2>7
<1>8. PICK k \in Job : k = [Idle EXCEPT !.at = "unavailable", !.hit = TRUE]
  BY NumberFacts DEF Idle, Job, Ats, NoEdge, EdgeRecord
<1>9. k.at = "unavailable" /\ k.hit /\ k.gen = 0 /\ k.oldEdge = NoEdge /\ k.root = 0 /\ ~k.retried
  BY <1>8 DEF Idle
<1>10. job' = [job EXCEPT ![p] = k]
  BY <1>8 DEF Abandon, Set
<1>11. \A r \in Serials : OwnsRoot(job[p], r) => ~issued'[r].live \/ r \in ghost'.adrift
  BY <1>2, <1>7 DEF OwnsRoot, Enrolling
<1>12. \A h \in Handles : OwnsKey(job[p], h) => h \in hs \/ h \in ghost'.stray
  BY <1>2, <1>4, <1>7 DEF OwnsKey
<1> QED BY <1>2, <1>5, <1>6, <1>7, <1>9, <1>10, <1>11, <1>12, EndStep

\* Kill preserves the invariant.
LEMMA KillStep ==
  ASSUME StoreInv, NEW p \in CLIs, Kill(p)
  PROVE  StoreInv'
<1>1. /\ job[p] \in Job /\ JobShape(job[p]) /\ Types
  BY JobFacts
<1>2. UNCHANGED <<creds, edgeFile, keyring, idp, issued>> /\ Fault /\ Set(p, Idle)
  BY DEF Kill, World
<1>3. PICK A : A = {job[p].oldEdge.root} \cup (IF job[p].cmd = "edgeLogin" THEN {job[p].root} ELSE {})
  OBVIOUS
<1>4. PICK K : K = job[p].orphans \cup {EdgeKeyOf(job[p].oldEdge.gen)}
                     \cup (IF job[p].cmd = "edgeLogin" THEN {EdgeKeyOf(job[p].gen)} ELSE {})
  OBVIOUS
<1>5. A \subseteq Serials /\ K \subseteq Handles
  <2>1. /\ job[p].oldEdge.root \in Serials /\ job[p].root \in Serials /\ job[p].orphans \subseteq Handles
        /\ job[p].oldEdge.gen \in Gens /\ job[p].gen \in Gens
    BY <1>1 DEF Job, EdgeRecord
  <2>2. EdgeKeyOf(job[p].oldEdge.gen) \in Handles /\ EdgeKeyOf(job[p].gen) \in Handles
    BY <2>1, HandleFacts
  <2> QED BY <1>3, <1>4, <2>1, <2>2
<1>6. ghost' = [ghost EXCEPT !.adrift = ghost.adrift \cup A, !.stray = ghost.stray \cup K]
  <2>1. ghost \in Ghost
    BY <1>1 DEF Types
  <2>2. ghost' = [ghost EXCEPT !.adrift = ghost.adrift \cup {job[p].oldEdge.root}
                                 \cup (IF job[p].cmd = "edgeLogin" THEN {job[p].root} ELSE {}),
                               !.stray = ghost.stray \cup job[p].orphans \cup {EdgeKeyOf(job[p].oldEdge.gen)}
                                 \cup (IF job[p].cmd = "edgeLogin" THEN {EdgeKeyOf(job[p].gen)} ELSE {})]
    BY <2>1 DEF Kill, sessionKeyHandle, EdgeKeyOf, Ghost
  <2>3. ghost.adrift \cup {job[p].oldEdge.root} \cup (IF job[p].cmd = "edgeLogin" THEN {job[p].root} ELSE {})
          = ghost.adrift \cup A
    BY <1>3
  <2>4. ghost.stray \cup job[p].orphans \cup {EdgeKeyOf(job[p].oldEdge.gen)}
          \cup (IF job[p].cmd = "edgeLogin" THEN {EdgeKeyOf(job[p].gen)} ELSE {}) = ghost.stray \cup K
    BY <1>4
  <2> QED BY <2>2, <2>3, <2>4
<1>7. Settled /\ A \subseteq ghost'.adrift /\ K \subseteq ghost'.stray
  BY <1>1, <1>5, <1>6 DEF Types, Ghost, Settled
<1>8. PICK k \in Job : k = Idle
  BY IdleFacts
<1>9. k.at = "idle" /\ k.gen = 0 /\ k.oldEdge = NoEdge /\ k.root = 0 /\ ~k.retried
  BY <1>8, IdleFacts
<1>10. job' = [job EXCEPT ![p] = k]
  BY <1>2, <1>8 DEF Set
<1>11. \A r \in Serials : OwnsRoot(job[p], r) => ~issued'[r].live \/ r \in ghost'.adrift
  <2>1. job[p].at \in Enrolling => job[p].cmd = "edgeLogin"
    BY <1>1 DEF JobShape
  <2> QED BY <1>3, <1>7, <2>1 DEF OwnsRoot
<1>12. \A h \in Handles : OwnsKey(job[p], h) => h \in ghost'.stray
  <2>1. ASSUME NEW h \in Handles, OwnsKey(job[p], h) PROVE h \in K
    <3>1. job[p].at = "edge_commit" => job[p].cmd = "edgeLogin"
      BY <1>1 DEF JobShape, Enrolling
    <3>2. h[1] = "edge-device" => h = EdgeKeyOf(h[2])
      BY HandleFacts DEF EdgeKeyOf
    <3> QED BY <1>4, <2>1, <3>1, <3>2 DEF OwnsKey
  <2> QED BY <1>7, <2>1
<1>13. PICK hs : hs = {}
  OBVIOUS
<1>14. /\ keyring' \in [Handles -> Serials] /\ \A h \in Handles : keyring'[h] = IF h \in hs THEN 0 ELSE keyring[h]
       /\ issued' \in [Serials -> IssuedRecord]
  BY <1>1, <1>2, <1>13 DEF Types
<1>15. \A r \in Serials : /\ issued'[r].kind = issued[r].kind /\ issued'[r].who = issued[r].who
                          /\ issued'[r].live => issued[r].live
  BY <1>2
<1> QED BY <1>2, <1>7, <1>9, <1>10, <1>11, <1>12, <1>13, <1>14, <1>15, EndStep

\* Logout goes on to its next step.
LEMMA LogoutJob ==
  ASSUME StoreInv, NEW p \in CLIs, NEW a \in {"purge", "clear"}, job[p].at \in {"revoke", "purge"},
         NEW k \in Job, k = [job[p] EXCEPT !.at = a]
  PROVE  /\ JobShape(k) /\ KnownJob(k) /\ PlacedJob(k)' /\ k.gen \in {0, job[p].gen}
         /\ k.oldEdge \in {NoEdge, job[p].oldEdge} /\ k.at \notin {"edge_commit", "commit"}
         /\ ~Stamps(k) /\ ~Redeems(k) /\ ~MayBind(k) /\ ~MayRebind(k)
         /\ \A r \in Serials : ~OwnsRoot(job[p], r)
         /\ \A h \in Handles : ~OwnsKey(job[p], h)
<1>1. /\ job[p] \in Job /\ JobShape(job[p]) /\ KnownJob(job[p])
  BY JobFacts
<1>2. /\ k.at = a /\ k.gen = job[p].gen /\ k.oldEdge = job[p].oldEdge /\ k.root = job[p].root
      /\ k.cmd = job[p].cmd /\ k.retried = job[p].retried /\ k.token = job[p].token
  BY <1>1 DEF Job
<1>3. JobShape(k)
  BY <1>1, <1>2 DEF JobShape, Asking, Minting, Reading, Enrolling, Returns
<1>4. KnownJob(k) /\ PlacedJob(k)'
  BY <1>1, <1>2 DEF KnownJob, PlacedJob, Minting, Reading, Returns
<1>5. ~Stamps(k) /\ ~Redeems(k) /\ ~MayBind(k) /\ ~MayRebind(k)
  BY <1>2 DEF Stamps, Redeems, MayBind, MayRebind, Asking, Returns
<1>6. (\A r \in Serials : ~OwnsRoot(job[p], r)) /\ (\A h \in Handles : ~OwnsKey(job[p], h))
  BY DEF OwnsRoot, OwnsKey, Enrolling
<1> QED BY <1>2, <1>3, <1>4, <1>5, <1>6

\* LogoutRevoke preserves the invariant.
LEMMA LogoutRevokeStep ==
  ASSUME StoreInv, NEW p \in CLIs, LogoutRevoke(p)
  PROVE  StoreInv'
<1>1. job[p] \in Job /\ Types
  BY JobFacts
<1>2. job[p].at = "revoke" /\ UNCHANGED <<creds, edgeFile, keyring>> /\ (Fault \/ NoFault)
      /\ Set(p, [job[p] EXCEPT !.at = "purge"])
  BY DEF LogoutRevoke
<1>3. job[p].refresh \in Tokens /\ job[p].oldEdge.root \in Serials /\ ghost \in Ghost
  BY <1>1 DEF Job, EdgeRecord, Types
<1>4. /\ Settled /\ idp' \subseteq idp /\ idp \subseteq idp' \cup ghost'.spent
      /\ issued' \in [Serials -> IssuedRecord]
      /\ \A r \in Serials : /\ issued'[r].kind = issued[r].kind /\ issued'[r].who = issued[r].who
                            /\ issued'[r].live => issued[r].live
  <2>1. CASE /\ idp' = idp \ {job[p].refresh} /\ issued' = [issued EXCEPT ![job[p].oldEdge.root].live = FALSE]
             /\ ghost' = [ghost EXCEPT !.spent = @ \cup {job[p].refresh}]
    <3>1. Settled /\ job[p].refresh \in ghost'.spent
      BY <1>3, <2>1 DEF Settled, Ghost
    <3>2. idp' \subseteq idp /\ idp \subseteq idp' \cup ghost'.spent
      BY <2>1, <3>1
    <3> QED BY <1>1, <1>3, <2>1, <3>1, <3>2, RevokeFacts
  <2>2. CASE ghost' = [ghost EXCEPT !.adrift = @ \cup {job[p].oldEdge.root}] /\ UNCHANGED <<idp, issued>>
    <3>1. Settled
      BY <1>3, <2>2 DEF Settled, Ghost
    <3> QED BY <1>1, <2>2, <3>1 DEF Types
  <2> QED BY <2>1, <2>2 DEF LogoutRevoke
<1>5. PICK k \in Job : k = [job[p] EXCEPT !.at = "purge"]
  BY <1>1 DEF Job, Ats
<1>6. job' = [job EXCEPT ![p] = k]
  BY <1>2, <1>5 DEF Set
<1>7. /\ JobShape(k) /\ KnownJob(k) /\ PlacedJob(k)' /\ k.gen \in {0, job[p].gen}
      /\ k.oldEdge \in {NoEdge, job[p].oldEdge} /\ k.at \notin {"edge_commit", "commit"}
      /\ ~Stamps(k) /\ ~Redeems(k) /\ ~MayBind(k) /\ ~MayRebind(k)
      /\ \A r \in Serials : ~OwnsRoot(job[p], r)
      /\ \A h \in Handles : ~OwnsKey(job[p], h)
  BY <1>2, <1>5, LogoutJob
<1>8. PICK hs : hs = {}
  OBVIOUS
<1>9. keyring' \in [Handles -> Serials] /\ \A h \in Handles : keyring'[h] = IF h \in hs THEN 0 ELSE keyring[h]
  BY <1>1, <1>2, <1>8 DEF Types
<1> QED BY <1>2, <1>4, <1>6, <1>7, <1>8, <1>9, ForgetStep

\* LogoutPurge preserves the invariant.
LEMMA LogoutPurgeStep ==
  ASSUME StoreInv, NEW p \in CLIs, LogoutPurge(p)
  PROVE  StoreInv'
<1>1. job[p] \in Job /\ Types /\ ghost \in Ghost
  BY JobFacts DEF Types
<1>2. job[p].at = "purge" /\ UNCHANGED <<creds, edgeFile, idp, issued>> /\ (Fault \/ NoFault)
      /\ Set(p, [job[p] EXCEPT !.at = "clear"])
  BY DEF LogoutPurge
<1>3. PICK K \in SUBSET Handles : K = {h \in Handles : keyring[h] # 0}
  OBVIOUS
<1>k. PICK kept \in SUBSET K :
        /\ keyring' = forget(keyring, Handles \ kept)
        /\ ghost' = [ghost EXCEPT !.purged = @ \cup (K \ kept), !.stray = @ \cup kept]
  BY <1>3 DEF LogoutPurge
<1>5. Settled /\ K \ kept \subseteq ghost'.purged
  <2>1. PICK G \in SUBSET Handles : G = ghost.purged \cup (K \ kept)
    BY <1>1 DEF Ghost
  <2>2. PICK S \in SUBSET Handles : S = ghost.stray \cup kept
    BY <1>1 DEF Ghost
  <2>3. ghost' = [ghost EXCEPT !.purged = G, !.stray = S]
    BY <1>1, <1>k, <2>1, <2>2 DEF Ghost
  <2> QED BY <1>1, <2>1, <2>2, <2>3 DEF Settled, Ghost
<1>6. PICK k \in Job : k = [job[p] EXCEPT !.at = "clear"]
  BY <1>1 DEF Job, Ats
<1>7. job' = [job EXCEPT ![p] = k]
  BY <1>2, <1>6 DEF Set
<1>8. /\ JobShape(k) /\ KnownJob(k) /\ PlacedJob(k)' /\ k.gen \in {0, job[p].gen}
      /\ k.oldEdge \in {NoEdge, job[p].oldEdge} /\ k.at \notin {"edge_commit", "commit"}
      /\ ~Stamps(k) /\ ~Redeems(k) /\ ~MayBind(k) /\ ~MayRebind(k)
      /\ \A r \in Serials : ~OwnsRoot(job[p], r)
      /\ \A h \in Handles : ~OwnsKey(job[p], h)
  BY <1>2, <1>6, LogoutJob
<1>9. PICK hs : hs = Handles \ kept
  OBVIOUS
<1>10. keyring' \in [Handles -> Serials] /\ \A h \in Handles : keyring'[h] = IF h \in hs THEN 0 ELSE keyring[h]
  BY <1>1, <1>k, <1>9, ForgetFacts
<1>11. \A g \in Gens : EdgeKeyOf(g) \in hs => keyring[EdgeKeyOf(g)] = 0 \/ EdgeKeyOf(g) \in ghost'.purged
  BY <1>3, <1>5, <1>9
<1>12. /\ idp' \subseteq idp /\ idp \subseteq idp' \cup ghost'.spent
       /\ issued' \in [Serials -> IssuedRecord]
       /\ \A r \in Serials : /\ issued'[r].kind = issued[r].kind /\ issued'[r].who = issued[r].who
                             /\ issued'[r].live => issued[r].live
  BY <1>1, <1>2 DEF Types
<1> QED BY <1>2, <1>5, <1>7, <1>8, <1>10, <1>11, <1>12, ForgetStep

\* EdgeEnrol preserves the invariant.
LEMMA EdgeEnrolStep ==
  ASSUME StoreInv, NEW p \in CLIs, EdgeEnrol(p)
  PROVE  StoreInv'
<1>1. /\ job[p] \in Job /\ JobShape(job[p]) /\ KnownJob(job[p]) /\ Types /\ Documents /\ InForce
  BY JobFacts
<1>0. Room
  BY DEF StoreInv
<1>2. job[p].at = "edge_enrol" /\ UNCHANGED <<creds, edgeFile, idp, issued>> /\ (Fault \/ NoFault)
  BY DEF EdgeEnrol
<1>3. /\ job[p].root # 0 /\ job[p].root \in Serials /\ job[p].key = job[p].root /\ job[p].gen = 0
      /\ job[p].oldEdge = NoEdge /\ job[p].orphans = {} /\ job[p].cmd = "edgeLogin"
  BY <1>1, <1>2 DEF JobShape, Enrolling, Job
<1>4. CASE Set(p, [job[p] EXCEPT !.at = "abandon", !.hit = TRUE]) /\ UNCHANGED <<keyring, ghost>>
  <2>1. PICK k \in Job : k = [job[p] EXCEPT !.at = "abandon", !.hit = TRUE]
    BY <1>1 DEF Job, Ats
  <2> QED BY <1>2, <1>4, <2>1, AbandonsLater DEF Set
<1>5. PICK g : g = ghost.gens + 1
  OBVIOUS
<1>6. g \in Gens /\ g \in Nat /\ g # 0 /\ ghost.gens \in Nat /\ ghost.gens < g /\ ghost.serial \in Nat /\ ghost.tokens \in Nat
  BY <1>0, <1>1, <1>5, RoomLeft
<1>7. CASE /\ keyring' = Put(sessionKeyHandle("edge-device", g), job[p].key)
           /\ ghost' = [ghost EXCEPT !.gens = g, !.owner[g] = issued[job[p].root].who]
           /\ Set(p, [job[p] EXCEPT !.at = "edge_commit", !.gen = g])
           /\ NoFault
  <2>1. used' \in Used /\ used'.commands = used.commands
    BY <1>1, <1>2, Spends
  <2>2. /\ keyring' \in [Handles -> Serials] /\ keyring'[EdgeKeyOf(g)] = job[p].root
        /\ \A h \in Handles : h # EdgeKeyOf(g) => keyring'[h] = keyring[h]
    <3>1. keyring \in [Handles -> Serials] /\ EdgeKeyOf(g) \in Handles
      BY <1>1, <1>6, HandleFacts DEF Types
    <3>2. keyring' = [keyring EXCEPT ![EdgeKeyOf(g)] = job[p].root]
      BY <1>3, <1>7 DEF Put, sessionKeyHandle, EdgeKeyOf
    <3> QED BY <1>3, <3>1, <3>2
  <2>3. \A x \in Gens : x <= ghost.gens => x # g /\ keyring'[EdgeKeyOf(x)] = keyring[EdgeKeyOf(x)]
    <3>1. ASSUME NEW x \in Gens, x <= ghost.gens PROVE x # g /\ keyring'[EdgeKeyOf(x)] = keyring[EdgeKeyOf(x)]
      <4>1. x # g
        BY <1>6, <3>1, NumberFacts
      <4>2. EdgeKeyOf(x) \in Handles /\ EdgeKeyOf(x) # EdgeKeyOf(g)
        BY <1>6, <4>1, HandleFacts
      <4> QED BY <2>2, <4>1, <4>2
    <3> QED BY <3>1
  <2>4. PICK w \in Accounts : w = issued[job[p].root].who
    BY <1>1, <1>3 DEF Types, IssuedRecord
  <2>5. /\ ghost' \in Ghost /\ ghost'.serial = ghost.serial /\ ghost'.gens = g /\ ghost'.tokens = ghost.tokens
        /\ ghost'.owner = [ghost.owner EXCEPT ![g] = w] /\ ghost'.last = ghost.last /\ ghost'.spent = ghost.spent
        /\ ghost'.adrift = ghost.adrift /\ ghost'.stray = ghost.stray /\ ghost'.purged = ghost.purged
        /\ ghost'.torn = ghost.torn /\ ghost'.overwritten = ghost.overwritten /\ ghost'.replayed = ghost.replayed
    <3>1. ghost \in Ghost /\ [ghost.owner EXCEPT ![g] = w] \in [Gens -> Accounts]
      BY <1>1 DEF Types, Ghost
    <3>2. ghost' = [ghost EXCEPT !.gens = g, !.owner = [ghost.owner EXCEPT ![g] = w]]
      BY <1>7, <2>4, <3>1 DEF Ghost
    <3> QED BY <1>6, <3>1, <3>2 DEF Ghost
  <2>6. ghost'.owner[g] = w /\ \A x \in Gens : x <= ghost.gens => ghost'.owner[x] = ghost.owner[x]
    BY <1>1, <1>6, <2>3, <2>5 DEF Types, Ghost
  <2>7. PICK k \in Job : k = [job[p] EXCEPT !.at = "edge_commit", !.gen = g]
    BY <1>1, <1>6 DEF Job, Ats
  <2>8. /\ k.at = "edge_commit" /\ k.gen = g /\ k.oldEdge = job[p].oldEdge /\ k.root = job[p].root
        /\ k.cmd = job[p].cmd /\ k.key = job[p].key /\ k.retried = job[p].retried /\ k.token = job[p].token
        /\ k.orphans = job[p].orphans
    BY <1>1, <2>7 DEF Job
  <2>9. job' = [job EXCEPT ![p] = k]
    BY <1>7, <2>7 DEF Set
  <2>10. Types'
    BY <1>1, <1>2, <2>1, <2>2, <2>5, <2>9 DEF Types
  <2>11. JobShape(k)
    BY <1>3, <1>6, <2>8 DEF JobShape, Asking, Minting, Reading, Enrolling, Returns
  <2>12. KnownJob(k)'
    <3>1. job[p].root <= ghost.serial /\ (job[p].retried => job[p].token <= ghost.serial)
      BY <1>1 DEF KnownJob
    <3> QED BY <1>2, <1>3, <1>6, <2>4, <2>5, <2>6, <2>8, <3>1 DEF KnownJob, Minting, Reading, Returns, NoEdge
  <2>13. PlacedJob(k)'
    <3>1. g # creds.gen /\ g # edgeFile.gen
      BY <1>1, <2>3 DEF Documents, Types, Data, EdgeRecord
    <3> QED BY <1>2, <1>3, <2>2, <2>8, <3>1 DEF PlacedJob, Reading
  <2>14. Stamps(job[p]) /\ ~Stamps(k) /\ ~Redeems(k) /\ ~MayBind(k) /\ ~MayRebind(k)
    BY <1>2, <2>8 DEF Stamps, Redeems, MayBind, MayRebind, Asking, Returns
  <2>15. Room'
    BY <1>0, <1>1, <1>5, <2>1, <2>5, <2>9, <2>10, <2>14, RoomStep
  <2>16. Grows
    BY <1>2, <1>6, <2>5, <2>6 DEF Grows
  <2>17. ASSUME NEW q \in CLIs, q # p PROVE Undisturbed(job[q])
    <3>1. KnownJob(job[q]) /\ PlacedJob(job[q]) /\ job[q].gen \in Gens
      BY JobFacts DEF Job
    <3>2. keyring'[EdgeKeyOf(job[q].gen)] = keyring[EdgeKeyOf(job[q].gen)]
      BY <2>3, <3>1 DEF KnownJob
    <3> QED BY <1>2, <2>5, <3>1, <3>2 DEF Undisturbed, PlacedJob
  <2>18. Jobs' /\ Apart'
    <3>1. ASSUME NEW q \in CLIs, q # p
          PROVE  /\ job[q].at = "edge_commit" => k.gen # job[q].gen /\ k.oldEdge.gen # job[q].gen
                 /\ k.at = "edge_commit" => job[q].gen # k.gen /\ job[q].oldEdge.gen # k.gen
                 /\ k.at = "commit" /\ job[q].at = "commit" => job[q].token # k.token
      <4>1. KnownJob(job[q]) /\ job[q].gen \in Gens /\ job[q].oldEdge.gen \in Gens
        BY JobFacts DEF Job, EdgeRecord
      <4>2. job[q].gen # g /\ job[q].oldEdge.gen # g
        BY <2>3, <4>1 DEF KnownJob
      <4> QED BY <2>8, <3>1, <4>2, ApartFrom
    <3> QED BY <2>9, <2>10, <2>11, <2>12, <2>13, <2>16, <2>17, <3>1, StepJobs
  <2>19. Documents'
    <3>1. SessionBound'
      <4>1. \A x \in Gens : keyring'[sessionKeyHandle("human", x)] = keyring[sessionKeyHandle("human", x)]
        BY <1>6, <2>2, HandleFacts DEF sessionKeyHandle
      <4> QED BY <1>1, <1>2, <2>5, <4>1 DEF Documents, SessionBound
    <3>2. creds.gen \in Gens /\ edgeFile.gen \in Gens /\ creds.gen \in Nat /\ edgeFile.gen \in Nat
      BY <1>1, NumberFacts DEF Types, Data, EdgeRecord
    <3>3. creds.gen <= ghost'.gens /\ edgeFile.gen <= ghost'.gens
      BY <1>1, <1>6, <2>5, <3>2 DEF Documents
    <3>4. creds.gen # 0 => ghost'.owner[creds.gen] = creds.who
      BY <1>1, <2>6, <3>2 DEF Documents
    <3> QED BY <1>1, <1>2, <2>5, <3>1, <3>3, <3>4 DEF Documents, Live
  <2>20. InForce'
    <3>1. /\ keyring'[EdgeKeyOf(creds.gen)] = keyring[EdgeKeyOf(creds.gen)]
          /\ keyring'[EdgeKeyOf(edgeFile.gen)] = keyring[EdgeKeyOf(edgeFile.gen)]
          /\ ghost'.owner[edgeFile.gen] = ghost.owner[edgeFile.gen]
      BY <1>1, <2>3, <2>6 DEF Documents, Types, Data, EdgeRecord
    <3> QED BY <1>1, <1>2, <2>5, <3>1 DEF InForce, activeEdgeSession, hasKeycloakLogin
  <2>21. Owned'
    <3>1. /\ \A r \in Serials : OwnsRoot(job[p], r) => OwnsRoot(k, r)
          /\ \A h \in Handles : ~OwnsKey(job[p], h)
      BY <1>2, <2>8 DEF OwnsRoot, OwnsKey, Enrolling
    <3>2. OwnsKey(k, EdgeKeyOf(g))
      BY <1>6, <2>8, HandleFacts DEF OwnsKey
    <3>3. \A h \in Handles : StoredKey(h)' <=> StoredKey(h)
      BY <1>2 DEF StoredKey
    <3>4. ASSUME NEW h \in Handles, keyring'[h] # 0, h \notin ghost'.stray
          PROVE  \/ StoredKey(h)' \/ OwnsKey(k, h)
                 \/ keyring[h] # 0 /\ h \notin ghost.stray /\ ~StoredKey(h) /\ ~OwnsKey(job[p], h)
      BY <2>2, <2>5, <3>1, <3>2, <3>3, <3>4
    <3>5. ASSUME NEW r \in Serials, issued'[r].live, issued'[r].kind = "edge-device", r \notin ghost'.adrift
          PROVE  \/ edgeFile'.root = r \/ OwnsRoot(k, r)
                 \/ /\ issued[r].live /\ issued[r].kind = "edge-device" /\ r \notin ghost.adrift
                    /\ edgeFile.root # r /\ ~OwnsRoot(job[p], r)
      BY <1>2, <2>5, <3>1, <3>5
    <3> QED BY <2>9, <3>4, <3>5, StepOwned
  <2> QED BY <2>5, <2>10, <2>15, <2>18, <2>19, <2>20, <2>21 DEF StoreInv
<1> QED BY <1>4, <1>5, <1>7 DEF EdgeEnrol, newCredentialGeneration

\* LogoutClear preserves the invariant.
LEMMA LogoutClearStep ==
  ASSUME StoreInv, NEW p \in CLIs, LogoutClear(p)
  PROVE  StoreInv'
<1>1. /\ job[p] \in Job /\ JobShape(job[p]) /\ KnownJob(job[p]) /\ Types /\ Documents /\ InForce
  BY JobFacts
<1>0. Room
  BY DEF StoreInv
<1>2. /\ job[p].at = "clear" /\ UNCHANGED <<keyring, idp, issued>> /\ (Fault \/ NoFault) /\ creds' = EmptyData
      /\ edgeFile' \in {NoEdge, edgeFile}
  BY DEF LogoutClear
<1>3. used' \in Used /\ used'.commands = used.commands
  BY <1>1, <1>2, Spends
<1>4. ghost.gens \in Nat /\ ghost.serial \in Nat /\ ghost.tokens \in Nat
  BY <1>0, <1>1, RoomLeft
<1>5. edgeFile.gen \in Gens /\ edgeFile.root \in Serials /\ ghost \in Ghost
  BY <1>1 DEF Types, EdgeRecord
<1>6. PICK K \in SUBSET Handles : K = {h \in Handles : keyring[h] # 0}
  OBVIOUS
<1>7. PICK l \in [kind : Kinds \cup {"none"}, gen : Gens] : l = [kind |-> "none", gen |-> 0]
  <2>1. [kind |-> "none", gen |-> 0] \in [kind : Kinds \cup {"none"}, gen : Gens]
    BY NumberFacts
  <2> QED BY <2>1
<1>8. ghost' = [ghost EXCEPT !.last = l, !.adrift = ghost.adrift \cup {edgeFile.root}, !.stray = ghost.stray \cup K]
  BY <1>5, <1>6, <1>7 DEF LogoutClear, Ghost
<1>9. /\ ghost' \in Ghost /\ ghost'.serial = ghost.serial /\ ghost'.gens = ghost.gens /\ ghost'.tokens = ghost.tokens
      /\ ghost'.owner = ghost.owner /\ ghost'.last = l /\ ghost'.spent = ghost.spent
      /\ ghost'.adrift = ghost.adrift \cup {edgeFile.root} /\ ghost'.stray = ghost.stray \cup K
      /\ ghost'.purged = ghost.purged
      /\ ghost'.torn = ghost.torn /\ ghost'.overwritten = ghost.overwritten /\ ghost'.replayed = ghost.replayed
  BY <1>5, <1>8 DEF Ghost
<1>10. l.kind = "none" /\ l.gen = 0
  BY <1>7
<1>11. PICK k \in Job : /\ job' = [job EXCEPT ![p] = k]
                        /\ k = [job[p] EXCEPT !.at = "ok"] \/ k = [job[p] EXCEPT !.at = "unavailable", !.hit = TRUE]
  <2>1. [job[p] EXCEPT !.at = "ok"] \in Job /\ [job[p] EXCEPT !.at = "unavailable", !.hit = TRUE] \in Job
    BY <1>1 DEF Job, Ats
  <2> QED BY <2>1 DEF LogoutClear, Set, Unavailable
<1>12. /\ k.at \in {"ok", "unavailable"} /\ (k.at = "unavailable" => k.hit)
       /\ k.gen = job[p].gen /\ k.oldEdge = job[p].oldEdge /\ k.root = job[p].root
       /\ k.cmd = job[p].cmd /\ k.retried = job[p].retried /\ k.token = job[p].token
  BY <1>1, <1>11 DEF Job
<1>13. job[p].cmd = "logout"
  BY <1>1, <1>2 DEF JobShape
<1>14. Types'
  <2>1. edgeFile' \in EdgeRecord
    BY <1>1, <1>2, NumberFacts DEF Types, EdgeRecord, NoEdge
  <2> QED BY <1>1, <1>2, <1>3, <1>9, <1>11, <2>1, EmptyFacts DEF Types
<1>15. Grows
  BY <1>2, <1>4, <1>9 DEF Grows
<1>16. /\ JobShape(k) /\ PlacedJob(k)' /\ ~Stamps(k) /\ ~Redeems(k) /\ ~MayBind(k) /\ ~MayRebind(k)
  BY <1>12, Resting
<1>17. KnownJob(k)'
  BY <1>12, <1>13, <1>14, <1>15, RestKnown
<1>18. Room'
  BY <1>0, <1>1, <1>3, <1>9, <1>11, <1>14, <1>16, RoomStep
<1>19. ASSUME NEW q \in CLIs, q # p PROVE Undisturbed(job[q])
  <2>1. PlacedJob(job[q]) /\ JobShape(job[q])
    BY JobFacts
  <2>2. job[q].at = "commit" => creds'.refresh # job[q].token /\ job[q].token \in idp' \cup ghost'.spent
    BY <1>2, <1>9, <2>1, EmptyFacts DEF PlacedJob, JobShape
  <2>3. job[q].at = "edge_commit" => creds'.gen # job[q].gen /\ edgeFile'.gen # job[q].gen
    BY <1>2, <2>1, EmptyFacts DEF PlacedJob, JobShape, NoEdge
  <2> QED BY <1>2, <1>9, <1>10, <2>2, <2>3 DEF Undisturbed
<1>20. Jobs' /\ Apart'
  <2>1. ASSUME NEW q \in CLIs, q # p
        PROVE  /\ job[q].at = "edge_commit" => k.gen # job[q].gen /\ k.oldEdge.gen # job[q].gen
               /\ k.at = "edge_commit" => job[q].gen # k.gen /\ job[q].oldEdge.gen # k.gen
               /\ k.at = "commit" /\ job[q].at = "commit" => job[q].token # k.token
    BY <1>12, <2>1, ApartFrom
  <2> QED BY <1>11, <1>14, <1>15, <1>16, <1>17, <1>19, <2>1, StepJobs
<1>21. Documents'
  <2>1. /\ edgeFile'.gen <= ghost'.gens /\ edgeFile'.root <= ghost'.serial
    BY <1>1, <1>2, <1>4, <1>9 DEF Documents, NoEdge
  <2>2. SessionBound'
    BY <1>2, EmptyFacts DEF SessionBound
  <2>3. 0 <= ghost'.tokens /\ 0 <= ghost'.gens
    BY <1>4, <1>9
  <2> QED BY <1>1, <1>2, <1>9, <1>10, <2>1, <2>2, <2>3, EmptyFacts DEF Documents, Live
<1>22. InForce'
  <2>1. edgeFile'.root # 0 =>
       /\ edgeFile'.gen # 0 /\ keyring[EdgeKeyOf(edgeFile'.gen)] \in {0, edgeFile'.root}
       /\ ghost.owner[edgeFile'.gen] = issued[edgeFile'.root].who
    BY <1>1, <1>2 DEF InForce, NoEdge
  <2> QED BY <1>2, <1>9, <1>10, <2>1 DEF InForce
<1>23. Owned'
  <2>1. /\ \A r \in Serials : ~OwnsRoot(job[p], r)
    BY <1>2 DEF OwnsRoot, Enrolling
  <2>2. ASSUME NEW r \in Serials, issued'[r].live, issued'[r].kind = "edge-device", r \notin ghost'.adrift
        PROVE  \/ edgeFile'.root = r \/ OwnsRoot(k, r)
               \/ /\ issued[r].live /\ issued[r].kind = "edge-device" /\ r \notin ghost.adrift
                  /\ edgeFile.root # r /\ ~OwnsRoot(job[p], r)
    BY <1>2, <1>9, <2>1, <2>2
  <2>3. \A h \in Handles : keyring'[h] # 0 => h \in ghost'.stray
    BY <1>2, <1>6, <1>9
  <2> QED BY <1>11, <2>2, <2>3, StepOwned
<1> QED BY <1>9, <1>14, <1>18, <1>20, <1>21, <1>22, <1>23 DEF StoreInv

\* A login is committed under generation g: the document starts empty of
\* sessions and assertions, and g is new or the one its key was enrolled under.
Committed(g, w) ==
  /\ creds' \in Data /\ creds'.gen = g /\ creds'.who = w
  /\ creds'.sessions = EmptyData.sessions /\ creds'.eia = EmptyData.eia
  /\ g \in Gens /\ g # 0 /\ w \in Accounts
  /\ \/ g = ghost.gens + 1 /\ ghost'.gens = g
     \/ g <= ghost.gens /\ ghost'.gens = ghost.gens /\ ghost.owner[g] = w
  /\ ghost' \in Ghost /\ ghost'.owner = [ghost.owner EXCEPT ![g] = w] /\ ghost'.last.gen = g
  /\ ghost'.serial = ghost.serial /\ ghost'.spent = ghost.spent /\ ghost'.adrift = ghost.adrift
  /\ ghost'.purged = ghost.purged /\ ghost'.replayed = ghost.replayed

\* The documents after a commit.
LEMMA CommitDocuments ==
  ASSUME StoreInv, NEW g, NEW w, Committed(g, w), UNCHANGED <<keyring, issued>>,
         ghost.tokens <= ghost'.tokens,
         0 \notin idp', \A t \in idp' : t <= ghost'.tokens,
         creds'.refresh <= ghost'.tokens, creds'.refresh \in idp' \cup ghost'.spent,
         edgeFile'.gen \in {0, g, edgeFile.gen}, edgeFile'.root <= ghost.serial
  PROVE  Documents' /\ Grows
<1>1. Types /\ Documents /\ Room
  BY DEF StoreInv
<1>2. ghost.gens \in Nat /\ ghost.serial \in Nat /\ ghost.tokens \in Nat /\ ghost.gens + 1 \in Gens
  BY <1>1, RoomLeft
<1>3. g \in Nat /\ edgeFile.gen \in Nat
  BY <1>1, NumberFacts DEF Committed, Types, EdgeRecord
<1>4. g <= ghost'.gens /\ ghost.gens <= ghost'.gens /\ edgeFile'.gen <= ghost'.gens /\ ghost'.gens \in Nat
  BY <1>1, <1>2, <1>3 DEF Committed, Documents
<1>5. ghost'.owner[g] = w /\ \A x \in Gens : x <= ghost.gens => ghost'.owner[x] = ghost.owner[x]
  <2>1. ghost.owner \in [Gens -> Accounts]
    BY <1>1 DEF Types, Ghost
  <2>2. ASSUME NEW x \in Gens, x <= ghost.gens PROVE ghost'.owner[x] = ghost.owner[x]
    <3>1. x = g => ghost.owner[g] = w
      BY <1>2, <1>3, <2>2 DEF Committed
    <3> QED BY <2>1, <3>1 DEF Committed
  <2> QED BY <2>1, <2>2 DEF Committed
<1>6. Grows
  BY <1>2, <1>4, <1>5 DEF Grows, Committed
<1>7. SessionBound'
  BY EmptyFacts DEF SessionBound, Committed
<1>8. /\ \A x \in Gens : creds'.sessions[x].token = 0 /\ ~creds'.sessions[x].fresh
      /\ \A h \in Handles : creds'.eia[h] = NoEIA
  BY EmptyFacts DEF Committed
<1>9. Documents'
  BY <1>1, <1>4, <1>5, <1>7, <1>8 DEF Documents, Committed, Live
<1> QED BY <1>6, <1>9

\* The others keep what they read: the new generation is not theirs.
LEMMA CommitLeaves ==
  ASSUME StoreInv, NEW g, NEW w, Committed(g, w), UNCHANGED keyring, idp \subseteq idp',
         NEW q \in CLIs, job[q].gen # g, job[q].oldEdge.gen # g,
         edgeFile'.gen \in {0, g, edgeFile.gen},
         job[q].at = "commit" => creds'.refresh # job[q].token
  PROVE  Undisturbed(job[q])
<1>1. PlacedJob(job[q]) /\ JobShape(job[q])
  BY JobFacts
<1>2. job[q].at = "commit" => job[q].token \in idp' \cup ghost'.spent
  BY <1>1 DEF PlacedJob, Committed
<1>3. job[q].at = "edge_commit" => creds'.gen # job[q].gen /\ edgeFile'.gen # job[q].gen
  BY <1>1 DEF PlacedJob, JobShape, Committed
<1> QED BY <1>2, <1>3 DEF Undisturbed, Committed

\* A command commits its login and takes over what the old one owned.
LEMMA CommitStep ==
  ASSUME StoreInv, NEW p \in CLIs, NEW g, NEW w, Committed(g, w),
         NEW k \in Job, job' = [job EXCEPT ![p] = k],
         UNCHANGED <<keyring, idp, issued>>, Fault \/ NoFault,
         ghost'.tokens = ghost.tokens, ghost'.stray = ghost.stray, ghost'.torn = ghost.torn,
         \/ /\ job[p].at = "commit" /\ g = ghost.gens + 1 /\ creds'.refresh = job[p].token
            /\ edgeFile' \in {NoEdge, edgeFile}
         \/ /\ job[p].at = "edge_commit" /\ g = job[p].gen /\ creds'.refresh = 0
            /\ edgeFile' = [gen |-> g, root |-> job[p].root],
         k.at = "cleanup", k.orphans = orphanedBy(creds), k.oldEdge = edgeFile, k.gen = job[p].gen,
         k.root = job[p].root, k.cmd = job[p].cmd, k.retried = job[p].retried, k.token = job[p].token,
         InForce'
  PROVE  StoreInv'
<1>1. /\ job[p] \in Job /\ JobShape(job[p]) /\ KnownJob(job[p]) /\ PlacedJob(job[p])
      /\ Types /\ Documents /\ InForce
  BY JobFacts
<1>0. Room
  BY DEF StoreInv
<1>2. used' \in Used /\ used'.commands = used.commands
  BY <1>1, Spends
<1>3. /\ ghost.gens \in Nat /\ ghost.serial \in Nat /\ ghost.tokens \in Nat
  BY <1>0, <1>1, RoomLeft
<1>4. /\ job[p].gen \in Gens /\ job[p].root \in Serials /\ edgeFile.gen \in Gens /\ edgeFile.root \in Serials
      /\ edgeFile.gen \in Nat /\ creds \in Data
  BY <1>1, NumberFacts DEF Job, Types, EdgeRecord
<1>5. job[p].cmd \in {"login", "edgeLogin"} /\ (job[p].at = "edge_commit" => job[p].root # 0)
  BY <1>1 DEF JobShape, Enrolling
<1>6. edgeFile' \in EdgeRecord /\ edgeFile'.gen \in {0, g, edgeFile.gen} /\ edgeFile'.root <= ghost.serial
  <2>1. CASE edgeFile' \in {NoEdge, edgeFile}
    BY <1>1, <1>3, <2>1, NumberFacts DEF Types, EdgeRecord, NoEdge, Documents
  <2>2. CASE edgeFile' = [gen |-> g, root |-> job[p].root]
    BY <1>1, <1>4, <2>2 DEF EdgeRecord, Committed, KnownJob
  <2> QED BY <2>1, <2>2
<1>7. Types'
  BY <1>1, <1>2, <1>6 DEF Types, Committed
<1>8. Documents' /\ Grows
  <2>1. creds'.refresh <= ghost'.tokens /\ creds'.refresh \in idp' \cup ghost'.spent
    BY <1>1, <1>3 DEF PlacedJob, Documents, Committed
  <2>2. 0 \notin idp' /\ (\A t \in idp' : t <= ghost'.tokens) /\ ghost.tokens <= ghost'.tokens
    BY <1>1, <1>3 DEF Documents
  <2> QED BY <1>6, <2>1, <2>2, CommitDocuments
<1>9. edgeFile.gen # g
  BY <1>1, <1>3, <1>4 DEF Documents, PlacedJob
<1>10. JobShape(k) /\ ~Stamps(k) /\ ~Redeems(k) /\ ~MayBind(k) /\ ~MayRebind(k)
  <2>1. \A h \in k.orphans : h[1] = "human"
    BY <1>4, DropFacts
  <2> QED BY <1>5, <2>1 DEF JobShape, Stamps, Redeems, MayBind, MayRebind, Asking, Returns, Minting, Reading, Enrolling
<1>11. KnownJob(k)'
  <2>1. /\ job[p].gen <= ghost'.gens /\ edgeFile.gen <= ghost'.gens /\ job[p].root <= ghost'.serial
        /\ (job[p].retried => job[p].token <= ghost'.serial)
    <3>1. job[p].gen \in Nat /\ ghost'.gens \in Nat
      BY <1>4, <1>7, NumberFacts DEF Types, Ghost
    <3> QED BY <1>1, <1>3, <1>4, <1>8, <3>1 DEF KnownJob, Documents, Grows, Committed
  <2> QED BY <1>5, <2>1 DEF KnownJob, Minting, Reading, Returns
<1>12. PlacedJob(k)'
  <2>1. edgeFile.root # 0 => edgeFile.gen # 0
    BY <1>1 DEF InForce
  <2> QED BY <1>9, <2>1 DEF PlacedJob, Reading, Committed
<1>13. Room'
  <2>1. \/ ghost'.gens = ghost.gens
        \/ ghost'.gens = ghost.gens + 1 /\ Stamps(job[p])
    <3>1. job[p].gen <= ghost.gens /\ job[p].gen \in Nat
      BY <1>1, <1>4, NumberFacts DEF KnownJob
    <3> QED BY <1>3, <3>1 DEF Committed, Stamps
  <2>2. ghost'.serial = ghost.serial
    BY DEF Committed
  <2> QED BY <1>0, <1>1, <1>2, <1>7, <1>10, <2>1, <2>2, RoomStep
<1>14. ASSUME NEW q \in CLIs, q # p PROVE job[q].gen # g /\ job[q].oldEdge.gen # g
  <2>1. /\ job[q].gen \in Nat /\ job[q].oldEdge.gen \in Nat /\ KnownJob(job[q])
    BY JobFacts, NumberFacts DEF Job, EdgeRecord
  <2>2. CASE g = ghost.gens + 1
    BY <1>3, <2>1, <2>2 DEF KnownJob
  <2>3. CASE job[p].at = "edge_commit" /\ g = job[p].gen
    BY <1>14, <2>3 DEF StoreInv, Apart
  <2> QED BY <2>2, <2>3
<1>15. ASSUME NEW q \in CLIs, q # p PROVE Undisturbed(job[q])
  <2>1. job[q].at = "commit" => creds'.refresh # job[q].token
    <3>1. JobShape(job[q])
      BY JobFacts
    <3> QED BY <1>15, <3>1 DEF StoreInv, Apart, JobShape
  <2> QED BY <1>6, <1>14, <1>15, <2>1, CommitLeaves
<1>16. Jobs' /\ Apart'
  <2>1. ASSUME NEW q \in CLIs, q # p
        PROVE  /\ job[q].at = "edge_commit" => k.gen # job[q].gen /\ k.oldEdge.gen # job[q].gen
               /\ k.at = "edge_commit" => job[q].gen # k.gen /\ job[q].oldEdge.gen # k.gen
               /\ k.at = "commit" /\ job[q].at = "commit" => job[q].token # k.token
    BY <2>1, ApartFrom
  <2> QED BY <1>7, <1>8, <1>10, <1>11, <1>12, <1>15, <2>1, StepJobs
<1>17. Owned'
  <2>1. ASSUME NEW r \in Serials, issued'[r].live, issued'[r].kind = "edge-device", r \notin ghost'.adrift
        PROVE  \/ edgeFile'.root = r \/ OwnsRoot(k, r)
               \/ /\ issued[r].live /\ issued[r].kind = "edge-device" /\ r \notin ghost.adrift
                  /\ edgeFile.root # r /\ ~OwnsRoot(job[p], r)
    <3>1. edgeFile.root = r => OwnsRoot(k, r)
      BY DEF OwnsRoot
    <3>2. OwnsRoot(job[p], r) => edgeFile'.root = r
      BY DEF OwnsRoot, Enrolling
    <3> QED BY <2>1, <3>1, <3>2 DEF Committed
  <2>2. ASSUME NEW h \in Handles, keyring'[h] # 0, h \notin ghost'.stray
        PROVE  \/ StoredKey(h)' \/ OwnsKey(k, h)
               \/ keyring[h] # 0 /\ h \notin ghost.stray /\ ~StoredKey(h) /\ ~OwnsKey(job[p], h)
    <3>1. StoredKey(h) => OwnsKey(k, h)
      BY <1>4, DropFacts DEF StoredKey, OwnsKey
    <3>2. OwnsKey(job[p], h) => StoredKey(h)'
      BY <1>5 DEF StoredKey, OwnsKey
    <3> QED BY <2>2, <3>1, <3>2
  <2> QED BY <2>1, <2>2, StepOwned
<1>18. ~ghost'.replayed
  BY DEF Committed, StoreInv
<1> QED BY <1>7, <1>8, <1>13, <1>16, <1>17, <1>18 DEF StoreInv

\* The history records a login; bd's brings a token and may leave keys behind.
Records(kind, g, w, t, S) == ghost' = [committed(kind, g, w) EXCEPT !.tokens = t, !.stray = S]

\* committed() as a step of the history.
LEMMA CommittedBy ==
  ASSUME StoreInv, NEW kind \in Kinds, NEW g \in Gens, NEW w \in Accounts, g # 0,
         g = ghost.gens + 1 \/ (g <= ghost.gens /\ ghost.owner[g] = w),
         creds' \in Data, creds'.gen = g, creds'.who = w,
         creds'.sessions = EmptyData.sessions, creds'.eia = EmptyData.eia,
         NEW t \in Tokens, NEW S \in SUBSET Handles,
         Records(kind, g, w, t, S)
  PROVE  /\ Committed(g, w) /\ ghost'.last = [kind |-> kind, gen |-> g] /\ ~ghost'.overwritten
         /\ ghost'.tokens = t /\ ghost'.stray = S /\ ghost'.torn = ghost.torn
<1>1. Types /\ Room
  BY DEF StoreInv
<1>2. ghost.gens \in Nat /\ g \in Nat /\ ghost \in Ghost
  BY <1>1, RoomLeft, NumberFacts DEF Types
<1>3. PICK n : n = IF g > ghost.gens THEN g ELSE ghost.gens
  OBVIOUS
<1>4. n \in Gens /\ (IF g = ghost.gens + 1 THEN n = g ELSE n = ghost.gens)
  BY <1>2, <1>3 DEF Ghost
<1>5. PICK o \in [Gens -> Accounts] : o = [ghost.owner EXCEPT ![g] = w]
  BY <1>2 DEF Ghost
<1>6. PICK l \in [kind : Kinds \cup {"none"}, gen : Gens] : l = [kind |-> kind, gen |-> g]
  OBVIOUS
<1>7. ghost' = [ghost EXCEPT !.gens = n, !.owner = o, !.last = l, !.overwritten = FALSE, !.tokens = t, !.stray = S]
  BY <1>2, <1>3, <1>5, <1>6 DEF committed, Ghost, Records
<1>8. /\ ghost' \in Ghost /\ ghost'.serial = ghost.serial /\ ghost'.gens = n /\ ghost'.tokens = t
      /\ ghost'.owner = o /\ ghost'.last = l /\ ghost'.spent = ghost.spent
      /\ ghost'.adrift = ghost.adrift /\ ghost'.stray = S /\ ghost'.purged = ghost.purged
      /\ ghost'.torn = ghost.torn /\ ghost'.overwritten = FALSE /\ ghost'.replayed = ghost.replayed
  BY <1>2, <1>4, <1>7 DEF Ghost
<1>9. l.gen = g
  BY <1>6
<1>10. g # ghost.gens + 1 => g <= ghost.gens /\ ghost.owner[g] = w
  OBVIOUS
<1> QED BY <1>4, <1>5, <1>6, <1>8, <1>9, <1>10 DEF Committed

\* A Keycloak login just committed is the one in force.
LEMMA HumanInForce ==
  ASSUME StoreInv, NEW g, NEW w, Committed(g, w), g = ghost.gens + 1,
         UNCHANGED <<keyring, issued>>, ghost'.last.kind = "human", creds'.id = "fresh",
         edgeFile' \in {NoEdge, edgeFile}
  PROVE  InForce'
<1>1. Types /\ Documents /\ InForce /\ Room
  BY DEF StoreInv
<1>2. ghost.gens \in Nat /\ edgeFile.gen \in Nat /\ edgeFile.gen \in Gens /\ edgeFile.gen <= ghost.gens
  BY <1>1, RoomLeft, NumberFacts DEF Types, EdgeRecord, Documents
<1>3. edgeFile.gen # g
  BY <1>2
<1>4. ghost'.owner[edgeFile.gen] = ghost.owner[edgeFile.gen]
  BY <1>1, <1>2, <1>3 DEF Committed, Types, Ghost
<1>5. hasKeycloakLogin(creds')
  BY DEF hasKeycloakLogin
<1>6. ~activeEdgeSession'
  BY <1>3 DEF activeEdgeSession, NoEdge, Committed
<1>7. edgeFile'.root # 0 =>
       /\ edgeFile'.gen # 0 /\ keyring'[EdgeKeyOf(edgeFile'.gen)] \in {0, edgeFile'.root}
       /\ ghost'.owner[edgeFile'.gen] = issued'[edgeFile'.root].who
  BY <1>1, <1>4 DEF InForce, NoEdge
<1> QED BY <1>5, <1>6, <1>7 DEF InForce

\* A document written by a login: nothing of the old one's sessions.
LEMMA NewDocument ==
  ASSUME NEW d \in Data, NEW i \in {"none", "fresh", "stale"}, NEW t \in Tokens, NEW g \in Gens, NEW w \in Accounts,
         creds' = [dropped(d) EXCEPT !.id = i, !.refresh = t, !.gen = g, !.who = w]
  PROVE  /\ creds' \in Data /\ creds'.id = i /\ creds'.refresh = t /\ creds'.gen = g /\ creds'.who = w
         /\ creds'.sessions = EmptyData.sessions /\ creds'.eia = EmptyData.eia
BY DropFacts DEF Data

\* LoginCommit preserves the invariant.
LEMMA LoginCommitStep ==
  ASSUME StoreInv, NEW p \in CLIs, LoginCommit(p)
  PROVE  StoreInv'
<1>1. /\ job[p] \in Job /\ JobShape(job[p]) /\ KnownJob(job[p]) /\ PlacedJob(job[p])
      /\ Types /\ Documents /\ InForce
  BY JobFacts
<1>0. Room
  BY DEF StoreInv
<1>2. job[p].at = "commit" /\ UNCHANGED <<keyring, idp, issued>> /\ (Fault \/ NoFault)
  BY DEF LoginCommit
<1>3. CASE Unavailable(p) /\ UNCHANGED <<creds, edgeFile, ghost>>
  BY <1>2, <1>3, StopSteps DEF Enrolling
<1>4. PICK g \in Gens : g = ghost.gens + 1 /\ g # 0
  BY <1>0, <1>1, RoomLeft
<1>5. job[p].token \in Tokens
  <2>1. job[p].token \in Serials /\ job[p].token <= ghost.tokens /\ ghost.tokens \in Tokens
    BY <1>1, <1>2 DEF PlacedJob, Job, Types, Ghost
  <2> QED BY <2>1, CredAssumption DEF Serials, Tokens
<1>6. PICK w \in Accounts : w = <<"human", job[p].token>>
  BY <1>5 DEF Accounts
<1>7. CASE /\ creds' = [dropped(creds) EXCEPT !.id = "fresh", !.refresh = job[p].token, !.gen = g, !.who = w]
           /\ edgeFile' \in {NoEdge, edgeFile} /\ ghost' = committed("human", g, w)
           /\ Set(p, [job[p] EXCEPT !.at = "cleanup", !.orphans = orphanedBy(creds), !.oldEdge = edgeFile])
  <2>1. /\ creds' \in Data /\ creds'.id = "fresh" /\ creds'.refresh = job[p].token /\ creds'.gen = g /\ creds'.who = w
        /\ creds'.sessions = EmptyData.sessions /\ creds'.eia = EmptyData.eia
    <3>1. creds \in Data /\ "fresh" \in {"none", "fresh", "stale"}
      BY <1>1 DEF Types
    <3> QED BY <1>5, <1>7, <3>1, NewDocument
  <2>2. ghost.tokens \in Tokens /\ ghost.stray \in SUBSET Handles /\ ghost \in Ghost
    BY <1>1 DEF Types, Ghost
  <2>3. Records("human", g, w, ghost.tokens, ghost.stray) /\ "human" \in Kinds
    BY <1>7, <2>2 DEF committed, Ghost, Records, Kinds
  <2>4. /\ Committed(g, w) /\ ghost'.last = [kind |-> "human", gen |-> g] /\ ~ghost'.overwritten
        /\ ghost'.tokens = ghost.tokens /\ ghost'.stray = ghost.stray /\ ghost'.torn = ghost.torn
    BY <1>4, <2>1, <2>2, <2>3, CommittedBy
  <2>5. InForce'
    BY <1>2, <1>4, <1>7, <2>1, <2>4, HumanInForce
  <2>6. orphanedBy(creds) \subseteq Handles /\ edgeFile \in EdgeRecord
    BY <1>1, DropFacts DEF Types
  <2>7. PICK k \in Job : k = [job[p] EXCEPT !.at = "cleanup", !.orphans = orphanedBy(creds), !.oldEdge = edgeFile]
    BY <1>1, <2>6 DEF Job, Ats
  <2>8. /\ k.at = "cleanup" /\ k.orphans = orphanedBy(creds) /\ k.oldEdge = edgeFile /\ k.gen = job[p].gen
        /\ k.root = job[p].root /\ k.cmd = job[p].cmd /\ k.retried = job[p].retried /\ k.token = job[p].token
    BY <1>1, <2>7 DEF Job
  <2>9. job' = [job EXCEPT ![p] = k]
    BY <1>7, <2>7 DEF Set
  <2> QED BY <1>2, <1>4, <1>7, <2>1, <2>4, <2>5, <2>8, <2>9, CommitStep
<1> QED BY <1>3, <1>4, <1>6, <1>7 DEF LoginCommit, newCredentialGeneration

\* The edge-device login just committed is the one in force.
LEMMA EdgeCommitted ==
  ASSUME StoreInv, NEW p \in CLIs, job[p].at = "edge_commit", UNCHANGED <<keyring, idp, issued>>, NoFault,
         edgeFile' = edgeRecord(p), creds' = edgeData(p),
         ghost' = committed("edge-device", job[p].gen, issued[job[p].root].who),
         Set(p, [job[p] EXCEPT !.at = "cleanup", !.orphans = orphanedBy(creds),
                               !.oldEdge = edgeFile, !.refresh = creds.refresh])
  PROVE  StoreInv'
<1>1. /\ job[p] \in Job /\ JobShape(job[p]) /\ KnownJob(job[p]) /\ PlacedJob(job[p])
      /\ Types /\ Documents /\ InForce
  BY JobFacts
<1>2. PICK g \in Gens : g = job[p].gen
  BY <1>1 DEF Job
<1>3. PICK r \in Serials : r = job[p].root
  BY <1>1 DEF Job
<1>4. PICK w \in Accounts : w = issued[r].who
  BY <1>1 DEF Types, IssuedRecord
<1>5. /\ g # 0 /\ r # 0 /\ g <= ghost.gens /\ ghost.owner[g] = w /\ r <= ghost.serial
      /\ keyring[EdgeKeyOf(g)] \in {0, r} /\ (keyring[EdgeKeyOf(g)] # 0 \/ EdgeKeyOf(g) \in ghost.purged)
  BY <1>1, <1>2, <1>3, <1>4 DEF JobShape, KnownJob, PlacedJob, Enrolling
<1>6. /\ creds' \in Data /\ creds'.id = "none" /\ creds'.refresh = 0 /\ creds'.gen = g /\ creds'.who = w
      /\ creds'.sessions = EmptyData.sessions /\ creds'.eia = EmptyData.eia
  <2>1. PICK t \in Tokens : t = 0
    BY NumberFacts
  <2>2. creds' = [dropped(creds) EXCEPT !.id = "none", !.refresh = t, !.gen = g, !.who = w]
    BY <1>2, <1>3, <1>4, <2>1 DEF edgeData
  <2>3. creds \in Data /\ "none" \in {"none", "fresh", "stale"}
    BY <1>1 DEF Types
  <2>4. /\ creds' \in Data /\ creds'.id = "none" /\ creds'.refresh = t /\ creds'.gen = g /\ creds'.who = w
        /\ creds'.sessions = EmptyData.sessions /\ creds'.eia = EmptyData.eia
    <3>1. PICK d \in Data : d = dropped(creds) /\ d.sessions = EmptyData.sessions /\ d.eia = EmptyData.eia
      BY <2>3, DropFacts
    <3>2. creds' = [d EXCEPT !.id = "none", !.refresh = t, !.gen = g, !.who = w]
      BY <2>2, <3>1
    <3> QED BY <3>1, <3>2 DEF Data
  <2> QED BY <2>1, <2>4
<1>7. ghost.tokens \in Tokens /\ ghost.stray \in SUBSET Handles /\ ghost \in Ghost
  BY <1>1 DEF Types, Ghost
<1>8. Records("edge-device", g, w, ghost.tokens, ghost.stray) /\ "edge-device" \in Kinds
  BY <1>2, <1>3, <1>4, <1>7 DEF committed, Ghost, Records, Kinds
<1>9. /\ Committed(g, w) /\ ghost'.last = [kind |-> "edge-device", gen |-> g] /\ ~ghost'.overwritten
      /\ ghost'.tokens = ghost.tokens /\ ghost'.stray = ghost.stray /\ ghost'.torn = ghost.torn
  BY <1>5, <1>6, <1>7, <1>8, CommittedBy
<1>10. edgeFile' = [gen |-> g, root |-> r]
  BY <1>2, <1>3 DEF edgeRecord
<1>11. InForce'
  <2>1. activeEdgeSession'
    BY <1>5, <1>6, <1>10 DEF activeEdgeSession, validCredentialGeneration
  <2>2. ~hasKeycloakLogin(creds')
    <3>1. creds'.refresh = 0 /\ creds'.id = "none"
      BY <1>6
    <3> QED BY <3>1, Zenon DEF hasKeycloakLogin
  <2>3. ghost'.owner[g] = w
    BY <1>7, <1>9 DEF Committed, Ghost
  <2>4. ghost'.purged = ghost.purged
    BY <1>9 DEF Committed
  <2> QED BY <1>4, <1>5, <1>6, <1>9, <1>10, <2>1, <2>2, <2>3, <2>4 DEF InForce
<1>12. orphanedBy(creds) \subseteq Handles /\ edgeFile \in EdgeRecord /\ creds.refresh \in Tokens
  BY <1>1, DropFacts DEF Types, Data
<1>13. PICK k \in Job : k = [job[p] EXCEPT !.at = "cleanup", !.orphans = orphanedBy(creds),
                                           !.oldEdge = edgeFile, !.refresh = creds.refresh]
  BY <1>1, <1>12 DEF Job, Ats
<1>14. /\ k.at = "cleanup" /\ k.orphans = orphanedBy(creds) /\ k.oldEdge = edgeFile /\ k.gen = job[p].gen
       /\ k.root = job[p].root /\ k.cmd = job[p].cmd /\ k.retried = job[p].retried /\ k.token = job[p].token
  BY <1>1, <1>13 DEF Job
<1>15. job' = [job EXCEPT ![p] = k]
  BY <1>13 DEF Set
<1> QED BY <1>2, <1>3, <1>6, <1>9, <1>10, <1>11, <1>14, <1>15, CommitStep

\* The second write failed and the first was not undone, or the command was killed
\* between the two: the edge session is replaced, and fenced out until
\* credentials.json carries its generation, which it never will.
LEMMA EdgeTornStep ==
  ASSUME StoreInv, NEW p \in CLIs, job[p].at = "edge_commit", UNCHANGED <<creds, keyring, idp, issued>>, Fault,
         edgeFile' = edgeRecord(p), Set(p, Idle) \/ Set(p, givenUp(p)),
         ghost' = [ghost EXCEPT !.overwritten = TRUE, !.adrift = @ \cup {edgeFile.root},
                                !.stray = @ \cup {sessionKeyHandle("edge-device", edgeFile.gen)}]
  PROVE  StoreInv'
<1>1. /\ job[p] \in Job /\ JobShape(job[p]) /\ KnownJob(job[p]) /\ PlacedJob(job[p])
      /\ Types /\ Documents /\ InForce
  BY JobFacts
<1>0. Room
  BY DEF StoreInv
<1>2. PICK g \in Gens : g = job[p].gen
  BY <1>1 DEF Job
<1>3. PICK r \in Serials : r = job[p].root
  BY <1>1 DEF Job
<1>4. /\ g # 0 /\ r # 0 /\ g <= ghost.gens /\ ghost.owner[g] = issued[r].who /\ r <= ghost.serial
      /\ keyring[EdgeKeyOf(g)] \in {0, r} /\ g # creds.gen
  BY <1>1, <1>2, <1>3 DEF JobShape, KnownJob, PlacedJob, Enrolling
<1>5. edgeFile' = [gen |-> g, root |-> r]
  BY <1>2, <1>3 DEF edgeRecord
<1>6. edgeFile.gen \in Gens /\ edgeFile.root \in Serials /\ EdgeKeyOf(edgeFile.gen) \in Handles /\ ghost \in Ghost
  BY <1>1, HandleFacts DEF Types, EdgeRecord
<1>7. ghost' = [ghost EXCEPT !.overwritten = TRUE, !.adrift = ghost.adrift \cup {edgeFile.root},
                             !.stray = ghost.stray \cup {EdgeKeyOf(edgeFile.gen)}]
  BY <1>6 DEF Ghost, sessionKeyHandle, EdgeKeyOf
<1>8. /\ ghost' \in Ghost /\ ghost'.serial = ghost.serial /\ ghost'.gens = ghost.gens /\ ghost'.tokens = ghost.tokens
      /\ ghost'.owner = ghost.owner /\ ghost'.last = ghost.last /\ ghost'.spent = ghost.spent
      /\ ghost'.adrift = ghost.adrift \cup {edgeFile.root}
      /\ ghost'.stray = ghost.stray \cup {EdgeKeyOf(edgeFile.gen)}
      /\ ghost'.purged = ghost.purged
      /\ ghost'.torn = ghost.torn /\ ghost'.overwritten /\ ghost'.replayed = ghost.replayed
  <2>1. PICK A \in SUBSET Serials : A = ghost.adrift \cup {edgeFile.root}
    BY <1>6 DEF Ghost
  <2>2. PICK S \in SUBSET Handles : S = ghost.stray \cup {EdgeKeyOf(edgeFile.gen)}
    BY <1>6 DEF Ghost
  <2>3. ghost' = [ghost EXCEPT !.overwritten = TRUE, !.adrift = A, !.stray = S]
    BY <1>7, <2>1, <2>2
  <2> QED BY <1>6, <2>1, <2>2, <2>3 DEF Ghost
<1>k. EdgeKeyOf(g) \in Handles /\ EdgeKeyOf(g) = sessionKeyHandle("edge-device", job[p].gen)
  BY <1>2, HandleFacts DEF sessionKeyHandle, EdgeKeyOf
<1>9. PICK k \in Job : job' = [job EXCEPT ![p] = k] /\ (k = Idle \/ k = givenUp(p))
  <2>1. givenUp(p) \in Job
    BY <1>1, <1>k DEF givenUp, Job, Ats
  <2> QED BY <2>1, IdleFacts DEF Set
<1>10. job' = [job EXCEPT ![p] = k]
  BY <1>9
<1>i. ASSUME k = Idle
      PROVE  k.at = "idle" /\ k.gen = 0 /\ k.oldEdge.gen = 0 /\ k.root = 0 /\ ~k.retried /\ k.cmd = "none"
  BY <1>i DEF Idle, NoEdge
<1>j. ASSUME k = givenUp(p)
      PROVE  /\ k.at = "abandon" /\ k.gen = job[p].gen /\ k.oldEdge = job[p].oldEdge /\ k.root = job[p].root
             /\ k.cmd = job[p].cmd /\ k.token = job[p].token /\ k.retried = job[p].retried
             /\ k.orphans = {EdgeKeyOf(g)}
  BY <1>1, <1>j, <1>k DEF givenUp, Job
<1>11. /\ k.at \in {"idle", "abandon"} /\ k.gen \in {0, job[p].gen} /\ k.oldEdge.gen \in {0, job[p].oldEdge.gen}
  BY <1>9, <1>i, <1>j
<1>12. used' \in Used /\ used'.commands = used.commands
  BY <1>1, Spends
<1>13. Types'
  BY <1>1, <1>5, <1>8, <1>10, <1>12 DEF Types, EdgeRecord
<1>14. Grows
  <2>1. ghost.gens \in Nat /\ ghost.serial \in Nat /\ ghost.tokens \in Nat
    BY <1>0, <1>1, RoomLeft
  <2> QED BY <1>8, <2>1 DEF Grows
<1>15. /\ JobShape(k) /\ PlacedJob(k)' /\ ~Stamps(k) /\ ~Redeems(k) /\ ~MayBind(k) /\ ~MayRebind(k)
  <2>1. CASE k = Idle
    BY <1>i, <2>1, Resting
  <2>2. CASE k = givenUp(p)
    <3>1. /\ job[p].cmd = "edgeLogin" /\ job[p].oldEdge = NoEdge /\ job[p].root # 0
      BY <1>1 DEF JobShape, Enrolling
    <3>2. JobShape(k)
      BY <1>2, <1>4, <1>j, <2>2, <3>1 DEF JobShape, Asking, Minting, Reading, Enrolling, Returns
    <3>3. PlacedJob(k)'
      BY <1>1, <1>2, <1>4, <1>8, <1>j, <2>2 DEF PlacedJob, Reading, Documents
    <3>4. ~Stamps(k) /\ ~Redeems(k) /\ ~MayBind(k) /\ ~MayRebind(k)
      BY <1>j, <2>2 DEF Stamps, Redeems, MayBind, MayRebind, Asking, Returns
    <3> QED BY <3>2, <3>3, <3>4
  <2> QED BY <1>9, <2>1, <2>2
<1>16. KnownJob(k)'
  <2>1. CASE k = Idle
    BY <1>i, <1>13, <1>14, <2>1, RestKnown
  <2>2. CASE k = givenUp(p)
    <3>1. KnownJob(k)
      BY <1>1, <1>j, <2>2 DEF KnownJob, Minting, Reading, Returns
    <3> QED BY <1>1, <1>13, <1>14, <3>1, KnownStays
  <2> QED BY <1>9, <2>1, <2>2
<1>17. Room'
  BY <1>0, <1>1, <1>8, <1>10, <1>12, <1>13, <1>15, RoomStep
<1>18. ASSUME NEW q \in CLIs, q # p PROVE Undisturbed(job[q])
  <2>1. PlacedJob(job[q])
    BY JobFacts
  <2>2. job[q].at = "edge_commit" => job[q].gen # g
    BY <1>2, <1>18, ApartFrom
  <2> QED BY <1>5, <1>8, <2>1, <2>2 DEF Undisturbed, PlacedJob
<1>19. Jobs' /\ Apart'
  <2>1. ASSUME NEW q \in CLIs, q # p
        PROVE  /\ job[q].at = "edge_commit" => k.gen # job[q].gen /\ k.oldEdge.gen # job[q].gen
               /\ k.at = "edge_commit" => job[q].gen # k.gen /\ job[q].oldEdge.gen # k.gen
               /\ k.at = "commit" /\ job[q].at = "commit" => job[q].token # k.token
    BY <1>11, <2>1, ApartFrom
  <2> QED BY <1>10, <1>13, <1>14, <1>15, <1>16, <1>18, <2>1, StepJobs
<1>20. Documents'
  <2>1. SessionBound'
    BY <1>1, <1>8 DEF Documents, SessionBound
  <2> QED BY <1>1, <1>4, <1>5, <1>8, <2>1 DEF Documents, Live
<1>21. InForce'
  <2>1. ~activeEdgeSession'
    BY <1>4, <1>5 DEF activeEdgeSession
  <2> QED BY <1>1, <1>4, <1>5, <1>8, <2>1 DEF InForce
<1>22. Owned'
  <2>1. ASSUME NEW s \in Serials, issued'[s].live, issued'[s].kind = "edge-device", s \notin ghost'.adrift
        PROVE  \/ edgeFile'.root = s \/ OwnsRoot(k, s)
               \/ /\ issued[s].live /\ issued[s].kind = "edge-device" /\ s \notin ghost.adrift
                  /\ edgeFile.root # s /\ ~OwnsRoot(job[p], s)
    <3>1. OwnsRoot(job[p], s) => edgeFile'.root = s
      BY <1>3, <1>5 DEF OwnsRoot
    <3> QED BY <1>8, <2>1, <3>1
  <2>2. ASSUME NEW h \in Handles, keyring'[h] # 0, h \notin ghost'.stray
        PROVE  \/ StoredKey(h)' \/ OwnsKey(k, h)
               \/ keyring[h] # 0 /\ h \notin ghost.stray /\ ~StoredKey(h) /\ ~OwnsKey(job[p], h)
    <3>1. h[1] = "edge-device" => h = EdgeKeyOf(h[2])
      BY HandleFacts DEF EdgeKeyOf
    <3>2. StoredKey(h) => StoredKey(h)'
      BY <1>8, <2>2, <3>1 DEF StoredKey
    <3>3. OwnsKey(job[p], h) => StoredKey(h)'
      BY <1>2, <1>4, <1>5 DEF StoredKey, OwnsKey
    <3> QED BY <1>8, <2>2, <3>2, <3>3
  <2> QED BY <1>10, <2>1, <2>2, StepOwned
<1> QED BY <1>8, <1>13, <1>17, <1>19, <1>20, <1>21, <1>22 DEF StoreInv

\* EdgeCommit preserves the invariant.
LEMMA EdgeCommitStep ==
  ASSUME StoreInv, NEW p \in CLIs, EdgeCommit(p)
  PROVE  StoreInv'
<1>1. job[p].at = "edge_commit" /\ UNCHANGED <<keyring, idp, issued>>
  BY DEF EdgeCommit
<1>2. CASE /\ edgeFile' = edgeRecord(p) /\ creds' = edgeData(p)
           /\ ghost' = committed("edge-device", job[p].gen, issued[job[p].root].who)
           /\ Set(p, [job[p] EXCEPT !.at = "cleanup", !.orphans = orphanedBy(creds),
                                    !.oldEdge = edgeFile, !.refresh = creds.refresh])
           /\ NoFault
  BY <1>1, <1>2, EdgeCommitted
<1>3. CASE /\ Fault
           /\ Set(p, givenUp(p))
           /\ UNCHANGED <<creds, edgeFile, ghost>>
  <2>1. job[p] \in Job
    BY JobFacts
  <2>2. EdgeKeyOf(job[p].gen) \in Handles /\ EdgeKeyOf(job[p].gen) = sessionKeyHandle("edge-device", job[p].gen)
    BY <2>1, HandleFacts DEF Job, sessionKeyHandle, EdgeKeyOf
  <2>3. PICK k \in Job : k = [job[p] EXCEPT !.at = "abandon", !.hit = TRUE, !.orphans = {EdgeKeyOf(job[p].gen)}]
    BY <2>1, <2>2 DEF Job, Ats
  <2>4. job' = [job EXCEPT ![p] = k]
    BY <1>3, <2>2, <2>3 DEF Set, givenUp
  <2> QED BY <1>1, <1>3, <2>3, <2>4, AbandonsLater
<1>4. CASE /\ Fault /\ edgeFile' = edgeRecord(p) /\ UNCHANGED creds /\ (Set(p, Idle) \/ Set(p, givenUp(p)))
           /\ ghost' = [ghost EXCEPT !.overwritten = TRUE, !.adrift = @ \cup {edgeFile.root},
                                     !.stray = @ \cup {sessionKeyHandle("edge-device", edgeFile.gen)}]
  BY <1>1, <1>4, EdgeTornStep
<1> QED BY <1>2, <1>3, <1>4 DEF EdgeCommit

\* The environment moves: every command keeps what it knows.
LEMMA StillJobs ==
  ASSUME StoreInv, Types', Grows, UNCHANGED job, \A q \in CLIs : Undisturbed(job[q])
  PROVE  Jobs' /\ Apart'
<1>1. ASSUME NEW q \in CLIs PROVE (JobShape(job[q]) /\ KnownJob(job[q]) /\ PlacedJob(job[q]))'
  <2>1. PICK j \in Job : j = job[q]
    BY DEF StoreInv, Types
  <2>2. JobShape(j) /\ KnownJob(j) /\ PlacedJob(j) /\ Undisturbed(j) /\ job'[q] = j
    BY <2>1 DEF StoreInv, Jobs
  <2>3. KnownJob(j)' /\ PlacedJob(j)'
    BY <2>2, KnownStays, PlacedStays DEF StoreInv
  <2> QED BY <2>2, <2>3 DEF KnownJob, PlacedJob, Returns, EdgeKeyOf, Live
<1>2. Apart'
  BY DEF StoreInv, Apart
<1> QED BY <1>1, <1>2 DEF Jobs

\* Every live root and every key keeps its owner while no command moves.
LEMMA StillOwned ==
  ASSUME StoreInv, UNCHANGED job,
         \A r \in Serials : issued'[r].live /\ issued'[r].kind = "edge-device" /\ r \notin ghost'.adrift =>
           \/ edgeFile'.root = r
           \/ /\ issued[r].live /\ issued[r].kind = "edge-device" /\ r \notin ghost.adrift
              /\ edgeFile.root # r,
         \A h \in Handles : keyring'[h] # 0 /\ h \notin ghost'.stray =>
           StoredKey(h)' \/ (keyring[h] # 0 /\ h \notin ghost.stray /\ ~StoredKey(h))
  PROVE  Owned'
<1>1. ASSUME NEW r \in Serials, issued'[r].live, issued'[r].kind = "edge-device", r \notin ghost'.adrift
      PROVE  edgeFile'.root = r \/ \E q \in CLIs : OwnsRoot(job'[q], r)
  BY <1>1 DEF StoreInv, Owned, Live
<1>2. ASSUME NEW h \in Handles, keyring'[h] # 0, h \notin ghost'.stray
      PROVE  StoredKey(h)' \/ \E q \in CLIs : OwnsKey(job'[q], h)
  BY <1>2 DEF StoreInv, Owned
<1> QED BY <1>1, <1>2 DEF Owned, Live

\* bd-enterprise's login brings its own room.
LEMMA StillRoom ==
  ASSUME StoreInv, UNCHANGED job, ghost'.serial = ghost.serial,
         \/ used'.commands = used.commands /\ ghost'.gens = ghost.gens /\ ghost'.tokens = ghost.tokens
         \/ /\ used'.commands = used.commands + 1 /\ ghost'.gens = ghost.gens + 1
            /\ ghost'.tokens = ghost.tokens + 1
  PROVE  Room'
<1> DEFINE S == {q \in CLIs : Stamps(job[q])}
           R == {q \in CLIs : Redeems(job[q])}
           B == {q \in CLIs : MayBind(job[q])}
           C == {q \in CLIs : MayRebind(job[q])}
<1>1. ghost.gens \in Nat /\ ghost.tokens \in Nat /\ ghost.serial \in Nat /\ used.commands \in Nat
  BY RoomLeft DEF StoreInv
<1>2. Cardinality(S) \in Nat /\ Cardinality(R) \in Nat /\ Cardinality(B) \in Nat /\ Cardinality(C) \in Nat
  BY CountSub
<1>3. /\ ghost.gens + Cardinality(S) <= used.commands + 1
      /\ ghost.tokens + Cardinality(R) <= used.commands + 1
      /\ ghost.serial + Cardinality(B) + Cardinality(C) <= 2 * used.commands + 1
  BY DEF Room, StoreInv
<1>4. /\ ghost'.gens + Cardinality(S) <= used'.commands + 1
      /\ ghost'.tokens + Cardinality(R) <= used'.commands + 1
      /\ ghost'.serial + Cardinality(B) + Cardinality(C) <= 2 * used'.commands + 1
  <2> HIDE DEF S, R, B, C
  <2> QED BY <1>1, <1>2, <1>3
<1> QED BY <1>4 DEF Room

\* Time takes a token's or a session's freshness, and nothing else.
LEMMA AgeStep ==
  ASSUME StoreInv, SameLogin, UNCHANGED <<edgeFile, keyring, idp, issued, ghost, job>>,
         used' \in Used, used'.commands = used.commands
  PROVE  StoreInv'
<1>1. Types /\ Documents
  BY DEF StoreInv
<1>2. Types'
  BY <1>1 DEF Types, SameLogin
<1>3. Documents' /\ InForce' /\ Grows
  BY SameDocuments
<1>4. Room'
  BY StillRoom
<1>5. \A q \in CLIs : Undisturbed(job[q])
  <2>1. ASSUME NEW q \in CLIs PROVE Undisturbed(job[q])
    <3>1. PlacedJob(job[q])
      BY JobFacts
    <3> QED BY <3>1 DEF Undisturbed, PlacedJob, SameLogin
  <2> QED BY <2>1
<1>6. Jobs' /\ Apart'
  BY <1>2, <1>3, <1>5, StillJobs
<1>7. \A h \in Handles : StoredKey(h)' <=> StoredKey(h)
  BY HandleFacts DEF StoredKey, SameLogin
<1>8. Owned'
  BY <1>7 DEF StoreInv, Owned, Live
<1> QED BY <1>2, <1>3, <1>4, <1>6, <1>8 DEF StoreInv

\* The server ends a session or root.
LEMMA EndedStep ==
  ASSUME StoreInv, NEW t \in Serials, issued' = [issued EXCEPT ![t].live = FALSE],
         ghost' = [ghost EXCEPT !.adrift = @ \cup {t}],
         UNCHANGED <<creds, edgeFile, keyring, idp, job>>,
         used' \in Used, used'.commands = used.commands
  PROVE  StoreInv'
<1>1. Types /\ Documents /\ InForce /\ Room
  BY DEF StoreInv
<1>2. ghost.gens \in Nat /\ ghost.serial \in Nat /\ ghost.tokens \in Nat /\ ghost \in Ghost
  BY <1>1, RoomLeft DEF Types
<1>3. /\ ghost' \in Ghost /\ ghost'.serial = ghost.serial /\ ghost'.gens = ghost.gens /\ ghost'.tokens = ghost.tokens
      /\ ghost'.owner = ghost.owner /\ ghost'.last = ghost.last /\ ghost'.spent = ghost.spent
      /\ ghost'.adrift = ghost.adrift \cup {t} /\ ghost'.stray = ghost.stray /\ ghost'.purged = ghost.purged
      /\ ghost'.torn = ghost.torn /\ ghost'.overwritten = ghost.overwritten /\ ghost'.replayed = ghost.replayed
  <2>1. PICK A \in SUBSET Serials : A = ghost.adrift \cup {t}
    BY <1>2 DEF Ghost
  <2>2. ghost' = [ghost EXCEPT !.adrift = A]
    BY <1>2, <2>1 DEF Ghost
  <2> QED BY <1>2, <2>1, <2>2 DEF Ghost
<1>4. /\ issued' \in [Serials -> IssuedRecord]
      /\ \A r \in Serials : /\ issued'[r].who = issued[r].who /\ issued'[r].kind = issued[r].kind
                            /\ issued'[r].live => issued[r].live
  BY <1>1 DEF Types, IssuedRecord
<1>5. Types'
  BY <1>1, <1>3, <1>4 DEF Types
<1>6. Grows
  BY <1>2, <1>3, <1>4 DEF Grows
<1>7. Room'
  BY <1>3, StillRoom
<1>8. \A q \in CLIs : Undisturbed(job[q])
  BY <1>3 DEF StoreInv, Undisturbed, Jobs, PlacedJob
<1>9. Jobs' /\ Apart'
  BY <1>5, <1>6, <1>8, StillJobs
<1>10. Documents'
  <2>1. SessionBound'
    BY <1>1, <1>3 DEF Documents, SessionBound
  <2>2. \A r \in Serials : r = 0 \/ r > ghost'.serial => issued'[r].kind = "none" /\ ~issued'[r].live
    BY <1>1, <1>3, <1>4 DEF Documents, Live
  <2>3. \A g \in Gens : issued'[creds.sessions[g].token].who = issued[creds.sessions[g].token].who
    BY <1>1, <1>4 DEF Types, Data, Session
  <2> QED BY <1>1, <1>3, <2>1, <2>2, <2>3 DEF Documents, Live
<1>11. InForce'
  <2>1. issued'[edgeFile.root].who = issued[edgeFile.root].who
    BY <1>1, <1>4 DEF Types, EdgeRecord
  <2> QED BY <1>1, <1>3, <2>1 DEF InForce, activeEdgeSession
<1>12. Owned'
  <2>1. ASSUME NEW r \in Serials, issued'[r].live, issued'[r].kind = "edge-device", r \notin ghost'.adrift
        PROVE  \/ edgeFile'.root = r
               \/ /\ issued[r].live /\ issued[r].kind = "edge-device" /\ r \notin ghost.adrift
                  /\ edgeFile.root # r
    BY <1>3, <1>4, <2>1
  <2>2. ASSUME NEW h \in Handles, keyring'[h] # 0, h \notin ghost'.stray
        PROVE  StoredKey(h)' \/ (keyring[h] # 0 /\ h \notin ghost.stray /\ ~StoredKey(h))
    BY <1>3, <2>2 DEF StoredKey
  <2> QED BY <2>1, <2>2, StillOwned
<1> QED BY <1>3, <1>5, <1>7, <1>9, <1>10, <1>11, <1>12 DEF StoreInv

\* Keycloak ends a refresh token.
LEMMA TokenEndedStep ==
  ASSUME StoreInv, NEW t \in idp, idp' = idp \ {t}, ghost' = [ghost EXCEPT !.spent = @ \cup {t}],
         UNCHANGED <<creds, edgeFile, keyring, issued, job>>,
         used' \in Used, used'.commands = used.commands
  PROVE  StoreInv'
<1>1. Types /\ Documents /\ InForce /\ Room
  BY DEF StoreInv
<1>2. ghost.gens \in Nat /\ ghost.serial \in Nat /\ ghost.tokens \in Nat /\ ghost \in Ghost /\ t \in Tokens
  BY <1>1, RoomLeft DEF Types
<1>3. /\ ghost' \in Ghost /\ ghost'.serial = ghost.serial /\ ghost'.gens = ghost.gens /\ ghost'.tokens = ghost.tokens
      /\ ghost'.owner = ghost.owner /\ ghost'.last = ghost.last /\ ghost'.spent = ghost.spent \cup {t}
      /\ ghost'.adrift = ghost.adrift /\ ghost'.stray = ghost.stray /\ ghost'.purged = ghost.purged
      /\ ghost'.torn = ghost.torn /\ ghost'.overwritten = ghost.overwritten /\ ghost'.replayed = ghost.replayed
  <2>1. PICK S \in SUBSET Tokens : S = ghost.spent \cup {t}
    BY <1>2 DEF Ghost
  <2>2. ghost' = [ghost EXCEPT !.spent = S]
    BY <1>2, <2>1 DEF Ghost
  <2> QED BY <1>2, <2>1, <2>2 DEF Ghost
<1>4. idp' \cup ghost'.spent = idp \cup ghost.spent
  BY <1>3
<1>5. Types'
  BY <1>1, <1>3 DEF Types
<1>6. Grows
  BY <1>2, <1>3 DEF Grows
<1>7. Room'
  BY <1>3, StillRoom
<1>8. \A q \in CLIs : Undisturbed(job[q])
  BY <1>3, <1>4 DEF StoreInv, Undisturbed, Jobs, PlacedJob
<1>9. Jobs' /\ Apart'
  BY <1>5, <1>6, <1>8, StillJobs
<1>10. Documents'
  <2>1. SessionBound'
    BY <1>1, <1>3 DEF Documents, SessionBound
  <2>2. creds.refresh \in idp' \cup ghost'.spent /\ 0 \in ghost'.spent /\ 0 \notin idp'
    BY <1>1, <1>3, <1>4 DEF Documents
  <2> QED BY <1>1, <1>3, <2>1, <2>2 DEF Documents, Live
<1>11. InForce'
  BY <1>1, <1>3 DEF InForce, activeEdgeSession
<1>12. Owned'
  BY <1>3 DEF StoreInv, Owned, StoredKey, Live
<1> QED BY <1>3, <1>5, <1>7, <1>9, <1>10, <1>11, <1>12 DEF StoreInv

\* Lapse preserves the invariant.
LEMMA LapseStep ==
  ASSUME StoreInv, Lapse
  PROVE  StoreInv'
<1>1. Types /\ Documents
  BY DEF StoreInv
<1>2. used' \in Used /\ used'.commands = used.commands
  BY <1>1, CredAssumption DEF Lapse, Types, Used
<1>3. UNCHANGED <<edgeFile, keyring, job>>
  BY DEF Lapse
<1>4. creds \in Data /\ (creds.id = "fresh" => creds.id # "none")
  BY <1>1 DEF Types
<1>5. ASSUME NEW g \in Gens PROVE creds.sessions[g] \in Session
  BY <1>4 DEF Data
<1>6. ASSUME NEW h \in Handles PROVE creds.eia[h] \in EIA
  BY <1>4 DEF Data
<1>7. /\ ghost.last.kind = "none" => creds = EmptyData
      /\ \A h \in Handles : creds.eia[h] # NoEIA => h[2] = creds.gen /\ creds.eia[h].who = creds.who
  BY <1>1 DEF StoreInv, InForce, Documents
<1>8. CASE creds.id = "fresh" /\ creds' = [creds EXCEPT !.id = "stale"] /\ UNCHANGED <<idp, issued, ghost>>
  <2>1. /\ creds' \in Data /\ creds'.gen = creds.gen /\ creds'.refresh = creds.refresh /\ creds'.who = creds.who
        /\ creds'.sessions = creds.sessions /\ creds'.eia = creds.eia /\ creds'.id = "stale"
    BY <1>4, <1>8 DEF Data
  <2>2. SameLogin
    BY <1>4, <1>7, <1>8, <2>1, EmptyFacts DEF SameLogin
  <2> QED BY <1>2, <1>3, <1>8, <2>2, AgeStep
<1>9. ASSUME NEW g \in Gens, creds.sessions[g].fresh, creds' = [creds EXCEPT !.sessions[g].fresh = FALSE],
             UNCHANGED <<idp, issued, ghost>>
      PROVE  StoreInv'
  <2>1. PICK s \in [Gens -> Session] : s = [creds.sessions EXCEPT ![g].fresh = FALSE]
    BY <1>4, <1>5 DEF Data, Session
  <2>2. \A x \in Gens : s[x].token = creds.sessions[x].token /\ (s[x].fresh => creds.sessions[x].fresh)
    BY <1>4, <1>5, <2>1 DEF Data, Session
  <2>3. creds' = [creds EXCEPT !.sessions = s]
    BY <1>4, <1>9, <2>1 DEF Data
  <2>4. /\ creds' \in Data /\ creds'.gen = creds.gen /\ creds'.refresh = creds.refresh /\ creds'.who = creds.who
        /\ creds'.sessions = s /\ creds'.eia = creds.eia /\ creds'.id = creds.id
    BY <1>4, <2>3 DEF Data
  <2>5. creds # EmptyData
    BY <1>9, EmptyFacts
  <2>6. SameLogin
    BY <1>7, <2>2, <2>4, <2>5 DEF SameLogin
  <2> QED BY <1>2, <1>3, <1>9, <2>6, AgeStep
<1>10. ASSUME NEW h \in Handles, creds.eia[h].fresh, creds' = [creds EXCEPT !.eia[h].fresh = FALSE],
              UNCHANGED <<idp, issued, ghost>>
       PROVE  StoreInv'
  <2>1. PICK e \in [Handles -> EIA] : e = [creds.eia EXCEPT ![h].fresh = FALSE]
    BY <1>4, <1>6 DEF Data, EIA
  <2>2. \A x \in Handles : e[x].who = creds.eia[x].who /\ (x # h => e[x] = creds.eia[x])
    BY <1>4, <1>6, <2>1 DEF Data, EIA
  <2>3. creds' = [creds EXCEPT !.eia = e]
    BY <1>4, <1>10, <2>1 DEF Data
  <2>4. /\ creds' \in Data /\ creds'.gen = creds.gen /\ creds'.refresh = creds.refresh /\ creds'.who = creds.who
        /\ creds'.sessions = creds.sessions /\ creds'.eia = e /\ creds'.id = creds.id
    BY <1>4, <2>3 DEF Data
  <2>5. creds.eia[h] # NoEIA
    BY <1>10 DEF NoEIA
  <2>6. creds # EmptyData
    BY <2>5, EmptyFacts
  <2>7. SameLogin
    BY <1>7, <2>2, <2>4, <2>5, <2>6 DEF SameLogin
  <2> QED BY <1>2, <1>3, <1>10, <2>7, AgeStep
<1>11. ASSUME NEW t \in Serials, issued' = [issued EXCEPT ![t].live = FALSE],
              ghost' = [ghost EXCEPT !.adrift = @ \cup {t}], UNCHANGED <<creds, idp>>
       PROVE  StoreInv'
  BY <1>2, <1>3, <1>11, EndedStep
<1>12. ASSUME NEW t \in idp, idp' = idp \ {t}, ghost' = [ghost EXCEPT !.spent = @ \cup {t}],
              UNCHANGED <<creds, issued>>
       PROVE  StoreInv'
  BY <1>2, <1>3, <1>12, TokenEndedStep
<1> QED BY <1>8, <1>9, <1>10, <1>11, <1>12 DEF Lapse

\* BdLogin preserves the invariant.
LEMMA BdLoginStep ==
  ASSUME StoreInv, BdLogin
  PROVE  StoreInv'
<1>1. Types /\ Documents /\ InForce /\ Room /\ creds \in Data
  BY DEF StoreInv, Types
<1>2. UNCHANGED <<edgeFile, keyring, issued, job>>
  BY DEF BdLogin
<1>3. used' \in Used /\ used'.commands = used.commands + 1
  BY <1>1, CredAssumption DEF BdLogin, Types, Used
<1>4. PICK g \in Gens : g = ghost.gens + 1 /\ g # 0
  BY <1>1, RoomLeft
<1>5. PICK t \in Tokens : t = ghost.tokens + 1
  BY <1>1, RoomLeft
<1>6. /\ ghost.gens \in Nat /\ ghost.tokens \in Nat /\ t \in Nat /\ g \in Nat /\ t # 0 /\ ghost.tokens < t /\ ghost.gens < g
      /\ ghost \in Ghost
  BY <1>1, <1>4, <1>5, RoomLeft DEF Types
<1>7. PICK w \in Accounts : w = <<"human", t>>
  BY DEF Accounts
<1>8. creds' = [dropped(creds) EXCEPT !.id = "fresh", !.refresh = t, !.gen = g, !.who = w]
  BY <1>4, <1>5, <1>7 DEF BdLogin, newCredentialGeneration
<1>9. /\ creds' \in Data /\ creds'.id = "fresh" /\ creds'.refresh = t /\ creds'.gen = g /\ creds'.who = w
      /\ creds'.sessions = EmptyData.sessions /\ creds'.eia = EmptyData.eia
  <2>1. "fresh" \in {"none", "fresh", "stale"}
    OBVIOUS
  <2> QED BY <1>1, <1>8, <2>1, NewDocument
<1>10. PICK S \in SUBSET Handles : S = ghost.stray \cup orphanedBy(creds)
  BY <1>1, <1>6, DropFacts DEF Ghost
<1>11. Records("human", g, w, t, S) /\ "human" \in Kinds
  BY <1>4, <1>5, <1>6, <1>7, <1>10 DEF BdLogin, newCredentialGeneration, committed, Records, Kinds, Ghost
<1>12. /\ Committed(g, w) /\ ghost'.last = [kind |-> "human", gen |-> g] /\ ~ghost'.overwritten
       /\ ghost'.tokens = t /\ ghost'.stray = S /\ ghost'.torn = ghost.torn
  BY <1>4, <1>9, <1>11, CommittedBy
<1>13. idp' = idp \cup {t}
  BY <1>5 DEF BdLogin
<1>14. Types'
  BY <1>1, <1>2, <1>3, <1>9, <1>12, <1>13 DEF Types, Committed
<1>15. Documents' /\ Grows
  <2>1. ghost.tokens <= ghost'.tokens /\ 0 \notin idp' /\ (\A x \in idp' : x <= ghost'.tokens)
    <3>1. \A x \in idp : x \in Nat /\ x <= ghost.tokens
      BY <1>1, NumberFacts DEF Documents, Types
    <3> QED BY <1>1, <1>6, <1>12, <1>13, <3>1 DEF Documents
  <2>2. creds'.refresh <= ghost'.tokens /\ creds'.refresh \in idp' \cup ghost'.spent
    BY <1>6, <1>9, <1>12, <1>13
  <2>3. edgeFile'.gen \in {0, g, edgeFile.gen} /\ edgeFile'.root <= ghost.serial
    BY <1>1, <1>2 DEF Documents
  <2> QED BY <1>2, <1>12, <2>1, <2>2, <2>3, CommitDocuments
<1>16. InForce'
  BY <1>2, <1>4, <1>9, <1>12, HumanInForce
<1>17. Room'
  <2>1. ghost'.serial = ghost.serial /\ ghost'.gens = ghost.gens + 1
    BY <1>4, <1>6, <1>12 DEF Committed
  <2> QED BY <1>2, <1>3, <1>5, <1>12, <2>1, StillRoom
<1>18. \A q \in CLIs : Undisturbed(job[q])
  <2>1. ASSUME NEW q \in CLIs PROVE Undisturbed(job[q])
    <3>1. /\ KnownJob(job[q]) /\ PlacedJob(job[q])
          /\ job[q].gen \in Nat /\ job[q].oldEdge.gen \in Nat /\ job[q].token \in Nat
      BY JobFacts, NumberFacts DEF Job, EdgeRecord
    <3>2. job[q].gen # g /\ job[q].oldEdge.gen # g
      BY <1>6, <3>1 DEF KnownJob
    <3>3. job[q].at = "commit" => creds'.refresh # job[q].token
      BY <1>6, <1>9, <3>1 DEF PlacedJob
    <3> QED BY <1>2, <1>12, <1>13, <3>2, <3>3, CommitLeaves
  <2> QED BY <2>1
<1>19. Jobs' /\ Apart'
  BY <1>2, <1>14, <1>15, <1>18, StillJobs
<1>20. Owned'
  <2>1. ASSUME NEW r \in Serials, issued'[r].live, issued'[r].kind = "edge-device", r \notin ghost'.adrift
        PROVE  \/ edgeFile'.root = r
               \/ /\ issued[r].live /\ issued[r].kind = "edge-device" /\ r \notin ghost.adrift
                  /\ edgeFile.root # r
    BY <1>2, <1>12, <2>1 DEF Committed
  <2>2. ASSUME NEW h \in Handles, keyring'[h] # 0, h \notin ghost'.stray
        PROVE  StoredKey(h)' \/ (keyring[h] # 0 /\ h \notin ghost.stray /\ ~StoredKey(h))
    <3>1. StoredKey(h) => StoredKey(h)'
      BY <1>1, <1>2, <1>10, <1>12, <2>2, DropFacts DEF StoredKey
    <3> QED BY <1>2, <1>10, <1>12, <2>2, <3>1
  <2> QED BY <1>2, <2>1, <2>2, StillOwned
<1>21. ~ghost'.replayed
  BY <1>12 DEF Committed, StoreInv
<1> QED BY <1>14, <1>15, <1>16, <1>17, <1>19, <1>20, <1>21 DEF StoreInv

\* Every action preserves the invariant.
LEMMA StoreStep ==
  ASSUME StoreInv, [CredNext]_credVars
  PROVE  StoreInv'
<1>1. CASE Lapse
  BY <1>1, LapseStep
<1>2. CASE BdLogin
  BY <1>2, BdLoginStep
<1>3. ASSUME NEW p \in CLIs, CredStep(p)
      PROVE  StoreInv'
  <2>1. ASSUME NEW cmd \in Commands, NEW force \in BOOLEAN, Start(p, cmd, force) PROVE StoreInv'
    BY <2>1, StartStep
  <2>2. CASE ForceRefresh(p) \/ LoadSnapshot(p) \/ EnsureLoad(p) \/ EnsureRefresh(p)
    BY <2>2, ForceRefreshStep, LoadStep, EnsureLoadStep, EnsureRefreshStep
  <2>3. CASE Cleanup(p) \/ Discover(p) \/ SessionKey(p) \/ StsLogin(p) \/ Enrol(p)
    BY <2>3, CleanupStep, DiscoverStep, SessionKeyStep, StsLoginStep, EnrolStep
  <2>4. CASE Exchange(p) \/ CacheEIA(p) \/ EdgeKey(p) \/ EdgeDiscover(p) \/ EdgeExchange(p)
    BY <2>4, ExchangeStep, CacheEIAStep, EdgeKeyStep, EdgeDiscoverStep, EdgeExchangeStep
  <2>5. CASE Grant(p) \/ LoginCommit(p) \/ EdgeAwait(p) \/ EdgeConfirm(p) \/ EdgeEnrol(p)
    BY <2>5, GrantStep, LoginCommitStep, EdgeAwaitStep, EdgeConfirmStep, EdgeEnrolStep
  <2>6. CASE EdgeCommit(p) \/ Abandon(p) \/ LogoutSnapshot(p) \/ LogoutRevoke(p)
    BY <2>6, EdgeCommitStep, AbandonStep, LogoutSnapshotStep, LogoutRevokeStep
  <2>7. CASE LogoutPurge(p) \/ LogoutClear(p) \/ Exit(p) \/ Kill(p)
    BY <2>7, LogoutPurgeStep, LogoutClearStep, ExitStep, KillStep
  <2> QED BY <1>3, <2>1, <2>2, <2>3, <2>4, <2>5, <2>6, <2>7 DEF CredStep
<1>4. CASE UNCHANGED credVars
  <2>1. UNCHANGED <<creds, edgeFile, keyring, idp, issued, job, used, ghost>>
    BY <1>4 DEF credVars
  <2>2. Types' /\ Room'
    BY <2>1 DEF StoreInv, Types, Room
  <2>3. Jobs' /\ Apart'
    BY <2>1 DEF StoreInv, Jobs, Apart, KnownJob, PlacedJob, Live
  <2>4. Documents' /\ InForce'
    BY <2>1 DEF StoreInv, Documents, InForce, SessionBound, activeEdgeSession, Live
  <2>5. Owned'
    BY <2>1 DEF StoreInv, Owned, StoredKey, Live
  <2> QED BY <2>1, <2>2, <2>3, <2>4, <2>5 DEF StoreInv
<1> QED BY <1>1, <1>2, <1>3, <1>4 DEF CredNext

\* StoreInv gives the documents' soundness.
LEMMA SoundFrom ==
  ASSUME StoreInv
  PROVE  CredInv
<1>1. Types /\ Jobs /\ Documents /\ InForce
  BY DEF StoreInv
<1>2. CredTypeOK
  <2>1. \A p \in CLIs : job[p].gen \in Gens /\ job[p].orphans \subseteq Handles
    BY <1>1 DEF Types, Job
  <2> QED BY <1>1, <2>1 DEF CredTypeOK, Types, Data, EdgeRecord
<1>3. CacheFenced
  BY <1>1 DEF CacheFenced, Documents, Jobs, KnownJob
<1>4. SessionBound
  BY <1>1 DEF Documents
<1>5. OneLoginInForce
  <2>1. ghost.last.kind \in Kinds \cup {"none"}
    BY <1>1 DEF Types, Ghost
  <2>2. ghost.last.kind = "none" => ~activeEdgeSession
    BY <1>1, EmptyFacts DEF InForce, activeEdgeSession, validCredentialGeneration
  <2> QED BY <1>1, <2>1, <2>2 DEF OneLoginInForce, Documents, InForce, Kinds
<1> QED BY <1>2, <1>3, <1>4, <1>5 DEF CredInv

\* StoreInv gives what a command tells its user.
LEMMA HonestFrom ==
  ASSUME StoreInv
  PROVE  CommandsHonest
<1>1. ReloginHonest
  BY DEF StoreInv, Jobs, KnownJob, PlacedJob, ReloginHonest, EdgeKeyOf
<1>2. FailsOnlyByFault
  BY DEF StoreInv, Jobs, KnownJob, FailsOnlyByFault
<1> QED BY <1>1, <1>2 DEF StoreInv, CommandsHonest, NeverReplayed

\* StoreInv gives every root and key an owner.
LEMMA AccountedFrom ==
  ASSUME StoreInv
  PROVE  NothingStranded
<1>1. RootAccounted
  <2>1. \A p \in CLIs : \A r \in Serials : OwnsRoot(job[p], r) => r \in {job[p].root, job[p].oldEdge.root}
    BY DEF OwnsRoot
  <2> QED BY <2>1 DEF StoreInv, Owned, RootAccounted
<1>2. KeyAccounted
  <2>1. \A p \in CLIs : \A h \in Handles : OwnsKey(job[p], h) =>
          \/ h \in job[p].orphans
          \/ h[1] = "edge-device" /\ h[2] \in {job[p].gen, job[p].oldEdge.gen}
    BY DEF OwnsKey
  <2> QED BY <2>1 DEF StoreInv, Owned, StoredKey, KeyAccounted
<1> QED BY <1>1, <1>2 DEF NothingStranded

\* The four profiles a command may start from satisfy the invariant.
LEMMA StoreInit ==
  ASSUME CredInit
  PROVE  StoreInv
<1>1. PICK kind \in {"none", "human", "legacy", "edge-device"}, id \in {"fresh", "stale"} :
       LET g   == IF kind = "legacy" THEN 0 ELSE 1
           who == IF kind = "edge-device" THEN <<"edge-device", 1>> ELSE <<"human", 1>>
           h   == sessionKeyHandle(IF kind = "edge-device" THEN kind ELSE "human", g)
           keycloak == kind \in {"human", "legacy"}
       IN
       /\ id = "fresh" => keycloak
       /\ creds = IF kind = "none" THEN EmptyData
                  ELSE IF keycloak
                  THEN [EmptyData EXCEPT !.id = id, !.refresh = 1, !.who = who, !.gen = g,
                                         !.sessions[g] = [token |-> 1, fresh |-> TRUE]]
                  ELSE [EmptyData EXCEPT !.who = who, !.gen = g]
       /\ edgeFile = IF kind = "edge-device" THEN [gen |-> g, root |-> 1] ELSE NoEdge
       /\ keyring = [x \in Handles |-> IF kind # "none" /\ x = h THEN 1 ELSE 0]
       /\ idp = IF keycloak THEN {1} ELSE {}
       /\ issued = [t \in Serials |->
                      IF t = 1 /\ kind # "none"
                      THEN [kind |-> IF keycloak THEN "human" ELSE kind, who |-> who, live |-> TRUE]
                      ELSE [kind |-> "none", who |-> Nobody, live |-> FALSE]]
       /\ ghost = [gens |-> 1, serial |-> 1, tokens |-> 1,
                   owner |-> [x \in Gens |-> IF x = g /\ kind # "none" THEN who ELSE Nobody],
                   last |-> [kind |-> IF keycloak THEN "human" ELSE kind,
                             gen |-> IF kind = "none" THEN 0 ELSE g],
                   spent |-> {0}, adrift |-> {0}, stray |-> {}, purged |-> {},
                   torn |-> FALSE, overwritten |-> FALSE, replayed |-> FALSE]
  BY DEF CredInit
<1> DEFINE keycloak == kind \in {"human", "legacy"}
           k0 == IF keycloak THEN "human" ELSE kind
<1>2. PICK g \in Gens : g = IF kind = "legacy" THEN 0 ELSE 1
  BY NumberFacts
<1>3. PICK w \in Accounts : w = IF kind = "edge-device" THEN <<"edge-device", 1>> ELSE <<"human", 1>>
  <2>1. <<"edge-device", 1>> \in Accounts /\ <<"human", 1>> \in Accounts
    BY NumberFacts DEF Accounts
  <2> QED BY <2>1
<1>4. PICK h \in Handles : h = IF kind = "edge-device" THEN EdgeKeyOf(g) ELSE <<"human", g>>
  BY HandleFacts
<1>5. k0 \in Kinds \cup {"none"}
  BY DEF Kinds
<1>6. /\ keyring \in [Handles -> Serials]
      /\ \A x \in Handles : keyring[x] = IF kind # "none" /\ x = h THEN 1 ELSE 0
  <2>1. keyring = [x \in Handles |-> IF kind # "none" /\ x = h THEN 1 ELSE 0]
    BY <1>1, <1>2, <1>4 DEF sessionKeyHandle, EdgeKeyOf
  <2> QED BY <2>1, NumberFacts
<1>7. /\ issued \in [Serials -> IssuedRecord]
      /\ \A t \in Serials : IF t = 1 /\ kind # "none"
                            THEN issued[t].kind = k0 /\ issued[t].who = w /\ issued[t].live
                            ELSE issued[t].kind = "none" /\ ~issued[t].live
  <2>1. issued = [t \in Serials |-> IF t = 1 /\ kind # "none" THEN [kind |-> k0, who |-> w, live |-> TRUE]
                                    ELSE [kind |-> "none", who |-> Nobody, live |-> FALSE]]
    BY <1>1, <1>3
  <2>2. [kind |-> k0, who |-> w, live |-> TRUE] \in IssuedRecord
    BY <1>5 DEF IssuedRecord
  <2>3. [kind |-> "none", who |-> Nobody, live |-> FALSE] \in IssuedRecord
    BY NumberFacts DEF IssuedRecord
  <2> HIDE DEF k0
  <2> QED BY <2>1, <2>2, <2>3
<1>8. PICK o \in [Gens -> Accounts] : o = [x \in Gens |-> IF x = g /\ kind # "none" THEN w ELSE Nobody]
  BY NumberFacts
<1>9. PICK l \in [kind : Kinds \cup {"none"}, gen : Gens] : l = [kind |-> k0, gen |-> IF kind = "none" THEN 0 ELSE g]
  <2>1. PICK x \in Gens : x = IF kind = "none" THEN 0 ELSE g
    BY NumberFacts
  <2> HIDE DEF k0
  <2>2. [kind |-> k0, gen |-> x] \in [kind : Kinds \cup {"none"}, gen : Gens]
    BY <1>5
  <2> QED BY <2>1, <2>2
<1>10. l.kind = k0 /\ l.gen = IF kind = "none" THEN 0 ELSE g
  BY <1>9
<1>11. ghost = [gens |-> 1, serial |-> 1, tokens |-> 1, owner |-> o, last |-> l,
                spent |-> {0}, adrift |-> {0}, stray |-> {}, purged |-> {},
                torn |-> FALSE, overwritten |-> FALSE, replayed |-> FALSE]
  BY <1>1, <1>2, <1>3, <1>8, <1>9
<1>12. /\ ghost \in Ghost /\ ghost.gens = 1 /\ ghost.serial = 1 /\ ghost.tokens = 1 /\ ghost.owner = o
       /\ ghost.last = l /\ ghost.spent = {0} /\ ghost.adrift = {0} /\ ghost.stray = {} /\ ghost.purged = {}
       /\ ~ghost.torn /\ ~ghost.overwritten /\ ~ghost.replayed
  BY <1>11, NumberFacts DEF Ghost
<1>13. job = [p \in CLIs |-> Idle] /\ used = [commands |-> 0, faults |-> 0, lapses |-> 0]
  BY DEF CredInit
<1>14. edgeFile = IF kind = "edge-device" THEN [gen |-> g, root |-> 1] ELSE NoEdge
  BY <1>1, <1>2
<1>15. idp = IF keycloak THEN {1} ELSE {}
  BY <1>1
<1>16. /\ creds \in Data
       /\ creds.id = (IF keycloak THEN id ELSE "none") /\ creds.refresh = (IF keycloak THEN 1 ELSE 0)
       /\ creds.gen = (IF kind = "none" THEN 0 ELSE g) /\ (kind # "none" => creds.who = w)
       /\ creds.eia = EmptyData.eia
       /\ \A x \in Gens : creds.sessions[x] = IF keycloak /\ x = g THEN [token |-> 1, fresh |-> TRUE] ELSE NoSession
       /\ kind = "none" => creds = EmptyData
  <2>1. PICK d \in Data : d = EmptyData
    BY EmptyFacts
  <2>2. PICK s \in [Gens -> Session] : s = [EmptyData.sessions EXCEPT ![g] = [token |-> 1, fresh |-> TRUE]]
    BY EmptyFacts, NumberFacts DEF Session
  <2>3. CASE kind = "none"
    BY <1>1, <2>3, EmptyFacts
  <2>4. CASE keycloak
    <3>1. creds = [d EXCEPT !.id = id, !.refresh = 1, !.who = w, !.gen = g, !.sessions = s]
      BY <1>1, <1>2, <1>3, <2>1, <2>2, <2>4 DEF Data
    <3>2. d.eia = EmptyData.eia
      BY <2>1
    <3>3. /\ creds \in Data /\ creds.id = id /\ creds.refresh = 1 /\ creds.who = w /\ creds.gen = g
          /\ creds.sessions = s /\ creds.eia = EmptyData.eia
      BY <3>1, <3>2, NumberFacts DEF Data
    <3> QED BY <2>2, <2>4, <3>3, EmptyFacts
  <2>5. CASE kind = "edge-device"
    <3>1. creds = [d EXCEPT !.who = w, !.gen = g]
      BY <1>1, <1>2, <1>3, <2>1, <2>5
    <3>2. d.eia = EmptyData.eia /\ d.sessions = EmptyData.sessions /\ d.id = "none" /\ d.refresh = 0
      BY <2>1, EmptyFacts
    <3> QED BY <2>5, <3>1, <3>2, EmptyFacts DEF Data
  <2> QED BY <2>3, <2>4, <2>5
<1> HIDE DEF k0, keycloak
<1>17. k0 = (IF keycloak THEN "human" ELSE kind) /\ (keycloak <=> kind \in {"human", "legacy"})
  BY DEF k0, keycloak
<1>18. Types
  <2>1. edgeFile \in EdgeRecord
    BY <1>14, NumberFacts DEF EdgeRecord, NoEdge
  <2>2. idp \in SUBSET Tokens
    BY <1>15, NumberFacts
  <2>3. used \in Used
    BY <1>13, CredAssumption DEF Used
  <2>4. job \in [CLIs -> Job]
    BY <1>13, IdleFacts
  <2> QED BY <1>6, <1>7, <1>12, <1>16, <2>1, <2>2, <2>3, <2>4 DEF Types
<1>19. ASSUME NEW p \in CLIs
       PROVE  /\ JobShape(job[p]) /\ KnownJob(job[p]) /\ PlacedJob(job[p])
              /\ ~Stamps(job[p]) /\ ~Redeems(job[p]) /\ ~MayBind(job[p]) /\ ~MayRebind(job[p])
              /\ job[p].at = "idle"
  <2>1. PICK k \in Job : k = Idle
    BY IdleFacts
  <2>2. job[p] = k /\ k.at = "idle" /\ k.gen = 0 /\ k.oldEdge.gen = 0 /\ k.root = 0 /\ ~k.retried
    BY <1>13, <2>1, IdleFacts
  <2>3. JobShape(k) /\ PlacedJob(k) /\ ~Stamps(k) /\ ~Redeems(k) /\ ~MayBind(k) /\ ~MayRebind(k)
    BY <2>2, Resting
  <2>4. KnownJob(k)
    BY <1>12, <2>2 DEF KnownJob, Minting, Reading, Returns
  <2> QED BY <2>2, <2>3, <2>4
<1>20. Jobs /\ Apart
  BY <1>19 DEF Jobs, Apart
<1>21. Room
  <2>1. /\ {p \in CLIs : Stamps(job[p])} = {} /\ {p \in CLIs : Redeems(job[p])} = {}
        /\ {p \in CLIs : MayBind(job[p])} = {} /\ {p \in CLIs : MayRebind(job[p])} = {}
    BY <1>19
  <2>2. Cardinality({}) = 0
    BY FS_EmptySet
  <2>3. used.commands = 0 /\ ghost.gens = 1 /\ ghost.tokens = 1 /\ ghost.serial = 1
    BY <1>12, <1>13
  <2>4. /\ Cardinality({p \in CLIs : Stamps(job[p])}) = 0 /\ Cardinality({p \in CLIs : Redeems(job[p])}) = 0
        /\ Cardinality({p \in CLIs : MayBind(job[p])}) = 0 /\ Cardinality({p \in CLIs : MayRebind(job[p])}) = 0
    BY <2>1, <2>2, Zenon
  <2> QED BY <2>3, <2>4 DEF Room
<1>22. g \in {0, 1} /\ (kind # "legacy" => g = 1) /\ o[g] = (IF kind # "none" THEN w ELSE Nobody)
  BY <1>2, <1>8
<1>23. Documents
  <2>1. \A x \in Gens : /\ creds.sessions[x].fresh => creds.sessions[x].token # 0
                        /\ creds.sessions[x].token # 0 =>
                             x = g /\ keycloak /\ creds.sessions[x].token = 1
    BY <1>16, EmptyFacts
  <2>2. \A x \in Handles : creds.eia[x] = NoEIA
    BY <1>16, EmptyFacts
  <2>3. keycloak => issued[1].who = w /\ creds.gen = g /\ creds.who = w /\ keyring[<<"human", g>>] = 1
    BY <1>4, <1>6, <1>7, <1>16, <1>17, HandleFacts, NumberFacts
  <2>4. SessionBound
    <3>1. ASSUME NEW x \in Gens, creds.sessions[x].token # 0
          PROVE  keyring[sessionKeyHandle("human", x)] = creds.sessions[x].token
      BY <2>1, <2>3, <3>1 DEF sessionKeyHandle
    <3> QED BY <3>1 DEF SessionBound
  <2>5. \A t \in Serials : t = 0 \/ t > ghost.serial => issued[t].kind = "none" /\ ~Live(t)
    BY <1>7, <1>12 DEF Live
  <2>6. creds.gen # 0 => ghost.owner[creds.gen] = creds.who
    BY <1>12, <1>16, <1>22
  <2>7. creds.gen = ghost.last.gen /\ creds.gen <= 1 /\ edgeFile.gen <= 1 /\ edgeFile.root <= 1
    BY <1>10, <1>12, <1>14, <1>16, <1>22 DEF NoEdge
  <2>8. creds.refresh <= 1 /\ creds.refresh \in idp \cup {0} /\ 0 \notin idp /\ \A t \in idp : t <= 1
    BY <1>15, <1>16
  <2>9. \A x \in Gens : creds.sessions[x].token # 0 =>
          /\ x = creds.gen /\ creds.sessions[x].token <= ghost.serial
          /\ issued[creds.sessions[x].token].who = creds.who
    BY <1>12, <2>1, <2>3
  <2> QED BY <1>12, <2>1, <2>2, <2>4, <2>5, <2>6, <2>7, <2>8, <2>9 DEF Documents
<1>24. InForce
  <2>1. CASE kind = "none"
    BY <1>10, <1>12, <1>14, <1>16, <1>17, <2>1 DEF InForce, NoEdge
  <2>2. CASE keycloak
    BY <1>10, <1>12, <1>14, <1>16, <1>17, <2>2 DEF InForce, NoEdge, hasKeycloakLogin, activeEdgeSession
  <2>3. CASE kind = "edge-device"
    <3>1. edgeFile.gen = 1 /\ edgeFile.root = 1 /\ creds.gen = 1 /\ ghost.last.kind = "edge-device" /\ g = 1
      BY <1>10, <1>12, <1>14, <1>16, <1>17, <1>22, <2>3
    <3>2. keyring[EdgeKeyOf(1)] = 1 /\ ghost.owner[1] = w /\ issued[1].who = w
      BY <1>4, <1>6, <1>7, <1>12, <1>22, <2>3, <3>1, NumberFacts
    <3>3. ~hasKeycloakLogin(creds)
      BY <1>16, <1>17, <2>3 DEF hasKeycloakLogin
    <3>4. activeEdgeSession
      BY <3>1 DEF activeEdgeSession, validCredentialGeneration
    <3> QED BY <3>1, <3>2, <3>3, <3>4 DEF InForce
  <2> QED BY <1>17, <2>1, <2>2, <2>3
<1>25. Owned
  <2>1. ASSUME NEW r \in Serials, issued[r].live, issued[r].kind = "edge-device"
        PROVE  edgeFile.root = r
    BY <1>7, <1>14, <1>17, <2>1
  <2>2. ASSUME NEW x \in Handles, keyring[x] # 0
        PROVE  StoredKey(x)
    <3>1. kind # "none" /\ x = h
      BY <1>6, <2>2
    <3>2. CASE kind = "edge-device"
      <4>1. x[1] = "edge-device" /\ x[2] = g
        BY <1>4, <3>1, <3>2, HandleFacts
      <4> QED BY <1>14, <3>2, <4>1 DEF StoredKey
    <3>3. CASE keycloak
      <4>1. x[1] = "human" /\ x[2] = g
        BY <1>4, <1>17, <3>1, <3>3, HandleFacts
      <4> QED BY <1>16, <3>3, <4>1 DEF StoredKey
    <3> QED BY <1>17, <3>1, <3>2, <3>3
  <2> QED BY <2>1, <2>2 DEF Owned, Live
<1> QED BY <1>12, <1>18, <1>20, <1>21, <1>23, <1>24, <1>25 DEF StoreInv

\* The invariant holds.
LEMMA StoreHolds == CredSpec => []StoreInv
<1>1. CredInit => StoreInv
  BY StoreInit
<1>2. StoreInv /\ [CredNext]_credVars => StoreInv'
  BY StoreStep
<1> QED BY <1>1, <1>2, PTL DEF CredSpec

\* The documents are sound however commands, crashes and bd's logins interleave:
\* everything cached or enrolled is of the login the document carries, a stored
\* session is never left with another's key unless a write was cut between the two
\* stores, and exactly the login last committed is in force (store.Update,
\* store.Transact, newSession, cacheMintedEIA).
THEOREM DocumentsSound == CredSpec => []CredInv
<1>1. StoreInv => CredInv
  BY SoundFrom
<1> QED BY <1>1, StoreHolds, PTL

\* A command is told to sign in again only for a token that was revoked or lost
\* or a root that ended, fails only for a fault it met, and never sends a changing
\* request to a second origin after one was reached (ensureHumanCredential,
\* mintEIA, mintEIAWithEdge, mayCrossOrigin).
THEOREM CommandsAreHonest == CredSpec => []CommandsHonest
<1>1. StoreInv => CommandsHonest
  BY HonestFrom
<1> QED BY <1>1, StoreHolds, PTL

\* Every live cli-edge root and every private key in the credential store belongs
\* to the documents or to a command that will commit, revoke or forget it, unless a
\* kill, a lost revocation, bd's login or a logout racing a login left it behind
\* (orphanedBy, retireEdgeSession, the revocation after a failed commit).
THEOREM CredentialsAccounted == CredSpec => []NothingStranded
<1>1. StoreInv => NothingStranded
  BY AccountedFrom
<1> QED BY <1>1, StoreHolds, PTL
==============================================================================
