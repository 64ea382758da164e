------------------------------- MODULE Registry -------------------------------
(***************************************************************************)
(* CredentialRegistry (server/sih_server/registry.py) for one identity:    *)
(* the credential rows, the identity row and the enrollment tokens of the  *)
(* database, and the server threads that work on them.                     *)
(*                                                                         *)
(* A transition loads every row into a RotationEngine (one step) and later *)
(* writes every row of that engine back and commits (another step).        *)
(* Nothing excludes two threads from being between the two at once.        *)
(* enroll is two such transactions, one after the other.                   *)
(***************************************************************************)
EXTENDS RotationOps

CONSTANTS Threads,    \* connection threads of the server
          Tokens,     \* tokens that can be issued
          TokenTTL,   \* ttl passed to issue_token
          MaxTime     \* bound on the clock

ASSUME RegistryAssumption == TokenTTL \in Nat /\ MaxTime \in Nat /\ Tokens # {}

VARIABLES creds,      \* rows of table credentials
          enrolled,   \* the identity has a row in clients (or proxies)
          tokens,     \* rows of table enrollment_tokens
          pc,         \* where each thread is in its call
          local,      \* the engine each thread has loaded
          job,        \* the arguments each thread carries
          overlapped, \* history: two threads have been in calls at once
          now

vars == <<creds, enrolled, tokens, pc, local, job, overlapped, now>>

Purposes == {"NONE", "ENROLL", "RECOVER"}
Token    == [purpose : Purposes, bound : BOOLEAN, expires : Nat, used : BOOLEAN]
NoToken  == [purpose |-> "NONE", bound |-> FALSE, expires |-> 0, used |-> FALSE]

\* version: the credential being inserted, 0 when the call inserts none.
\* at: the time enroll read when it was called.
Job   == [purpose : Purposes, token : Tokens, version : 0 .. MaxVersion, at : Nat]
NoJob == [purpose |-> "NONE", token |-> CHOOSE k \in Tokens : TRUE,
          version |-> 0, at |-> 0]

Init == /\ creds = EmptyEngine
        /\ enrolled = FALSE
        /\ tokens = [k \in Tokens |-> NoToken]
        /\ pc = [t \in Threads |-> "idle"]
        /\ local = [t \in Threads |-> EmptyEngine]
        /\ job = [t \in Threads |-> NoJob]
        /\ overlapped = FALSE
        /\ now = 1

-------------------------------------------------------------------------------

\* The thread's call is over, normally or with an error to its peer.
Done(t) == /\ pc' = [pc EXCEPT ![t] = "idle"]
           /\ local' = [local EXCEPT ![t] = EmptyEngine]
           /\ job' = [job EXCEPT ![t] = NoJob]

\* issue_token: a RECOVER token is bound to an identity, this one or another.
IssueToken(k, purpose, bound) ==
  /\ tokens[k] = NoToken
  /\ purpose = "ENROLL" => ~bound
  /\ tokens' = [tokens EXCEPT ![k] = [purpose |-> purpose, bound |-> bound,
                                      expires |-> now + TokenTTL, used |-> FALSE]]
  /\ UNCHANGED <<creds, enrolled, pc, local, job, now>>

\* The checks of enroll's first transaction, on what the thread reads.
\* Mutant of TokenAccepted: used_at is not looked at.
TokenAcceptedAgain(tok) ==
  /\ tok.purpose # "NONE" /\ tok.expires >= now
  /\ tok.purpose = "ENROLL" => ~enrolled /\ Known(creds) = {}
  /\ tok.purpose = "RECOVER" => tok.bound /\ enrolled /\ Known(creds) # {}

TokenAccepted(tok) ==
  /\ tok.purpose # "NONE" /\ ~tok.used /\ tok.expires >= now
  /\ tok.purpose = "ENROLL" => ~enrolled /\ Known(creds) = {}
  /\ tok.purpose = "RECOVER" => tok.bound /\ enrolled /\ Known(creds) # {}

ReadToken(t, k, v) ==
  /\ pc[t] = "idle"
  /\ TokenAccepted(tokens[k])
  /\ pc' = [pc EXCEPT ![t] = "claim"]
  /\ local' = [local EXCEPT ![t] = creds]
  /\ job' = [job EXCEPT ![t] = [purpose |-> tokens[k].purpose, token |-> k,
                                version |-> v, at |-> now]]
  /\ UNCHANGED <<creds, enrolled, tokens, now>>

\* The commit of enroll's first transaction.  A recovery revokes the usable
\* credentials it has loaded; an enrollment inserts the identity row, which
\* fails when another thread has inserted it in the meantime.
\* Mutant of RevokedUsable: a recovery forgets the fallback credential.
RevokedActive(loaded) ==
  [v \in Versions |-> IF loaded[v].status = "ACTIVE"
                      THEN [loaded[v] EXCEPT !.status = "REVOKED"]
                      ELSE creds[v]]

RevokedUsable(loaded) ==
  [v \in Versions |-> IF loaded[v].status \in {"ACTIVE", "FALLBACK"}
                      THEN [loaded[v] EXCEPT !.status = "REVOKED"]
                      ELSE creds[v]]

\* Mutant of Claim: the identity row is written without its primary key.
ClaimUnchecked(t) ==
  /\ pc[t] = "claim"
  /\ enrolled' = TRUE
  /\ tokens' = [tokens EXCEPT ![job[t].token].used = TRUE]
  /\ creds' = IF job[t].purpose = "RECOVER" THEN RevokedUsable(local[t]) ELSE creds
  /\ IF job[t].purpose = "ENROLL" /\ job[t].version # 1
     THEN Done(t)
     ELSE /\ pc' = [pc EXCEPT ![t] = "provision"]
          /\ UNCHANGED <<local, job>>
  /\ UNCHANGED now

Claim(t) ==
  /\ pc[t] = "claim"
  /\ \/ /\ job[t].purpose = "ENROLL" /\ enrolled
        /\ Done(t)
        /\ UNCHANGED <<creds, enrolled, tokens>>
     \/ /\ job[t].purpose = "ENROLL" => ~enrolled
        /\ enrolled' = TRUE
        /\ tokens' = [tokens EXCEPT ![job[t].token].used = TRUE]
        /\ creds' = IF job[t].purpose = "RECOVER" THEN RevokedUsable(local[t]) ELSE creds
        /\ IF job[t].purpose = "ENROLL" /\ job[t].version # 1
           THEN Done(t)   \* VERSION_ORDER, raised after the commit
           ELSE /\ pc' = [pc EXCEPT ![t] = "provision"]
                /\ UNCHANGED <<local, job>>
  /\ UNCHANGED now

\* _apply up to the engine's answer.  When the method raises, the session is
\* closed without a commit and whatever the engine changed is dropped.
Load(t, can, after, v) ==
  IF can
  THEN /\ pc' = [pc EXCEPT ![t] = "save"]
       /\ local' = [local EXCEPT ![t] = after]
       /\ job' = [job EXCEPT ![t].version = v]
  ELSE Done(t)

LoadProvision(t) ==
  /\ pc[t] = "provision"
  /\ LET v == job[t].version
     IN  Load(t, CanProvision(creds, v), Provisioned(creds, v, job[t].at), v)
  /\ UNCHANGED <<creds, enrolled, tokens, now>>

\* Tunnel 2 hands over only requests signed by a credential that was usable
\* when it was looked up, in a transaction of its own before the transition.
Authenticate(t) ==
  /\ pc[t] = "idle"
  /\ \E v \in Versions : Usable(creds, v, now)
  /\ pc' = [pc EXCEPT ![t] = "request"]
  /\ UNCHANGED <<creds, enrolled, tokens, local, job, now>>

\* Bound: the clock can still run past the end of a credential made now.
Room == now + TotalValidity <= MaxTime

LoadSubmit(t, v, signer) ==
  /\ pc[t] = "request" /\ Room
  /\ Load(t, CanSubmit(creds, v, signer, TRUE, now), Submitted(creds, v, now), v)
  /\ UNCHANGED <<creds, enrolled, tokens, now>>

LoadCheckpoint(t) ==
  /\ pc[t] = "request"
  /\ Load(t, CanPromote(creds, now), Promoted(creds, now), 0)
  /\ UNCHANGED <<creds, enrolled, tokens, now>>

LoadRollback(t) ==
  /\ pc[t] = "request"
  /\ Load(t, CanRollBack(creds), RolledBack(creds), 0)
  /\ UNCHANGED <<creds, enrolled, tokens, now>>

LoadRevoke(t, v) ==
  /\ pc[t] = "request"
  /\ Load(t, CanRevoke(creds, v), Revoked(creds, v), 0)
  /\ UNCHANGED <<creds, enrolled, tokens, now>>

\* expire_all serves no peer; it visits the identities that have rows.
LoadExpireAll(t) ==
  /\ pc[t] = "idle"
  /\ Known(creds) # {}
  /\ Load(t, TRUE, ExpiredAll(creds, now), 0)
  /\ UNCHANGED <<creds, enrolled, tokens, now>>

\* The rest of _apply: every version of the loaded engine is written over its
\* row.  The insert of a version that another thread has inserted since either
\* finds that row and overwrites it, or violates uq_identity_version.
\* Mutant of Overlaid: the rows are replaced by those of the loaded engine.
Replaced(rows, engine) == engine

Overlaid(rows, engine) ==
  [v \in Versions |-> IF v \in Known(engine) THEN engine[v] ELSE rows[v]]

Save(t) ==
  /\ pc[t] = "save"
  /\ \/ creds' = Overlaid(creds, local[t])
     \/ /\ job[t].version \in Known(creds)
        /\ UNCHANGED creds
  /\ Done(t)
  /\ UNCHANGED <<enrolled, tokens, now>>

\* The server process stops and is started again: only the database remains.
Crash ==
  /\ \E t \in Threads : pc[t] # "idle"
  /\ pc' = [t \in Threads |-> "idle"]
  /\ local' = [t \in Threads |-> EmptyEngine]
  /\ job' = [t \in Threads |-> NoJob]
  /\ UNCHANGED <<creds, enrolled, tokens, now>>

Tick == /\ now < MaxTime
        /\ now' = now + 1
        /\ UNCHANGED <<creds, enrolled, tokens, pc, local, job>>

Enrollment ==
  \/ \E k \in Tokens, p \in Purposes \ {"NONE"}, b \in BOOLEAN : IssueToken(k, p, b)
  \/ \E t \in Threads, k \in Tokens, v \in Versions : ReadToken(t, k, v)
  \/ \E t \in Threads : Claim(t)
  \/ \E t \in Threads : LoadProvision(t)

Rotation ==
  \/ \E t \in Threads : Authenticate(t)
  \/ \E t \in Threads, v, signer \in Versions : LoadSubmit(t, v, signer)
  \/ \E t \in Threads : LoadCheckpoint(t)
  \/ \E t \in Threads : LoadRollback(t)
  \/ \E t \in Threads, v \in Versions : LoadRevoke(t, v)
  \/ \E t \in Threads : LoadExpireAll(t)

Serve == Enrollment \/ Rotation \/ (\E t \in Threads : Save(t)) \/ Crash \/ Tick

Noted == overlapped' = \/ overlapped
                       \/ \E t, u \in Threads : t # u /\ pc'[t] # "idle" /\ pc'[u] # "idle"

Next == Serve /\ Noted

Spec == Init /\ [][Next]_vars

-------------------------------------------------------------------------------

DataTyped == /\ creds \in Engines
             /\ enrolled \in BOOLEAN
             /\ tokens \in [Tokens -> Token]
             /\ pc \in [Threads -> {"idle", "claim", "provision", "request", "save"}]
             /\ local \in [Threads -> Engines]
             /\ job \in [Threads -> Job]
             /\ now \in Nat

TypeOK == DataTyped /\ overlapped \in BOOLEAN

\* As long as calls come one after the other, and however often the process
\* crashes between or inside the two transactions of enroll, the committed rows
\* move only as the abstract rotation window does, and hold one credential per
\* status of it: "exactly one ACTIVE credential (SR-04)" (credential_state.py:5).
Crowded == MaxVersion + 1

Slot(s) == CASE Held(creds, s) = {}              -> 0
             [] Cardinality(Held(creds, s)) = 1 -> First(creds, s)
             [] OTHER                            -> Crowded

Window == INSTANCE CredentialWindow WITH
            validating <- Slot("VALIDATING"),
            active     <- Slot("ACTIVE"),
            fallback   <- Slot("FALLBACK"),
            issued     <- Known(creds)

RowsImplementWindow == /\ Window!WInit
                       /\ [][overlapped' \/ Window!WNext]_(Window!wvars)

\* Between its two transactions a recovery has cut off every old credential:
\* nothing authenticates until the new one is provisioned, unless another call
\* writes back what it had loaded before.
RecoveryCutsOff ==
  \A t \in Threads :
    (pc[t] = "provision" /\ job[t].purpose = "RECOVER")
      => overlapped \/ Held(creds, "ACTIVE") \cup Held(creds, "FALLBACK") = {}

\* A token pays for one credential: what entered the window without the
\* signature of a predecessor (it never had a validation deadline) is not more
\* than the tokens spent, unless two calls have spent the same one at once.
Unsigned == {v \in Known(creds) : creds[v].deadline = NoTime}

TokensPayForCredentials ==
  overlapped \/ Cardinality(Unsigned) <= Cardinality({k \in Tokens : tokens[k].used})

\* Concurrent transitions overwrite each other's rows but never lose one: a
\* version that was committed stays known, so its number is never given again.
RowsSurvive == [][Known(creds) \subseteq Known(creds')]_vars

\* However many threads present tokens at the same time, one alone provisions
\* the first credential of the identity.
Enrolling(t) == job[t].purpose = "ENROLL" /\ pc[t] \in {"provision", "save"}

OneEnrollment == \A t, u \in Threads : Enrolling(t) /\ Enrolling(u) => t = u

\* A credential that was revoked, and whose revocation was acknowledged, stays
\* revoked (SR-30, test_credential_state.py:166).
RevocationHolds ==
  [][\A v \in Versions :
       creds[v].status = "REVOKED" => creds'[v].status = "REVOKED"]_vars
==============================================================================
