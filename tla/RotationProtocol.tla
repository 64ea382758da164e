--------------------------- MODULE RotationProtocol ---------------------------
(***************************************************************************)
(* A client identity (client/sih_client/identity.py and session.py) and    *)
(* the server's view of it (tunnel2.py on top of the registry) over one    *)
(* connection that may break or answer late.  Both sides run the engine of *)
(* RotationOps on their own copy of the credentials; the client mirrors a  *)
(* transition after the server's answer.                                   *)
(*                                                                         *)
(* Abstractions: the registry's transition is one step here (Registry      *)
(* looks inside it); both clocks advance together, since the engines only  *)
(* compare times of their own clock; ciphertexts are the version of the    *)
(* key they are sealed for; a chunk, a read and a write are one operation, *)
(* "relay".                                                                *)
(***************************************************************************)
EXTENDS RotationOps, Sequences

CONSTANTS Timeout,     \* the socket timeout of connect()
          MaxTime,     \* bound on the clock
          LastSubmit,  \* bound on the time of the last submit of a successor
          MaxQueue,    \* bound on the frames in flight
          MaxFaults,   \* bound on the calls that time out or lose their connection
          ServerKeys,  \* bound on the version of the server's own credential
          Restarts     \* whether a later session may be a new object

ASSUME ProtocolAssumption == /\ Timeout \in Nat /\ MaxTime \in Nat \ {0} /\ LastSubmit \in Nat
                             /\ MaxQueue \in Nat \ {0}
                             /\ MaxFaults \in Nat /\ ServerKeys \in Nat \ {0}
                             /\ Restarts \in BOOLEAN

VARIABLES server,     \* the registry's rows for the identity
          serverKey,  \* version of the server's ACTIVE credential
          client,     \* ClientIdentity._engine
          enrolled,   \* ClientIdentity._enrolled
          file,       \* client_identity.json
          pinned,     \* ServerKeyState.version, 0 before it is set
          link,       \* the connection: "down" or "up"
          requests, replies,   \* frames in flight on it
          orphans,    \* requests of broken connections the server may yet read
          waiting,    \* the call the client is in, or "none"
          sentAt, faults, now

serverVars == <<server, serverKey>>
clientVars == <<client, enrolled, file, pinned>>
linkVars   == <<link, requests, replies, orphans, faults>>
vars == <<serverVars, clientVars, linkVars, waiting, sentAt, now>>

Ops     == {"enroll", "submit", "checkpoint", "rollback", "relay"}
Request == [op : Ops, signer : 0 .. MaxVersion, key : 0 .. ServerKeys, v : 0 .. MaxVersion]
Reply   == [op : Ops, ok : BOOLEAN, seal : 0 .. MaxVersion, key : 0 .. ServerKeys]
File    == [creds : Engines, enrolled : BOOLEAN]

Init == /\ server = EmptyEngine /\ serverKey = 1
        /\ client = EmptyEngine /\ enrolled = FALSE
        /\ file = [creds |-> EmptyEngine, enrolled |-> FALSE]
        /\ pinned = 0
        /\ link = "down" /\ requests = <<>> /\ replies = <<>> /\ orphans = {}
        /\ waiting = "none" /\ sentAt = 0 /\ faults = 0
        /\ now = 1

-------------------------------------------------------------------------------

\* Mutant of Save: the flag is written, the credentials are not.
SaveFlag == file' = [file EXCEPT !.enrolled = enrolled']

\* _save: both the engine and the enrolled flag are written, atomically.
Save == file' = [creds |-> client', enrolled |-> enrolled']

\* The call in progress ends, with a result or an exception.
CallEnds == waiting' = "none" /\ sentAt' = 0

Send(op, signer, key, v) ==
  /\ requests' = Append(requests, [op |-> op, signer |-> signer, key |-> key, v |-> v])
  /\ waiting' = op
  /\ sentAt' = now

\* connect, on the same session object or a new one: the identity is loaded
\* from its file, or made and saved, and enrolled if it is not yet.
Connect(new) ==
  /\ link = "down" /\ waiting = "none"
  /\ new => Restarts
  /\ link' = "up"
  /\ client' = IF file.creds = EmptyEngine THEN Provisioned(EmptyEngine, 1, now)
                                          ELSE file.creds
  /\ enrolled' = file.enrolled
  /\ Save
  /\ pinned' = IF new THEN 0 ELSE pinned
  /\ IF enrolled' THEN UNCHANGED <<requests, waiting, sentAt>> ELSE Send("enroll", 0, 0, 1)
  /\ UNCHANGED <<serverVars, replies, orphans, faults, now>>

Ready == /\ link = "up" /\ waiting = "none"
         /\ Len(requests) + Len(replies) < MaxQueue
         /\ Held(client, "ACTIVE") # {}

Current == First(client, "ACTIVE")

\* generate_successor: one more than the active version, which the engine
\* wants to be one more than every version.
Successor == Current + 1

\* rotate, up to the answer.  The successor is saved before it is sent, and is
\* not sent at all when the session holds no server key to seal it for.
SendSubmit ==
  /\ Ready /\ now <= LastSubmit /\ Successor \in Versions
  /\ CanSubmit(client, Successor, Current, TRUE, now)
  /\ client' = Submitted(client, Successor, now)
  /\ UNCHANGED enrolled /\ Save
  /\ IF pinned = 0 THEN UNCHANGED <<requests, waiting, sentAt>>
                   ELSE Send("submit", Current, pinned, Successor)
  /\ UNCHANGED <<serverVars, pinned, link, replies, orphans, faults, now>>

\* checkpoint_rotation, rollback_rotation and request.
SendOther(op) ==
  /\ Ready /\ pinned # 0
  /\ Send(op, Current, pinned, 0)
  /\ UNCHANGED <<serverVars, clientVars, link, replies, orphans, faults, now>>

-------------------------------------------------------------------------------

Authentic(r) == r.op = "enroll" \/ (r.signer # 0 /\ Usable(server, r.signer, now))
Opened(r)    == r.op = "enroll" \/ r.key = serverKey

\* The transition the registry is asked for, and whether it is granted.  The
\* identity is enrolled once: its token is spent.
Granted(r) ==
  CASE r.op = "enroll"     -> Known(server) = {}
    [] r.op = "submit"     -> CanSubmit(server, r.v, r.signer, TRUE, now)
    [] r.op = "checkpoint" -> CanPromote(server, now)
    [] r.op = "rollback"   -> CanRollBack(server)
    [] r.op = "relay"      -> TRUE

Effect(r) ==
  CASE r.op = "enroll"     -> Provisioned(server, r.v, now)
    [] r.op = "submit"     -> Submitted(server, r.v, now)
    [] r.op = "checkpoint" -> Promoted(server, now)
    [] r.op = "rollback"   -> RolledBack(server)
    [] r.op = "relay"      -> server

Served(r) == Authentic(r) /\ Opened(r)

\* Only the answer to an enrollment carries the server's key: the fields of a
\* relay answer that would announce a new one are left at 0.
Answer(r, ok) == [op |-> r.op, ok |-> ok, seal |-> r.signer,
                  key |-> IF r.op = "enroll" /\ ok THEN serverKey ELSE 0]

\* The server reads a request and answers it.  A relay request that does not
\* authenticate is answered with an error.
Handle ==
  /\ requests # <<>>
  /\ LET r  == Head(requests)
         ok == Authentic(r) /\ Granted(r)
     IN  /\ Served(r) \/ (r.op = "relay" /\ ~Authentic(r))
         /\ server' = IF ok THEN Effect(r) ELSE server
         /\ replies' = Append(replies, Answer(r, ok))
  /\ requests' = Tail(requests)
  /\ UNCHANGED <<serverKey, clientVars, link, orphans, faults, waiting, sentAt, now>>

\* Any other request ends the connection's thread, and the client's call.
Refuse ==
  /\ requests # <<>>
  /\ LET r == Head(requests) IN ~Served(r) /\ (r.op = "relay" => Authentic(r))
  /\ link' = "down" /\ requests' = <<>> /\ replies' = <<>>
  /\ CallEnds
  /\ UNCHANGED <<serverVars, clientVars, orphans, faults, now>>

\* A connection that broke still has a thread, which reads what had arrived.
HandleOrphan(r) ==
  /\ server' = IF Served(r) /\ Granted(r) THEN Effect(r) ELSE server
  /\ orphans' = orphans \ {r}
  /\ UNCHANGED <<serverKey, clientVars, link, requests, replies, faults, waiting, sentAt, now>>

\* The server promotes its own successor (ServerIdentity.maybe_rotate).
ServerRotates ==
  /\ serverKey < ServerKeys
  /\ serverKey' = serverKey + 1
  /\ UNCHANGED <<server, clientVars, linkVars, waiting, sentAt, now>>

-------------------------------------------------------------------------------

\* ClientIdentity.checkpoint: an outlived successor is marked in memory only.
MirrorCheckpoint ==
  \/ /\ CanPromote(client, now)
     /\ client' = Promoted(client, now)
     /\ Save
  \/ /\ SuccessorOutlived(client, now)
     /\ client' = MarkedOutlived(client)
     /\ UNCHANGED file
  \/ /\ ~CanPromote(client, now) /\ ~SuccessorOutlived(client, now)
     /\ UNCHANGED <<client, file>>

\* ClientIdentity.rollback raises when nothing is validating.
MirrorRollback ==
  IF CanRollBack(client) THEN client' = RolledBack(client) /\ Save
                         ELSE UNCHANGED <<client, file>>

\* Mutant of Confirmed: the status of the answer is not looked at.
ConfirmedAnyway(a) == a.op \in {"submit", "checkpoint"}

\* Mutant of Confirmed: the answer to a checkpoint request is not mirrored.
ConfirmedOnSubmit(a) == a.op = "submit" /\ a.ok

Confirmed(a) == a.op \in {"submit", "checkpoint"} /\ a.ok

\* Mutant of GivenUp: a refused checkpoint is taken for a refused successor.
GivenUpTooSoon(a) == \/ a.op = "rollback" /\ a.ok
                     \/ a.op \in {"submit", "checkpoint"} /\ ~a.ok

GivenUp(a) == \/ a.op = "rollback" /\ a.ok
              \/ a.op = "submit" /\ ~a.ok

\* What each call does with its answer.  A rejected submit is rolled back, an
\* accepted one is checkpointed at once: too early, so it only stays.
Mirror(a) ==
  /\ pinned' = IF a.op \in {"enroll", "relay"} /\ a.key # 0 THEN a.key ELSE pinned
  /\ enrolled' = (enrolled \/ (a.op = "enroll" /\ a.ok))
  /\ \/ Confirmed(a) /\ MirrorCheckpoint
     \/ GivenUp(a) /\ MirrorRollback
     \/ a.op = "enroll" /\ a.ok /\ UNCHANGED client /\ Save
     \/ /\ ~Confirmed(a) /\ ~GivenUp(a) /\ ~(a.op = "enroll" /\ a.ok)
        /\ UNCHANGED <<client, file>>

\* The client reads the next frame as its answer.  It looks at the type of a
\* control frame and at the key the answer is sealed for, at nothing else: the
\* answer to an earlier call of the same type, late, is taken for this one's.
Receive ==
  /\ waiting # "none" /\ replies # <<>>
  /\ LET a == Head(replies)
     IN  IF /\ a.op = waiting
            /\ a.op # "enroll" => a.seal = Current
         THEN Mirror(a)
         ELSE UNCHANGED clientVars
  /\ replies' = Tail(replies)
  /\ CallEnds
  /\ UNCHANGED <<serverVars, link, requests, orphans, faults, now>>

\* The call raises; the connection stays, and its answer may yet come.
ClientTimeout ==
  /\ waiting # "none" /\ now >= sentAt + Timeout
  /\ faults < MaxFaults
  /\ faults' = faults + 1
  /\ CallEnds
  /\ UNCHANGED <<serverVars, clientVars, link, requests, replies, orphans, now>>

\* The client closes the connection between two calls, or loses it during one.
Disconnect ==
  /\ link = "up"
  /\ faults' = IF waiting = "none" THEN faults ELSE faults + 1
  /\ faults' <= MaxFaults
  /\ link' = "down"
  /\ orphans' = orphans \cup {requests[i] : i \in 1 .. Len(requests)}
  /\ requests' = <<>> /\ replies' = <<>>
  /\ CallEnds
  /\ UNCHANGED <<serverVars, clientVars, now>>

\* A call never lasts longer than the socket timeout.  (settimeout bounds each
\* recv of it; an answer comes in one piece here.)
Tick ==
  /\ now < MaxTime
  /\ waiting # "none" => now < sentAt + Timeout
  /\ now' = now + 1
  /\ UNCHANGED <<serverVars, clientVars, linkVars, waiting, sentAt>>

ClientNext == \/ \E new \in BOOLEAN : Connect(new)
              \/ SendSubmit
              \/ \E op \in {"checkpoint", "rollback", "relay"} : SendOther(op)
              \/ Receive
              \/ ClientTimeout
              \/ Disconnect

ServerNext == \/ Handle
              \/ Refuse
              \/ \E r \in orphans : HandleOrphan(r)
              \/ ServerRotates

Next == ClientNext \/ ServerNext \/ Tick

Spec == Init /\ [][Next]_vars

\* The server reads, the client reads and reconnects, and its scheduler keeps
\* asking for the promotion.
Fairness == /\ WF_vars(Tick)
            /\ WF_vars(Handle) /\ WF_vars(Refuse)
            /\ WF_vars(Receive) /\ WF_vars(ClientTimeout)
            /\ WF_vars(Connect(FALSE))
            /\ SF_vars(SendOther("checkpoint"))

FairSpec == Spec /\ Fairness

-------------------------------------------------------------------------------

TypeOK == /\ server \in Engines /\ client \in Engines
          /\ serverKey \in 1 .. ServerKeys /\ pinned \in 0 .. ServerKeys
          /\ enrolled \in BOOLEAN /\ file \in File
          /\ link \in {"down", "up"}
          /\ requests \in Seq(Request) /\ replies \in Seq(Reply)
          /\ Len(requests) + Len(replies) <= MaxQueue
          /\ orphans \subseteq Request
          /\ waiting \in Ops \cup {"none"}
          /\ sentAt \in 0 .. MaxTime /\ faults \in 0 .. MaxFaults /\ now \in 1 .. MaxTime

\* The client never uses a credential the server has not promoted, whatever
\* answers are lost, late or taken for one another.
ClientNeverAhead ==
  enrolled => \A v \in Held(client, "ACTIVE") : server[v].status \notin {"ABSENT", "VALIDATING"}

\* Whether a window lets its owner in: its active credential is one the server
\* authenticates, unless the owner itself holds it to have expired.
LetIn(window) ==
  \E v \in Held(window, "ACTIVE") : Expired(window[v], now) \/ Usable(server, v, now)

\* An answer lost at any point, or a stop between any two steps, locks nobody
\* out: what the client holds, and what its file holds for the next start, is
\* authenticated as long as the client may itself use it.
NeverLockedOut == /\ enrolled => LetIn(client)
                  /\ file.enrolled => LetIn(file.creds)

\* A successor the client has given up is never put into use by the server.
RolledBackTogether ==
  \A v \in Versions :
    (client[v].status = "TERMINATED" /\ client[v].activation = NoTime)
      => server[v].status \notin {"VALIDATING", "ACTIVE"}

UnderWay(v) == client[v].status = "VALIDATING" /\ server[v].status # "ABSENT"

\* The client has decided about its successor, or can ask no more: its own
\* credential has expired, or the server's key is not the one it seals for.
Decided(v) == \/ client[v].status # "VALIDATING"
              \/ \A a \in Held(client, "ACTIVE") : Expired(client[a], now)
              \/ pinned # serverKey

\* A rotation under way is decided on the client's side too, as long as no call
\* has timed out or lost its connection.
RotationCompletes == \A v \in Versions : UnderWay(v) ~> (Decided(v) \/ faults > 0)

\* A retry, sent after the server had promoted the client's successor, is answered.
Retried(v) == /\ UnderWay(v) /\ server[v].status = "ACTIVE" /\ server[v].activation < sentAt
              /\ waiting = "checkpoint" /\ replies # <<>>

\* "returns True when promoted, False when the window has not closed (the
\* scheduler retries)" (session.py:207-209): once a retry that came after the
\* server's promotion is answered, the client decides about its successor, at that
\* answer or at a later one, whatever became of the answer to the promotion.
RetriesDecide == \A v \in Versions : Retried(v) ~> client[v].status # "VALIDATING"

\* After a rollback "a replacement can subsequently be generated"
\* (test_credential_state.py:160).
ReplacementPossible ==
  (Held(client, "ACTIVE") # {} /\ Held(client, "VALIDATING") = {})
    => Follows(Successor, client)
==============================================================================
