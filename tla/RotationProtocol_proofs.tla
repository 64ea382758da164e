------------------------ MODULE RotationProtocol_proofs ------------------------
(***************************************************************************)
(* What holds of a client and the server for every number of versions,     *)
(* every T, and any number of calls that time out or lose their            *)
(* connection: the two windows stay within one promotion of each other.    *)
(***************************************************************************)
EXTENDS RotationProtocol, RotationOps_proofs

\* The window cs stands at c: c is active, the version before it the fallback, older
\* ones are gone, and at most one successor was made, of which nothing is left but
\* its record if it was given up.
StandsAt(cs, c) ==
  /\ cs[c].status = "ACTIVE"
  /\ \A v \in Versions : v < c => cs[v].status = IF v = c - 1 THEN "FALLBACK" ELSE "TERMINATED"
  /\ \A v \in Versions : v = c + 1 => cs[v].status \in {"ABSENT", "VALIDATING", "TERMINATED", "EXPIRED"}
  /\ \A v \in Versions : v > c + 1 => cs[v].status = "ABSENT"
  /\ \A v \in Versions : v <= c => cs[v].activation # NoTime

\* The file is the window in memory, but for a successor marked as outlived there.
FileAt(c) ==
  /\ file.enrolled = enrolled
  /\ \A v \in Versions \ {c + 1} : file.creds[v] = client[v]
  /\ \A v \in Versions : v = c + 1 =>
       \/ file.creds[v] = client[v]
       \/ /\ client[v].status = "EXPIRED" /\ file.creds[v].status = "VALIDATING"
          /\ file.creds[v].expiration = client[v].expiration

ClientAt(c) == /\ StandsAt(client, c)
               /\ FileAt(c)
               /\ \A v \in Versions : v >= c => client[v].expiration <= now + TotalValidity
               /\ ~enrolled => c = 1 /\ pinned = 0

\* The server stands where the client stands, or one promotion further; 0 stands for
\* a server that does not know the identity yet.
ServerAt(c, a) ==
  /\ a = 0 => Known(server) = {} /\ ~enrolled
  /\ a # 0 => StandsAt(server, a) /\ a \in {c, c + 1}
  /\ a = c + 1 => client[a].status \in {"VALIDATING", "EXPIRED"}
  /\ Known(server) \subseteq Known(client)
  /\ \A v \in Known(server) : v >= c => client[v].expiration <= server[v].expiration
  /\ ~enrolled => Known(server) \subseteq {1}

Pending == {requests[i] : i \in 1 .. Len(requests)} \cup orphans
Answers == {replies[i] : i \in 1 .. Len(replies)}

Submits(r, v) == r.op = "submit" /\ r.v = v

\* A successor is submitted once, on this connection or on one that broke.
SubmittedOnce ==
  \A v \in Versions :
    /\ \A i, j \in 1 .. Len(requests) :
         Submits(requests[i], v) /\ Submits(requests[j], v) => i = j
    /\ \A r, q \in orphans : Submits(r, v) /\ Submits(q, v) => r = q
    /\ \A i \in 1 .. Len(requests) : \A r \in orphans :
         ~(Submits(requests[i], v) /\ Submits(r, v))

\* A request in flight is signed by a version the client has used, and a successor is
\* not yet known to the server while its submission is under way.
RequestAt(r, c) ==
  /\ r.op = "enroll" => r.v = 1
  /\ r.op # "enroll" => enrolled /\ r.signer <= c
  /\ r.op = "submit" =>
       r.v = r.signer + 1 /\ r.v \in Known(client) /\ server[r.v].status = "ABSENT"

PendingAt(c) == \A r \in Pending : RequestAt(r, c)

Unsubmitted(v) == server[v].status = "ABSENT" /\ \A r \in Pending : ~Submits(r, v)

\* What an answer the client may yet accept says of the server.
AnswerAt(m, c, a) ==
  /\ m.op = "enroll" => IF m.ok THEN a # 0 ELSE m.key = 0
  /\ m.op # "enroll" => enrolled /\ m.seal <= c
  /\ (m.op = "checkpoint" /\ m.ok) => a > m.seal
  /\ (m.op = "rollback" /\ m.ok /\ m.seal = c) =>
       \A v \in Versions : v = c + 1 => server[v].status = "TERMINATED"
  /\ (m.op = "submit" /\ m.seal = c) =>
       \A v \in Versions : v = c + 1 => v \in Known(client) /\ (~m.ok => Unsubmitted(v))

AnswersAt(c, a) == \A m \in Answers : AnswerAt(m, c, a)

\* A successor the client has given up.
GivenUpAt(c) ==
  \A v \in Versions : (v = c + 1 /\ client[v].status = "TERMINATED") =>
    server[v].status = "TERMINATED" \/ Unsubmitted(v)

\* The call the client is in: a submission's answer comes before the validation
\* period of the successor it is about has passed.
CallAt(c) ==
  /\ waiting \notin {"none", "enroll"} => enrolled
  /\ waiting = "submit" => \E v \in Versions : /\ v = c + 1 /\ client[v].status = "VALIDATING"
                                              /\ client[v].deadline = sentAt + ValidationPeriod
  /\ waiting # "none" => now <= sentAt + Timeout

PairedAt(c, a) == /\ ClientAt(c) /\ ServerAt(c, a)
                  /\ SubmittedOnce /\ PendingAt(c) /\ AnswersAt(c, a)
                  /\ GivenUpAt(c) /\ CallAt(c)

Unborn == /\ client = EmptyEngine /\ server = EmptyEngine
          /\ file = [creds |-> EmptyEngine, enrolled |-> FALSE] /\ ~enrolled /\ pinned = 0
          /\ link = "down" /\ requests = <<>> /\ replies = <<>> /\ orphans = {}
          /\ waiting = "none"

PairInv == Unborn \/ \E c \in Versions, a \in 0 .. MaxVersion : PairedAt(c, a)

-------------------------------------------------------------------------------

\* The engines are windows, the frames and the call well formed, and a connection
\* that is down carries nothing.
EnginesOK == Windowed(server) /\ Windowed(client) /\ Windowed(file.creds)
FlagsOK   == /\ serverKey \in 1 .. ServerKeys /\ pinned \in 0 .. ServerKeys
             /\ enrolled \in BOOLEAN /\ file \in File
             /\ link \in {"down", "up"} /\ faults \in 0 .. MaxFaults
FramesOK  == /\ requests \in Seq(Request) /\ replies \in Seq(Reply) /\ orphans \subseteq Request
             /\ Len(requests) + Len(replies) <= MaxQueue
             /\ link = "down" => requests = <<>> /\ replies = <<>> /\ waiting = "none"
TimesOK   == waiting \in Ops \cup {"none"} /\ sentAt \in 0 .. MaxTime /\ now \in 1 .. MaxTime

TypeInv == EnginesOK /\ FlagsOK /\ FramesOK /\ TimesOK

LEMMA TypeInvSuffices == TypeInv => TypeOK
  BY DEF TypeInv, TypeOK, EnginesOK, FlagsOK, FramesOK, TimesOK, Windowed

LEMMA EmptyWindowed == EmptyEngine \in Engines /\ Windowed(EmptyEngine) /\ Known(EmptyEngine) = {}
<1>1. EmptyEngine \in Engines
  BY DEF EmptyEngine, Engines, Absent, Credential, Statuses, NoTime
<1>2. Known(EmptyEngine) = {} /\ \A s \in WindowStatuses : Held(EmptyEngine, s) = {}
  BY DEF EmptyEngine, Absent, Held, Known, WindowStatuses
<1> QED BY <1>1, <1>2 DEF Windowed, OneEach, InOrder, WindowStatuses

\* Version 1 of an engine that knows no version.
LEMMA FirstProvisioned ==
  ASSUME NEW cs, Windowed(cs), Known(cs) = {}, NEW v \in 0 .. MaxVersion, NEW t \in Nat
  PROVE  Windowed(Provisioned(cs, v, t))
<1>1. CASE v \in Versions
  <2>1. CanProvision(cs, v)
    BY DEF CanProvision, Known, Held
  <2>2. WindowMove(cs, Provisioned(cs, v, t))
    BY <1>1, <2>1, ProvisionMoves DEF Windowed, WindowMove, WindowStatuses
  <2> QED BY <1>1, <2>2, TransitionTypes, MoveKeepsWindow DEF Windowed
<1>2. CASE v \notin Versions
  <2>1. Provisioned(cs, v, t) = cs
    BY <1>2 DEF Provisioned, Windowed, Engines
  <2> QED BY <2>1
<1> QED BY <1>1, <1>2

LEMMA SubmitWindowed ==
  ASSUME NEW cs, Windowed(cs), NEW v \in 0 .. MaxVersion, NEW signer, NEW t \in Nat,
         CanSubmit(cs, v, signer, TRUE, t)
  PROVE  Windowed(Submitted(cs, v, t))
<1>1. v \in Versions
  BY RotationAssumption DEF CanSubmit, Follows, Known, Versions
<1>2. WindowMove(cs, Submitted(cs, v, t))
  BY <1>1, SubmitMoves DEF Windowed, WindowMove, WindowStatuses
<1> QED BY <1>1, <1>2, TransitionTypes, MoveKeepsWindow DEF Windowed

LEMMA PromoteWindowed ==
  ASSUME NEW cs, Windowed(cs), NEW t \in Nat, CanPromote(cs, t)
  PROVE  Windowed(Promoted(cs, t))
<1>1. WindowMove(cs, Promoted(cs, t))
  BY PromoteMoves DEF WindowMove
<1> QED BY <1>1, PromotedType, MoveKeepsWindow DEF Windowed

LEMMA OutWindowed ==
  ASSUME NEW cs, Windowed(cs), CanRollBack(cs)
  PROVE  Windowed(RolledBack(cs)) /\ Windowed(MarkedOutlived(cs))
<1>1. WindowMove(cs, RolledBack(cs)) /\ WindowMove(cs, MarkedOutlived(cs))
  BY OthersMove DEF WindowMove
<1>2. RolledBack(cs) \in Engines /\ MarkedOutlived(cs) \in Engines
  BY DEF RolledBack, MarkedOutlived, WithStatus, Windowed, Engines, Credential, Statuses, RetiredStatuses
<1> QED BY <1>1, <1>2, MoveKeepsWindow

\* The credential a client signs with is one it holds.
LEMMA CurrentHeld ==
  ASSUME NEW cs, Windowed(cs), Held(cs, "ACTIVE") # {}
  PROVE  First(cs, "ACTIVE") \in Versions /\ cs[First(cs, "ACTIVE")].status = "ACTIVE"
<1>1. PICK v \in Held(cs, "ACTIVE") : TRUE
  OBVIOUS
<1>2. First(cs, "ACTIVE") = v
  BY <1>1, FirstOfOne DEF Windowed, OneEach, WindowStatuses
<1> QED BY <1>1, <1>2 DEF Held

LEMMA EffectWindowed ==
  ASSUME TypeInv, NEW r \in Request, Granted(r)
  PROVE  Windowed(Effect(r))
<1>1. r.op \in Ops /\ r.v \in 0 .. MaxVersion /\ now \in Nat /\ Windowed(server)
  BY ProtocolAssumption DEF Request, TypeInv, TimesOK, EnginesOK
<1>2. CASE r.op = "enroll"
  BY <1>1, <1>2, FirstProvisioned DEF Granted, Effect
<1>3. CASE r.op = "submit"
  BY <1>1, <1>3, SubmitWindowed DEF Granted, Effect
<1>4. CASE r.op = "checkpoint"
  BY <1>1, <1>4, PromoteWindowed DEF Granted, Effect
<1>5. CASE r.op = "rollback"
  BY <1>1, <1>5, OutWindowed DEF Granted, Effect
<1>6. CASE r.op = "relay"
  BY <1>1, <1>6 DEF Effect
<1> QED BY <1>1, <1>2, <1>3, <1>4, <1>5, <1>6 DEF Ops

LEMMA EmptyFits ==
  TypeInv /\ requests = <<>> /\ replies = <<>> => Len(requests) + Len(replies) < MaxQueue
  BY ProtocolAssumption

LEMMA SendFits ==
  ASSUME TypeInv, NEW op \in Ops, NEW signer \in 0 .. MaxVersion, NEW key \in 0 .. ServerKeys,
         NEW v \in 0 .. MaxVersion, Len(requests) + Len(replies) < MaxQueue,
         Send(op, signer, key, v)
  PROVE  /\ requests' \in Seq(Request) /\ Len(requests') + Len(replies) <= MaxQueue
         /\ waiting' \in Ops \cup {"none"} /\ sentAt' \in 0 .. MaxTime
<1> DEFINE r == [op |-> op, signer |-> signer, key |-> key, v |-> v]
<1>1. r \in Request
  BY DEF Request
<1>2. requests \in Seq(Request) /\ replies \in Seq(Reply) /\ requests' = Append(requests, r)
  BY DEF TypeInv, FramesOK, Send
<1> HIDE DEF r
<1>3. requests' \in Seq(Request) /\ Len(requests') = Len(requests) + 1
  BY <1>1, <1>2
<1>4. Len(requests) \in Nat /\ Len(replies) \in Nat
  BY <1>2
<1>5. Len(requests') + Len(replies) <= MaxQueue
  BY <1>3, <1>4, ProtocolAssumption
<1> QED BY <1>3, <1>5 DEF Send, TypeInv, TimesOK

LEMMA TypeInit == Init => TypeInv
<1> SUFFICES ASSUME Init PROVE TypeInv
  OBVIOUS
<1>1. EnginesOK
  BY EmptyWindowed DEF Init, EnginesOK
<1>2. FlagsOK
  <2>1. enrolled \in BOOLEAN
    <3>1. enrolled = FALSE
      BY DEF Init
    <3> QED BY <3>1
  <2>2. file = [creds |-> EmptyEngine, enrolled |-> enrolled]
    BY DEF Init
  <2>3. file \in File
    BY <2>1, <2>2, EmptyWindowed DEF File
  <2>4. /\ serverKey \in 1 .. ServerKeys /\ pinned \in 0 .. ServerKeys
        /\ link \in {"down", "up"} /\ faults \in 0 .. MaxFaults
    <3>1. serverKey = 1 /\ pinned = 0 /\ link = "down" /\ faults = 0
      BY DEF Init
    <3> QED BY <3>1, ProtocolAssumption
  <2> QED BY <2>1, <2>3, <2>4 DEF FlagsOK
<1>3. FramesOK
  BY ProtocolAssumption DEF Init, FramesOK
<1>4. TimesOK
  BY ProtocolAssumption DEF Init, TimesOK
<1> QED BY <1>1, <1>2, <1>3, <1>4 DEF TypeInv

LEMMA ConnectTypes ==
  ASSUME TypeInv, NEW new \in BOOLEAN, Connect(new)
  PROVE  TypeInv'
<1>1. now \in Nat /\ 1 \in Versions /\ 1 \in 0 .. MaxVersion /\ 0 \in 0 .. MaxVersion
      /\ 0 \in 0 .. ServerKeys
  BY ProtocolAssumption, RotationAssumption DEF TypeInv, TimesOK, Versions
<1>2. Windowed(Provisioned(EmptyEngine, 1, now))
  BY <1>1, EmptyWindowed, FirstProvisioned
<1>3. Windowed(client')
  BY <1>2 DEF Connect, TypeInv, EnginesOK
<1>4. file' = [creds |-> client', enrolled |-> enrolled'] /\ enrolled' \in BOOLEAN
  BY DEF Connect, Save, TypeInv, FlagsOK, File
<1>5. EnginesOK'
  BY <1>3, <1>4 DEF Connect, TypeInv, EnginesOK, serverVars
<1>6. FlagsOK'
  BY <1>1, <1>3, <1>4 DEF Connect, TypeInv, FlagsOK, File, serverVars, Windowed
<1>7. Len(requests) + Len(replies) < MaxQueue
  BY EmptyFits DEF Connect, TypeInv, FramesOK
<1>8. /\ requests' \in Seq(Request) /\ Len(requests') + Len(replies) <= MaxQueue
      /\ waiting' \in Ops \cup {"none"} /\ sentAt' \in 0 .. MaxTime
  <2>1. CASE enrolled'
    BY <2>1, <1>7 DEF Connect, TypeInv, FramesOK, TimesOK
  <2>2. CASE ~enrolled'
    BY <2>2, <1>1, <1>7, SendFits DEF Connect, Ops
  <2> QED BY <2>1, <2>2
<1>9. FramesOK' /\ TimesOK'
  BY <1>8 DEF Connect, TypeInv, FramesOK, TimesOK
<1> QED BY <1>5, <1>6, <1>9 DEF TypeInv

LEMMA SubmitTypes ==
  ASSUME TypeInv, SendSubmit
  PROVE  TypeInv'
<1>1. Current \in Versions /\ Successor \in Versions /\ now \in Nat
  BY CurrentHeld, ProtocolAssumption DEF SendSubmit, Ready, Current, TypeInv, EnginesOK, TimesOK
<1>2. Current \in 0 .. MaxVersion /\ Successor \in 0 .. MaxVersion
  BY <1>1 DEF Versions
<1>3. Windowed(client')
  BY <1>1, <1>2, SubmitWindowed DEF SendSubmit, TypeInv, EnginesOK
<1>4. file' = [creds |-> client', enrolled |-> enrolled'] /\ enrolled' \in BOOLEAN
  BY DEF SendSubmit, Save, TypeInv, FlagsOK
<1>5. EnginesOK'
  BY <1>3, <1>4 DEF SendSubmit, TypeInv, EnginesOK, serverVars
<1>6. FlagsOK'
  BY <1>3, <1>4 DEF SendSubmit, TypeInv, FlagsOK, File, serverVars, Windowed
<1>7. /\ requests' \in Seq(Request) /\ Len(requests') + Len(replies) <= MaxQueue
      /\ waiting' \in Ops \cup {"none"} /\ sentAt' \in 0 .. MaxTime
  <2>1. CASE pinned = 0
    BY <2>1 DEF SendSubmit, TypeInv, FramesOK, TimesOK
  <2>2. CASE pinned # 0
    <3>1. pinned \in 0 .. ServerKeys
      BY DEF TypeInv, FlagsOK
    <3> QED BY <2>2, <3>1, <1>2, SendFits DEF SendSubmit, Ready, Ops
  <2> QED BY <2>1, <2>2
<1>8. FramesOK' /\ TimesOK'
  BY <1>7 DEF SendSubmit, Ready, TypeInv, FramesOK, TimesOK
<1> QED BY <1>5, <1>6, <1>8 DEF TypeInv

LEMMA OtherTypes ==
  ASSUME TypeInv, NEW op \in {"checkpoint", "rollback", "relay"}, SendOther(op)
  PROVE  TypeInv'
<1>1. Current \in Versions
  BY CurrentHeld DEF SendOther, Ready, Current, TypeInv, EnginesOK
<1>2. Current \in 0 .. MaxVersion /\ 0 \in 0 .. MaxVersion /\ pinned \in 0 .. ServerKeys /\ op \in Ops
  BY <1>1, RotationAssumption DEF Versions, TypeInv, FlagsOK, Ops
<1>3. /\ requests' \in Seq(Request) /\ Len(requests') + Len(replies) <= MaxQueue
      /\ waiting' \in Ops \cup {"none"} /\ sentAt' \in 0 .. MaxTime
  BY <1>2, SendFits DEF SendOther, Ready
<1>4. FramesOK' /\ TimesOK'
  BY <1>3 DEF SendOther, Ready, TypeInv, FramesOK, TimesOK
<1>5. EnginesOK' /\ FlagsOK'
  BY DEF SendOther, TypeInv, EnginesOK, FlagsOK, serverVars, clientVars
<1> QED BY <1>4, <1>5 DEF TypeInv

\* What the server answers, and what it leaves behind.
LEMMA HeadFits ==
  ASSUME TypeInv, requests # <<>>
  PROVE  /\ Head(requests) \in Request /\ Tail(requests) \in Seq(Request)
         /\ Len(Tail(requests)) + 1 = Len(requests) /\ link # "down"
  BY DEF TypeInv, FramesOK

LEMMA AnswerFits ==
  ASSUME TypeInv, NEW r \in Request, NEW ok \in BOOLEAN
  PROVE  Answer(r, ok) \in Reply
<1>1. (IF r.op = "enroll" /\ ok THEN serverKey ELSE 0) \in 0 .. ServerKeys
  BY ProtocolAssumption DEF TypeInv, FlagsOK
<1> QED BY <1>1 DEF Answer, Reply, Request

LEMMA Decisions ==
  ASSUME NEW r \in Request
  PROVE  Authentic(r) \in BOOLEAN /\ Granted(r) \in BOOLEAN
<1>1. r.op \in Ops
  BY DEF Request
<1>2. Authentic(r) \in BOOLEAN
  BY DEF Authentic
<1>3. Granted(r) \in BOOLEAN
  BY <1>1 DEF Granted, Ops, CanSubmit, CanPromote, CanRollBack
<1> QED BY <1>2, <1>3

LEMMA HandleTypes ==
  ASSUME TypeInv, Handle
  PROVE  TypeInv'
<1> DEFINE r  == Head(requests)
           ok == Authentic(r) /\ Granted(r)
<1>1. /\ r \in Request /\ Tail(requests) \in Seq(Request)
      /\ Len(Tail(requests)) + 1 = Len(requests) /\ link # "down"
  BY HeadFits DEF Handle
<1>2. /\ server' = (IF ok THEN Effect(r) ELSE server)
      /\ replies' = Append(replies, Answer(r, ok))
      /\ requests' = Tail(requests)
      /\ UNCHANGED <<serverKey, clientVars, link, orphans, faults, waiting, sentAt, now>>
  BY DEF Handle
<1>3. Answer(r, ok) \in Reply
  BY <1>1, AnswerFits, Decisions
<1>4. Windowed(server')
  BY <1>1, <1>2, EffectWindowed DEF TypeInv, EnginesOK
<1> HIDE DEF r, ok
<1>5. EnginesOK' /\ FlagsOK' /\ TimesOK'
  BY <1>2, <1>4 DEF TypeInv, EnginesOK, FlagsOK, TimesOK, clientVars
<1>6. replies' \in Seq(Reply) /\ Len(replies') = Len(replies) + 1
  BY <1>2, <1>3 DEF TypeInv, FramesOK
<1>7. Len(requests') + Len(replies') = Len(requests) + Len(replies)
  BY <1>1, <1>2, <1>6 DEF TypeInv, FramesOK
<1>8. FramesOK'
  BY <1>1, <1>2, <1>6, <1>7 DEF TypeInv, FramesOK
<1> QED BY <1>5, <1>8 DEF TypeInv

LEMMA OrphanTypes ==
  ASSUME TypeInv, NEW r \in orphans, HandleOrphan(r)
  PROVE  TypeInv'
<1>1. r \in Request
  BY DEF TypeInv, FramesOK
<1>2. Windowed(server')
  BY <1>1, EffectWindowed DEF HandleOrphan, TypeInv, EnginesOK
<1>3. EnginesOK' /\ FlagsOK' /\ TimesOK'
  BY <1>2 DEF HandleOrphan, TypeInv, EnginesOK, FlagsOK, TimesOK, clientVars
<1>4. FramesOK'
  BY DEF HandleOrphan, TypeInv, FramesOK
<1> QED BY <1>3, <1>4 DEF TypeInv

\* The steps that end a call or let time pass.
LEMMA OtherStepTypes ==
  ASSUME TypeInv, Refuse \/ ServerRotates \/ ClientTimeout \/ Disconnect \/ Tick
  PROVE  TypeInv'
<1>1. CASE Refuse
  BY <1>1, ProtocolAssumption DEF Refuse, CallEnds, serverVars, clientVars,
     TypeInv, EnginesOK, FlagsOK, FramesOK, TimesOK
<1>2. CASE ServerRotates
  BY <1>2, ProtocolAssumption DEF ServerRotates, linkVars, clientVars,
     TypeInv, EnginesOK, FlagsOK, FramesOK, TimesOK
<1>3. CASE ClientTimeout
  <2>1. FlagsOK'
    BY <1>3, ProtocolAssumption DEF ClientTimeout, serverVars, clientVars, TypeInv, FlagsOK
  <2> QED BY <1>3, <2>1, ProtocolAssumption DEF ClientTimeout, CallEnds, serverVars, clientVars,
          TypeInv, EnginesOK, FramesOK, TimesOK
<1>4. CASE Disconnect
  <2>1. FlagsOK'
    BY <1>4, ProtocolAssumption DEF Disconnect, serverVars, clientVars, TypeInv, FlagsOK
  <2>2. orphans' \subseteq Request
    BY <1>4 DEF Disconnect, TypeInv, FramesOK
  <2> QED BY <1>4, <2>1, <2>2, ProtocolAssumption DEF Disconnect, CallEnds, serverVars, clientVars,
          TypeInv, EnginesOK, FramesOK, TimesOK
<1>5. CASE Tick
  BY <1>5, ProtocolAssumption DEF Tick, serverVars, clientVars, linkVars,
     TypeInv, EnginesOK, FlagsOK, FramesOK, TimesOK
<1> QED BY <1>1, <1>2, <1>3, <1>4, <1>5

\* The client's own transitions, and the copy of them in its file.
LEMMA MirrorTypes ==
  ASSUME TypeInv, NEW a \in Reply, Mirror(a)
  PROVE  /\ Windowed(client') /\ Windowed(file'.creds) /\ file' \in File
         /\ enrolled' \in BOOLEAN /\ pinned' \in 0 .. ServerKeys
<1>1. Windowed(client) /\ Windowed(file.creds) /\ file \in File /\ now \in Nat
  BY ProtocolAssumption DEF TypeInv, EnginesOK, FlagsOK, TimesOK
<1>2. enrolled' \in BOOLEAN /\ pinned' \in 0 .. ServerKeys
  BY DEF Mirror, TypeInv, FlagsOK, Reply
<1>3. ASSUME Windowed(client'), Save
      PROVE  Windowed(file'.creds) /\ file' \in File
  BY <1>2, <1>3 DEF Save, File, Windowed
<1>4. CASE MirrorCheckpoint
  <2>1. CASE CanPromote(client, now) /\ client' = Promoted(client, now) /\ Save
    BY <1>1, <1>2, <1>3, <2>1, PromoteWindowed
  <2>2. CASE /\ SuccessorOutlived(client, now)
             /\ client' = MarkedOutlived(client) /\ UNCHANGED file
    <3>1. CanRollBack(client)
      BY <2>2 DEF SuccessorOutlived, CheckpointReached, CanRollBack
    <3> QED BY <1>1, <1>2, <2>2, <3>1, OutWindowed
  <2>3. CASE UNCHANGED <<client, file>>
    BY <1>1, <1>2, <2>3
  <2> QED BY <1>4, <2>1, <2>2, <2>3 DEF MirrorCheckpoint
<1>5. CASE MirrorRollback
  <2>1. CASE CanRollBack(client) /\ client' = RolledBack(client) /\ Save
    BY <1>1, <1>2, <1>3, <2>1, OutWindowed
  <2>2. CASE UNCHANGED <<client, file>>
    BY <1>1, <1>2, <2>2
  <2> QED BY <1>5, <2>1, <2>2 DEF MirrorRollback
<1>6. CASE UNCHANGED client /\ (Save \/ UNCHANGED file)
  BY <1>1, <1>2, <1>3, <1>6
<1> QED BY <1>4, <1>5, <1>6 DEF Mirror

LEMMA ReceiveTypes ==
  ASSUME TypeInv, Receive
  PROVE  TypeInv'
<1> DEFINE a == Head(replies)
<1>1. /\ a \in Reply /\ replies' = Tail(replies) /\ Tail(replies) \in Seq(Reply)
      /\ Len(Tail(replies)) + 1 = Len(replies) /\ link # "down"
  BY DEF Receive, TypeInv, FramesOK
<1>2. Mirror(a) \/ UNCHANGED clientVars
  BY DEF Receive
<1>3. /\ Windowed(client') /\ Windowed(file'.creds) /\ file' \in File
      /\ enrolled' \in BOOLEAN /\ pinned' \in 0 .. ServerKeys
  BY <1>1, <1>2, MirrorTypes DEF clientVars, TypeInv, EnginesOK, FlagsOK
<1> HIDE DEF a
<1>4. EnginesOK' /\ FlagsOK' /\ TimesOK'
  BY <1>3, ProtocolAssumption DEF Receive, CallEnds, serverVars, TypeInv, EnginesOK, FlagsOK, TimesOK
<1>5. FramesOK'
  <2>1. Len(requests) + Len(replies') <= MaxQueue
    BY <1>1, ProtocolAssumption DEF TypeInv, FramesOK
  <2> QED BY <1>1, <2>1 DEF Receive, TypeInv, FramesOK
<1> QED BY <1>4, <1>5 DEF TypeInv

LEMMA TypeStep == TypeInv /\ [Next]_vars => TypeInv'
<1> SUFFICES ASSUME TypeInv, [Next]_vars PROVE TypeInv'
  OBVIOUS
<1>1. CASE ClientNext
  <2>1. ASSUME NEW new \in BOOLEAN, Connect(new) PROVE TypeInv'
    BY <2>1, ConnectTypes
  <2>2. ASSUME NEW op \in {"checkpoint", "rollback", "relay"}, SendOther(op) PROVE TypeInv'
    BY <2>2, OtherTypes
  <2> QED BY <1>1, <2>1, <2>2, SubmitTypes, ReceiveTypes, OtherStepTypes DEF ClientNext
<1>2. CASE ServerNext
  BY <1>2, HandleTypes, OrphanTypes, OtherStepTypes DEF ServerNext
<1>3. CASE Tick
  BY <1>3, OtherStepTypes
<1>4. CASE UNCHANGED vars
  BY <1>4 DEF vars, serverVars, clientVars, linkVars, TypeInv, EnginesOK, FlagsOK, FramesOK, TimesOK
<1> QED BY <1>1, <1>2, <1>3, <1>4 DEF Next

\* Whatever answers are lost, late or taken for one another, both sides hold
\* well-formed engines, and no more frames are in flight than the bound.
THEOREM ProtocolTypeCorrect == Spec => []TypeOK
<1>1. Init => TypeInv
  BY TypeInit
<1>2. TypeInv /\ [Next]_vars => TypeInv'
  BY TypeStep
<1>3. TypeInv => TypeOK
  BY TypeInvSuffices
<1> QED BY <1>1, <1>2, <1>3, PTL DEF Spec

-------------------------------------------------------------------------------

\* The places of a window that stands at c.
LEMMA StandsPlaces ==
  ASSUME NEW cs, NEW c \in Versions, StandsAt(cs, c)
  PROVE  /\ Held(cs, "ACTIVE") = {c} /\ First(cs, "ACTIVE") = c
         /\ \A v \in Held(cs, "VALIDATING") : v = c + 1 /\ First(cs, "VALIDATING") = v
         /\ \A v \in Held(cs, "FALLBACK") : v = c - 1 /\ First(cs, "FALLBACK") = v
         /\ \A v \in Known(cs) : v <= c + 1
<1>1. \A v \in Versions : v < c \/ v = c \/ v = c + 1 \/ v > c + 1
  BY DEF Versions
<1>2. Held(cs, "ACTIVE") = {c}
  BY <1>1 DEF StandsAt, Held
<1>3. \A v \in Held(cs, "VALIDATING") : v = c + 1
  BY <1>1 DEF StandsAt, Held
<1>4. \A v \in Held(cs, "FALLBACK") : v = c - 1
  BY <1>1 DEF StandsAt, Held
<1>5. First(cs, "ACTIVE") = c
  BY <1>2, FirstOfOne
<1>6. \A v \in Held(cs, "VALIDATING") : First(cs, "VALIDATING") = v
  BY <1>3, FirstOfOne
<1>7. \A v \in Held(cs, "FALLBACK") : First(cs, "FALLBACK") = v
  BY <1>4, FirstOfOne
<1>8. \A v \in Known(cs) : v <= c + 1
  BY DEF StandsAt, Known, Versions
<1> QED BY <1>2, <1>3, <1>4, <1>5, <1>6, <1>7, <1>8

\* Of two windows that differ in the successor only, one that makes something of the
\* successor stands where the other stands.
LEMMA StandsStill ==
  ASSUME NEW cs, NEW ds, NEW c \in Versions, StandsAt(cs, c),
         \A v \in Versions \ {c + 1} : ds[v] = cs[v],
         \A v \in Versions : v = c + 1 =>
           ds[v].status \in {"ABSENT", "VALIDATING", "TERMINATED", "EXPIRED"}
  PROVE  StandsAt(ds, c)
<1>1. ds[c] = cs[c] /\ \A v \in Versions : (v < c \/ v <= c \/ v > c + 1) => ds[v] = cs[v]
  BY DEF Versions
<1> QED BY <1>1 DEF StandsAt

LEMMA StandsSubmitted ==
  ASSUME NEW cs \in Engines, NEW c \in Versions, StandsAt(cs, c),
         NEW v \in Versions, v = c + 1, NEW t \in Nat
  PROVE  /\ StandsAt(Submitted(cs, v, t), c)
         /\ \A w \in Versions \ {v} : Submitted(cs, v, t)[w] = cs[w]
         /\ Submitted(cs, v, t)[v].status = "VALIDATING"
         /\ Submitted(cs, v, t)[v].deadline = t + ValidationPeriod
         /\ Submitted(cs, v, t)[v].expiration = t + TotalValidity
<1>1. /\ \A w \in Versions \ {v} : Submitted(cs, v, t)[w] = cs[w]
      /\ Submitted(cs, v, t)[v].status = "VALIDATING"
      /\ Submitted(cs, v, t)[v].deadline = t + ValidationPeriod
      /\ Submitted(cs, v, t)[v].expiration = t + TotalValidity
  BY DEF Submitted, Engines
<1>2. StandsAt(Submitted(cs, v, t), c)
  BY <1>1, StandsStill
<1> QED BY <1>1, <1>2

\* A successor that leaves the window.
LEMMA StandsOut ==
  ASSUME NEW cs \in Engines, NEW c \in Versions, StandsAt(cs, c), CanRollBack(cs),
         NEW s \in {"TERMINATED", "EXPIRED"}
  PROVE  LET v  == First(cs, "VALIDATING")
             ds == WithStatus(cs, v, s)
         IN  /\ v \in Versions /\ v = c + 1 /\ cs[v].status = "VALIDATING"
             /\ StandsAt(ds, c)
             /\ \A w \in Versions \ {v} : ds[w] = cs[w]
             /\ ds[v].status = s /\ ds[v].expiration = cs[v].expiration
<1> DEFINE v  == First(cs, "VALIDATING")
           ds == WithStatus(cs, v, s)
<1>1. v \in Versions /\ v = c + 1 /\ cs[v].status = "VALIDATING"
  <2>1. PICK w \in Held(cs, "VALIDATING") : TRUE
    BY DEF CanRollBack
  <2> QED BY <2>1, StandsPlaces DEF Held
<1>2. \A w \in Versions \ {v} : ds[w] = cs[w]
  BY DEF WithStatus, Engines
<1>3. ds[v] = [cs[v] EXCEPT !.status = s] /\ cs[v] \in Credential
  BY <1>1 DEF WithStatus, Engines
<1> HIDE DEF v, ds
<1>4. ds[v].status = s /\ ds[v].expiration = cs[v].expiration
  BY <1>3 DEF Credential
<1>5. StandsAt(ds, c)
  BY <1>1, <1>2, <1>4, StandsStill
<1> QED BY <1>1, <1>2, <1>4, <1>5 DEF v, ds

\* A promotion moves the window on by one, and no expiration to an earlier time.
LEMMA StandsPromoted ==
  ASSUME NEW cs \in Engines, NEW c \in Versions, StandsAt(cs, c),
         NEW t \in Nat \ {0}, CanPromote(cs, t)
  PROVE  LET ds == Promoted(cs, t)
         IN  /\ c + 1 \in Versions /\ cs[c + 1].status = "VALIDATING"
             /\ StandsAt(ds, c + 1)
             /\ Known(ds) = Known(cs)
             /\ \A v \in Versions : cs[v].status = "ABSENT" => ds[v] = cs[v]
             /\ ds[c + 1].expiration = cs[c + 1].expiration
             /\ \A v \in Versions : ds[v].expiration >= cs[v].expiration
<1> DEFINE ds == Promoted(cs, t)
           n  == c + 1
<1>1. n \in Versions /\ cs[n].status = "VALIDATING" /\ First(cs, "VALIDATING") = n
  <2>1. PICK w \in Held(cs, "VALIDATING") : TRUE
    BY DEF CanPromote, CheckpointReached
  <2> QED BY <2>1, StandsPlaces DEF Held
<1>2. First(cs, "ACTIVE") = c /\ c \in Nat /\ n # c /\ cs[c].status = "ACTIVE"
  BY StandsPlaces DEF Versions, StandsAt
<1>3. \A v \in Versions : cs[v] \in Credential
  BY DEF Engines
<1>4. ds[n] = [cs[n] EXCEPT !.status = "ACTIVE", !.activation = t]
  BY <1>1 DEF Promoted
<1>5. ds[c] = [cs[c] EXCEPT !.status = "FALLBACK",
                            !.expiration = Later(cs[c].expiration, t + FallbackPeriod)]
  BY <1>1, <1>2 DEF Promoted
<1>6. \A v \in Versions \ {n, c} :
        ds[v] = IF cs[v].status = "FALLBACK" THEN [cs[v] EXCEPT !.status = "TERMINATED"] ELSE cs[v]
  BY <1>1, <1>2, StandsPlaces DEF Promoted, Held
<1> HIDE DEF ds
<1>7. /\ ds[n].status = "ACTIVE" /\ ds[n].activation = t
      /\ ds[n].expiration = cs[n].expiration
  BY <1>1, <1>3, <1>4 DEF Credential
<1>8. /\ ds[c].status = "FALLBACK" /\ ds[c].activation = cs[c].activation
      /\ ds[c].expiration >= cs[c].expiration
  <2>1. Later(cs[c].expiration, t + FallbackPeriod) >= cs[c].expiration
    BY <1>3, Periods DEF Later, Credential
  <2> QED BY <1>3, <1>5, <2>1 DEF Credential
<1>9. ASSUME NEW v \in Versions \ {n, c}
      PROVE  /\ ds[v].expiration = cs[v].expiration /\ ds[v].activation = cs[v].activation
             /\ cs[v].status = "FALLBACK" => ds[v].status = "TERMINATED"
             /\ cs[v].status # "FALLBACK" => ds[v] = cs[v]
  BY <1>3, <1>6 DEF Credential
<1> HIDE DEF n
<1>10. Known(ds) = Known(cs) /\ \A v \in Versions : cs[v].status = "ABSENT" => ds[v] = cs[v]
  BY <1>1, <1>2, <1>7, <1>8, <1>9 DEF Known
<1>11. \A v \in Versions : ds[v].expiration >= cs[v].expiration
  <2>1. \A v \in Versions : cs[v].expiration \in Nat
    BY <1>3 DEF Credential
  <2> QED BY <1>7, <1>8, <1>9, <2>1
<1>12. StandsAt(ds, n)
  <2>1. \A v \in Versions : v = n + 1 =>
          ds[v].status \in {"ABSENT", "VALIDATING", "TERMINATED", "EXPIRED"}
    BY <1>2, <1>9 DEF StandsAt, n
  <2>2. \A v \in Versions : v > n + 1 => ds[v].status = "ABSENT"
    BY <1>2, <1>9 DEF StandsAt, n
  <2>3. \A v \in Versions : v < n => ds[v].status = IF v = n - 1 THEN "FALLBACK" ELSE "TERMINATED"
    <3> SUFFICES ASSUME NEW v \in Versions, v < n
                 PROVE  ds[v].status = IF v = n - 1 THEN "FALLBACK" ELSE "TERMINATED"
      OBVIOUS
    <3>1. v \in Nat /\ n - 1 = c /\ (v = c \/ v < c)
      BY <1>2 DEF n, Versions
    <3>2. CASE v = c
      BY <1>8, <3>1, <3>2
    <3>3. CASE v < c
      <4>1. cs[v].status = IF v = c - 1 THEN "FALLBACK" ELSE "TERMINATED"
        BY <3>3 DEF StandsAt
      <4>2. v \notin {n, c}
        BY <1>2, <3>1, <3>3 DEF n
      <4> QED BY <1>9, <3>1, <3>3, <4>1, <4>2
    <3> QED BY <3>1, <3>2, <3>3
  <2>4. \A v \in Versions : v <= n => ds[v].activation # NoTime
    <3> SUFFICES ASSUME NEW v \in Versions, v <= n
                 PROVE  ds[v].activation # NoTime
      OBVIOUS
    <3>1. v = n \/ v = c \/ (v < c /\ v \notin {n, c})
      BY <1>2 DEF n, Versions
    <3>2. v <= c => cs[v].activation # NoTime
      BY DEF StandsAt
    <3> QED BY <1>2, <1>7, <1>8, <1>9, <3>1, <3>2 DEF NoTime, Versions
  <2> QED BY <1>7, <2>1, <2>2, <2>3, <2>4 DEF StandsAt
<1> QED BY <1>1, <1>7, <1>10, <1>11, <1>12 DEF ds, n

-------------------------------------------------------------------------------

\* How each kind of step changes what is pending, and that a successor stays
\* submitted once.
LEMMA PendingRequests ==
  TypeInv => Pending \subseteq Request /\ Answers \subseteq Reply
<1> SUFFICES ASSUME TypeInv PROVE Pending \subseteq Request /\ Answers \subseteq Reply
  OBVIOUS
<1>1. requests \in Seq(Request) /\ replies \in Seq(Reply) /\ orphans \subseteq Request
  BY DEF TypeInv, FramesOK
<1>2. \A i \in 1 .. Len(requests) : requests[i] \in Request
  BY <1>1
<1>3. \A i \in 1 .. Len(replies) : replies[i] \in Reply
  BY <1>1
<1> QED BY <1>1, <1>2, <1>3 DEF Pending, Answers

LEMMA SubmittedByOne ==
  ASSUME SubmittedOnce, NEW r \in Pending, NEW q \in Pending, NEW v \in Versions,
         Submits(r, v), Submits(q, v)
  PROVE  r = q
  BY DEF SubmittedOnce, Pending

LEMMA PendingSent ==
  ASSUME TypeInv, SubmittedOnce, NEW r, requests' = Append(requests, r), orphans' = orphans,
         \A q \in Pending : \A v \in Versions : ~(Submits(q, v) /\ Submits(r, v))
  PROVE  Pending' = Pending \cup {r} /\ SubmittedOnce'
<1>1. requests \in Seq(Request)
  BY DEF TypeInv, FramesOK
<1>2. /\ Len(requests') = Len(requests) + 1 /\ Len(requests) \in Nat
      /\ requests'[Len(requests) + 1] = r
      /\ \A i \in 1 .. Len(requests) : requests'[i] = requests[i]
  BY <1>1
<1>3. \A i \in 1 .. Len(requests') : i \in 1 .. Len(requests) \/ (i = Len(requests) + 1 /\ requests'[i] = r)
  BY <1>2
<1>4. 1 .. Len(requests) \subseteq 1 .. Len(requests') /\ Len(requests) + 1 \in 1 .. Len(requests')
  BY <1>2
<1>5. Pending' = Pending \cup {r}
  BY <1>2, <1>3, <1>4 DEF Pending
<1>6. \A i \in 1 .. Len(requests) : requests[i] \in Pending
  BY DEF Pending
<1>7. orphans \subseteq Pending
  BY DEF Pending
<1>8. ASSUME NEW v \in Versions, NEW i \in 1 .. Len(requests'), NEW j \in 1 .. Len(requests'),
             Submits(requests'[i], v), Submits(requests'[j], v)
      PROVE  i = j
  BY <1>2, <1>3, <1>6, <1>8 DEF SubmittedOnce
<1>9. ASSUME NEW v \in Versions, NEW i \in 1 .. Len(requests'), NEW q \in orphans,
             Submits(requests'[i], v), Submits(q, v)
      PROVE  FALSE
  BY <1>2, <1>3, <1>7, <1>9 DEF SubmittedOnce
<1>10. SubmittedOnce'
  BY <1>8, <1>9 DEF SubmittedOnce, Submits
<1> QED BY <1>5, <1>10

LEMMA PendingRead ==
  ASSUME TypeInv, SubmittedOnce, requests # <<>>, requests' = Tail(requests), orphans' = orphans
  PROVE  /\ Head(requests) \in Pending /\ Pending' \subseteq Pending /\ SubmittedOnce'
         /\ \A q \in Pending' : \A v \in Versions : ~(Submits(q, v) /\ Submits(Head(requests), v))
<1>1. requests \in Seq(Request)
  BY DEF TypeInv, FramesOK
<1>2. /\ Len(requests) \in Nat \ {0} /\ Len(requests') = Len(requests) - 1
      /\ Head(requests) = requests[1]
      /\ \A i \in 1 .. Len(requests') : requests'[i] = requests[i + 1]
  BY <1>1
<1>3. \A i \in 1 .. Len(requests') : i + 1 \in 1 .. Len(requests) /\ i + 1 # 1
  BY <1>2
<1>4. 1 \in 1 .. Len(requests) /\ Head(requests) \in Pending
  BY <1>2 DEF Pending
<1>5. Pending' \subseteq Pending
  BY <1>2, <1>3 DEF Pending
<1>6. \A v \in Versions, i \in 1 .. Len(requests') :
        ~(Submits(requests'[i], v) /\ Submits(Head(requests), v))
  BY <1>2, <1>3, <1>4 DEF SubmittedOnce
<1>7. \A v \in Versions, q \in orphans : ~(Submits(Head(requests), v) /\ Submits(q, v))
  BY <1>2, <1>4 DEF SubmittedOnce
<1>8. \A q \in Pending' : \A v \in Versions : ~(Submits(q, v) /\ Submits(Head(requests), v))
  BY <1>6, <1>7 DEF Pending
<1>9. ASSUME NEW v \in Versions, NEW i \in 1 .. Len(requests'), NEW j \in 1 .. Len(requests'),
             Submits(requests'[i], v), Submits(requests'[j], v)
      PROVE  i = j
  <2>1. i + 1 = j + 1
    BY <1>2, <1>3, <1>9 DEF SubmittedOnce
  <2> QED BY <2>1
<1>10. ASSUME NEW v \in Versions, NEW i \in 1 .. Len(requests'), NEW q \in orphans,
              Submits(requests'[i], v), Submits(q, v)
       PROVE  FALSE
  BY <1>2, <1>3, <1>10 DEF SubmittedOnce
<1>11. SubmittedOnce'
  BY <1>9, <1>10 DEF SubmittedOnce, Submits
<1> QED BY <1>4, <1>5, <1>8, <1>11

LEMMA PendingOrphan ==
  ASSUME SubmittedOnce, NEW r \in orphans, orphans' = orphans \ {r}, UNCHANGED requests
  PROVE  /\ r \in Pending /\ Pending' \subseteq Pending /\ SubmittedOnce'
         /\ \A q \in Pending' : \A v \in Versions : ~(Submits(q, v) /\ Submits(r, v))
<1>1. r \in Pending /\ Pending' \subseteq Pending
  BY DEF Pending
<1>2. SubmittedOnce'
  BY DEF SubmittedOnce, Submits
<1>3. \A q \in Pending' : \A v \in Versions : ~(Submits(q, v) /\ Submits(r, v))
  BY DEF SubmittedOnce, Pending
<1> QED BY <1>1, <1>2, <1>3

LEMMA PendingDropped ==
  ASSUME SubmittedOnce, requests' = <<>>, orphans' \subseteq Pending
  PROVE  Pending' \subseteq Pending /\ SubmittedOnce'
<1>1. 1 .. Len(requests') = {}
  OBVIOUS
<1>2. Pending' \subseteq Pending
  BY <1>1 DEF Pending
<1>3. \A v \in Versions : \A r, q \in orphans' : Submits(r, v) /\ Submits(q, v) => r = q
  BY SubmittedByOne
<1>4. SubmittedOnce'
  BY <1>1, <1>3 DEF SubmittedOnce, Submits
<1> QED BY <1>2, <1>4

-------------------------------------------------------------------------------

\* The server decides about request r.
Serving(r, ok) ==
  /\ r \in Pending /\ ok \in BOOLEAN /\ (ok => Granted(r))
  /\ server' = IF ok THEN Effect(r) ELSE server
  /\ UNCHANGED <<clientVars, waiting, sentAt, now>>
  /\ Pending' \subseteq Pending /\ SubmittedOnce'
  /\ \A q \in Pending' : \A v \in Versions : ~(Submits(q, v) /\ Submits(r, v))
  /\ Answers' \subseteq Answers \cup {Answer(r, ok)}

\* What the steps of the server do not touch.
LEMMA ServingFrame ==
  ASSUME NEW c \in Versions, NEW a \in 0 .. MaxVersion, PairedAt(c, a),
         NEW r, NEW ok, Serving(r, ok)
  PROVE  ClientAt(c)' /\ CallAt(c)'
<1>1. ClientAt(c)'
  BY DEF PairedAt, Serving, clientVars, ClientAt, FileAt, StandsAt
<1>2. CallAt(c)'
  BY DEF PairedAt, Serving, clientVars, CallAt
<1> QED BY <1>1, <1>2

\* A request that is refused, or a relay request, leaves the server as it was.
LEMMA ServeNothing ==
  ASSUME TypeInv, NEW c \in Versions, NEW a \in 0 .. MaxVersion, PairedAt(c, a),
         NEW r, NEW ok, Serving(r, ok), server' = server, ok => r.op = "relay"
  PROVE  PairedAt(c, a)'
<1>1. ClientAt(c)' /\ CallAt(c)'
  BY ServingFrame
<1>2. ServerAt(c, a)'
  BY DEF PairedAt, Serving, clientVars, ServerAt, StandsAt, Known
<1>3. ASSUME NEW v \in Versions, Unsubmitted(v)
      PROVE  Unsubmitted(v)'
  BY <1>3 DEF Unsubmitted, Serving, Submits
<1>4. GivenUpAt(c)'
  BY <1>3 DEF PairedAt, GivenUpAt, Serving, clientVars
<1>5. ASSUME NEW q \in Pending PROVE RequestAt(q, c)'
  BY DEF PairedAt, PendingAt, RequestAt, Serving, clientVars, Known
<1>6. PendingAt(c)'
  BY <1>5 DEF PendingAt, Serving
<1>7. ASSUME NEW m \in Answers PROVE AnswerAt(m, c, a)'
  BY <1>3 DEF PairedAt, AnswersAt, AnswerAt, Serving, clientVars, Known
<1>8. ASSUME NEW m, m = Answer(r, ok) PROVE AnswerAt(m, c, a)'
  <2>1. /\ m.op = r.op /\ m.ok = ok /\ m.seal = r.signer
        /\ ~(r.op = "enroll" /\ ok) => m.key = 0
    BY <1>8 DEF Answer
  <2>2. RequestAt(r, c) /\ r \in Pending /\ ok \in BOOLEAN
    BY DEF PairedAt, PendingAt, Serving
  <2>3. ASSUME r.op = "submit", r.signer = c, NEW v \in Versions, v = c + 1
        PROVE  v \in Known(client)' /\ Unsubmitted(v)'
    <3>1. v = r.v /\ Submits(r, v)
      BY <2>2, <2>3 DEF RequestAt, Submits
    <3>2. v \in Known(client)'
      BY <2>2, <2>3, <3>1 DEF RequestAt, Serving, clientVars, Known
    <3>3. server'[v].status = "ABSENT"
      BY <2>2, <2>3, <3>1 DEF RequestAt
    <3>4. \A q \in Pending' : ~Submits(q, v)
      BY <3>1 DEF Serving
    <3> QED BY <3>2, <3>3, <3>4 DEF Unsubmitted, Submits
  <2>4. ok => r.op # "enroll" /\ r.op # "checkpoint" /\ r.op # "rollback"
    OBVIOUS
  <2>5. r.op # "enroll" => enrolled' /\ r.signer <= c
    BY <2>2 DEF RequestAt, Serving, clientVars
  <2> QED BY <2>1, <2>2, <2>3, <2>4, <2>5 DEF AnswerAt
<1>9. AnswersAt(c, a)'
  BY <1>7, <1>8 DEF AnswersAt, Serving
<1> QED BY <1>1, <1>2, <1>4, <1>6, <1>9 DEF PairedAt, Serving

\* The first version of an identity.
LEMMA ServeEnroll ==
  ASSUME TypeInv, NEW c \in Versions, NEW a \in 0 .. MaxVersion, PairedAt(c, a),
         NEW r, Serving(r, TRUE), r.op = "enroll"
  PROVE  c = 1 /\ PairedAt(1, 1)'
<1>1. Known(server) = {} /\ r.v = 1
  BY DEF Serving, Granted, PairedAt, PendingAt, RequestAt
<1>2. a = 0
  <2>1. a # 0 => a \in Versions /\ a \in Known(server)
    BY DEF PairedAt, ServerAt, StandsAt, Known, Versions
  <2> QED BY <1>1, <2>1
<1>3. c = 1 /\ ~enrolled
  BY <1>2 DEF PairedAt, ServerAt, ClientAt
<1>4. server \in Engines /\ client \in Engines /\ now \in Nat \ {0} /\ 1 \in Versions
  BY ProtocolAssumption, RotationAssumption DEF TypeInv, EnginesOK, TimesOK, Windowed, Versions
<1>5. server' = Provisioned(server, 1, now)
  BY <1>1 DEF Serving, Effect
<1>6. /\ server'[1].status = "ACTIVE" /\ server'[1].activation = now
      /\ server'[1].expiration = now + TotalValidity
      /\ \A v \in Versions \ {1} : server'[v] = server[v] /\ server[v].status = "ABSENT"
  BY <1>1, <1>4, <1>5 DEF Provisioned, Engines, Known
<1>7. Known(server)' = {1}
  BY <1>4, <1>6 DEF Known
<1>8. ClientAt(1)' /\ CallAt(1)'
  BY <1>3, ServingFrame
<1>9. ServerAt(1, 1)'
  <2>1. StandsAt(server, 1)'
    BY <1>4, <1>6 DEF StandsAt, NoTime, Versions
  <2>2. 1 \in Known(client)'
    BY <1>4, <1>8 DEF ClientAt, StandsAt, Known
  <2>3. (client[1].expiration <= server[1].expiration)'
    <3>1. client[1].expiration <= now + TotalValidity
      BY <1>3, <1>4 DEF PairedAt, ClientAt
    <3>2. client' = client
      BY DEF Serving, clientVars
    <3> QED BY <1>6, <3>1, <3>2
  <2>4. \A v \in Known(server)' : v = 1
    BY <1>7
  <2> QED BY <1>7, <2>1, <2>2, <2>3, <2>4 DEF ServerAt
<1>10. PendingAt(1)'
  <2> SUFFICES ASSUME NEW q \in Pending PROVE RequestAt(q, 1)'
    BY DEF PendingAt, Serving
  <2>1. RequestAt(q, c)
    BY DEF PairedAt, PendingAt
  <2>2. q.op = "enroll" /\ q.v = 1
    BY <1>3, <2>1 DEF RequestAt
  <2> QED BY <2>2 DEF RequestAt
<1>11. GivenUpAt(1)'
  <2> SUFFICES ASSUME NEW v \in Versions, v = 2, client'[v].status = "TERMINATED"
               PROVE  Unsubmitted(v)'
    BY DEF GivenUpAt
  <2>1. Unsubmitted(v)
    BY <1>3, <1>6 DEF PairedAt, GivenUpAt, Serving, clientVars
  <2> QED BY <1>6, <2>1 DEF Unsubmitted, Submits, Serving
<1>12. AnswersAt(1, 1)'
  <2> SUFFICES ASSUME NEW m \in Answers \cup {Answer(r, TRUE)} PROVE AnswerAt(m, 1, 1)'
    BY DEF AnswersAt, Serving
  <2>1. m.op = "enroll" /\ (~m.ok => m.key = 0)
    <3>1. CASE m \in Answers
      BY <1>3, <3>1 DEF PairedAt, AnswersAt, AnswerAt
    <3>2. CASE m = Answer(r, TRUE)
      BY <3>2 DEF Answer
    <3> QED BY <3>1, <3>2
  <2> QED BY <2>1 DEF AnswerAt
<1> QED BY <1>3, <1>8, <1>9, <1>10, <1>11, <1>12 DEF PairedAt, Serving

\* A successor.
LEMMA ServeSubmit ==
  ASSUME TypeInv, NEW c \in Versions, NEW a \in 0 .. MaxVersion, PairedAt(c, a),
         NEW r, Serving(r, TRUE), r.op = "submit"
  PROVE  PairedAt(c, a)'
<1> DEFINE n == c + 1
<1>1. server \in Engines /\ now \in Nat /\ c \in Nat /\ n \in Nat
  BY ProtocolAssumption DEF TypeInv, EnginesOK, TimesOK, Windowed, Versions
<1>2. /\ enrolled /\ r.signer <= c /\ r.v = r.signer + 1
      /\ r.v \in Known(client) /\ r.v \in Versions /\ r \in Pending /\ Submits(r, r.v)
  BY DEF Serving, PairedAt, PendingAt, RequestAt, Known, Submits
<1>3. CanSubmit(server, r.v, r.signer, TRUE, now)
  BY DEF Serving, Granted
<1>4. a \in Versions /\ StandsAt(server, a) /\ a \in {c, c + 1}
  BY <1>2 DEF PairedAt, ServerAt, Versions
<1>5. r.signer = a /\ server[r.v].status = "ABSENT"
  <2>1. r.signer = a
    BY <1>3, <1>4, StandsPlaces DEF CanSubmit
  <2>2. server[r.v].status = "ABSENT"
    BY <1>2, <1>3, <2>1 DEF CanSubmit, Follows, Known
  <2> QED BY <2>1, <2>2
<1>6. a = c /\ r.v = n /\ n \in Versions
  <2>1. a <= c
    BY <1>2, <1>5
  <2>2. a = c
    BY <1>1, <1>4, <2>1
  <2> QED BY <1>2, <1>5, <2>2
<1>7. server' = Submitted(server, n, now)
  BY <1>6 DEF Serving, Effect
<1>8. /\ StandsAt(server', c)
      /\ \A w \in Versions \ {n} : server'[w] = server[w]
      /\ server'[n].status = "VALIDATING" /\ server'[n].expiration = now + TotalValidity
  BY <1>1, <1>4, <1>6, <1>7, StandsSubmitted
<1>9. server[n].status = "ABSENT" /\ n \in Known(client) /\ client' = client /\ enrolled' = enrolled
  BY <1>2, <1>5, <1>6 DEF Serving, clientVars
<1>10. Known(server)' = Known(server) \cup {n}
  BY <1>6, <1>8 DEF Known
<1>11. ClientAt(c)' /\ CallAt(c)'
  BY ServingFrame
<1> HIDE DEF n
<1>12. ServerAt(c, a)'
  <2>1. StandsAt(server, a)' /\ a # 0
    BY <1>4, <1>6, <1>8 DEF StandsAt, Versions
  <2>2. client[n].expiration <= now + TotalValidity
    BY <1>1, <1>6 DEF PairedAt, ClientAt, n
  <2>3. \A v \in Known(server) : v # n
    BY <1>9 DEF Known
  <2>4. (\A v \in Known(server) : v >= c => client[v].expiration <= server[v].expiration)'
    <3>1. \A v \in Known(server) : v >= c => client[v].expiration <= server'[v].expiration
      BY <1>8, <2>3 DEF PairedAt, ServerAt, Known
    <3> QED BY <1>8, <1>9, <1>10, <2>2, <3>1
  <2>5. (Known(server) \subseteq Known(client))'
    BY <1>9, <1>10 DEF PairedAt, ServerAt, Known
  <2>6. enrolled' /\ a = c
    BY <1>2, <1>6, <1>9
  <2> QED BY <1>1, <2>1, <2>4, <2>5, <2>6 DEF ServerAt
<1>13. PendingAt(c)'
  <2> SUFFICES ASSUME NEW q \in Pending' PROVE RequestAt(q, c)'
    BY DEF PendingAt
  <2>1. RequestAt(q, c) /\ ~Submits(q, n)
    BY <1>2, <1>6 DEF PairedAt, PendingAt, Serving
  <2>2. q.op = "submit" => q.v # n /\ q.v \in Versions
    BY <2>1 DEF RequestAt, Submits, Known
  <2> QED BY <1>8, <1>9, <2>1, <2>2 DEF RequestAt, Known
<1>14. GivenUpAt(c)'
  <2>1. client[n].status # "TERMINATED"
    BY <1>2, <1>6, <1>9 DEF PairedAt, GivenUpAt, Unsubmitted, n
  <2> QED BY <1>9, <2>1 DEF GivenUpAt, n
<1>15. AnswersAt(c, a)'
  <2> SUFFICES ASSUME NEW m \in Answers \cup {Answer(r, TRUE)} PROVE AnswerAt(m, c, a)'
    BY DEF AnswersAt, Serving
  <2>1. CASE m \in Answers
    <3>1. AnswerAt(m, c, a)
      BY <2>1 DEF PairedAt, AnswersAt
    <3>2. ~Unsubmitted(n)
      BY <1>2, <1>6 DEF Unsubmitted
    <3>3. ~(m.op = "rollback" /\ m.ok /\ m.seal = c)
      BY <1>6, <1>9, <3>1 DEF AnswerAt, n
    <3>4. (m.op = "submit" /\ m.seal = c) => m.ok
      BY <1>6, <3>1, <3>2 DEF AnswerAt, n
    <3> QED BY <1>9, <3>1, <3>3, <3>4 DEF AnswerAt, Known
  <2>2. CASE m = Answer(r, TRUE)
    <3>1. m.op = "submit" /\ m.ok /\ m.seal = r.signer
      BY <2>2 DEF Answer
    <3>2. \A v \in Versions : v = c + 1 => v \in Known(client)'
      BY <1>9 DEF n, Known
    <3> QED BY <1>2, <1>9, <3>1, <3>2 DEF AnswerAt
  <2> QED BY <2>1, <2>2
<1> QED BY <1>11, <1>12, <1>13, <1>14, <1>15 DEF PairedAt, Serving

\* While the server validates a successor both sides stand at the same version, the
\* client has not given the successor up, and no answer tells it to.
LEMMA BothAwait ==
  ASSUME TypeInv, NEW c \in Versions, NEW a \in 0 .. MaxVersion, PairedAt(c, a),
         CanRollBack(server)
  PROVE  /\ a = c /\ StandsAt(server, c)
         /\ c + 1 \in Versions /\ First(server, "VALIDATING") = c + 1
         /\ server[c + 1].status = "VALIDATING"
         /\ client[c + 1].status \in {"VALIDATING", "EXPIRED"}
         /\ \A m \in Answers : /\ ~(m.op = "rollback" /\ m.ok /\ m.seal = c)
                               /\ (m.op = "submit" /\ m.seal = c) => m.ok
<1>1. PICK v \in Versions : server[v].status = "VALIDATING"
  BY DEF CanRollBack, Held
<1>2. v \in Known(server) /\ v \in Held(server, "VALIDATING")
  BY <1>1 DEF Known, Held
<1>3. a \in Versions /\ StandsAt(server, a) /\ a \in {c, c + 1}
  BY <1>2 DEF PairedAt, ServerAt, Versions
<1>4. v = a + 1 /\ First(server, "VALIDATING") = v
  BY <1>2, <1>3, StandsPlaces
<1>5. v \in Known(client) /\ StandsAt(client, c)
  BY <1>2 DEF PairedAt, ServerAt, ClientAt
<1>6. v <= c + 1
  BY <1>5, StandsPlaces
<1>7. a = c /\ v = c + 1
  BY <1>3, <1>4, <1>6 DEF Versions
<1>8. client[v].status \in {"VALIDATING", "EXPIRED"}
  <2>1. client[v].status \in {"ABSENT", "VALIDATING", "TERMINATED", "EXPIRED"}
    BY <1>5, <1>7 DEF StandsAt
  <2>2. client[v].status # "ABSENT"
    BY <1>5 DEF Known
  <2>3. client[v].status # "TERMINATED"
    BY <1>1, <1>7 DEF PairedAt, GivenUpAt, Unsubmitted
  <2> QED BY <2>1, <2>2, <2>3
<1>9. ASSUME NEW m \in Answers
      PROVE  /\ ~(m.op = "rollback" /\ m.ok /\ m.seal = c)
             /\ (m.op = "submit" /\ m.seal = c) => m.ok
  <2>1. AnswerAt(m, c, a)
    BY DEF PairedAt, AnswersAt
  <2> QED BY <1>1, <1>7, <2>1 DEF AnswerAt, Unsubmitted
<1> QED BY <1>1, <1>3, <1>4, <1>7, <1>8, <1>9

\* A request about the successor the server validates leaves the others' facts alone,
\* whatever becomes of the successor.
LEMMA ServeKnown ==
  ASSUME TypeInv, NEW c \in Versions, NEW a \in 0 .. MaxVersion, PairedAt(c, a),
         NEW r, Serving(r, TRUE), CanRollBack(server),
         \A v \in Versions : server[v].status = "ABSENT" => server'[v] = server[v]
  PROVE  /\ PendingAt(c)' /\ GivenUpAt(c)'
         /\ \A b \in {c, c + 1} : \A m \in Answers : AnswerAt(m, c, b)'
<1>1. client' = client /\ enrolled' = enrolled
  BY DEF Serving, clientVars
<1>2. PendingAt(c)'
  <2> SUFFICES ASSUME NEW q \in Pending PROVE RequestAt(q, c)'
    BY DEF PendingAt, Serving
  <2>1. RequestAt(q, c)
    BY DEF PairedAt, PendingAt
  <2> QED BY <1>1, <2>1 DEF RequestAt, Known
<1>3. GivenUpAt(c)'
  BY <1>1, BothAwait DEF GivenUpAt
<1>4. ASSUME NEW b \in {c, c + 1}, NEW m \in Answers PROVE AnswerAt(m, c, b)'
  <2>1. /\ AnswerAt(m, c, a) /\ a = c
        /\ ~(m.op = "rollback" /\ m.ok /\ m.seal = c)
        /\ (m.op = "submit" /\ m.seal = c) => m.ok
    BY BothAwait DEF PairedAt, AnswersAt
  <2>2. (m.op = "checkpoint" /\ m.ok) => b > m.seal
    <3>1. m.op = "checkpoint" => m.seal \in Nat
      BY PendingRequests DEF Reply
    <3> QED BY <2>1, <3>1 DEF AnswerAt, Versions
  <2>3. b # 0
    BY DEF Versions
  <2> QED BY <1>1, <2>1, <2>2, <2>3 DEF AnswerAt, Known
<1> QED BY <1>2, <1>3, <1>4

LEMMA ServeCheckpoint ==
  ASSUME TypeInv, NEW c \in Versions, NEW a \in 0 .. MaxVersion, PairedAt(c, a),
         NEW r, Serving(r, TRUE), r.op = "checkpoint"
  PROVE  c + 1 \in 0 .. MaxVersion /\ PairedAt(c, c + 1)'
<1> DEFINE n == c + 1
<1>1. server \in Engines /\ now \in Nat \ {0}
  BY DEF TypeInv, EnginesOK, TimesOK, Windowed
<1>2. CanPromote(server, now) /\ CanRollBack(server) /\ server' = Promoted(server, now)
  BY DEF Serving, Granted, Effect, CanPromote, CanRollBack, CheckpointReached
<1>3. a = c /\ StandsAt(server, c) /\ client[n].status \in {"VALIDATING", "EXPIRED"}
  BY <1>2, BothAwait
<1>4. /\ n \in Versions /\ StandsAt(server', n)
      /\ Known(server') = Known(server)
      /\ \A v \in Versions : server[v].status = "ABSENT" => server'[v] = server[v]
      /\ \A v \in Versions : server'[v].expiration >= server[v].expiration
  BY <1>1, <1>2, <1>3, StandsPromoted
<1>5. ClientAt(c)' /\ CallAt(c)' /\ client' = client /\ enrolled' = enrolled
  BY ServingFrame DEF Serving, clientVars
<1>6. PendingAt(c)' /\ GivenUpAt(c)' /\ \A m \in Answers : AnswerAt(m, c, n)'
  BY <1>2, <1>4, ServeKnown
<1>7. enrolled /\ r.signer <= c
  BY DEF Serving, PairedAt, PendingAt, RequestAt
<1> HIDE DEF n
<1>8. ServerAt(c, n)'
  <2>1. StandsAt(server, n)' /\ n # 0
    BY <1>4 DEF StandsAt, Versions
  <2>2. (\A v \in Known(server) : v >= c => client[v].expiration <= server[v].expiration)'
    <3> SUFFICES ASSUME NEW v \in Known(server), v >= c
                 PROVE  client[v].expiration <= server'[v].expiration
      BY <1>4, <1>5
    <3>1. v \in Versions /\ client[v].expiration <= server[v].expiration
      BY DEF PairedAt, ServerAt, Known
    <3>2. server'[v].expiration >= server[v].expiration
      BY <1>4, <3>1
    <3>3. client[v].expiration \in Nat /\ server[v].expiration \in Nat
      BY <3>1 DEF TypeInv, EnginesOK, Windowed, Engines, Credential
    <3>4. server'[v].expiration \in Nat
      BY <1>1, <1>2, <3>1, PromotedType DEF Engines, Credential
    <3> QED BY <3>1, <3>2, <3>3, <3>4
  <2>3. (Known(server) \subseteq Known(client))'
    BY <1>4, <1>5 DEF PairedAt, ServerAt, Known
  <2> QED BY <1>3, <1>5, <1>7, <2>1, <2>2, <2>3 DEF ServerAt, n
<1>9. AnswersAt(c, n)'
  <2> SUFFICES ASSUME NEW m, m = Answer(r, TRUE) PROVE AnswerAt(m, c, n)'
    BY <1>6 DEF AnswersAt, Serving
  <2>1. m.op = "checkpoint" /\ m.seal = r.signer
    BY DEF Answer
  <2>2. r.signer \in Nat /\ n > r.signer
    <3>1. r \in Request
      BY PendingRequests DEF Serving
    <3> QED BY <1>7, <3>1 DEF Request, n, Versions
  <2> QED BY <1>5, <1>7, <2>1, <2>2 DEF AnswerAt
<1>10. PairedAt(c, n)'
  BY <1>5, <1>6, <1>8, <1>9 DEF PairedAt, Serving
<1> QED BY <1>4, <1>10 DEF n, Versions

LEMMA ServeRollback ==
  ASSUME TypeInv, NEW c \in Versions, NEW a \in 0 .. MaxVersion, PairedAt(c, a),
         NEW r, Serving(r, TRUE), r.op = "rollback"
  PROVE  PairedAt(c, a)'
<1> DEFINE n == c + 1
<1>1. server \in Engines /\ "TERMINATED" \in {"TERMINATED", "EXPIRED"}
  BY DEF TypeInv, EnginesOK, Windowed
<1>2. CanRollBack(server) /\ server' = RolledBack(server)
  BY DEF Serving, Granted, Effect
<1>3. a = c /\ StandsAt(server, c) /\ n \in Versions /\ First(server, "VALIDATING") = n
      /\ server[n].status = "VALIDATING"
  BY <1>2, BothAwait
<1>4. /\ StandsAt(server', c)
      /\ \A w \in Versions \ {n} : server'[w] = server[w]
      /\ server'[n].status = "TERMINATED" /\ server'[n].expiration = server[n].expiration
  BY <1>1, <1>2, <1>3, StandsOut DEF RolledBack
<1>5. Known(server') = Known(server)
  BY <1>3, <1>4 DEF Known
<1>6. ClientAt(c)' /\ CallAt(c)' /\ client' = client /\ enrolled' = enrolled
  BY ServingFrame DEF Serving, clientVars
<1>7. \A v \in Versions : server[v].status = "ABSENT" => server'[v] = server[v]
  BY <1>3, <1>4
<1>8. PendingAt(c)' /\ GivenUpAt(c)' /\ \A m \in Answers : AnswerAt(m, c, a)'
  BY <1>2, <1>3, <1>7, ServeKnown
<1>9. enrolled /\ r.signer <= c
  BY DEF Serving, PairedAt, PendingAt, RequestAt
<1> HIDE DEF n
<1>10. ServerAt(c, a)'
  <2>1. StandsAt(server, a)' /\ a # 0 /\ a # c + 1
    BY <1>3, <1>4 DEF StandsAt, Versions
  <2>2. (\A v \in Known(server) : v >= c => client[v].expiration <= server[v].expiration)'
    <3>1. \A v \in Known(server) : server'[v].expiration = server[v].expiration
      BY <1>4 DEF Known
    <3> QED BY <1>5, <1>6, <3>1 DEF PairedAt, ServerAt
  <2>3. (Known(server) \subseteq Known(client))'
    BY <1>5, <1>6 DEF PairedAt, ServerAt, Known
  <2> QED BY <1>3, <1>6, <1>9, <2>1, <2>2, <2>3 DEF ServerAt
<1>11. AnswersAt(c, a)'
  <2> SUFFICES ASSUME NEW m, m = Answer(r, TRUE) PROVE AnswerAt(m, c, a)'
    BY <1>8 DEF AnswersAt, Serving
  <2>1. m.op = "rollback" /\ m.seal = r.signer
    BY DEF Answer
  <2> QED BY <1>4, <1>6, <1>9, <2>1 DEF AnswerAt, n
<1> QED BY <1>6, <1>8, <1>10, <1>11 DEF PairedAt, Serving

LEMMA Serves ==
  ASSUME TypeInv, NEW c \in Versions, NEW a \in 0 .. MaxVersion, PairedAt(c, a),
         NEW r, NEW ok, Serving(r, ok)
  PROVE  PairInv'
<1>1. r.op \in Ops /\ ok \in BOOLEAN
  BY PendingRequests DEF Serving, Request
<1>2. CASE ok = FALSE
  BY <1>2, ServeNothing DEF Serving, PairInv
<1>3. CASE ok = TRUE
  <2>1. Serving(r, TRUE)
    BY <1>3
  <2>2. CASE r.op = "enroll"
    <3>1. PairedAt(1, 1)'
      BY <2>1, <2>2, ServeEnroll
    <3>2. 1 \in Versions /\ 1 \in 0 .. MaxVersion
      BY RotationAssumption DEF Versions
    <3> QED BY <3>1, <3>2 DEF PairInv
  <2>3. CASE r.op = "submit"
    BY <2>1, <2>3, ServeSubmit DEF PairInv
  <2>4. CASE r.op = "checkpoint"
    BY <2>1, <2>4, ServeCheckpoint DEF PairInv
  <2>5. CASE r.op = "rollback"
    BY <2>1, <2>5, ServeRollback DEF PairInv
  <2>6. CASE r.op = "relay"
    <3>1. server' = server
      BY <2>1, <2>6 DEF Serving, Effect
    <3> QED BY <2>1, <2>6, <3>1, ServeNothing DEF PairInv
  <2> QED BY <1>1, <2>2, <2>3, <2>4, <2>5, <2>6 DEF Ops
<1> QED BY <1>1, <1>2, <1>3

\* The steps of the server.
LEMMA HandlePairs ==
  ASSUME TypeInv, PairInv, Handle
  PROVE  PairInv'
<1> DEFINE r  == Head(requests)
           ok == Authentic(r) /\ Granted(r)
<1>1. requests # <<>>
  BY DEF Handle
<1>2. PICK c \in Versions, a \in 0 .. MaxVersion : PairedAt(c, a)
  BY <1>1 DEF PairInv, Unborn
<1>3. /\ server' = (IF ok THEN Effect(r) ELSE server)
      /\ replies' = Append(replies, Answer(r, ok))
      /\ requests' = Tail(requests)
      /\ UNCHANGED <<clientVars, orphans, waiting, sentAt, now>>
  BY DEF Handle
<1>4. /\ r \in Pending /\ Pending' \subseteq Pending /\ SubmittedOnce'
      /\ \A q \in Pending' : \A v \in Versions : ~(Submits(q, v) /\ Submits(r, v))
  BY <1>1, <1>2, <1>3, PendingRead DEF PairedAt
<1>5. ok \in BOOLEAN /\ (ok => Granted(r))
  BY <1>1, HeadFits, Decisions
<1> HIDE DEF r, ok
<1>6. Answers' \subseteq Answers \cup {Answer(r, ok)}
  <2>1. replies \in Seq(Reply)
    BY DEF TypeInv, FramesOK
  <2>2. \A i \in 1 .. Len(replies') : i \in 1 .. Len(replies) \/ replies'[i] = Answer(r, ok)
    BY <1>3, <2>1
  <2>3. \A i \in 1 .. Len(replies) : replies'[i] = replies[i]
    BY <1>3, <2>1
  <2> QED BY <2>2, <2>3 DEF Answers
<1>7. Serving(r, ok)
  BY <1>3, <1>4, <1>5, <1>6 DEF Serving
<1> QED BY <1>2, <1>7, Serves

LEMMA OrphanPairs ==
  ASSUME TypeInv, PairInv, NEW r \in orphans, HandleOrphan(r)
  PROVE  PairInv'
<1> DEFINE ok == Served(r) /\ Granted(r)
<1>1. PICK c \in Versions, a \in 0 .. MaxVersion : PairedAt(c, a)
  BY DEF PairInv, Unborn
<1>2. /\ server' = (IF ok THEN Effect(r) ELSE server)
      /\ orphans' = orphans \ {r}
      /\ UNCHANGED <<clientVars, requests, replies, waiting, sentAt, now>>
  BY DEF HandleOrphan
<1>3. /\ r \in Pending /\ Pending' \subseteq Pending /\ SubmittedOnce'
      /\ \A q \in Pending' : \A v \in Versions : ~(Submits(q, v) /\ Submits(r, v))
  BY <1>1, <1>2, PendingOrphan DEF PairedAt
<1>4. ok \in BOOLEAN /\ (ok => Granted(r))
  <2>1. r \in Request
    BY DEF TypeInv, FramesOK
  <2> QED BY <2>1, Decisions DEF Served
<1> HIDE DEF ok
<1>5. Answers' \subseteq Answers
  BY <1>2 DEF Answers
<1>6. Serving(r, ok)
  BY <1>2, <1>3, <1>4, <1>5 DEF Serving
<1> QED BY <1>1, <1>6, Serves

-------------------------------------------------------------------------------

\* What the client does leaves the facts about the frames in flight, as long as it
\* stands where it stood and submits nothing.
LEMMA FramesKept ==
  ASSUME NEW c \in Versions, NEW a \in 0 .. MaxVersion, PairedAt(c, a),
         UNCHANGED server, enrolled => enrolled', Known(client)' = Known(client),
         Answers' \subseteq Answers,
         \A q \in Pending' : q \in Pending \/ (RequestAt(q, c)' /\ q.op # "submit")
  PROVE  /\ PendingAt(c)' /\ AnswersAt(c, a)'
         /\ \A v \in Versions : Unsubmitted(v) => Unsubmitted(v)'
<1>1. ASSUME NEW v \in Versions, Unsubmitted(v) PROVE Unsubmitted(v)'
  BY <1>1 DEF Unsubmitted, Submits
<1>2. ASSUME NEW q \in Pending PROVE RequestAt(q, c)'
  BY DEF PairedAt, PendingAt, RequestAt
<1>3. PendingAt(c)'
  BY <1>2 DEF PendingAt
<1>4. ASSUME NEW m \in Answers PROVE AnswerAt(m, c, a)'
  <2>1. AnswerAt(m, c, a)
    BY DEF PairedAt, AnswersAt
  <2> QED BY <1>1, <2>1 DEF AnswerAt
<1>5. AnswersAt(c, a)'
  BY <1>4 DEF AnswersAt
<1> QED BY <1>1, <1>3, <1>5

\* A step that changes nothing but the connection, the call, the time or the server's
\* key.
LEMMA StillPaired ==
  ASSUME TypeInv, NEW c \in Versions, NEW a \in 0 .. MaxVersion, PairedAt(c, a),
         UNCHANGED <<server, client, enrolled, file>>, pinned' = pinned \/ enrolled,
         now' \in {now, now + 1}, Answers' \subseteq Answers,
         \A q \in Pending' : q \in Pending \/ (RequestAt(q, c)' /\ q.op # "submit"),
         SubmittedOnce', CallAt(c)'
  PROVE  PairedAt(c, a)'
<1>1. client' = client /\ enrolled' = enrolled /\ file' = file /\ server' = server
  OBVIOUS
<1>2. /\ PendingAt(c)' /\ AnswersAt(c, a)'
      /\ \A v \in Versions : Unsubmitted(v) => Unsubmitted(v)'
  BY <1>1, FramesKept DEF Known
<1>3. GivenUpAt(c)'
  BY <1>1, <1>2 DEF PairedAt, GivenUpAt
<1>4. ServerAt(c, a)'
  BY <1>1 DEF PairedAt, ServerAt, StandsAt, Known
<1>5. ClientAt(c)'
  <2>1. StandsAt(client, c)' /\ FileAt(c)'
    BY <1>1 DEF PairedAt, ClientAt, StandsAt, FileAt
  <2>2. \A v \in Versions : v >= c => client[v].expiration <= now' + TotalValidity
    <3>1. \A v \in Versions : client[v].expiration \in Nat
      BY DEF TypeInv, EnginesOK, Windowed, Engines, Credential
    <3>2. now \in Nat /\ now <= now' /\ now' \in Nat
      BY DEF TypeInv, TimesOK
    <3>3. \A v \in Versions : v >= c => client[v].expiration <= now + TotalValidity
      BY DEF PairedAt, ClientAt
    <3> QED BY <3>1, <3>2, <3>3, Periods
  <2> QED BY <1>1, <2>1, <2>2 DEF PairedAt, ClientAt
<1> QED BY <1>2, <1>3, <1>4, <1>5 DEF PairedAt

\* The identity is made.
LEMMA ConnectBirth ==
  ASSUME TypeInv, Unborn, NEW new \in BOOLEAN, Connect(new)
  PROVE  PairInv'
<1> DEFINE r == [op |-> "enroll", signer |-> 0, key |-> 0, v |-> 1]
<1>1. now \in Nat \ {0} /\ 1 \in Versions /\ 0 \in 0 .. MaxVersion
  BY ProtocolAssumption, RotationAssumption DEF TypeInv, TimesOK, Versions
<1>2. /\ client' = Provisioned(EmptyEngine, 1, now)
      /\ enrolled' = FALSE /\ pinned' = 0 /\ server' = EmptyEngine
      /\ file' = [creds |-> client', enrolled |-> enrolled']
      /\ requests' = Append(requests, r) /\ requests = <<>> /\ orphans' = {} /\ replies' = <<>>
      /\ waiting' = "enroll" /\ sentAt' = now /\ now' = now
  BY DEF Unborn, Connect, Save, Send, serverVars
<1>3. /\ client'[1].status = "ACTIVE" /\ client'[1].activation = now
      /\ client'[1].expiration = now + TotalValidity
      /\ \A v \in Versions \ {1} : client'[v].status = "ABSENT" /\ client'[v].expiration = 0
  BY <1>1, <1>2 DEF Provisioned, EmptyEngine, Absent, NoTime
<1>4. Known(server)' = {}
  BY <1>2, EmptyWindowed
<1>5. \A q \in Pending' : q.op = "enroll" /\ q.v = 1
  <2>1. \A i \in 1 .. Len(requests') : requests'[i] = r
    BY <1>2
  <2>2. r.op = "enroll" /\ r.v = 1
    OBVIOUS
  <2> HIDE DEF r
  <2> QED BY <1>2, <2>1, <2>2 DEF Pending
<1> HIDE DEF r
<1>6. SubmittedOnce'
  <2>1. \A i \in 1 .. Len(requests') : requests'[i].op = "enroll"
    BY <1>5 DEF Pending
  <2> QED BY <1>2, <2>1 DEF SubmittedOnce, Submits
<1>7. PendingAt(1)'
  BY <1>5 DEF PendingAt, RequestAt
<1>8. AnswersAt(1, 0)'
  <2>1. Answers' = {}
    BY <1>2 DEF Answers
  <2> QED BY <2>1 DEF AnswersAt
<1>9. ClientAt(1)'
  <2>1. StandsAt(client, 1)'
    BY <1>1, <1>3 DEF StandsAt, Versions, NoTime
  <2>2. FileAt(1)'
    BY <1>2 DEF FileAt
  <2>3. (\A v \in Versions : v >= 1 => client[v].expiration <= now + TotalValidity)'
    <3>1. 0 <= now + TotalValidity
      BY <1>1, Periods
    <3> QED BY <1>1, <1>2, <1>3, <3>1, Periods
  <2> QED BY <1>2, <2>1, <2>2, <2>3 DEF ClientAt
<1>10. ServerAt(1, 0)'
  BY <1>2, <1>4 DEF ServerAt
<1>11. GivenUpAt(1)'
  BY <1>3 DEF GivenUpAt
<1>12. CallAt(1)'
  <2>1. now <= now + Timeout
    BY <1>1, ProtocolAssumption
  <2> QED BY <1>2, <2>1 DEF CallAt
<1>13. PairedAt(1, 0)'
  BY <1>6, <1>7, <1>8, <1>9, <1>10, <1>11, <1>12 DEF PairedAt
<1> QED BY <1>1, <1>13 DEF PairInv

\* The identity is read from its file, where a successor is not marked as outlived.
LEMMA ConnectAgain ==
  ASSUME TypeInv, NEW c \in Versions, NEW a \in 0 .. MaxVersion, PairedAt(c, a),
         NEW new \in BOOLEAN, Connect(new)
  PROVE  PairedAt(c, a)'
<1> DEFINE r == [op |-> "enroll", signer |-> 0, key |-> 0, v |-> 1]
<1>1. /\ file.enrolled = enrolled /\ StandsAt(client, c)
      /\ \A v \in Versions \ {c + 1} : file.creds[v] = client[v]
      /\ \A v \in Versions : v = c + 1 =>
           \/ file.creds[v] = client[v]
           \/ /\ client[v].status = "EXPIRED" /\ file.creds[v].status = "VALIDATING"
              /\ file.creds[v].expiration = client[v].expiration
  BY DEF PairedAt, ClientAt, FileAt
<1>2. file.creds[c].status = "ACTIVE"
  BY <1>1 DEF StandsAt, Versions
<1>3. file.creds # EmptyEngine
  BY <1>2 DEF EmptyEngine, Absent
<1>4. /\ client' = file.creds /\ enrolled' = enrolled /\ server' = server /\ now' = now
      /\ file' = [creds |-> client', enrolled |-> enrolled']
      /\ pinned' \in {0, pinned} /\ orphans' = orphans /\ replies' = replies /\ waiting = "none"
      /\ IF enrolled' THEN UNCHANGED <<requests, waiting, sentAt>> ELSE Send("enroll", 0, 0, 1)
  BY <1>1, <1>3 DEF Connect, Save, serverVars
<1>5. \A v \in Versions : v = c + 1 =>
         client[v].status \in {"ABSENT", "VALIDATING", "TERMINATED", "EXPIRED"}
  BY <1>1 DEF StandsAt
<1>6. StandsAt(client', c)
  BY <1>1, <1>4, <1>5, StandsStill
<1>7. \A v \in Versions : client'[v].expiration = client[v].expiration
  BY <1>1, <1>4
<1>8. Known(client)' = Known(client)
  BY <1>1, <1>4 DEF Known
<1>9. ClientAt(c)'
  <2>1. StandsAt(client, c)' /\ FileAt(c)'
    BY <1>4, <1>6 DEF StandsAt, FileAt
  <2>2. ~enrolled' => c = 1 /\ pinned' = 0
    BY <1>4 DEF PairedAt, ClientAt
  <2> QED BY <1>4, <1>7, <2>1, <2>2 DEF PairedAt, ClientAt
<1>10. ServerAt(c, a)'
  <2>1. a = c + 1 => client'[a].status \in {"VALIDATING", "EXPIRED"}
    <3>1. a = c + 1 => a \in Versions
      BY DEF Versions
    <3> QED BY <1>1, <1>4, <3>1 DEF PairedAt, ServerAt
  <2>2. a # 0 => StandsAt(server, a)'
    BY <1>4 DEF PairedAt, ServerAt, StandsAt
  <2>3. Known(server)' = Known(server)
    BY <1>4 DEF Known
  <2>4. \A v \in Known(server) : v \in Versions
    BY DEF Known
  <2> QED BY <1>4, <1>7, <1>8, <2>1, <2>2, <2>3, <2>4 DEF PairedAt, ServerAt
<1>11. /\ SubmittedOnce'
       /\ \A q \in Pending' : q \in Pending \/ (RequestAt(q, c)' /\ q.op # "submit")
  <2>1. CASE enrolled'
    BY <1>4, <2>1 DEF PairedAt, SubmittedOnce, Submits, Pending
  <2>2. CASE ~enrolled'
    <3>1. requests' = Append(requests, r)
      BY <1>4, <2>2 DEF Send
    <3>2. r.op = "enroll" /\ r.v = 1
      OBVIOUS
    <3> HIDE DEF r
    <3>3. Pending' = Pending \cup {r} /\ SubmittedOnce'
      BY <1>4, <3>1, <3>2, PendingSent DEF PairedAt, Submits
    <3>4. RequestAt(r, c)'
      BY <3>2 DEF RequestAt
    <3> QED BY <3>2, <3>3, <3>4
  <2> QED BY <2>1, <2>2
<1>12. Answers' = Answers
  BY <1>4 DEF Answers
<1>13. /\ PendingAt(c)' /\ AnswersAt(c, a)'
       /\ \A v \in Versions : Unsubmitted(v) => Unsubmitted(v)'
  BY <1>4, <1>8, <1>11, <1>12, FramesKept
<1>14. GivenUpAt(c)'
  <2>1. \A v \in Versions : v = c + 1 /\ client'[v].status = "TERMINATED" => client[v].status = "TERMINATED"
    BY <1>1, <1>4
  <2> QED BY <1>4, <1>13, <2>1 DEF PairedAt, GivenUpAt
<1>15. CallAt(c)'
  <2>1. waiting' = "none" \/ (waiting' = "enroll" /\ sentAt' = now)
    BY <1>4 DEF Send
  <2>2. now \in Nat /\ now <= now + Timeout
    BY ProtocolAssumption DEF TypeInv, TimesOK
  <2> QED BY <1>4, <2>1, <2>2 DEF CallAt
<1> QED BY <1>9, <1>10, <1>11, <1>13, <1>14, <1>15 DEF PairedAt

\* The successor the client makes is one nobody has heard of.
LEMMA SubmitPairs ==
  ASSUME TypeInv, NEW c \in Versions, NEW a \in 0 .. MaxVersion, PairedAt(c, a), SendSubmit
  PROVE  PairedAt(c, a)'
<1> DEFINE n == c + 1
<1>1. client \in Engines /\ now \in Nat /\ c \in Nat
  BY ProtocolAssumption DEF TypeInv, EnginesOK, TimesOK, Windowed, Versions
<1>2. Current = c /\ Successor = n /\ StandsAt(client, c)
  <2>1. StandsAt(client, c)
    BY DEF PairedAt, ClientAt
  <2>2. Current = c
    BY <2>1, StandsPlaces DEF Current
  <2> QED BY <2>1, <2>2 DEF Successor
<1>3. /\ n \in Versions /\ CanSubmit(client, n, c, TRUE, now)
      /\ client' = Submitted(client, n, now)
  BY <1>2 DEF SendSubmit
<1>4. /\ enrolled' = enrolled /\ pinned' = pinned /\ server' = server /\ now' = now
      /\ file' = [creds |-> client', enrolled |-> enrolled']
      /\ replies' = replies /\ orphans' = orphans /\ waiting = "none"
      /\ IF pinned = 0 THEN UNCHANGED <<requests, waiting, sentAt>>
                       ELSE Send("submit", c, pinned, n)
  BY <1>2 DEF SendSubmit, Save, Ready, serverVars
<1>5. client[n].status = "ABSENT"
  <2>1. n \notin Known(client)
    BY <1>3 DEF CanSubmit, Follows, Versions
  <2> QED BY <1>3, <2>1 DEF Known
<1>6. /\ StandsAt(client', c)
      /\ \A w \in Versions \ {n} : client'[w] = client[w]
      /\ client'[n].status = "VALIDATING" /\ client'[n].deadline = now + ValidationPeriod
      /\ client'[n].expiration = now + TotalValidity
  BY <1>1, <1>2, <1>3, StandsSubmitted
<1>7. Known(client)' = Known(client) \cup {n}
  BY <1>3, <1>6 DEF Known
<1>8. n \notin Known(client) /\ n \notin Known(server)
  BY <1>5 DEF Known, PairedAt, ServerAt
<1>9. \A q \in Pending : q.op = "submit" => q.v \in Known(client)
  BY DEF PairedAt, PendingAt, RequestAt
<1>10. ClientAt(c)'
  <2>1. StandsAt(client, c)' /\ FileAt(c)'
    BY <1>4, <1>6 DEF StandsAt, FileAt
  <2>2. (\A v \in Versions : v >= c => client[v].expiration <= now + TotalValidity)'
    <3>1. \A v \in Versions \ {n} : v >= c => client'[v].expiration <= now + TotalValidity
      BY <1>6 DEF PairedAt, ClientAt
    <3>2. client'[n].expiration <= now + TotalValidity
      BY <1>1, <1>6, Periods
    <3> HIDE DEF n
    <3> QED BY <1>4, <3>1, <3>2
  <2> QED BY <1>4, <2>1, <2>2 DEF PairedAt, ClientAt
<1>11. ServerAt(c, a)'
  <2>1. a # c + 1
    BY <1>5 DEF PairedAt, ServerAt
  <2>2. a # 0 => StandsAt(server, a)' /\ a \in {c, c + 1}
    BY <1>4 DEF PairedAt, ServerAt, StandsAt
  <2>3. Known(server)' = Known(server)
    BY <1>4 DEF Known
  <2>4. \A v \in Known(server) : client'[v] = client[v]
    BY <1>6, <1>8 DEF Known
  <2> QED BY <1>4, <1>7, <2>1, <2>2, <2>3, <2>4 DEF PairedAt, ServerAt
<1>12. /\ SubmittedOnce'
       /\ \A q \in Pending' : RequestAt(q, c)'
  <2>1. ASSUME NEW q \in Pending PROVE RequestAt(q, c)'
    BY <1>4, <1>7 DEF PairedAt, PendingAt, RequestAt
  <2>2. CASE pinned = 0
    BY <1>4, <2>1, <2>2 DEF PairedAt, SubmittedOnce, Submits, Pending
  <2>3. CASE pinned # 0
    <3>0. PICK r : r = [op |-> "submit", signer |-> c, key |-> pinned, v |-> n]
      OBVIOUS
    <3>1. requests' = Append(requests, r)
      BY <1>4, <2>3, <3>0 DEF Send
    <3>2. r.op = "submit" /\ r.v = n /\ r.signer = c
      BY <3>0
    <3>3. enrolled
      BY <2>3 DEF PairedAt, ClientAt
    <3> HIDE DEF n
    <3>4. \A q \in Pending : \A v \in Versions : ~(Submits(q, v) /\ Submits(r, v))
      BY <1>8, <1>9, <3>2 DEF Submits
    <3>5. Pending' = Pending \cup {r} /\ SubmittedOnce'
      BY <1>4, <3>1, <3>4, PendingSent DEF PairedAt
    <3>6. RequestAt(r, c)'
      <4>1. server'[n].status = "ABSENT"
        BY <1>3, <1>4, <1>8 DEF Known
      <4>2. n \in Known(client)'
        BY <1>7
      <4>3. enrolled' /\ c <= c
        BY <1>1, <1>4, <3>3
      <4>4. n = c + 1
        BY DEF n
      <4> QED BY <3>2, <4>1, <4>2, <4>3, <4>4 DEF RequestAt
    <3> QED BY <2>1, <3>5, <3>6
  <2> QED BY <2>2, <2>3
<1>13. PendingAt(c)'
  BY <1>12 DEF PendingAt
<1>14. AnswersAt(c, a)'
  <2> SUFFICES ASSUME NEW m \in Answers PROVE AnswerAt(m, c, a)'
    BY <1>4 DEF AnswersAt, Answers
  <2>1. AnswerAt(m, c, a)
    BY DEF PairedAt, AnswersAt
  <2>2. ~(m.op = "submit" /\ m.seal = c)
    BY <1>3, <1>8, <2>1 DEF AnswerAt
  <2> QED BY <1>4, <2>1, <2>2 DEF AnswerAt
<1>15. GivenUpAt(c)'
  BY <1>6 DEF GivenUpAt
<1>16. CallAt(c)'
  <2>1. CASE pinned = 0
    BY <1>4, <2>1 DEF CallAt
  <2>2. CASE pinned # 0
    <3>1. waiting' = "submit" /\ sentAt' = now /\ enrolled'
      BY <1>4, <2>2 DEF Send, PairedAt, ClientAt
    <3>2. now <= now + Timeout
      BY <1>1, ProtocolAssumption
    <3> QED BY <1>3, <1>4, <1>6, <3>1, <3>2 DEF CallAt
  <2> QED BY <2>1, <2>2
<1> QED BY <1>10, <1>11, <1>12, <1>13, <1>14, <1>15, <1>16 DEF PairedAt

LEMMA OtherPairs ==
  ASSUME TypeInv, NEW c \in Versions, NEW a \in 0 .. MaxVersion, PairedAt(c, a),
         NEW op \in {"checkpoint", "rollback", "relay"}, SendOther(op)
  PROVE  PairedAt(c, a)'
<1>0. PICK r : r = [op |-> op, signer |-> c, key |-> pinned, v |-> 0]
  OBVIOUS
<1>1. Current = c
  BY StandsPlaces DEF Current, PairedAt, ClientAt
<1>2. /\ UNCHANGED <<server, clientVars, orphans, replies, now>>
      /\ pinned # 0 /\ requests' = Append(requests, r) /\ waiting' = op /\ sentAt' = now
  BY <1>0, <1>1 DEF SendOther, Send, serverVars
<1>3. enrolled /\ enrolled'
  BY <1>2 DEF PairedAt, ClientAt, clientVars
<1>4. r.op = op /\ r.signer = c
  BY <1>0
<1>5. Pending' = Pending \cup {r} /\ SubmittedOnce'
  BY <1>2, <1>4, PendingSent DEF PairedAt, Submits
<1>6. RequestAt(r, c)' /\ r.op # "submit"
  BY <1>3, <1>4 DEF RequestAt, Versions
<1>7. CallAt(c)'
  <2>1. now <= now + Timeout
    BY ProtocolAssumption DEF TypeInv, TimesOK
  <2> QED BY <1>2, <1>3, <2>1 DEF CallAt
<1>8. Answers' = Answers
  BY <1>2 DEF Answers
<1>9. UNCHANGED <<server, client, enrolled, file>> /\ pinned' = pinned /\ now' = now
  BY <1>2 DEF clientVars
<1> QED BY <1>5, <1>6, <1>7, <1>8, <1>9, StillPaired

\* The steps that change nothing but the connection, the call or the time.
LEMMA OtherStepPairs ==
  ASSUME TypeInv, NEW c \in Versions, NEW a \in 0 .. MaxVersion, PairedAt(c, a),
         Refuse \/ ServerRotates \/ ClientTimeout \/ Disconnect \/ Tick \/ UNCHANGED vars
  PROVE  PairedAt(c, a)'
<1>1. UNCHANGED <<server, clientVars>> /\ now' \in {now, now + 1}
  BY DEF Refuse, ServerRotates, ClientTimeout, Disconnect, Tick, vars, serverVars
<1>2. replies' = <<>> \/ replies' = replies
  BY DEF Refuse, ServerRotates, ClientTimeout, Disconnect, Tick, vars, linkVars
<1>3. Answers' \subseteq Answers
  <2>1. replies' = <<>> => Answers' = {}
    BY DEF Answers
  <2>2. replies' = replies => Answers' = Answers
    BY DEF Answers
  <2> QED BY <1>2, <2>1, <2>2
<1>4. Pending' \subseteq Pending /\ SubmittedOnce'
  <2>1. CASE Refuse
    BY <2>1, PendingDropped DEF Refuse, PairedAt, Pending
  <2>2. CASE Disconnect
    <3>1. requests' = <<>> /\ orphans' = Pending
      BY <2>2 DEF Disconnect, Pending
    <3> QED BY <3>1, PendingDropped DEF PairedAt
  <2>3. CASE UNCHANGED <<requests, orphans>>
    BY <2>3 DEF Pending, PairedAt, SubmittedOnce, Submits
  <2> QED BY <2>1, <2>2, <2>3 DEF ServerRotates, ClientTimeout, Tick, vars, linkVars
<1>5. CallAt(c)'
  <2>1. CASE waiting' = "none"
    BY <2>1 DEF CallAt
  <2>2. CASE UNCHANGED <<waiting, sentAt>> /\ (waiting # "none" => now' <= sentAt + Timeout)
    <3>1. client' = client /\ enrolled' = enrolled
      BY <1>1 DEF clientVars
    <3> QED BY <2>2, <3>1 DEF PairedAt, CallAt
  <2>3. ASSUME Tick PROVE UNCHANGED <<waiting, sentAt>> /\ (waiting # "none" => now' <= sentAt + Timeout)
    <3>1. now \in Nat /\ sentAt \in Nat /\ sentAt + Timeout \in Nat
      BY ProtocolAssumption DEF TypeInv, TimesOK
    <3> QED BY <2>3, <3>1 DEF Tick
  <2>4. ASSUME ServerRotates \/ UNCHANGED vars
        PROVE  UNCHANGED <<waiting, sentAt>> /\ (waiting # "none" => now' <= sentAt + Timeout)
    BY <2>4 DEF ServerRotates, vars, PairedAt, CallAt
  <2> QED BY <2>1, <2>2, <2>3, <2>4 DEF Refuse, ClientTimeout, Disconnect, CallEnds
<1>6. UNCHANGED <<server, client, enrolled, file>> /\ pinned' = pinned
  BY <1>1 DEF clientVars
<1> QED BY <1>1, <1>3, <1>4, <1>5, <1>6, StillPaired

-------------------------------------------------------------------------------

\* The client reads answer m.
Reading(m) ==
  /\ m \in Answers /\ Answers' \subseteq Answers
  /\ UNCHANGED <<server, requests, orphans, now>> /\ waiting' = "none"

LEMMA ReadingFrame ==
  ASSUME NEW c \in Versions, NEW a \in 0 .. MaxVersion, PairedAt(c, a), NEW m, Reading(m)
  PROVE  /\ AnswerAt(m, c, a) /\ SubmittedOnce' /\ CallAt(c)'
         /\ Pending' = Pending
<1>1. AnswerAt(m, c, a)
  BY DEF PairedAt, AnswersAt, Reading
<1>2. SubmittedOnce' /\ Pending' = Pending
  BY DEF PairedAt, Reading, SubmittedOnce, Submits, Pending
<1>3. CallAt(c)'
  BY DEF Reading, CallAt
<1> QED BY <1>1, <1>2, <1>3

\* The successor leaves the client's window.
LEMMA SuccessorOut ==
  ASSUME TypeInv, NEW c \in Versions, NEW a \in 0 .. MaxVersion, PairedAt(c, a),
         NEW m, Reading(m), CanRollBack(client), NEW s \in {"TERMINATED", "EXPIRED"},
         client' = WithStatus(client, First(client, "VALIDATING"), s),
         UNCHANGED <<enrolled, pinned>>,
         file' = [creds |-> client', enrolled |-> enrolled'] \/ (s = "EXPIRED" /\ UNCHANGED file),
         s = "TERMINATED" =>
           \A v \in Versions : v = c + 1 => server[v].status = "TERMINATED" \/ Unsubmitted(v)
  PROVE  PairedAt(c, a)'
<1> DEFINE n == c + 1
<1>1. client \in Engines /\ StandsAt(client, c)
  BY DEF TypeInv, EnginesOK, Windowed, PairedAt, ClientAt
<1>2. /\ n \in Versions /\ client[n].status = "VALIDATING"
      /\ StandsAt(client', c)
      /\ \A w \in Versions \ {n} : client'[w] = client[w]
      /\ client'[n].status = s /\ client'[n].expiration = client[n].expiration
  BY <1>1, StandsOut
<1>3. Known(client)' = Known(client)
  BY <1>2 DEF Known
<1>4. \A v \in Versions : client'[v].expiration = client[v].expiration
  BY <1>2
<1>5. server' = server /\ now' = now /\ enrolled' = enrolled /\ pinned' = pinned
  BY DEF Reading
<1>6. SubmittedOnce' /\ CallAt(c)' /\ Pending' = Pending
  BY ReadingFrame
<1>7. /\ PendingAt(c)' /\ AnswersAt(c, a)'
      /\ \A v \in Versions : Unsubmitted(v) => Unsubmitted(v)'
  BY <1>3, <1>5, <1>6, FramesKept DEF Reading
<1>8. ClientAt(c)'
  <2>1. FileAt(c)'
    <3>1. CASE file' = [creds |-> client', enrolled |-> enrolled']
      BY <3>1 DEF FileAt
    <3>2. CASE s = "EXPIRED" /\ UNCHANGED file
      <4>1. file.creds[n] = client[n] /\ file.enrolled = enrolled
        BY <1>2 DEF PairedAt, ClientAt, FileAt
      <4>2. \A v \in Versions \ {n} : file.creds[v] = client[v]
        BY DEF PairedAt, ClientAt, FileAt
      <4> QED BY <1>2, <1>5, <3>2, <4>1, <4>2 DEF FileAt
    <3> QED BY <3>1, <3>2
  <2>2. StandsAt(client, c)'
    BY <1>2 DEF StandsAt
  <2> QED BY <1>4, <1>5, <2>1, <2>2 DEF PairedAt, ClientAt
<1>9. ServerAt(c, a)'
  <2>1. a = c + 1 => client'[a].status \in {"VALIDATING", "EXPIRED"}
    <3>1. ASSUME a = n, s = "TERMINATED" PROVE FALSE
      <4>1. server[n].status = "ACTIVE"
        BY <1>2, <3>1 DEF PairedAt, ServerAt, StandsAt, Versions
      <4> QED BY <1>2, <3>1, <4>1 DEF Unsubmitted
    <3> QED BY <1>2, <3>1
  <2>2. a # 0 => StandsAt(server, a)' /\ a \in {c, c + 1}
    BY <1>5 DEF PairedAt, ServerAt, StandsAt
  <2>3. Known(server)' = Known(server) /\ Known(server) \subseteq Versions
    BY <1>5 DEF Known
  <2> QED BY <1>3, <1>4, <1>5, <2>1, <2>2, <2>3 DEF PairedAt, ServerAt
<1>10. GivenUpAt(c)'
  <2> SUFFICES ASSUME NEW v \in Versions, v = n, client'[v].status = "TERMINATED"
               PROVE  server'[v].status = "TERMINATED" \/ Unsubmitted(v)'
    BY DEF GivenUpAt
  <2> QED BY <1>2, <1>5, <1>7
<1> QED BY <1>6, <1>7, <1>8, <1>9, <1>10 DEF PairedAt

\* The client promotes: the server did so before.
LEMMA ClientPromotes ==
  ASSUME TypeInv, NEW c \in Versions, NEW a \in 0 .. MaxVersion, PairedAt(c, a),
         NEW m, Reading(m), a = c + 1, enrolled, CanPromote(client, now),
         client' = Promoted(client, now), UNCHANGED <<enrolled, pinned>>,
         file' = [creds |-> client', enrolled |-> enrolled']
  PROVE  a \in Versions /\ PairedAt(a, a)'
<1>1. client \in Engines /\ StandsAt(client, c) /\ now \in Nat \ {0} /\ c \in Nat
  BY DEF TypeInv, EnginesOK, TimesOK, Windowed, PairedAt, ClientAt, Versions
<1>2. /\ a \in Versions /\ StandsAt(client', a) /\ Known(client') = Known(client)
      /\ \A v \in Versions : client[v].status = "ABSENT" => client'[v] = client[v]
      /\ client'[a].expiration = client[a].expiration
  BY <1>1, StandsPromoted
<1>3. server' = server /\ now' = now /\ enrolled' = enrolled /\ pinned' = pinned /\ enrolled
      /\ StandsAt(server, a)
  BY <1>1 DEF Reading, PairedAt, ServerAt
<1>4. \A v \in Versions : v >= a => v = a \/ v > c + 1
  BY DEF Versions
<1>5. \A v \in Versions : v >= a => client'[v].expiration = client[v].expiration /\ v >= c
  <2>1. \A v \in Versions : v > c + 1 => client[v].status = "ABSENT"
    BY <1>1 DEF StandsAt
  <2>2. \A v \in Versions : v >= a => v >= c
    BY <1>1 DEF Versions
  <2> QED BY <1>2, <1>4, <2>1, <2>2
<1>6. SubmittedOnce' /\ Pending' = Pending
  BY ReadingFrame
<1>7. ClientAt(a)'
  <2>1. FileAt(a)'
    BY DEF FileAt
  <2>2. StandsAt(client, a)'
    BY <1>2 DEF StandsAt
  <2> QED BY <1>3, <1>5, <2>1, <2>2 DEF PairedAt, ClientAt
<1>8. ServerAt(a, a)'
  <2>1. StandsAt(server, a)' /\ a # 0 /\ a # a + 1
    BY <1>1, <1>3 DEF StandsAt
  <2>2. Known(server)' = Known(server) /\ Known(server) \subseteq Versions
    BY <1>3 DEF Known
  <2>3. Known(client)' = Known(client)
    BY <1>2 DEF Known
  <2> QED BY <1>3, <1>5, <2>1, <2>2, <2>3 DEF PairedAt, ServerAt
<1>9. PendingAt(a)'
  <2> SUFFICES ASSUME NEW q \in Pending PROVE RequestAt(q, a)'
    BY <1>6 DEF PendingAt
  <2>1. RequestAt(q, c)
    BY DEF PairedAt, PendingAt
  <2>2. q.signer \in Nat
    BY PendingRequests DEF Request
  <2>3. q.signer <= c => q.signer <= a
    BY <1>1, <2>2
  <2>4. Known(client)' = Known(client)
    BY <1>2 DEF Known
  <2> QED BY <1>3, <2>1, <2>3, <2>4 DEF RequestAt
<1>10. AnswersAt(a, a)'
  <2> SUFFICES ASSUME NEW x \in Answers PROVE AnswerAt(x, a, a)'
    BY DEF AnswersAt, Reading
  <2>1. AnswerAt(x, c, a) /\ x.seal \in Nat
    BY PendingRequests DEF PairedAt, AnswersAt, Reply
  <2>2. x.seal <= c => x.seal <= a /\ x.seal # a
    BY <1>1, <2>1
  <2> QED BY <1>3, <2>1, <2>2 DEF AnswerAt
<1>11. GivenUpAt(a)'
  <2>1. \A v \in Versions : v = a + 1 => client[v].status = "ABSENT"
    BY <1>1 DEF StandsAt
  <2> QED BY <1>2, <2>1 DEF GivenUpAt
<1>12. CallAt(a)'
  BY DEF Reading, CallAt
<1> QED BY <1>2, <1>6, <1>7, <1>8, <1>9, <1>10, <1>11, <1>12 DEF PairedAt

\* An answer to a checkpoint request, or to a submission: too early for it.
LEMMA MirrorCheckpointPairs ==
  ASSUME Timeout < ValidationPeriod,
         TypeInv, NEW c \in Versions, NEW a \in 0 .. MaxVersion, PairedAt(c, a),
         NEW m, Reading(m), m.op = waiting, m.seal = c, Confirmed(m),
         MirrorCheckpoint, UNCHANGED <<enrolled, pinned>>
  PROVE  PairInv'
<1>1. AnswerAt(m, c, a) /\ SubmittedOnce' /\ CallAt(c)' /\ Pending' = Pending
  BY ReadingFrame
<1>2. m.op \in {"submit", "checkpoint"} /\ m.ok /\ enrolled
  BY <1>1 DEF Confirmed, AnswerAt
<1>3. CASE UNCHANGED <<client, file>>
  <2>1. UNCHANGED <<server, client, enrolled, file>> /\ pinned' = pinned /\ now' = now
    BY <1>3 DEF Reading
  <2>2. PairedAt(c, a)'
    BY <1>1, <2>1, StillPaired DEF Reading
  <2> QED BY <2>2 DEF PairInv
<1>4. ASSUME CheckpointReached(client, now), m.op = "submit" PROVE FALSE
  <2>1. PICK v \in Versions : /\ v = c + 1 /\ client[v].status = "VALIDATING"
                              /\ client[v].deadline = sentAt + ValidationPeriod
    BY <1>4 DEF PairedAt, CallAt
  <2>2. First(client, "VALIDATING") = v
    <3>1. v \in Held(client, "VALIDATING") /\ StandsAt(client, c)
      BY <2>1 DEF Held, PairedAt, ClientAt
    <3> QED BY <3>1, StandsPlaces
  <2>3. now >= sentAt + ValidationPeriod
    BY <1>4, <2>1, <2>2 DEF CheckpointReached
  <2>4. now <= sentAt + Timeout
    BY <1>4 DEF PairedAt, CallAt
  <2> QED BY <2>3, <2>4, Periods, ProtocolAssumption DEF TypeInv, TimesOK
<1>5. CASE CheckpointReached(client, now) /\ ~UNCHANGED <<client, file>>
  <2>1. m.op = "checkpoint" /\ a = c + 1
    <3>1. m.op = "checkpoint"
      BY <1>2, <1>4, <1>5
    <3>2. a > c
      BY <1>1, <1>2, <3>1 DEF AnswerAt
    <3> QED BY <3>1, <3>2 DEF PairedAt, ServerAt, Versions
  <2>2. CASE CanPromote(client, now) /\ client' = Promoted(client, now) /\ Save
    <3>1. a \in Versions /\ PairedAt(a, a)'
      BY <1>2, <2>1, <2>2, ClientPromotes DEF Save
    <3> QED BY <3>1 DEF PairInv
  <2>3. CASE /\ SuccessorOutlived(client, now)
             /\ client' = MarkedOutlived(client) /\ UNCHANGED file
    <3>1. CanRollBack(client)
      BY <1>5 DEF CheckpointReached, CanRollBack
    <3>2. PairedAt(c, a)'
      BY <2>3, <3>1, SuccessorOut DEF MarkedOutlived
    <3> QED BY <3>2 DEF PairInv
  <2> QED BY <1>5, <2>2, <2>3 DEF MirrorCheckpoint
<1>6. CheckpointReached(client, now) \/ UNCHANGED <<client, file>>
  BY DEF MirrorCheckpoint, CanPromote, SuccessorOutlived
<1> QED BY <1>3, <1>5, <1>6

LEMMA MirrorRollbackPairs ==
  ASSUME TypeInv, NEW c \in Versions, NEW a \in 0 .. MaxVersion, PairedAt(c, a),
         NEW m, Reading(m), m.seal = c, GivenUp(m),
         MirrorRollback, UNCHANGED <<enrolled, pinned>>
  PROVE  PairInv'
<1>1. AnswerAt(m, c, a) /\ SubmittedOnce' /\ CallAt(c)' /\ Pending' = Pending
  BY ReadingFrame
<1>2. \A v \in Versions : v = c + 1 => server[v].status = "TERMINATED" \/ Unsubmitted(v)
  BY <1>1 DEF GivenUp, AnswerAt
<1>3. CASE CanRollBack(client) /\ client' = RolledBack(client) /\ Save
  <2>1. PairedAt(c, a)'
    BY <1>2, <1>3, SuccessorOut DEF RolledBack, Save
  <2> QED BY <2>1 DEF PairInv
<1>4. CASE UNCHANGED <<client, file>>
  <2>1. UNCHANGED <<server, client, enrolled, file>> /\ pinned' = pinned /\ now' = now
    BY <1>4 DEF Reading
  <2>2. PairedAt(c, a)'
    BY <1>1, <2>1, StillPaired DEF Reading
  <2> QED BY <2>2 DEF PairInv
<1> QED BY <1>3, <1>4 DEF MirrorRollback

\* The answer to the enrollment.
LEMMA EnrolledPairs ==
  ASSUME TypeInv, NEW c \in Versions, NEW a \in 0 .. MaxVersion, PairedAt(c, a),
         NEW m, Reading(m), m.op = "enroll", m.ok = TRUE, enrolled' = TRUE, UNCHANGED client, Save
  PROVE  PairedAt(c, a)'
<1>1. AnswerAt(m, c, a) /\ SubmittedOnce' /\ CallAt(c)' /\ Pending' = Pending
  BY ReadingFrame
<1>2. a # 0 /\ server' = server /\ now' = now
  BY <1>1 DEF AnswerAt, Reading
<1>3. Known(client)' = Known(client) /\ Known(server)' = Known(server)
  BY <1>2 DEF Known
<1>4. /\ PendingAt(c)' /\ AnswersAt(c, a)'
      /\ \A v \in Versions : Unsubmitted(v) => Unsubmitted(v)'
  BY <1>1, <1>2, <1>3, FramesKept DEF Reading
<1>5. ClientAt(c)'
  BY <1>2 DEF PairedAt, ClientAt, StandsAt, FileAt, Save
<1>6. ServerAt(c, a)'
  BY <1>2, <1>3 DEF PairedAt, ServerAt, StandsAt
<1>7. GivenUpAt(c)'
  BY <1>2, <1>4 DEF PairedAt, GivenUpAt
<1> QED BY <1>1, <1>4, <1>5, <1>6, <1>7 DEF PairedAt

LEMMA ReceivePairs ==
  ASSUME Timeout < ValidationPeriod, TypeInv, PairInv, Receive
  PROVE  PairInv'
<1>1. PICK c \in Versions, a \in 0 .. MaxVersion : PairedAt(c, a)
  BY DEF PairInv, Unborn, Receive
<1>2. PICK m : m = Head(replies)
  OBVIOUS
<1>3. Reading(m)
  <2>1. replies \in Seq(Reply) /\ replies # <<>> /\ replies' = Tail(replies)
    BY DEF Receive, TypeInv, FramesOK
  <2>2. m \in Answers
    BY <1>2, <2>1 DEF Answers
  <2>3. \A i \in 1 .. Len(replies') : i + 1 \in 1 .. Len(replies) /\ replies'[i] = replies[i + 1]
    BY <2>1
  <2>4. Answers' \subseteq Answers
    BY <2>3 DEF Answers
  <2> QED BY <2>2, <2>4 DEF Reading, Receive, CallEnds, serverVars
<1>4. AnswerAt(m, c, a) /\ SubmittedOnce' /\ CallAt(c)' /\ Pending' = Pending /\ Current = c
  BY <1>1, <1>3, ReadingFrame, StandsPlaces DEF PairedAt, ClientAt, Current
<1>5. ASSUME UNCHANGED <<client, enrolled, file>>, pinned' = pinned \/ enrolled
      PROVE  PairInv'
  <2>1. PairedAt(c, a)'
    BY <1>1, <1>3, <1>4, <1>5, StillPaired DEF Reading
  <2> QED BY <2>1 DEF PairInv
<1>6. UNCHANGED clientVars \/ (Mirror(m) /\ m.op = waiting /\ (m.op # "enroll" => m.seal = c))
  BY <1>2, <1>4 DEF Receive
<1>7. CASE UNCHANGED clientVars
  BY <1>5, <1>7 DEF clientVars
<1>8. CASE Mirror(m) /\ m.op = waiting /\ m.op = "enroll"
  <2>1. ~Confirmed(m) /\ ~GivenUp(m)
    BY <1>8 DEF Confirmed, GivenUp
  <2>2. CASE m.ok = TRUE
    <3>1. enrolled' = TRUE /\ UNCHANGED client /\ Save
      BY <1>8, <2>1, <2>2 DEF Mirror
    <3>2. PairedAt(c, a)'
      BY <1>1, <1>3, <1>8, <2>2, <3>1, EnrolledPairs
    <3> QED BY <3>2 DEF PairInv
  <2>3. CASE m.ok = FALSE
    <3>1. m.key = 0
      BY <1>4, <1>8, <2>3 DEF AnswerAt
    <3>2. UNCHANGED <<client, file>> /\ pinned' = pinned
      BY <1>8, <2>1, <2>3, <3>1 DEF Mirror
    <3>3. enrolled' = enrolled
      BY <1>8, <2>3 DEF Mirror, TypeInv, FlagsOK
    <3> QED BY <1>5, <3>2, <3>3
  <2>4. m.ok \in BOOLEAN
    BY <1>3, PendingRequests DEF Reading, Reply
  <2> QED BY <2>2, <2>3, <2>4
<1>9. CASE Mirror(m) /\ m.op = waiting /\ m.op # "enroll" /\ m.seal = c
  <2>1. enrolled /\ enrolled' = enrolled
    BY <1>4, <1>9 DEF AnswerAt, Mirror, TypeInv, FlagsOK
  <2>2. Confirmed(m) \/ GivenUp(m) => pinned' = pinned
    BY <1>9 DEF Mirror, Confirmed, GivenUp
  <2>3. CASE Confirmed(m) /\ MirrorCheckpoint
    BY <1>1, <1>3, <1>9, <2>1, <2>2, <2>3, MirrorCheckpointPairs
  <2>4. CASE GivenUp(m) /\ MirrorRollback
    BY <1>1, <1>3, <1>9, <2>1, <2>2, <2>4, MirrorRollbackPairs
  <2>5. CASE UNCHANGED <<client, file>>
    BY <1>5, <2>1, <2>5
  <2> QED BY <1>9, <2>3, <2>4, <2>5 DEF Mirror
<1> QED BY <1>6, <1>7, <1>8, <1>9

\* Every step keeps the pair together, by the lemmas of its actions.
LEMMA PairStep ==
  ASSUME Timeout < ValidationPeriod, TypeInv, PairInv, [Next]_vars
  PROVE  PairInv'
<1>1. ASSUME Refuse \/ ServerRotates \/ ClientTimeout \/ Disconnect \/ Tick \/ UNCHANGED vars
      PROVE  PairInv'
  <2>1. CASE Unborn
    <3>1. ~Refuse /\ ~ClientTimeout /\ ~Disconnect
      BY <2>1 DEF Unborn, Refuse, ClientTimeout, Disconnect
    <3>2. Unborn'
      BY <1>1, <2>1, <3>1 DEF Unborn, ServerRotates, Tick, vars, serverVars, clientVars, linkVars
    <3> QED BY <3>2 DEF PairInv
  <2>2. ASSUME NEW c \in Versions, NEW a \in 0 .. MaxVersion, PairedAt(c, a)
        PROVE  PairInv'
    BY <1>1, <2>2, OtherStepPairs DEF PairInv
  <2> QED BY <2>1, <2>2 DEF PairInv
<1>2. ASSUME NEW new \in BOOLEAN, Connect(new) PROVE PairInv'
  BY <1>2, ConnectBirth, ConnectAgain DEF PairInv
<1>3. ASSUME SendSubmit PROVE PairInv'
  <2>1. ~Unborn
    BY <1>3 DEF SendSubmit, Ready, Unborn
  <2> QED BY <1>3, <2>1, SubmitPairs DEF PairInv
<1>4. ASSUME NEW op \in {"checkpoint", "rollback", "relay"}, SendOther(op) PROVE PairInv'
  <2>1. ~Unborn
    BY <1>4 DEF SendOther, Ready, Unborn
  <2> QED BY <1>4, <2>1, OtherPairs DEF PairInv
<1>5. CASE ClientNext
  BY <1>1, <1>2, <1>3, <1>4, <1>5, ReceivePairs DEF ClientNext
<1>6. CASE ServerNext
  BY <1>1, <1>6, HandlePairs, OrphanPairs DEF ServerNext
<1> QED BY <1>1, <1>5, <1>6 DEF Next

LEMMA PairInit == Init => PairInv
  BY DEF Init, PairInv, Unborn

\* Whatever the client holds or has stored, the server stands at the same version or
\* at the next one.
LEMMA PairInvSuffices ==
  TypeInv /\ PairInv => ClientNeverAhead /\ NeverLockedOut /\ RolledBackTogether
<1>1. CASE Unborn
  <2>1. ClientNeverAhead /\ NeverLockedOut
    BY <1>1 DEF Unborn, ClientNeverAhead, NeverLockedOut
  <2>2. RolledBackTogether
    BY <1>1 DEF Unborn, RolledBackTogether, EmptyEngine, Absent
  <2> QED BY <2>1, <2>2
<1>2. ASSUME TypeInv, NEW c \in Versions, NEW a \in 0 .. MaxVersion, PairedAt(c, a)
      PROVE  ClientNeverAhead /\ NeverLockedOut /\ RolledBackTogether
  <2>1. StandsAt(client, c) /\ file.enrolled = enrolled /\ file.creds[c] = client[c]
    BY <1>2 DEF PairedAt, ClientAt, FileAt, Versions
  <2>2. Held(client, "ACTIVE") = {c} /\ c \in Held(file.creds, "ACTIVE")
    BY <2>1, StandsPlaces DEF StandsAt, Held
  <2>3. ASSUME enrolled
        PROVE  /\ server[c].status \in {"ACTIVE", "FALLBACK"}
               /\ client[c].expiration <= server[c].expiration
    <3>1. StandsAt(server, a) /\ a \in {c, c + 1} /\ a \in Versions
      BY <1>2, <2>3 DEF PairedAt, ServerAt, Versions
    <3>2. server[c].status \in {"ACTIVE", "FALLBACK"}
      BY <3>1 DEF StandsAt, Versions
    <3>3. c \in Known(server) /\ c >= c
      BY <3>2 DEF Known, Versions
    <3> QED BY <1>2, <3>2, <3>3 DEF PairedAt, ServerAt
  <2>4. ClientNeverAhead
    BY <2>2, <2>3 DEF ClientNeverAhead
  <2>5. NeverLockedOut
    <3>1. client[c].expiration \in Nat /\ server[c].expiration \in Nat /\ now \in Nat
      BY <1>2 DEF TypeInv, EnginesOK, TimesOK, Windowed, Engines, Credential
    <3>2. enrolled => Expired(client[c], now) \/ Usable(server, c, now)
      BY <2>3, <3>1 DEF Expired, Usable
    <3> QED BY <2>1, <2>2, <3>2 DEF NeverLockedOut, LetIn
  <2>6. RolledBackTogether
    <3> SUFFICES ASSUME NEW v \in Versions,
                        client[v].status = "TERMINATED", client[v].activation = NoTime
                 PROVE  server[v].status \notin {"VALIDATING", "ACTIVE"}
      BY DEF RolledBackTogether
    <3>1. v = c + 1
      BY <2>1 DEF StandsAt, Versions
    <3> QED BY <1>2, <3>1 DEF PairedAt, GivenUpAt, Unsubmitted
  <2> QED BY <2>4, <2>5, <2>6
<1> QED BY <1>1, <1>2 DEF PairInv

\* The three properties from the one inductive invariant.
LEMMA PairCorrect ==
  ASSUME Timeout < ValidationPeriod
  PROVE  Spec => [](ClientNeverAhead /\ NeverLockedOut /\ RolledBackTogether)
<1>1. Init => TypeInv /\ PairInv
  BY TypeInit, PairInit
<1>2. TypeInv /\ PairInv /\ [Next]_vars => (TypeInv /\ PairInv)'
  BY TypeStep, PairStep
<1>3. TypeInv /\ PairInv => ClientNeverAhead /\ NeverLockedOut /\ RolledBackTogether
  BY PairInvSuffices
<1> QED BY <1>1, <1>2, <1>3, PTL DEF Spec

\* A client whose calls give up before half a rotation period never uses a
\* credential the server has not promoted.
THEOREM ClientStaysBehind ==
  ASSUME Timeout < ValidationPeriod
  PROVE  Spec => []ClientNeverAhead
  BY PairCorrect, PTL

\* Under the same hypothesis neither the credential in memory nor the one in the
\* file is ever refused before its owner holds it to have expired.
THEOREM OwnerStaysLetIn ==
  ASSUME Timeout < ValidationPeriod
  PROVE  Spec => []NeverLockedOut
  BY PairCorrect, PTL

\* And a successor the client has given up is never put into use by the server.
THEOREM GivenUpTogether ==
  ASSUME Timeout < ValidationPeriod
  PROVE  Spec => []RolledBackTogether
  BY PairCorrect, PTL

==============================================================================
