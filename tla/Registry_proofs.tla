--------------------------- MODULE Registry_proofs ---------------------------
(***************************************************************************)
(* What holds of the registry's rows for every number of serving threads,  *)
(* tokens and versions: the interleavings of the threads can lose an       *)
(* update, but never a row, and let one enrollment through.                *)
(***************************************************************************)
EXTENDS Registry, RotationOps_proofs, FiniteSetTheorems

Pcs == {"idle", "claim", "provision", "request", "save"}

LEMMA NoJobTyped == NoJob \in Job /\ NoJob.purpose = "NONE"
  BY RegistryAssumption, RotationAssumption DEF NoJob, Job, Purposes

\* The engine a thread is left with, and what it carries, are well formed.
LEMMA DoneTypes ==
  ASSUME TypeOK, NEW t \in Threads, Done(t)
  PROVE  /\ pc' \in [Threads -> Pcs]
         /\ local' \in [Threads -> Engines]
         /\ job' \in [Threads -> Job]
<1>1. EmptyEngine \in Engines
  BY DEF EmptyEngine, Engines, Absent, Credential, Statuses, NoTime
<1> QED BY <1>1, NoJobTyped DEF TypeOK, DataTyped, Done, Pcs

LEMMA LoadTypes ==
  ASSUME TypeOK, NEW t \in Threads, NEW can, NEW after, can => after \in Engines,
         NEW v \in 0 .. MaxVersion, Load(t, can, after, v)
  PROVE  /\ pc' \in [Threads -> Pcs]
         /\ local' \in [Threads -> Engines]
         /\ job' \in [Threads -> Job]
<1>1. CASE can
  <2>1. [job[t] EXCEPT !.version = v] \in Job
    BY DEF TypeOK, DataTyped, Job
  <2> QED BY <1>1, <2>1 DEF Load, TypeOK, DataTyped, Pcs
<1>2. CASE ~can
  BY <1>2, DoneTypes DEF Load
<1> QED BY <1>1, <1>2

\* The rows, the tokens and the threads' copies of them stay well formed.
LEMMA TypeStep == TypeOK /\ [Next]_vars => TypeOK'
<1> SUFFICES ASSUME TypeOK, [Next]_vars PROVE DataTyped'
  BY DEF TypeOK, Next, Noted, vars
<1> USE RotationAssumption, RegistryAssumption
<1>0. Versions \subseteq 0 .. MaxVersion /\ 0 \in 0 .. MaxVersion
  BY DEF Versions
<1>1. ASSUME NEW k \in Tokens, NEW p \in Purposes \ {"NONE"}, NEW b \in BOOLEAN,
             IssueToken(k, p, b)
      PROVE  DataTyped'
  BY <1>1 DEF TypeOK, DataTyped, IssueToken, Token, Purposes
<1>2. ASSUME NEW t \in Threads, NEW k \in Tokens, NEW v \in Versions, ReadToken(t, k, v)
      PROVE  DataTyped'
  <2>1. [purpose |-> tokens[k].purpose, token |-> k, version |-> v, at |-> now] \in Job
    BY <1>0 DEF TypeOK, DataTyped, Job, Token
  <2> QED BY <1>2, <2>1 DEF TypeOK, DataTyped, ReadToken
<1>3. ASSUME NEW t \in Threads, Claim(t) PROVE DataTyped'
  <2>1. job[t].token \in Tokens /\ local[t] \in Engines
    BY DEF TypeOK, DataTyped, Job
  <2>2. RevokedUsable(local[t]) \in Engines
    BY <2>1 DEF TypeOK, DataTyped, RevokedUsable, Engines, Credential, Statuses, RetiredStatuses
  <2>3. creds' \in Engines /\ enrolled' \in BOOLEAN /\ now' \in Nat
    BY <1>3, <2>2 DEF Claim, TypeOK, DataTyped
  <2>4. tokens' \in [Tokens -> Token]
    <3>1. [tokens[job[t].token] EXCEPT !.used = TRUE] \in Token
      BY <2>1 DEF TypeOK, DataTyped, Token
    <3>2. \/ tokens' = tokens
          \/ tokens' = [tokens EXCEPT ![job[t].token] =
                           [tokens[job[t].token] EXCEPT !.used = TRUE]]
      BY <1>3 DEF Claim
    <3> QED BY <2>1, <3>1, <3>2 DEF TypeOK, DataTyped
  <2>5. /\ pc' \in [Threads -> Pcs]
        /\ local' \in [Threads -> Engines]
        /\ job' \in [Threads -> Job]
    BY <1>3, DoneTypes DEF Claim, TypeOK, DataTyped, Pcs
  <2> QED BY <2>3, <2>4, <2>5 DEF TypeOK, DataTyped, Pcs
<1>4. ASSUME NEW t \in Threads, LoadProvision(t) PROVE DataTyped'
  <2> DEFINE v == job[t].version
  <2>1. v \in 0 .. MaxVersion /\ job[t].at \in Nat
    BY DEF TypeOK, DataTyped, Job
  <2>2. Provisioned(creds, v, job[t].at) \in Engines
    <3>1. job[t].at + TotalValidity \in Nat
      BY <2>1, Periods
    <3>2. [status |-> "ACTIVE", created |-> job[t].at, deadline |-> NoTime,
           activation |-> job[t].at, expiration |-> job[t].at + TotalValidity] \in Credential
      BY <2>1, <3>1 DEF Credential, Statuses, WindowStatuses, NoTime
    <3> QED BY <3>2 DEF Provisioned, TypeOK, DataTyped, Engines
  <2>3. Load(t, CanProvision(creds, v), Provisioned(creds, v, job[t].at), v)
    BY <1>4 DEF LoadProvision
  <2> QED BY <1>4, <2>1, <2>2, <2>3, LoadTypes DEF LoadProvision, TypeOK, DataTyped, Pcs
<1>5. ASSUME NEW t \in Threads, Authenticate(t) PROVE DataTyped'
  BY <1>5 DEF TypeOK, DataTyped, Authenticate
<1>6. ASSUME NEW t \in Threads, NEW v \in Versions, NEW signer \in Versions,
             LoadSubmit(t, v, signer)
      PROVE  DataTyped'
  <2>1. Submitted(creds, v, now) \in Engines
    BY TransitionTypes DEF TypeOK, DataTyped
  <2> QED BY <1>0, <1>6, <2>1, LoadTypes DEF LoadSubmit, TypeOK, DataTyped, Pcs
<1>7. ASSUME NEW t \in Threads, LoadCheckpoint(t) PROVE DataTyped'
  <2>1. Promoted(creds, now) \in Engines
    BY PromotedType DEF TypeOK, DataTyped
  <2> QED BY <1>0, <1>7, <2>1, LoadTypes DEF LoadCheckpoint, TypeOK, DataTyped, Pcs
<1>8. ASSUME NEW t \in Threads, LoadRollback(t) PROVE DataTyped'
  <2>1. RolledBack(creds) \in Engines
    BY DEF TypeOK, DataTyped, RolledBack, WithStatus, Engines, Credential, Statuses, RetiredStatuses
  <2> QED BY <1>0, <1>8, <2>1, LoadTypes DEF LoadRollback, TypeOK, DataTyped, Pcs
<1>9. ASSUME NEW t \in Threads, NEW v \in Versions, LoadRevoke(t, v) PROVE DataTyped'
  <2>1. Revoked(creds, v) \in Engines
    BY TransitionTypes DEF TypeOK, DataTyped
  <2> QED BY <1>0, <1>9, <2>1, LoadTypes DEF LoadRevoke, TypeOK, DataTyped, Pcs
<1>10. ASSUME NEW t \in Threads, LoadExpireAll(t) PROVE DataTyped'
  <2>1. ExpiredAll(creds, now) \in Engines
    BY DEF TypeOK, DataTyped, ExpiredAll, Engines, Credential, Statuses, RetiredStatuses
  <2> QED BY <1>0, <1>10, <2>1, LoadTypes DEF LoadExpireAll, TypeOK, DataTyped, Pcs
<1>11. ASSUME NEW t \in Threads, Save(t) PROVE DataTyped'
  <2>1. Overlaid(creds, local[t]) \in Engines
    BY DEF TypeOK, DataTyped, Overlaid, Engines
  <2> QED BY <1>11, <2>1, DoneTypes DEF Save, TypeOK, DataTyped, Pcs
<1>12. ASSUME Crash PROVE DataTyped'
  <2>1. EmptyEngine \in Engines
    BY DEF EmptyEngine, Engines, Absent, Credential, Statuses, NoTime
  <2> QED BY <1>12, <2>1, NoJobTyped DEF Crash, TypeOK, DataTyped
<1>13. ASSUME Tick PROVE DataTyped'
  BY <1>13 DEF Tick, TypeOK, DataTyped
<1>14. CASE UNCHANGED vars
  BY <1>14 DEF vars, TypeOK, DataTyped
<1> QED BY <1>1, <1>2, <1>3, <1>4, <1>5, <1>6, <1>7, <1>8, <1>9, <1>10, <1>11, <1>12,
           <1>13, <1>14 DEF Next, Serve, Enrollment, Rotation

\* The database and the threads' state are well formed in every interleaving.
THEOREM RegistryTypeCorrect == Spec => []TypeOK
<1>1. Init => TypeOK
  <2>1. EmptyEngine \in Engines
    BY DEF EmptyEngine, Engines, Absent, Credential, Statuses, NoTime
  <2>2. NoToken \in Token
    BY DEF NoToken, Token, Purposes
  <2> SUFFICES ASSUME Init PROVE TypeOK
    OBVIOUS
  <2>3. creds \in Engines /\ local \in [Threads -> Engines]
    BY <2>1 DEF Init
  <2>4. tokens \in [Tokens -> Token] /\ job \in [Threads -> Job]
    BY <2>2, NoJobTyped DEF Init
  <2>5. /\ enrolled \in BOOLEAN /\ overlapped \in BOOLEAN /\ now \in Nat
        /\ pc \in [Threads -> {"idle", "claim", "provision", "request", "save"}]
    BY DEF Init
  <2> QED BY <2>3, <2>4, <2>5 DEF TypeOK, DataTyped
<1> QED BY <1>1, TypeStep, PTL DEF Spec

-------------------------------------------------------------------------------

\* The insert of the identity row is what decides an enrollment: a thread past
\* it has seen the row written, and no other enrollment passes it afterwards.
EnrollInv == /\ \A t \in Threads : Enrolling(t) => enrolled
             /\ \A t \in Threads : pc[t] \in {"idle", "request"} => job[t].purpose = "NONE"
             /\ OneEnrollment

\* Every step but the claim leaves the identity row and brings no thread into
\* an enrollment.
NoNewcomer == /\ enrolled' = enrolled
              /\ \A u \in Threads : Enrolling(u)' => Enrolling(u)
              /\ \A u \in Threads : pc'[u] \in {"idle", "request"} => job'[u].purpose = "NONE"

LEMMA NoNewcomerPreserves == EnrollInv /\ NoNewcomer => EnrollInv'
  BY DEF EnrollInv, NoNewcomer, OneEnrollment

LEMMA DoneIsNoNewcomer ==
  ASSUME TypeOK, EnrollInv, NEW t \in Threads, Done(t), enrolled' = enrolled
  PROVE  NoNewcomer
  BY NoJobTyped DEF TypeOK, DataTyped, EnrollInv, Done, NoNewcomer, Enrolling

LEMMA LoadIsNoNewcomer ==
  ASSUME TypeOK, EnrollInv, NEW t \in Threads, NEW can, NEW after, NEW v,
         Load(t, can, after, v), enrolled' = enrolled,
         pc[t] \in {"idle", "provision", "request"}
  PROVE  NoNewcomer
<1>1. CASE can
  <2>1. /\ pc' = [pc EXCEPT ![t] = "save"]
        /\ job' = [job EXCEPT ![t].version = v]
    BY <1>1 DEF Load
  <2>2. \A u \in Threads : job'[u].purpose = job[u].purpose
    BY <2>1 DEF TypeOK, DataTyped, Job
  <2>3. \A u \in Threads : Enrolling(u)' => Enrolling(u)
    BY <2>1, <2>2 DEF TypeOK, DataTyped, EnrollInv, Enrolling
  <2>4. \A u \in Threads : pc'[u] \in {"idle", "request"} => job'[u].purpose = "NONE"
    BY <2>1, <2>2 DEF TypeOK, DataTyped, EnrollInv
  <2> QED BY <2>3, <2>4 DEF NoNewcomer
<1>2. CASE ~can
  BY <1>2, DoneIsNoNewcomer DEF Load
<1> QED BY <1>1, <1>2

LEMMA ClaimPreserves ==
  ASSUME TypeOK, EnrollInv, NEW t \in Threads, Claim(t)
  PROVE  EnrollInv'
<1>1. CASE Done(t) /\ enrolled' = enrolled
  BY <1>1, DoneIsNoNewcomer, NoNewcomerPreserves
<1>2. CASE ~(Done(t) /\ enrolled' = enrolled)
  <2>1. /\ job[t].purpose = "ENROLL" => ~enrolled
        /\ enrolled' = TRUE
    BY <1>2 DEF Claim
  <2>2. CASE Done(t)
    <3>1. \A u \in Threads : Enrolling(u)' => Enrolling(u)
      BY <2>2, NoJobTyped DEF TypeOK, DataTyped, Done, Enrolling
    <3>2. \A u \in Threads : pc'[u] \in {"idle", "request"} => job'[u].purpose = "NONE"
      BY <2>2, NoJobTyped DEF TypeOK, DataTyped, Done, EnrollInv
    <3> QED BY <2>1, <3>1, <3>2 DEF EnrollInv, OneEnrollment
  <2>3. CASE pc' = [pc EXCEPT ![t] = "provision"] /\ job' = job
    <3>1. \A u \in Threads \ {t} : Enrolling(u)' => Enrolling(u)
      BY <2>3 DEF TypeOK, DataTyped, Enrolling
    <3>2. Enrolling(t)' => \A u \in Threads : ~Enrolling(u)
      BY <2>1, <2>3 DEF EnrollInv, Enrolling
    <3>3. \A u \in Threads : pc'[u] \in {"idle", "request"} => job'[u].purpose = "NONE"
      BY <2>3 DEF TypeOK, DataTyped, EnrollInv
    <3> QED BY <2>1, <3>1, <3>2, <3>3 DEF EnrollInv, OneEnrollment
  <2> QED BY <1>2, <2>1, <2>2, <2>3 DEF Claim
<1> QED BY <1>1, <1>2

LEMMA EnrollStep == TypeOK /\ EnrollInv /\ [Next]_vars => EnrollInv'
<1> SUFFICES ASSUME TypeOK, EnrollInv, [Next]_vars PROVE EnrollInv'
  OBVIOUS
<1>1. ASSUME NEW t \in Threads, Claim(t) PROVE EnrollInv'
  BY <1>1, ClaimPreserves
<1>2. ASSUME NEW k \in Tokens, NEW p \in Purposes \ {"NONE"}, NEW b \in BOOLEAN,
             IssueToken(k, p, b)
      PROVE  NoNewcomer
  BY <1>2 DEF IssueToken, NoNewcomer, EnrollInv, Enrolling
<1>3. ASSUME NEW t \in Threads, NEW k \in Tokens, NEW v \in Versions, ReadToken(t, k, v)
      PROVE  NoNewcomer
  BY <1>3 DEF ReadToken, NoNewcomer, EnrollInv, Enrolling, TypeOK, DataTyped
<1>4. ASSUME NEW t \in Threads, LoadProvision(t) PROVE NoNewcomer
  BY <1>4, LoadIsNoNewcomer DEF LoadProvision
<1>5. ASSUME NEW t \in Threads, Authenticate(t) PROVE NoNewcomer
  BY <1>5 DEF Authenticate, NoNewcomer, EnrollInv, Enrolling, TypeOK, DataTyped
<1>6. ASSUME NEW t \in Threads, NEW v \in Versions, NEW signer \in Versions,
             LoadSubmit(t, v, signer)
      PROVE  NoNewcomer
  BY <1>6, LoadIsNoNewcomer DEF LoadSubmit
<1>7. ASSUME NEW t \in Threads, LoadCheckpoint(t) PROVE NoNewcomer
  BY <1>7, LoadIsNoNewcomer DEF LoadCheckpoint
<1>8. ASSUME NEW t \in Threads, LoadRollback(t) PROVE NoNewcomer
  BY <1>8, LoadIsNoNewcomer DEF LoadRollback
<1>9. ASSUME NEW t \in Threads, NEW v \in Versions, LoadRevoke(t, v) PROVE NoNewcomer
  BY <1>9, LoadIsNoNewcomer DEF LoadRevoke
<1>10. ASSUME NEW t \in Threads, LoadExpireAll(t) PROVE NoNewcomer
  BY <1>10, LoadIsNoNewcomer DEF LoadExpireAll
<1>11. ASSUME NEW t \in Threads, Save(t) PROVE NoNewcomer
  BY <1>11, DoneIsNoNewcomer DEF Save
<1>12. ASSUME Crash PROVE NoNewcomer
  BY <1>12, NoJobTyped DEF Crash, NoNewcomer, Enrolling
<1>13. ASSUME Tick PROVE NoNewcomer
  BY <1>13 DEF Tick, NoNewcomer, EnrollInv, Enrolling
<1>14. CASE UNCHANGED vars
  <2>1. NoNewcomer
    BY <1>14 DEF vars, NoNewcomer, EnrollInv, Enrolling
  <2> QED BY <2>1, NoNewcomerPreserves
<1>15. CASE Enrollment
  BY <1>1, <1>2, <1>3, <1>4, <1>15, NoNewcomerPreserves DEF Enrollment
<1>16. CASE Rotation
  BY <1>5, <1>6, <1>7, <1>8, <1>9, <1>10, <1>16, NoNewcomerPreserves DEF Rotation
<1>17. CASE \E t \in Threads : Save(t)
  BY <1>11, <1>17, NoNewcomerPreserves
<1> QED BY <1>12, <1>13, <1>14, <1>15, <1>16, <1>17, NoNewcomerPreserves DEF Next, Serve

\* However many threads present tokens at once, at most one of them goes on to
\* provision the identity's first credential.
THEOREM EnrollmentExclusive == Spec => []OneEnrollment
<1>1. Init => EnrollInv
  BY NoJobTyped DEF Init, EnrollInv, Enrolling, OneEnrollment
<1>2. EnrollInv => OneEnrollment
  BY DEF EnrollInv
<1>3. Spec => []TypeOK
  BY RegistryTypeCorrect
<1> QED BY <1>1, <1>2, <1>3, EnrollStep, PTL DEF Spec

-------------------------------------------------------------------------------

\* No interleaving of loads and saves, and no crash, makes a row disappear: a
\* version number that was committed is never free again.
THEOREM NoRowLost == Spec => RowsSurvive
<1>1. ASSUME TypeOK, [Next]_vars PROVE Known(creds) \subseteq Known(creds')
  <2>1. ASSUME NEW t \in Threads, Claim(t) PROVE Known(creds) \subseteq Known(creds')
    <3>1. creds' = creds \/ creds' = RevokedUsable(local[t])
      BY <2>1 DEF Claim
    <3>2. ASSUME NEW v \in Versions, local[t][v].status = "ACTIVE" \/ local[t][v].status = "FALLBACK"
          PROVE  RevokedUsable(local[t])[v].status = "REVOKED"
      <4>0. local[t] \in Engines
        BY <1>1 DEF TypeOK, DataTyped
      <4>1. local[t][v] \in Credential
        BY <4>0 DEF Engines
      <4>2. RevokedUsable(local[t])[v] = [local[t][v] EXCEPT !.status = "REVOKED"]
        BY <3>2 DEF RevokedUsable
      <4> QED BY <4>1, <4>2 DEF Credential
    <3>3. ASSUME NEW v \in Versions,
                 ~(local[t][v].status = "ACTIVE" \/ local[t][v].status = "FALLBACK")
          PROVE  RevokedUsable(local[t])[v] = creds[v]
      BY <3>3 DEF RevokedUsable
    <3> QED BY <3>1, <3>2, <3>3 DEF Known
  <2>2. ASSUME NEW t \in Threads, Save(t) PROVE Known(creds) \subseteq Known(creds')
    <3>1. creds' = creds \/ creds' = Overlaid(creds, local[t])
      BY <2>2 DEF Save
    <3> QED BY <3>1 DEF Known, Overlaid
  <2>3. CASE creds' = creds
    BY <2>3
  <2> QED BY <1>1, <2>1, <2>2, <2>3 DEF Next, Serve, Enrollment, Rotation, vars, IssueToken, ReadToken,
       LoadProvision, Authenticate, LoadSubmit, LoadCheckpoint, LoadRollback, LoadRevoke,
       LoadExpireAll, Crash, Tick
<1>2. TypeOK /\ [Next]_vars => [Known(creds) \subseteq Known(creds')]_vars
  BY <1>1
<1> QED BY <1>2, RegistryTypeCorrect, PTL DEF Spec, RowsSurvive

-------------------------------------------------------------------------------

(***************************************************************************)
(* What holds as long as no two calls have overlapped.                     *)
(***************************************************************************)
Spent == {k \in Tokens : tokens[k].used}

UnsignedOf(cs) == {v \in Known(cs) : cs[v].deadline = NoTime}

CutOff(cs) == Held(cs, "ACTIVE") \cup Held(cs, "FALLBACK") = {}

\* One thread alone is in a call.
Solo == \A t, u \in Threads : pc[t] # "idle" /\ pc[u] # "idle" => t = u

\* What that thread carries fits the rows as they are now: a token read is still
\* unspent, a token spent still pays for one credential more, and the engine it
\* is about to write is one move away from the rows.
Fits(t) ==
  /\ pc[t] = "claim" => /\ local[t] = creds /\ job[t].version \in Versions
                        /\ ~tokens[job[t].token].used
  /\ pc[t] = "provision" => /\ job[t].version \in Versions
                            /\ job[t].purpose = "RECOVER" => CutOff(creds)
                            /\ Cardinality(UnsignedOf(creds)) < Cardinality(Spent)
  /\ pc[t] = "save" => /\ WindowMove(creds, local[t])
                       /\ Cardinality(UnsignedOf(local[t])) <= Cardinality(Spent)

Serial == /\ Solo
          /\ Windowed(creds)
          /\ Cardinality(UnsignedOf(creds)) <= Cardinality(Spent)
          /\ \A t \in Threads : Fits(t)

SerialInv == /\ IsFiniteSet(Spent) /\ now # 0
             /\ overlapped \/ Serial

\* What a move does to the credentials that entered without a signature.
LEMMA UnsignedMoves ==
  ASSUME NEW cs \in Engines, NEW ds \in Engines
  PROVE  /\ Leave(cs, ds) => UnsignedOf(ds) = UnsignedOf(cs)
         /\ \A v2, v3 \in Versions : Advance(cs, ds, v2, v3) => UnsignedOf(ds) = UnsignedOf(cs)
         /\ \A v \in Versions, s \in WindowStatuses :
              Enter(cs, ds, v, s) =>
                UnsignedOf(ds) = IF ds[v].deadline = NoTime THEN UnsignedOf(cs) \cup {v}
                                                           ELSE UnsignedOf(cs)
<1>1. ASSUME Leave(cs, ds) PROVE UnsignedOf(ds) = UnsignedOf(cs)
  BY <1>1 DEF Leave, Leaves, UnsignedOf, Known, RetiredStatuses
<1>2. ASSUME NEW v2 \in Versions, NEW v3 \in Versions, Advance(cs, ds, v2, v3)
      PROVE  UnsignedOf(ds) = UnsignedOf(cs)
  BY <1>2 DEF Advance, Leaves, UnsignedOf, Known, RetiredStatuses
<1>3. ASSUME NEW v \in Versions, NEW s \in WindowStatuses, Enter(cs, ds, v, s)
      PROVE  UnsignedOf(ds) = IF ds[v].deadline = NoTime THEN UnsignedOf(cs) \cup {v}
                                                        ELSE UnsignedOf(cs)
  <2>1. v \notin Known(cs) /\ v \in Known(ds)
    BY <1>3 DEF Enter, Known, Versions
  <2> QED BY <1>3, <2>1 DEF Enter, UnsignedOf, Known
<1> QED BY <1>1, <1>2, <1>3

LEMMA UnsignedFinite ==
  ASSUME NEW cs
  PROVE  /\ IsFiniteSet(UnsignedOf(cs)) /\ Cardinality(UnsignedOf(cs)) \in Nat
         /\ \A v : Cardinality(UnsignedOf(cs) \cup {v}) <= Cardinality(UnsignedOf(cs)) + 1
<1>1. IsFiniteSet(Versions)
  BY RotationAssumption, FS_Interval DEF Versions
<1>2. IsFiniteSet(UnsignedOf(cs))
  BY <1>1, FS_Subset DEF UnsignedOf, Known
<1> QED BY <1>2, FS_AddElement, FS_CardinalityType

\* Writing an engine one move away over the rows gives just that engine.
LEMMA OverlaidMove ==
  ASSUME NEW cs \in Engines, NEW ds \in Engines, WindowMove(cs, ds)
  PROVE  Overlaid(cs, ds) = ds
<1>1. \A v \in Versions \ Known(ds) : ds[v] = cs[v]
  BY MoveKeeps
<1> QED BY <1>1 DEF Overlaid, Engines

\* The commit of a recovery lets the usable credentials leave.
LEMMA RecoveryMoves ==
  ASSUME NEW cs \in Engines, creds = cs
  PROVE  Leave(cs, RevokedUsable(cs)) /\ CutOff(RevokedUsable(cs))
<1>1. \A v \in Versions : cs[v] \in Credential
  BY DEF Engines
<1>2. ASSUME NEW v \in Versions
      PROVE  /\ Leaves(cs, RevokedUsable(cs), v)
             /\ RevokedUsable(cs)[v].status \notin {"ACTIVE", "FALLBACK"}
  <2>1. CASE cs[v].status \in {"ACTIVE", "FALLBACK"}
    <3>1. RevokedUsable(cs)[v] = [cs[v] EXCEPT !.status = "REVOKED"]
      BY <2>1 DEF RevokedUsable
    <3> QED BY <1>1, <2>1, <3>1 DEF Leaves, RetiredStatuses, Credential
  <2>2. CASE cs[v].status \notin {"ACTIVE", "FALLBACK"}
    BY <2>2 DEF RevokedUsable, Leaves
  <2> QED BY <2>1, <2>2
<1> QED BY <1>2 DEF Leave, CutOff, Held

\* As long as no calls overlap, a step leaves the rows or makes one move in the
\* window they hold.
LEMMA RowsMove ==
  ASSUME TypeOK, Serial, Next, ~overlapped'
  PROVE  creds' = creds \/ WindowMove(creds, creds')
<1>1. ASSUME NEW t \in Threads, Claim(t) PROVE creds' = creds \/ WindowMove(creds, creds')
  <2>1. local[t] = creds /\ creds \in Engines
    BY <1>1 DEF Serial, Fits, Claim, TypeOK, DataTyped
  <2>2. creds' = creds \/ creds' = RevokedUsable(creds)
    BY <1>1, <2>1 DEF Claim
  <2> QED BY <2>1, <2>2, RecoveryMoves DEF WindowMove
<1>2. ASSUME NEW t \in Threads, Save(t) PROVE creds' = creds \/ WindowMove(creds, creds')
  <2>1. WindowMove(creds, local[t]) /\ creds \in Engines /\ local[t] \in Engines
    BY <1>2 DEF Serial, Fits, Save, TypeOK, DataTyped
  <2>2. Overlaid(creds, local[t]) = local[t]
    BY <2>1, OverlaidMove
  <2> QED BY <1>2, <2>1, <2>2 DEF Save
<1>3. CASE creds' = creds
  BY <1>3
<1> QED BY <1>1, <1>2, <1>3 DEF Next, Serve, Enrollment, Rotation, IssueToken, ReadToken,
       LoadProvision, Authenticate, LoadSubmit, LoadCheckpoint, LoadRollback, LoadRevoke,
       LoadExpireAll, Crash, Tick

\* The thread that acts is the only one in a call, before and after.
LEMMA ActsAlone ==
  ASSUME TypeOK, Solo, Solo', NEW t \in Threads, NEW x, pc' = [pc EXCEPT ![t] = x],
         pc[t] # "idle" \/ x # "idle", Fits(t)'
  PROVE  \A u \in Threads : Fits(u)'
<1>1. ASSUME NEW u \in Threads \ {t} PROVE pc'[u] = "idle"
  BY DEF TypeOK, DataTyped, Solo
<1> QED BY <1>1 DEF Fits

\* A call that loads the rows and computes a move from them.
LEMMA LoadStep ==
  ASSUME TypeOK, Serial, Solo', NEW t \in Threads, NEW can, NEW after, NEW v,
         Load(t, can, after, v), UNCHANGED <<creds, tokens>>, pc[t] # "idle" \/ can,
         can => /\ WindowMove(creds, after)
                /\ Cardinality(UnsignedOf(after)) <= Cardinality(Spent)
  PROVE  Serial'
<1>1. /\ Windowed(creds)' /\ Cardinality(UnsignedOf(creds))' <= Cardinality(Spent)'
      /\ Spent' = Spent
  BY DEF Serial, Windowed, OneEach, InOrder, Held, Known, UnsignedOf, Spent
<1>2. CASE can
  <2>1. /\ pc' = [pc EXCEPT ![t] = "save"] /\ pc'[t] = "save"
        /\ local'[t] = after
    BY <1>2 DEF Load, TypeOK, DataTyped
  <2>2. Fits(t)'
    BY <1>1, <1>2, <2>1 DEF Fits
  <2> QED BY <1>1, <2>1, <2>2, ActsAlone DEF Serial
<1>3. CASE ~can
  <2>1. pc' = [pc EXCEPT ![t] = "idle"] /\ pc'[t] = "idle"
    BY <1>3 DEF Load, Done, TypeOK, DataTyped
  <2>2. Fits(t)'
    BY <2>1 DEF Fits
  <2> QED BY <1>1, <1>3, <2>1, <2>2, ActsAlone DEF Serial
<1> QED BY <1>2, <1>3

\* The spent tokens: a claim adds the one it carries, nothing else changes them.
LEMMA SpentStep ==
  ASSUME TypeOK, Next
  PROVE  \/ Spent' = Spent
         \/ \E t \in Threads : Claim(t) /\ Spent' = Spent \cup {job[t].token}
<1>1. ASSUME NEW k \in Tokens, NEW p \in Purposes \ {"NONE"}, NEW b \in BOOLEAN,
             IssueToken(k, p, b)
      PROVE  Spent' = Spent
  <2>1. ~tokens[k].used /\ ~tokens'[k].used
    BY <1>1 DEF IssueToken, NoToken, TypeOK, DataTyped
  <2>2. \A j \in Tokens \ {k} : tokens'[j] = tokens[j]
    BY <1>1 DEF IssueToken, TypeOK, DataTyped
  <2> QED BY <2>1, <2>2 DEF Spent
<1>2. ASSUME NEW t \in Threads, Claim(t)
      PROVE  Spent' = Spent \/ Spent' = Spent \cup {job[t].token}
  <2> DEFINE k == job[t].token
  <2>1. k \in Tokens /\ tokens[k] \in Token
    BY DEF TypeOK, DataTyped, Job
  <2>2. tokens' = tokens \/ tokens' = [tokens EXCEPT ![k] = [tokens[k] EXCEPT !.used = TRUE]]
    BY <1>2 DEF Claim
  <2>3. [tokens[k] EXCEPT !.used = TRUE].used = TRUE
    BY <2>1 DEF Token
  <2> HIDE DEF k
  <2>4. CASE tokens' = [tokens EXCEPT ![k] = [tokens[k] EXCEPT !.used = TRUE]]
    <3>1. /\ tokens'[k] = [tokens[k] EXCEPT !.used = TRUE]
          /\ \A j \in Tokens \ {k} : tokens'[j] = tokens[j]
      BY <2>1, <2>4 DEF TypeOK, DataTyped
    <3>2. tokens'[k].used
      BY <2>3, <3>1
    <3>3. Spent' = Spent \cup {k}
      BY <2>1, <3>1, <3>2 DEF Spent
    <3> QED BY <3>3 DEF k
  <2>5. CASE tokens' = tokens
    BY <2>5 DEF Spent
  <2> QED BY <2>2, <2>4, <2>5
<1>3. CASE tokens' = tokens
  BY <1>3 DEF Spent
<1> QED BY <1>1, <1>2, <1>3 DEF Next, Serve, Enrollment, Rotation, ReadToken,
       LoadProvision, Authenticate, LoadSubmit, LoadCheckpoint, LoadRollback, LoadRevoke,
       LoadExpireAll, Save, Crash, Tick

\* A claim spends its token before the credential it pays for is inserted, and a
\* recovery has cut off the old ones by then.
LEMMA ClaimSerial ==
  ASSUME TypeOK, IsFiniteSet(Spent), Serial, Solo', Windowed(creds)', NEW t \in Threads, Claim(t)
  PROVE  Serial'
<1> DEFINE k == job[t].token
<1>1. /\ local[t] = creds /\ job[t].version \in Versions /\ ~tokens[k].used
      /\ k \in Tokens /\ tokens[k] \in Token /\ creds \in Engines /\ pc[t] = "claim"
  BY DEF Serial, Fits, Claim, TypeOK, DataTyped, Job
<1>2. CASE Done(t) /\ UNCHANGED <<creds, enrolled, tokens>>
  <2>1. pc' = [pc EXCEPT ![t] = "idle"] /\ pc'[t] = "idle"
    BY <1>2 DEF Done, TypeOK, DataTyped
  <2>2. Cardinality(UnsignedOf(creds))' <= Cardinality(Spent)'
    BY <1>2 DEF Serial, UnsignedOf, Known, Spent
  <2>3. Fits(t)'
    BY <2>1 DEF Fits
  <2> QED BY <1>1, <2>1, <2>2, <2>3, ActsAlone DEF Serial
<1>3. CASE ~(Done(t) /\ UNCHANGED <<creds, enrolled, tokens>>)
  <2>1. /\ tokens' = [tokens EXCEPT ![k] = [tokens[k] EXCEPT !.used = TRUE]]
        /\ creds' = IF job[t].purpose = "RECOVER" THEN RevokedUsable(creds) ELSE creds
        /\ \/ Done(t)
           \/ pc' = [pc EXCEPT ![t] = "provision"] /\ UNCHANGED <<local, job>>
    BY <1>1, <1>3 DEF Claim
  <2>2. Spent' = Spent \cup {k}
    <3>1. [tokens[k] EXCEPT !.used = TRUE].used = TRUE
      BY <1>1 DEF Token
    <3> HIDE DEF k
    <3>2. /\ tokens'[k] = [tokens[k] EXCEPT !.used = TRUE]
          /\ \A j \in Tokens \ {k} : tokens'[j] = tokens[j]
      BY <1>1, <2>1 DEF TypeOK, DataTyped
    <3>3. tokens'[k].used
      BY <3>1, <3>2
    <3> QED BY <1>1, <3>2, <3>3 DEF Spent
  <2>3. Cardinality(Spent') = Cardinality(Spent) + 1
    <3>1. k \notin Spent
      BY <1>1 DEF Spent
    <3> QED BY <2>2, <3>1, FS_AddElement
  <2>4. Cardinality(Spent) \in Nat
    BY FS_CardinalityType
  <2>5. UnsignedOf(creds') = UnsignedOf(creds)
    <3>1. CASE creds' = creds
      BY <3>1
    <3>2. CASE creds' = RevokedUsable(creds)
      <4>1. Leave(creds, creds') /\ creds' \in Engines
        BY <1>1, <3>2, RecoveryMoves DEF Windowed
      <4> QED BY <1>1, <4>1, UnsignedMoves
    <3> QED BY <2>1, <3>1, <3>2
  <2>6. Cardinality(UnsignedOf(creds')) < Cardinality(Spent')
    <3>1. Cardinality(UnsignedOf(creds)) \in Nat
      BY UnsignedFinite
    <3> QED BY <2>3, <2>4, <2>5, <3>1 DEF Serial
  <2>7. Cardinality(UnsignedOf(creds')) <= Cardinality(Spent')
    <3>1. Cardinality(UnsignedOf(creds')) \in Nat /\ Cardinality(Spent') \in Nat
      BY <2>3, <2>4, UnsignedFinite
    <3> QED BY <2>6, <3>1
  <2>8. CASE Done(t)
    <3>1. pc' = [pc EXCEPT ![t] = "idle"] /\ pc'[t] = "idle"
      BY <2>8 DEF Done, TypeOK, DataTyped
    <3>2. Fits(t)'
      BY <3>1 DEF Fits
    <3> QED BY <1>1, <2>7, <3>1, <3>2, ActsAlone DEF Serial, UnsignedOf, Known
  <2>9. CASE pc' = [pc EXCEPT ![t] = "provision"] /\ UNCHANGED <<local, job>>
    <3>1. pc'[t] = "provision" /\ job' = job
      BY <2>9 DEF TypeOK, DataTyped
    <3>2. job[t].purpose = "RECOVER" => CutOff(creds')
      BY <1>1, <2>1, RecoveryMoves
    <3>3. Fits(t)'
      BY <1>1, <2>6, <3>1, <3>2 DEF Fits, UnsignedOf, Known, CutOff, Held
    <3> QED BY <1>1, <2>7, <2>9, <3>3, ActsAlone DEF Serial, UnsignedOf, Known
  <2> QED BY <2>1, <2>8, <2>9
<1> QED BY <1>2, <1>3

\* The loads: each leaves the thread with an engine one move away from the rows,
\* and only the one that inserts a first or recovered credential has to be paid.
LEMMA LoadsSerial ==
  ASSUME TypeOK, now # 0, IsFiniteSet(Spent), Serial, Solo', NEW t \in Threads,
         \/ LoadProvision(t) \/ LoadCheckpoint(t) \/ LoadRollback(t) \/ LoadExpireAll(t)
         \/ \E v, signer \in Versions : LoadSubmit(t, v, signer) \/ LoadRevoke(t, v)
  PROVE  Serial'
<1>0. /\ Windowed(creds) /\ creds \in Engines /\ now \in Nat /\ now # 0
      /\ Cardinality(UnsignedOf(creds)) <= Cardinality(Spent)
      /\ Cardinality(UnsignedOf(creds)) \in Nat /\ Cardinality(Spent) \in Nat
  BY UnsignedFinite, FS_CardinalityType DEF Serial, TypeOK, DataTyped
<1>1. ASSUME NEW ds \in Engines,
             Leave(creds, ds) \/ \E v2, v3 \in Versions : Advance(creds, ds, v2, v3)
      PROVE  WindowMove(creds, ds) /\ Cardinality(UnsignedOf(ds)) <= Cardinality(Spent)
  <2>1. UnsignedOf(ds) = UnsignedOf(creds)
    BY <1>0, <1>1, UnsignedMoves
  <2> QED BY <1>0, <1>1, <2>1 DEF WindowMove
<1>2. CASE LoadProvision(t)
  <2> DEFINE v == job[t].version
             ds == Provisioned(creds, v, job[t].at)
  <2>1. /\ v \in Versions /\ job[t].at \in Nat /\ pc[t] = "provision"
        /\ Cardinality(UnsignedOf(creds)) < Cardinality(Spent)
    BY <1>2 DEF LoadProvision, Serial, Fits, TypeOK, DataTyped, Job
  <2>2. ds \in Engines
    BY <1>0, <2>1, TransitionTypes
  <2>3. ASSUME CanProvision(creds, v)
        PROVE  WindowMove(creds, ds) /\ Cardinality(UnsignedOf(ds)) <= Cardinality(Spent)
    <3>1. Enter(creds, ds, v, "ACTIVE") /\ ds[v].deadline = NoTime
      BY <1>0, <2>1, <2>3, ProvisionMoves
    <3>2. WindowMove(creds, ds)
      BY <2>1, <3>1 DEF WindowMove, WindowStatuses
    <3> HIDE DEF ds, v
    <3>3. UnsignedOf(ds) = UnsignedOf(creds) \cup {v}
      BY <1>0, <2>1, <2>2, <3>1, UnsignedMoves DEF WindowStatuses
    <3>4. Cardinality(UnsignedOf(ds)) <= Cardinality(UnsignedOf(creds)) + 1
      BY <3>3, UnsignedFinite
    <3>5. Cardinality(UnsignedOf(ds)) \in Nat
      BY UnsignedFinite
    <3> QED BY <1>0, <2>1, <3>2, <3>4, <3>5
  <2>4. Load(t, CanProvision(creds, v), ds, v)
    BY <1>2 DEF LoadProvision
  <2> HIDE DEF ds, v
  <2> QED BY <1>2, <2>1, <2>3, <2>4, LoadStep DEF LoadProvision
<1>3. CASE LoadCheckpoint(t)
  <2>1. Promoted(creds, now) \in Engines
    BY <1>0, PromotedType
  <2>2. CanPromote(creds, now) =>
          /\ WindowMove(creds, Promoted(creds, now))
          /\ Cardinality(UnsignedOf(Promoted(creds, now))) <= Cardinality(Spent)
    BY <1>0, <1>1, <2>1, PromoteMoves
  <2> QED BY <1>3, <2>2, LoadStep DEF LoadCheckpoint
<1>4. CASE LoadRollback(t)
  <2>1. CanRollBack(creds) => RolledBack(creds) \in Engines
    BY <1>0 DEF RolledBack, WithStatus, Engines, Credential, Statuses, RetiredStatuses
  <2>2. CanRollBack(creds) =>
          /\ WindowMove(creds, RolledBack(creds))
          /\ Cardinality(UnsignedOf(RolledBack(creds))) <= Cardinality(Spent)
    BY <1>0, <1>1, <2>1, OthersMove
  <2> QED BY <1>4, <2>2, LoadStep DEF LoadRollback
<1>5. CASE LoadExpireAll(t)
  <2>1. ExpiredAll(creds, now) \in Engines
    BY <1>0 DEF ExpiredAll, Engines, Credential, Statuses, RetiredStatuses
  <2>2. /\ WindowMove(creds, ExpiredAll(creds, now))
        /\ Cardinality(UnsignedOf(ExpiredAll(creds, now))) <= Cardinality(Spent)
    BY <1>0, <1>1, <2>1, OthersMove
  <2> QED BY <1>5, <2>2, LoadStep DEF LoadExpireAll
<1>6. ASSUME NEW v \in Versions, LoadRevoke(t, v) PROVE Serial'
  <2>1. Revoked(creds, v) \in Engines
    BY <1>0, TransitionTypes
  <2>2. CanRevoke(creds, v) =>
          /\ WindowMove(creds, Revoked(creds, v))
          /\ Cardinality(UnsignedOf(Revoked(creds, v))) <= Cardinality(Spent)
    BY <1>0, <1>1, <2>1, OthersMove
  <2> QED BY <1>6, <2>2, LoadStep DEF LoadRevoke
<1>7. ASSUME NEW v \in Versions, NEW signer \in Versions, LoadSubmit(t, v, signer)
      PROVE  Serial'
  <2> DEFINE ds == Submitted(creds, v, now)
             can == CanSubmit(creds, v, signer, TRUE, now)
  <2>1. ds \in Engines
    BY <1>0, TransitionTypes
  <2>2. ASSUME can
        PROVE  WindowMove(creds, ds) /\ Cardinality(UnsignedOf(ds)) <= Cardinality(Spent)
    <3>1. Enter(creds, ds, v, "VALIDATING") /\ ds[v].deadline = now + ValidationPeriod
      BY <1>0, <2>2, SubmitMoves
    <3>2. ds[v].deadline # NoTime
      BY <1>0, <3>1, Periods DEF NoTime
    <3>3. WindowMove(creds, ds)
      BY <3>1 DEF WindowMove, WindowStatuses
    <3> HIDE DEF ds
    <3>4. UnsignedOf(ds) = UnsignedOf(creds)
      BY <1>0, <2>1, <3>1, <3>2, UnsignedMoves DEF WindowStatuses
    <3> QED BY <1>0, <3>3, <3>4
  <2>3. Load(t, can, ds, v) /\ pc[t] = "request" /\ UNCHANGED <<creds, tokens>>
    BY <1>7 DEF LoadSubmit
  <2> HIDE DEF ds, can
  <2> QED BY <2>2, <2>3, LoadStep
<1> QED BY <1>2, <1>3, <1>4, <1>5, <1>6, <1>7

LEMMA SerialStep == TypeOK /\ SerialInv /\ [Next]_vars => SerialInv'
<1> SUFFICES ASSUME TypeOK, SerialInv, [Next]_vars PROVE SerialInv'
  OBVIOUS
<1>0. TypeOK'
  BY TypeStep
<1>1. CASE UNCHANGED vars
  <2>1. Spent' = Spent /\ UnsignedOf(creds') = UnsignedOf(creds)
    BY <1>1 DEF vars, Spent
  <2>2. Windowed(creds') = Windowed(creds)
    BY <1>1 DEF vars
  <2>3. ASSUME Serial PROVE Serial'
    <3>1. Windowed(creds)'
      BY <2>2, <2>3 DEF Serial, Windowed, OneEach, InOrder, Held, Known
    <3>2. Cardinality(UnsignedOf(creds))' <= Cardinality(Spent)'
      BY <2>1, <2>3 DEF Serial, UnsignedOf, Known
    <3>3. \A t \in Threads : Fits(t)'
      BY <1>1, <2>1, <2>3 DEF vars, Serial, Fits, UnsignedOf, Known, CutOff, Held
    <3> QED BY <1>1, <2>3, <3>1, <3>2, <3>3 DEF Serial, Solo, vars
  <2> QED BY <1>1, <2>1, <2>3 DEF SerialInv, vars
<1>2. CASE Next
  <2>1. IsFiniteSet(Spent)'
    BY <1>2, SpentStep, FS_AddElement DEF SerialInv
  <2>2. now' # 0
    <3>1. now' = now \/ now' = now + 1
      BY <1>2 DEF Next, Serve, Enrollment, Rotation, IssueToken,
         ReadToken, Claim, LoadProvision, Authenticate, LoadSubmit, LoadCheckpoint, LoadRollback,
         LoadRevoke, LoadExpireAll, Save, Crash, Tick
    <3> QED BY <3>1 DEF SerialInv, TypeOK, DataTyped
  <2>3. ASSUME ~overlapped' PROVE Serial'
    <3>0. Serial /\ Solo' /\ now # 0 /\ IsFiniteSet(Spent)
      BY <1>2, <2>3 DEF Next, Noted, SerialInv, Solo
    <3>1. Windowed(creds)'
      <4>1. creds \in Engines /\ creds' \in Engines /\ Windowed(creds)
        BY <1>0, <3>0 DEF TypeOK, DataTyped, Serial
      <4>2. Windowed(creds')
        <5>1. CASE WindowMove(creds, creds')
          BY <4>1, <5>1, MoveKeepsWindow
        <5> QED BY <1>2, <2>3, <3>0, <4>1, <5>1, RowsMove
      <4> QED BY <4>2 DEF Windowed, OneEach, InOrder, Held, Known
    <3>2. ASSUME NEW t \in Threads, Claim(t) PROVE Serial'
      BY <3>0, <3>1, <3>2, ClaimSerial
    <3>3. ASSUME NEW t \in Threads, NEW v \in Versions, NEW signer \in Versions,
                 \/ LoadProvision(t) \/ LoadCheckpoint(t) \/ LoadRollback(t) \/ LoadExpireAll(t)
                 \/ LoadSubmit(t, v, signer) \/ LoadRevoke(t, v)
          PROVE  Serial'
      BY <3>0, <3>3, LoadsSerial
    <3>4. ASSUME NEW k \in Tokens, NEW p \in Purposes \ {"NONE"}, NEW b \in BOOLEAN,
                 IssueToken(k, p, b)
          PROVE  Serial'
      <4>1. Spent' = Spent
        <5>1. ~tokens[k].used /\ ~tokens'[k].used
          BY <3>4 DEF IssueToken, NoToken, TypeOK, DataTyped
        <5>2. \A j \in Tokens \ {k} : tokens'[j] = tokens[j]
          BY <3>4 DEF IssueToken, TypeOK, DataTyped
        <5> QED BY <5>1, <5>2 DEF Spent
      <4>2. \A j \in Tokens : ~tokens[j].used => ~tokens'[j].used
        BY <4>1 DEF Spent
      <4>3. \A t \in Threads : job[t].token \in Tokens
        BY DEF TypeOK, DataTyped, Job
      <4>4. Cardinality(UnsignedOf(creds))' <= Cardinality(Spent)'
        BY <3>0, <3>4, <4>1 DEF IssueToken, Serial, UnsignedOf, Known
      <4>5. \A t \in Threads : Fits(t)'
        BY <3>0, <3>4, <4>1, <4>2, <4>3
           DEF IssueToken, Serial, Fits, UnsignedOf, Known, CutOff, Held
      <4> QED BY <3>0, <3>1, <4>4, <4>5 DEF Serial
    <3>5. ASSUME NEW t \in Threads, NEW k \in Tokens, NEW v \in Versions, ReadToken(t, k, v)
          PROVE  Serial'
      <4>1. /\ pc' = [pc EXCEPT ![t] = "claim"] /\ pc'[t] = "claim"
            /\ local'[t] = creds /\ job'[t].version = v /\ job'[t].token = k
            /\ ~tokens[k].used /\ UNCHANGED <<creds, tokens>>
        BY <3>5 DEF ReadToken, TokenAccepted, TypeOK, DataTyped
      <4>2. Fits(t)'
        BY <4>1 DEF Fits
      <4>3. Cardinality(UnsignedOf(creds))' <= Cardinality(Spent)'
        BY <3>0, <4>1 DEF Serial, UnsignedOf, Known, Spent
      <4> QED BY <3>0, <3>1, <4>1, <4>2, <4>3, ActsAlone DEF Serial
    <3>6. ASSUME NEW t \in Threads, Authenticate(t) PROVE Serial'
      <4>1. /\ pc' = [pc EXCEPT ![t] = "request"] /\ pc'[t] = "request"
            /\ UNCHANGED <<creds, tokens>>
        BY <3>6 DEF Authenticate, TypeOK, DataTyped
      <4>2. Fits(t)'
        BY <4>1 DEF Fits
      <4>3. Cardinality(UnsignedOf(creds))' <= Cardinality(Spent)'
        BY <3>0, <4>1 DEF Serial, UnsignedOf, Known, Spent
      <4> QED BY <3>0, <3>1, <4>1, <4>2, <4>3, ActsAlone DEF Serial
    <3>7. ASSUME NEW t \in Threads, Save(t) PROVE Serial'
      <4>1. /\ pc' = [pc EXCEPT ![t] = "idle"] /\ pc'[t] = "idle" /\ pc[t] = "save"
            /\ UNCHANGED tokens
        BY <3>7 DEF Save, Done, TypeOK, DataTyped
      <4>2. Fits(t)'
        BY <4>1 DEF Fits
      <4>3. creds' = creds \/ creds' = local[t]
        <5>1. WindowMove(creds, local[t]) /\ creds \in Engines /\ local[t] \in Engines
          BY <3>0, <4>1 DEF Serial, Fits, TypeOK, DataTyped
        <5>2. Overlaid(creds, local[t]) = local[t]
          BY <5>1, OverlaidMove
        <5> QED BY <3>7, <5>2 DEF Save
      <4>4. Cardinality(UnsignedOf(creds')) <= Cardinality(Spent)
        BY <3>0, <4>1, <4>3 DEF Serial, Fits
      <4>5. Cardinality(UnsignedOf(creds))' <= Cardinality(Spent)'
        BY <4>1, <4>4 DEF UnsignedOf, Known, Spent
      <4> QED BY <3>0, <3>1, <4>1, <4>2, <4>5, ActsAlone DEF Serial
    <3>8. CASE Crash
      <4>1. \A t \in Threads : Fits(t)'
        BY <3>8 DEF Crash, Fits
      <4>2. Cardinality(UnsignedOf(creds))' <= Cardinality(Spent)'
        BY <3>0, <3>8 DEF Crash, Serial, UnsignedOf, Known, Spent
      <4> QED BY <3>0, <3>1, <4>1, <4>2 DEF Serial
    <3>9. CASE Tick
      <4>1. \A t \in Threads : Fits(t)'
        BY <3>0, <3>9 DEF Tick, Serial, Fits, UnsignedOf, Known, CutOff, Held, Spent
      <4>2. Cardinality(UnsignedOf(creds))' <= Cardinality(Spent)'
        BY <3>0, <3>9 DEF Tick, Serial, UnsignedOf, Known, Spent
      <4> QED BY <3>0, <3>1, <4>1, <4>2 DEF Serial
    <3>10. CASE Rotation
      <4>1. PICK v \in Versions : TRUE
        BY RotationAssumption DEF Versions
      <4> QED BY <3>3, <3>6, <3>10, <4>1 DEF Rotation
    <3>11. CASE Enrollment
      <4>1. PICK v \in Versions : TRUE
        BY RotationAssumption DEF Versions
      <4> QED BY <3>2, <3>3, <3>4, <3>5, <3>11, <4>1 DEF Enrollment
    <3> QED BY <1>2, <3>7, <3>8, <3>9, <3>10, <3>11 DEF Next, Serve
  <2> QED BY <2>1, <2>2, <2>3 DEF SerialInv
<1> QED BY <1>1, <1>2

LEMMA SerialInit == Init => SerialInv
<1> SUFFICES ASSUME Init PROVE SerialInv
  OBVIOUS
<1>1. /\ \A s \in WindowStatuses : Held(creds, s) = {}
      /\ UnsignedOf(creds) = {} /\ Spent = {} /\ creds \in Engines
  BY DEF Init, EmptyEngine, Absent, Held, Known, UnsignedOf, Spent, NoToken, WindowStatuses,
         Engines, Credential, Statuses, NoTime
<1>2. Cardinality(UnsignedOf(creds)) <= Cardinality(Spent) /\ IsFiniteSet(Spent)
  BY <1>1, FS_EmptySet
<1>3. Windowed(creds)
  BY <1>1 DEF Windowed, OneEach, InOrder, WindowStatuses
<1>4. Solo /\ \A t \in Threads : Fits(t)
  BY DEF Init, Solo, Fits
<1> QED BY <1>2, <1>3, <1>4 DEF Init, SerialInv, Serial

LEMMA SerialCorrect == Spec => []SerialInv
  BY SerialInit, SerialStep, RegistryTypeCorrect, PTL DEF Spec

\* Between the two transactions of a recovery nothing authenticates, for any
\* number of versions and crashes, unless another call ran at the same time.
THEOREM RecoveryComplete == Spec => []RecoveryCutsOff
<1>1. SerialInv => RecoveryCutsOff
  BY DEF SerialInv, Serial, Fits, CutOff, RecoveryCutsOff
<1> QED BY <1>1, SerialCorrect, PTL

\* Credentials that entered without a predecessor's signature never outnumber the
\* tokens spent, wherever a crash cuts an enrollment or a recovery.
THEOREM TokensAlwaysPay == Spec => []TokensPayForCredentials
<1>1. SerialInv => TokensPayForCredentials
  BY DEF SerialInv, Serial, UnsignedOf, Spent, TokensPayForCredentials, Unsigned
<1> QED BY <1>1, SerialCorrect, PTL

-------------------------------------------------------------------------------

\* The abstract slot of a status is its only holder, or empty.
SlotOf(cs, s) == CASE Held(cs, s) = {}             -> 0
                   [] Cardinality(Held(cs, s)) = 1 -> First(cs, s)
                   [] OTHER                        -> Crowded

LEMMA SlotOfOne ==
  ASSUME NEW cs, Windowed(cs), NEW s \in WindowStatuses
  PROVE  /\ Held(cs, s) = {} => SlotOf(cs, s) = 0
         /\ \A v \in Held(cs, s) : SlotOf(cs, s) = v
<1>1. ASSUME NEW v \in Held(cs, s) PROVE SlotOf(cs, s) = v
  <2>1. Held(cs, s) = {v}
    BY DEF Windowed, OneEach
  <2>2. First(cs, s) = v
    BY <2>1, FirstOfOne
  <2>3. Cardinality(Held(cs, s)) = 1
    BY <2>1, FS_Singleton
  <2>4. Held(cs, s) # {}
    OBVIOUS
  <2> QED BY <2>2, <2>3, <2>4 DEF SlotOf
<1>2. ASSUME Held(cs, s) = {} PROVE SlotOf(cs, s) = 0
  <2>1. Cardinality(Held(cs, s)) = 0
    BY <1>2, FS_EmptySet
  <2> QED BY <1>2, <2>1 DEF SlotOf
<1> QED BY <1>1, <1>2

\* A move of the rows is a step of the abstract window.
LEMMA MoveSimulates ==
  ASSUME Windowed(creds), Windowed(creds'), WindowMove(creds, creds')
  PROVE  Window!WNext
<1> DEFINE old(s) == SlotOf(creds, s)
           new(s) == SlotOf(creds', s)
<1>0. /\ \A s \in WindowStatuses : Slot(s) = old(s) /\ Slot(s)' = new(s)
      /\ Known(creds)' = Known(creds')
  BY DEF Slot, SlotOf, Held, First, Crowded, Known
<1>1. \A s \in WindowStatuses : /\ Held(creds, s) = {} => old(s) = 0
                                /\ \A v \in Held(creds, s) : old(s) = v
  BY SlotOfOne
<1>2. \A s \in WindowStatuses : /\ Held(creds', s) = {} => new(s) = 0
                                /\ \A v \in Held(creds', s) : new(s) = v
  BY SlotOfOne
<1> HIDE DEF old, new
<1>3. CASE Leave(creds, creds')
  <2>1. /\ \A s \in WindowStatuses : Held(creds', s) \subseteq Held(creds, s)
        /\ Known(creds') = Known(creds)
    BY <1>3, LeaveHolders
  <2>2. \A s \in WindowStatuses : new(s) \in {old(s), 0}
    BY <1>1, <1>2, <2>1
  <2>3. Window!Retire
    BY <1>0, <2>1, <2>2 DEF Window!Retire, Window!Empty, WindowStatuses
  <2> QED BY <2>3 DEF Window!WNext
<1>4. ASSUME NEW v2 \in Versions, NEW v3 \in Versions, Advance(creds, creds', v2, v3)
      PROVE  Window!WNext
  <2>1. /\ Held(creds', "ACTIVE") = {v3} /\ Held(creds', "FALLBACK") = {v2}
        /\ Held(creds', "VALIDATING") = {}
        /\ v2 \in Held(creds, "ACTIVE") /\ v3 \in Held(creds, "VALIDATING")
        /\ Known(creds') = Known(creds)
    BY <1>4, AdvanceHolders
  <2>2. v2 # 0 /\ v3 # 0
    BY DEF Versions
  <2>3. /\ old("ACTIVE") = v2 /\ old("VALIDATING") = v3
        /\ new("ACTIVE") = v3 /\ new("FALLBACK") = v2 /\ new("VALIDATING") = 0
    BY <1>1, <1>2, <2>1 DEF WindowStatuses
  <2>4. Window!Promote
    BY <1>0, <2>1, <2>2, <2>3 DEF Window!Promote, Window!Empty, WindowStatuses
  <2> QED BY <2>4 DEF Window!WNext
<1>5. ASSUME NEW v \in Versions, NEW s \in WindowStatuses, Enter(creds, creds', v, s)
      PROVE  Window!WNext
  <2>1. /\ Held(creds', s) = {v}
        /\ \A r \in WindowStatuses \ {s} : Held(creds', r) = Held(creds, r)
        /\ Known(creds') = Known(creds) \cup {v}
    BY <1>5, EnterHolders
  <2>2. /\ \A r \in WindowStatuses \ {s} : new(r) = old(r)
        /\ new(s) = v /\ old(s) = 0 /\ old("VALIDATING") = 0
    <3>1. \A r \in WindowStatuses \ {s} : new(r) = old(r)
      BY <2>1 DEF old, new, SlotOf, First
    <3>2. "VALIDATING" \in WindowStatuses /\ Held(creds, "VALIDATING") = {} /\ Held(creds, s) = {}
      BY <1>5 DEF Enter, WindowStatuses
    <3> QED BY <1>1, <1>2, <2>1, <3>1, <3>2
  <2>3. \A w \in Known(creds) : w < v
    BY <1>5 DEF Enter
  <2>4. CASE s = "ACTIVE"
    <3>1. Window!Provision(v)
      BY <1>0, <2>1, <2>2, <2>3, <2>4
         DEF Window!Provision, Window!Fresh, Window!Empty, WindowStatuses
    <3> QED BY <3>1 DEF Window!WNext, Versions
  <2>5. CASE s = "VALIDATING"
    <3>1. old("ACTIVE") # 0
      <4>1. PICK a \in Held(creds, "ACTIVE") : TRUE
        BY <1>5, <2>5 DEF Enter
      <4>2. a # 0
        BY <4>1 DEF Held, Versions
      <4> QED BY <1>1, <4>2 DEF WindowStatuses
    <3>2. Window!Introduce(v)
      BY <1>0, <2>1, <2>2, <2>3, <2>5, <3>1
         DEF Window!Introduce, Window!Fresh, Window!Empty, WindowStatuses
    <3> QED BY <3>2 DEF Window!WNext, Versions
  <2> QED BY <1>5, <2>4, <2>5 DEF Enter
<1> QED BY <1>3, <1>4, <1>5 DEF WindowMove

\* As long as calls come one after the other the committed rows, with their two
\* transactions, copies and crashes, implement the abstract rotation window.
THEOREM RowsAreWindow == Spec => RowsImplementWindow
<1>1. Init => Window!WInit
  <2> SUFFICES ASSUME Init PROVE Window!WInit
    OBVIOUS
  <2>1. /\ \A s \in WindowStatuses : Held(creds, s) = {}
        /\ Known(creds) = {}
    BY DEF Init, EmptyEngine, Absent, Held, Known, WindowStatuses
  <2>2. ASSUME NEW s \in WindowStatuses PROVE Slot(s) = 0
    <3>1. Held(creds, s) = {} /\ Cardinality(Held(creds, s)) = 0
      BY <2>1, FS_EmptySet
    <3> QED BY <3>1 DEF Slot
  <2> QED BY <2>1, <2>2 DEF Window!WInit, Window!Empty, WindowStatuses
<1>2. TypeOK /\ SerialInv /\ SerialInv' /\ [Next]_vars => [overlapped' \/ Window!WNext]_(Window!wvars)
  <2> SUFFICES ASSUME TypeOK, SerialInv, SerialInv', [Next]_vars, ~overlapped'
               PROVE  Window!WNext \/ UNCHANGED Window!wvars
    BY DEF Window!wvars
  <2>1. CASE creds' = creds
    BY <2>1 DEF Window!wvars, Slot, Held, First, Known, Crowded
  <2>2. CASE creds' # creds
    <3>1. Next /\ Serial /\ Serial'
      BY <2>2 DEF vars, SerialInv, Next, Noted
    <3>2. Windowed(creds) /\ Windowed(creds') /\ WindowMove(creds, creds')
      <4>1. WindowMove(creds, creds')
        BY <2>2, <3>1, RowsMove
      <4>2. Windowed(creds')
        BY <3>1 DEF Serial, Windowed, OneEach, InOrder, Held, Known
      <4> QED BY <3>1, <4>1, <4>2 DEF Serial
    <3> QED BY <3>2, MoveSimulates
  <2> QED BY <2>1, <2>2
<1> QED BY <1>1, <1>2, SerialCorrect, RegistryTypeCorrect, PTL DEF Spec, RowsImplementWindow
==============================================================================
