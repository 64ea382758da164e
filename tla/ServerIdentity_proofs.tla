------------------------- MODULE ServerIdentity_proofs -------------------------
(***************************************************************************)
(* Theorems about ServerIdentity, for every period, tick, number of        *)
(* starts, of failing writes and of versions.                              *)
(***************************************************************************)
EXTENDS ServerIdentity, RotationOps_proofs, FiniteSetTheorems

LEMMA NothingTyped == EmptyEngine \in Engines /\ NoKeys \in KeyRing
  BY IdentityAssumption DEF EmptyEngine, Engines, Absent, Credential, Statuses, NoTime,
                            NoKeys, KeyRing

LEMMA GenerateTypes ==
  ASSUME TypeOK, NEW v \in Versions, starts' \in 0 .. MaxStarts, Generate(v)
  PROVE  pub' \in KeyRing /\ keys' \in KeyRing
BY DEF TypeOK, Generate, KeyRing

\* The engine of a call of maybe_rotate is well formed, whatever its outcome.
LEMMA RotationTypes ==
  ASSUME TypeOK, MaybeRotate
  PROVE  /\ engine' \in Engines /\ pub' \in KeyRing /\ keys' \in KeyRing
         /\ rows' = rows /\ rowPub' = rowPub /\ keyfile' = keyfile
         /\ pc' \in {"idle", "commit", "demote"}
<1> USE DEF TypeOK
<1>1. CASE SubmitSuccessor
  <2>1. Active + 1 \in Versions
    BY <1>1 DEF SubmitSuccessor, SubmitDue
  <2>2. engine' \in Engines
    BY <1>1, <2>1, TransitionTypes DEF SubmitSuccessor
  <2>3. starts' \in 0 .. MaxStarts
    BY DEF MaybeRotate
  <2> QED BY <1>1, <2>1, <2>2, <2>3, GenerateTypes DEF SubmitSuccessor, disk
<1>2. CASE BeginCheckpoint
  <2>1. WithStatus(engine, First(engine, "FALLBACK"), "TERMINATED") \in Engines
    BY DEF WithStatus, Engines, Credential, Statuses, RetiredStatuses
  <2> QED BY <1>2, <2>1 DEF BeginCheckpoint, disk
<1>3. CASE OutlivedCheckpoint
  <2>1. MarkedOutlived(engine) \in Engines
    BY DEF MarkedOutlived, WithStatus, Engines, Credential, Statuses, RetiredStatuses
  <2> QED BY <1>3, <2>1 DEF OutlivedCheckpoint, MaybeRotate, disk
<1>4. CASE NothingToRotate
  BY <1>4 DEF NothingToRotate, MaybeRotate, disk, memory
<1> QED BY <1>1, <1>2, <1>3, <1>4 DEF MaybeRotate

LEMMA DemoteTypes ==
  ASSUME TypeOK, Demote
  PROVE  engine' \in Engines
<1>1. ASSUME NEW c \in Credential, NEW e \in Nat
      PROVE  [c EXCEPT !.status = "FALLBACK", !.expiration = e] \in Credential
  BY DEF Credential, Statuses, WindowStatuses
<1>2. now + FallbackPeriod \in Nat
  BY Periods DEF TypeOK
<1>3. \A c \in Credential : Later(c.expiration, now + FallbackPeriod) \in Nat
  BY <1>2 DEF Later, Credential
<1>4. engine' = [engine EXCEPT ![Active] =
                   [engine[Active] EXCEPT !.status = "FALLBACK",
                             !.expiration = Later(engine[Active].expiration, now + FallbackPeriod)]]
  BY DEF Demote
<1> QED BY <1>1, <1>3, <1>4 DEF Engines, TypeOK

LEMMA PromoteTypes ==
  ASSUME TypeOK, Promote
  PROVE  engine' \in Engines
<1>1. ASSUME NEW c \in Credential, NEW e \in Nat
      PROVE  [c EXCEPT !.status = "ACTIVE", !.activation = e] \in Credential
  BY DEF Credential, Statuses, WindowStatuses
<1>2. engine' = [engine EXCEPT ![Validating] =
                   [engine[Validating] EXCEPT !.status = "ACTIVE", !.activation = now]]
  BY DEF Promote
<1>3. now \in Nat /\ engine \in [Versions -> Credential]
  BY DEF TypeOK, Engines
<1> QED BY <1>1, <1>2, <1>3 DEF Engines

\* What every step leaves well formed.
LEMMA TypeStep == TypeOK /\ [Next]_vars => TypeOK'
<1> SUFFICES ASSUME TypeOK, [Next]_vars PROVE TypeOK'
  OBVIOUS
<1> USE NothingTyped, IdentityAssumption DEF TypeOK, Steps, Answers, disk, memory, found
<1>1. CASE Start
  <2>1. starts' \in 0 .. MaxStarts /\ lastCall' \in 0 .. MaxTime
        /\ {whole', timely'} \subseteq BOOLEAN
    BY <1>1 DEF Start
  <2>2. CASE StartFresh
    <3>1. 1 \in Versions
      BY RotationAssumption DEF Versions
    <3>2. engine' \in Engines
      BY <2>2, <3>1, TransitionTypes DEF StartFresh
    <3> QED BY <1>1, <2>1, <2>2, <3>1, <3>2, GenerateTypes DEF Start, StartFresh
  <2>3. CASE StartAgain
    BY <1>1, <2>1, <2>3 DEF Start, StartAgain
  <2> QED BY <1>1, <2>2, <2>3 DEF Start
<1>2. CASE Crash
  BY <1>2 DEF Crash
<1>3. CASE Commit
  BY <1>3 DEF Commit, Written
<1>4. CASE SaveKeys
  BY <1>4 DEF SaveKeys
<1>5. CASE WriteFails
  BY <1>5 DEF WriteFails
<1>6. CASE MaybeRotate
  <2>1. lastCall' \in 0 .. MaxTime /\ UNCHANGED <<answer, failures, now, whole, timely, starts>>
    BY <1>6 DEF MaybeRotate
  <2> QED BY <1>6, <2>1, RotationTypes
<1>7. CASE Demote
  BY <1>7, DemoteTypes DEF Demote
<1>8. CASE Promote
  BY <1>8, PromoteTypes DEF Promote
<1>9. CASE Read
  BY <1>9 DEF Read
<1>10. CASE Tick
  BY <1>10 DEF Tick
<1>11. CASE UNCHANGED vars
  BY <1>11 DEF vars
<1> QED BY <1>1, <1>2, <1>3, <1>4, <1>5, <1>6, <1>7, <1>8, <1>9, <1>10, <1>11 DEF Next

\* The rows, the file and what the process holds of them are well formed.
THEOREM IdentityTypeCorrect == Spec => []TypeOK
<1>1. Init => TypeOK
  BY NothingTyped, IdentityAssumption DEF Init, TypeOK, Steps, Answers
<1> QED BY <1>1, TypeStep, PTL DEF Spec

-------------------------------------------------------------------------------
\* The shape of the window in the rows and, at every step, in memory.

Few(cs, s) == \A v, w \in Held(cs, s) : v = w

Single(cs) == \A s \in WindowStatuses : Few(cs, s)

Settled(cs) == Held(cs, "ACTIVE") # {} /\ Single(cs)

WholeSteps == {"idle", "provision", "commit", "bootkeys", "keyfile"}

ShapeInv ==
  /\ rows # EmptyEngine => Settled(rows)
  /\ pc \in WholeSteps => Settled(engine)
  /\ pc = "demote" => /\ Settled(engine)
                      /\ Held(engine, "VALIDATING") # {} /\ Held(engine, "FALLBACK") = {}
  /\ pc = "promote" => /\ Single(engine)
                       /\ Held(engine, "ACTIVE") = {} /\ Held(engine, "VALIDATING") # {}

-------------------------------------------------------------------------------
\* What each transition does to every record.

\* The record a place of the window holds is the one _by_status returns.
LEMMA HolderIs ==
  ASSUME NEW cs, NEW s, Few(cs, s), NEW v \in Held(cs, s)
  PROVE  First(cs, s) = v
BY FirstOfOne DEF Few

Same(c, d) == /\ c.created = d.created /\ c.deadline = d.deadline
              /\ c.expiration = d.expiration

LEMMA SubmitEffect ==
  ASSUME TypeOK, SubmitSuccessor
  PROVE  /\ Active + 1 \in Versions /\ Active + 1 \notin Known(engine)
         /\ engine'[Active + 1] = [status |-> "VALIDATING", created |-> now,
                                  deadline |-> now + ValidationPeriod, activation |-> NoTime,
                                  expiration |-> now + TotalValidity]
         /\ \A w \in Versions \ {Active + 1} : engine'[w] = engine[w]
<1>1. Active + 1 \in Versions /\ Follows(Active + 1, engine)
  BY DEF SubmitSuccessor, SubmitDue, CanSubmit
<1>2. Active + 1 \notin Known(engine)
  BY <1>1 DEF Follows, Known, Versions
<1> QED BY <1>1, <1>2 DEF SubmitSuccessor, Submitted, TypeOK, Engines

LEMMA BeginEffect ==
  ASSUME TypeOK, Single(engine), BeginCheckpoint, NEW w \in Versions
  PROVE  /\ engine'[w].status = IF engine[w].status = "FALLBACK" THEN "TERMINATED"
                                                                ELSE engine[w].status
         /\ Same(engine'[w], engine[w])
<1>1. CASE Held(engine, "FALLBACK") = {}
  BY <1>1 DEF BeginCheckpoint, Held, Same
<1>2. CASE Held(engine, "FALLBACK") # {}
  <2>1. PICK f \in Held(engine, "FALLBACK") : First(engine, "FALLBACK") = f
    BY <1>2, HolderIs DEF Single, WindowStatuses
  <2>2. engine[w].status = "FALLBACK" <=> w = f
    BY <2>1 DEF Held, Single, Few, WindowStatuses
  <2>3. engine' = WithStatus(engine, f, "TERMINATED")
    BY <1>2, <2>1 DEF BeginCheckpoint
  <2> QED BY <2>2, <2>3 DEF WithStatus, TypeOK, Engines, Credential, Same
<1> QED BY <1>1, <1>2

LEMMA OutlivedEffect ==
  ASSUME TypeOK, Single(engine), OutlivedCheckpoint, NEW w \in Versions
  PROVE  /\ engine'[w].status = IF engine[w].status = "VALIDATING" THEN "EXPIRED"
                                                                  ELSE engine[w].status
         /\ Same(engine'[w], engine[w])
<1>1. PICK v \in Held(engine, "VALIDATING") : First(engine, "VALIDATING") = v
  BY HolderIs DEF OutlivedCheckpoint, SuccessorOutlived, CheckpointReached, Single, WindowStatuses
<1>2. engine[w].status = "VALIDATING" <=> w = v
  BY <1>1 DEF Held, Single, Few, WindowStatuses
<1>3. engine' = WithStatus(engine, v, "EXPIRED")
  BY <1>1 DEF OutlivedCheckpoint, MarkedOutlived
<1> QED BY <1>2, <1>3 DEF WithStatus, TypeOK, Engines, Credential, Same

LEMMA DemoteEffect ==
  ASSUME TypeOK, Settled(engine), Demote
  PROVE  /\ Active \in Held(engine, "ACTIVE")
         /\ engine'[Active].status = "FALLBACK"
         /\ \A w \in Versions : engine[w].status = "ACTIVE" <=> w = Active
         /\ \A w \in Versions \ {Active} : engine'[w] = engine[w]
<1>1. Active \in Held(engine, "ACTIVE")
  BY HolderIs DEF Settled, Single, WindowStatuses, Active
<1>2. \A w \in Versions : engine[w].status = "ACTIVE" <=> w = Active
  BY <1>1 DEF Held, Settled, Single, Few, WindowStatuses
<1>3. engine' = [engine EXCEPT ![Active] =
                   [engine[Active] EXCEPT !.status = "FALLBACK",
                             !.expiration = Later(engine[Active].expiration, now + FallbackPeriod)]]
  BY DEF Demote
<1>4. engine'[Active].status = "FALLBACK"
  BY <1>1, <1>3 DEF TypeOK, Engines, Credential, Held
<1> QED BY <1>1, <1>2, <1>3, <1>4 DEF TypeOK, Engines

LEMMA PromoteEffect ==
  ASSUME TypeOK, Single(engine), Held(engine, "VALIDATING") # {}, Promote, NEW w \in Versions
  PROVE  /\ engine'[w].status = IF engine[w].status = "VALIDATING" THEN "ACTIVE"
                                                                  ELSE engine[w].status
         /\ Same(engine'[w], engine[w])
<1>1. Validating \in Held(engine, "VALIDATING")
  BY HolderIs DEF Single, WindowStatuses, Validating
<1>2. engine[w].status = "VALIDATING" <=> w = Validating
  BY <1>1 DEF Held, Single, Few, WindowStatuses
<1>3. engine' = [engine EXCEPT ![Validating] =
                   [engine[Validating] EXCEPT !.status = "ACTIVE", !.activation = now]]
  BY DEF Promote
<1> QED BY <1>1, <1>2, <1>3 DEF TypeOK, Engines, Credential, Held, Same

-------------------------------------------------------------------------------
\* The shape is inductive.

LEMMA ShapeStep == TypeOK /\ ShapeInv /\ [Next]_vars => ShapeInv'
<1> SUFFICES ASSUME TypeOK, ShapeInv, [Next]_vars PROVE ShapeInv'
  OBVIOUS
<1> USE DEF WholeSteps
<1>1. CASE Start
  <2>1. CASE StartFresh
    <3>1. 1 \in Versions /\ engine' = Provisioned(EmptyEngine, 1, now)
      BY <2>1, RotationAssumption DEF StartFresh, Versions
    <3>2. /\ engine'[1].status = "ACTIVE"
          /\ \A w \in Versions \ {1} : engine'[w].status = "ABSENT"
      BY <3>1 DEF Provisioned, EmptyEngine, Absent
    <3>3. Settled(engine')
      BY <3>1, <3>2 DEF Settled, Single, Few, Held, WindowStatuses
    <3> QED BY <1>1, <2>1, <3>3 DEF Start, StartFresh, ShapeInv, disk
  <2>2. CASE StartAgain
    <3>1. pc = "down" /\ rows' = rows /\ Settled(rows)
      BY <1>1, <2>2 DEF Start, StartAgain, ShapeInv, disk
    <3>2. pc' = "down" \/ (pc' = "idle" /\ engine' = rows)
      BY <2>2, <3>1 DEF StartAgain, memory
    <3> QED BY <3>1, <3>2 DEF ShapeInv
  <2> QED BY <1>1, <2>1, <2>2 DEF Start
<1>2. CASE Crash
  BY <1>2 DEF Crash, ShapeInv, disk
<1>3. CASE Commit
  BY <1>3 DEF Commit, Written, ShapeInv, memory
<1>4. CASE SaveKeys
  BY <1>4 DEF SaveKeys, ShapeInv, memory
<1>5. CASE WriteFails
  BY <1>5 DEF WriteFails, ShapeInv, memory, disk
<1>6. CASE MaybeRotate
  <2>0. Settled(engine) /\ pc = "idle" /\ rows' = rows
    BY <1>6, RotationTypes DEF MaybeRotate, ShapeInv
  <2>1. CASE SubmitSuccessor
    <3>1. Held(engine, "VALIDATING") = {} /\ pc' = "commit"
      BY <2>1 DEF SubmitSuccessor, SubmitDue
    <3>2. Settled(engine')
      BY <2>0, <2>1, <3>1, SubmitEffect DEF Settled, Single, Few, Held, Known, WindowStatuses
    <3> QED BY <2>0, <3>1, <3>2 DEF ShapeInv
  <2>2. CASE BeginCheckpoint
    <3>1. Held(engine, "VALIDATING") # {} /\ pc' = "demote"
      BY <2>2 DEF BeginCheckpoint, CanPromote, CheckpointReached
    <3>2. Settled(engine') /\ Held(engine', "FALLBACK") = {} /\ Held(engine', "VALIDATING") # {}
      BY <2>0, <2>2, <3>1, BeginEffect DEF Settled, Single, Few, Held, WindowStatuses
    <3> QED BY <2>0, <3>1, <3>2 DEF ShapeInv
  <2>3. CASE OutlivedCheckpoint
    <3>1. Settled(engine')
      BY <2>0, <2>3, OutlivedEffect DEF Settled, Single, Few, Held, WindowStatuses
    <3> QED BY <2>0, <2>3, <3>1 DEF ShapeInv, OutlivedCheckpoint
  <2>4. CASE NothingToRotate
    BY <2>0, <2>4 DEF ShapeInv, NothingToRotate, memory
  <2> QED BY <1>6, <2>1, <2>2, <2>3, <2>4 DEF MaybeRotate
<1>7. CASE Demote
  <2>1. /\ Settled(engine) /\ Held(engine, "VALIDATING") # {} /\ Held(engine, "FALLBACK") = {}
        /\ pc' = "promote" /\ rows' = rows
    BY <1>7 DEF Demote, ShapeInv, disk
  <2>2. Held(engine', "ACTIVE") = {} /\ Held(engine', "FALLBACK") = {Active}
    BY <1>7, <2>1, DemoteEffect DEF Held
  <2>3. Held(engine', "VALIDATING") = Held(engine, "VALIDATING")
    BY <1>7, <2>1, DemoteEffect DEF Held
  <2> QED BY <2>1, <2>2, <2>3 DEF ShapeInv, Settled, Single, Few, WindowStatuses
<1>8. CASE Promote
  <2>1. /\ Single(engine) /\ Held(engine, "ACTIVE") = {} /\ Held(engine, "VALIDATING") # {}
        /\ pc' = "commit" /\ rows' = rows
    BY <1>8 DEF Promote, ShapeInv, disk
  <2>2. Settled(engine')
    BY <1>8, <2>1, PromoteEffect DEF Settled, Single, Few, Held, WindowStatuses
  <2> QED BY <2>1, <2>2 DEF ShapeInv
<1>9. CASE Read
  BY <1>9 DEF Read, ShapeInv, disk, memory
<1>10. CASE Tick
  BY <1>10 DEF Tick, ShapeInv, disk, memory
<1>11. CASE UNCHANGED vars
  BY <1>11 DEF vars, ShapeInv, disk, memory
<1> QED BY <1>1, <1>2, <1>3, <1>4, <1>5, <1>6, <1>7, <1>8, <1>9, <1>10, <1>11 DEF Next

\* Every reachable state has the shape.
LEMMA ShapeCorrect == Spec => [](TypeOK /\ ShapeInv)
<1>1. Init => TypeOK /\ ShapeInv
  BY NothingTyped, IdentityAssumption DEF Init, TypeOK, Steps, Answers, ShapeInv, WholeSteps
<1> QED BY <1>1, TypeStep, ShapeStep, PTL DEF Spec

\* A place with at most one credential.
LEMMA FewCounted ==
  ASSUME NEW cs, NEW s, Few(cs, s)
  PROVE  /\ Cardinality(Held(cs, s)) <= 1
         /\ Held(cs, s) # {} => Cardinality(Held(cs, s)) = 1
<1>1. CASE Held(cs, s) = {}
  BY <1>1, FS_EmptySet
<1>2. ASSUME NEW v \in Held(cs, s)
      PROVE  Cardinality(Held(cs, s)) = 1
  <2>1. Held(cs, s) = {v}
    BY <1>2 DEF Few
  <2> QED BY <2>1, FS_Singleton
<1> QED BY <1>1, <1>2

\* The rows a process finds are always a rotation window with one ACTIVE record:
\* no write of _persist leaves the database between two states of the engine
\* (identity.py:248-296).
THEOREM RowsAlwaysConsistent == Spec => []RowsConsistent
<1>1. ShapeInv => RowsConsistent
  <2> SUFFICES ASSUME Settled(rows)
               PROVE  /\ Cardinality(Held(rows, "ACTIVE")) = 1
                      /\ Cardinality(Held(rows, "VALIDATING")) <= 1
                      /\ Cardinality(Held(rows, "FALLBACK")) <= 1
    BY DEF ShapeInv, RowsConsistent
  <2> QED BY FewCounted DEF Settled, Single, WindowStatuses
<1> QED BY <1>1, ShapeCorrect, PTL

\* A reader finds no active credential only between the two assignments of a
\* promotion (credential_state.py:239-248).
THEOREM RefusalIsPassing == Spec => RefusedInPassing
<1>1. ASSUME TypeOK, ShapeInv, [Next]_vars, answer # "no_active", answer' = "no_active"
      PROVE  pc = "promote"
  <2>1. Read
    BY <1>1 DEF Next, Start, Crash, Commit, SaveKeys, WriteFails, MaybeRotate, Demote, Promote,
                Tick, vars
  <2>2. Held(engine, "ACTIVE") = {} /\ pc \notin {"down", "provision", "bootkeys"}
    BY <1>1, <2>1 DEF Read
  <2> QED BY <1>1, <2>2 DEF ShapeInv, TypeOK, Steps, WholeSteps, Settled
<1>2. TypeOK /\ ShapeInv /\ [Next]_vars
        => [answer # "no_active" /\ answer' = "no_active" => pc = "promote"]_vars
  BY <1>1
<1> QED BY <1>2, ShapeCorrect, PTL DEF Spec, RefusedInPassing

-------------------------------------------------------------------------------
\* The places a key pair may be in, and where else it must be then.

KeyInv ==
  /\ \A v \in Versions : keyfile[v] # 0 => keyfile[v] = rowPub[v] /\ v \in Known(rows)
  /\ pc = "down" => engine = EmptyEngine /\ pub = NoKeys /\ keys = NoKeys /\ answer = "none"
  /\ pc # "down" =>
       /\ starts # 0
       /\ Known(rows) \subseteq Known(engine)
       /\ \A v \in Versions :
            /\ keyfile[v] # 0 => keyfile[v] = pub[v]
            /\ keys[v] # 0 => keys[v] = pub[v] /\ v \in Known(engine)
       /\ whole => /\ \A v \in InWindow(engine) : keys[v] # 0
                   /\ answer # "keys_missing"
  /\ pc \in {"bootkeys", "keyfile"} => rows = engine /\ rowPub = pub

\* A step of the rotation thread that brings in no credential and no key.
NoNewKeys ==
  /\ UNCHANGED <<rows, rowPub, keyfile, pub, keys, answer, whole, starts>>
  /\ pc # "down" /\ pc' \notin {"down", "bootkeys", "keyfile"}
  /\ Known(engine') = Known(engine)
  /\ InWindow(engine') \subseteq InWindow(engine)

LEMMA NoNewKeysPreserves == KeyInv /\ NoNewKeys => KeyInv'
BY DEF KeyInv, NoNewKeys

\* A call of maybe_rotate adds a credential together with its keys.
LEMMA RotationKeepsKeys ==
  ASSUME TypeOK, ShapeInv, KeyInv, MaybeRotate
  PROVE  KeyInv'
<1>0. /\ pc = "idle" /\ Settled(engine) /\ UNCHANGED <<rows, rowPub, keyfile, answer, whole, starts>>
      /\ pc' \in {"idle", "commit", "demote"}
  BY RotationTypes DEF MaybeRotate, ShapeInv, WholeSteps, found
<1>1. CASE SubmitSuccessor
  <2> DEFINE s == Active + 1
  <2>1. /\ s \in Versions /\ s \notin Known(engine) /\ engine'[s].status = "VALIDATING"
        /\ \A w \in Versions \ {s} : engine'[w] = engine[w]
    BY <1>1, SubmitEffect
  <2>2. /\ pub' \in KeyRing /\ pub'[s] = starts /\ keys'[s] = starts
        /\ \A w \in Versions \ {s} : pub'[w] = pub[w] /\ keys'[w] = keys[w]
    BY <1>0, <1>1, <2>1 DEF SubmitSuccessor, Generate, KeyRing, TypeOK
  <2> HIDE DEF s
  <2>3. starts # 0 /\ keyfile[s] = 0
    BY <1>0, <2>1 DEF KeyInv
  <2>4. Known(engine') = Known(engine) \cup {s} /\ InWindow(engine') = InWindow(engine) \cup {s}
    BY <2>1 DEF Known, InWindow, WindowStatuses
  <2>5. pc' = "commit"
    BY <1>1 DEF SubmitSuccessor
  <2>6. Known(rows) \subseteq Known(engine')
    BY <1>0, <2>4 DEF KeyInv
  <2>7. \A v \in Versions : keyfile[v] # 0 => keyfile[v] = pub'[v]
    BY <1>0, <2>2, <2>3 DEF KeyInv
  <2>8. \A v \in Versions : keys'[v] # 0 => keys'[v] = pub'[v] /\ v \in Known(engine')
    BY <1>0, <2>2, <2>4 DEF KeyInv
  <2>9. whole => \A v \in InWindow(engine') : keys'[v] # 0
    BY <1>0, <2>2, <2>3, <2>4 DEF KeyInv, InWindow
  <2> QED BY <1>0, <2>3, <2>5, <2>6, <2>7, <2>8, <2>9 DEF KeyInv
<1>2. CASE BeginCheckpoint
  <2>1. \A w \in Versions : engine'[w].status = IF engine[w].status = "FALLBACK" THEN "TERMINATED"
                                                ELSE engine[w].status
    BY <1>0, <1>2, BeginEffect DEF Settled
  <2>2. Known(engine') = Known(engine) /\ InWindow(engine') \subseteq InWindow(engine)
    BY <2>1 DEF Known, InWindow, WindowStatuses
  <2> QED BY <1>0, <1>2, <2>2, NoNewKeysPreserves DEF NoNewKeys, BeginCheckpoint
<1>3. CASE OutlivedCheckpoint
  <2>1. \A w \in Versions : engine'[w].status = IF engine[w].status = "VALIDATING" THEN "EXPIRED"
                                                ELSE engine[w].status
    BY <1>0, <1>3, OutlivedEffect DEF Settled
  <2>2. Known(engine') = Known(engine) /\ InWindow(engine') \subseteq InWindow(engine)
    BY <2>1 DEF Known, InWindow, WindowStatuses
  <2> QED BY <1>0, <1>3, <2>2, NoNewKeysPreserves DEF NoNewKeys, OutlivedCheckpoint
<1>4. CASE NothingToRotate
  BY <1>0, <1>4, NoNewKeysPreserves DEF NoNewKeys, NothingToRotate, memory
<1> QED BY <1>1, <1>2, <1>3, <1>4 DEF MaybeRotate

\* A start finds in the rows and in the file what the process then holds.
LEMMA StartKeepsKeys ==
  ASSUME TypeOK, KeyInv, Start
  PROVE  KeyInv'
<1>0. /\ pc = "down" /\ answer' = "none" /\ starts' # 0 /\ UNCHANGED <<rows, rowPub, keyfile>>
      /\ engine = EmptyEngine /\ pub = NoKeys /\ keys = NoKeys
      /\ whole' = \A v \in InWindow(rows) : keyfile[v] # 0
  BY DEF Start, KeyInv, TypeOK, disk
<1>1. CASE StartFresh
  <2>1. 1 \in Versions /\ engine' = Provisioned(EmptyEngine, 1, now) /\ Known(rows) = {}
    BY <1>1, RotationAssumption DEF StartFresh, Versions, Known, EmptyEngine, Absent
  <2>2. Known(engine') = {1} /\ InWindow(engine') = {1}
    BY <2>1 DEF Provisioned, EmptyEngine, Absent, Known, InWindow, WindowStatuses
  <2>3. /\ pub'[1] = starts' /\ keys'[1] = starts'
        /\ \A v \in Versions \ {1} : keys'[v] = 0
    BY <1>0, <1>1, <2>1 DEF StartFresh, Generate, NoKeys
  <2>4. \A v \in Versions : keyfile[v] = 0
    BY <2>1 DEF KeyInv
  <2>5. pc' = "provision"
    BY <1>1 DEF StartFresh
  <2> QED BY <1>0, <2>1, <2>2, <2>3, <2>4, <2>5 DEF KeyInv
<1>2. CASE StartAgain
  <2>1. \/ engine' = rows /\ pub' = rowPub /\ keys' = keyfile /\ pc' = "idle"
        \/ UNCHANGED <<engine, pub, keys, pc>>
    BY <1>2 DEF StartAgain, memory
  <2> QED BY <1>0, <2>1 DEF KeyInv
<1> QED BY <1>1, <1>2 DEF Start

LEMMA KeyStep == TypeOK /\ ShapeInv /\ KeyInv /\ [Next]_vars => KeyInv'
<1> SUFFICES ASSUME TypeOK, ShapeInv, KeyInv, [Next]_vars PROVE KeyInv'
  OBVIOUS
<1>1. CASE Crash
  BY <1>1 DEF Crash, KeyInv, disk
<1>2. CASE Commit
  <2>1. /\ pc # "down" /\ pc' # "down" /\ rows' = engine /\ rowPub' = pub
        /\ UNCHANGED <<keyfile, engine, pub, keys, answer, whole, starts>>
    BY <1>2 DEF Commit, Written, memory, found
  <2> QED BY <2>1 DEF KeyInv
<1>3. CASE SaveKeys
  <2>1. /\ pc \in {"bootkeys", "keyfile"} /\ pc' = "idle" /\ keyfile' = keys
        /\ UNCHANGED <<rows, rowPub, engine, pub, keys, answer, whole, starts>>
    BY <1>3 DEF SaveKeys, memory, found
  <2> QED BY <2>1 DEF KeyInv
<1>4. CASE WriteFails
  <2>1. UNCHANGED <<rows, rowPub, keyfile, engine, pub, keys, answer, whole, starts>>
    BY <1>4 DEF WriteFails, memory, disk, found
  <2>2. pc # "down" /\ pc' = "idle"
    BY <1>4 DEF WriteFails
  <2>3. Known(engine') = Known(engine) /\ InWindow(engine') = InWindow(engine)
    BY <2>1 DEF Known, InWindow
  <2> QED BY <2>1, <2>2, <2>3, NoNewKeysPreserves DEF NoNewKeys
<1>5. CASE Demote
  <2>0. Settled(engine)
    BY <1>5 DEF Demote, ShapeInv
  <2>1. \A w \in Versions : engine'[w].status = IF engine[w].status = "ACTIVE" THEN "FALLBACK"
                                                ELSE engine[w].status
    BY <1>5, <2>0, DemoteEffect
  <2>2. Known(engine') = Known(engine) /\ InWindow(engine') \subseteq InWindow(engine)
    BY <2>1 DEF Known, InWindow, WindowStatuses
  <2> QED BY <1>5, <2>2, NoNewKeysPreserves DEF Demote, NoNewKeys, disk, found
<1>6. CASE Promote
  <2>0. Single(engine) /\ Held(engine, "VALIDATING") # {}
    BY <1>6 DEF Promote, ShapeInv
  <2>1. \A w \in Versions : engine'[w].status = IF engine[w].status = "VALIDATING" THEN "ACTIVE"
                                                ELSE engine[w].status
    BY <1>6, <2>0, PromoteEffect
  <2>2. Known(engine') = Known(engine) /\ InWindow(engine') \subseteq InWindow(engine)
    BY <2>1 DEF Known, InWindow, WindowStatuses
  <2> QED BY <1>6, <2>2, NoNewKeysPreserves DEF Promote, NoNewKeys, disk, found
<1>7. CASE Read
  <2>1. UNCHANGED <<rows, rowPub, keyfile, engine, pub, keys, pc, whole, starts>> /\ pc # "down"
    BY <1>7 DEF Read, disk, memory, found
  <2>2. whole => answer' # "keys_missing"
    <3>1. ASSUME whole, NEW v \in Held(engine, "ACTIVE") PROVE keys[Active] # 0
      <4>1. Few(engine, "ACTIVE")
        BY <1>7 DEF ShapeInv, Settled, Single, WindowStatuses, Read, TypeOK, Steps, WholeSteps
      <4>2. Active \in InWindow(engine)
        BY <3>1, <4>1, HolderIs DEF Active, Held, InWindow, WindowStatuses
      <4> QED BY <2>1, <3>1, <4>2 DEF KeyInv
    <3> QED BY <1>7, <3>1 DEF Read
  <2> QED BY <2>1, <2>2 DEF KeyInv
<1>8. CASE Tick
  BY <1>8 DEF Tick, KeyInv, disk, memory, found
<1>9. CASE UNCHANGED vars
  BY <1>9 DEF vars, KeyInv, disk, memory, found
<1> QED
  BY <1>1, <1>2, <1>3, <1>4, <1>5, <1>6, <1>7, <1>8, <1>9, StartKeepsKeys, RotationKeepsKeys
  DEF Next

LEMMA KeyCorrect == Spec => [](TypeOK /\ ShapeInv /\ KeyInv)
<1>1. Init => KeyInv
  BY DEF Init, KeyInv, NoKeys
<1> QED BY <1>1, ShapeCorrect, KeyStep, PTL DEF Spec

\* No private key in the file is of another pair than the row of its version,
\* wherever the earlier processes stopped (identity.py:248-296).
THEOREM FileMatchesRows == Spec => []KeysMatchRows
<1>1. KeyInv => KeysMatchRows
  BY DEF KeyInv, KeysMatchRows
<1> QED BY <1>1, KeyCorrect, PTL

\* A process that found the keys of its window never misses those of its active
\* version, whatever writes of its rotation thread fail.
THEOREM KeysNeverMissed == Spec => []KeysHeldWhileUp
<1>1. KeyInv => KeysHeldWhileUp
  BY DEF KeyInv, KeysHeldWhileUp
<1> QED BY <1>1, KeyCorrect, PTL

-------------------------------------------------------------------------------
\* The dates of the credentials of a window.

Dated(cs, t) ==
  \A v \in Versions :
    /\ cs[v].status \in {"ACTIVE", "VALIDATING"} =>
         /\ v <= cs[v].created /\ cs[v].created <= t
         /\ cs[v].expiration = cs[v].created + TotalValidity
    /\ cs[v].status = "VALIDATING" =>
         /\ cs[v].deadline = cs[v].created + ValidationPeriod
         /\ \A a \in Held(cs, "ACTIVE") :
              cs[a].expiration <= cs[v].created + 2 * FallbackPeriod

\* The newest version is the one that is VALIDATING, else the ACTIVE one, unless
\* a successor was outlived.
Newest(cs) ==
  \A v, w \in Versions :
    w \in Known(cs) /\ w > v =>
      /\ cs[v].status # "VALIDATING"
      /\ cs[v].status = "ACTIVE" => cs[w].status \in {"VALIDATING", "EXPIRED"}

Outlived(cs) == Held(cs, "EXPIRED")

DateInv ==
  /\ Dated(rows, now) /\ Newest(rows) /\ Outlived(rows) = {}
  /\ Dated(engine, now) /\ Newest(engine)
  /\ Outlived(engine) # {} => /\ pc = "idle" /\ Held(engine, "VALIDATING") = {}
                              /\ \A v \in Outlived(engine), a \in Held(engine, "ACTIVE") : v > a
  /\ lastCall <= now
  /\ pc = "idle" => now <= lastCall + Interval
  /\ pc \notin {"down", "idle"} => now = lastCall

\* The three periods, in seconds.
LEMMA PeriodsCompared ==
  /\ ValidationPeriod = FallbackPeriod /\ FallbackPeriod \in Nat \ {0}
  /\ TotalValidity \in Nat /\ TotalValidity >= 3 * FallbackPeriod
BY RotationAssumption, IdentityAssumption DEF ValidationPeriod, FallbackPeriod, TotalValidity

LEMMA EmptyDated ==
  ASSUME NEW t
  PROVE  Dated(EmptyEngine, t) /\ Newest(EmptyEngine) /\ Outlived(EmptyEngine) = {}
BY DEF Dated, Newest, Outlived, Held, Known, EmptyEngine, Absent

\* A record keeps its dates, and later is later.
LEMMA DatedLater ==
  ASSUME NEW cs \in Engines, NEW t \in Nat, Dated(cs, t)
  PROVE  Dated(cs, t + 1)
BY DEF Dated, Engines, Credential

\* Nor is it dated otherwise when others leave the window.
LEMMA DatedAlike ==
  ASSUME NEW cs, NEW ds, NEW t, Dated(cs, t), Held(ds, "ACTIVE") \subseteq Held(cs, "ACTIVE"),
         \A w \in Versions : /\ Same(ds[w], cs[w])
                             /\ ds[w].status = "VALIDATING" => cs[w].status = "VALIDATING"
  PROVE  Dated(ds, t)
<1> SUFFICES ASSUME NEW v \in Versions
    PROVE  /\ ds[v].status \in {"ACTIVE", "VALIDATING"} =>
                /\ v <= ds[v].created /\ ds[v].created <= t
                /\ ds[v].expiration = ds[v].created + TotalValidity
           /\ ds[v].status = "VALIDATING" =>
                /\ ds[v].deadline = ds[v].created + ValidationPeriod
                /\ \A a \in Held(ds, "ACTIVE") :
                     ds[a].expiration <= ds[v].created + 2 * FallbackPeriod
  BY DEF Dated
<1>1. ds[v].status \in {"ACTIVE", "VALIDATING"} => cs[v].status \in {"ACTIVE", "VALIDATING"}
  BY DEF Held
<1>2. \A a \in Held(ds, "ACTIVE") : a \in Held(cs, "ACTIVE") /\ Same(ds[a], cs[a])
  BY DEF Held
<1> QED BY <1>1, <1>2 DEF Dated, Same

LEMMA SubmitKeepsDates ==
  ASSUME TypeOK, ShapeInv, DateInv, MaybeRotate, SubmitSuccessor
  PROVE  /\ Dated(engine', now) /\ Newest(engine') /\ Outlived(engine') = {}
         /\ Outlived(engine) = {}
<1> DEFINE s == Active + 1
<1>0. Settled(engine) /\ now \in Nat
  BY DEF MaybeRotate, ShapeInv, WholeSteps, TypeOK
<1>1. PICK a \in Held(engine, "ACTIVE") : Active = a
  BY <1>0, HolderIs DEF Settled, Single, WindowStatuses, Active
<1>2. /\ s \in Versions /\ s \notin Known(engine)
      /\ engine'[s] = [status |-> "VALIDATING", created |-> now,
                      deadline |-> now + ValidationPeriod, activation |-> NoTime,
                      expiration |-> now + TotalValidity]
      /\ \A w \in Versions \ {s} : engine'[w] = engine[w]
  BY SubmitEffect
<1>3. /\ Held(engine, "VALIDATING") = {} /\ now >= engine[a].expiration - 2 * FallbackPeriod
      /\ \A w \in Known(engine) : w < s
  BY <1>1 DEF SubmitSuccessor, SubmitDue, RotateAt, CanSubmit, Follows
<1>4. s = a + 1 /\ a \in Versions /\ a \in Nat /\ engine[a].status = "ACTIVE"
  BY <1>1 DEF Held, Versions
<1> HIDE DEF s
<1>5. \A w \in Versions : engine[w].status = "ACTIVE" <=> w = a
  BY <1>0, <1>4 DEF Settled, Single, Few, Held, WindowStatuses
<1>6. Outlived(engine) = {}
  <2> SUFFICES ASSUME NEW v \in Outlived(engine) PROVE FALSE
    OBVIOUS
  <2>1. v > a /\ v \in Known(engine) /\ v \in Nat
    BY <1>1 DEF DateInv, Outlived, Held, Known, Versions
  <2> QED BY <1>3, <1>4, <2>1
<1>7. Outlived(engine') = {}
  BY <1>2, <1>6 DEF Outlived, Held
<1>8. Dated(engine', now)
  <2>1. s <= now /\ engine[a].expiration <= now + 2 * FallbackPeriod
    <3>1. /\ a <= engine[a].created /\ engine[a].created \in Nat /\ engine[a].expiration \in Nat
          /\ engine[a].expiration = engine[a].created + TotalValidity
      BY <1>4 DEF DateInv, Dated, TypeOK, Engines, Credential
    <3> QED BY <1>0, <1>3, <1>4, <3>1, PeriodsCompared
  <2>2. now <= now
    BY <1>0
  <2>3. engine'[s].status = "VALIDATING" /\ engine'[s].created = now
        /\ engine'[s].deadline = now + ValidationPeriod /\ engine'[s].expiration = now + TotalValidity
    BY <1>2
  <2>4. Dated(engine, now)
    BY DEF DateInv
  <2>5. \A b \in Held(engine', "ACTIVE") : b = a /\ engine'[b].expiration <= now + 2 * FallbackPeriod
    BY <1>2, <1>5, <2>1, <2>3 DEF Held
  <2>6. \A w \in Versions \ {s} : engine'[w] = engine[w] /\ engine[w].status # "VALIDATING"
    BY <1>2, <1>3 DEF Held
  <2> QED BY <2>1, <2>2, <2>3, <2>4, <2>5, <2>6 DEF Dated
<1>9. Newest(engine')
  <2> SUFFICES ASSUME NEW v \in Versions, NEW w \in Versions, w \in Known(engine'), w > v
               PROVE  /\ engine'[v].status # "VALIDATING"
                      /\ engine'[v].status = "ACTIVE" => engine'[w].status \in {"VALIDATING", "EXPIRED"}
    BY DEF Newest
  <2>1. v # s
    BY <1>2, <1>3, <1>4 DEF Known, Versions
  <2>2. CASE w = s
    BY <1>2, <1>3, <2>1, <2>2 DEF Held
  <2>3. CASE w # s
    BY <1>2, <2>1, <2>3 DEF DateInv, Newest, Known
  <2> QED BY <2>2, <2>3
<1> QED BY <1>6, <1>7, <1>8, <1>9

LEMMA RotationKeepsDates ==
  ASSUME TypeOK, ShapeInv, DateInv, MaybeRotate
  PROVE  DateInv'
<1>0. /\ Settled(engine) /\ pc = "idle" /\ rows' = rows /\ now' = now /\ lastCall' = now
      /\ now \in Nat /\ engine' \in Engines
  BY RotationTypes DEF MaybeRotate, ShapeInv, WholeSteps, TypeOK
<1>1. lastCall' <= now' /\ now' <= lastCall' + Interval
  BY <1>0, IdentityAssumption
<1>2. Dated(rows', now') /\ Newest(rows') /\ Outlived(rows') = {}
  BY <1>0 DEF DateInv
<1>3. CASE SubmitSuccessor
  <2>1. pc' = "commit"
    BY <1>3 DEF SubmitSuccessor
  <2> QED BY <1>0, <1>1, <1>2, <1>3, <2>1, SubmitKeepsDates DEF DateInv
<1>4. CASE BeginCheckpoint
  <2>1. \A w \in Versions :
          /\ engine'[w].status = IF engine[w].status = "FALLBACK" THEN "TERMINATED"
                                                                  ELSE engine[w].status
          /\ Same(engine'[w], engine[w])
    BY <1>0, <1>4, BeginEffect DEF Settled
  <2>2. pc' = "demote" /\ Held(engine, "VALIDATING") # {}
    BY <1>4 DEF BeginCheckpoint, CanPromote, CheckpointReached
  <2>3. Outlived(engine) = {}
    BY <2>2 DEF DateInv
  <2>4. Outlived(engine') = {} /\ Held(engine', "ACTIVE") = Held(engine, "ACTIVE")
    BY <2>1, <2>3 DEF Outlived, Held
  <2>5. Dated(engine', now)
    <3>1. \A w \in Versions : engine'[w].status = "VALIDATING" => engine[w].status = "VALIDATING"
      BY <2>1
    <3> QED BY <2>1, <2>4, <3>1, DatedAlike DEF DateInv
  <2>6. Newest(engine')
    BY <2>1 DEF DateInv, Newest, Known
  <2> QED BY <1>0, <1>1, <1>2, <2>2, <2>4, <2>5, <2>6 DEF DateInv
<1>5. CASE OutlivedCheckpoint
  <2>1. \A w \in Versions :
          /\ engine'[w].status = IF engine[w].status = "VALIDATING" THEN "EXPIRED"
                                                                    ELSE engine[w].status
          /\ Same(engine'[w], engine[w])
    BY <1>0, <1>5, OutlivedEffect DEF Settled
  <2>2. pc' = "idle" /\ Held(engine, "VALIDATING") # {}
    BY <1>0, <1>5 DEF OutlivedCheckpoint, SuccessorOutlived, CheckpointReached
  <2>3. Outlived(engine) = {}
    BY <2>2 DEF DateInv
  <2>4. /\ Outlived(engine') = Held(engine, "VALIDATING") /\ Held(engine', "VALIDATING") = {}
        /\ Held(engine', "ACTIVE") = Held(engine, "ACTIVE")
    BY <2>1, <2>3 DEF Outlived, Held
  <2>5. ASSUME NEW v \in Held(engine, "VALIDATING"), NEW a \in Held(engine, "ACTIVE")
        PROVE  v > a
    <3>1. v \in Versions /\ a \in Versions /\ a \in Known(engine) /\ v # a
          /\ engine[v].status = "VALIDATING"
      BY <2>5 DEF Held, Known
    <3>2. ~(a > v)
      BY <3>1 DEF DateInv, Newest
    <3> QED BY <3>1, <3>2 DEF Versions
  <2>6. Dated(engine', now')
    BY <1>0, <2>1, <2>4 DEF DateInv, Dated, Same
  <2>7. Newest(engine')
    BY <2>1 DEF DateInv, Newest, Known
  <2> QED BY <1>0, <1>1, <1>2, <2>2, <2>4, <2>5, <2>6, <2>7 DEF DateInv
<1>6. CASE NothingToRotate
  <2>1. engine' = engine /\ pc' = pc
    BY <1>6 DEF NothingToRotate, memory
  <2> QED BY <1>0, <1>1, <2>1 DEF DateInv
<1> QED BY <1>3, <1>4, <1>5, <1>6 DEF MaybeRotate

\* The dates are inductive.
LEMMA DateStep == TypeOK /\ ShapeInv /\ KeyInv /\ DateInv /\ [Next]_vars => DateInv'
<1> SUFFICES ASSUME TypeOK, ShapeInv, KeyInv, DateInv, [Next]_vars PROVE DateInv'
  OBVIOUS
<1>0. TypeOK' /\ now \in Nat /\ lastCall \in Nat
  BY TypeStep DEF TypeOK
<1>1. CASE Start
  <2>0. /\ pc = "down" /\ engine = EmptyEngine /\ lastCall' = now' /\ now' = now /\ rows' = rows
    BY <1>1 DEF Start, KeyInv, disk
  <2>1. lastCall' <= now' /\ now' <= lastCall' + Interval
    BY <1>0, <2>0, IdentityAssumption
  <2>2. CASE StartFresh
    <3>1. 1 \in Versions /\ engine' = Provisioned(EmptyEngine, 1, now)
      BY <2>2, RotationAssumption DEF StartFresh, Versions
    <3>2. /\ engine'[1].status = "ACTIVE" /\ engine'[1].created = now
          /\ engine'[1].expiration = now + TotalValidity
          /\ \A w \in Versions \ {1} : engine'[w].status = "ABSENT"
      BY <3>1 DEF Provisioned, EmptyEngine, Absent
    <3>3. 1 <= now /\ now <= now
      BY DEF TypeOK
    <3>4. Dated(engine', now) /\ Newest(engine') /\ Outlived(engine') = {}
      BY <3>2, <3>3 DEF Dated, Newest, Outlived, Held, Known, Versions
    <3> QED BY <2>0, <2>1, <3>4 DEF DateInv
  <2>3. CASE StartAgain
    <3>1. pc' \in {"down", "idle"} /\ engine' \in {engine, rows}
      BY <2>0, <2>3 DEF StartAgain, memory
    <3> QED BY <2>0, <2>1, <3>1 DEF DateInv
  <2> QED BY <1>1, <2>2, <2>3 DEF Start
<1>2. CASE Crash
  BY <1>2, EmptyDated DEF Crash, DateInv, disk
<1>3. CASE Commit
  <2>1. Outlived(engine) = {}
    BY <1>3 DEF Commit, DateInv
  <2> QED BY <1>3, <2>1 DEF Commit, Written, DateInv, memory
<1>4. CASE SaveKeys
  BY <1>0, <1>4, IdentityAssumption DEF SaveKeys, DateInv, memory
<1>5. CASE WriteFails
  BY <1>0, <1>5, IdentityAssumption DEF WriteFails, DateInv, memory, disk
<1>6. CASE MaybeRotate
  BY <1>6, RotationKeepsDates
<1>7. CASE Demote
  <2>1. Settled(engine) /\ pc = "demote" /\ pc' = "promote" /\ UNCHANGED <<rows, lastCall, now>>
    BY <1>7 DEF Demote, ShapeInv, disk
  <2>2. \A w \in Versions :
          /\ engine'[w].status = IF engine[w].status = "ACTIVE" THEN "FALLBACK"
                                                                ELSE engine[w].status
          /\ engine[w].status # "ACTIVE" => engine'[w] = engine[w]
    BY <1>7, <2>1, DemoteEffect
  <2>3. Outlived(engine') = Outlived(engine) /\ Held(engine', "ACTIVE") = {}
    BY <2>2 DEF Outlived, Held
  <2>4. Dated(engine', now)
    BY <2>2, <2>3 DEF DateInv, Dated
  <2>5. Newest(engine')
    BY <2>2 DEF DateInv, Newest, Known
  <2> QED BY <2>1, <2>3, <2>4, <2>5 DEF DateInv
<1>8. CASE Promote
  <2>1. /\ Single(engine) /\ Held(engine, "VALIDATING") # {} /\ Held(engine, "ACTIVE") = {}
        /\ pc = "promote" /\ pc' = "commit" /\ UNCHANGED <<rows, lastCall, now>>
    BY <1>8 DEF Promote, ShapeInv, disk
  <2>2. \A w \in Versions :
          /\ engine'[w].status = IF engine[w].status = "VALIDATING" THEN "ACTIVE"
                                                                    ELSE engine[w].status
          /\ Same(engine'[w], engine[w])
    BY <1>8, <2>1, PromoteEffect
  <2>3. Outlived(engine') = Outlived(engine)
    BY <2>2 DEF Outlived, Held
  <2>4. Dated(engine', now)
    BY <2>2 DEF DateInv, Dated, Same
  <2>5. Newest(engine')
    BY <2>1, <2>2 DEF DateInv, Newest, Known, Held
  <2> QED BY <2>1, <2>3, <2>4, <2>5 DEF DateInv
<1>9. CASE Read
  BY <1>9 DEF Read, DateInv, disk, memory
<1>10. CASE Tick
  <2>1. /\ UNCHANGED <<rows, engine, lastCall, pc>> /\ now' = now + 1 /\ pc \in {"down", "idle"}
        /\ pc = "idle" => now < lastCall + Interval
    BY <1>10 DEF Tick, disk, memory
  <2>2. Dated(rows', now') /\ Dated(engine', now')
    BY <1>0, <2>1, DatedLater DEF DateInv, TypeOK
  <2>3. lastCall' <= now' /\ (pc' = "idle" => now' <= lastCall' + Interval)
    BY <1>0, <2>1, IdentityAssumption DEF DateInv
  <2> QED BY <2>1, <2>2, <2>3 DEF DateInv
<1>11. CASE UNCHANGED vars
  BY <1>11 DEF vars, DateInv, disk, memory
<1> QED BY <1>1, <1>2, <1>3, <1>4, <1>5, <1>6, <1>7, <1>8, <1>9, <1>10, <1>11 DEF Next

\* Every reachable state is so.
IdInv == TypeOK /\ ShapeInv /\ KeyInv /\ DateInv

LEMMA IdStep == IdInv /\ [Next]_vars => IdInv'
BY TypeStep, ShapeStep, KeyStep, DateStep DEF IdInv

LEMMA IdCorrect == Spec => []IdInv
<1>1. Init => DateInv
  BY EmptyDated, IdentityAssumption DEF Init, DateInv
<1> QED BY <1>1, KeyCorrect, DateStep, PTL DEF Spec, IdInv

\* The one ACTIVE record, its dates and those of its VALIDATING successor.
LEMMA ActiveDates ==
  ASSUME IdInv, Settled(engine)
  PROVE  /\ Active \in Held(engine, "ACTIVE") /\ Active \in Versions
         /\ \A a \in Held(engine, "ACTIVE") : a = Active
         /\ engine[Active].created \in Nat
         /\ engine[Active].expiration = engine[Active].created + TotalValidity
<1>1. Active \in Held(engine, "ACTIVE")
  BY HolderIs DEF Settled, Single, WindowStatuses, Active
<1>2. \A a \in Held(engine, "ACTIVE") : a = Active
  BY <1>1 DEF Settled, Single, Few, WindowStatuses
<1>3. Active \in Versions /\ engine[Active].status = "ACTIVE"
  BY <1>1 DEF Held
<1>4. engine[Active].created \in Nat
  BY <1>3 DEF IdInv, TypeOK, Engines, Credential
<1> QED BY <1>1, <1>2, <1>3, <1>4 DEF IdInv, DateInv, Dated

LEMMA ValidatingDates ==
  ASSUME IdInv, NEW v \in Held(engine, "VALIDATING")
  PROVE  /\ v \in Versions /\ engine[v].created \in Nat /\ engine[v].created <= now
         /\ engine[v].deadline = engine[v].created + ValidationPeriod
         /\ engine[v].expiration = engine[v].created + TotalValidity
         /\ \A a \in Held(engine, "ACTIVE") :
              engine[a].expiration <= engine[v].created + 2 * FallbackPeriod
<1>1. v \in Versions /\ engine[v].status = "VALIDATING"
  BY DEF Held
<1>2. engine[v].created \in Nat
  BY <1>1 DEF IdInv, TypeOK, Engines, Credential
<1> QED BY <1>1, <1>2 DEF IdInv, DateInv, Dated

\* The calls are an interval apart.
LEMMA CallTimes ==
  ASSUME IdInv, MaybeRotate
  PROVE  /\ pc = "idle" /\ Settled(engine) /\ lastCall' = now /\ now' = now
         /\ now = lastCall + Interval /\ now \in Nat /\ lastCall \in Nat
         /\ Interval \in Nat \ {0}
BY IdentityAssumption DEF IdInv, MaybeRotate, ShapeInv, WholeSteps, DateInv, TypeOK

\* A window without a successor has room for one.
LEMMA RoomForSuccessor ==
  ASSUME NEW cs, Single(cs), Held(cs, "VALIDATING") = {}
  PROVE  Cardinality(InWindow(cs)) < 3
<1> DEFINE A == Held(cs, "ACTIVE")
           F == Held(cs, "FALLBACK")
<1>1. InWindow(cs) = A \cup F
  BY DEF InWindow, Held, WindowStatuses
<1>2. IsFiniteSet(Versions)
  BY RotationAssumption, FS_Interval DEF Versions
<1>3. IsFiniteSet(A) /\ IsFiniteSet(F)
  BY <1>2, FS_Subset DEF Held
<1>4. Cardinality(A) <= 1 /\ Cardinality(F) <= 1
  BY FewCounted DEF Single, WindowStatuses
<1> HIDE DEF A, F
<1>5. Cardinality(A \cup F) = Cardinality(A) + Cardinality(F) - Cardinality(A \cap F)
  BY <1>3, FS_Union
<1>6. Cardinality(A) \in Nat /\ Cardinality(F) \in Nat /\ Cardinality(A \cap F) \in Nat
  BY <1>3, FS_CardinalityType, FS_Intersection
<1> QED BY <1>1, <1>4, <1>5, <1>6

\* Why a call that finds no successor and its keys does not submit one.
LEMMA NotSubmitted ==
  ASSUME IdInv, Settled(engine), Held(engine, "VALIDATING") = {}, keys[Active] # 0, ~SubmitDue
  PROVE  \/ now < RotateAt(Active)
         \/ Active + 1 \notin Versions
         \/ now >= engine[Active].expiration
         \/ Outlived(engine) # {}
<1> SUFFICES ASSUME now >= RotateAt(Active), Active + 1 \in Versions,
                    ~Expired(engine[Active], now), Outlived(engine) = {}
             PROVE  FALSE
  <2>1. now \in Nat /\ RotateAt(Active) \in Int
    BY ActiveDates, PeriodsCompared DEF IdInv, TypeOK, RotateAt
  <2> QED BY <2>1 DEF Expired
<1>1. Active \in Held(engine, "ACTIVE") /\ Active \in Versions
  BY ActiveDates
<1>2. Active \in Known(engine) /\ engine[Active].status = "ACTIVE"
  BY <1>1 DEF Held, Known
<1>3. \A w \in Known(engine) : w < Active + 1
  <2> SUFFICES ASSUME NEW w \in Known(engine), w > Active PROVE FALSE
    BY <1>1 DEF Known, Versions
  <2>1. w \in Versions /\ engine[w].status \in {"VALIDATING", "EXPIRED"}
    BY <1>1, <1>2 DEF IdInv, DateInv, Newest, Known
  <2> QED BY <2>1 DEF Outlived, Held
<1>4. Follows(Active + 1, engine)
  BY <1>1, <1>2, <1>3 DEF Follows, Versions
<1>5. Cardinality(InWindow(engine)) < 3
  BY RoomForSuccessor DEF Settled
<1>6. CanSubmit(engine, Active + 1, Active, TRUE, now)
  BY <1>1, <1>4, <1>5 DEF CanSubmit, Active
<1> QED BY <1>6 DEF SubmitDue

\* Why a call that finds a successor does not promote it.
LEMMA NotPromoted ==
  ASSUME IdInv, Settled(engine), NEW v \in Held(engine, "VALIDATING"),
         ~CanPromote(engine, now), ~SuccessorOutlived(engine, now)
  PROVE  now < engine[v].deadline \/ now >= engine[Active].expiration
<1>1. First(engine, "VALIDATING") = v
  BY HolderIs DEF Settled, Single, WindowStatuses
<1>2. now \in Nat /\ engine[v].deadline \in Nat
  BY ValidatingDates, PeriodsCompared DEF IdInv, TypeOK
<1> QED BY <1>1, <1>2, ActiveDates
        DEF CanPromote, SuccessorOutlived, CheckpointReached, Expired, Active

-------------------------------------------------------------------------------
\* How far a rotation of the first process may be behind.

\* Nothing follows the active version any more.
Final(a) == \/ a + 1 \notin Versions
            \/ lastCall >= engine[a].expiration
            \/ Outlived(engine) # {}

\* The call that submits comes less than an interval after its date, and so does
\* the one that promotes.
SubmitsInTime ==
  \A a \in Held(engine, "ACTIVE") :
    Held(engine, "VALIDATING") = {} => lastCall < RotateAt(a) + Interval \/ Final(a)

SubmittedInTime ==
  \A a \in Held(engine, "ACTIVE"), v \in Held(engine, "VALIDATING") :
    IF pc = "demote"
    THEN engine[a].expiration + 3 * Interval > now + FallbackPeriod
    ELSE /\ engine[v].created < RotateAt(a) + 2 * Interval
         /\ lastCall < engine[v].deadline \/ lastCall >= engine[a].expiration

PromotesInTime ==
  \A v \in Held(engine, "VALIDATING") :
    pc \in {"demote", "promote"} => lastCall < engine[v].deadline + Interval

CoverInv ==
  /\ starts = 0 => rows = EmptyEngine /\ pc = "down"
  /\ (starts = 1 /\ pc # "down") => whole /\ SubmitsInTime /\ SubmittedInTime /\ PromotesInTime

\* What the engine and the last call are, the invariant is about.
LEMMA CoverKept ==
  ASSUME CoverInv, UNCHANGED <<engine, lastCall, starts, whole>>,
         pc \notin {"down", "demote", "promote"}, pc' \notin {"down", "demote", "promote"}
  PROVE  CoverInv'
BY DEF CoverInv, SubmitsInTime, SubmittedInTime, PromotesInTime, Final, RotateAt

LEMMA StartCovers ==
  ASSUME IdInv, CoverInv, Start
  PROVE  CoverInv'
<1>1. starts \in Nat /\ starts' = starts + 1 /\ pc = "down" /\ lastCall' = now /\ now \in Nat
  BY DEF IdInv, TypeOK, Start
<1>2. CASE starts = 0
  <2>1. rows = EmptyEngine /\ StartFresh
    BY <1>2 DEF CoverInv, Start, StartAgain
  <2>2. whole'
    BY <2>1 DEF Start, InWindow, EmptyEngine, Absent, WindowStatuses
  <2>3. 1 \in Versions /\ engine' = Provisioned(EmptyEngine, 1, now) /\ pc' = "provision"
    BY <2>1, RotationAssumption DEF StartFresh, Versions
  <2>4. Held(engine', "ACTIVE") = {1} /\ Held(engine', "VALIDATING") = {}
        /\ engine'[1].expiration = now + TotalValidity
    BY <2>3 DEF Provisioned, EmptyEngine, Absent, Held
  <2>5. now < now + TotalValidity - 2 * FallbackPeriod + Interval
    BY <1>1, PeriodsCompared, IdentityAssumption
  <2>6. \A a \in Held(engine', "ACTIVE") : lastCall' < engine'[a].expiration - 2 * FallbackPeriod + Interval
    BY <1>1, <2>4, <2>5, PeriodsCompared, IdentityAssumption
  <2>7. SubmitsInTime'
    BY <2>6 DEF SubmitsInTime, RotateAt
  <2> QED BY <1>1, <1>2, <2>2, <2>3, <2>4, <2>7 DEF CoverInv, SubmittedInTime, PromotesInTime
<1>3. CASE starts # 0
  BY <1>1, <1>3 DEF CoverInv
<1> QED BY <1>2, <1>3

\* A call of the first process leaves it as much in time.
LEMMA RotationCovers ==
  ASSUME IdInv, CoverInv, MaybeRotate
  PROVE  CoverInv'
<1>0. /\ pc = "idle" /\ Settled(engine) /\ lastCall' = now /\ now' = now
      /\ now = lastCall + Interval /\ now \in Nat /\ lastCall \in Nat /\ Interval \in Nat \ {0}
  BY CallTimes
<1>1. /\ Active \in Held(engine, "ACTIVE") /\ \A a \in Held(engine, "ACTIVE") : a = Active
      /\ engine[Active].created \in Nat
      /\ engine[Active].expiration = engine[Active].created + TotalValidity
  BY <1>0, ActiveDates
<1>2. /\ ValidationPeriod = FallbackPeriod /\ FallbackPeriod \in Nat \ {0}
      /\ TotalValidity \in Nat /\ TotalValidity >= 3 * FallbackPeriod
  BY PeriodsCompared
<1>3. UNCHANGED <<starts, whole>> /\ rows' = rows
  BY RotationTypes DEF MaybeRotate, found, IdInv
<1> SUFFICES ASSUME starts = 1
             PROVE  (whole /\ SubmitsInTime /\ SubmittedInTime /\ PromotesInTime)'
  BY <1>0, <1>3 DEF CoverInv
<1>4. whole /\ SubmitsInTime /\ SubmittedInTime
  BY <1>0 DEF CoverInv
<1>5. CASE SubmitSuccessor
  <2> DEFINE s == Active + 1
  <2>1. /\ s \in Versions /\ engine'[s].status = "VALIDATING" /\ engine'[s].created = now
        /\ engine'[s].deadline = now + ValidationPeriod
        /\ \A w \in Versions \ {s} : engine'[w] = engine[w]
        /\ s \notin Known(engine)
    BY <1>5, SubmitEffect DEF IdInv
  <2>2. /\ Held(engine, "VALIDATING") = {} /\ now < engine[Active].expiration /\ pc' = "commit"
    BY <1>0, <1>1, <1>2, <1>5 DEF SubmitSuccessor, SubmitDue, CanSubmit, Expired, Active
  <2>3. Outlived(engine) = {}
    BY <1>0, <1>5, SubmitKeepsDates DEF IdInv
  <2>4. lastCall < RotateAt(Active) + Interval
    BY <1>0, <1>1, <1>2, <1>4, <2>1, <2>2, <2>3 DEF SubmitsInTime, Final
  <2>5. Active \in Versions /\ engine[Active].status = "ACTIVE" /\ Active # s
    BY <1>1, <2>1 DEF Held, Known
  <2> HIDE DEF s
  <2>6. /\ Held(engine', "VALIDATING") = {s} /\ Held(engine', "ACTIVE") = Held(engine, "ACTIVE")
        /\ engine'[Active] = engine[Active]
    BY <2>1, <2>2, <2>5 DEF Held, Known
  <2>7. /\ now < engine[Active].expiration - 2 * FallbackPeriod + 2 * Interval
        /\ now < now + ValidationPeriod
    BY <1>0, <1>1, <1>2, <2>4 DEF RotateAt
  <2>8. SubmittedInTime'
    BY <1>0, <1>1, <2>1, <2>2, <2>6, <2>7 DEF SubmittedInTime, RotateAt
  <2> QED BY <1>3, <1>4, <2>2, <2>6, <2>8 DEF SubmitsInTime, PromotesInTime
<1>6. CASE BeginCheckpoint
  <2>1. \A w \in Versions :
          /\ engine'[w].status = IF engine[w].status = "FALLBACK" THEN "TERMINATED"
                                                                  ELSE engine[w].status
          /\ Same(engine'[w], engine[w])
    BY <1>0, <1>6, BeginEffect DEF IdInv, Settled
  <2>2. /\ Held(engine', "VALIDATING") = Held(engine, "VALIDATING")
        /\ Held(engine', "ACTIVE") = Held(engine, "ACTIVE")
        /\ \A w \in Versions : /\ engine'[w].deadline = engine[w].deadline
                               /\ engine'[w].expiration = engine[w].expiration
    BY <2>1 DEF Held, Same
  <2>3. /\ Held(engine, "VALIDATING") # {} /\ pc' = "demote" /\ now < engine[Active].expiration
    BY <1>0, <1>1, <1>2, <1>6
       DEF BeginCheckpoint, CanPromote, CheckpointReached, Expired, Active
  <2>4. ASSUME NEW v \in Held(engine, "VALIDATING")
        PROVE  /\ now < engine[v].deadline + Interval
               /\ engine[Active].expiration + 3 * Interval > now + FallbackPeriod
    <3>1. engine[v].created \in Nat /\ engine[v].deadline = engine[v].created + ValidationPeriod
      BY ValidatingDates
    <3>2. engine[v].created < RotateAt(Active) + 2 * Interval /\ lastCall < engine[v].deadline
      BY <1>0, <1>1, <1>2, <1>4, <2>3 DEF SubmittedInTime
    <3> QED BY <1>0, <1>1, <1>2, <3>1, <3>2 DEF RotateAt
  <2>5. SubmittedInTime'
    BY <1>0, <1>1, <2>2, <2>3, <2>4 DEF SubmittedInTime, Held
  <2>6. PromotesInTime'
    BY <1>0, <2>2, <2>4 DEF PromotesInTime, Held
  <2> QED BY <1>3, <1>4, <2>2, <2>3, <2>5, <2>6 DEF SubmitsInTime
<1>7. CASE OutlivedCheckpoint
  <2>1. \A w \in Versions :
          engine'[w].status = IF engine[w].status = "VALIDATING" THEN "EXPIRED"
                                                                 ELSE engine[w].status
    BY <1>0, <1>7, OutlivedEffect DEF IdInv, Settled
  <2>2. Held(engine, "VALIDATING") # {}
    BY <1>7 DEF OutlivedCheckpoint, SuccessorOutlived, CheckpointReached
  <2>3. Held(engine', "VALIDATING") = {} /\ Outlived(engine') # {}
    BY <2>1, <2>2 DEF Held, Outlived
  <2> QED BY <1>3, <1>4, <2>3 DEF SubmitsInTime, SubmittedInTime, PromotesInTime, Final
<1>8. CASE NothingToRotate
  <2>1. engine' = engine /\ pc' = "idle"
    BY <1>0, <1>8 DEF NothingToRotate, memory
  <2>2. keys[Active] # 0
    BY <1>0, <1>1, <1>4 DEF IdInv, KeyInv, InWindow, Held, WindowStatuses
  <2>3. SubmitsInTime'
    <3> SUFFICES ASSUME Held(engine, "VALIDATING") = {}
                 PROVE  \/ now < RotateAt(Active) + Interval \/ Active + 1 \notin Versions
                        \/ now >= engine[Active].expiration \/ Outlived(engine) # {}
      BY <1>0, <1>1, <2>1 DEF SubmitsInTime, RotateAt, Final
    <3>1. \/ now < RotateAt(Active) \/ Active + 1 \notin Versions
          \/ now >= engine[Active].expiration \/ Outlived(engine) # {}
      BY <1>0, <1>8, <2>2, NotSubmitted DEF NothingToRotate
    <3>2. RotateAt(Active) \in Int
      BY <1>1, <1>2 DEF RotateAt
    <3> QED BY <1>0, <3>1, <3>2
  <2>4. SubmittedInTime'
    <3> SUFFICES ASSUME NEW v \in Held(engine, "VALIDATING")
                 PROVE  /\ engine[v].created < RotateAt(Active) + 2 * Interval
                        /\ now < engine[v].deadline \/ now >= engine[Active].expiration
      BY <1>0, <1>1, <2>1 DEF SubmittedInTime, RotateAt
    <3> QED BY <1>0, <1>1, <1>4, <1>8, NotPromoted DEF NothingToRotate, SubmittedInTime
  <2> QED BY <1>3, <1>4, <2>1, <2>3, <2>4 DEF PromotesInTime
<1> QED BY <1>5, <1>6, <1>7, <1>8 DEF MaybeRotate

LEMMA CoverStep == IdInv /\ CoverInv /\ [Next]_vars => CoverInv'
<1> SUFFICES ASSUME IdInv, CoverInv, [Next]_vars PROVE CoverInv'
  OBVIOUS
<1>1. CASE Crash
  BY <1>1 DEF Crash, CoverInv, found, disk
<1>2. CASE Commit
  <2>1. /\ UNCHANGED <<engine, lastCall, starts, whole>>
        /\ pc \in {"provision", "commit"} /\ pc' \in {"bootkeys", "keyfile"}
    BY <1>2 DEF Commit, memory, found
  <2> QED BY <2>1, CoverKept
<1>3. CASE SaveKeys
  <2>1. /\ UNCHANGED <<engine, lastCall, starts, whole>>
        /\ pc \in {"bootkeys", "keyfile"} /\ pc' = "idle"
    BY <1>3 DEF SaveKeys, memory, found
  <2> QED BY <2>1, CoverKept
<1>4. CASE WriteFails
  <2>1. /\ UNCHANGED <<engine, lastCall, starts, whole>>
        /\ pc \in {"commit", "keyfile"} /\ pc' = "idle"
    BY <1>4 DEF WriteFails, memory, found
  <2> QED BY <2>1, CoverKept
<1>5. CASE Demote
  <2>1. /\ Settled(engine) /\ pc = "demote" /\ pc' = "promote"
        /\ UNCHANGED <<lastCall, starts, whole>>
    BY <1>5 DEF Demote, IdInv, ShapeInv, found
  <2>2. \A w \in Versions :
          /\ engine'[w].status = IF engine[w].status = "ACTIVE" THEN "FALLBACK"
                                                                ELSE engine[w].status
          /\ engine[w].status # "ACTIVE" => engine'[w] = engine[w]
    BY <1>5, <2>1, DemoteEffect DEF IdInv
  <2>3. /\ Held(engine', "ACTIVE") = {} /\ Held(engine', "VALIDATING") = Held(engine, "VALIDATING")
        /\ \A v \in Held(engine, "VALIDATING") : engine'[v] = engine[v]
    BY <2>2 DEF Held
  <2> QED BY <2>1, <2>3 DEF CoverInv, SubmitsInTime, SubmittedInTime, PromotesInTime
<1>6. CASE Promote
  <2>1. /\ Single(engine) /\ Held(engine, "VALIDATING") # {} /\ Held(engine, "ACTIVE") = {}
        /\ pc = "promote" /\ pc' = "commit" /\ UNCHANGED <<lastCall, starts, whole>>
    BY <1>6 DEF Promote, IdInv, ShapeInv, found
  <2>2. \A w \in Versions :
          /\ engine'[w].status = IF engine[w].status = "VALIDATING" THEN "ACTIVE"
                                                                    ELSE engine[w].status
          /\ engine'[w].expiration = engine[w].expiration
    BY <1>6, <2>1, PromoteEffect DEF IdInv, Same
  <2>3. /\ Held(engine', "VALIDATING") = {}
        /\ Held(engine', "ACTIVE") = Held(engine, "VALIDATING")
    BY <2>1, <2>2 DEF Held
  <2>4. ASSUME NEW v \in Held(engine, "VALIDATING"), starts = 1
        PROVE  lastCall < engine'[v].expiration - 2 * FallbackPeriod + Interval
    <3>1. /\ engine[v].created \in Nat /\ engine[v].deadline = engine[v].created + ValidationPeriod
          /\ engine[v].expiration = engine[v].created + TotalValidity /\ v \in Versions
      BY ValidatingDates
    <3>2. lastCall < engine[v].deadline + Interval /\ lastCall \in Nat
      BY <2>1, <2>4 DEF CoverInv, PromotesInTime, IdInv, TypeOK
    <3> QED BY <2>2, <3>1, <3>2, PeriodsCompared, IdentityAssumption
  <2>5. starts = 1 => SubmitsInTime'
    BY <2>1, <2>3, <2>4 DEF SubmitsInTime, RotateAt
  <2> QED BY <2>1, <2>3, <2>5 DEF CoverInv, SubmittedInTime, PromotesInTime
<1>7. CASE Read
  <2>1. UNCHANGED <<engine, lastCall, starts, whole, pc, rows, now>>
    BY <1>7 DEF Read, memory, found, disk
  <2> QED BY <2>1 DEF CoverInv, SubmitsInTime, SubmittedInTime, PromotesInTime, Final, RotateAt
<1>8. CASE Tick
  <2>1. /\ UNCHANGED <<engine, lastCall, starts, whole, pc, rows>>
        /\ pc \in {"down", "idle"}
    BY <1>8 DEF Tick, memory, found, disk
  <2> QED BY <2>1 DEF CoverInv, SubmitsInTime, SubmittedInTime, PromotesInTime, Final, RotateAt
<1>9. CASE UNCHANGED vars
  <2>1. UNCHANGED <<engine, lastCall, starts, whole, pc, rows, now>>
    BY <1>9 DEF vars, memory, found, disk
  <2> QED BY <2>1 DEF CoverInv, SubmitsInTime, SubmittedInTime, PromotesInTime, Final, RotateAt
<1> QED
  BY <1>1, <1>2, <1>3, <1>4, <1>5, <1>6, <1>7, <1>8, <1>9, StartCovers, RotationCovers DEF Next

\* Only a demotion turns an active credential into a fallback one.
LEMMA DemotedByDemote ==
  ASSUME IdInv, [Next]_vars, NEW v \in Versions,
         engine[v].status = "ACTIVE", engine'[v].status = "FALLBACK"
  PROVE  Demote
<1> USE DEF IdInv
<1>1. CASE Start
  <2>1. engine = EmptyEngine
    BY <1>1 DEF Start, KeyInv
  <2> QED BY <2>1 DEF EmptyEngine, Absent
<1>2. CASE Crash
  BY <1>2 DEF Crash, EmptyEngine, Absent
<1>3. CASE MaybeRotate
  <2>1. Settled(engine)
    BY <1>3, CallTimes
  <2>2. CASE SubmitSuccessor
    BY <2>2, SubmitEffect DEF Known
  <2>3. CASE BeginCheckpoint
    BY <2>1, <2>3, BeginEffect DEF Settled
  <2>4. CASE OutlivedCheckpoint
    BY <2>1, <2>4, OutlivedEffect DEF Settled
  <2>5. CASE NothingToRotate
    BY <2>5 DEF NothingToRotate, memory
  <2> QED BY <1>3, <2>2, <2>3, <2>4, <2>5 DEF MaybeRotate
<1>4. CASE Promote
  <2>1. Single(engine) /\ Held(engine, "VALIDATING") # {}
    BY <1>4 DEF Promote, ShapeInv
  <2> QED BY <1>4, <2>1, PromoteEffect
<1>5. CASE UNCHANGED engine
  BY <1>5
<1>6. Commit \/ SaveKeys \/ WriteFails \/ Read \/ Tick \/ UNCHANGED vars => UNCHANGED engine
  BY DEF Commit, SaveKeys, WriteFails, Read, Tick, vars, memory
<1> QED BY <1>1, <1>2, <1>3, <1>4, <1>5, <1>6 DEF Next

\* Rotation begins early enough, for every period and every interval of the calls,
\* but for three intervals (identity.py:215-217).
THEOREM FallbackCoveredFully == Spec => FullCoverage
<1>1. Init => CoverInv
  BY DEF Init, CoverInv
<1>2. ASSUME IdInv, CoverInv, [Next]_vars, NEW v \in Versions,
             starts = 1, engine[v].status = "ACTIVE", engine'[v].status = "FALLBACK"
      PROVE  engine[v].expiration + 3 * Interval > now + FallbackPeriod
  <2>1. pc = "demote"
    BY <1>2, DemotedByDemote DEF Demote
  <2>2. PICK w \in Held(engine, "VALIDATING") : TRUE
    BY <1>2, <2>1 DEF IdInv, ShapeInv
  <2>3. v \in Held(engine, "ACTIVE") /\ SubmittedInTime
    BY <1>2, <2>1 DEF CoverInv, Held
  <2> QED BY <2>1, <2>2, <2>3 DEF SubmittedInTime
<1>3. IdInv /\ CoverInv /\ [Next]_vars =>
        [\A v \in Versions :
           (starts = 1 /\ engine[v].status = "ACTIVE" /\ engine'[v].status = "FALLBACK")
             => engine[v].expiration + 3 * Interval > now + FallbackPeriod]_vars
  BY <1>2
<1> QED BY <1>1, <1>3, IdCorrect, CoverStep, PTL DEF Spec, FullCoverage

-------------------------------------------------------------------------------
\* A process that is in time stays so.

\* The next call submits in time for the one that promotes.
TimeToSubmit ==
  \A a \in Held(engine, "ACTIVE") :
    Held(engine, "VALIDATING") = {} =>
      lastCall + 2 * Interval + ValidationPeriod < engine[a].expiration

\* The next call promotes in time, and what it promotes has time left.
TimeToPromote ==
  \A a \in Held(engine, "ACTIVE"), v \in Held(engine, "VALIDATING") :
    pc # "demote" =>
      /\ lastCall + Interval < engine[a].expiration
      /\ engine[v].deadline + Interval <= engine[a].expiration
      /\ \/ lastCall < engine[v].deadline
         \/ lastCall + 3 * Interval + ValidationPeriod < engine[v].expiration

TimeAfterPromotion ==
  \A v \in Held(engine, "VALIDATING") :
    pc \in {"demote", "promote"} =>
      lastCall + 2 * Interval + ValidationPeriod < engine[v].expiration

InTime == Outlived(engine) = {} /\ TimeToSubmit /\ TimeToPromote /\ TimeAfterPromotion

TimelyInv == whole /\ timely /\ pc # "down" => InTime

\* Three calls fit into half a period: by default one is made every minute of a
\* period of a day (server/sih_server/config.py).
Frequent == 3 * Interval <= FallbackPeriod

LEMMA TimelyKept ==
  ASSUME TimelyInv, UNCHANGED <<engine, lastCall, whole, timely>>, pc # "down",
         pc' = pc \/ (pc \notin {"demote", "promote"} /\ pc' \notin {"demote", "promote"})
  PROVE  TimelyInv'
BY DEF TimelyInv, InTime, TimeToSubmit, TimeToPromote, TimeAfterPromotion

\* What the process finds in time is in time.
LEMMA StartInTime ==
  ASSUME IdInv, Frequent, Start, timely', pc' # "down"
  PROVE  InTime'
<1>0. /\ lastCall' = now /\ now \in Nat /\ pc = "down"
      /\ timely' = \A v \in Held(rows, "ACTIVE") : TimeToRotate(rows[v])
  BY DEF Start, IdInv, TypeOK
<1>1. /\ ValidationPeriod = FallbackPeriod /\ FallbackPeriod \in Nat \ {0}
      /\ TotalValidity \in Nat /\ TotalValidity >= 3 * FallbackPeriod
      /\ Interval \in Nat \ {0} /\ 3 * Interval <= FallbackPeriod
  BY PeriodsCompared, IdentityAssumption DEF Frequent
<1>2. CASE StartFresh
  <2>1. 1 \in Versions /\ engine' = Provisioned(EmptyEngine, 1, now) /\ pc' = "provision"
    BY <1>2, RotationAssumption DEF StartFresh, Versions
  <2>2. /\ Held(engine', "ACTIVE") = {1} /\ Held(engine', "VALIDATING") = {}
        /\ Outlived(engine') = {} /\ engine'[1].expiration = now + TotalValidity
    BY <2>1 DEF Provisioned, EmptyEngine, Absent, Held, Outlived
  <2>3. now + 2 * Interval + ValidationPeriod < now + TotalValidity
    BY <1>0, <1>1
  <2>4. TimeToSubmit'
    BY <1>0, <2>2, <2>3 DEF TimeToSubmit
  <2> QED BY <2>2, <2>4 DEF InTime, TimeToPromote, TimeAfterPromotion
<1>3. CASE StartAgain
  <2>1. engine' = rows /\ pc' = "idle"
    BY <1>0, <1>3 DEF StartAgain, memory
  <2>2. \A a \in Held(rows, "ACTIVE") :
          /\ rows[a].expiration \in Nat
          /\ now + 2 * Interval + ValidationPeriod < rows[a].expiration
    <3>1. ASSUME NEW a \in Held(rows, "ACTIVE")
          PROVE  /\ rows[a].expiration \in Nat
                 /\ now + Interval + ValidationPeriod + Interval < rows[a].expiration
      BY <1>0, <3>1 DEF TimeToRotate, IdInv, TypeOK, Engines, Credential, Held
    <3> QED BY <1>0, <1>1, <3>1
  <2>3. TimeToSubmit'
    BY <1>0, <2>1, <2>2 DEF TimeToSubmit
  <2>4. ASSUME NEW a \in Held(rows, "ACTIVE"), NEW v \in Held(rows, "VALIDATING")
        PROVE  /\ now + Interval < rows[a].expiration
               /\ rows[v].deadline + Interval <= rows[a].expiration
               /\ now + 3 * Interval + ValidationPeriod < rows[v].expiration
    <3>1. v \in Versions /\ rows[v].status = "VALIDATING" /\ rows[v].created \in Nat
      BY DEF Held, IdInv, TypeOK, Engines, Credential
    <3>2. /\ rows[v].created <= now /\ rows[v].expiration = rows[v].created + TotalValidity
          /\ rows[v].deadline = rows[v].created + ValidationPeriod
          /\ rows[a].expiration <= rows[v].created + 2 * FallbackPeriod
      BY <3>1 DEF IdInv, DateInv, Dated
    <3> QED BY <1>0, <1>1, <2>2, <3>1, <3>2
  <2>5. TimeToPromote'
    BY <1>0, <2>1, <2>4 DEF TimeToPromote
  <2> QED BY <2>1, <2>3, <2>5 DEF InTime, TimeAfterPromotion, IdInv, DateInv
<1> QED BY <1>2, <1>3 DEF Start

\* A call in time leaves time for the next one.
LEMMA RotationInTime ==
  ASSUME IdInv, Frequent, MaxTime <= MaxVersion, whole, InTime, MaybeRotate
  PROVE  InTime'
<1>0. /\ pc = "idle" /\ Settled(engine) /\ lastCall' = now /\ now' = now
      /\ now = lastCall + Interval /\ now \in Nat /\ lastCall \in Nat
  BY CallTimes
<1>1. /\ Active \in Held(engine, "ACTIVE") /\ \A a \in Held(engine, "ACTIVE") : a = Active
      /\ engine[Active].created \in Nat /\ Active \in Versions
      /\ engine[Active].expiration = engine[Active].created + TotalValidity
  BY <1>0, ActiveDates
<1>2. /\ ValidationPeriod = FallbackPeriod /\ FallbackPeriod \in Nat \ {0}
      /\ TotalValidity \in Nat /\ TotalValidity >= 3 * FallbackPeriod
      /\ Interval \in Nat \ {0} /\ 3 * Interval <= FallbackPeriod
  BY PeriodsCompared, IdentityAssumption DEF Frequent
<1>3. ASSUME NEW v \in Held(engine, "VALIDATING")
      PROVE  /\ engine[v].created \in Nat
             /\ engine[v].deadline = engine[v].created + ValidationPeriod
             /\ engine[v].expiration = engine[v].created + TotalValidity
             /\ now < engine[Active].expiration
             /\ now + 2 * Interval + ValidationPeriod < engine[v].expiration
  <2>1. /\ engine[v].created \in Nat
        /\ engine[v].deadline = engine[v].created + ValidationPeriod
        /\ engine[v].expiration = engine[v].created + TotalValidity
    BY ValidatingDates
  <2>2. /\ lastCall + Interval < engine[Active].expiration
        /\ \/ lastCall < engine[v].deadline
           \/ lastCall + 3 * Interval + ValidationPeriod < engine[v].expiration
    BY <1>0, <1>1 DEF InTime, TimeToPromote
  <2> QED BY <1>0, <1>2, <2>1, <2>2
<1>4. CASE SubmitSuccessor
  <2> DEFINE s == Active + 1
  <2>1. /\ s \in Versions /\ engine'[s].status = "VALIDATING"
        /\ engine'[s].deadline = now + ValidationPeriod
        /\ \A w \in Versions \ {s} : engine'[w] = engine[w]
        /\ s \notin Known(engine)
    BY <1>4, SubmitEffect DEF IdInv
  <2>2. Held(engine, "VALIDATING") = {} /\ pc' = "commit"
    BY <1>4 DEF SubmitSuccessor, SubmitDue
  <2>3. Active \in Versions /\ engine[Active].status = "ACTIVE" /\ Active # s
    BY <1>1, <2>1 DEF Held, Known
  <2> HIDE DEF s
  <2>4. /\ Held(engine', "VALIDATING") = {s} /\ Held(engine', "ACTIVE") = Held(engine, "ACTIVE")
        /\ engine'[Active] = engine[Active] /\ Outlived(engine') = {}
    BY <2>1, <2>2, <2>3 DEF Held, Known, InTime, Outlived
  <2>5. lastCall + 2 * Interval + ValidationPeriod < engine[Active].expiration
    BY <1>1, <2>2 DEF InTime, TimeToSubmit
  <2>6. /\ now + Interval < engine[Active].expiration
        /\ now + ValidationPeriod + Interval <= engine[Active].expiration
        /\ now < now + ValidationPeriod
    BY <1>0, <1>1, <1>2, <2>5
  <2>7. TimeToPromote'
    BY <1>0, <1>1, <2>1, <2>4, <2>6 DEF TimeToPromote
  <2> QED BY <2>2, <2>4, <2>7 DEF InTime, TimeToSubmit, TimeAfterPromotion
<1>5. CASE BeginCheckpoint
  <2>1. \A w \in Versions :
          /\ engine'[w].status = IF engine[w].status = "FALLBACK" THEN "TERMINATED"
                                                                  ELSE engine[w].status
          /\ engine'[w].expiration = engine[w].expiration
    BY <1>0, <1>5, BeginEffect DEF IdInv, Settled, Same
  <2>2. /\ Held(engine', "VALIDATING") = Held(engine, "VALIDATING")
        /\ Held(engine', "ACTIVE") = Held(engine, "ACTIVE") /\ Outlived(engine') = {}
    BY <2>1 DEF Held, Outlived, InTime
  <2>3. Held(engine, "VALIDATING") # {} /\ pc' = "demote"
    BY <1>5 DEF BeginCheckpoint, CanPromote, CheckpointReached
  <2>4. TimeAfterPromotion'
    BY <1>0, <1>3, <2>1, <2>2 DEF TimeAfterPromotion, Held
  <2> QED BY <2>2, <2>3, <2>4 DEF InTime, TimeToSubmit, TimeToPromote
<1>6. ~OutlivedCheckpoint
  <2> SUFFICES ASSUME SuccessorOutlived(engine, now) PROVE FALSE
    BY DEF OutlivedCheckpoint
  <2>1. PICK v \in Held(engine, "VALIDATING") : First(engine, "VALIDATING") = v
    BY <1>0, HolderIs DEF SuccessorOutlived, CheckpointReached, Settled, Single, WindowStatuses
  <2>2. now >= engine[v].expiration
    BY <2>1 DEF SuccessorOutlived, Expired
  <2> QED BY <1>0, <1>2, <1>3, <2>2
<1>7. CASE NothingToRotate
  <2>1. engine' = engine /\ pc' = "idle"
    BY <1>0, <1>7 DEF NothingToRotate, memory
  <2>2. keys[Active] # 0
    BY <1>0, <1>1 DEF IdInv, KeyInv, InWindow, Held, WindowStatuses
  <2>3. TimeToSubmit'
    <3> SUFFICES ASSUME Held(engine, "VALIDATING") = {}
                 PROVE  now + 2 * Interval + ValidationPeriod < engine[Active].expiration
      BY <1>0, <1>1, <2>1 DEF TimeToSubmit
    <3>1. \/ now < RotateAt(Active) \/ Active + 1 \notin Versions
          \/ now >= engine[Active].expiration \/ Outlived(engine) # {}
      BY <1>0, <1>7, <2>2, NotSubmitted DEF NothingToRotate
    <3>2. lastCall + 2 * Interval + ValidationPeriod < engine[Active].expiration
      BY <1>1 DEF InTime, TimeToSubmit
    <3>3. CASE now < RotateAt(Active)
      BY <1>0, <1>1, <1>2, <3>3 DEF RotateAt
    <3>4. CASE Active + 1 \notin Versions /\ ~(now < RotateAt(Active))
      <4>1. Active <= engine[Active].created
        BY <1>1 DEF IdInv, DateInv, Dated, Held
      <4>2. now <= MaxVersion /\ Active \in Nat /\ MaxVersion \in Nat
        <5>1. now \in 1 .. MaxTime
          BY DEF IdInv, TypeOK
        <5> QED BY <1>1, <5>1, IdentityAssumption, RotationAssumption DEF Versions
      <4>3. engine[Active].created < now
        BY <1>0, <1>1, <1>2, <3>4 DEF RotateAt
      <4>4. Active + 1 \in Versions
        BY <1>0, <1>1, <4>1, <4>2, <4>3 DEF Versions
      <4> QED BY <3>4, <4>4
    <3>5. ~(now >= engine[Active].expiration) /\ Outlived(engine) = {}
      BY <1>0, <1>1, <1>2, <3>2 DEF InTime
    <3> QED BY <3>1, <3>3, <3>4, <3>5
  <2>4. TimeToPromote'
    <3> SUFFICES ASSUME NEW v \in Held(engine, "VALIDATING")
                 PROVE  /\ now + Interval < engine[Active].expiration
                        /\ engine[v].deadline + Interval <= engine[Active].expiration
                        /\ now < engine[v].deadline
      BY <1>0, <1>1, <2>1 DEF TimeToPromote
    <3>1. now < engine[v].deadline \/ now >= engine[Active].expiration
      BY <1>0, <1>7, NotPromoted DEF NothingToRotate
    <3>2. engine[v].deadline + Interval <= engine[Active].expiration
      BY <1>0, <1>1 DEF InTime, TimeToPromote
    <3> QED BY <1>0, <1>1, <1>2, <1>3, <3>1, <3>2
  <2> QED BY <2>1, <2>3, <2>4 DEF InTime, TimeAfterPromotion
<1> QED BY <1>4, <1>5, <1>6, <1>7 DEF MaybeRotate

LEMMA TimelyStep ==
  ASSUME Frequent, MaxTime <= MaxVersion
  PROVE  IdInv /\ TimelyInv /\ [Next]_vars => TimelyInv'
<1> SUFFICES ASSUME IdInv, TimelyInv, [Next]_vars PROVE TimelyInv'
  OBVIOUS
<1>1. CASE Start
  BY <1>1, StartInTime DEF TimelyInv
<1>2. CASE Crash
  BY <1>2 DEF Crash, TimelyInv
<1>3. CASE Commit
  <2>1. /\ UNCHANGED <<engine, lastCall, whole, timely>>
        /\ pc \in {"provision", "commit"} /\ pc' \in {"bootkeys", "keyfile"}
    BY <1>3 DEF Commit, memory, found
  <2> QED BY <2>1, TimelyKept
<1>4. CASE SaveKeys
  <2>1. /\ UNCHANGED <<engine, lastCall, whole, timely>>
        /\ pc \in {"bootkeys", "keyfile"} /\ pc' = "idle"
    BY <1>4 DEF SaveKeys, memory, found
  <2> QED BY <2>1, TimelyKept
<1>5. CASE WriteFails
  <2>1. /\ UNCHANGED <<engine, lastCall, whole, timely>>
        /\ pc \in {"commit", "keyfile"} /\ pc' = "idle"
    BY <1>5 DEF WriteFails, memory, found
  <2> QED BY <2>1, TimelyKept
<1>6. CASE MaybeRotate
  <2>1. UNCHANGED <<whole, timely>> /\ pc = "idle"
    BY <1>6 DEF MaybeRotate, found
  <2> QED BY <1>6, <2>1, RotationInTime DEF TimelyInv
<1>7. CASE Demote
  <2>1. /\ Settled(engine) /\ pc = "demote" /\ pc' = "promote"
        /\ UNCHANGED <<lastCall, whole, timely>>
    BY <1>7 DEF Demote, IdInv, ShapeInv, found
  <2>2. \A w \in Versions :
          /\ engine'[w].status = IF engine[w].status = "ACTIVE" THEN "FALLBACK"
                                                                ELSE engine[w].status
          /\ engine[w].status # "ACTIVE" => engine'[w] = engine[w]
    BY <1>7, <2>1, DemoteEffect DEF IdInv
  <2>3. /\ Held(engine', "ACTIVE") = {} /\ Held(engine', "VALIDATING") = Held(engine, "VALIDATING")
        /\ \A v \in Held(engine, "VALIDATING") : engine'[v] = engine[v]
        /\ Outlived(engine') = Outlived(engine)
    BY <2>2 DEF Held, Outlived
  <2> QED BY <2>1, <2>3 DEF TimelyInv, InTime, TimeToSubmit, TimeToPromote, TimeAfterPromotion
<1>8. CASE Promote
  <2>1. /\ Single(engine) /\ Held(engine, "VALIDATING") # {} /\ Held(engine, "ACTIVE") = {}
        /\ pc = "promote" /\ pc' = "commit" /\ UNCHANGED <<lastCall, whole, timely>>
    BY <1>8 DEF Promote, IdInv, ShapeInv, found
  <2>2. \A w \in Versions :
          /\ engine'[w].status = IF engine[w].status = "VALIDATING" THEN "ACTIVE"
                                                                    ELSE engine[w].status
          /\ engine'[w].expiration = engine[w].expiration
    BY <1>8, <2>1, PromoteEffect DEF IdInv, Same
  <2>3. /\ Held(engine', "VALIDATING") = {}
        /\ Held(engine', "ACTIVE") = Held(engine, "VALIDATING")
        /\ \A v \in Held(engine, "VALIDATING") : engine'[v].expiration = engine[v].expiration
        /\ Outlived(engine') = Outlived(engine)
    BY <2>1, <2>2 DEF Held, Outlived
  <2> QED BY <2>1, <2>3 DEF TimelyInv, InTime, TimeToSubmit, TimeToPromote, TimeAfterPromotion
<1>9. CASE Read
  BY <1>9, TimelyKept DEF Read, memory, found
<1>10. CASE Tick
  <2>1. UNCHANGED <<engine, lastCall, whole, timely, pc>>
    BY <1>10 DEF Tick, memory, found
  <2> QED BY <2>1 DEF TimelyInv, InTime, TimeToSubmit, TimeToPromote, TimeAfterPromotion
<1>11. CASE UNCHANGED vars
  <2>1. UNCHANGED <<engine, lastCall, whole, timely, pc>>
    BY <1>11 DEF vars, memory, found
  <2> QED BY <2>1 DEF TimelyInv, InTime, TimeToSubmit, TimeToPromote, TimeAfterPromotion
<1> QED BY <1>1, <1>2, <1>3, <1>4, <1>5, <1>6, <1>7, <1>8, <1>9, <1>10, <1>11 DEF Next

\* A process that found the keys of its window, and the time for a rotation, always
\* has an active credential that has not expired, when three calls fit into half a
\* period.  A version is never
\* above the time it was made at, so that a bound on the versions no lower than the
\* one on the clock is none.
THEOREM ActiveNeverExpires ==
  ASSUME 3 * Interval <= FallbackPeriod, MaxTime <= MaxVersion
  PROVE  Spec => []NeverExpires
<1>1. Init => TimelyInv
  BY DEF Init, TimelyInv
<1>2. IdInv /\ TimelyInv /\ [Next]_vars => TimelyInv'
  BY TimelyStep DEF Frequent
<1>3. IdInv /\ TimelyInv => NeverExpires
  <2> SUFFICES ASSUME IdInv, InTime, pc = "idle"
               PROVE  \E v \in Held(engine, "ACTIVE") : ~Expired(engine[v], now)
    BY DEF TimelyInv, NeverExpires
  <2>1. Settled(engine) /\ now <= lastCall + Interval /\ now \in Nat /\ lastCall \in Nat
    BY DEF IdInv, ShapeInv, WholeSteps, DateInv, TypeOK
  <2>2. /\ Active \in Held(engine, "ACTIVE") /\ engine[Active].created \in Nat
        /\ engine[Active].expiration = engine[Active].created + TotalValidity
    BY <2>1, ActiveDates
  <2>3. CASE Held(engine, "VALIDATING") = {}
    <3>1. lastCall + 2 * Interval + ValidationPeriod < engine[Active].expiration
      BY <2>2, <2>3 DEF InTime, TimeToSubmit
    <3> QED BY <2>1, <2>2, <3>1, PeriodsCompared, IdentityAssumption DEF Expired
  <2>4. CASE Held(engine, "VALIDATING") # {}
    <3>1. lastCall + Interval < engine[Active].expiration
      BY <2>2, <2>4 DEF InTime, TimeToPromote
    <3> QED BY <2>1, <2>2, <3>1, PeriodsCompared, IdentityAssumption DEF Expired
  <2> QED BY <2>3, <2>4
<1> QED BY <1>1, <1>2, <1>3, IdCorrect, PTL DEF Spec
==============================================================================
