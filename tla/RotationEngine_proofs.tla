------------------------ MODULE RotationEngine_proofs ------------------------
(***************************************************************************)
(* Theorems about RotationEngine, for every T, MaxVersion and MaxTime.     *)
(***************************************************************************)
EXTENDS RotationEngine, RotationOps_proofs

\* A well-formed engine stays well formed.
LEMMA TypeStep == TypeOK /\ [Next]_vars => TypeOK'
<1> SUFFICES ASSUME TypeOK, [Next]_vars PROVE TypeOK'
  OBVIOUS
<1> USE Periods DEF TypeOK, Engines, Credential, Statuses, WindowStatuses, RetiredStatuses, NoTime
<1>1. ASSUME NEW v \in Versions, ProvisionInitial(v) PROVE TypeOK'
  BY <1>1 DEF ProvisionInitial, Provisioned
<1>2. ASSUME NEW v \in Versions, NEW signer \in Versions, NEW same \in BOOLEAN,
             SubmitSuccessor(v, signer, same)
      PROVE  TypeOK'
  BY <1>2 DEF SubmitSuccessor, Submitted
<1>3. ASSUME Checkpoint PROVE TypeOK'
  <2>1. CASE SuccessorOutlived(creds, now) /\ creds' = MarkedOutlived(creds)
    BY <1>3, <2>1 DEF Checkpoint, MarkedOutlived, WithStatus
  <2>2. CASE CanPromote(creds, now) /\ creds' = Promoted(creds, now)
    BY <1>3, <2>2, PromotedType DEF Checkpoint
  <2> QED BY <1>3, <2>1, <2>2 DEF Checkpoint
<1>4. ASSUME Rollback PROVE TypeOK'
  BY <1>4 DEF Rollback, RolledBack, WithStatus
<1>5. ASSUME NEW v \in Versions, Revoke(v) PROVE TypeOK'
  BY <1>5 DEF Revoke, Revoked, WithStatus
<1>6. ASSUME ExpireAll PROVE TypeOK'
  BY <1>6 DEF ExpireAll, ExpiredAll
<1>7. ASSUME Tick PROVE TypeOK'
  BY <1>7 DEF Tick
<1>8. CASE UNCHANGED vars
  BY <1>8 DEF vars
<1> QED BY <1>1, <1>2, <1>3, <1>4, <1>5, <1>6, <1>7, <1>8 DEF Next

\* Every reachable engine is well formed: type correctness is inductive.
THEOREM TypeCorrect == Spec => []TypeOK
<1>1. Init => TypeOK
  BY DEF Init, TypeOK, EmptyEngine, Engines, Credential, Absent, Statuses, NoTime
<1> QED BY <1>1, TypeStep, PTL DEF Spec

-------------------------------------------------------------------------------

\* What a promotion does to each record, when the validating and the active
\* credential are the only ones of their status.
LEMMA PromotedRecords ==
  ASSUME TypeOK, OnePerPlace, NEW v3 \in Held(creds, "VALIDATING"), NEW v2 \in Held(creds, "ACTIVE")
  PROVE  /\ v3 \in Versions /\ v2 \in Versions /\ v2 # v3
         /\ First(creds, "VALIDATING") = v3 /\ First(creds, "ACTIVE") = v2
         /\ Promoted(creds, now)[v3] =
              [creds[v3] EXCEPT !.status = "ACTIVE", !.activation = now]
         /\ Promoted(creds, now)[v2] =
              [creds[v2] EXCEPT !.status = "FALLBACK",
                             !.expiration = Later(creds[v2].expiration, now + FallbackPeriod)]
         /\ \A v \in Versions \ {v2, v3} :
              Promoted(creds, now)[v] =
                IF creds[v].status = "FALLBACK"
                THEN [creds[v] EXCEPT !.status = "TERMINATED"] ELSE creds[v]
<1>0. \A s \in WindowStatuses : \A v, w \in Held(creds, s) : v = w
  BY DEF OnePerPlace
<1>1. First(creds, "VALIDATING") = v3
  BY <1>0, FirstOfOne DEF WindowStatuses
<1>2. First(creds, "ACTIVE") = v2
  BY <1>0, FirstOfOne DEF WindowStatuses
<1>3. v3 \in Versions /\ v2 \in Versions /\ v2 # v3
  BY DEF Held
<1>4. \A v \in Held(creds, "FALLBACK") : First(creds, "FALLBACK") = v
  BY <1>0, FirstOfOne DEF WindowStatuses
<1>5. \A v \in Versions : v \in Held(creds, "FALLBACK") <=> creds[v].status = "FALLBACK"
  BY DEF Held
<1> QED BY <1>1, <1>2, <1>3, <1>4, <1>5 DEF Promoted, TypeOK, Engines

\* The rotation window: one credential per place, in order.
WindowInv == TypeOK /\ OnePerPlace /\ WindowOrdered

\* A step that at most moves known credentials out of the window.
Leaving ==
  \A v \in Versions :
    /\ \/ creds'[v].status = creds[v].status
       \/ /\ creds[v].status # "ABSENT"
          /\ creds'[v].status \in RetiredStatuses
    /\ creds'[v].created = creds[v].created
    /\ creds'[v].deadline = creds[v].deadline
    /\ creds'[v].activation = creds[v].activation
    /\ creds'[v].expiration = creds[v].expiration

\* Such a step preserves the window.
LEMMA LeavingPreservesWindow ==
  ASSUME WindowInv, TypeOK', Leaving
  PROVE  WindowInv'
<1>1. \A s \in WindowStatuses : Held(creds', s) \subseteq Held(creds, s)
  BY DEF Leaving, Held, WindowStatuses, RetiredStatuses
<1>2. Known(creds') = Known(creds)
  BY DEF Leaving, Known, RetiredStatuses
<1>3. OnePerPlace'
  BY <1>1 DEF WindowInv, OnePerPlace
<1>4. WindowOrdered'
  BY <1>1, <1>2 DEF WindowInv, WindowOrdered, WindowStatuses
<1> QED BY <1>3, <1>4 DEF WindowInv

\* checkpoint on a credential that outlived its validity, rollback, revoke and
\* expire_all only let credentials leave.
LEMMA OutlivedLeaves ==
  ASSUME WindowInv, SuccessorOutlived(creds, now), creds' = MarkedOutlived(creds)
  PROVE  Leaving
<1>1. PICK x \in Held(creds, "VALIDATING") : First(creds, "VALIDATING") = x
  BY FirstOfOne DEF SuccessorOutlived, CheckpointReached, WindowInv, OnePerPlace, WindowStatuses
<1> QED BY <1>1 DEF Leaving, MarkedOutlived, WithStatus, Held, RetiredStatuses,
                    WindowInv, TypeOK, Engines, Credential

LEMMA OthersLeave ==
  ASSUME WindowInv, Rollback \/ ExpireAll \/ \E v \in Versions : Revoke(v)
  PROVE  Leaving
<1> USE DEF Leaving, RetiredStatuses, WindowInv, TypeOK, Engines, Credential
<1>1. CASE Rollback
  <2>1. PICK x \in Held(creds, "VALIDATING") : First(creds, "VALIDATING") = x
    BY <1>1, FirstOfOne DEF Rollback, CanRollBack, OnePerPlace, WindowStatuses
  <2> QED BY <1>1, <2>1 DEF Rollback, RolledBack, WithStatus, Held
<1>2. CASE ExpireAll
  BY <1>2 DEF ExpireAll, ExpiredAll
<1>3. CASE \E v \in Versions : Revoke(v)
  BY <1>3 DEF Revoke, CanRevoke, Revoked, WithStatus, Known
<1> QED BY <1>1, <1>2, <1>3

\* v is a new version, newer than every known one, recorded as c.
Entering(v, c) ==
  /\ creds' = [creds EXCEPT ![v] = c]
  /\ \A w \in Known(creds) : w < v

\* What changes when v enters: it is known, and alone in its place.
LEMMA EnteringHolders ==
  ASSUME TypeOK, NEW v \in Versions, NEW c, Entering(v, c),
         c.status \in WindowStatuses, Held(creds, c.status) = {}
  PROVE  /\ Held(creds', c.status) = {v}
         /\ \A r \in WindowStatuses \ {c.status} : Held(creds', r) = Held(creds, r)
         /\ Known(creds') = Known(creds) \cup {v}
<1>1. creds'[v] = c /\ \A w \in Versions \ {v} : creds'[w] = creds[w]
  BY DEF Entering, TypeOK, Engines
<1>2. v \notin Known(creds)
  BY DEF Entering, Versions
<1>3. Held(creds', c.status) = {v}
  BY <1>1 DEF Held
<1>4. \A r \in WindowStatuses \ {c.status} : Held(creds', r) = Held(creds, r)
  BY <1>1, <1>2 DEF Held, Known, WindowStatuses
<1>5. Known(creds') = Known(creds) \cup {v}
  BY <1>1 DEF Known, WindowStatuses
<1> QED BY <1>3, <1>4, <1>5

\* A version that enters a free place with nothing ahead of it preserves the
\* window.
LEMMA EnteringPreservesWindow ==
  ASSUME WindowInv, TypeOK', NEW v \in Versions, NEW c, Entering(v, c),
         c.status \in {"ACTIVE", "VALIDATING"},
         Held(creds, c.status) = {}, Held(creds, "VALIDATING") = {}
  PROVE  WindowInv'
<1> DEFINE s == c.status
<1>1. /\ Held(creds', s) = {v}
      /\ \A r \in WindowStatuses \ {s} : Held(creds', r) = Held(creds, r)
      /\ Known(creds') = Known(creds) \cup {v}
  BY EnteringHolders DEF WindowInv, WindowStatuses
<1>2. s \in {"ACTIVE", "VALIDATING"} /\ Held(creds, "VALIDATING") = {}
  OBVIOUS
<1>3. \A w \in Known(creds) : w < v
  BY DEF Entering
<1> HIDE DEF s
<1>4. OnePerPlace'
  <2> SUFFICES ASSUME NEW r \in WindowStatuses,
                      NEW x \in Held(creds', r), NEW y \in Held(creds', r)
               PROVE  x = y
    BY DEF OnePerPlace
  <2>1. CASE r = s
    BY ONLY <2>1, <1>1, x \in Held(creds', r), y \in Held(creds', r)
  <2>2. CASE r # s
    BY <2>2, <1>1 DEF WindowInv, OnePerPlace
  <2> QED BY <2>1, <2>2
<1>5. \A f \in Held(creds, "FALLBACK") : f < v
  BY <1>3 DEF Held, Known
<1>6. \A w \in Known(creds') : w <= v
  BY <1>1, <1>3 DEF Known, Versions
<1>7. WindowOrdered'
  BY <1>1, <1>2, <1>5, <1>6 DEF WindowInv, WindowOrdered, WindowStatuses
<1> QED BY <1>4, <1>7 DEF WindowInv

\* The statuses before and after a promotion of v3 over v2.
Promotion(v2, v3) ==
  /\ v2 # v3
  /\ creds[v3].status = "VALIDATING" /\ creds'[v3].status = "ACTIVE"
  /\ creds[v2].status = "ACTIVE" /\ creds'[v2].status = "FALLBACK"
  /\ \A v \in Versions \ {v2, v3} :
       /\ creds[v].status \notin {"VALIDATING", "ACTIVE"}
       /\ creds'[v].status =
            IF creds[v].status = "FALLBACK" THEN "TERMINATED" ELSE creds[v].status

\* checkpoint promotes the only validating credential over the only active one.
LEMMA PromotedStatuses ==
  ASSUME WindowInv, CanPromote(creds, now), creds' = Promoted(creds, now)
  PROVE  \E v2, v3 \in Versions : Promotion(v2, v3)
<1>1. PICK v3 \in Held(creds, "VALIDATING"), v2 \in Held(creds, "ACTIVE") : TRUE
  BY DEF CanPromote, CheckpointReached
<1>2. /\ v3 \in Versions /\ v2 \in Versions /\ v2 # v3
      /\ creds'[v3] = [creds[v3] EXCEPT !.status = "ACTIVE", !.activation = now]
      /\ creds'[v2] = [creds[v2] EXCEPT !.status = "FALLBACK",
                         !.expiration = Later(creds[v2].expiration, now + FallbackPeriod)]
      /\ \A v \in Versions \ {v2, v3} :
            creds'[v] = IF creds[v].status = "FALLBACK"
                        THEN [creds[v] EXCEPT !.status = "TERMINATED"] ELSE creds[v]
  BY PromotedRecords DEF WindowInv
<1>3. \A v \in Versions \ {v2, v3} : creds[v].status \notin {"VALIDATING", "ACTIVE"}
  BY DEF WindowInv, OnePerPlace, Held, WindowStatuses
<1>4. \A v \in Versions : creds[v] \in Credential
  BY DEF WindowInv, TypeOK, Engines
<1>5. creds[v3].status = "VALIDATING" /\ creds[v2].status = "ACTIVE"
  BY DEF Held
<1>6. /\ creds'[v3].status = "ACTIVE" /\ creds'[v2].status = "FALLBACK"
      /\ \A v \in Versions \ {v2, v3} :
           creds'[v].status =
             IF creds[v].status = "FALLBACK" THEN "TERMINATED" ELSE creds[v].status
  BY <1>2, <1>4 DEF Credential
<1>7. Promotion(v2, v3)
  BY <1>2, <1>3, <1>5, <1>6 DEF Promotion
<1> QED BY <1>2, <1>7

\* The promotion moves the window by one place and empties the last one.
LEMMA PromotionPreservesWindow ==
  ASSUME WindowInv, TypeOK', CanPromote(creds, now), creds' = Promoted(creds, now)
  PROVE  WindowInv'
<1>1. PICK v2, v3 \in Versions : Promotion(v2, v3)
  BY PromotedStatuses
<1>2. Held(creds', "ACTIVE") = {v3} /\ Held(creds', "FALLBACK") = {v2}
  BY <1>1 DEF Promotion, Held
<1>3. Held(creds', "VALIDATING") = {}
  BY <1>1 DEF Promotion, Held
<1>4. OnePerPlace'
  BY <1>2, <1>3 DEF OnePerPlace, WindowStatuses
<1>5. v2 < v3
  <2>1. v2 <= v3
    BY <1>1 DEF Promotion, WindowInv, WindowOrdered, Known, Held
  <2> QED BY <2>1, <1>1 DEF Promotion, Versions
<1>6. WindowOrdered'
  BY <1>2, <1>3, <1>5 DEF WindowOrdered
<1> QED BY <1>4, <1>6 DEF WindowInv

\* provision_initial and submit_successor let a new version enter.
LEMMA ProvisionEnters ==
  ASSUME NEW v \in Versions, ProvisionInitial(v)
  PROVE  /\ Held(creds, "ACTIVE") = {} /\ Held(creds, "VALIDATING") = {}
         /\ \E c : /\ Entering(v, c)
                   /\ c.status = "ACTIVE" /\ c.deadline = NoTime
                   /\ c.created = now /\ c.expiration = now + TotalValidity
<1> DEFINE c == [status |-> "ACTIVE", created |-> now, deadline |-> NoTime,
                 activation |-> now, expiration |-> now + TotalValidity]
<1>1. Entering(v, c)
  BY DEF ProvisionInitial, CanProvision, Provisioned, Follows, Entering
<1>2. /\ c.status = "ACTIVE" /\ c.deadline = NoTime
      /\ c.created = now /\ c.expiration = now + TotalValidity
  OBVIOUS
<1> HIDE DEF c
<1> QED BY <1>1, <1>2 DEF ProvisionInitial, CanProvision

LEMMA SubmitEnters ==
  ASSUME NEW v \in Versions, NEW signer \in Versions, NEW same \in BOOLEAN,
         SubmitSuccessor(v, signer, same)
  PROVE  /\ Held(creds, "ACTIVE") # {} /\ Held(creds, "VALIDATING") = {}
         /\ \E c : /\ Entering(v, c)
                   /\ c.status = "VALIDATING" /\ c.deadline = now + ValidationPeriod
                   /\ c.created = now /\ c.expiration = now + TotalValidity
<1> DEFINE c == [status |-> "VALIDATING", created |-> now,
                 deadline |-> now + ValidationPeriod, activation |-> NoTime,
                 expiration |-> now + TotalValidity]
<1>1. Entering(v, c)
  BY DEF SubmitSuccessor, CanSubmit, Submitted, Follows, Entering
<1>2. /\ c.status = "VALIDATING" /\ c.deadline = now + ValidationPeriod
      /\ c.created = now /\ c.expiration = now + TotalValidity
  OBVIOUS
<1> HIDE DEF c
<1> QED BY <1>1, <1>2 DEF SubmitSuccessor, CanSubmit

\* No operation lets two credentials share a place, or breaks the order.
LEMMA WindowStep == WindowInv /\ [Next]_vars => WindowInv'
<1> SUFFICES ASSUME WindowInv, [Next]_vars PROVE WindowInv'
  OBVIOUS
<1>0. TypeOK /\ TypeOK'
  BY TypeStep DEF WindowInv
<1>1. ASSUME NEW v \in Versions, ProvisionInitial(v) PROVE WindowInv'
  BY <1>0, <1>1, ProvisionEnters, EnteringPreservesWindow
<1>2. ASSUME NEW v \in Versions, NEW signer \in Versions, NEW same \in BOOLEAN,
             SubmitSuccessor(v, signer, same)
      PROVE  WindowInv'
  BY <1>0, <1>2, SubmitEnters, EnteringPreservesWindow
<1>3. ASSUME Checkpoint PROVE WindowInv'
  <2>1. CASE SuccessorOutlived(creds, now) /\ creds' = MarkedOutlived(creds)
    BY <1>0, <2>1, OutlivedLeaves, LeavingPreservesWindow
  <2>2. CASE CanPromote(creds, now) /\ creds' = Promoted(creds, now)
    BY <1>0, <2>2, PromotionPreservesWindow
  <2> QED BY <1>3, <2>1, <2>2 DEF Checkpoint
<1>4. ASSUME Rollback \/ ExpireAll \/ \E v \in Versions : Revoke(v)
      PROVE  WindowInv'
  BY <1>0, <1>4, OthersLeave, LeavingPreservesWindow
<1>5. CASE creds' = creds
  BY <1>0, <1>5 DEF WindowInv, OnePerPlace, WindowOrdered
<1> QED BY <1>1, <1>2, <1>3, <1>4, <1>5 DEF Next, Tick, vars

\* The empty engine has an empty window.
LEMMA WindowInit == Init => WindowInv
BY DEF Init, WindowInv, TypeOK, EmptyEngine, Engines, Credential, Absent, Statuses,
       NoTime, OnePerPlace, WindowOrdered, Held, WindowStatuses

\* SR-03: in every reachable engine each place of the window holds at most one
\* credential and the three are in order of version.
THEOREM WindowCorrect == Spec => []WindowWellFormed
<1>1. Init => WindowInv
  BY WindowInit
<1>2. WindowInv => WindowWellFormed
  BY DEF WindowInv, WindowWellFormed
<1> QED BY <1>1, <1>2, WindowStep, PTL DEF Spec

-------------------------------------------------------------------------------

\* One step never lowers the rank of a status.
LEMMA RankStep == WindowInv /\ [Next]_vars =>
  [\A v \in Versions : Rank(creds[v].status) <= Rank(creds'[v].status)]_vars
<1> SUFFICES ASSUME WindowInv, Next
             PROVE  \A v \in Versions : Rank(creds[v].status) <= Rank(creds'[v].status)
  OBVIOUS
<1>0. TypeOK /\ TypeOK'
  BY TypeStep DEF WindowInv
<1>1. \A v \in Versions : creds[v].status \in Statuses /\ creds'[v].status \in Statuses
  BY <1>0 DEF TypeOK, Engines, Credential
<1>2. CASE Leaving
  BY <1>1, <1>2 DEF Leaving, Rank, Statuses, WindowStatuses, RetiredStatuses
<1>3. ASSUME NEW v \in Versions, Known(creds) = {} \/ Follows(v, creds),
             \A w \in Versions \ {v} : creds'[w] = creds[w]
      PROVE  \A w \in Versions : Rank(creds[w].status) <= Rank(creds'[w].status)
  <2>1. creds[v].status = "ABSENT"
    BY <1>3 DEF Known, Follows, Versions
  <2> QED BY <1>1, <1>3, <2>1 DEF Rank, Statuses, WindowStatuses, RetiredStatuses
<1>4. CASE CanPromote(creds, now) /\ creds' = Promoted(creds, now)
  BY <1>1, <1>4, PromotedStatuses DEF Promotion, Rank, Statuses, WindowStatuses, RetiredStatuses
<1>5. ASSUME NEW v \in Versions, ProvisionInitial(v)
      PROVE  \A w \in Versions : Rank(creds[w].status) <= Rank(creds'[w].status)
  BY <1>0, <1>3, <1>5 DEF ProvisionInitial, CanProvision, Provisioned, TypeOK, Engines
<1>6. ASSUME NEW v \in Versions, NEW signer \in Versions, NEW same \in BOOLEAN,
             SubmitSuccessor(v, signer, same)
      PROVE  \A w \in Versions : Rank(creds[w].status) <= Rank(creds'[w].status)
  BY <1>0, <1>3, <1>6 DEF SubmitSuccessor, CanSubmit, Submitted, TypeOK, Engines
<1>7. CASE Tick
  BY <1>1, <1>7 DEF Tick, Rank
<1>8. CASE Checkpoint
  BY <1>2, <1>4, <1>8, OutlivedLeaves DEF Checkpoint
<1> QED BY <1>2, <1>5, <1>6, <1>7, <1>8, OthersLeave DEF Next

\* A credential that has left the window never comes back, in any sequence of
\* calls.
THEOREM Irrevocable == Spec => NoRevival
<1>1. Init => WindowInv
  BY WindowInit
<1> QED BY <1>1, WindowStep, RankStep, PTL DEF Spec, NoRevival

-------------------------------------------------------------------------------

\* The abstract slot of a status is its only holder, or empty.
LEMMA SlotOfOne ==
  ASSUME NEW cs, NEW s, \A v, w \in Held(cs, s) : v = w
  PROVE  /\ Held(cs, s) = {} => Slot(cs, s) = 0
         /\ \A v \in Held(cs, s) : Slot(cs, s) = v
<1>1. ASSUME NEW v \in Held(cs, s) PROVE First(cs, s) = v
  BY FirstOfOne
<1> QED BY <1>1 DEF Slot

\* A step that only lets credentials leave is a Retire step of the window.
LEMMA LeavingRetires ==
  ASSUME WindowInv, WindowInv', Leaving
  PROVE  Window!Retire
<1>1. ASSUME NEW s \in WindowStatuses
      PROVE  Slot(creds', s) \in {Slot(creds, s), 0}
  <2>1. Held(creds', s) \subseteq Held(creds, s)
    BY DEF Leaving, Held, WindowStatuses, RetiredStatuses
  <2>2. /\ \A v, w \in Held(creds, s) : v = w
        /\ \A v, w \in Held(creds', s) : v = w
    BY DEF WindowInv, OnePerPlace
  <2> QED BY <2>1, <2>2, SlotOfOne
<1>2. Known(creds') = Known(creds)
  BY DEF Leaving, Known, RetiredStatuses
<1> QED BY <1>1, <1>2 DEF Window!Retire, Window!Empty, WindowStatuses

\* Every step of the engine is a step of the abstract window, or none of its
\* steps.
LEMMA WindowSimulation ==
  WindowInv /\ [Next]_vars => [Window!WNext]_(Window!wvars)
<1> SUFFICES ASSUME WindowInv, Next PROVE Window!WNext \/ UNCHANGED Window!wvars
  <2> USE DEF Window!wvars, vars
  <2> QED OBVIOUS
<1>0. WindowInv' /\ TypeOK
  BY WindowStep DEF WindowInv
<1>1. \A s \in WindowStatuses : /\ Held(creds, s) = {} => Slot(creds, s) = 0
                                /\ \A v \in Held(creds, s) : Slot(creds, s) = v
  BY SlotOfOne DEF WindowInv, OnePerPlace
<1>2. \A s \in WindowStatuses : /\ Held(creds', s) = {} => Slot(creds', s) = 0
                                /\ \A v \in Held(creds', s) : Slot(creds', s) = v
  BY <1>0, SlotOfOne DEF WindowInv, OnePerPlace
<1>3. \A s \in WindowStatuses : Held(creds', s) = Held(creds, s) => Slot(creds', s) = Slot(creds, s)
  BY DEF Slot, First
<1>4. CASE Leaving
  BY <1>0, <1>4, LeavingRetires DEF Window!WNext
<1>5. CASE CanPromote(creds, now) /\ creds' = Promoted(creds, now)
  <2>1. PICK v2, v3 \in Versions : Promotion(v2, v3)
    BY <1>5, PromotedStatuses
  <2>2. /\ v3 \in Held(creds, "VALIDATING") /\ v2 \in Held(creds, "ACTIVE")
        /\ v3 \in Held(creds', "ACTIVE") /\ v2 \in Held(creds', "FALLBACK")
        /\ Held(creds', "VALIDATING") = {}
        /\ Known(creds') = Known(creds)
    BY <2>1 DEF Promotion, Held, Known
  <2>3. v2 # 0 /\ v3 # 0
    BY DEF Versions
  <2>4. Window!Promote
    BY <1>1, <1>2, <2>2, <2>3 DEF Window!Promote, Window!Empty, WindowStatuses
  <2> QED BY <2>4 DEF Window!WNext
<1>6. ASSUME NEW v \in Versions, ProvisionInitial(v) PROVE Window!WNext
  <2>1. /\ Held(creds', "ACTIVE") = {v}
        /\ Held(creds', "VALIDATING") = Held(creds, "VALIDATING")
        /\ Held(creds', "FALLBACK") = Held(creds, "FALLBACK")
        /\ Known(creds') = Known(creds) \cup {v}
        /\ \A w \in Known(creds) : w < v
    <3>1. PICK c : Entering(v, c) /\ c.status = "ACTIVE"
      BY <1>6, ProvisionEnters
    <3>2. Held(creds, "ACTIVE") = {}
      BY <1>6, ProvisionEnters
    <3> QED BY <1>0, <3>1, <3>2, EnteringHolders DEF Entering, WindowStatuses
  <2>2. Window!Provision(v)
    BY <1>1, <1>2, <1>3, <1>6, <2>1
       DEF Window!Provision, Window!Fresh, Window!Empty, WindowStatuses, ProvisionInitial, CanProvision
  <2> QED BY <2>2 DEF Window!WNext, Versions
<1>7. ASSUME NEW v \in Versions, NEW signer \in Versions, NEW same \in BOOLEAN,
             SubmitSuccessor(v, signer, same)
      PROVE  Window!WNext
  <2>1. /\ Held(creds', "VALIDATING") = {v}
        /\ Held(creds', "ACTIVE") = Held(creds, "ACTIVE")
        /\ Held(creds', "FALLBACK") = Held(creds, "FALLBACK")
        /\ Known(creds') = Known(creds) \cup {v}
        /\ \A w \in Known(creds) : w < v
    <3>1. PICK c : Entering(v, c) /\ c.status = "VALIDATING"
      BY <1>7, SubmitEnters
    <3>2. Held(creds, "VALIDATING") = {}
      BY <1>7, SubmitEnters
    <3>3. /\ Held(creds', "VALIDATING") = {v}
          /\ \A r \in WindowStatuses \ {"VALIDATING"} : Held(creds', r) = Held(creds, r)
          /\ Known(creds') = Known(creds) \cup {v}
      BY <1>0, <3>1, <3>2, EnteringHolders DEF WindowStatuses
    <3>4. \A w \in Known(creds) : w < v
      BY <3>1 DEF Entering
    <3> QED BY <3>3, <3>4 DEF WindowStatuses
  <2>2. \E a \in Held(creds, "ACTIVE") : a # 0
    BY <1>7 DEF SubmitSuccessor, CanSubmit, Held, Versions
  <2>3. Window!Introduce(v)
    BY <1>1, <1>2, <1>3, <1>7, <2>1, <2>2
       DEF Window!Introduce, Window!Fresh, Window!Empty, WindowStatuses, SubmitSuccessor, CanSubmit
  <2> QED BY <2>3 DEF Window!WNext, Versions
<1>8. CASE Tick
  BY <1>3, <1>8 DEF Tick, Window!wvars
<1>9. CASE Checkpoint
  BY <1>4, <1>5, <1>9, OutlivedLeaves DEF Checkpoint
<1> QED BY <1>4, <1>6, <1>7, <1>8, <1>9, OthersLeave DEF Next

\* The engine, with its clocks, records and error paths, implements the
\* abstract rotation window.
THEOREM Refinement == Spec => ImplementsWindow
<1>1. Init => WindowInv /\ Window!WInit
  <2> SUFFICES ASSUME Init PROVE WindowInv /\ Window!WInit
    OBVIOUS
  <2>1. WindowInv
    BY WindowInit
  <2>2. /\ \A s \in WindowStatuses : Held(creds, s) = {}
        /\ Known(creds) = {}
    BY DEF Init, EmptyEngine, Absent, Held, Known, WindowStatuses
  <2> QED BY <2>1, <2>2 DEF Window!WInit, Window!Empty, Slot, WindowStatuses
<1> QED BY <1>1, WindowStep, WindowSimulation, PTL DEF Spec, ImplementsWindow, Window!WSpec

-------------------------------------------------------------------------------

\* The dates of a credential that has not been demoted are those it was
\* created with.
Ages ==
  \A v \in Versions :
    /\ creds[v].status = "VALIDATING" =>
         creds[v].deadline = creds[v].created + ValidationPeriod
    /\ creds[v].status \in {"VALIDATING", "ACTIVE"} =>
         creds[v].expiration = creds[v].created + TotalValidity

\* The window with its dates.
TimingInv == WindowInv /\ Ages /\ PromotedInTime /\ FallbackCovered /\ LifetimeBounded

\* Credentials that leave keep their dates, and no rule binds their status.
LEMMA LeavingPreservesTiming ==
  ASSUME TimingInv, WindowInv', Leaving
  PROVE  TimingInv'
<1> USE DEF TimingInv, Leaving, RetiredStatuses
<1>1. Ages'
  BY DEF Ages
<1>2. PromotedInTime'
  BY DEF PromotedInTime
<1>3. FallbackCovered'
  BY DEF FallbackCovered, Held
<1>4. LifetimeBounded'
  BY DEF LifetimeBounded, Known
<1> QED BY <1>1, <1>2, <1>3, <1>4

\* A new credential has its full validity ahead, and no promotion behind it.
LEMMA EnteringPreservesTiming ==
  ASSUME TimingInv, WindowInv', NEW v \in Versions, NEW c, Entering(v, c),
         \/ c.status = "ACTIVE" /\ c.deadline = NoTime
         \/ c.status = "VALIDATING" /\ c.deadline = now + ValidationPeriod,
         c.created = now, c.expiration = now + TotalValidity
  PROVE  TimingInv'
<1>1. creds'[v] = c /\ \A w \in Versions \ {v} : creds'[w] = creds[w]
  BY DEF Entering, TimingInv, WindowInv, TypeOK, Engines
<1>2. Ages'
  BY <1>1 DEF Ages, TimingInv
<1>3. PromotedInTime'
  BY <1>1 DEF PromotedInTime, TimingInv
<1>4. FallbackCovered'
  BY <1>1 DEF FallbackCovered, Held, TimingInv
<1>5. LifetimeBounded'
  BY <1>1 DEF LifetimeBounded, Known, TimingInv
<1> QED BY <1>2, <1>3, <1>4, <1>5 DEF TimingInv

\* A promotion dates the new active credential, and lengthens the validity of
\* the demoted one just enough.
LEMMA PromotionPreservesTiming ==
  ASSUME TimingInv, WindowInv', CanPromote(creds, now), creds' = Promoted(creds, now)
  PROVE  TimingInv'
<1>1. PICK v3 \in Held(creds, "VALIDATING"), v2 \in Held(creds, "ACTIVE") : TRUE
  BY DEF CanPromote, CheckpointReached
<1>2. /\ v3 \in Versions /\ v2 \in Versions /\ v2 # v3
      /\ First(creds, "VALIDATING") = v3 /\ First(creds, "ACTIVE") = v2
      /\ creds'[v3] = [creds[v3] EXCEPT !.status = "ACTIVE", !.activation = now]
      /\ creds'[v2] = [creds[v2] EXCEPT !.status = "FALLBACK",
                         !.expiration = Later(creds[v2].expiration, now + FallbackPeriod)]
      /\ \A v \in Versions \ {v2, v3} :
            creds'[v] = IF creds[v].status = "FALLBACK"
                        THEN [creds[v] EXCEPT !.status = "TERMINATED"] ELSE creds[v]
  BY PromotedRecords DEF TimingInv, WindowInv
<1>3. \A v \in Versions : creds[v] \in Credential
  BY DEF TimingInv, WindowInv, TypeOK, Engines
<1>4. /\ creds'[v3].status = "ACTIVE" /\ creds'[v3].activation = now
      /\ creds'[v3].created = creds[v3].created
      /\ creds'[v3].deadline = creds[v3].deadline
      /\ creds'[v3].expiration = creds[v3].expiration
  BY <1>2, <1>3 DEF Credential
<1>5. /\ creds'[v2].status = "FALLBACK"
      /\ creds'[v2].created = creds[v2].created
      /\ creds'[v2].deadline = creds[v2].deadline
      /\ creds'[v2].activation = creds[v2].activation
      /\ creds'[v2].expiration = Later(creds[v2].expiration, now + FallbackPeriod)
  BY <1>2, <1>3 DEF Credential
<1>6. \A v \in Versions \ {v2, v3} :
        /\ creds'[v].status \notin {"VALIDATING", "ACTIVE", "FALLBACK"}
        /\ creds'[v].status = "ABSENT" <=> creds[v].status = "ABSENT"
        /\ creds'[v].created = creds[v].created
        /\ creds'[v].expiration = creds[v].expiration
  <2>1. \A v \in Versions \ {v2, v3} : creds[v].status \notin {"VALIDATING", "ACTIVE"}
    BY DEF TimingInv, WindowInv, OnePerPlace, Held, WindowStatuses
  <2>2. ASSUME NEW v \in Versions \ {v2, v3}
        PROVE  /\ creds'[v].status =
                    IF creds[v].status = "FALLBACK" THEN "TERMINATED" ELSE creds[v].status
               /\ creds'[v].created = creds[v].created
               /\ creds'[v].expiration = creds[v].expiration
    <3>1. CASE creds[v].status = "FALLBACK"
      <4>1. creds'[v] = [creds[v] EXCEPT !.status = "TERMINATED"]
        BY <1>2, <3>1
      <4>2. creds[v] \in Credential
        BY <1>3
      <4> QED BY ONLY <3>1, <4>1, <4>2 DEF Credential
    <3>2. CASE creds[v].status # "FALLBACK"
      BY <1>2, <3>2
    <3> QED BY <3>1, <3>2
  <2> QED BY ONLY <2>1, <2>2
<1>7. /\ v3 \in Versions /\ v2 \in Versions /\ v2 # v3
      /\ creds[v3].status = "VALIDATING" /\ creds[v2].status = "ACTIVE"
  BY <1>2 DEF Held
<1>8. /\ now \in Nat
      /\ \A v \in Versions : /\ creds[v].created \in Nat /\ creds[v].expiration \in Nat
                             /\ creds[v].deadline \in Nat
  BY <1>3 DEF TimingInv, WindowInv, TypeOK, Credential
<1>9. /\ now >= creds[v3].created + ValidationPeriod
      /\ now < creds[v3].created + TotalValidity
      /\ now < creds[v2].created + TotalValidity
      /\ creds[v3].expiration = creds[v3].created + TotalValidity
      /\ creds[v2].expiration = creds[v2].created + TotalValidity
  <2>1. /\ now >= creds[v3].deadline
        /\ ~(now >= creds[v3].expiration) /\ ~(now >= creds[v2].expiration)
    BY <1>2 DEF CanPromote, CheckpointReached, Expired
  <2>2. /\ creds[v3].deadline = creds[v3].created + ValidationPeriod
        /\ creds[v3].expiration = creds[v3].created + TotalValidity
        /\ creds[v2].expiration = creds[v2].created + TotalValidity
    BY <1>7 DEF TimingInv, Ages
  <2> QED BY ONLY <1>7, <1>8, <2>1, <2>2, Periods
<1>10. /\ creds'[v2].expiration >= now + FallbackPeriod
       /\ \/ creds'[v2].expiration < creds[v2].created + TotalValidity + FallbackPeriod
          \/ creds'[v2].expiration = creds[v2].created + TotalValidity
  BY ONLY <1>5, <1>7, <1>8, <1>9, Periods DEF Later
<1>11. Ages'
  BY ONLY <1>4, <1>5, <1>6, <1>7, <1>9 DEF Ages
<1>12. PromotedInTime'
  <2>1. PromotedInTime
    BY DEF TimingInv
  <2> QED BY ONLY <2>1, <1>4, <1>5, <1>6, <1>7, <1>9 DEF PromotedInTime
<1>13. FallbackCovered'
  BY ONLY <1>4, <1>5, <1>6, <1>7, <1>10 DEF FallbackCovered, Held
<1>14. LifetimeBounded'
  <2>1. LifetimeBounded
    BY DEF TimingInv
  <2> QED BY ONLY <2>1, <1>4, <1>5, <1>6, <1>7, <1>9, <1>10 DEF LifetimeBounded, Known
<1> QED BY <1>11, <1>12, <1>13, <1>14 DEF TimingInv

\* Every operation preserves the dates.
LEMMA TimingStep == TimingInv /\ [Next]_vars => TimingInv'
<1> SUFFICES ASSUME TimingInv, [Next]_vars PROVE TimingInv'
  OBVIOUS
<1>0. WindowInv /\ WindowInv'
  BY WindowStep DEF TimingInv
<1>1. ASSUME NEW v \in Versions, ProvisionInitial(v) PROVE TimingInv'
  BY <1>0, <1>1, ProvisionEnters, EnteringPreservesTiming
<1>2. ASSUME NEW v \in Versions, NEW signer \in Versions, NEW same \in BOOLEAN,
             SubmitSuccessor(v, signer, same)
      PROVE  TimingInv'
  BY <1>0, <1>2, SubmitEnters, EnteringPreservesTiming
<1>3. CASE Checkpoint
  BY <1>0, <1>3, OutlivedLeaves, LeavingPreservesTiming, PromotionPreservesTiming DEF Checkpoint
<1>4. CASE Rollback \/ ExpireAll \/ \E v \in Versions : Revoke(v)
  BY <1>0, <1>4, OthersLeave, LeavingPreservesTiming
<1>5. CASE creds' = creds
  BY <1>0, <1>5 DEF TimingInv, Ages, PromotedInTime, FallbackCovered, LifetimeBounded
<1> QED BY <1>1, <1>2, <1>3, <1>4, <1>5 DEF Next, Tick, vars

\* Promotion happens inside the validation window, the displaced credential
\* covers a whole fallback period, and no life exceeds 2T.
THEOREM TimingCorrect == Spec => [](PromotedInTime /\ FallbackCovered /\ LifetimeBounded)
<1>1. Init => TimingInv
  <2> SUFFICES ASSUME Init PROVE TimingInv
    OBVIOUS
  <2>1. WindowInv
    BY WindowInit
  <2> QED BY <2>1 DEF Init, TimingInv, Ages, PromotedInTime, FallbackCovered, LifetimeBounded,
                      EmptyEngine, Absent, Held, Known
<1>2. TimingInv => PromotedInTime /\ FallbackCovered /\ LifetimeBounded
  BY DEF TimingInv
<1> QED BY <1>1, <1>2, TimingStep, PTL DEF Spec

\* No credential stays usable for longer than twice the rotation period, however
\* rotations, rollbacks and retries follow each other (credential_state.py:225).
THEOREM LifetimeCorrect == Spec => []LifetimeBounded
BY TimingCorrect, PTL
==============================================================================
