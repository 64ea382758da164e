-------------------------- MODULE RotationOps_proofs --------------------------
(***************************************************************************)
(* Lemmas about the transition functions of RotationOps, used by the       *)
(* proofs of every module that runs an engine.                             *)
(***************************************************************************)
EXTENDS RotationOps, TLAPS

\* The three intervals are natural numbers.
LEMMA Periods ==
  /\ ValidationPeriod \in Nat
  /\ FallbackPeriod \in Nat
  /\ TotalValidity \in Nat
BY RotationAssumption DEF RotationAssumption, ValidationPeriod, FallbackPeriod, TotalValidity

\* _by_status returns the only credential of a status when there is just one.
LEMMA FirstOfOne ==
  ASSUME NEW cs, NEW s, NEW v \in Held(cs, s), \A w \in Held(cs, s) : w = v
  PROVE  First(cs, s) = v
<1>1. v \in Nat
  BY DEF Held, Versions
<1>2. \E x \in Held(cs, s) : \A w \in Held(cs, s) : x <= w
  BY <1>1
<1>3. First(cs, s) \in Held(cs, s)
  BY <1>2 DEF First
<1> QED BY <1>3

\* checkpoint leaves every record well formed.
LEMMA PromotedType ==
  ASSUME NEW cs \in Engines, NEW t \in Nat
  PROVE  Promoted(cs, t) \in Engines
<1> USE Periods DEF Credential, Statuses, WindowStatuses, RetiredStatuses
<1>1. ASSUME NEW c \in Credential
      PROVE  [c EXCEPT !.status = "ACTIVE", !.activation = t] \in Credential
  OBVIOUS
<1>2. ASSUME NEW c \in Credential
      PROVE  Later(c.expiration, t + FallbackPeriod) \in Nat
  BY DEF Later
<1>3. ASSUME NEW c \in Credential, NEW e \in Nat
      PROVE  [c EXCEPT !.status = "FALLBACK", !.expiration = e] \in Credential
  OBVIOUS
<1>4. ASSUME NEW c \in Credential
      PROVE  [c EXCEPT !.status = "TERMINATED"] \in Credential
  OBVIOUS
<1>5. ASSUME NEW v \in Versions
      PROVE  cs[v] \in Credential
  BY DEF Engines
<1> HIDE DEF Credential, Statuses, WindowStatuses, RetiredStatuses
<1>6. ASSUME NEW v \in Versions
      PROVE  Promoted(cs, t)[v] \in Credential
  BY <1>1, <1>2, <1>3, <1>4, <1>5 DEF Promoted
<1> QED BY <1>6 DEF Promoted, Engines

\* So does every other operation.
LEMMA TransitionTypes ==
  ASSUME NEW cs \in Engines, NEW v \in Versions, NEW t \in Nat
  PROVE  /\ Provisioned(cs, v, t) \in Engines
         /\ Submitted(cs, v, t) \in Engines
         /\ RolledBack(cs) \in Engines
         /\ Revoked(cs, v) \in Engines
         /\ ExpiredAll(cs, t) \in Engines
<1> USE Periods DEF Engines, Credential, Statuses, WindowStatuses, RetiredStatuses, NoTime
<1>1. Provisioned(cs, v, t) \in Engines
  BY DEF Provisioned
<1>2. Submitted(cs, v, t) \in Engines
  BY DEF Submitted
<1>3. RolledBack(cs) \in Engines
  BY DEF RolledBack, WithStatus
<1>4. Revoked(cs, v) \in Engines
  BY DEF Revoked, WithStatus
<1>5. ExpiredAll(cs, t) \in Engines
  BY DEF ExpiredAll
<1> QED BY <1>1, <1>2, <1>3, <1>4, <1>5

-------------------------------------------------------------------------------

(***************************************************************************)
(* The rotation window of an engine value, and the three kinds of moves    *)
(* the operations make in it, from cs to ds.                               *)
(***************************************************************************)
OneEach(cs) == \A s \in WindowStatuses : \A v, w \in Held(cs, s) : v = w

InOrder(cs) ==
  /\ \A f \in Held(cs, "FALLBACK"), a \in Held(cs, "ACTIVE") : f < a
  /\ \A v \in Held(cs, "VALIDATING") : \A w \in Known(cs) : w <= v

Windowed(cs) == cs \in Engines /\ OneEach(cs) /\ InOrder(cs)

\* Version v at most leaves the window, its deadline stays.
Leaves(cs, ds, v) ==
  \/ ds[v] = cs[v]
  \/ /\ cs[v].status # "ABSENT" /\ ds[v].status \in RetiredStatuses
     /\ ds[v].deadline = cs[v].deadline

Leave(cs, ds) == \A v \in Versions : Leaves(cs, ds, v)

\* A version newer than every known one takes the free place s.
Enter(cs, ds, v, s) ==
  /\ s \in {"ACTIVE", "VALIDATING"}
  /\ Held(cs, s) = {} /\ Held(cs, "VALIDATING") = {}
  /\ s = "VALIDATING" => Held(cs, "ACTIVE") # {}
  /\ \A w \in Known(cs) : w < v
  /\ ds[v].status = s
  /\ \A w \in Versions \ {v} : ds[w] = cs[w]

\* v3 takes the place of v2, v2 the last place, and what was there leaves.
Advance(cs, ds, v2, v3) ==
  /\ v2 # v3
  /\ cs[v3].status = "VALIDATING" /\ ds[v3].status = "ACTIVE"
  /\ ds[v3].deadline = cs[v3].deadline
  /\ cs[v2].status = "ACTIVE" /\ ds[v2].status = "FALLBACK"
  /\ ds[v2].deadline = cs[v2].deadline
  /\ \A v \in Versions \ {v2, v3} :
       /\ Leaves(cs, ds, v)
       /\ cs[v].status \notin {"VALIDATING", "ACTIVE"}
       /\ ds[v].status # "FALLBACK"

WindowMove(cs, ds) ==
  \/ Leave(cs, ds)
  \/ \E v \in Versions, s \in WindowStatuses : Enter(cs, ds, v, s)
  \/ \E v2, v3 \in Versions : Advance(cs, ds, v2, v3)

\* A move loses no row, and hardly what it writes depends on the rows that are
\* not known.
LEMMA MoveKeeps ==
  ASSUME NEW cs \in Engines, NEW ds \in Engines, WindowMove(cs, ds)
  PROVE  /\ Known(cs) \subseteq Known(ds)
         /\ \A v \in Versions \ Known(ds) : ds[v] = cs[v]
<1>1. ASSUME NEW v \in Versions, Leaves(cs, ds, v)
      PROVE  (ds[v].status = "ABSENT" => ds[v] = cs[v]) /\ (v \in Known(cs) => v \in Known(ds))
  BY <1>1 DEF Leaves, RetiredStatuses, Known
<1>2. CASE Leave(cs, ds)
  BY <1>1, <1>2 DEF Leave, Known
<1>3. ASSUME NEW v \in Versions, NEW s \in WindowStatuses, Enter(cs, ds, v, s)
      PROVE  /\ Known(cs) \subseteq Known(ds)
             /\ \A w \in Versions \ Known(ds) : ds[w] = cs[w]
  BY <1>3 DEF Enter, Known
<1>4. ASSUME NEW v2 \in Versions, NEW v3 \in Versions, Advance(cs, ds, v2, v3)
      PROVE  /\ Known(cs) \subseteq Known(ds)
             /\ \A w \in Versions \ Known(ds) : ds[w] = cs[w]
  BY <1>1, <1>4 DEF Advance, Known
<1> QED BY <1>2, <1>3, <1>4 DEF WindowMove

\* Who holds which place after each kind of move.
LEMMA LeaveHolders ==
  ASSUME NEW cs, NEW ds, Leave(cs, ds)
  PROVE  /\ \A s \in WindowStatuses : Held(ds, s) \subseteq Held(cs, s)
         /\ Known(ds) = Known(cs)
  BY DEF Leave, Leaves, Held, Known, WindowStatuses, RetiredStatuses

LEMMA EnterHolders ==
  ASSUME NEW cs, NEW ds, NEW v \in Versions, NEW s \in WindowStatuses, Enter(cs, ds, v, s)
  PROVE  /\ Held(ds, s) = {v}
         /\ \A r \in WindowStatuses \ {s} : Held(ds, r) = Held(cs, r)
         /\ Known(ds) = Known(cs) \cup {v}
<1>1. v \notin Known(cs)
  BY DEF Enter, Versions
<1>2. Held(ds, s) = {v}
  BY DEF Enter, Held
<1>3. \A r \in WindowStatuses \ {s} : Held(ds, r) = Held(cs, r)
  BY <1>1 DEF Enter, Held, Known, WindowStatuses
<1>4. Known(ds) = Known(cs) \cup {v}
  BY DEF Enter, Known
<1> QED BY <1>2, <1>3, <1>4

LEMMA AdvanceHolders ==
  ASSUME NEW cs, NEW ds, NEW v2 \in Versions, NEW v3 \in Versions, Advance(cs, ds, v2, v3)
  PROVE  /\ Held(ds, "ACTIVE") = {v3} /\ Held(ds, "FALLBACK") = {v2}
         /\ Held(ds, "VALIDATING") = {}
         /\ v2 \in Held(cs, "ACTIVE") /\ v3 \in Held(cs, "VALIDATING")
         /\ Known(ds) = Known(cs)
  BY DEF Advance, Leaves, Held, Known, RetiredStatuses

\* Every move preserves the window.
LEMMA MoveKeepsWindow ==
  ASSUME NEW cs, NEW ds \in Engines, Windowed(cs), WindowMove(cs, ds)
  PROVE  Windowed(ds)
<1>1. CASE Leave(cs, ds)
  BY <1>1, LeaveHolders DEF Windowed, OneEach, InOrder, WindowStatuses
<1>2. ASSUME NEW v \in Versions, NEW s \in WindowStatuses, Enter(cs, ds, v, s)
      PROVE  Windowed(ds)
  <2>1. /\ Held(ds, s) = {v}
        /\ \A r \in WindowStatuses \ {s} : Held(ds, r) = Held(cs, r)
        /\ Known(ds) = Known(cs) \cup {v}
    BY <1>2, EnterHolders
  <2>2. OneEach(ds)
    <3> SUFFICES ASSUME NEW r \in WindowStatuses, NEW x \in Held(ds, r), NEW y \in Held(ds, r)
                 PROVE  x = y
      BY DEF OneEach
    <3>1. CASE r = s
      BY ONLY <3>1, <2>1, x \in Held(ds, r), y \in Held(ds, r)
    <3>2. CASE r # s
      BY <3>2, <2>1 DEF Windowed, OneEach
    <3> QED BY <3>1, <3>2
  <2>3. \A f \in Held(cs, "FALLBACK") : f < v
    BY <1>2 DEF Enter, Held, Known
  <2>4. \A w \in Known(ds) : w <= v
    BY <1>2, <2>1 DEF Enter, Known, Versions
  <2>5. s \in {"ACTIVE", "VALIDATING"} /\ Held(cs, "VALIDATING") = {}
    BY <1>2 DEF Enter
  <2>6. InOrder(ds)
    BY <2>1, <2>3, <2>4, <2>5 DEF Windowed, InOrder, WindowStatuses
  <2> QED BY <2>2, <2>6 DEF Windowed
<1>3. ASSUME NEW v2 \in Versions, NEW v3 \in Versions, Advance(cs, ds, v2, v3)
      PROVE  Windowed(ds)
  <2>1. /\ Held(ds, "ACTIVE") = {v3} /\ Held(ds, "FALLBACK") = {v2}
        /\ Held(ds, "VALIDATING") = {}
        /\ v2 \in Held(cs, "ACTIVE") /\ v3 \in Held(cs, "VALIDATING")
    BY <1>3, AdvanceHolders
  <2>2. v2 < v3
    <3>1. v2 \in Known(cs)
      BY <2>1 DEF Held, Known
    <3>2. v2 <= v3
      BY <2>1, <3>1 DEF Windowed, InOrder
    <3> QED BY <1>3, <3>2 DEF Advance, Versions
  <2>3. OneEach(ds)
    BY <2>1 DEF OneEach, WindowStatuses
  <2>4. InOrder(ds)
    BY <2>1, <2>2 DEF InOrder
  <2> QED BY <2>3, <2>4 DEF Windowed
<1> QED BY <1>1, <1>2, <1>3 DEF WindowMove

\* Every operation is a move.
LEMMA ProvisionMoves ==
  ASSUME NEW cs \in Engines, NEW v \in Versions, NEW t, CanProvision(cs, v)
  PROVE  /\ Enter(cs, Provisioned(cs, v, t), v, "ACTIVE")
         /\ Provisioned(cs, v, t)[v].deadline = NoTime
<1>1. /\ Provisioned(cs, v, t)[v].status = "ACTIVE"
      /\ Provisioned(cs, v, t)[v].deadline = NoTime
      /\ \A w \in Versions \ {v} : Provisioned(cs, v, t)[w] = cs[w]
  BY DEF Provisioned, Engines
<1> QED BY <1>1 DEF Enter, CanProvision, Follows

LEMMA SubmitMoves ==
  ASSUME NEW cs \in Engines, NEW v \in Versions, NEW signer, NEW t \in Nat,
         CanSubmit(cs, v, signer, TRUE, t)
  PROVE  /\ Enter(cs, Submitted(cs, v, t), v, "VALIDATING")
         /\ Submitted(cs, v, t)[v].deadline = t + ValidationPeriod
<1>1. /\ Submitted(cs, v, t)[v].status = "VALIDATING"
      /\ Submitted(cs, v, t)[v].deadline = t + ValidationPeriod
      /\ \A w \in Versions \ {v} : Submitted(cs, v, t)[w] = cs[w]
  BY DEF Submitted, Engines
<1> QED BY <1>1 DEF Enter, CanSubmit, Follows

LEMMA PromoteMoves ==
  ASSUME NEW cs, NEW t \in Nat, Windowed(cs), CanPromote(cs, t)
  PROVE  \E v2, v3 \in Versions : Advance(cs, Promoted(cs, t), v2, v3)
<1> DEFINE ds == Promoted(cs, t)
<1>1. PICK v3 \in Held(cs, "VALIDATING"), v2 \in Held(cs, "ACTIVE") : TRUE
  BY DEF CanPromote, CheckpointReached
<1>2. v3 \in Versions /\ v2 \in Versions /\ v2 # v3
      /\ cs[v3].status = "VALIDATING" /\ cs[v2].status = "ACTIVE"
  BY DEF Held
<1>3. First(cs, "VALIDATING") = v3 /\ First(cs, "ACTIVE") = v2
  BY FirstOfOne DEF Windowed, OneEach, WindowStatuses
<1>4. \A v \in Held(cs, "FALLBACK") : First(cs, "FALLBACK") = v
  BY FirstOfOne DEF Windowed, OneEach, WindowStatuses
<1>5. \A v \in Versions : cs[v] \in Credential
  BY DEF Windowed, Engines
<1>6. ds[v3] = [cs[v3] EXCEPT !.status = "ACTIVE", !.activation = t]
  BY <1>2, <1>3 DEF Promoted
<1>7. ds[v2] = [cs[v2] EXCEPT !.status = "FALLBACK",
                              !.expiration = Later(cs[v2].expiration, t + FallbackPeriod)]
  BY <1>2, <1>3 DEF Promoted
<1>8. \A v \in Versions \ {v2, v3} :
        ds[v] = IF cs[v].status = "FALLBACK" THEN [cs[v] EXCEPT !.status = "TERMINATED"] ELSE cs[v]
  BY <1>3, <1>4 DEF Promoted, Held
<1> HIDE DEF ds
<1>9. /\ ds[v3].status = "ACTIVE" /\ ds[v3].deadline = cs[v3].deadline
      /\ ds[v2].status = "FALLBACK" /\ ds[v2].deadline = cs[v2].deadline
  BY <1>2, <1>5, <1>6, <1>7 DEF Credential
<1>10. ASSUME NEW v \in Versions \ {v2, v3}
       PROVE  /\ Leaves(cs, ds, v) /\ cs[v].status \notin {"VALIDATING", "ACTIVE"}
              /\ ds[v].status # "FALLBACK"
  <2>1. cs[v].status \notin {"VALIDATING", "ACTIVE"}
    BY <1>2 DEF Windowed, OneEach, WindowStatuses, Held
  <2>2. CASE cs[v].status = "FALLBACK"
    BY <1>5, <1>8, <2>1, <2>2 DEF Leaves, RetiredStatuses, Credential
  <2>3. CASE cs[v].status # "FALLBACK"
    BY <1>8, <2>1, <2>3 DEF Leaves
  <2> QED BY <2>1, <2>2, <2>3
<1>11. Advance(cs, ds, v2, v3)
  BY <1>2, <1>9, <1>10 DEF Advance
<1> QED BY <1>2, <1>11 DEF ds

LEMMA OthersMove ==
  ASSUME NEW cs, Windowed(cs)
  PROVE  /\ CanRollBack(cs) => Leave(cs, RolledBack(cs))
         /\ CanRollBack(cs) => Leave(cs, MarkedOutlived(cs))
         /\ \A v \in Versions : CanRevoke(cs, v) => Leave(cs, Revoked(cs, v))
         /\ \A t : Leave(cs, ExpiredAll(cs, t))
<1>0. cs \in Engines /\ \A v \in Versions : cs[v] \in Credential
  BY DEF Windowed, Engines
<1>1. ASSUME NEW v \in Known(cs), NEW s \in RetiredStatuses
      PROVE  Leave(cs, WithStatus(cs, v, s))
  <2>1. v \in Versions
    BY DEF Known
  <2>2. /\ WithStatus(cs, v, s)[v] = [cs[v] EXCEPT !.status = s]
        /\ \A w \in Versions \ {v} : WithStatus(cs, v, s)[w] = cs[w]
    BY <1>0, <2>1 DEF WithStatus, Engines
  <2>3. /\ [cs[v] EXCEPT !.status = s].status = s
        /\ [cs[v] EXCEPT !.status = s].deadline = cs[v].deadline
    BY <1>0, <2>1 DEF Credential
  <2> QED BY <2>2, <2>3 DEF Leave, Leaves, Known
<1>2. ASSUME CanRollBack(cs) PROVE Leave(cs, RolledBack(cs)) /\ Leave(cs, MarkedOutlived(cs))
  <2>1. PICK x \in Held(cs, "VALIDATING") : First(cs, "VALIDATING") = x
    BY <1>2, FirstOfOne DEF CanRollBack, Windowed, OneEach, WindowStatuses
  <2> QED BY <1>1, <2>1 DEF RolledBack, MarkedOutlived, Held, Known, RetiredStatuses
<1>3. ASSUME NEW v \in Versions, CanRevoke(cs, v) PROVE Leave(cs, Revoked(cs, v))
  BY <1>1, <1>3 DEF CanRevoke, Revoked, RetiredStatuses
<1>4. ASSUME NEW t PROVE Leave(cs, ExpiredAll(cs, t))
  <2> SUFFICES ASSUME NEW v \in Versions PROVE Leaves(cs, ExpiredAll(cs, t), v)
    BY DEF Leave
  <2>1. CASE cs[v].status \in {"ACTIVE", "FALLBACK"} /\ Expired(cs[v], t)
    <3>1. ExpiredAll(cs, t)[v] = [cs[v] EXCEPT !.status = "EXPIRED"]
      BY <2>1 DEF ExpiredAll
    <3> QED BY <1>0, <2>1, <3>1 DEF Leaves, RetiredStatuses, Credential
  <2>2. CASE ~(cs[v].status \in {"ACTIVE", "FALLBACK"} /\ Expired(cs[v], t))
    BY <2>2 DEF ExpiredAll, Leaves
  <2> QED BY <2>1, <2>2
<1> QED BY <1>2, <1>3, <1>4
==============================================================================
