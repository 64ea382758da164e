---------------------------- MODULE RotationEngine ----------------------------
(***************************************************************************)
(* One RotationEngine object driven by its callers: every method of        *)
(* credential_state.py that changes state is an action, in any order and   *)
(* at any time.  A call that raises RotationError and changes nothing is a *)
(* stuttering step.                                                        *)
(***************************************************************************)
EXTENDS RotationOps

CONSTANTS MaxTime,     \* bound on the clock
          LastSubmit   \* bound: no successor is submitted after this time

ASSUME ClockAssumption == MaxTime \in Nat \ {0} /\ LastSubmit \in Nat

VARIABLES creds,   \* self._creds
          now      \* the time the callers pass

vars == <<creds, now>>

Init == /\ creds = EmptyEngine
        /\ now = 1

ProvisionInitial(v) ==
  /\ CanProvision(creds, v)
  /\ creds' = Provisioned(creds, v, now)
  /\ UNCHANGED now

SubmitSuccessor(v, signer, sameIdentity) ==
  /\ now <= LastSubmit
  /\ CanSubmit(creds, v, signer, sameIdentity, now)
  /\ creds' = Submitted(creds, v, now)
  /\ UNCHANGED now

Checkpoint ==
  /\ \/ /\ SuccessorOutlived(creds, now)
        /\ creds' = MarkedOutlived(creds)
     \/ /\ CanPromote(creds, now)
        /\ creds' = Promoted(creds, now)
  /\ UNCHANGED now

Rollback ==
  /\ CanRollBack(creds)
  /\ creds' = RolledBack(creds)
  /\ UNCHANGED now

Revoke(v) ==
  /\ CanRevoke(creds, v)
  /\ creds' = Revoked(creds, v)
  /\ UNCHANGED now

ExpireAll ==
  /\ creds' = ExpiredAll(creds, now)
  /\ UNCHANGED now

Tick ==
  /\ now < MaxTime
  /\ now' = now + 1
  /\ UNCHANGED creds

Next ==
  \/ \E v \in Versions : ProvisionInitial(v)
  \/ \E v, signer \in Versions, same \in BOOLEAN : SubmitSuccessor(v, signer, same)
  \/ Checkpoint
  \/ Rollback
  \/ \E v \in Versions : Revoke(v)
  \/ ExpireAll
  \/ Tick

Spec == Init /\ [][Next]_vars

\* Time passes and the owner keeps asking to be promoted.
FairSpec == Spec /\ WF_vars(Tick) /\ WF_vars(Checkpoint)

-------------------------------------------------------------------------------

TypeOK == /\ creds \in Engines
          /\ now \in Nat

\* At most one credential holds each place of the rotation window, so
\* _by_status never has to choose and at most three versions are live
\* (SR-03), although provision_initial does not look for a FALLBACK one.
OnePerPlace ==
  \A s \in WindowStatuses : \A v, w \in Held(creds, s) : v = w

\* The window is ordered: the fallback is older than the active credential,
\* the validating one is newer, and nothing is newer than the validating one.
WindowOrdered ==
  /\ \A f \in Held(creds, "FALLBACK"), a \in Held(creds, "ACTIVE") : f < a
  /\ \A v \in Held(creds, "VALIDATING") : \A w \in Known(creds) : w <= v

\* Both together: the places of the window are distinct and in order.
WindowWellFormed == OnePerPlace /\ WindowOrdered

\* A credential that was promoted has spent at least the validation period
\* waiting and was promoted before its own validity ended.
PromotedInTime ==
  \A v \in Versions :
    (creds[v].status \in {"ACTIVE", "FALLBACK"} /\ creds[v].deadline # NoTime)
      => /\ creds[v].activation >= creds[v].created + ValidationPeriod
         /\ creds[v].activation < creds[v].created + TotalValidity

\* While a promoted credential is active, the one it displaced stays usable
\* for a whole fallback period counted from the promotion.
FallbackCovered ==
  \A f \in Held(creds, "FALLBACK"), a \in Held(creds, "ACTIVE") :
    creds[a].deadline # NoTime
      => creds[f].expiration >= creds[a].activation + FallbackPeriod

\* The demotion may lengthen a credential's life, but never by a whole
\* fallback period: nothing authenticates 2T after its creation.
LifetimeBounded ==
  \A v \in Known(creds) :
    creds[v].expiration < creds[v].created + TotalValidity + FallbackPeriod
      \/ creds[v].expiration = creds[v].created + TotalValidity

\* Statuses only advance: no call sequence brings a retired credential back
\* into the window, an active one back to validating or a fallback one back
\* to active.
Rank(s) == CASE s = "ABSENT"     -> 0
             [] s = "VALIDATING" -> 1
             [] s = "ACTIVE"     -> 2
             [] s = "FALLBACK"   -> 3
             [] OTHER            -> 4

NoRevival ==
  [][\A v \in Versions : Rank(creds[v].status) <= Rank(creds'[v].status)]_vars

\* A successor never stays VALIDATING for ever, whatever the other calls do:
\* it is promoted, rolled back, revoked or, once expired, marked so (SR-12).
SuccessorResolved ==
  \A v \in Versions : creds[v].status = "VALIDATING" ~> creds[v].status # "VALIDATING"

\* The engine implements the abstract window.
Slot(cs, s) == IF Held(cs, s) = {} THEN 0 ELSE First(cs, s)

Window == INSTANCE CredentialWindow WITH
            validating <- Slot(creds, "VALIDATING"),
            active     <- Slot(creds, "ACTIVE"),
            fallback   <- Slot(creds, "FALLBACK"),
            issued     <- Known(creds)

ImplementsWindow == Window!WSpec

==============================================================================
