----------------------------- MODULE RotationOps -----------------------------
(***************************************************************************)
(* The pure transition functions of RotationEngine                         *)
(* (shared/sih_shared/credential_state.py), the state machine over the     *)
(* credential versions of one identity that client, server and registry    *)
(* all run.  An engine value cs maps every version to its public record;   *)
(* a version the engine does not know has status "ABSENT".  Each operation *)
(* is a pair: the condition under which the method does not raise          *)
(* RotationError, and the engine it leaves behind.                         *)
(*                                                                         *)
(* Keys and signatures are abstracted to the version whose private key     *)
(* made the signature: verification succeeds exactly when that version is  *)
(* the one whose public key is used.                                       *)
(***************************************************************************)
EXTENDS Naturals, FiniteSets

CONSTANTS T,            \* rotation period in seconds (RotationParams)
          MaxVersion    \* bound on the version counter

ASSUME RotationAssumption == /\ T \in Nat \ {0}
                             /\ MaxVersion \in Nat \ {0}

(***************************************************************************)
(* RotationParams: the three intervals derived from T.                     *)
(***************************************************************************)
ValidationPeriod == T \div 2
FallbackPeriod   == T \div 2
TotalValidity    == (3 * T) \div 2

(***************************************************************************)
(* CredentialPublic without its key material.  Time 0 stands for None:     *)
(* every clock of the models starts at 1.                                  *)
(***************************************************************************)
Versions == 1 .. MaxVersion
NoTime   == 0

WindowStatuses  == {"VALIDATING", "ACTIVE", "FALLBACK"}
RetiredStatuses == {"TERMINATED", "REVOKED", "EXPIRED"}
Statuses        == {"ABSENT"} \cup WindowStatuses \cup RetiredStatuses

Credential == [status : Statuses, created : Nat, deadline : Nat,
               activation : Nat, expiration : Nat]

Absent == [status |-> "ABSENT", created |-> NoTime, deadline |-> NoTime,
           activation |-> NoTime, expiration |-> NoTime]

Engines     == [Versions -> Credential]
EmptyEngine == [v \in Versions |-> Absent]

(***************************************************************************)
(* Inspection.  _by_status returns the first match of the dictionary;      *)
(* entries are inserted, and loaded, in ascending order of version.        *)
(***************************************************************************)
Known(cs)       == {v \in Versions : cs[v].status # "ABSENT"}
Held(cs, s)     == {v \in Versions : cs[v].status = s}
First(cs, s)    == CHOOSE v \in Held(cs, s) : \A w \in Held(cs, s) : v <= w
InWindow(cs)    == {v \in Versions : cs[v].status \in WindowStatuses}
Expired(c, t)   == t >= c.expiration
\* Mutant of Follows: max(versions) + 1 read as max(versions).
FollowsOrEquals(v, cs) == v \in Known(cs) /\ \A w \in Known(cs) : w <= v

Follows(v, cs)  == v - 1 \in Known(cs) /\ \A w \in Known(cs) : w < v

WithStatus(cs, v, s) == [cs EXCEPT ![v].status = s]

(***************************************************************************)
(* credential_for_auth: the versions a message may be authenticated with.  *)
(***************************************************************************)
Usable(cs, v, t) == /\ cs[v].status \in {"ACTIVE", "FALLBACK"}
                    /\ ~Expired(cs[v], t)

(***************************************************************************)
(* provision_initial.  FALLBACK is not tested: a fallback credential may   *)
(* survive, unlike what the method's own comment says.  Its last test,     *)
(* INVALID_STATUS, is left out: every caller provisions a GENERATED one.   *)
(***************************************************************************)
\* Mutant of CanProvision: the ALREADY_PROVISIONED test is missing.
CanProvisionAgain(cs, v) == Known(cs) = {} \/ Follows(v, cs)

CanProvision(cs, v) ==
  /\ Held(cs, "ACTIVE") = {} /\ Held(cs, "VALIDATING") = {}
  /\ Known(cs) = {} \/ Follows(v, cs)

\* Mutant of Provisioned: the submitted status is stored as it came.
ProvisionedGenerated(cs, v, t) ==
  [cs EXCEPT ![v] = [status |-> "GENERATED", created |-> t, deadline |-> NoTime,
                     activation |-> t, expiration |-> t + TotalValidity]]

Provisioned(cs, v, t) ==
  [cs EXCEPT ![v] = [status |-> "ACTIVE", created |-> t, deadline |-> NoTime,
                     activation |-> t, expiration |-> t + TotalValidity]]

(***************************************************************************)
(* submit_successor.  signer is the version whose key signed the successor *)
(* payload; sameIdentity says whether the new record names the engine's    *)
(* identity.                                                               *)
(***************************************************************************)
CanSubmit(cs, v, signer, sameIdentity, t) ==
  /\ Held(cs, "ACTIVE") # {}
  /\ ~Expired(cs[First(cs, "ACTIVE")], t)
  /\ Held(cs, "VALIDATING") = {}
  /\ Follows(v, cs)
  /\ sameIdentity
  /\ Cardinality(InWindow(cs)) < 3
  /\ signer = First(cs, "ACTIVE")

Submitted(cs, v, t) ==
  [cs EXCEPT ![v] = [status |-> "VALIDATING", created |-> t,
                     deadline |-> t + ValidationPeriod, activation |-> NoTime,
                     expiration |-> t + TotalValidity]]

(***************************************************************************)
(* checkpoint.  Three outcomes change the engine or may: the validating    *)
(* credential outlived its own validity and is marked EXPIRED while the    *)
(* method raises; the promotion; and every other call, which raises and    *)
(* leaves the engine as it was.                                            *)
(***************************************************************************)
CheckpointReached(cs, t) ==
  /\ Held(cs, "VALIDATING") # {}
  /\ t >= cs[First(cs, "VALIDATING")].deadline

\* Mutant of SuccessorOutlived: the method raises without marking.
OutlivedUnnoticed(cs, t) == FALSE

SuccessorOutlived(cs, t) == /\ CheckpointReached(cs, t)
                            /\ Expired(cs[First(cs, "VALIDATING")], t)

\* Mutant of CanPromote: the active credential's own expiry is not tested.
CanPromoteExpired(cs, t) == /\ CheckpointReached(cs, t)
                            /\ ~Expired(cs[First(cs, "VALIDATING")], t)
                            /\ Held(cs, "ACTIVE") # {}

CanPromote(cs, t) == /\ CheckpointReached(cs, t)
                     /\ ~Expired(cs[First(cs, "VALIDATING")], t)
                     /\ Held(cs, "ACTIVE") # {}
                     /\ ~Expired(cs[First(cs, "ACTIVE")], t)

\* Mutant of Later: the demoted credential keeps its old expiry.
LaterIgnored(s, t) == s

Later(s, t) == IF s >= t THEN s ELSE t

\* Mutant of Promoted: the displaced credential is terminated at once.
PromotedAlone(cs, t) ==
  [cs EXCEPT ![First(cs, "VALIDATING")].status = "ACTIVE",
             ![First(cs, "VALIDATING")].activation = t,
             ![First(cs, "ACTIVE")].status = "TERMINATED"]

\* Mutant of Promoted: the displaced credential is not demoted.
PromotedBeside(cs, t) ==
  [cs EXCEPT ![First(cs, "VALIDATING")].status = "ACTIVE",
             ![First(cs, "VALIDATING")].activation = t]

Promoted(cs, t) ==
  [v \in Versions |->
     IF v = First(cs, "VALIDATING")
     THEN [cs[v] EXCEPT !.status = "ACTIVE", !.activation = t]
     ELSE IF v = First(cs, "ACTIVE")
     THEN [cs[v] EXCEPT !.status = "FALLBACK",
                        !.expiration = Later(@, t + FallbackPeriod)]
     ELSE IF v \in Held(cs, "FALLBACK") /\ v = First(cs, "FALLBACK")
     THEN [cs[v] EXCEPT !.status = "TERMINATED"]
     ELSE cs[v]]

MarkedOutlived(cs) == WithStatus(cs, First(cs, "VALIDATING"), "EXPIRED")

(***************************************************************************)
(* rollback, revoke and expire_all.                                        *)
(***************************************************************************)
CanRollBack(cs) == Held(cs, "VALIDATING") # {}
RolledBack(cs)  == WithStatus(cs, First(cs, "VALIDATING"), "TERMINATED")

CanRevoke(cs, v) == v \in Known(cs)
Revoked(cs, v)   == WithStatus(cs, v, "REVOKED")

ExpiredAll(cs, t) ==
  [v \in Versions |->
     IF cs[v].status \in {"ACTIVE", "FALLBACK"} /\ Expired(cs[v], t)
     THEN [cs[v] EXCEPT !.status = "EXPIRED"]
     ELSE cs[v]]
==============================================================================
