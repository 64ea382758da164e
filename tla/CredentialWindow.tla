--------------------------- MODULE CredentialWindow ---------------------------
(***************************************************************************)
(* What the rotation window promises, without clocks or records: three     *)
(* slots, filled in the order validating, active, fallback, by versions    *)
(* that are each issued once.  A version that leaves the window, for any   *)
(* reason, never comes back.                                               *)
(***************************************************************************)
EXTENDS Naturals

CONSTANT MaxVersion

VARIABLES validating, active, fallback,  \* the version in each slot, or Empty
          issued                         \* every version ever admitted

wvars == <<validating, active, fallback, issued>>

Empty == 0

WInit == /\ validating = Empty /\ active = Empty /\ fallback = Empty
         /\ issued = {}

Fresh(v) == \A w \in issued : w < v

\* A first credential, or a recovered one, becomes active at once.
Provision(v) ==
  /\ active = Empty /\ validating = Empty
  /\ Fresh(v)
  /\ active' = v
  /\ issued' = issued \cup {v}
  /\ UNCHANGED <<validating, fallback>>

\* An active credential introduces its successor.
Introduce(v) ==
  /\ active # Empty /\ validating = Empty
  /\ Fresh(v)
  /\ validating' = v
  /\ issued' = issued \cup {v}
  /\ UNCHANGED <<active, fallback>>

\* The window moves by one place.
Promote ==
  /\ validating # Empty /\ active # Empty
  /\ fallback' = active
  /\ active' = validating
  /\ validating' = Empty
  /\ UNCHANGED issued

\* Some credentials leave the window: expired, revoked or rolled back.
Retire ==
  /\ validating' \in {validating, Empty}
  /\ active' \in {active, Empty}
  /\ fallback' \in {fallback, Empty}
  /\ UNCHANGED issued

WNext == \/ \E v \in 1 .. MaxVersion : Provision(v) \/ Introduce(v)
         \/ Promote
         \/ Retire

WSpec == WInit /\ [][WNext]_wvars
==============================================================================
