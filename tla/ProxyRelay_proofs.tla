--------------------------- MODULE ProxyRelay_proofs ---------------------------
(***************************************************************************)
(* What holds of the proxy for every number of connections and versions:   *)
(* the lock makes a burst exclusive, so that the proxy enrolls once, the   *)
(* cached snapshot only advances, and a connection relays with one that is *)
(* no older than its burst.                                                *)
(***************************************************************************)
EXTENDS ProxyRelay, RotationOps_proofs

Pumps == [up : BOOLEAN, down : BOOLEAN]

\* What only the threads in a burst work on, and what only the pumps do.
BurstTyped == /\ identity \in Engines /\ rows \in Engines /\ enrolled \in BOOLEAN
              /\ registry \in Versions /\ cache \in 0 .. MaxVersion
              /\ lock \in Conns \cup {"none"}
              /\ burst \in [Conns -> Steps] /\ snapshot \in [Conns -> 0 .. MaxVersion]
              /\ begun \in [Conns -> 0 .. MaxVersion]
              /\ rejected \in BOOLEAN /\ lost \in BOOLEAN

RelayTyped == pump \in [Conns -> Pumps]

Clock == now \in 1 .. MaxTime

TypeInv == BurstTyped /\ RelayTyped /\ Clock

\* A connection is in its burst exactly when it holds the lock.
Exclusive == \A c \in Conns : burst[c] \in Control <=> lock = c

\* What the lock is there for: the server has an enrollment only if the proxy has
\* heard of it or the answer was lost, nobody enrolls an enrolled proxy, and the
\* snapshot on its way into the cache is no older than the one it replaces.
EnrollInv == /\ Known(rows) # {} => enrolled \/ lost
             /\ \A c \in Conns : burst[c] = "enroll" => ~enrolled
             /\ EnrolledOnce

CacheInv == /\ cache <= registry
            /\ \A c \in Conns : snapshot[c] <= registry
            /\ \A c \in Conns : burst[c] = "update" => cache <= snapshot[c]

\* What a connection has seen of the registry is kept by what it is sent, and
\* by the cache from then on.
FreshInv == /\ \A c \in Conns : begun[c] <= registry
            /\ \A c \in Conns : burst[c] = "update" => begun[c] <= snapshot[c]
            /\ RelaysOnFresh

ProxyInv == TypeInv /\ Exclusive /\ EnrollInv /\ CacheInv /\ FreshInv

LEMMA TypeInvSuffices == TypeInv <=> TypeOK
  BY DEF TypeInv, TypeOK, BurstTyped, RelayTyped, Clock, Pumps, history

-------------------------------------------------------------------------------

\* The engines stay well formed, whatever version is looked up in them.
LEMMA SubmittedType ==
  ASSUME NEW cs \in Engines, NEW v, NEW t \in Nat
  PROVE  Submitted(cs, v, t) \in Engines
<1>1. CASE v \in Versions
  BY <1>1, TransitionTypes
<1>2. CASE v \notin Versions
  BY <1>2 DEF Submitted, Engines
<1> QED BY <1>1, <1>2

LEMMA RolledBackType ==
  ASSUME NEW cs \in Engines
  PROVE  RolledBack(cs) \in Engines
<1>1. 1 \in Versions
  BY RotationAssumption DEF Versions
<1> QED BY <1>1, TransitionTypes

LEMMA ClockNat == Clock => now \in Nat
  BY ProxyAssumption DEF Clock

\* The thread of a connection goes on, or gives up the lock with its burst.
LEMMA GotoTypes ==
  ASSUME burst \in [Conns -> Steps], NEW c \in Conns, NEW s \in Steps, Goto(c, s)
  PROVE  /\ burst' \in [Conns -> Steps] /\ burst'[c] = s
         /\ \A d \in Conns \ {c} : burst'[d] = burst[d]
  BY DEF Goto

LEMMA FailTypes ==
  ASSUME burst \in [Conns -> Steps], NEW c \in Conns, Fail(c)
  PROVE  /\ burst' \in [Conns -> Steps] /\ burst'[c] = "closed" /\ lock' = "none"
         /\ \A d \in Conns \ {c} : burst'[d] = burst[d]
  BY DEF Fail, Goto, Steps

\* What each step of a burst does to the thread and to the lock.
LEMMA BurstEffect ==
  ASSUME BurstTyped, NEW c \in Conns, Burst(c)
  PROVE  /\ burst' \in [Conns -> Steps]
         /\ \A d \in Conns \ {c} : burst'[d] = burst[d]
         /\ (lock = "none" /\ burst[c] = "new") \/ burst[c] \in Control
         /\ \/ /\ burst'[c] \in Control
               /\ lock' = IF burst[c] = "new" THEN c ELSE lock
            \/ burst'[c] \notin Control /\ lock' = "none" /\ burst[c] \in Control
         /\ burst'[c] = "enroll" => burst[c] = "new" /\ ~enrolled
         /\ burst'[c] = "update" => Sync(c)
<1> USE DEF BurstTyped, Control, Steps
<1>1. CASE Acquire(c)
  BY <1>1, GotoTypes DEF Acquire, LockFree
<1>2. CASE Enroll(c)
  BY <1>2, GotoTypes, FailTypes DEF Enroll
<1>3. CASE Generate(c)
  <2>1. burst[c] = "rotate" /\ ((Goto(c, "submit") /\ lock' = lock) \/ Fail(c))
    BY <1>3 DEF Generate
  <2> QED BY <2>1, GotoTypes, FailTypes
<1>4. CASE NotDue(c)
  BY <1>4, GotoTypes DEF NotDue
<1>5. CASE Submit(c)
  <2>1. burst[c] = "submit" /\ ((Goto(c, "sync") /\ lock' = lock) \/ Fail(c))
    BY <1>5 DEF Submit
  <2> QED BY <2>1, GotoTypes, FailTypes
<1>6. CASE Sync(c)
  BY <1>6, GotoTypes, FailTypes DEF Sync
<1>7. CASE Update(c)
  BY <1>7, GotoTypes DEF Update
<1>8. CASE LoseServer(c)
  BY <1>8, FailTypes DEF LoseServer
<1> QED BY <1>1, <1>2, <1>3, <1>4, <1>5, <1>6, <1>7, <1>8 DEF Burst

\* The records the proxy and the server keep stay well formed.
LEMMA BurstTypes ==
  ASSUME TypeInv, NEW c \in Conns, Burst(c)
  PROVE  TypeInv'
<1> USE DEF TypeInv, BurstTyped
<1>0. now \in Nat
  BY ClockNat
<1>1. burst' \in [Conns -> Steps] /\ lock' \in Conns \cup {"none"}
  BY BurstEffect
<1>2. UNCHANGED <<pump, now, registry>>
  BY DEF Burst, Acquire, Enroll, Generate, NotDue, Submit, Sync, Update, LoseServer,
         serverVars, proxyVars, history
<1>3. RelayTyped' /\ Clock' /\ registry' \in Versions
  BY <1>2 DEF RelayTyped, Clock
<1>4. identity' \in Engines
  <2>1. CASE Generate(c)
    BY <1>0, <2>1, SubmittedType DEF Generate
  <2>2. CASE Submit(c)
    BY <1>0, <2>2, RolledBackType, PromotedType DEF Submit
  <2>3. CASE identity' = identity
    BY <2>3
  <2> QED BY <2>1, <2>2, <2>3 DEF Burst, Acquire, Enroll, NotDue, Sync, Update, LoseServer, proxyVars
<1>5. rows' \in Engines
  <2>1. CASE Enroll(c)
    <3>1. 1 \in Versions
      BY RotationAssumption DEF Versions
    <3> QED BY <1>0, <2>1, <3>1, TransitionTypes DEF Enroll
  <2>2. CASE Submit(c)
    BY <1>0, <2>2, SubmittedType DEF Submit
  <2>3. CASE rows' = rows
    BY <2>3
  <2> QED BY <2>1, <2>2, <2>3
          DEF Burst, Acquire, Generate, NotDue, Sync, Update, LoseServer, serverVars
<1>6. /\ enrolled' \in BOOLEAN /\ rejected' \in BOOLEAN /\ lost' \in BOOLEAN
      /\ cache' \in 0 .. MaxVersion /\ snapshot' \in [Conns -> 0 .. MaxVersion]
      /\ begun' \in [Conns -> 0 .. MaxVersion]
  <2>1. registry \in 0 .. MaxVersion
    BY DEF Versions
  <2>2. CASE Sync(c)
    BY <2>1, <2>2 DEF Sync, proxyVars, history
  <2>3. CASE Update(c)
    BY <2>3 DEF Update, Updated, history
  <2>4. CASE Enroll(c)
    BY <2>4 DEF Enroll, history
  <2>5. CASE Acquire(c)
    BY <2>1, <2>5 DEF Acquire, proxyVars, history
  <2> QED BY <2>2, <2>3, <2>4, <2>5 DEF Burst, Generate, NotDue, Submit, LoseServer,
                                      proxyVars, history
<1> QED BY <1>1, <1>3, <1>4, <1>5, <1>6

\* So does what is relayed.
LEMMA RelayTypes ==
  ASSUME TypeInv, NEW c \in Conns,
         EndDown(c) \/ EndUp(c) \/ Close(c) \/ Reconnect(c)
  PROVE  /\ TypeInv'
         /\ UNCHANGED <<identity, enrolled, cache, rows, registry, lock, snapshot, begun, rejected, lost, now>>
         /\ \A d \in Conns : burst'[d] # burst[d] =>
              {burst[d], burst'[d]} \cap Control = {}
<1> USE DEF TypeInv
<1>1. UNCHANGED <<identity, enrolled, cache, rows, registry, lock, snapshot, begun, rejected, lost, now>>
  BY DEF EndDown, EndUp, Close, Reconnect, proxyVars, serverVars, history
<1>2. /\ burst' \in [Conns -> Steps]
      /\ \A d \in Conns : burst'[d] # burst[d] => {burst[d], burst'[d]} \cap Control = {}
  BY GotoTypes DEF EndDown, EndUp, Close, Reconnect, BurstTyped, Steps, Control
<1>3. BurstTyped' /\ Clock'
  BY <1>1, <1>2 DEF BurstTyped, Clock
<1>4. pump' \in [Conns -> Pumps]
  <2>1. \A p \in Pumps : [p EXCEPT !.up = FALSE] \in Pumps /\ [p EXCEPT !.down = FALSE] \in Pumps
    BY DEF Pumps
  <2>2. Copying \in Pumps
    BY DEF Copying, Pumps
  <2>3. CASE EndUp(c)
    BY <2>1, <2>3 DEF EndUp, RelayTyped
  <2>4. CASE EndDown(c)
    BY <2>1, <2>4 DEF EndDown, RelayTyped
  <2> QED BY <2>2, <2>3, <2>4 DEF Close, Reconnect, RelayTyped
<1> QED BY <1>1, <1>2, <1>3, <1>4 DEF RelayTyped

LEMMA TypeStep == TypeInv /\ [Next]_vars => TypeInv'
<1> SUFFICES ASSUME TypeInv, [Next]_vars PROVE TypeInv'
  OBVIOUS
<1>1. CASE ClientRotates
  <2>1. registry' \in Versions
    BY <1>1, RotationAssumption DEF ClientRotates, TypeInv, BurstTyped, Versions
  <2> QED BY <1>1, <2>1 DEF ClientRotates, TypeInv, BurstTyped, RelayTyped, Clock,
                            proxyVars, history
<1>2. CASE Tick
  BY <1>2, ProxyAssumption DEF Tick, TypeInv, BurstTyped, RelayTyped, Clock, proxyVars, serverVars, history
<1>3. CASE UNCHANGED vars
  BY <1>3 DEF vars, TypeInv, BurstTyped, RelayTyped, Clock, proxyVars, serverVars, history
<1> QED BY <1>1, <1>2, <1>3, BurstTypes, RelayTypes DEF Next

LEMMA TypeInit == Init => TypeInv
<1> SUFFICES ASSUME Init PROVE TypeInv
  OBVIOUS
<1>1. 1 \in Versions /\ 1 \in Nat
  BY RotationAssumption DEF Versions
<1>2. EmptyEngine \in Engines
  BY DEF EmptyEngine, Engines, Absent, Credential, Statuses, NoTime
<1>3. Provisioned(EmptyEngine, 1, 1) \in Engines
  BY <1>1, <1>2, TransitionTypes
<1>4. BurstTyped
  <2>1. 0 \in 0 .. MaxVersion /\ "new" \in Steps
    BY RotationAssumption DEF Steps
  <2>2. identity \in Engines /\ rows \in Engines /\ registry \in Versions
    BY <1>1, <1>2, <1>3 DEF Init
  <2>3. snapshot \in [Conns -> 0 .. MaxVersion] /\ burst \in [Conns -> Steps]
    BY <2>1 DEF Init
  <2> QED BY <2>1, <2>2, <2>3 DEF Init, BurstTyped
<1>5. RelayTyped
  BY DEF Init, RelayTyped, Copying, Pumps
<1>6. Clock
  BY ProxyAssumption DEF Init, Clock
<1> QED BY <1>4, <1>5, <1>6 DEF TypeInv

LEMMA TypeInvCorrect == Spec => []TypeInv
  BY TypeInit, TypeStep, PTL DEF Spec

\* The proxy's engine, the server's rows, the lock, the cache and every thread's
\* place are well formed however the connections interleave.
THEOREM ProxyTypeCorrect == Spec => []TypeOK
  BY TypeInvCorrect, TypeInvSuffices, PTL

-------------------------------------------------------------------------------

\* control_lock: one burst at a time.
LEMMA ExclusiveStep == TypeInv /\ Exclusive /\ [Next]_vars => Exclusive'
<1> SUFFICES ASSUME TypeInv, Exclusive, [Next]_vars PROVE Exclusive'
  OBVIOUS
<1>0. "none" \notin Conns /\ BurstTyped
  BY ProxyAssumption DEF TypeInv
<1>1. ASSUME NEW c \in Conns, Burst(c) PROVE Exclusive'
  <2>1. /\ \A d \in Conns \ {c} : burst'[d] = burst[d]
        /\ (lock = "none" /\ burst[c] = "new") \/ burst[c] \in Control
        /\ \/ burst'[c] \in Control /\ lock' = IF burst[c] = "new" THEN c ELSE lock
           \/ burst'[c] \notin Control /\ lock' = "none" /\ burst[c] \in Control
    BY <1>0, <1>1, BurstEffect
  <2>2. "new" \notin Control
    BY DEF Control
  <2> QED BY <1>0, <2>1, <2>2 DEF Exclusive
<1>2. ASSUME NEW c \in Conns,
             EndDown(c) \/ EndUp(c) \/ Close(c) \/ Reconnect(c)
      PROVE  Exclusive'
  BY <1>2, RelayTypes DEF Exclusive
<1>3. CASE ClientRotates \/ Tick \/ UNCHANGED vars
  BY <1>3 DEF ClientRotates, Tick, vars, Exclusive
<1> QED BY <1>1, <1>2, <1>3 DEF Next

\* A burst is the only one to look at the rows and the flag.
LEMMA EnrollStep == TypeInv /\ Exclusive /\ EnrollInv /\ [Next]_vars => EnrollInv'
<1> SUFFICES ASSUME TypeInv, Exclusive, EnrollInv, [Next]_vars PROVE EnrollInv'
  OBVIOUS
<1>0. "none" \notin Conns /\ BurstTyped
  BY ProxyAssumption DEF TypeInv
<1>1. ASSUME NEW c \in Conns, Burst(c) PROVE EnrollInv'
  <2>1. /\ \A d \in Conns \ {c} : burst'[d] = burst[d]
        /\ (lock = "none" /\ burst[c] = "new") \/ burst[c] \in Control
        /\ burst'[c] = "enroll" => burst[c] = "new" /\ ~enrolled
    BY <1>0, <1>1, BurstEffect
  <2>2. \A d \in Conns \ {c} : burst[d] # "enroll" /\ burst'[d] # "enroll"
    BY <1>0, <2>1 DEF Exclusive, Control
  <2>3. CASE Enroll(c)
    <3>1. burst[c] = "enroll" /\ burst'[c] # "enroll" /\ ~enrolled
      BY <2>1, <2>3 DEF Enroll, EnrollInv
    <3>2. \/ enrolled' = TRUE /\ UNCHANGED <<rejected, lost>>
          \/ lost' = TRUE
          \/ Known(rows) # {} /\ UNCHANGED <<rows, enrolled, lost>>
      BY <2>3 DEF Enroll, history
    <3>3. (Known(rows) # {})' => enrolled' \/ lost'
      BY <3>1, <3>2 DEF EnrollInv, Known
    <3>4. EnrolledOnce'
      BY <3>1, <3>2 DEF EnrollInv, EnrolledOnce
    <3>5. \A d \in Conns : burst'[d] # "enroll"
      BY <2>2, <3>1
    <3> QED BY <3>3, <3>4, <3>5 DEF EnrollInv
  <2>4. CASE ~Enroll(c)
    <3>1. UNCHANGED <<enrolled, rejected, lost>>
      BY <1>1, <2>4 DEF Burst, Acquire, Generate, NotDue, Submit, Sync, Update, LoseServer,
                        proxyVars, history
    <3>2. (Known(rows) # {})' => Known(rows) # {}
      <4>1. CASE Submit(c)
        <5>1. CASE rows' = rows
          BY <5>1 DEF Known
        <5>2. CASE Held(rows, "ACTIVE") # {}
          BY <5>2 DEF Held, Known
        <5> QED BY <4>1, <5>1, <5>2 DEF Submit, CanSubmit
      <4>2. CASE rows' = rows
        BY <4>2 DEF Known
      <4> QED BY <1>1, <2>4, <4>1, <4>2
              DEF Burst, Acquire, Generate, NotDue, Sync, Update, LoseServer, serverVars
    <3>3. \A d \in Conns : burst'[d] = "enroll" => ~enrolled'
      BY <2>1, <2>2, <3>1
    <3> QED BY <3>1, <3>2, <3>3 DEF EnrollInv, EnrolledOnce
  <2> QED BY <2>3, <2>4
<1>2. ASSUME NEW c \in Conns,
             EndDown(c) \/ EndUp(c) \/ Close(c) \/ Reconnect(c)
      PROVE  EnrollInv'
  <2>1. \A d \in Conns : burst'[d] = "enroll" => burst[d] = "enroll"
    BY <1>2, RelayTypes DEF Control
  <2>2. UNCHANGED <<rows, enrolled, rejected, lost>>
    BY <1>2, RelayTypes
  <2> QED BY <2>1, <2>2 DEF EnrollInv, EnrolledOnce, Known
<1>3. CASE ClientRotates \/ Tick \/ UNCHANGED vars
  BY <1>3 DEF ClientRotates, Tick, vars, EnrollInv, EnrolledOnce, Known,
              proxyVars, serverVars, history
<1> QED BY <1>1, <1>2, <1>3 DEF Next

\* What is read from the registry is written to the cache before anything newer
\* can be read.
LEMMA CacheStep == TypeInv /\ Exclusive /\ CacheInv /\ [Next]_vars => CacheInv' /\ cache' >= cache
<1> SUFFICES ASSUME TypeInv, Exclusive, CacheInv, [Next]_vars PROVE CacheInv' /\ cache' >= cache
  OBVIOUS
<1>0. /\ "none" \notin Conns /\ BurstTyped /\ MaxVersion \in Nat
      /\ registry \in Nat /\ cache \in Nat /\ snapshot \in [Conns -> Nat]
  BY ProxyAssumption, RotationAssumption DEF TypeInv, BurstTyped, Versions
<1>1. ASSUME NEW c \in Conns, Burst(c) PROVE CacheInv' /\ cache' >= cache
  <2>1. /\ \A d \in Conns \ {c} : burst'[d] = burst[d]
        /\ (lock = "none" /\ burst[c] = "new") \/ burst[c] \in Control
        /\ burst'[c] = "update" => Sync(c)
        /\ registry' = registry
    BY <1>0, <1>1, BurstEffect DEF Burst, Acquire, Enroll, Generate, NotDue, Submit, Sync, Update,
                                  LoseServer, serverVars
  <2>2. \A d \in Conns \ {c} : burst'[d] # "update"
    BY <1>0, <2>1 DEF Exclusive, Control
  <2>3. CASE Sync(c)
    <3>1. /\ snapshot' = [snapshot EXCEPT ![c] = registry] /\ cache' = cache
      BY <2>3 DEF Sync, proxyVars
    <3> QED BY <1>0, <2>1, <2>2, <3>1 DEF CacheInv
  <2>4. CASE Update(c)
    <3>1. cache' = snapshot[c] /\ snapshot' = snapshot /\ burst[c] = "update"
      BY <2>4 DEF Update, Updated
    <3>2. ~Sync(c)
      BY <3>1 DEF Sync
    <3> QED BY <1>0, <2>1, <2>2, <3>1, <3>2 DEF CacheInv
  <2>5. CASE ~Sync(c) /\ ~Update(c)
    <3>1. cache' = cache /\ snapshot' = snapshot
      BY <1>1, <2>5 DEF Burst, Acquire, Enroll, Generate, NotDue, Submit, LoseServer, proxyVars
    <3> QED BY <1>0, <2>1, <2>2, <2>5, <3>1 DEF CacheInv
  <2> QED BY <2>3, <2>4, <2>5
<1>2. ASSUME NEW c \in Conns,
             EndDown(c) \/ EndUp(c) \/ Close(c) \/ Reconnect(c)
      PROVE  CacheInv' /\ cache' >= cache
  <2>1. \A d \in Conns : burst'[d] = "update" => burst[d] = "update"
    BY <1>2, RelayTypes DEF Control
  <2>2. UNCHANGED <<cache, snapshot, registry>>
    BY <1>2, RelayTypes
  <2> QED BY <1>0, <2>1, <2>2 DEF CacheInv
<1>3. CASE ClientRotates \/ Tick \/ UNCHANGED vars
  <2>1. /\ UNCHANGED <<cache, snapshot, burst>>
        /\ registry' = registry \/ registry' = registry + 1
    BY <1>3 DEF ClientRotates, Tick, vars, proxyVars, serverVars
  <2> QED BY <1>0, <2>1 DEF CacheInv
<1> QED BY <1>1, <1>2, <1>3 DEF Next

\* A snapshot is read after the lock was taken, written before it is released,
\* and what replaces it in the cache is no older.
LEMMA FreshStep ==
  TypeInv /\ Exclusive /\ CacheInv /\ FreshInv /\ [Next]_vars => FreshInv'
<1> SUFFICES ASSUME TypeInv, Exclusive, CacheInv, FreshInv, [Next]_vars PROVE FreshInv'
  OBVIOUS
<1>0. /\ BurstTyped /\ registry \in Nat /\ cache \in Nat /\ cache' \in Nat
      /\ snapshot \in [Conns -> Nat] /\ begun \in [Conns -> Nat]
  <2>1. BurstTyped' /\ MaxVersion \in Nat
    BY TypeStep, RotationAssumption DEF TypeInv
  <2> QED BY <2>1 DEF TypeInv, BurstTyped, Versions
<1>1. cache' >= cache
  BY CacheStep
<1>2. ASSUME NEW c \in Conns, Burst(c) PROVE FreshInv'
  <2>1. /\ \A d \in Conns \ {c} : burst'[d] = burst[d]
        /\ burst'[c] = "update" => Sync(c)
        /\ registry' = registry
    BY <1>0, <1>2, BurstEffect DEF Burst, Acquire, Enroll, Generate, NotDue, Submit, Sync, Update,
                                  LoseServer, serverVars
  <2>2. CASE Acquire(c)
    <3>1. /\ begun' = [begun EXCEPT ![c] = registry] /\ snapshot' = snapshot
          /\ burst'[c] \in {"rotate", "enroll"}
      BY <1>0, <2>2 DEF Acquire, Goto, BurstTyped
    <3> QED BY <1>0, <1>1, <2>1, <3>1 DEF FreshInv, RelaysOnFresh
  <2>3. CASE Sync(c)
    <3>1. /\ snapshot' = [snapshot EXCEPT ![c] = registry] /\ begun' = begun
          /\ burst'[c] \in {"update", "closed"}
      BY <1>0, <2>3 DEF Sync, Fail, Goto, BurstTyped
    <3> QED BY <1>0, <1>1, <2>1, <3>1 DEF FreshInv, RelaysOnFresh
  <2>4. CASE Update(c)
    <3>1. /\ cache' = snapshot[c] /\ UNCHANGED <<snapshot, begun>>
          /\ burst[c] = "update" /\ burst'[c] = "relay"
      BY <1>0, <2>4 DEF Update, Updated, Goto, BurstTyped
    <3> QED BY <1>0, <1>1, <2>1, <3>1 DEF FreshInv, RelaysOnFresh
  <2>5. CASE Enroll(c) \/ Generate(c) \/ NotDue(c) \/ Submit(c) \/ LoseServer(c)
    <3>1. UNCHANGED <<snapshot, begun>>
      BY <2>5 DEF Enroll, Generate, NotDue, Submit, LoseServer
    <3>2. burst'[c] \in {"rotate", "submit", "sync", "closed"}
      BY <1>0, <2>5 DEF Enroll, Generate, NotDue, Submit, LoseServer, Fail, Goto, BurstTyped
    <3> QED BY <1>0, <1>1, <2>1, <3>1, <3>2 DEF FreshInv, RelaysOnFresh
  <2> QED BY <1>2, <2>2, <2>3, <2>4, <2>5 DEF Burst
<1>3. ASSUME NEW c \in Conns, EndDown(c) \/ EndUp(c) \/ Close(c) \/ Reconnect(c)
      PROVE  FreshInv'
  <2>1. /\ UNCHANGED <<cache, snapshot, begun, registry>>
        /\ \A d \in Conns : burst'[d] = burst[d] \/ burst'[d] \in {"closed", "new"}
    BY <1>0, <1>3 DEF EndDown, EndUp, Close, Reconnect, Goto, BurstTyped, proxyVars, serverVars
  <2> QED BY <2>1 DEF FreshInv, RelaysOnFresh
<1>4. CASE ClientRotates \/ Tick \/ UNCHANGED vars
  <2>1. /\ UNCHANGED <<cache, snapshot, begun, burst>>
        /\ registry' = registry \/ registry' = registry + 1
    BY <1>4 DEF ClientRotates, Tick, vars, proxyVars, serverVars
  <2> QED BY <1>0, <2>1 DEF FreshInv, RelaysOnFresh
<1> QED BY <1>2, <1>3, <1>4 DEF Next

LEMMA BurstInvCorrect == Spec => []ProxyInv
<1>1. Init => Exclusive /\ EnrollInv /\ CacheInv /\ FreshInv
  <2> SUFFICES ASSUME Init PROVE Exclusive /\ EnrollInv /\ CacheInv /\ FreshInv
    OBVIOUS
  <2>1. Exclusive
    BY ProxyAssumption DEF Init, Exclusive, Control
  <2>2. Known(rows) = {}
    BY DEF Init, Known, EmptyEngine, Absent
  <2>3. EnrollInv
    BY <2>2 DEF Init, EnrollInv, EnrolledOnce
  <2>4. CacheInv /\ FreshInv
    BY DEF Init, CacheInv, FreshInv, RelaysOnFresh
  <2> QED BY <2>1, <2>3, <2>4
<1> QED BY <1>1, TypeInit, TypeStep, ExclusiveStep, EnrollStep, CacheStep, FreshStep, PTL
        DEF Spec, ProxyInv

\* However connections overlap, the proxy presents a spent token again only when
\* the answer to its first enrollment was lost.
THEOREM ProxyEnrollsOnce == Spec => []EnrolledOnce
<1>1. ProxyInv => EnrolledOnce
  BY DEF ProxyInv, EnrollInv
<1> QED BY <1>1, BurstInvCorrect, PTL

\* A snapshot never replaces a later one: the lock spans the read and the write.
THEOREM CacheOnlyAdvances == Spec => CacheAdvances
<1>1. ProxyInv /\ [Next]_vars => [cache' >= cache]_vars
  BY CacheStep DEF ProxyInv
<1> QED BY <1>1, BurstInvCorrect, PTL DEF Spec, CacheAdvances

\* A connection never relays with a snapshot older than the registry was when its
\* burst began, whatever other connections have put in the cache meanwhile.
THEOREM RelaysOnFreshSnapshot == Spec => []RelaysOnFresh
<1>1. ProxyInv => RelaysOnFresh
  BY DEF ProxyInv, FreshInv
<1> QED BY <1>1, BurstInvCorrect, PTL
==============================================================================
