------------------------------ MODULE ProxyRelay ------------------------------
(***************************************************************************)
(* The proxy (proxy/sih_proxy/tunnel.py, cache.py, identity.py): one       *)
(* thread per client connection, which opens a connection of its own to    *)
(* the server, does its control traffic there under a lock that all share, *)
(* and then relays frames both ways until the connection ends.             *)
(*                                                                         *)
(* Abstractions: the server grants what the registry would grant (the      *)
(* operations of RotationOps on its rows for the proxy); the frames that   *)
(* are relayed are not represented, only whether each direction goes on    *)
(* (what becomes of frames on a connection is the subject of Framing).     *)
(***************************************************************************)
EXTENDS RotationOps

CONSTANTS Conns,        \* client connections
          MaxTime       \* bound on the clock

ASSUME ProxyAssumption == MaxTime \in Nat \ {0} /\ "none" \notin Conns

VARIABLES identity,   \* the proxy's own engine (ProxyIdentity), shared
          enrolled,   \* its flag, and with it the server's key information
          rows,       \* the server's rows for the proxy
          registry,   \* version of the client's credential on the server
          cache,      \* the version in the cached snapshot, 0 when there is none
          lock,       \* the connection that holds control_lock, or "none"
          burst,      \* per connection, where its thread is
          snapshot,   \* per connection, the snapshot it was sent
          pump,       \* per connection and direction, whether the copying goes on
          begun,      \* history: the registry's version when a burst took the lock
          rejected,   \* history: an enrollment was refused
          lost,       \* history: the answer to an enrollment was lost
          now

proxyVars == <<identity, enrolled, cache>>
serverVars == <<rows, registry>>
history == <<rejected, lost>>
vars == <<proxyVars, serverVars, lock, burst, snapshot, pump, begun, history, now>>

Control == {"enroll", "rotate", "submit", "sync", "update"}
Steps   == Control \cup {"new", "relay", "closed"}
Copying == [up |-> TRUE, down |-> TRUE]

Init == /\ identity = Provisioned(EmptyEngine, 1, 1) /\ enrolled = FALSE
        /\ rows = EmptyEngine
        /\ registry = 1 /\ cache = 0
        /\ lock = "none" /\ burst = [c \in Conns |-> "new"]
        /\ snapshot = [c \in Conns |-> 0]
        /\ pump = [c \in Conns |-> Copying]
        /\ begun = [c \in Conns |-> 0]
        /\ rejected = FALSE /\ lost = FALSE
        /\ now = 1

-------------------------------------------------------------------------------

Goto(c, step) == burst' = [burst EXCEPT ![c] = step]

\* Mutant of LockFree: nobody waits for the lock.
LockUnused == TRUE

LockFree == lock = "none"

\* A client connects; its thread waits for the lock.
Acquire(c) ==
  /\ burst[c] = "new" /\ LockFree
  /\ lock' = c
  /\ Goto(c, IF enrolled THEN "rotate" ELSE "enroll")
  /\ begun' = [begun EXCEPT ![c] = registry]
  /\ UNCHANGED <<snapshot, proxyVars, serverVars, pump, history, now>>

\* The control traffic ends in an exception: both sockets are closed.
Fail(c) == lock' = "none" /\ Goto(c, "closed")

\* _open_server_connection enrolls the proxy when it is not enrolled; the answer
\* may not get back.
Enroll(c) ==
  /\ burst[c] = "enroll"
  /\ \/ /\ Known(rows) = {}
        /\ rows' = Provisioned(rows, 1, now)
        /\ \/ enrolled' = TRUE /\ Goto(c, "rotate") /\ UNCHANGED <<lock, history>>
           \/ lost' = TRUE /\ Fail(c) /\ UNCHANGED <<enrolled, rejected>>
     \/ /\ Known(rows) # {}
        /\ rejected' = TRUE /\ Fail(c)
        /\ UNCHANGED <<rows, enrolled, lost>>
  /\ UNCHANGED <<snapshot, identity, cache, registry, pump, begun, now>>

Active == First(identity, "ACTIVE")

ShouldRotate == now >= identity[Active].expiration - 2 * FallbackPeriod

\* _control_burst: rotate makes the successor, which may raise ...
Generate(c) ==
  /\ burst[c] = "rotate" /\ ShouldRotate /\ Active < MaxVersion
  /\ IF CanSubmit(identity, Active + 1, Active, TRUE, now)
     THEN /\ identity' = Submitted(identity, Active + 1, now)
          /\ Goto(c, "submit")
          /\ UNCHANGED lock
     ELSE /\ Fail(c)
          /\ UNCHANGED identity
  /\ UNCHANGED <<snapshot, enrolled, cache, serverVars, pump, begun, history, now>>

NotDue(c) ==
  /\ burst[c] = "rotate" /\ ~ShouldRotate
  /\ Goto(c, "sync")
  /\ UNCHANGED <<snapshot, proxyVars, serverVars, lock, pump, begun, history, now>>

Authentic == Usable(rows, Active, now)

\* ... and submits it; the server's promotion is never asked for.  Both of the
\* checkpoints that follow are the local one, which is a no-op that early.  When
\* the answer is lost the successor stays as it is on both sides.
Submit(c) ==
  /\ burst[c] = "submit"
  /\ \E answered \in BOOLEAN :
       LET v       == First(identity, "VALIDATING")
           granted == Authentic /\ CanSubmit(rows, v, Active, TRUE, now)
           heard   == Authentic /\ answered
       IN  /\ rows' = IF granted THEN Submitted(rows, v, now) ELSE rows
           /\ identity' = IF heard /\ ~granted THEN RolledBack(identity)
                          ELSE IF heard /\ CanPromote(identity, now) THEN Promoted(identity, now)
                          ELSE identity
           /\ IF heard /\ granted THEN Goto(c, "sync") /\ UNCHANGED lock ELSE Fail(c)
  /\ UNCHANGED <<snapshot, enrolled, cache, registry, pump, begun, history, now>>

\* sync_registry, twice.
Sync(c) ==
  /\ burst[c] = "sync"
  /\ IF Authentic THEN Goto(c, "update") /\ UNCHANGED lock ELSE Fail(c)
  /\ snapshot' = [snapshot EXCEPT ![c] = registry]
  /\ UNCHANGED <<proxyVars, serverVars, pump, begun, history, now>>

\* Mutant of Updated: the cache is filled once.
UpdatedOnce(c) == IF cache = 0 THEN snapshot[c] ELSE cache

Updated(c) == snapshot[c]

\* The cache is replaced, the lock released, and the two pumps are started.
Update(c) ==
  /\ burst[c] = "update"
  /\ cache' = Updated(c)
  /\ lock' = "none"
  /\ Goto(c, "relay")
  /\ UNCHANGED <<identity, enrolled, serverVars, snapshot, pump, begun, history, now>>

\* The connection to the server fails between two of its requests.
LoseServer(c) ==
  /\ burst[c] \in Control
  /\ Fail(c)
  /\ UNCHANGED <<proxyVars, serverVars, snapshot, pump, begun, history, now>>

-------------------------------------------------------------------------------

\* The client's credential is rotated, through this proxy or another one.
ClientRotates ==
  /\ registry < MaxVersion
  /\ registry' = registry + 1
  /\ UNCHANGED <<snapshot, proxyVars, rows, lock, burst, pump, begun, history, now>>

\* The frames of the server come from an identity the snapshot does not hold:
\* the validator lets them pass.  The pump ends when nothing has come for the
\* timeout of the server's socket, or when a socket fails.
EndDown(c) ==
  /\ burst[c] = "relay" /\ pump[c].down
  /\ pump' = [pump EXCEPT ![c].down = FALSE]
  /\ UNCHANGED <<snapshot, proxyVars, serverVars, lock, burst, begun, history, now>>

\* The client closes: the other pump ends.
EndUp(c) ==
  /\ burst[c] = "relay" /\ pump[c].up
  /\ pump' = [pump EXCEPT ![c].up = FALSE]
  /\ UNCHANGED <<snapshot, proxyVars, serverVars, lock, burst, begun, history, now>>

SpliceEnds(c) == ~pump[c].up /\ ~pump[c].down

\* _splice joins both pumps before it closes the sockets.
Close(c) ==
  /\ burst[c] = "relay" /\ SpliceEnds(c)
  /\ Goto(c, "closed")
  /\ UNCHANGED <<snapshot, proxyVars, serverVars, lock, pump, begun, history, now>>

\* The client connects again.
Reconnect(c) ==
  /\ burst[c] = "closed"
  /\ Goto(c, "new")
  /\ pump' = [pump EXCEPT ![c] = Copying]
  /\ UNCHANGED <<snapshot, proxyVars, serverVars, lock, begun, history, now>>

Tick == /\ now < MaxTime
        /\ now' = now + 1
        /\ UNCHANGED <<snapshot, proxyVars, serverVars, lock, burst, pump, begun, history>>

Burst(c) == \/ Acquire(c) \/ Enroll(c) \/ Generate(c) \/ NotDue(c) \/ Submit(c) \/ Sync(c)
            \/ Update(c) \/ LoseServer(c)

Next == \/ \E c \in Conns : \/ Burst(c)
                            \/ EndDown(c) \/ EndUp(c) \/ Close(c) \/ Reconnect(c)
        \/ ClientRotates \/ Tick

Spec == Init /\ [][Next]_vars

-------------------------------------------------------------------------------

TypeOK == /\ identity \in Engines /\ rows \in Engines /\ enrolled \in BOOLEAN
          /\ registry \in Versions /\ cache \in 0 .. MaxVersion
          /\ lock \in Conns \cup {"none"}
          /\ burst \in [Conns -> Steps] /\ snapshot \in [Conns -> 0 .. MaxVersion]
          /\ pump \in [Conns -> [up : BOOLEAN, down : BOOLEAN]]
          /\ begun \in [Conns -> 0 .. MaxVersion]
          /\ history \in BOOLEAN \X BOOLEAN /\ now \in 1 .. MaxTime

\* The first connection enrolls the proxy and the later ones reuse what it got
\* (tunnel.py:161-162): however connections overlap, a token that was spent is
\* presented again only when the answer to the first enrollment was lost.
EnrolledOnce == rejected => lost

\* The frames of a connection are checked against the cache that all share, not
\* against the snapshot its own burst was sent (tunnel.py:173, cache.py:23-26):
\* what other connections have written there since is never older than the
\* registry was when this connection's burst began, so that a client that had
\* rotated by then is known by its new version.
RelaysOnFresh == \A c \in Conns : burst[c] = "relay" => cache >= begun[c]

\* A snapshot never replaces a later one: bursts do not overlap.
CacheAdvances == [][cache' >= cache]_vars
==============================================================================
