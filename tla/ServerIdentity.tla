---------------------------- MODULE ServerIdentity ----------------------------
(***************************************************************************)
(* The server's own rotating credential (server/sih_server/identity.py):   *)
(* one process whose rotation thread calls maybe_rotate every Interval,    *)
(* connection threads that read the active credential and its keys without *)
(* a lock, and what survives the process: the database rows and the key    *)
(* file, written one after the other.                                      *)
(*                                                                         *)
(* Abstractions: a key pair is the number of the process start that made   *)
(* it, 0 for none; a call of maybe_rotate takes no time on the clock.      *)
(***************************************************************************)
EXTENDS RotationOps

CONSTANTS Interval,     \* rotation_tick
          MaxTime,      \* bound on the clock
          MaxStarts,    \* bound on the process starts
          MaxFailures   \* bound on the failing writes

\* With a period below two seconds a successor would be due when submitted.
ASSUME IdentityAssumption == /\ T >= 2 /\ Interval \in Nat \ {0}
                             /\ MaxTime \in Nat \ {0}
                             /\ MaxStarts \in Nat /\ MaxFailures \in Nat

VARIABLES rows, rowPub,       \* database: the records and their public keys
          keyfile,            \* server_identity_keys.json: the private keys
          engine, pub, keys,  \* _engine, its public keys, and _keys
          pc,                 \* what the process, or its rotation thread, does
          answer,             \* what the last reader got of active_keys()
          lastCall,           \* when maybe_rotate was last called
          whole, timely,      \* history: what the process found when it started
          starts, failures, now

disk   == <<rows, rowPub, keyfile>>
memory == <<engine, pub, keys>>
found  == <<whole, timely>>
vars   == <<disk, memory, pc, answer, lastCall, found, starts, failures, now>>

KeyRing == [Versions -> 0 .. MaxStarts]
NoKeys  == [v \in Versions |-> 0]

Steps   == {"down", "idle", "provision", "commit", "bootkeys", "keyfile", "demote", "promote"}
Answers == {"none", "ok", "no_active", "keys_missing"}

Init == /\ rows = EmptyEngine /\ rowPub = NoKeys /\ keyfile = NoKeys
        /\ engine = EmptyEngine /\ pub = NoKeys /\ keys = NoKeys
        /\ pc = "down" /\ answer = "none" /\ lastCall = 0
        /\ whole = TRUE /\ timely = TRUE
        /\ starts = 0 /\ failures = 0 /\ now = 1

-------------------------------------------------------------------------------

\* Mutant of Generate: the private keys are not kept.
GeneratePublic(v) == pub' = [pub EXCEPT ![v] = starts'] /\ keys' = keys

\* A new pair of keys: the public one for the rows, the private one in memory.
Generate(v) == pub' = [pub EXCEPT ![v] = starts'] /\ keys' = [keys EXCEPT ![v] = starts']

\* ensure_loaded without rows, up to the first write: _provision.
StartFresh ==
  /\ rows = EmptyEngine
  /\ engine' = Provisioned(EmptyEngine, 1, now)
  /\ Generate(1)
  /\ pc' = "provision"

\* ensure_loaded with rows.  Without a key file the process ends.
StartAgain ==
  /\ rows # EmptyEngine
  /\ IF keyfile = NoKeys
     THEN UNCHANGED <<memory, pc>>
     ELSE engine' = rows /\ pub' = rowPub /\ keys' = keyfile /\ pc' = "idle"

\* The first call comes within an interval of the start, submits, and the call
\* that promotes comes within an interval of the deadline.
TimeToRotate(c) == now + Interval + ValidationPeriod + Interval < c.expiration

Start ==
  /\ pc = "down" /\ starts < MaxStarts
  /\ starts' = starts + 1
  /\ lastCall' = now
  /\ whole' = \A v \in InWindow(rows) : keyfile[v] # 0
  /\ timely' = \A v \in Held(rows, "ACTIVE") : TimeToRotate(rows[v])
  /\ StartFresh \/ StartAgain
  /\ UNCHANGED <<disk, answer, failures, now>>

\* The process stops at any point of what it does.
Crash ==
  /\ pc # "down"
  /\ pc' = "down"
  /\ engine' = EmptyEngine /\ pub' = NoKeys /\ keys' = NoKeys
  /\ answer' = "none"
  /\ UNCHANGED <<disk, lastCall, found, starts, failures, now>>

-------------------------------------------------------------------------------

\* Mutant of Written: only the rows of the new statuses are stored.
WrittenAhead == [v \in Versions |-> IF engine[v].status \in {"ACTIVE", "VALIDATING"}
                                    THEN engine[v] ELSE rows[v]]

Written == engine

\* _persist: first the transaction with every record of the engine ...
Commit ==
  /\ pc \in {"provision", "commit"}
  /\ rows' = Written /\ rowPub' = pub
  /\ pc' = IF pc = "provision" THEN "bootkeys" ELSE "keyfile"
  /\ UNCHANGED <<keyfile, memory, answer, lastCall, found, starts, failures, now>>

\* ... then _save_keys, an atomic replacement of the file.
SaveKeys ==
  /\ pc \in {"bootkeys", "keyfile"}
  /\ keyfile' = keys
  /\ pc' = "idle"
  /\ UNCHANGED <<rows, rowPub, memory, answer, lastCall, found, starts, failures, now>>

\* A failing write of the rotation thread: the tick logs it and goes on.
WriteFails ==
  /\ pc \in {"commit", "keyfile"} /\ failures < MaxFailures
  /\ failures' = failures + 1
  /\ pc' = "idle"
  /\ UNCHANGED <<disk, memory, answer, lastCall, found, starts, now>>

-------------------------------------------------------------------------------

Active     == First(engine, "ACTIVE")
Validating == First(engine, "VALIDATING")

\* Mutant of RotateAt: with no more than the validation period and a call left.
RotateTooLate(v) == engine[v].expiration - ValidationPeriod - Interval

\* Mutant of RotateAt: at the expiry.
RotateAtExpiry(v) == engine[v].expiration

RotateAt(v) == engine[v].expiration - 2 * FallbackPeriod

\* The guards of _submit_successor, whose own lookup of the key may fail.
SubmitDue == /\ Held(engine, "VALIDATING") = {} /\ now >= RotateAt(Active)
             /\ keys[Active] # 0 /\ Active + 1 \in Versions
             /\ CanSubmit(engine, Active + 1, Active, TRUE, now)

\* Mutant of SubmitSuccessor: the key file is written before the transaction.
SubmitKeysFirst ==
  /\ SubmitDue
  /\ engine' = Submitted(engine, Active + 1, now)
  /\ Generate(Active + 1)
  /\ keyfile' = keys'
  /\ pc' = "commit"
  /\ UNCHANGED <<rows, rowPub>>

\* _submit_successor, up to its _persist.
SubmitSuccessor ==
  /\ SubmitDue
  /\ engine' = Submitted(engine, Active + 1, now)
  /\ Generate(Active + 1)
  /\ pc' = "commit"
  /\ UNCHANGED disk

\* checkpoint assigns the three records one after the other.
BeginCheckpoint ==
  /\ CanPromote(engine, now)
  /\ engine' = IF Held(engine, "FALLBACK") = {} THEN engine
               ELSE WithStatus(engine, First(engine, "FALLBACK"), "TERMINATED")
  /\ pc' = "demote"
  /\ UNCHANGED <<disk, pub, keys>>

\* The engine marks the successor and raises: nothing is written.
OutlivedCheckpoint ==
  /\ SuccessorOutlived(engine, now)
  /\ engine' = MarkedOutlived(engine)
  /\ UNCHANGED <<disk, pub, keys, pc>>

\* Every other outcome: not due, refused by the engine, or, for an active
\* version whose key is missing, an exception the tick logs.
NothingToRotate ==
  /\ ~CanPromote(engine, now) /\ ~SuccessorOutlived(engine, now) /\ ~SubmitDue
  /\ UNCHANGED <<disk, memory, pc>>

\* The rotation thread's call; Active is read once, at its start.
MaybeRotate ==
  /\ pc = "idle" /\ now >= lastCall + Interval
  /\ lastCall' = now
  /\ Held(engine, "ACTIVE") # {}
  /\ UNCHANGED <<found, starts>>
  /\ SubmitSuccessor \/ BeginCheckpoint \/ OutlivedCheckpoint \/ NothingToRotate
  /\ UNCHANGED <<answer, failures, now>>

\* Mutant of Demote: the call ends with the demotion.
DemoteAlone ==
  /\ pc = "demote"
  /\ engine' = [engine EXCEPT ![Active].status = "FALLBACK",
                              ![Active].expiration = Later(@, now + FallbackPeriod)]
  /\ pc' = "commit"
  /\ UNCHANGED <<disk, pub, keys, answer, lastCall, found, starts, failures, now>>

Demote ==
  /\ pc = "demote"
  /\ engine' = [engine EXCEPT ![Active].status = "FALLBACK",
                              ![Active].expiration = Later(@, now + FallbackPeriod)]
  /\ pc' = "promote"
  /\ UNCHANGED <<disk, pub, keys, answer, lastCall, found, starts, failures, now>>

Promote ==
  /\ pc = "promote"
  /\ engine' = [engine EXCEPT ![Validating].status = "ACTIVE", ![Validating].activation = now]
  /\ pc' = "commit"
  /\ UNCHANGED <<disk, pub, keys, answer, lastCall, found, starts, failures, now>>

-------------------------------------------------------------------------------

\* active_keys of a connection thread, at any point of the rotation thread's
\* work: the active record, its expiry not looked at, then its private keys.
Read ==
  /\ pc \notin {"down", "provision", "bootkeys"}
  /\ answer' = IF Held(engine, "ACTIVE") = {} THEN "no_active"
               ELSE IF keys[Active] = 0 THEN "keys_missing" ELSE "ok"
  /\ UNCHANGED <<disk, memory, pc, lastCall, found, starts, failures, now>>

\* While the process is up its rotation thread is called in time.
Tick ==
  /\ now < MaxTime
  /\ pc \in {"down", "idle"}
  /\ pc = "idle" => now < lastCall + Interval
  /\ now' = now + 1
  /\ UNCHANGED <<disk, memory, pc, answer, lastCall, found, starts, failures>>

Next == \/ Start \/ Crash
        \/ Commit \/ SaveKeys \/ WriteFails
        \/ MaybeRotate \/ Demote \/ Promote
        \/ Read \/ Tick

Spec == Init /\ [][Next]_vars

-------------------------------------------------------------------------------

TypeOK == /\ rows \in Engines /\ engine \in Engines
          /\ rowPub \in KeyRing /\ keyfile \in KeyRing
          /\ pub \in KeyRing /\ keys \in KeyRing
          /\ pc \in Steps /\ answer \in Answers
          /\ lastCall \in 0 .. MaxTime /\ now \in 1 .. MaxTime
          /\ {whole, timely} \subseteq BOOLEAN
          /\ starts \in 0 .. MaxStarts /\ failures \in 0 .. MaxFailures

\* Whatever write the process stops at, the rows it leaves are a state of the
\* rotation window: exactly one ACTIVE record, and no second in another place.
RowsConsistent ==
  rows # EmptyEngine => /\ Cardinality(Held(rows, "ACTIVE")) = 1
                        /\ Cardinality(Held(rows, "VALIDATING")) <= 1
                        /\ Cardinality(Held(rows, "FALLBACK")) <= 1

\* A private key in the file belongs to the public key of its row, also when
\* a process that stopped had made another pair of the same version: rows are
\* committed before the file is written.
KeysMatchRows == \A v \in Versions : keyfile[v] # 0 => keyfile[v] = rowPub[v]

\* A process that keeps running, with its rotation thread called in time, always
\* has an active credential that has not expired, failed writes, earlier
\* processes and whatever they left undone notwithstanding, if it held the keys
\* of the window when it started and the active credential had the time for a
\* rotation left.  Without that time nothing recovers (identity.py:219-223).
NeverExpires ==
  (whole /\ timely /\ pc = "idle") =>
    \E v \in Held(engine, "ACTIVE") : ~Expired(engine[v], now)

\* Rotation begins early enough that the demoted credential has its fallback
\* period left (identity.py:215-217), but for the three calls that each come less
\* than an interval late: the promotion that made it active, the submission of
\* its successor, which waits for the call after that, and its own demotion.
FullCoverage ==
  [][\A v \in Versions :
       (starts = 1 /\ engine[v].status = "ACTIVE" /\ engine'[v].status = "FALLBACK")
         => engine[v].expiration + 3 * Interval > now + FallbackPeriod]_vars

\* A process never misses the private keys of its active version, whatever the
\* writes of its rotation thread do, if it held those of the window's versions
\* when it started.
KeysHeldWhileUp == whole => answer # "keys_missing"

\* A connection thread is told that the server has no active credential only
\* when it reads between the two assignments of a promotion
\* (credential_state.py:239-248), never for longer than that call.
RefusedInPassing ==
  [][answer # "no_active" /\ answer' = "no_active" => pc = "promote"]_vars

\* The active version always has its private keys: what is in the rows can be
\* loaded again (test_identity.py:22-29, identity.py:5-6).
ActiveKeysHeld == answer # "keys_missing"
==============================================================================
