----------------------------- MODULE EnvelopeAuth -----------------------------
(***************************************************************************)
(* The server's check of a signed envelope (server/sih_server/auth.py) and *)
(* the cache of envelopes seen before (shared/sih_shared/replay.py), which *)
(* the connection threads share without a lock.                            *)
(*                                                                         *)
(* Abstractions: an envelope is its replay key, sender and nonce; it       *)
(* carries a valid signature; it may arrive more than once.                *)
(***************************************************************************)
EXTENDS Naturals, Sequences, SequencesExt

CONSTANTS Envelopes,    \* envelopes of one sender
          Threads,      \* connection threads
          MaxEntries,   \* ReplayCache max_entries
          Window,       \* TIMESTAMP_WINDOW
          MaxTime,      \* bound on the clock
          MaxArrivals,  \* bound on the arrivals of an envelope
          MaxRestarts   \* bound on the restarts of the server

ASSUME AuthAssumption == /\ MaxEntries \in Nat \ {0} /\ Window \in Nat
                         /\ MaxTime \in Nat \ {0} /\ MaxArrivals \in Nat /\ MaxRestarts \in Nat
                         /\ IsFiniteSet(Envelopes) /\ IsFiniteSet(Threads)

VARIABLES stamp,      \* when an envelope was signed, 0 before
          arrivals,   \* how often it has arrived
          cache,      \* ReplayCache._entries, the oldest first
          thread,     \* what a thread does and with which envelope
          status,     \* status of the sender's credential in the registry
          accepted,   \* how often an envelope was accepted
          newer,      \* history: the keys met since a key was last put at the end,
                        \* and that key itself if it never was
          exposed,    \* history: the keys the cache may take for new again
          overlap,    \* history: how many others were about to remove a key, at
                        \* most, when a thread found the cache full
          restarts, now

vars == <<stamp, arrivals, cache, thread, status, accepted, newer, exposed, overlap, restarts, now>>

Statuses       == {"VALIDATING", "ACTIVE", "FALLBACK", "TERMINATED"}
Authenticating == {"ACTIVE", "FALLBACK"}
Steps          == {"lookup", "touch", "record", "evict", "pop", "credential"}
Idle == [step |-> "idle"]
At(step, e) == [step |-> step, env |-> e]

Init == /\ stamp = [e \in Envelopes |-> 0] /\ arrivals = [e \in Envelopes |-> 0]
        /\ cache = <<>> /\ thread = [t \in Threads |-> Idle]
        /\ status = "VALIDATING"
        /\ accepted = [e \in Envelopes |-> 0] /\ exposed = {}
        /\ newer = [e \in Envelopes |-> Envelopes]
        /\ overlap = 0 /\ restarts = 0 /\ now = 1

-------------------------------------------------------------------------------

\* A client signs an envelope, with its own clock.
SignEnvelope(e) ==
  /\ stamp[e] = 0
  /\ \E t \in {now, now + 1} : stamp' = [stamp EXCEPT ![e] = t]
  /\ UNCHANGED <<arrivals, cache, thread, status, accepted, newer, exposed, overlap, restarts, now>>

TimestampOk(s, t) == t <= s + Window /\ s <= t + Window

\* A thread reads an envelope; authenticate looks at its timestamp first.
Arrive(t, e) ==
  /\ thread[t] = Idle /\ stamp[e] # 0 /\ arrivals[e] < MaxArrivals
  /\ arrivals' = [arrivals EXCEPT ![e] = @ + 1]
  /\ thread' = IF TimestampOk(stamp[e], now) THEN [thread EXCEPT ![t] = At("lookup", e)]
                                             ELSE thread
  /\ UNCHANGED <<stamp, cache, status, accepted, newer, exposed, overlap, restarts, now>>

\* The history after a key is met, again or for the first time.
Met(e) == newer' = [k \in Envelopes |-> IF k = e THEN {} ELSE newer[k] \cup {e}]

Step(t, from) == /\ thread[t].step = from
                 /\ UNCHANGED <<stamp, arrivals, restarts, now>>

\* Mutant of Lookup: the answer of the test is not used.
LookupIgnored(t) ==
  /\ Step(t, "lookup")
  /\ thread' = [thread EXCEPT ![t] = At("record", thread[t].env)]
  /\ UNCHANGED <<cache, status, accepted, newer, exposed, overlap>>

\* Another thread has looked for the key in vain and is about to record it.
Pending(t, e) == \E u \in Threads \ {t} : thread[u] = At("record", e)

\* check_and_add, first the test ...
Lookup(t) ==
  /\ Step(t, "lookup")
  /\ LET e == thread[t].env
     IN  /\ thread' = [thread EXCEPT ![t] = At(IF Contains(cache, e) THEN "touch" ELSE "record", e)]
         /\ exposed' = IF Pending(t, e) THEN exposed \cup {e} ELSE exposed
  /\ UNCHANGED <<cache, status, accepted, newer, overlap>>

\* ... then, for a key that is there, move_to_end; the envelope is refused.
\* If another thread's eviction removed the key the method raises instead.
Touch(t) ==
  /\ Step(t, "touch")
  /\ LET e == thread[t].env
     IN  \/ \E i \in 1 .. Len(cache) : /\ cache[i] = e
                                       /\ cache' = Append(RemoveAt(cache, i), e)
                                       /\ Met(e)
         \/ ~Contains(cache, e) /\ UNCHANGED <<cache, newer>>
  /\ thread' = [thread EXCEPT ![t] = Idle]
  /\ UNCHANGED <<status, accepted, exposed, overlap>>

\* ... and for one that is not, the assignment, which leaves a key where it is ...
Record(t) ==
  /\ Step(t, "record")
  /\ LET e == thread[t].env
     IN  /\ IF Contains(cache, e) THEN UNCHANGED <<cache, newer>>
                                ELSE cache' = Append(cache, e) /\ Met(e)
         /\ thread' = [thread EXCEPT ![t] = At("evict", e)]
  /\ UNCHANGED <<status, accepted, exposed, overlap>>

\* Mutant of Full: the cache is full one entry early.
FullAtLimit == Len(cache) >= MaxEntries

Full == Len(cache) > MaxEntries

Popping == {t \in Threads : thread[t].step = "pop"}

\* ... and the test of the size ...
TestSize(t) ==
  /\ Step(t, "evict")
  /\ thread' = [thread EXCEPT ![t] = At(IF Full THEN "pop" ELSE "credential", thread[t].env)]
  /\ overlap' = IF Full /\ Cardinality(Popping) > overlap THEN Cardinality(Popping) ELSE overlap
  /\ UNCHANGED <<cache, status, accepted, newer, exposed>>

\* Mutant of Evicted: nothing goes.
EvictedNone == cache

Evicted == IF cache = <<>> THEN cache ELSE Tail(cache)

\* ... on which popitem follows, whatever other threads have removed since: it
\* takes the oldest key there is now, and raises when there is none.
Evict(t) ==
  /\ Step(t, "pop")
  /\ cache' = Evicted
  /\ exposed' = exposed \cup {e \in Envelopes : Contains(cache, e) /\ ~Contains(cache', e)}
  /\ thread' = [thread EXCEPT ![t] = IF cache = <<>> THEN Idle ELSE At("credential", thread[t].env)]
  /\ UNCHANGED <<status, accepted, newer, overlap>>

\* credential_for_auth and the signature.
CheckCredential(t) ==
  /\ Step(t, "credential")
  /\ accepted' = IF status \in Authenticating
                 THEN [accepted EXCEPT ![thread[t].env] = @ + 1]
                 ELSE accepted
  /\ thread' = [thread EXCEPT ![t] = Idle]
  /\ UNCHANGED <<cache, status, newer, exposed, overlap>>

\* The sender's credential moves through the rotation window.
Rotate ==
  /\ status' = CASE status = "VALIDATING" -> "ACTIVE"
                 [] status = "ACTIVE"     -> "FALLBACK"
                 [] OTHER                 -> "TERMINATED"
  /\ status # "TERMINATED"
  /\ UNCHANGED <<stamp, arrivals, cache, thread, accepted, newer, exposed, overlap, restarts, now>>

\* A new process has an empty cache; the one that stopped answers nothing more.
Restart ==
  /\ restarts < MaxRestarts
  /\ restarts' = restarts + 1
  /\ cache' = <<>>
  /\ thread' = [t \in Threads |-> Idle]
  /\ exposed' = exposed \cup {e \in Envelopes : Contains(cache, e)}
  /\ newer' = [e \in Envelopes |-> Envelopes] /\ overlap' = 0
  /\ UNCHANGED <<stamp, arrivals, status, accepted, now>>

Tick == /\ now < MaxTime
        /\ now' = now + 1
        /\ UNCHANGED <<stamp, arrivals, cache, thread, status, accepted, newer, exposed, overlap, restarts>>

Next == \/ \E e \in Envelopes : SignEnvelope(e) \/ \E t \in Threads : Arrive(t, e)
        \/ \E t \in Threads : \/ Lookup(t) \/ Touch(t) \/ Record(t) \/ TestSize(t)
                              \/ Evict(t) \/ CheckCredential(t)
        \/ Rotate \/ Restart \/ Tick

Spec == Init /\ [][Next]_vars

-------------------------------------------------------------------------------

TypeOK == /\ stamp \in [Envelopes -> 0 .. MaxTime + 1]
          /\ arrivals \in [Envelopes -> 0 .. MaxArrivals]
          /\ cache \in Seq(Envelopes)
          /\ Len(cache) <= MaxEntries + Cardinality({t \in Threads : thread[t].step \in {"evict", "pop"}})
          /\ thread \in [Threads -> {Idle} \cup [step : Steps, env : Envelopes]]
          /\ status \in Statuses /\ exposed \subseteq Envelopes
          /\ accepted \in [Envelopes -> 0 .. MaxArrivals]
          /\ newer \in [Envelopes -> SUBSET Envelopes] /\ now \in 1 .. MaxTime
          /\ restarts \in 0 .. MaxRestarts /\ overlap \in 0 .. Cardinality(Threads)

\* No envelope is accepted a second time: the receiver rejects "previously
\* accepted nonces" (replay.py:4-5).  Three things make an exception: the cache
\* was full and dropped the key, it was dropped with its process, or two threads
\* tested for the key before either had recorded it.
AcceptedOnce == \A e \in Envelopes \ exposed : accepted[e] <= 1

\* The cache forgets a key only after max_entries others were met since it was
\* last put at its end, less one for each thread that was about to remove a key
\* when another found the cache full: that is all that test and popitem without
\* a lock (replay.py:30-31) cost, however old a test is when its thread pops.  A
\* key met again is as good as a new one.
LastSeenKept ==
  \A e \in Envelopes :
    (e \notin newer[e] /\ Cardinality(newer[e]) + overlap < MaxEntries) => Contains(cache, e)
==============================================================================
