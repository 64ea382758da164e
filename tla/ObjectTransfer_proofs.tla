------------------------- MODULE ObjectTransfer_proofs -------------------------
(***************************************************************************)
(* Theorems about ObjectTransfer, for every set of connections and of      *)
(* readers, every size and every bound.                                    *)
(***************************************************************************)
EXTENDS ObjectTransfer, FiniteSetTheorems, SequenceTheorems, TLAPS

Requests == [Sessions -> Chunks]
Replies  == [Sessions -> Seq(BOOLEAN)]
Work     == [job : Jobs, chunk : 0 .. Size, read : Chunks]
Fetching == [pc : {"idle", "chunks", "done", "failed"}, sum : SUBSET Chunks, data : Chunks]

-------------------------------------------------------------------------------
\* What the pieces of the actions do.

LEMMA ReplyEffect ==
  ASSUME TypeOK, NEW s \in Sessions, NEW ok \in BOOLEAN, Reply(s, ok)
  PROVE  /\ thread' \in [Sessions -> Work] /\ thread'[s] = AtRest
         /\ \A t \in Sessions \ {s} : thread'[t] = thread[t]
         /\ outbox' \in Replies
         /\ outbox'[s] = IF client[s] = "gone" THEN outbox[s] ELSE Append(outbox[s], ok)
         /\ \A t \in Sessions \ {s} : outbox'[t] = outbox[t]
<1>1. AtRest \in Work
  BY TransferAssumption, EmptySeq DEF AtRest, Jobs, Chunks, Work
<1>2. thread \in [Sessions -> Work] /\ outbox \in Replies
  BY DEF TypeOK, Work, Replies
<1>3. outbox[s] \in Seq(BOOLEAN) /\ Append(outbox[s], ok) \in Seq(BOOLEAN)
  BY <1>2, AppendProperties DEF Replies
<1> QED BY <1>1, <1>2, <1>3 DEF Reply, Replies

LEMMA ProceedEffect ==
  ASSUME TypeOK, NEW s \in Sessions, NEW j \in Jobs, Proceed(s, j)
  PROVE  /\ thread' \in [Sessions -> Work]
         /\ thread'[s].job = j /\ thread'[s].chunk = thread[s].chunk
         /\ thread'[s].read = thread[s].read
         /\ \A t \in Sessions \ {s} : thread'[t] = thread[t]
         /\ outbox' = outbox
<1>1. thread \in [Sessions -> Work]
  BY DEF TypeOK, Work
<1>2. thread' = [thread EXCEPT ![s] = [thread[s] EXCEPT !.job = j]]
  BY DEF Proceed
<1>3. [thread[s] EXCEPT !.job = j] \in Work
  BY <1>1 DEF Work
<1> QED BY <1>1, <1>2, <1>3 DEF Proceed, Work

\* The thread takes up a chunk ...
LEMMA TakeChunkEffect ==
  ASSUME TypeOK, NEW s \in Sessions, NEW i \in 0 .. Size,
         thread' = [thread EXCEPT ![s].job = "append", ![s].chunk = i]
  PROVE  /\ thread' \in [Sessions -> Work]
         /\ thread'[s].job = "append" /\ thread'[s].chunk = i /\ thread'[s].read = thread[s].read
         /\ \A t \in Sessions \ {s} : thread'[t] = thread[t]
<1>1. thread \in [Sessions -> Work]
  BY DEF TypeOK, Work
<1>2. thread' = [thread EXCEPT ![s] = [thread[s] EXCEPT !.job = "append", !.chunk = i]]
  OBVIOUS
<1>3. ASSUME NEW h \in Work
      PROVE  /\ [h EXCEPT !.job = "append", !.chunk = i] \in Work
             /\ [h EXCEPT !.job = "append", !.chunk = i].job = "append"
             /\ [h EXCEPT !.job = "append", !.chunk = i].chunk = i
             /\ [h EXCEPT !.job = "append", !.chunk = i].read = h.read
  BY DEF Work, Jobs
<1> DEFINE new == [thread[s] EXCEPT !.job = "append", !.chunk = i]
<1>4. /\ new \in Work /\ new.job = "append" /\ new.chunk = i /\ new.read = thread[s].read
      /\ thread' = [thread EXCEPT ![s] = new]
  BY <1>1, <1>2, <1>3
<1> HIDE DEF new
<1> QED BY <1>1, <1>4

\* ... or the digest of the file.
LEMMA TakeDigestEffect ==
  ASSUME TypeOK, NEW s \in Sessions,
         thread' = [thread EXCEPT ![s].job = "compare", ![s].read = file]
  PROVE  /\ thread' \in [Sessions -> Work]
         /\ thread'[s].job = "compare" /\ thread'[s].read = file
         /\ thread'[s].chunk = thread[s].chunk
         /\ \A t \in Sessions \ {s} : thread'[t] = thread[t]
<1>1. thread \in [Sessions -> Work] /\ file \in Chunks
  BY DEF TypeOK, Work
<1>2. thread' = [thread EXCEPT ![s] = [thread[s] EXCEPT !.job = "compare", !.read = file]]
  OBVIOUS
<1>3. ASSUME NEW h \in Work, NEW f \in Chunks
      PROVE  /\ [h EXCEPT !.job = "compare", !.read = f] \in Work
             /\ [h EXCEPT !.job = "compare", !.read = f].job = "compare"
             /\ [h EXCEPT !.job = "compare", !.read = f].read = f
             /\ [h EXCEPT !.job = "compare", !.read = f].chunk = h.chunk
  BY DEF Work, Jobs
<1> DEFINE new == [thread[s] EXCEPT !.job = "compare", !.read = file]
<1>4. /\ new \in Work /\ new.job = "compare" /\ new.read = file /\ new.chunk = thread[s].chunk
      /\ thread' = [thread EXCEPT ![s] = new]
  BY <1>1, <1>2, <1>3
<1> HIDE DEF new
<1> QED BY <1>1, <1>4

\* The frames of a connection: one is sent, one is taken.
LEMMA SendEffect ==
  ASSUME TypeOK, NEW s \in Sessions, NEW i \in 0 .. Size, Send(s, i)
  PROVE  /\ inbox' \in Requests /\ inbox'[s] = Append(inbox[s], i)
         /\ next' \in [Sessions -> 0 .. Size] /\ next'[s] = i
         /\ \A t \in Sessions \ {s} : inbox'[t] = inbox[t] /\ next'[t] = next[t]
<1>1. inbox[s] \in Seq(0 .. Size) /\ Append(inbox[s], i) \in Seq(0 .. Size)
  BY AppendProperties DEF TypeOK, Chunks
<1>2. inbox \in Requests /\ next \in [Sessions -> 0 .. Size]
  BY DEF TypeOK, Requests
<1> QED BY <1>1, <1>2 DEF Send, Requests, Chunks

LEMMA ReceiveEffect ==
  ASSUME TypeOK, NEW s \in Sessions, Receive(s)
  PROVE  /\ client[s] = "waiting" /\ outbox[s] # <<>> /\ Head(outbox[s]) \in BOOLEAN
         /\ outbox' \in Replies /\ outbox'[s] = Tail(outbox[s])
         /\ \A t \in Sessions \ {s} : outbox'[t] = outbox[t]
         /\ \/ Head(outbox[s]) /\ next[s] < Size /\ Send(s, next[s] + 1) /\ client' = client
            \/ /\ Head(outbox[s]) /\ next[s] >= Size
               /\ client' = [client EXCEPT ![s] = "done"] /\ UNCHANGED <<next, inbox>>
            \/ /\ ~Head(outbox[s])
               /\ client' = [client EXCEPT ![s] = "failed"] /\ UNCHANGED <<next, inbox>>
         /\ UNCHANGED <<row, file, thread, reader, allowed, late, policies, attempts, timeouts>>
<1>1. outbox[s] # <<>> /\ outbox[s] \in Seq(BOOLEAN) /\ outbox \in Replies
  BY DEF Receive, TypeOK, Replies
<1>2. Head(outbox[s]) \in BOOLEAN /\ Tail(outbox[s]) \in Seq(BOOLEAN)
  BY <1>1, HeadTailProperties
<1>3. outbox' = [outbox EXCEPT ![s] = Tail(outbox[s])]
  BY DEF Receive
<1>4. outbox' \in Replies /\ outbox'[s] = Tail(outbox[s])
      /\ \A t \in Sessions \ {s} : outbox'[t] = outbox[t]
  BY <1>1, <1>2, <1>3 DEF Replies
<1> QED BY <1>1, <1>2, <1>4 DEF Receive, stored, grants

LEMMA TakeRequestEffect ==
  ASSUME TypeOK, NEW s \in Sessions, TakeRequest(s)
  PROVE  /\ thread[s].job = "idle" /\ inbox[s] # <<>> /\ Head(inbox[s]) \in 0 .. Size
         /\ inbox' \in Requests /\ inbox'[s] = Tail(inbox[s])
         /\ \A t \in Sessions \ {s} : inbox'[t] = inbox[t]
         /\ UNCHANGED <<row, file, client, next, reader, allowed, late, policies,
                        attempts, timeouts>>
<1>1. inbox[s] # <<>> /\ inbox[s] \in Seq(0 .. Size) /\ inbox \in Requests
  BY DEF TakeRequest, TypeOK, Requests, Chunks
<1>2. Head(inbox[s]) \in 0 .. Size /\ Tail(inbox[s]) \in Chunks
  BY <1>1, HeadTailProperties DEF Chunks
<1>3. inbox' = [inbox EXCEPT ![s] = Tail(inbox[s])]
  BY DEF TakeRequest
<1> QED BY <1>1, <1>2, <1>3 DEF Requests, TakeRequest, stored, calls, grants

ServerWork(s) == Insert(s) \/ AppendChunk(s) \/ Measure(s) \/ Digest(s) \/ Compare(s) \/ Seal(s)

\* What a thread does between two requests.
LEMMA ServerWorkEffect ==
  ASSUME TypeOK, NEW s \in Sessions, ServerWork(s)
  PROVE  /\ UNCHANGED <<client, next, inbox, reader, allowed, policies, attempts, timeouts>>
         /\ thread' \in [Sessions -> Work] /\ outbox' \in Replies
         /\ \A t \in Sessions \ {s} : thread'[t] = thread[t] /\ outbox'[t] = outbox[t]
<1>1. UNCHANGED <<client, next, inbox, reader, allowed, policies, attempts, timeouts>>
  BY DEF ServerWork, Insert, AppendChunk, Measure, Digest, Compare, Seal, ServerStep, calls
<1>2. \/ \E ok \in BOOLEAN : Reply(s, ok)
      \/ \E j \in Jobs : Proceed(s, j)
      \/ thread' = [thread EXCEPT ![s].job = "compare", ![s].read = file] /\ outbox' = outbox
  <2>1. \A j \in {"ended", "measure", "digest", "seal"} : j \in Jobs
    BY DEF Jobs
  <2>2. CASE Insert(s)
    BY <2>1, <2>2 DEF Insert, Proceed
  <2>3. CASE AppendChunk(s)
    BY <2>1, <2>3 DEF AppendChunk
  <2>4. CASE Measure(s)
    BY <2>1, <2>4 DEF Measure
  <2>5. CASE Digest(s)
    BY <2>5 DEF Digest
  <2>6. CASE Compare(s)
    BY <2>1, <2>6 DEF Compare
  <2>7. CASE Seal(s)
    BY <2>7 DEF Seal
  <2> QED BY <2>2, <2>3, <2>4, <2>5, <2>6, <2>7 DEF ServerWork
<1>3. outbox \in Replies
  BY DEF TypeOK, Replies
<1> QED BY <1>1, <1>2, <1>3, ReplyEffect, ProceedEffect, TakeDigestEffect

\* A reader's step changes what it has fetched only.
LEMMA ReaderEffect ==
  ASSUME TypeOK, NEW r \in Readers, ReadInfo(r) \/ ReadChunk(r) \/ ReadDone(r)
  PROVE  /\ UNCHANGED <<row, file, client, next, inbox, outbox, thread, allowed, late, policies,
                        attempts, timeouts>>
         /\ reader' \in [Readers -> Fetching]
         /\ \A q \in Readers \ {r} : reader'[q] = reader[q]
<1>1. UNCHANGED <<row, file, client, next, inbox, outbox, thread, allowed, late, policies,
                  attempts, timeouts>>
  BY DEF ReadInfo, ReadChunk, ReadDone, ReaderStep, stored, calls, frames, grants
<1>2. reader \in [Readers -> Fetching] /\ reader[r] \in Fetching
  BY DEF TypeOK, Fetching
<1>3. \E new \in Fetching : reader' = [reader EXCEPT ![r] = new]
  <2>1. CASE ReadInfo(r)
    <3>1. [pc |-> "chunks", sum |-> row.sum, data |-> <<>>] \in Fetching
      BY EmptySeq DEF TypeOK, Fetching, Chunks
    <3> QED BY <2>1, <3>1 DEF ReadInfo, ReaderStep
  <2>2. CASE ReadChunk(r)
    <3> DEFINE i == Len(reader[r].data) + 1
    <3>1. reader[r].data \in Seq(0 .. Size) /\ file \in Seq(0 .. Size)
      BY <1>2 DEF TypeOK, Fetching, Chunks
    <3>2. ASSUME i <= Len(file) PROVE Append(reader[r].data, file[i]) \in Chunks
      <4>1. i \in 1 .. Len(file)
        BY <3>1, <3>2, LenProperties
      <4> QED BY <3>1, <4>1, ElementOfSeq, AppendProperties DEF Chunks
    <3>3. [reader[r] EXCEPT !.pc = "failed"] \in Fetching
      BY <1>2 DEF Fetching
    <3>4. ASSUME NEW f \in Chunks PROVE [reader[r] EXCEPT !.data = f] \in Fetching
      BY <1>2 DEF Fetching
    <3>5. \/ reader' = [reader EXCEPT ![r] = [reader[r] EXCEPT !.pc = "failed"]]
          \/ /\ i <= Len(file)
             /\ reader' = [reader EXCEPT ![r] =
                             [reader[r] EXCEPT !.data = Append(reader[r].data, file[i])]]
      BY <2>2 DEF ReadChunk, ReaderStep
    <3> QED BY <3>2, <3>3, <3>4, <3>5
  <2>3. CASE ReadDone(r)
    <3>1. \A p \in {"done", "failed"} : [reader[r] EXCEPT !.pc = p] \in Fetching
      BY <1>2 DEF Fetching
    <3> QED BY <2>3, <3>1 DEF ReadDone, ReaderStep
  <2> QED BY <2>1, <2>2, <2>3
<1> QED BY <1>1, <1>2, <1>3

-------------------------------------------------------------------------------
\* Every variable stays well formed.

LEMMA TypeStep == TypeOK /\ [Next]_vars => TypeOK'
<1> SUFFICES ASSUME TypeOK, [Next]_vars PROVE TypeOK'
  OBVIOUS
<1> DEFINE Frames == /\ client \in [Sessions -> Calls] /\ next \in [Sessions -> 0 .. Size]
                     /\ inbox \in Requests /\ outbox \in Replies /\ thread \in [Sessions -> Work]
           Object == /\ row \in [exists : BOOLEAN, sum : SUBSET Chunks]
                     /\ Cardinality(row.sum) <= 1 /\ file \in Chunks
           Others == /\ reader \in [Readers -> Fetching]
                     /\ allowed \subseteq Sessions \cup Readers /\ late \in [Sessions -> Nat]
                     /\ policies \in 0 .. MaxPolicies
                     /\ attempts \in 0 .. MaxAttempts /\ timeouts \in 0 .. MaxTimeouts
<1>0. TypeOK <=> Frames /\ Object /\ Others
  BY DEF TypeOK, Requests, Replies, Work, Fetching
<1>00. TypeOK' <=> (Frames /\ Object /\ Others)'
  BY DEF TypeOK, Requests, Replies, Work, Fetching
<1>1. ASSUME NEW s \in Sessions, Upload(s) PROVE TypeOK'
  <2>1. Send(s, 0) /\ 0 \in 0 .. Size
    BY <1>1, TransferAssumption DEF Upload
  <2>2. client' \in [Sessions -> Calls] /\ attempts' \in 0 .. MaxAttempts
    BY <1>0, <1>1, TransferAssumption DEF Upload, Calls
  <2> QED BY <1>0, <1>00, <1>1, <2>1, <2>2, SendEffect DEF Upload, stored, grants
<1>2. ASSUME NEW s \in Sessions, Receive(s) PROVE TypeOK'
  <2>1. CASE Send(s, next[s] + 1) /\ next[s] < Size /\ client' = client
    <3>1. next[s] + 1 \in 0 .. Size
      BY <1>0, <2>1, TransferAssumption
    <3> QED BY <1>0, <1>00, <1>2, <2>1, <3>1, SendEffect, ReceiveEffect
  <2>2. CASE client' \in [Sessions -> Calls] /\ UNCHANGED <<next, inbox>>
    BY <1>0, <1>00, <1>2, <2>2, ReceiveEffect
  <2>3. \/ Send(s, next[s] + 1) /\ next[s] < Size /\ client' = client
        \/ client' \in [Sessions -> Calls] /\ UNCHANGED <<next, inbox>>
    BY <1>0, <1>2, ReceiveEffect DEF Calls
  <2> QED BY <2>1, <2>2, <2>3
<1>3. ASSUME NEW s \in Sessions, TimeOut(s) PROVE TypeOK'
  <2>1. client' \in [Sessions -> Calls] /\ timeouts' \in 0 .. MaxTimeouts
    BY <1>0, <1>3, TransferAssumption DEF TimeOut, Calls
  <2> QED BY <1>0, <1>00, <1>3, <2>1 DEF TimeOut, stored, frames, grants
<1>4. ASSUME NEW s \in Sessions, Break(s) PROVE TypeOK'
  <2>1. client' \in [Sessions -> Calls] /\ outbox' \in Replies
    BY <1>0, <1>4, EmptySeq DEF Break, Calls, Replies
  <2> QED BY <1>0, <1>00, <1>4, <2>1 DEF Break, stored, grants
<1>5. ASSUME NEW s \in Sessions, TakeRequest(s) PROVE TypeOK'
  <2>1. /\ \/ Reply(s, FALSE)
           \/ Proceed(s, "insert")
           \/ thread' = [thread EXCEPT ![s].job = "append", ![s].chunk = Head(inbox[s])]
              /\ outbox' = outbox
        /\ "insert" \in Jobs
    BY <1>5 DEF TakeRequest, Jobs
  <2>2. outbox' \in Replies /\ thread' \in [Sessions -> Work]
    BY <1>0, <1>5, <2>1, ReplyEffect, ProceedEffect, TakeChunkEffect, TakeRequestEffect
  <2> QED BY <1>0, <1>00, <1>5, <2>2, TakeRequestEffect
<1>6. ASSUME NEW s \in Sessions, ServerWork(s) PROVE TypeOK'
  <2>1. late' \in [Sessions -> Nat]
    <3>1. Stored(s) => late' \in [Sessions -> Nat]
      BY <1>0 DEF Stored
    <3>2. Stored(s) \/ NothingStored
      BY <1>6 DEF ServerWork, Insert, AppendChunk, Measure, Digest, Compare, Seal
    <3> QED BY <1>0, <3>1, <3>2 DEF NothingStored
  <2>2. file' \in Chunks
    <3>1. CASE AppendChunk(s)
      <4>1. thread[s].chunk \in 0 .. Size
        BY <1>0 DEF Work
      <4> QED BY <1>0, <3>1, <4>1, AppendProperties DEF AppendChunk, Chunks
    <3>2. CASE UNCHANGED file
      BY <1>0, <3>2
    <3> QED BY <1>6, <3>1, <3>2 DEF ServerWork, Insert, Measure, Digest, Compare, Seal, stored
  <2>3. row' \in [exists : BOOLEAN, sum : SUBSET Chunks] /\ Cardinality(row'.sum) <= 1
    <3>1. CASE Seal(s)
      <4>1. thread[s].read \in Chunks /\ row' = [row EXCEPT !.sum = {thread[s].read}]
        BY <1>0, <3>1 DEF Seal, Work
      <4>2. row' \in [exists : BOOLEAN, sum : SUBSET Chunks] /\ row'.sum = {thread[s].read}
        BY <1>0, <4>1
      <4>3. Cardinality({thread[s].read}) = 1
        BY FS_Singleton
      <4> QED BY <4>2, <4>3
    <3>2. CASE row' = [exists |-> TRUE, sum |-> NoSum]
      BY <3>2, FS_EmptySet DEF NoSum
    <3>3. CASE UNCHANGED row
      BY <1>0, <3>3
    <3> QED BY <1>6, <3>1, <3>2, <3>3
            DEF ServerWork, Insert, AppendChunk, Measure, Digest, Compare, stored
  <2> QED BY <1>0, <1>00, <1>6, <2>1, <2>2, <2>3, ServerWorkEffect
<1>7. ASSUME NEW s \in Sessions, NoticeEnd(s) PROVE TypeOK'
  <2>1. client' \in [Sessions -> Calls]
    BY <1>0, <1>7 DEF NoticeEnd, Calls
  <2> QED BY <1>0, <1>00, <1>7, <2>1 DEF NoticeEnd, stored, frames, grants
<1>8. ASSUME NEW r \in Readers, ReadInfo(r) \/ ReadChunk(r) \/ ReadDone(r) PROVE TypeOK'
  BY <1>0, <1>00, <1>8, ReaderEffect
<1>9. ASSUME NEW c \in Sessions \cup Readers, SetPolicy(c) PROVE TypeOK'
  <2>1. /\ policies' \in 0 .. MaxPolicies /\ allowed' \subseteq Sessions \cup Readers
        /\ late' \in [Sessions -> Nat]
    BY <1>0, <1>9, TransferAssumption DEF SetPolicy
  <2> QED BY <1>0, <1>00, <1>9, <2>1 DEF SetPolicy, stored, calls, frames
<1>10. CASE UNCHANGED vars
  BY <1>0, <1>00, <1>10 DEF vars, stored, calls, frames, grants
<1> QED
  BY <1>1, <1>2, <1>3, <1>4, <1>5, <1>6, <1>7, <1>8, <1>9, <1>10 DEF Next, ServerWork

\* The row, the file, the frames and the threads are well formed.
THEOREM TransferTypeCorrect == Spec => []TypeOK
<1>1. Init => TypeOK
  <2> SUFFICES ASSUME Init PROVE TypeOK
    OBVIOUS
  <2>1. AtRest \in Work /\ NoRead \in Fetching /\ <<>> \in Chunks /\ <<>> \in Seq(BOOLEAN)
    BY TransferAssumption, EmptySeq DEF AtRest, NoRead, NoSum, Work, Fetching, Chunks, Jobs
  <2>2. row \in [exists : BOOLEAN, sum : SUBSET Chunks] /\ Cardinality(row.sum) <= 1
    BY FS_EmptySet DEF Init, NoSum
  <2> QED BY <2>1, <2>2, TransferAssumption DEF Init, TypeOK, Calls, Work, Fetching
<1> QED BY <1>1, TypeStep, PTL DEF Spec

-------------------------------------------------------------------------------
\* One connection alone puts chunks into the object: the one whose WRITE was
\* answered with yes.

Busy == {"append", "measure", "digest", "compare", "seal"}

Owns(s) == \/ \E i \in 1 .. Len(outbox[s]) : outbox[s][i] = TRUE
           \/ \E i \in 1 .. Len(inbox[s]) : inbox[s][i] > 0
           \/ thread[s].job \in Busy

OwnerInv ==
  /\ \A s, t \in Sessions : Owns(s) /\ Owns(t) => s = t
  /\ \A s \in Sessions :
       /\ Owns(s) => row.exists
       /\ thread[s].job \in Busy => row.sum = NoSum
       /\ thread[s].job \in {"compare", "seal"} => thread[s].read = file
       /\ thread[s].job = "seal" => Len(file) = Size
  /\ SealedIntact

\* The elements of what is left of a queue, and of what it becomes.
LEMMA TailElements ==
  ASSUME NEW S, NEW q \in Seq(S), q # <<>>
  PROVE  /\ 1 \in 1 .. Len(q) /\ Head(q) = q[1]
         /\ \A i \in 1 .. Len(Tail(q)) : i + 1 \in 1 .. Len(q) /\ Tail(q)[i] = q[i + 1]
<1>1. Len(q) \in Nat \ {0} /\ Len(Tail(q)) = Len(q) - 1
  BY EmptySeq, HeadTailProperties
<1> QED BY <1>1, HeadTailProperties

LEMMA AppendElements ==
  ASSUME NEW S, NEW q \in Seq(S), NEW e \in S
  PROVE  /\ Len(Append(q, e)) = Len(q) + 1 /\ Append(q, e)[Len(q) + 1] = e
         /\ \A i \in 1 .. Len(Append(q, e)) :
              (i \in 1 .. Len(q) /\ Append(q, e)[i] = q[i]) \/ Append(q, e)[i] = e
<1>1. Len(q) \in Nat
  BY LenProperties
<1> QED BY <1>1, AppendProperties

\* A reply to another question than whether the object can be created makes no
\* connection an owner.
LEMMA ReplyOwns ==
  ASSUME TypeOK, NEW s \in Sessions, NEW ok \in BOOLEAN, Reply(s, ok),
         \A t \in Sessions \ {s} : inbox'[t] = inbox[t],
         \A i \in 1 .. Len(inbox'[s]) : inbox'[s][i] > 0 =>
           \E k \in 1 .. Len(inbox[s]) : inbox[s][k] > 0
  PROVE  /\ \A t \in Sessions \ {s} : Owns(t)' = Owns(t)
         /\ Owns(s)' => Owns(s) \/ ok = TRUE
         /\ thread'[s].job = "idle"
<1>0. AtRest.job = "idle"
  BY DEF AtRest
<1>1. /\ thread'[s].job = "idle" /\ \A t \in Sessions \ {s} : thread'[t] = thread[t]
      /\ outbox'[s] = outbox[s] \/ outbox'[s] = Append(outbox[s], ok)
      /\ \A t \in Sessions \ {s} : outbox'[t] = outbox[t]
  BY <1>0, ReplyEffect
<1>2. \A t \in Sessions \ {s} : Owns(t)' = Owns(t)
  BY <1>1 DEF Owns
<1>3. ASSUME NEW i \in 1 .. Len(outbox'[s]), outbox'[s][i] = TRUE
      PROVE  ok = TRUE \/ \E k \in 1 .. Len(outbox[s]) : outbox[s][k] = TRUE
  <2>1. outbox[s] \in Seq(BOOLEAN)
    BY DEF TypeOK
  <2>2. \A k \in 1 .. Len(Append(outbox[s], ok)) :
          \/ k \in 1 .. Len(outbox[s]) /\ Append(outbox[s], ok)[k] = outbox[s][k]
          \/ Append(outbox[s], ok)[k] = ok
    BY <2>1, AppendElements
  <2> QED BY <1>1, <1>3, <2>2
<1>4. Owns(s)' => Owns(s) \/ ok = TRUE
  BY <1>1, <1>3 DEF Owns, Busy
<1> QED BY <1>1, <1>2, <1>4

\* A step that makes no connection an owner and stores nothing.
NoNewOwner == /\ UNCHANGED <<row, file>>
              /\ \A s \in Sessions :
                   /\ Owns(s)' => Owns(s)
                   /\ thread'[s].job \in Busy =>
                        thread'[s].job = thread[s].job /\ thread'[s].read = thread[s].read

LEMMA NoNewOwnerKeeps == OwnerInv /\ NoNewOwner => OwnerInv'
<1> SUFFICES ASSUME OwnerInv, NoNewOwner PROVE OwnerInv'
  OBVIOUS
<1>1. \A s, t \in Sessions : Owns(s)' /\ Owns(t)' => s = t
  BY DEF OwnerInv, NoNewOwner
<1>2. ASSUME NEW s \in Sessions
      PROVE  /\ Owns(s)' => row'.exists
             /\ thread'[s].job \in Busy => row'.sum = NoSum
             /\ thread'[s].job \in {"compare", "seal"} => thread'[s].read = file'
             /\ thread'[s].job = "seal" => Len(file') = Size
  BY DEF OwnerInv, NoNewOwner, Busy
<1>3. SealedIntact'
  BY DEF OwnerInv, NoNewOwner, SealedIntact
<1> QED BY <1>1, <1>2, <1>3 DEF OwnerInv

\* A step of the owner's thread makes no other connection an owner.
LEMMA OwnerWorks ==
  ASSUME OwnerInv, NEW s \in Sessions, Owns(s),
         \A t \in Sessions \ {s} : Owns(t)' = Owns(t) /\ thread'[t] = thread[t],
         row'.exists = row.exists,
         thread'[s].job \in Busy => row'.sum = NoSum,
         thread'[s].job \in {"compare", "seal"} => thread'[s].read = file',
         thread'[s].job = "seal" => Len(file') = Size,
         SealedIntact'
  PROVE  OwnerInv'
<1>1. \A t \in Sessions : Owns(t)' => t = s
  BY DEF OwnerInv
<1>2. \A t \in Sessions \ {s} : ~Owns(t) /\ thread'[t].job \notin Busy
  BY DEF OwnerInv, Owns
<1> QED BY <1>1, <1>2 DEF OwnerInv, Busy

LEMMA ServerWorkOwns ==
  ASSUME TypeOK, OwnerInv, NEW s \in Sessions, ServerWork(s)
  PROVE  OwnerInv'
<1>0. /\ UNCHANGED <<client, next, inbox>>
      /\ \A t \in Sessions \ {s} : thread'[t] = thread[t] /\ outbox'[t] = outbox[t]
  BY ServerWorkEffect
<1>1. \A t \in Sessions \ {s} : Owns(t)' = Owns(t)
  BY <1>0 DEF Owns
<1>2. \A j \in {"ended", "measure", "digest", "seal"} : j \in Jobs
  BY DEF Jobs
<1>3. CASE Insert(s)
  <2>1. CASE row.exists
    <3>1. Proceed(s, "ended") /\ UNCHANGED <<row, file>>
      BY <1>3, <2>1 DEF Insert, RowExists, Proceed
    <3>2. thread'[s].job = "ended" /\ outbox' = outbox
      BY <1>2, <3>1, ProceedEffect
    <3>3. Owns(s)' => Owns(s)
      BY <1>0, <3>2 DEF Owns, Busy
    <3> QED BY <1>0, <1>1, <3>1, <3>2, <3>3, NoNewOwnerKeeps DEF NoNewOwner, Busy
  <2>2. CASE ~row.exists
    <3>1. Reply(s, TRUE) /\ row' = [exists |-> TRUE, sum |-> NoSum] /\ UNCHANGED file
      BY <1>3, <2>2 DEF Insert, RowExists
    <3>2. thread'[s].job = "idle"
      BY <1>0, <3>1, ReplyOwns
    <3>3. \A t \in Sessions : ~Owns(t)
      BY <2>2 DEF OwnerInv
    <3>4. \A t \in Sessions \ {s} : thread[t].job \notin Busy
      BY <3>3 DEF Owns
    <3> QED BY <1>0, <1>1, <3>1, <3>2, <3>3, <3>4 DEF OwnerInv, SealedIntact, Busy
  <2> QED BY <2>1, <2>2 DEF TypeOK
<1>4. CASE AppendChunk(s)
  <2>1. Owns(s) /\ row.sum = NoSum /\ row' = row
    BY <1>4 DEF AppendChunk, ServerStep, Owns, Busy, OwnerInv
  <2>2. thread'[s].job = "measure"
    BY <1>2, <1>4, ProceedEffect DEF AppendChunk
  <2> QED BY <1>0, <1>1, <2>1, <2>2, OwnerWorks DEF SealedIntact
<1>5. CASE Measure(s)
  <2>1. Owns(s) /\ row.sum = NoSum /\ UNCHANGED <<row, file>>
    BY <1>5 DEF Measure, ServerStep, Owns, Busy, OwnerInv, stored
  <2>2. thread'[s].job \in {"digest", "idle"}
    BY <1>0, <1>2, <1>5, ProceedEffect, ReplyOwns DEF Measure
  <2> QED BY <1>0, <1>1, <2>1, <2>2, OwnerWorks DEF SealedIntact
<1>6. CASE Digest(s)
  <2>1. Owns(s) /\ row.sum = NoSum /\ UNCHANGED <<row, file>>
    BY <1>6 DEF Digest, ServerStep, Owns, Busy, OwnerInv, stored
  <2>2. thread'[s].job = "compare" /\ thread'[s].read = file
    BY <1>6, <2>1, TakeDigestEffect DEF Digest, Finalized
  <2> QED BY <1>0, <1>1, <2>1, <2>2, OwnerWorks DEF SealedIntact
<1>7. CASE Compare(s)
  <2>1. Owns(s) /\ row.sum = NoSum /\ UNCHANGED <<row, file>> /\ thread[s].read = file
    BY <1>7 DEF Compare, ServerStep, Owns, Busy, OwnerInv, stored
  <2>2. \/ thread'[s].job = "idle"
        \/ thread'[s].job = "seal" /\ thread'[s].read = thread[s].read /\ Len(file) = Size
    BY <1>0, <1>2, <1>7, ProceedEffect, ReplyOwns DEF Compare
  <2> QED BY <1>0, <1>1, <2>1, <2>2, OwnerWorks DEF SealedIntact, Busy
<1>8. CASE Seal(s)
  <2>1. /\ Owns(s) /\ thread[s].read = file /\ Len(file) = Size /\ file' = file
        /\ row' = [row EXCEPT !.sum = {thread[s].read}]
    BY <1>8 DEF Seal, ServerStep, Owns, Busy, OwnerInv
  <2>2. row'.exists = row.exists /\ row'.sum = {file}
    BY <2>1 DEF TypeOK
  <2>3. thread'[s].job = "idle"
    BY <1>0, <1>8, ReplyOwns DEF Seal
  <2> QED BY <1>0, <1>1, <2>1, <2>2, <2>3, OwnerWorks DEF SealedIntact, Busy
<1> QED BY <1>3, <1>4, <1>5, <1>6, <1>7, <1>8 DEF ServerWork

LEMMA TakeRequestOwns ==
  ASSUME TypeOK, OwnerInv, NEW s \in Sessions, TakeRequest(s)
  PROVE  OwnerInv'
<1>0. /\ thread[s].job = "idle" /\ inbox[s] # <<>>
      /\ inbox'[s] = Tail(inbox[s]) /\ Head(inbox[s]) \in 0 .. Size
      /\ \A t \in Sessions \ {s} : inbox'[t] = inbox[t]
      /\ UNCHANGED <<row, file>>
  BY TakeRequestEffect
<1>1. inbox[s] \in Seq(0 .. Size)
  BY DEF TypeOK, Chunks
<1>2. \A i \in 1 .. Len(inbox'[s]) : inbox'[s][i] > 0 => \E k \in 1 .. Len(inbox[s]) : inbox[s][k] > 0
  BY <1>0, <1>1, TailElements
<1>3. CASE Reply(s, FALSE)
  BY <1>0, <1>2, <1>3, NoNewOwnerKeeps, ReplyOwns, ReplyEffect DEF NoNewOwner, Busy
<1>4. CASE Proceed(s, "insert")
  <2>1. /\ thread'[s].job = "insert" /\ outbox' = outbox
        /\ \A t \in Sessions \ {s} : thread'[t] = thread[t]
    BY <1>4, ProceedEffect DEF Jobs
  <2>2. \A t \in Sessions : Owns(t)' => Owns(t)
    BY <1>0, <1>2, <2>1 DEF Owns, Busy
  <2> QED BY <1>0, <2>1, <2>2, NoNewOwnerKeeps DEF NoNewOwner, Busy
<1>5. CASE /\ Head(inbox[s]) > 0 /\ row.exists /\ ~Finalized
           /\ thread' = [thread EXCEPT ![s].job = "append", ![s].chunk = Head(inbox[s])]
           /\ UNCHANGED outbox
  <2>1. /\ thread'[s].job = "append" /\ outbox' = outbox
        /\ \A t \in Sessions \ {s} : thread'[t] = thread[t]
    BY <1>0, <1>5, TakeChunkEffect
  <2>2. Owns(s)
    BY <1>0, <1>1, <1>5, TailElements DEF Owns
  <2>3. \A t \in Sessions \ {s} : Owns(t)' = Owns(t)
    BY <1>0, <2>1 DEF Owns
  <2>4. row.sum = NoSum /\ SealedIntact'
    BY <1>0, <1>5 DEF Finalized, OwnerInv, SealedIntact
  <2> QED BY <1>0, <2>1, <2>2, <2>3, <2>4, OwnerWorks
<1> QED BY <1>3, <1>4, <1>5 DEF TakeRequest

LEMMA OwnerStep == TypeOK /\ OwnerInv /\ [Next]_vars => OwnerInv'
<1> SUFFICES ASSUME TypeOK, OwnerInv, [Next]_vars PROVE OwnerInv'
  OBVIOUS
<1>0. \A s \in Sessions : inbox[s] \in Seq(0 .. Size) /\ outbox[s] \in Seq(BOOLEAN)
  BY DEF TypeOK, Chunks
<1>1. ASSUME NEW s \in Sessions, Upload(s) PROVE OwnerInv'
  <2>1. /\ inbox'[s] = Append(inbox[s], 0)
        /\ \A t \in Sessions \ {s} : inbox'[t] = inbox[t]
        /\ UNCHANGED <<row, file, outbox, thread>>
    BY <1>1, SendEffect, TransferAssumption DEF Upload, stored
  <2>2. ASSUME NEW i \in 1 .. Len(inbox'[s]), inbox'[s][i] > 0
        PROVE  \E k \in 1 .. Len(inbox[s]) : inbox[s][k] > 0
    <3>1. \/ i \in 1 .. Len(inbox[s]) /\ inbox'[s][i] = inbox[s][i]
          \/ inbox'[s][i] = 0
      BY <1>0, <2>1, AppendElements, TransferAssumption
    <3> QED BY <2>2, <3>1
  <2>3. \A t \in Sessions : Owns(t)' => Owns(t)
    BY <2>1, <2>2 DEF Owns
  <2> QED BY <2>1, <2>3, NoNewOwnerKeeps DEF NoNewOwner
<1>2. ASSUME NEW s \in Sessions, Receive(s) PROVE OwnerInv'
  <2>1. /\ outbox[s] # <<>> /\ outbox'[s] = Tail(outbox[s])
        /\ \A t \in Sessions \ {s} : outbox'[t] = outbox[t]
        /\ UNCHANGED <<row, file, thread>>
        /\ inbox' = inbox \/ (Head(outbox[s]) = TRUE /\ next[s] < Size /\ Send(s, next[s] + 1))
    BY <1>2, ReceiveEffect
  <2>2. \A t \in Sessions \ {s} : inbox'[t] = inbox[t]
    BY <2>1 DEF Send, TypeOK
  <2>3. ASSUME NEW i \in 1 .. Len(outbox'[s]), outbox'[s][i] = TRUE
        PROVE  \E k \in 1 .. Len(outbox[s]) : outbox[s][k] = TRUE
    <3>1. /\ i + 1 \in 1 .. Len(outbox[s])
          /\ Tail(outbox[s])[i] = outbox[s][i + 1]
      BY <1>0, <2>1, TailElements
    <3> QED BY <2>1, <2>3, <3>1
  <2>4. Head(outbox[s]) = TRUE => Owns(s)
    BY <1>0, <2>1, TailElements DEF Owns
  <2>5. \A t \in Sessions : Owns(t)' => Owns(t)
    BY <2>1, <2>2, <2>3, <2>4 DEF Owns
  <2> QED BY <2>1, <2>5, NoNewOwnerKeeps DEF NoNewOwner
<1>3. ASSUME NEW s \in Sessions, TimeOut(s) PROVE OwnerInv'
  BY <1>3, NoNewOwnerKeeps DEF TimeOut, NoNewOwner, stored, frames, Owns
<1>4. ASSUME NEW s \in Sessions, Break(s) PROVE OwnerInv'
  <2>1. /\ UNCHANGED <<row, file, inbox, thread>> /\ outbox'[s] = <<>>
        /\ \A t \in Sessions \ {s} : outbox'[t] = outbox[t]
    BY <1>4 DEF Break, stored, TypeOK
  <2>2. Len(outbox'[s]) = 0
    BY <2>1, EmptySeq
  <2>3. \A t \in Sessions : Owns(t)' => Owns(t)
    BY <2>1, <2>2 DEF Owns
  <2> QED BY <2>1, <2>3, NoNewOwnerKeeps DEF NoNewOwner
<1>5. ASSUME NEW s \in Sessions, TakeRequest(s) PROVE OwnerInv'
  BY <1>5, TakeRequestOwns
<1>6. ASSUME NEW s \in Sessions, ServerWork(s) PROVE OwnerInv'
  BY <1>6, ServerWorkOwns
<1>7. ASSUME NEW s \in Sessions, NoticeEnd(s) PROVE OwnerInv'
  BY <1>7, NoNewOwnerKeeps DEF NoticeEnd, NoNewOwner, stored, frames, Owns
<1>8. ASSUME NEW r \in Readers, ReadInfo(r) \/ ReadChunk(r) \/ ReadDone(r) PROVE OwnerInv'
  BY <1>8, ReaderEffect, NoNewOwnerKeeps DEF NoNewOwner, Owns
<1>9. ASSUME NEW c \in Sessions \cup Readers, SetPolicy(c) PROVE OwnerInv'
  BY <1>9, NoNewOwnerKeeps DEF SetPolicy, NoNewOwner, stored, frames, Owns
<1>10. CASE UNCHANGED vars
  BY <1>10, NoNewOwnerKeeps DEF vars, NoNewOwner, stored, frames, Owns
<1> QED
  BY <1>1, <1>2, <1>3, <1>4, <1>5, <1>6, <1>7, <1>8, <1>9, <1>10 DEF Next, ServerWork

LEMMA OwnerCorrect == Spec => [](TypeOK /\ OwnerInv)
<1>1. Init => OwnerInv
  <2> SUFFICES ASSUME Init PROVE OwnerInv
    OBVIOUS
  <2>1. \A s \in Sessions : thread[s].job = "idle" /\ Len(inbox[s]) = 0 /\ Len(outbox[s]) = 0
    BY EmptySeq DEF Init, AtRest
  <2>2. \A s \in Sessions : ~Owns(s)
    BY <2>1 DEF Owns, Busy
  <2> QED BY <2>1, <2>2 DEF Init, OwnerInv, SealedIntact, Busy
<1> QED BY <1>1, TransferTypeCorrect, OwnerStep, PTL DEF Spec

\* What a finalized object's digest was taken of stays its content, whatever
\* frames and abandoned calls still arrive (objects.py:102-152).
THEOREM SealedStaysIntact == Spec => []SealedIntact
<1>1. OwnerInv => SealedIntact
  BY DEF OwnerInv
<1> QED BY <1>1, OwnerCorrect, PTL

-------------------------------------------------------------------------------
\* A connection stores nothing for want of a permission but what was checked
\* before.

LateInv ==
  \A s \in Sessions :
    /\ late[s] \in {0, 1}
    /\ s \in allowed \/ thread[s].job \in {"insert", "append"} => late[s] = 0

\* A step that stores nothing and takes no request.
LEMMA NothingStoredKeeps ==
  ASSUME LateInv, UNCHANGED <<late, allowed>>,
         \A s \in Sessions : thread'[s].job \in {"insert", "append"} =>
                               thread'[s].job = thread[s].job \/ s \in allowed
  PROVE  LateInv'
BY DEF LateInv

LEMMA LateStep == TypeOK /\ LateInv /\ [Next]_vars => LateInv'
<1> SUFFICES ASSUME TypeOK, LateInv, [Next]_vars PROVE LateInv'
  OBVIOUS
<1>1. ASSUME NEW s \in Sessions, TakeRequest(s) PROVE LateInv'
  <2>1. UNCHANGED <<late, allowed>>
    BY <1>1, TakeRequestEffect
  <2>2. CASE Reply(s, FALSE)
    <3>1. thread'[s] = AtRest /\ \A t \in Sessions \ {s} : thread'[t] = thread[t]
      BY <2>2, ReplyEffect
    <3>2. thread'[s].job = "idle"
      BY <3>1 DEF AtRest
    <3> QED BY <2>1, <3>1, <3>2, NothingStoredKeeps
  <2>3. CASE Permitted(s) /\ Proceed(s, "insert")
    <3>1. \A t \in Sessions \ {s} : thread'[t] = thread[t]
      <4>1. "insert" \in Jobs
        BY DEF Jobs
      <4> QED BY <2>3, <4>1, ProceedEffect
    <3> QED BY <2>1, <2>3, <3>1, NothingStoredKeeps DEF Permitted
  <2>4. CASE /\ Permitted(s)
             /\ thread' = [thread EXCEPT ![s].job = "append", ![s].chunk = Head(inbox[s])]
    <3>1. \A t \in Sessions \ {s} : thread'[t] = thread[t]
      BY <1>1, <2>4, TakeChunkEffect, TakeRequestEffect
    <3> QED BY <2>1, <2>4, <3>1, NothingStoredKeeps DEF Permitted
  <2> QED BY <1>1, <2>2, <2>3, <2>4 DEF TakeRequest
<1>2. ASSUME NEW s \in Sessions, ServerWork(s) PROVE LateInv'
  <2>1. allowed' = allowed /\ \A t \in Sessions \ {s} : thread'[t] = thread[t]
    BY <1>2, ServerWorkEffect
  <2>2. thread'[s].job \notin {"insert", "append"}
    <3>1. \A j \in {"ended", "measure", "digest", "seal"} : j \in Jobs
      BY DEF Jobs
    <3>2. \A ok \in BOOLEAN : Reply(s, ok) => thread'[s].job = "idle"
      BY ReplyEffect DEF AtRest
    <3>3. ~Digest(s) => \/ \E ok \in BOOLEAN : Reply(s, ok)
                        \/ \E j \in {"ended", "measure", "digest", "seal"} : Proceed(s, j)
      BY <1>2 DEF ServerWork, Insert, AppendChunk, Measure, Compare, Seal, Proceed
    <3>4. CASE Digest(s)
      BY <3>2, <3>4, TakeDigestEffect DEF Digest
    <3> QED BY <3>1, <3>2, <3>3, <3>4, ProceedEffect
  <2>3. CASE NothingStored
    BY <2>1, <2>2, <2>3 DEF LateInv, NothingStored
  <2>4. CASE Stored(s) /\ thread[s].job \in {"insert", "append"}
    <3>1. CASE s \in allowed
      BY <2>1, <2>2, <2>4, <3>1 DEF Stored, LateInv
    <3>2. CASE s \notin allowed
      <4>1. late'[s] = 1 /\ \A t \in Sessions \ {s} : late'[t] = late[t]
        BY <2>4, <3>2 DEF Stored, LateInv, TypeOK
      <4> QED BY <2>1, <2>2, <3>2, <4>1 DEF LateInv
    <3> QED BY <3>1, <3>2
  <2> QED BY <1>2, <2>3, <2>4
          DEF ServerWork, Insert, AppendChunk, Measure, Digest, Compare, Seal, ServerStep
<1>3. ASSUME NEW c \in Sessions \cup Readers, SetPolicy(c) PROVE LateInv'
  BY <1>3 DEF SetPolicy, LateInv
<1>4. ASSUME NEW s \in Sessions, Upload(s) \/ Receive(s) \/ TimeOut(s) \/ Break(s) \/ NoticeEnd(s)
      PROVE  LateInv'
  BY <1>4, NothingStoredKeeps DEF Upload, Receive, TimeOut, Break, NoticeEnd, grants
<1>5. ASSUME NEW r \in Readers, ReadInfo(r) \/ ReadChunk(r) \/ ReadDone(r) PROVE LateInv'
  BY <1>5, ReaderEffect, NothingStoredKeeps
<1>6. CASE UNCHANGED vars
  BY <1>6, NothingStoredKeeps DEF vars, grants
<1> QED BY <1>1, <1>2, <1>3, <1>4, <1>5, <1>6 DEF Next, ServerWork

\* A withdrawn permission lets at most the one request through that had been
\* checked before, in every order of the connections and the operator
\* (tunnel2.py:426 and 452).
THEOREM WithdrawalStops == Spec => []WithdrawnStops
<1>1. Init => LateInv
  BY DEF Init, LateInv
<1>2. LateInv => WithdrawnStops
  BY DEF LateInv, WithdrawnStops
<1> QED BY <1>1, <1>2, TransferTypeCorrect, LateStep, PTL DEF Spec

-------------------------------------------------------------------------------
\* The transfer implements the abstract object.  As long as no call has been given
\* up, a connection and its thread take turns: at most one request or answer is
\* under way, and it is about the chunk that the file wants next.

Quiet(s)    == Len(inbox[s]) = 0 /\ Len(outbox[s]) = 0
Resting(s)  == Quiet(s) /\ thread[s].job = "idle"
Served(s)   == Quiet(s) /\ thread[s].job # "idle"
Asked(s)    == /\ Len(inbox[s]) = 1 /\ inbox[s][1] = next[s]
               /\ Len(outbox[s]) = 0 /\ thread[s].job = "idle"
Answered(s) == Len(inbox[s]) = 0 /\ Len(outbox[s]) = 1 /\ thread[s].job = "idle"

Turns(s) == /\ client[s] = "waiting" => Asked(s) \/ Served(s) \/ Answered(s)
            /\ client[s] = "gone" => Asked(s) \/ Served(s) \/ Resting(s)
            /\ client[s] \notin {"waiting", "gone"} => Resting(s)

InPlace(s) ==
  /\ Asked(s) /\ next[s] > 0 => Len(file) = next[s] - 1
  /\ thread[s].job = "insert" => next[s] = 0
  /\ thread[s].job \in Busy => thread[s].chunk = next[s] /\ next[s] > 0
  /\ thread[s].job = "append" => Len(file) = next[s] - 1
  /\ thread[s].job \in Busy \ {"append"} => Len(file) = next[s]
  /\ thread[s].job \in {"digest", "compare", "seal"} => Len(file) = Size
  /\ Answered(s) /\ outbox[s][1] = TRUE =>
       Len(file) = next[s] /\ (next[s] = Size => row.sum # NoSum \/ Size = 0)

\* The file and what was fetched of it hold the chunks in their places.
Ordered(q) == Len(q) <= Size /\ \A i \in 1 .. Len(q) : q[i] = i

FetchedInOrder(r) ==
  reader[r].pc \in {"chunks", "done"} =>
    /\ row.exists /\ Ordered(reader[r].data)
    /\ reader[r].pc = "done" => Len(reader[r].data) = Size

Sync == /\ \A s \in Sessions : Turns(s) /\ InPlace(s)
        /\ ~row.exists => file = <<>> /\ row.sum = NoSum
        /\ Ordered(file)
        /\ \A r \in Readers : FetchedInOrder(r)

SyncInv == timeouts = 0 => Sync

\* A queue of at most one frame.
LEMMA OneFrame ==
  ASSUME NEW S, NEW q \in Seq(S)
  PROVE  /\ Len(q) \in Nat /\ (q = <<>> <=> Len(q) = 0)
         /\ Len(q) = 0 => \A e \in S : Len(Append(q, e)) = 1 /\ Append(q, e)[1] = e
         /\ Len(q) = 1 => q # <<>> /\ Head(q) = q[1] /\ Len(Tail(q)) = 0
<1>1. Len(q) \in Nat /\ (q = <<>> <=> Len(q) = 0)
  BY LenProperties, EmptySeq
<1>2. \A e \in S : Len(Append(q, e)) = Len(q) + 1 /\ Append(q, e)[Len(q) + 1] = e
  BY AppendProperties
<1>3. q # <<>> => Head(q) = q[1] /\ Len(Tail(q)) = Len(q) - 1
  BY HeadTailProperties
<1>4. Len(q) = 0 => \A e \in S : Len(Append(q, e)) = 1 /\ Append(q, e)[1] = e
  BY <1>2
<1>5. Len(q) = 1 => q # <<>> /\ Head(q) = q[1] /\ Len(Tail(q)) = 0
  <2> SUFFICES ASSUME Len(q) = 1 PROVE q # <<>> /\ Head(q) = q[1] /\ Len(Tail(q)) = 0
    OBVIOUS
  <2>1. q # <<>>
    BY <1>1
  <2> QED BY <1>3, <2>1
<1> QED BY <1>1, <1>4, <1>5, Zenon

\* A connection that a step leaves alone, by a thread of another connection.
LEMMA OthersKeep ==
  ASSUME NEW t \in Sessions, Turns(t), InPlace(t), TypeOK,
         client'[t] = client[t], next'[t] = next[t], inbox'[t] = inbox[t],
         outbox'[t] = outbox[t], thread'[t] = thread[t],
         Owns(t) => file' = file /\ (row.sum # NoSum => row'.sum # NoSum)
  PROVE  Turns(t)' /\ InPlace(t)'
<1>1. Turns(t)'
  BY DEF Turns, Asked, Served, Answered, Resting, Quiet
<1>2. (Asked(t)' <=> Asked(t)) /\ (Answered(t)' <=> Answered(t))
  BY DEF Asked, Answered
<1>3. Asked(t) /\ next[t] > 0 => Owns(t)
  BY DEF Asked, Owns
<1>4. Answered(t) /\ outbox[t][1] = TRUE => Owns(t)
  BY DEF Answered, Owns
<1>5. thread[t].job \in Busy => Owns(t)
  BY DEF Owns
<1>6. CASE Owns(t)
  BY <1>1, <1>2, <1>6 DEF InPlace, Busy, NoSum
<1>7. CASE ~Owns(t)
  BY <1>1, <1>2, <1>3, <1>4, <1>5, <1>7 DEF InPlace, Busy, NoSum
<1> QED BY <1>1, <1>6, <1>7

\* What the other connections and the readers need of a step of s.
SyncElsewhere ==
  /\ row.exists => row'.exists
  /\ ~row'.exists => file' = <<>> /\ row'.sum = NoSum
  /\ Ordered(file')
  /\ \A r \in Readers : reader'[r] = reader[r]

LEMMA SyncFrom ==
  ASSUME TypeOK, Sync, SyncElsewhere, NEW s \in Sessions, Turns(s)', InPlace(s)',
         \A t \in Sessions \ {s} :
            /\ client'[t] = client[t] /\ next'[t] = next[t] /\ inbox'[t] = inbox[t]
            /\ outbox'[t] = outbox[t] /\ thread'[t] = thread[t]
            /\ Owns(t) => file' = file /\ (row.sum # NoSum => row'.sum # NoSum)
  PROVE  Sync'
<1>1. \A t \in Sessions \ {s} : Turns(t)' /\ InPlace(t)'
  BY OthersKeep DEF Sync
<1>2. \A r \in Readers : FetchedInOrder(r)'
  BY DEF Sync, SyncElsewhere, FetchedInOrder, Ordered
<1>3. Ordered(file)'
  BY DEF SyncElsewhere, Ordered
<1> QED BY <1>1, <1>2, <1>3 DEF Sync, SyncElsewhere

\* A step of s that stores nothing.
LEMMA SyncQuietly ==
  ASSUME TypeOK, Sync, NEW s \in Sessions, Turns(s)', InPlace(s)',
         UNCHANGED <<row, file, reader>>,
         \A t \in Sessions \ {s} :
            /\ client'[t] = client[t] /\ next'[t] = next[t] /\ inbox'[t] = inbox[t]
            /\ outbox'[t] = outbox[t] /\ thread'[t] = thread[t]
  PROVE  Sync'
<1>1. SyncElsewhere
  BY DEF Sync, SyncElsewhere, Ordered
<1> QED BY <1>1, SyncFrom

\* What the client does.
LEMMA UploadSync ==
  ASSUME TypeOK, Sync, NEW s \in Sessions, Upload(s)
  PROVE  Sync'
<1>0. inbox[s] \in Seq(0 .. Size) /\ outbox[s] \in Seq(BOOLEAN) /\ 0 \in 0 .. Size
  BY TransferAssumption DEF TypeOK, Chunks
<1>1. /\ client[s] \in {"idle", "failed"} /\ client'[s] = "waiting"
      /\ \A t \in Sessions \ {s} : client'[t] = client[t]
      /\ UNCHANGED <<row, file, outbox, thread, reader>>
  BY DEF Upload, TypeOK, stored
<1>2. /\ inbox'[s] = Append(inbox[s], 0) /\ next'[s] = 0
      /\ \A t \in Sessions \ {s} : inbox'[t] = inbox[t] /\ next'[t] = next[t]
  BY <1>0, SendEffect DEF Upload
<1>3. Resting(s)
  BY <1>1 DEF Sync, Turns
<1>4. Len(inbox'[s]) = 1 /\ inbox'[s][1] = 0 /\ Len(outbox'[s]) = 0 /\ thread'[s].job = "idle"
  BY <1>0, <1>1, <1>2, <1>3, OneFrame DEF Resting, Quiet
<1>5. Turns(s)' /\ InPlace(s)'
  BY <1>1, <1>2, <1>4 DEF Turns, InPlace, Asked, Answered, Busy
<1> QED BY <1>1, <1>2, <1>5, SyncQuietly

LEMMA ReceiveSync ==
  ASSUME TypeOK, Sync, NEW s \in Sessions, Receive(s)
  PROVE  Sync'
<1>0. /\ inbox[s] \in Seq(0 .. Size) /\ outbox[s] \in Seq(BOOLEAN)
      /\ next[s] \in 0 .. Size /\ client \in [Sessions -> Calls]
  BY DEF TypeOK, Chunks
<1>1. /\ client[s] = "waiting" /\ outbox[s] # <<>> /\ outbox'[s] = Tail(outbox[s])
      /\ \A t \in Sessions \ {s} : outbox'[t] = outbox[t]
      /\ UNCHANGED <<row, file, thread, reader>>
  BY ReceiveEffect
<1>2. Answered(s)
  <2>1. Len(outbox[s]) # 0
    BY <1>0, <1>1, OneFrame
  <2> QED BY <1>1, <2>1 DEF Sync, Turns, Asked, Served, Quiet
<1>3. /\ Len(outbox'[s]) = 0 /\ Len(inbox[s]) = 0 /\ thread'[s].job = "idle"
      /\ Head(outbox[s]) = outbox[s][1]
  BY <1>0, <1>1, <1>2, OneFrame DEF Answered
<1>4. CASE outbox[s][1] = TRUE /\ next[s] < Size /\ Send(s, next[s] + 1) /\ client' = client
  <2>1. next[s] + 1 \in 0 .. Size
    BY <1>0, <1>4, TransferAssumption
  <2>2. /\ inbox'[s] = Append(inbox[s], next[s] + 1) /\ next'[s] = next[s] + 1
        /\ \A t \in Sessions \ {s} : inbox'[t] = inbox[t] /\ next'[t] = next[t]
    BY <1>4, <2>1, SendEffect
  <2>3. Len(inbox'[s]) = 1 /\ inbox'[s][1] = next'[s]
    BY <1>0, <1>3, <2>1, <2>2, OneFrame
  <2>5. Len(file') = next'[s] - 1
    BY <1>0, <1>1, <1>2, <1>4, <2>2 DEF Sync, InPlace
  <2>6. Turns(s)' /\ InPlace(s)'
    BY <1>1, <1>3, <1>4, <2>3, <2>5 DEF Turns, InPlace, Asked, Answered, Busy
  <2> QED BY <1>1, <1>4, <2>2, <2>6, SyncQuietly
<1>5. CASE \E c \in {"done", "failed"} :
             client' = [client EXCEPT ![s] = c] /\ UNCHANGED <<next, inbox>>
  <2>1. client'[s] \in {"done", "failed"} /\ \A t \in Sessions \ {s} : client'[t] = client[t]
    BY <1>0, <1>5
  <2>2. Turns(s)' /\ InPlace(s)'
    BY <1>3, <1>5, <2>1 DEF Turns, InPlace, Resting, Quiet, Asked, Answered, Busy
  <2> QED BY <1>1, <1>5, <2>1, <2>2, SyncQuietly
<1>6. Head(outbox[s]) \in BOOLEAN
  BY ReceiveEffect
<1> QED BY <1>3, <1>4, <1>5, <1>6, ReceiveEffect

\* The connection breaks, or its client reads an end of file: what the client
\* had asked is still served.
LEMMA GoneSync ==
  ASSUME TypeOK, Sync, NEW s \in Sessions, Break(s) \/ NoticeEnd(s)
  PROVE  Sync'
<1>0. inbox[s] \in Seq(0 .. Size) /\ outbox[s] \in Seq(BOOLEAN)
  BY DEF TypeOK, Chunks
<1>1. /\ client'[s] = "gone" /\ outbox'[s] = <<>> /\ Len(outbox'[s]) = 0
      /\ \A t \in Sessions \ {s} : client'[t] = client[t] /\ outbox'[t] = outbox[t]
      /\ UNCHANGED <<row, file, next, inbox, thread, reader>>
  BY EmptySeq DEF Break, NoticeEnd, TypeOK, stored, frames
<1>2. Turns(s)'
  BY <1>0, <1>1 DEF Sync, Turns, Resting, Served, Answered, Quiet, Asked
<1>3. Asked(s)' => Asked(s) \/ Answered(s)
  BY <1>1 DEF Asked, Answered, Sync, Turns, Resting, Served, Quiet
<1>4. Asked(s)' => Asked(s)
  BY <1>1, <1>3 DEF Asked, Answered
<1>5. InPlace(s)'
  BY <1>1, <1>4 DEF Sync, InPlace, Answered, Busy, NoSum
<1> QED BY <1>1, <1>2, <1>5, SyncQuietly

\* What the thread does: it answers ...
LEMMA ReplyTurns ==
  ASSUME TypeOK, NEW s \in Sessions, NEW ok \in BOOLEAN, Turns(s), Asked(s) \/ Served(s),
         Reply(s, ok), Len(inbox'[s]) = 0, client' = client
  PROVE  /\ Turns(s)' /\ thread'[s].job = "idle" /\ ~Asked(s)'
         /\ Answered(s)' => outbox'[s][1] = ok
<1>0. outbox[s] \in Seq(BOOLEAN)
  BY DEF TypeOK
<1>1. thread'[s] = AtRest
  BY ReplyEffect
<1>2. thread'[s].job = "idle"
  BY <1>1 DEF AtRest
<1>3. client[s] \in {"waiting", "gone"} /\ Len(outbox[s]) = 0
  BY <1>0, OneFrame DEF Turns, Asked, Served, Resting, Quiet
<1>4. CASE client[s] = "gone"
  <2>1. outbox'[s] = outbox[s]
    BY <1>4, ReplyEffect
  <2> QED BY <1>2, <1>3, <1>4, <2>1 DEF Turns, Asked, Answered, Resting, Quiet
<1>5. CASE client[s] = "waiting"
  <2>1. outbox'[s] = Append(outbox[s], ok)
    BY <1>5, ReplyEffect
  <2>2. Len(outbox'[s]) = 1 /\ outbox'[s][1] = ok
    BY <1>0, <1>3, <2>1, OneFrame
  <2> QED BY <1>2, <1>5, <2>2 DEF Turns, Asked, Answered
<1> QED BY <1>3, <1>4, <1>5

\* ... or it goes on.
LEMMA ProceedTurns ==
  ASSUME TypeOK, NEW s \in Sessions, Turns(s), Asked(s) \/ Served(s),
         thread'[s].job # "idle", outbox'[s] = outbox[s],
         Len(inbox'[s]) = 0, client' = client
  PROVE  Turns(s)' /\ ~Asked(s)' /\ ~Answered(s)'
<1>1. client[s] \in {"waiting", "gone"} /\ Len(outbox[s]) = 0
  BY DEF Turns, Asked, Served, Resting, Quiet
<1> QED BY <1>1 DEF Turns, Asked, Answered, Served, Quiet

LEMMA TakeRequestSync ==
  ASSUME TypeOK, Sync, OwnerInv, NEW s \in Sessions, TakeRequest(s)
  PROVE  Sync'
<1>0. inbox[s] \in Seq(0 .. Size) /\ outbox[s] \in Seq(BOOLEAN) /\ next[s] \in 0 .. Size
  BY DEF TypeOK, Chunks
<1>1. /\ thread[s].job = "idle" /\ inbox[s] # <<>> /\ inbox'[s] = Tail(inbox[s])
      /\ \A t \in Sessions \ {s} : inbox'[t] = inbox[t]
      /\ UNCHANGED <<row, file, client, next, reader>>
  BY TakeRequestEffect
<1>2. Turns(s) /\ Asked(s)
  <2>1. Len(inbox[s]) # 0
    BY <1>0, <1>1, OneFrame
  <2> QED BY <2>1 DEF Sync, Turns, Resting, Served, Answered, Quiet
<1>3. Len(inbox'[s]) = 0 /\ Head(inbox[s]) = next[s]
  BY <1>0, <1>1, <1>2, OneFrame DEF Asked
<1>4. CASE Reply(s, FALSE)
  <2>1. \A t \in Sessions \ {s} : thread'[t] = thread[t] /\ outbox'[t] = outbox[t]
    BY <1>4, ReplyEffect
  <2>2. Turns(s)' /\ thread'[s].job = "idle" /\ ~Asked(s)' /\ (Answered(s)' => outbox'[s][1] = FALSE)
    BY <1>1, <1>2, <1>3, <1>4, ReplyTurns
  <2>3. InPlace(s)'
    BY <2>2 DEF InPlace, Busy
  <2> QED BY <1>1, <2>1, <2>2, <2>3, SyncQuietly
<1>5. CASE Head(inbox[s]) = 0 /\ Proceed(s, "insert")
  <2>1. /\ thread'[s].job = "insert" /\ outbox' = outbox
        /\ \A t \in Sessions \ {s} : thread'[t] = thread[t]
    BY <1>5, ProceedEffect DEF Jobs
  <2>2. Turns(s)' /\ ~Asked(s)' /\ ~Answered(s)'
    BY <1>1, <1>2, <1>3, <2>1, ProceedTurns
  <2>3. InPlace(s)'
    BY <1>1, <1>3, <1>5, <2>1, <2>2 DEF InPlace, Busy
  <2> QED BY <1>1, <2>1, <2>2, <2>3, SyncQuietly
<1>6. CASE /\ Head(inbox[s]) > 0
           /\ thread' = [thread EXCEPT ![s].job = "append", ![s].chunk = Head(inbox[s])]
           /\ UNCHANGED outbox
  <2>1. /\ thread'[s].job = "append" /\ thread'[s].chunk = next[s] /\ outbox' = outbox
        /\ \A t \in Sessions \ {s} : thread'[t] = thread[t]
    BY <1>0, <1>3, <1>6, TakeChunkEffect
  <2>2. Turns(s)' /\ ~Asked(s)' /\ ~Answered(s)'
    BY <1>1, <1>2, <1>3, <2>1, ProceedTurns
  <2>3. Len(file) = next[s] - 1
    BY <1>2, <1>3, <1>6 DEF Sync, InPlace
  <2>4. InPlace(s)'
    BY <1>1, <1>3, <1>6, <2>1, <2>2, <2>3 DEF InPlace, Busy
  <2> QED BY <1>1, <2>1, <2>2, <2>4, SyncQuietly
<1> QED BY <1>4, <1>5, <1>6 DEF TakeRequest

\* The next chunk keeps the chunks in their places, and all of them in their
\* places are the content.
LEMMA OrderedAppend ==
  ASSUME NEW q \in Chunks, Ordered(q), NEW i \in 1 .. Size, Len(q) = i - 1
  PROVE  Ordered(Append(q, i)) /\ Len(Append(q, i)) = i
<1>1. q \in Seq(0 .. Size) /\ i \in 0 .. Size
  BY TransferAssumption DEF Chunks
<1>2. /\ Len(Append(q, i)) = i /\ Append(q, i)[i] = i
      /\ \A k \in 1 .. i - 1 : Append(q, i)[k] = q[k]
  BY <1>1, AppendProperties
<1> QED BY <1>2 DEF Ordered

LEMMA OrderedFull ==
  ASSUME NEW q \in Chunks, Ordered(q), Len(q) = Size
  PROVE  q = Content
<1>1. q \in Seq(0 .. Size) /\ DOMAIN q = 1 .. Size
  BY LenProperties DEF Chunks
<1>2. q = [i \in 1 .. Size |-> q[i]]
  BY <1>1, LenProperties
<1> QED BY <1>1, <1>2 DEF Ordered, Content

LEMMA ServerWorkSync ==
  ASSUME TypeOK, Sync, OwnerInv, NEW s \in Sessions, ServerWork(s)
  PROVE  Sync'
<1>0. /\ UNCHANGED <<client, next, inbox, reader>>
      /\ \A t \in Sessions \ {s} : thread'[t] = thread[t] /\ outbox'[t] = outbox[t]
  BY ServerWorkEffect
<1>1. next[s] \in 0 .. Size /\ Turns(s) /\ InPlace(s)
  BY DEF TypeOK, Sync
<1>2. thread[s].job # "idle"
  BY DEF ServerWork, Insert, AppendChunk, Measure, Digest, Compare, Seal, ServerStep
<1>3. Served(s) /\ Len(inbox'[s]) = 0
  BY <1>0, <1>1, <1>2 DEF Turns, Asked, Answered, Resting, Quiet, Served
<1>4. ASSUME NEW ok \in BOOLEAN, Reply(s, ok)
      PROVE  /\ Turns(s)' /\ thread'[s].job = "idle" /\ ~Asked(s)'
             /\ Answered(s)' => outbox'[s][1] = ok
  BY <1>0, <1>1, <1>3, <1>4, ReplyTurns
<1>5. ASSUME NEW j \in {"ended", "measure", "digest", "seal"}, Proceed(s, j)
      PROVE  /\ Turns(s)' /\ ~Asked(s)' /\ ~Answered(s)'
             /\ thread'[s].job = j /\ thread'[s].chunk = thread[s].chunk
  <2>1. j \in Jobs
    BY DEF Jobs
  <2>2. /\ thread'[s].job = j /\ thread'[s].chunk = thread[s].chunk /\ outbox' = outbox
    BY <1>5, <2>1, ProceedEffect
  <2> QED BY <1>0, <1>1, <1>3, <2>2, ProceedTurns
<1>6. CASE Insert(s)
  <2>1. CASE row.exists
    <3>1. Proceed(s, "ended") /\ UNCHANGED <<row, file>>
      BY <1>6, <2>1 DEF Insert, RowExists, Proceed
    <3>2. Turns(s)' /\ InPlace(s)'
      BY <1>5, <3>1 DEF InPlace, Busy
    <3> QED BY <1>0, <3>1, <3>2, SyncQuietly
  <2>2. CASE ~row.exists
    <3>1. /\ Reply(s, TRUE) /\ row' = [exists |-> TRUE, sum |-> NoSum] /\ file' = file
          /\ next[s] = 0 /\ thread[s].job = "insert"
      BY <1>1, <1>6, <2>2 DEF Insert, ServerStep, RowExists, InPlace
    <3>2. file = <<>> /\ Len(file) = 0 /\ Ordered(file)
      BY <2>2, EmptySeq DEF Sync
    <3>3. Turns(s)' /\ InPlace(s)'
      BY <1>0, <1>4, <3>1, <3>2 DEF InPlace, Busy
    <3>4. \A t \in Sessions : ~Owns(t)
      BY <2>2 DEF OwnerInv
    <3>5. SyncElsewhere
      BY <1>0, <3>1, <3>2 DEF SyncElsewhere, Ordered
    <3> QED BY <1>0, <3>3, <3>4, <3>5, SyncFrom
  <2> QED BY <2>1, <2>2
<1>7. CASE AppendChunk(s)
  <2>1. /\ thread[s].job = "append" /\ file' = Append(file, thread[s].chunk) /\ row' = row
        /\ Proceed(s, "measure")
    BY <1>7 DEF AppendChunk, ServerStep
  <2>2. thread[s].chunk = next[s] /\ next[s] \in 1 .. Size /\ Len(file) = next[s] - 1
    BY <1>1, <2>1, TransferAssumption DEF InPlace, Busy
  <2>3. Ordered(file') /\ Len(file') = next[s]
    BY <2>1, <2>2, OrderedAppend DEF Sync, TypeOK
  <2>4. Turns(s)' /\ InPlace(s)'
    BY <1>0, <1>5, <2>1, <2>2, <2>3 DEF InPlace, Busy
  <2>5. Owns(s) /\ \A t \in Sessions : Owns(t) => t = s
    BY <2>1 DEF Owns, Busy, OwnerInv
  <2>6. SyncElsewhere
    <3>1. row.exists
      BY <2>5 DEF OwnerInv
    <3> QED BY <1>0, <2>1, <2>3, <3>1 DEF SyncElsewhere
  <2> QED BY <1>0, <2>4, <2>5, <2>6, SyncFrom
<1>8. CASE Measure(s)
  <2>1. /\ thread[s].job = "measure" /\ UNCHANGED <<row, file>>
        /\ IF Complete THEN Proceed(s, "digest") ELSE Reply(s, TRUE)
    BY <1>8 DEF Measure, ServerStep, stored
  <2>2. thread[s].chunk = next[s] /\ next[s] > 0 /\ Len(file) = next[s]
    BY <1>1, <2>1 DEF InPlace, Busy
  <2>3. CASE Complete /\ Proceed(s, "digest")
    <3>1. Len(file) = Size
      BY <1>1, <2>2, <2>3, TransferAssumption DEF Complete
    <3>2. Turns(s)' /\ InPlace(s)'
      BY <1>0, <1>5, <2>1, <2>2, <2>3, <3>1 DEF InPlace, Busy
    <3> QED BY <1>0, <2>1, <3>2, SyncQuietly
  <2>4. CASE ~Complete /\ Reply(s, TRUE)
    <3>1. next[s] # Size
      BY <1>1, <2>2, <2>4, TransferAssumption DEF Complete
    <3>2. Turns(s)' /\ InPlace(s)'
      BY <1>0, <1>4, <2>1, <2>2, <2>4, <3>1 DEF InPlace, Busy
    <3> QED BY <1>0, <2>1, <3>2, SyncQuietly
  <2> QED BY <2>1, <2>3, <2>4
<1>9. CASE Digest(s)
  <2>1. /\ thread[s].job = "digest" /\ UNCHANGED <<row, file>> /\ ~Finalized
        /\ thread' = [thread EXCEPT ![s].job = "compare", ![s].read = file] /\ outbox' = outbox
    BY <1>9 DEF Digest, ServerStep, stored, OwnerInv, Busy, Finalized
  <2>2. thread'[s].job = "compare" /\ thread'[s].chunk = thread[s].chunk
    BY <2>1, TakeDigestEffect
  <2>3. Turns(s)' /\ ~Asked(s)' /\ ~Answered(s)'
    BY <1>0, <1>1, <1>3, <2>1, <2>2, ProceedTurns
  <2>4. InPlace(s)'
    BY <1>0, <1>1, <2>1, <2>2, <2>3 DEF InPlace, Busy
  <2> QED BY <1>0, <2>1, <2>3, <2>4, SyncQuietly
<1>10. CASE Compare(s)
  <2>1. thread[s].job = "compare" /\ UNCHANGED <<row, file>>
    BY <1>10 DEF Compare, ServerStep, stored
  <2>2. Proceed(s, "seal")
    BY <1>1, <1>10, <2>1 DEF Compare, InPlace
  <2>3. Turns(s)' /\ InPlace(s)'
    BY <1>0, <1>1, <1>5, <2>1, <2>2 DEF InPlace, Busy
  <2> QED BY <1>0, <2>1, <2>3, SyncQuietly
<1>11. CASE Seal(s)
  <2>1. /\ thread[s].job = "seal" /\ file' = file /\ Reply(s, TRUE)
        /\ row' = [row EXCEPT !.sum = {thread[s].read}]
    BY <1>11 DEF Seal, ServerStep
  <2>2. row'.exists = row.exists /\ row'.sum = {thread[s].read} /\ row'.sum # {}
    BY <2>1 DEF TypeOK
  <2>3. Len(file) = next[s]
    BY <1>1, <2>1 DEF InPlace, Busy
  <2>4. Turns(s)' /\ InPlace(s)'
    BY <1>0, <1>4, <2>1, <2>2, <2>3 DEF InPlace, Busy, NoSum
  <2>5. row.exists /\ SyncElsewhere
    <3>1. row.exists
      BY <2>1 DEF OwnerInv, Owns, Busy
    <3> QED BY <1>0, <2>1, <2>2, <3>1 DEF SyncElsewhere, Sync, Ordered
  <2> QED BY <1>0, <2>1, <2>2, <2>4, <2>5, SyncFrom DEF NoSum
<1> QED BY <1>6, <1>7, <1>8, <1>9, <1>10, <1>11 DEF ServerWork

\* A fetch: what is read is what the file holds at that place.
LEMMA ReaderSync ==
  ASSUME TypeOK, Sync, NEW r \in Readers, ReadInfo(r) \/ ReadChunk(r) \/ ReadDone(r)
  PROVE  Sync'
<1>0. /\ UNCHANGED <<row, file, client, next, inbox, outbox, thread>>
      /\ \A q \in Readers \ {r} : reader'[q] = reader[q]
  BY ReaderEffect
<1>1. /\ reader \in [Readers -> Fetching] /\ reader[r] \in Fetching /\ file \in Seq(0 .. Size)
      /\ reader[r].data \in Seq(0 .. Size) /\ reader[r].data \in Chunks
  BY DEF TypeOK, Fetching, Chunks
<1>2. FetchedInOrder(r)'
  <2>1. CASE ReadInfo(r)
    <3>1. reader'[r] = [pc |-> "chunks", sum |-> row.sum, data |-> <<>>] /\ row.exists
      BY <1>1, <2>1 DEF ReadInfo, ReaderStep
    <3>2. reader'[r].data = <<>> /\ reader'[r].pc = "chunks" /\ Len(reader'[r].data) = 0
      BY <3>1, EmptySeq
    <3> QED BY <1>0, <3>1, <3>2, TransferAssumption DEF FetchedInOrder, Ordered
  <2>2. CASE ReadChunk(r)
    <3> DEFINE i == Len(reader[r].data) + 1
    <3>1. /\ reader[r].pc = "chunks" /\ Len(reader[r].data) < Size
          /\ \/ reader' = [reader EXCEPT ![r] = [reader[r] EXCEPT !.pc = "failed"]]
             \/ /\ i <= Len(file)
                /\ reader' = [reader EXCEPT ![r] =
                                [reader[r] EXCEPT !.data = Append(reader[r].data, file[i])]]
      BY <2>2 DEF ReadChunk, ReaderStep
    <3>2. row.exists /\ Ordered(reader[r].data)
      BY <3>1 DEF Sync, FetchedInOrder
    <3>3. CASE reader' = [reader EXCEPT ![r] = [reader[r] EXCEPT !.pc = "failed"]]
      <4>1. reader'[r].pc = "failed"
        BY <1>1, <3>3 DEF Fetching
      <4> QED BY <4>1 DEF FetchedInOrder
    <3>4. CASE /\ i <= Len(file)
               /\ reader' = [reader EXCEPT ![r] =
                               [reader[r] EXCEPT !.data = Append(reader[r].data, file[i])]]
      <4>1. i \in 1 .. Size /\ i \in 1 .. Len(file) /\ Len(reader[r].data) = i - 1
        BY <1>1, <3>1, <3>4, LenProperties, TransferAssumption
      <4>2. file[i] = i
        BY <4>1 DEF Sync, Ordered
      <4>3. reader'[r].data = Append(reader[r].data, i) /\ reader'[r].pc = "chunks"
        BY <1>1, <3>1, <3>4, <4>2 DEF Fetching
      <4>4. Ordered(Append(reader[r].data, i))
        BY <1>1, <3>2, <4>1, OrderedAppend
      <4> QED BY <1>0, <3>2, <4>3, <4>4 DEF FetchedInOrder, Ordered
    <3> QED BY <3>1, <3>3, <3>4
  <2>3. CASE ReadDone(r)
    <3>1. /\ reader[r].pc = "chunks" /\ Len(reader[r].data) >= Size
          /\ \E p \in {"done", "failed"} :
               reader' = [reader EXCEPT ![r] = [reader[r] EXCEPT !.pc = p]]
      BY <2>3 DEF ReadDone, ReaderStep
    <3>2. reader'[r].data = reader[r].data
      BY <1>1, <3>1 DEF Fetching
    <3>3. row.exists /\ Ordered(reader[r].data)
      BY <3>1 DEF Sync, FetchedInOrder
    <3>4. Len(reader[r].data) = Size
      BY <1>1, <3>1, <3>3, LenProperties, TransferAssumption DEF Ordered
    <3> QED BY <1>0, <3>2, <3>3, <3>4 DEF FetchedInOrder, Ordered
  <2> QED BY <2>1, <2>2, <2>3
<1>3. \A q \in Readers \ {r} : FetchedInOrder(q)'
  BY <1>0 DEF Sync, FetchedInOrder, Ordered
<1>4. \A s \in Sessions : Turns(s)' /\ InPlace(s)'
  BY <1>0, OthersKeep DEF Sync
<1> QED BY <1>0, <1>2, <1>3, <1>4 DEF Sync, Ordered, NoSum

LEMMA SyncStep == TypeOK /\ OwnerInv /\ SyncInv /\ [Next]_vars => SyncInv'
<1> SUFFICES ASSUME TypeOK, OwnerInv, SyncInv, [Next]_vars, timeouts' = 0 PROVE Sync'
  BY DEF SyncInv
<1>1. ASSUME UNCHANGED <<row, file, client, next, inbox, outbox, thread, reader, timeouts>>
      PROVE  Sync'
  BY <1>1 DEF SyncInv, Sync, Turns, InPlace, Ordered, FetchedInOrder, Asked, Answered, Served,
              Resting, Quiet, Busy, NoSum
<1>2. ASSUME NEW s \in Sessions, Upload(s) \/ Receive(s) \/ Break(s) \/ NoticeEnd(s)
      PROVE  Sync'
  <2>1. Sync
    BY <1>2, ReceiveEffect DEF SyncInv, Upload, Break, NoticeEnd
  <2> QED BY <1>2, <2>1, UploadSync, ReceiveSync, GoneSync
<1>3. ASSUME NEW s \in Sessions, TimeOut(s) PROVE Sync'
  BY <1>3 DEF TimeOut, TypeOK
<1>4. ASSUME NEW s \in Sessions, TakeRequest(s) \/ ServerWork(s) PROVE Sync'
  <2>1. Sync
    BY <1>4, TakeRequestEffect, ServerWorkEffect DEF SyncInv
  <2> QED BY <1>4, <2>1, TakeRequestSync, ServerWorkSync
<1>5. ASSUME NEW r \in Readers, ReadInfo(r) \/ ReadChunk(r) \/ ReadDone(r) PROVE Sync'
  <2>1. Sync
    BY <1>5, ReaderEffect DEF SyncInv
  <2> QED BY <1>5, <2>1, ReaderSync
<1>6. ASSUME NEW c \in Sessions \cup Readers, SetPolicy(c) PROVE Sync'
  BY <1>1, <1>6 DEF SetPolicy, stored, calls, frames
<1>7. CASE UNCHANGED vars
  BY <1>1, <1>7 DEF vars, stored, calls, frames
<1> QED BY <1>2, <1>3, <1>4, <1>5, <1>6, <1>7 DEF Next, ServerWork

-------------------------------------------------------------------------------
\* Every step of the transfer is a step of the abstract object, or none.

ReturnedTo == {s \in Sessions : client[s] = "done"}
FetchedBy  == {reader[r].data : r \in {q \in Readers : Done(q)}}

StoreStep == Store!ONext \/ UNCHANGED Store!ovars

LEMMA StoreStutters ==
  ASSUME UNCHANGED row, ReturnedTo' = ReturnedTo, FetchedBy' = FetchedBy
  PROVE  StoreStep
BY DEF StoreStep, Store!ovars, ReturnedTo, FetchedBy

\* No reader takes part, and no call returns.
LEMMA ReaderKept ==
  ASSUME reader' = reader
  PROVE  FetchedBy' = FetchedBy
BY DEF FetchedBy, Done

LEMMA CallKept ==
  ASSUME TypeOK, NEW s \in Sessions, client[s] # "done", client'[s] # "done",
         \A t \in Sessions \ {s} : client'[t] = client[t]
  PROVE  ReturnedTo' = ReturnedTo
BY DEF ReturnedTo

LEMMA ClientSteps ==
  ASSUME TypeOK, OwnerInv, Sync, NEW s \in Sessions,
         Upload(s) \/ Receive(s) \/ Break(s) \/ NoticeEnd(s)
  PROVE  StoreStep
<1>0. /\ UNCHANGED <<row, file, reader>> /\ FetchedBy' = FetchedBy
      /\ client \in [Sessions -> Calls]
  BY ReceiveEffect, ReaderKept DEF Upload, Break, NoticeEnd, stored, TypeOK
<1>1. CASE Upload(s) \/ NoticeEnd(s)
  <2>1. /\ client[s] # "done" /\ client'[s] # "done"
        /\ \A t \in Sessions \ {s} : client'[t] = client[t]
    BY <1>0, <1>1 DEF Upload, NoticeEnd
  <2> QED BY <1>0, <2>1, CallKept, StoreStutters
<1>2. CASE Break(s)
  <2>1. ReturnedTo' = ReturnedTo \ {s}
    BY <1>0, <1>2 DEF Break, ReturnedTo
  <2>2. Store!Leave(s)
    BY <1>0, <2>1 DEF Store!Leave, ReturnedTo, FetchedBy
  <2> QED BY <2>2 DEF StoreStep, Store!ONext
<1>3. CASE Receive(s)
  <2>1. /\ client[s] = "waiting" /\ outbox[s] # <<>> /\ outbox[s] \in Seq(BOOLEAN)
        /\ Head(outbox[s]) \in BOOLEAN
        /\ next[s] \in 0 .. Size
    BY <1>3, ReceiveEffect DEF TypeOK
  <2>2. CASE client' = client
    <3>1. ReturnedTo' = ReturnedTo
      BY <2>2 DEF ReturnedTo
    <3> QED BY <1>0, <3>1, StoreStutters
  <2>3. CASE client' = [client EXCEPT ![s] = "failed"]
    <3>1. /\ client'[s] = "failed" /\ \A t \in Sessions \ {s} : client'[t] = client[t]
      BY <1>0, <2>3
    <3> QED BY <1>0, <2>1, <3>1, CallKept, StoreStutters
  <2>4. CASE /\ Head(outbox[s]) = TRUE /\ next[s] >= Size
             /\ client' = [client EXCEPT ![s] = "done"]
    <3>0. next[s] >= Size
      BY <2>4
    <3>1. next[s] = Size
      BY <2>1, <3>0, TransferAssumption
    <3>2. Answered(s) /\ outbox[s][1] = TRUE
      <4>1. Len(outbox[s]) # 0
        BY <2>1, OneFrame
      <4>2. Answered(s)
        BY <2>1, <4>1 DEF Sync, Turns, Asked, Served, Quiet
      <4>3. Head(outbox[s]) = outbox[s][1]
        BY <2>1, <4>2, OneFrame DEF Answered
      <4> QED BY <2>4, <4>2, <4>3
    <3>3. row.exists
      BY <3>2 DEF Answered, Owns, OwnerInv
    <3>4. row.sum # {} \/ Size = 0
      BY <3>1, <3>2 DEF Sync, InPlace, NoSum
    <3>5. Size = 0 => Content = <<>>
      <4>1. ASSUME Size = 0 PROVE 1 .. Size = {}
        BY <4>1
      <4>2. ASSUME Size = 0 PROVE Content = <<>>
        BY <4>1, <4>2 DEF Content
      <4> QED BY <4>2
    <3>6. ReturnedTo' = ReturnedTo \cup {s}
      BY <1>0, <2>4 DEF ReturnedTo
    <3>7. Store!Return(s)
      BY <1>0, <3>3, <3>4, <3>5, <3>6 DEF Store!Return, Store!Nothing, ReturnedTo, FetchedBy
    <3> QED BY <3>7 DEF StoreStep, Store!ONext
  <2> QED BY <1>3, <2>1, <2>2, <2>3, <2>4, ReceiveEffect
<1> QED BY <1>1, <1>2, <1>3

LEMMA ServerSteps ==
  ASSUME TypeOK, OwnerInv, Sync, NEW s \in Sessions, TakeRequest(s) \/ ServerWork(s)
  PROVE  StoreStep
<1>0. /\ UNCHANGED <<client, reader>> /\ ReturnedTo' = ReturnedTo /\ FetchedBy' = FetchedBy
  BY TakeRequestEffect, ServerWorkEffect, ReaderKept DEF ReturnedTo
<1>1. CASE UNCHANGED row
  BY <1>0, <1>1, StoreStutters
<1>2. CASE Insert(s) /\ ~row.exists
  <2>1. row' = [exists |-> TRUE, sum |-> NoSum] /\ row.sum = NoSum
    BY <1>2 DEF Insert, RowExists, Sync
  <2>2. row'.exists = TRUE /\ row'.sum = row.sum
    BY <2>1
  <2>3. Store!Create
    BY <1>0, <1>2, <2>2 DEF Store!Create, ReturnedTo, FetchedBy
  <2> QED BY <2>3 DEF StoreStep, Store!ONext
<1>3. CASE Seal(s)
  <2>1. /\ thread[s].job = "seal" /\ row' = [row EXCEPT !.sum = {thread[s].read}]
    BY <1>3 DEF Seal, ServerStep
  <2>2. row'.exists = row.exists /\ row'.sum = {thread[s].read}
    BY <2>1 DEF TypeOK
  <2>3. Owns(s) /\ row.exists /\ row.sum = {} /\ thread[s].read = file /\ Len(file) = Size
    BY <2>1 DEF Owns, Busy, OwnerInv, NoSum
  <2>4. file = Content
    BY <2>3, OrderedFull DEF Sync, TypeOK
  <2>5. Store!Finalize
    BY <1>0, <2>2, <2>3, <2>4 DEF Store!Finalize, Store!Nothing, ReturnedTo, FetchedBy
  <2> QED BY <2>5 DEF StoreStep, Store!ONext
<1>4. row' = row \/ (Insert(s) /\ ~row.exists) \/ Seal(s)
  BY TakeRequestEffect DEF ServerWork, Insert, RowExists, AppendChunk, Measure, Digest, Compare,
                           stored
<1> QED BY <1>1, <1>2, <1>3, <1>4

LEMMA ReaderSteps ==
  ASSUME TypeOK, Sync, NEW r \in Readers, ReadInfo(r) \/ ReadChunk(r) \/ ReadDone(r)
  PROVE  StoreStep
<1>0. /\ UNCHANGED <<row, client>> /\ ReturnedTo' = ReturnedTo
      /\ \A q \in Readers \ {r} : reader'[q] = reader[q]
  BY ReaderEffect DEF ReturnedTo
<1>1. reader \in [Readers -> Fetching] /\ reader' \in [Readers -> Fetching]
  BY ReaderEffect DEF TypeOK, Fetching
<1>2. reader[r].pc \in {"idle", "chunks"}
  BY DEF ReadInfo, ReadChunk, ReadDone
<1>3. CASE reader'[r].pc # "done"
  <2>1. FetchedBy' = FetchedBy
    BY <1>0, <1>2, <1>3 DEF FetchedBy, Done
  <2> QED BY <1>0, <2>1, StoreStutters
<1>4. CASE reader'[r].pc = "done"
  <2>1. reader'[r].data = Content /\ row.exists
    <3>1. FetchedInOrder(r)'
      BY ReaderSync DEF Sync
    <3>2. reader'[r].data \in Chunks
      BY <1>1 DEF Fetching
    <3>3. Ordered(reader'[r].data) /\ Len(reader'[r].data) = Size /\ row'.exists
      BY <1>4, <3>1 DEF FetchedInOrder, Ordered
    <3> QED BY <1>0, <3>2, <3>3, OrderedFull
  <2>2. FetchedBy' = FetchedBy \cup {Content}
    BY <1>0, <1>2, <1>4, <2>1 DEF FetchedBy, Done
  <2>3. Store!Fetch
    BY <1>0, <2>1, <2>2 DEF Store!Fetch, ReturnedTo, FetchedBy
  <2> QED BY <2>3 DEF StoreStep, Store!ONext
<1> QED BY <1>3, <1>4

LEMMA StoreSteps == TypeOK /\ OwnerInv /\ SyncInv /\ [Next]_vars /\ timeouts' = 0 => StoreStep
<1> SUFFICES ASSUME TypeOK, OwnerInv, SyncInv, [Next]_vars, timeouts' = 0 PROVE StoreStep
  OBVIOUS
<1>1. ASSUME UNCHANGED <<row, client, reader>> PROVE StoreStep
  BY <1>1, StoreStutters DEF ReturnedTo, FetchedBy, Done
<1>2. ASSUME NEW s \in Sessions, Upload(s) \/ Receive(s) \/ Break(s) \/ NoticeEnd(s)
      PROVE  StoreStep
  <2>1. Sync
    BY <1>2, ReceiveEffect DEF SyncInv, Upload, Break, NoticeEnd
  <2> QED BY <1>2, <2>1, ClientSteps
<1>3. ASSUME NEW s \in Sessions, TimeOut(s) PROVE StoreStep
  BY <1>3 DEF TimeOut, TypeOK
<1>4. ASSUME NEW s \in Sessions, TakeRequest(s) \/ ServerWork(s) PROVE StoreStep
  <2>1. Sync
    BY <1>4, TakeRequestEffect, ServerWorkEffect DEF SyncInv
  <2> QED BY <1>4, <2>1, ServerSteps
<1>5. ASSUME NEW r \in Readers, ReadInfo(r) \/ ReadChunk(r) \/ ReadDone(r) PROVE StoreStep
  <2>1. Sync
    BY <1>5, ReaderEffect DEF SyncInv
  <2> QED BY <1>5, <2>1, ReaderSteps
<1>6. ASSUME NEW c \in Sessions \cup Readers, SetPolicy(c) PROVE StoreStep
  BY <1>1, <1>6 DEF SetPolicy, stored, calls
<1>7. CASE UNCHANGED vars
  BY <1>1, <1>7 DEF vars, stored, calls
<1> QED BY <1>2, <1>3, <1>4, <1>5, <1>6, <1>7 DEF Next, ServerWork

\* As long as no call was given up with its answer outstanding, storing and
\* fetching the object implement the abstract object: it is finalized with the
\* content, write_object returns only then, read_object returns nothing else
\* (api.py:99-152, objects.py:102-152).
THEOREM TransferImplementsStore == Spec => ImplementsStore
<1>1. Init => Store!OInit /\ SyncInv
  <2> SUFFICES ASSUME Init PROVE Store!OInit /\ SyncInv
    OBVIOUS
  <2>1. Len(<<>>) = 0
    BY EmptySeq
  <2>2. /\ row = [exists |-> FALSE, sum |-> NoSum] /\ file = <<>>
        /\ \A s \in Sessions : /\ client[s] = "idle" /\ inbox[s] = <<>> /\ outbox[s] = <<>>
                               /\ thread[s].job = "idle"
        /\ \A r \in Readers : reader[r].pc = "idle"
    BY DEF Init, AtRest, NoRead
  <2>3. Store!OInit
    BY <2>2 DEF Store!OInit, Store!Nothing, NoSum, Done
  <2>4. Sync
    <3>1. \A s \in Sessions : Turns(s) /\ InPlace(s)
      BY <2>1, <2>2 DEF Turns, InPlace, Resting, Quiet, Asked, Answered, Busy
    <3>2. Ordered(file)
      BY <2>1, <2>2, TransferAssumption DEF Ordered
    <3> QED BY <2>2, <3>1, <3>2 DEF Sync, FetchedInOrder
  <2> QED BY <2>3, <2>4 DEF SyncInv
<1>2. TypeOK /\ OwnerInv /\ SyncInv /\ [Next]_vars
        => [timeouts' = 0 => Store!ONext \/ UNCHANGED Store!ovars]_vars
  BY StoreSteps DEF StoreStep
<1> QED BY <1>1, <1>2, OwnerCorrect, SyncStep, PTL DEF Spec, ImplementsStore
===============================================================================
