---------------------------- MODULE ObjectTransfer ----------------------------
(***************************************************************************)
(* One object, its row and its file on the server                          *)
(* (server/sih_server/objects.py), the connection threads that serve it    *)
(* (tunnel2.py, _handle_relay and below), and the clients that upload it   *)
(* with write_object and fetch it with read_object (client api.py on top   *)
(* of session.py).                                                         *)
(*                                                                         *)
(* Abstractions: the content is the chunks 1 .. Size, all of one length; a *)
(* digest is the content it was taken of, and an absent one the empty set; *)
(* an append is seen whole or not at all; a session or reader is a client  *)
(* of its own, with one permission row for what it does; the rows are      *)
(* written by the operator; delete, which nothing calls, is left out.      *)
(***************************************************************************)
EXTENDS Naturals, Sequences, FiniteSets

CONSTANTS Sessions,     \* connections that upload the object
          Readers,      \* connections that fetch it
          Size,         \* its length in chunks
          MaxAttempts,  \* bound on the calls of write_object
          MaxTimeouts,  \* bound on the calls given up for want of an answer
          MaxPolicies   \* bound on the changes of permissions

ASSUME TransferAssumption == /\ Size \in Nat /\ MaxAttempts \in Nat /\ MaxTimeouts \in Nat
                             /\ MaxPolicies \in Nat
                             /\ Sessions \cap Readers = {}

VARIABLES row,      \* the Objects row: whether it exists, and content_integrity
          file,     \* the chunks appended to the object's file
          client,   \* per session, the call of write_object
          next,     \* per session, the chunk the call waits for; 0 for WRITE
          inbox, outbox,  \* per session, the frames in flight each way
          thread,   \* per session, where the server's thread is
          reader,   \* per reader, the call of read_object
          allowed,  \* the clients whose permission row says ALLOW
          late,     \* history: what a client has stored since it lost its permission
          attempts, timeouts, policies

grants == <<allowed, late, policies>>
stored == <<row, file>>
calls  == <<client, next>>
frames == <<inbox, outbox>>
vars   == <<stored, calls, frames, thread, reader, grants, attempts, timeouts>>

Content == [i \in 1 .. Size |-> i]
Chunks  == Seq(0 .. Size)
NoSum   == {}

Calls    == {"idle", "waiting", "done", "failed", "gone"}
Jobs     == {"idle", "insert", "append", "measure", "digest", "compare", "seal", "ended"}
AtRest   == [job |-> "idle", chunk |-> 0, read |-> <<>>]
NoRead   == [pc |-> "idle", sum |-> NoSum, data |-> <<>>]

Init == /\ row = [exists |-> FALSE, sum |-> NoSum] /\ file = <<>>
        /\ client = [s \in Sessions |-> "idle"] /\ next = [s \in Sessions |-> 0]
        /\ inbox = [s \in Sessions |-> <<>>] /\ outbox = [s \in Sessions |-> <<>>]
        /\ thread = [s \in Sessions |-> AtRest]
        /\ reader = [r \in Readers |-> NoRead]
        /\ allowed \in SUBSET (Sessions \cup Readers) /\ late = [s \in Sessions |-> 0]
        /\ attempts = 0 /\ timeouts = 0 /\ policies = 0

-------------------------------------------------------------------------------

\* A request: the WRITE that creates the object is 0, a chunk its index.
Send(s, i) == /\ next' = [next EXCEPT ![s] = i]
              /\ inbox' = [inbox EXCEPT ![s] = Append(@, i)]

\* write_object, called again at will, on a session that is still open.
Upload(s) ==
  /\ client[s] \in {"idle", "failed"} /\ attempts < MaxAttempts
  /\ attempts' = attempts + 1
  /\ client' = [client EXCEPT ![s] = "waiting"]
  /\ Send(s, 0)
  /\ UNCHANGED <<stored, outbox, thread, reader, grants, timeouts>>

\* The client takes the next frame for its answer: request_id is not compared.
Receive(s) ==
  /\ client[s] = "waiting" /\ outbox[s] # <<>>
  /\ outbox' = [outbox EXCEPT ![s] = Tail(@)]
  /\ \/ /\ Head(outbox[s]) /\ next[s] < Size
        /\ Send(s, next[s] + 1)
        /\ UNCHANGED client
     \/ /\ Head(outbox[s]) /\ next[s] >= Size
        /\ client' = [client EXCEPT ![s] = "done"]
        /\ UNCHANGED <<next, inbox>>
     \/ /\ ~Head(outbox[s])
        /\ client' = [client EXCEPT ![s] = "failed"]
        /\ UNCHANGED <<next, inbox>>
  /\ UNCHANGED <<stored, thread, reader, grants, attempts, timeouts>>

\* recv_frame gives up after the socket timeout; the session stays open.
TimeOut(s) ==
  /\ client[s] = "waiting" /\ outbox[s] = <<>> /\ timeouts < MaxTimeouts
  /\ timeouts' = timeouts + 1
  /\ client' = [client EXCEPT ![s] = "failed"]
  /\ UNCHANGED <<stored, next, frames, thread, reader, grants, attempts>>

\* The client's end of the connection goes; its thread does what has arrived.
Break(s) ==
  /\ client[s] # "gone"
  /\ client' = [client EXCEPT ![s] = "gone"]
  /\ outbox' = [outbox EXCEPT ![s] = <<>>]
  /\ UNCHANGED <<stored, next, inbox, thread, reader, grants, attempts, timeouts>>

-------------------------------------------------------------------------------

\* The thread answers and is ready for the next frame.
Reply(s, ok) ==
  /\ thread' = [thread EXCEPT ![s] = AtRest]
  /\ outbox' = IF client[s] = "gone" THEN outbox ELSE [outbox EXCEPT ![s] = Append(@, ok)]

Proceed(s, job) == thread' = [thread EXCEPT ![s].job = job] /\ UNCHANGED outbox

ServerStep(s, job) == /\ thread[s].job = job
                      /\ UNCHANGED <<calls, inbox, reader, allowed, policies, attempts, timeouts>>

Stored(s)     == late' = IF s \in allowed THEN late ELSE [late EXCEPT ![s] = @ + 1]
NothingStored == UNCHANGED late

\* Mutant of Permitted: a row is enough, whatever its policy.
PermittedAnyway(c) == TRUE

\* check_permission, which every handler calls first, for every frame.
Permitted(c) == c \in allowed

RowExists == row.exists

\* Mutant of Finalized: a finalized object takes more chunks.
NeverFinalized == FALSE

Finalized == row.sum # NoSum

\* The thread reads a frame: the permission is checked, then create looks
\* whether the object exists, and write_chunk whether it is finalized.  The code
\* reads the one after the other; one step stands for both, since the row only
\* advances, a connection's own create precedes its chunks, and a refusal is
\* answered the same way whichever of them it comes from.
TakeRequest(s) ==
  /\ thread[s].job = "idle" /\ inbox[s] # <<>>
  /\ inbox' = [inbox EXCEPT ![s] = Tail(@)]
  /\ LET i == Head(inbox[s])
     IN  \/ /\ ~Permitted(s) /\ Reply(s, FALSE)
         \/ /\ Permitted(s) /\ i = 0 /\ RowExists /\ Reply(s, FALSE)
         \/ /\ Permitted(s) /\ i = 0 /\ ~RowExists /\ Proceed(s, "insert")
         \/ /\ Permitted(s) /\ i > 0 /\ (~row.exists \/ Finalized) /\ Reply(s, FALSE)
         \/ /\ Permitted(s) /\ i > 0 /\ row.exists /\ ~Finalized
            /\ thread' = [thread EXCEPT ![s].job = "append", ![s].chunk = i]
            /\ UNCHANGED outbox
  /\ UNCHANGED <<stored, calls, reader, grants, attempts, timeouts>>

\* The insertion of a second row for the object raises; nothing catches it,
\* and the connection ends.
Insert(s) ==
  /\ ServerStep(s, "insert")
  /\ IF RowExists
     THEN /\ thread' = [thread EXCEPT ![s].job = "ended"]
          /\ NothingStored
          /\ UNCHANGED <<row, outbox>>
     ELSE /\ row' = [exists |-> TRUE, sum |-> NoSum]
          /\ Stored(s)
          /\ Reply(s, TRUE)
  /\ UNCHANGED file

\* Mutant of AppendChunk: the chunk after the one that was sent is stored.
AppendNext(s) ==
  /\ ServerStep(s, "append")
  /\ file' = Append(file, thread[s].chunk + 1)
  /\ Stored(s)
  /\ Proceed(s, "measure")
  /\ UNCHANGED row

\* write_chunk: the index is not used, the data goes to the end of the file.
AppendChunk(s) ==
  /\ ServerStep(s, "append")
  /\ file' = Append(file, thread[s].chunk)
  /\ Stored(s)
  /\ Proceed(s, "measure")
  /\ UNCHANGED row

\* Mutant of Complete: one chunk too many is waited for.
CompletePast == Len(file) > Size

Complete == Len(file) >= Size

\* _handle_obj_chunk finalizes when the file is as long as declared.
Measure(s) ==
  /\ ServerStep(s, "measure")
  /\ IF Complete THEN Proceed(s, "digest") ELSE Reply(s, TRUE)
  /\ NothingStored
  /\ UNCHANGED stored

\* finalize: nothing to do, or the digest of the file as it is now ...
Digest(s) ==
  /\ ServerStep(s, "digest")
  /\ IF Finalized THEN Reply(s, TRUE)
     ELSE /\ thread' = [thread EXCEPT ![s].job = "compare", ![s].read = file]
          /\ UNCHANGED outbox
  /\ NothingStored
  /\ UNCHANGED stored

\* ... then the size ...
Compare(s) ==
  /\ ServerStep(s, "compare")
  /\ IF Len(file) = Size THEN Proceed(s, "seal") ELSE Reply(s, FALSE)
  /\ NothingStored
  /\ UNCHANGED stored

\* ... then the row.
Seal(s) ==
  /\ ServerStep(s, "seal")
  /\ row' = [row EXCEPT !.sum = {thread[s].read}]
  /\ NothingStored
  /\ Reply(s, TRUE)
  /\ UNCHANGED file

\* The client of a connection that ended reads an end of file.
NoticeEnd(s) ==
  /\ thread[s].job = "ended" /\ client[s] = "waiting" /\ outbox[s] = <<>>
  /\ client' = [client EXCEPT ![s] = "gone"]
  /\ UNCHANGED <<stored, next, frames, thread, reader, grants, attempts, timeouts>>

-------------------------------------------------------------------------------

ReaderStep(r, new) ==
  /\ reader' = [reader EXCEPT ![r] = new]
  /\ UNCHANGED <<stored, calls, frames, thread, grants, attempts, timeouts>>

\* READ: the declared size and the digest, empty before the object is sealed.
ReadInfo(r) ==
  /\ reader[r].pc = "idle" /\ Permitted(r) /\ row.exists
  /\ ReaderStep(r, [pc |-> "chunks", sum |-> row.sum, data |-> <<>>])

\* READ_CHUNK, until the declared size is there.  A chunk that is not there
\* yet, a file, or the permission, is an error for the caller.
ReadChunk(r) ==
  /\ reader[r].pc = "chunks" /\ Len(reader[r].data) < Size
  /\ LET i == Len(reader[r].data) + 1
     IN  ReaderStep(r, IF Permitted(r) /\ i <= Len(file)
                                         THEN [reader[r] EXCEPT !.data = Append(@, file[i])]
                                         ELSE [reader[r] EXCEPT !.pc = "failed"])

\* The digest is compared when READ gave one.
ReadDone(r) ==
  /\ reader[r].pc = "chunks" /\ Len(reader[r].data) >= Size
  /\ ReaderStep(r, [reader[r] EXCEPT !.pc = IF reader[r].sum \subseteq {reader[r].data}
                                            THEN "done" ELSE "failed"])

-------------------------------------------------------------------------------

\* The operator changes a permission row.
SetPolicy(c) ==
  /\ policies < MaxPolicies
  /\ policies' = policies + 1
  /\ \/ c \in allowed /\ allowed' = allowed \ {c}
     \/ c \notin allowed /\ allowed' = allowed \cup {c}
  /\ late' = [s \in Sessions |-> IF s = c THEN 0 ELSE late[s]]
  /\ UNCHANGED <<stored, calls, frames, thread, reader, attempts, timeouts>>

Next == \/ \E s \in Sessions : \/ Upload(s) \/ Receive(s) \/ TimeOut(s) \/ Break(s)
                               \/ TakeRequest(s) \/ Insert(s) \/ AppendChunk(s)
                               \/ Measure(s) \/ Digest(s) \/ Compare(s) \/ Seal(s)
                               \/ NoticeEnd(s)
        \/ \E r \in Readers : ReadInfo(r) \/ ReadChunk(r) \/ ReadDone(r)
        \/ \E c \in Sessions \cup Readers : SetPolicy(c)

Spec == Init /\ [][Next]_vars

-------------------------------------------------------------------------------

TypeOK == /\ row \in [exists : BOOLEAN, sum : SUBSET Chunks] /\ Cardinality(row.sum) <= 1
          /\ file \in Chunks
          /\ client \in [Sessions -> Calls] /\ next \in [Sessions -> 0 .. Size]
          /\ inbox \in [Sessions -> Chunks] /\ outbox \in [Sessions -> Seq(BOOLEAN)]
          /\ thread \in [Sessions -> [job : Jobs, chunk : 0 .. Size, read : Chunks]]
          /\ reader \in [Readers -> [pc : {"idle", "chunks", "done", "failed"},
                                     sum : SUBSET Chunks, data : Chunks]]
          /\ allowed \subseteq Sessions \cup Readers /\ late \in [Sessions -> Nat]
          /\ policies \in 0 .. MaxPolicies
          /\ attempts \in 0 .. MaxAttempts /\ timeouts \in 0 .. MaxTimeouts

\* The file of a finalized object is the content its digest was taken of, and
\* stays so, whatever late frames and abandoned calls still arrive.
SealedIntact == row.sum # NoSum => row.sum = {file} /\ Len(file) = Size

\* As long as no call has been given up with its answer outstanding, storing and
\* fetching the object implement the abstract object: what is finalized is the
\* content that was uploaded, every chunk, once and in its place ("SHA-256 of
\* the full plaintext", objects.py:4), although chunks are appended whatever
\* their index, also after connections broke; write_object returns only when it
\* is; and what read_object returns is that content, also during the upload.  A
\* call that is repeated on its session takes the late answers for its own, and
\* none of this holds (session.py:404-413).
Done(r) == reader[r].pc = "done"

Store == INSTANCE StoredObject WITH
           Clients  <- Sessions,
           exists   <- row.exists,
           sealed   <- row.sum,
           returned <- {s \in Sessions : client[s] = "done"},
           fetched  <- {reader[r].data : r \in {q \in Readers : Done(q)}}

ImplementsStore ==
  Store!OInit /\ [][timeouts' = 0 => Store!ONext \/ UNCHANGED Store!ovars]_vars

\* A client whose permission was withdrawn stores at most one thing more, for
\* the request that had been checked before, however many of its chunks are
\* still on their way: every frame is checked, not every object.
WithdrawnStops == \A s \in Sessions : late[s] <= 1
==============================================================================
