# A verification project for SecUpload

TLA+ models of the rotating-credential system in this repository, TLC
configurations that check them on small instances, and theorems that TLAPS
checks for every value of the constants.  Paths below are relative to `src/`.

Contents: [the system](#the-system) · [the modules](#the-modules) ·
[the runs](#the-runs) · [bounds](#bounds) · [fairness](#fairness) ·
[the proofs](#the-proofs) · [findings](#findings) ·
[what is left out](#what-is-left-out) · [plan](#plan)

## The system

Clients upload objects to a server through a proxy.  Every party signs with a
credential that is replaced every T seconds: a new one is VALIDATING for T/2,
then ACTIVE, then FALLBACK for T/2, then TERMINATED.

| Component | State | Operations | Talks to | What makes it correct |
|---|---|---|---|---|
| rotation engine `shared/sih_shared/credential_state.py` | records by version, in memory | provision_initial, submit_successor, checkpoint, rollback, revoke, expire_all | a library inside the next four | one credential per place and in order; promotion by the clock; the demoted credential keeps a fallback period; a status never goes back |
| credential registry `server/.../registry.py`, `database.py` | rows of credentials, identities, enrollment tokens | issue_token, enroll (two transactions), and load-transition-save of every engine operation | called by connection threads and the admin API at once | the engine's guarantees for the rows; one token, one credential; a revocation holds |
| server identity `server/.../identity.py` | engine and private keys in memory; rows; key file | ensure_loaded, maybe_rotate (a thread), active_keys (every connection thread) | rows and key file are two writes | the active version has its keys, always, and across restarts |
| client identity and session `client/.../identity.py`, `session.py` | engine, enrolled flag, identity file; the server's key | connect/enroll, rotate, checkpoint_rotation, rollback_rotation, request | one connection, which may time out or break | the client never runs ahead of the server, is never locked out, and its rotations end |
| server connections `server/.../tunnel2.py` | one thread per connection | control and relay handlers | registry, identity, objects | requests are answered in order; what does not authenticate changes nothing |
| authentication `server/.../auth.py`, `shared/.../replay.py` | LRU cache shared by the threads, gone with the process | authenticate, check_and_add | registry | an envelope is accepted once |
| authorization `server/.../authorization.py` | permission rows, written by the operator | check_permission | tunnel2, for every frame | a withdrawn permission stops the transfer |
| object store and transfer `server/.../objects.py`, `client/.../api.py` | a row and a file per object | create, write_chunk, finalize; write_object, read_object | session, tunnel2 | what is finalized is what was uploaded, and what is read is that |
| wire `shared/.../protocol.py`, `codec.py`, `framing.py`, `crypto.py` | the bytes on a socket, and those a read has taken | send_frame, recv_frame; an encoder and a parser per message | every connection | frames arrive whole and in order; a message is read as it was sent; a part of one is not read at all |
| proxy `proxy/sih_proxy/` | identity, cached registry snapshot, control lock | handle: connect, control burst, splice | client and server connections | the burst is exclusive; the cached snapshot is never older than what a connection began with; clients are served |
| the rest | | | | audit (append only), TLS (a library, configured), admin API and entry points (wiring), demos |

What is hard here: the same state machine runs in four places that are never
updated together; the registry and the server identity are shared by threads
without locks; several operations are two writes; a call that timed out leaves
its connection open, with an answer, or the rest of one, still on its way; and most timing rules
compare a clock with a date set by a rule elsewhere.  `PROJECT.json` lists each
hazard at the line where it bites, with the properties that would show it.

## The modules

```
CredentialWindow        what the rotation window promises (abstract)
RotationOps             the engine's guards and transitions, as operators
  RotationEngine        one engine, any calls        -> implements CredentialWindow
  Registry              rows, tokens, threads        -> rows implement CredentialWindow
  ServerIdentity        the server's own credential
  RotationProtocol      client and server over one connection
  ProxyRelay            the proxy and its connections
EnvelopeAuth            envelope checks and the replay cache
StoredObject            what storing an object promises (abstract)
ObjectTransfer          one object, uploaded and read   -> implements StoredObject
Codec                   fields of bytes, written and taken off again
  Messages              every message: what is encoded, what is parsed; ciphers
  Framing               send_frame and recv_frame on a socket
    Wire                messages through all layers over a connection
```

`MC*` modules and their `.cfg` files are the instances; `*_proofs` hold the
theorems about the module of that name, and `Connection_proofs` those about
Framing, Wire and EnvelopeAuth: what passes over a connection.  `RotationOps` is written once and used by five modules, because the
code has one engine that five components run: a mutant of it is a change of
that engine everywhere.

**RotationOps / RotationEngine.** A credential is a record of its status and
four times; version v is absent until it is provisioned or submitted, so an
engine is a function on `1 .. MaxVersion`.  Each operation is a guard (`Can...`,
the early `raise`s in order) and a transition (the assignments).  `RotationEngine`
calls them at any time, `Tick` advances the clock.  `SuccessorOutlived` is the
raise that has changed a record before it raises; callers differ in what they
keep of it.  Signatures are a Boolean (whether the successor's verifies).

**CredentialWindow.** Three slots filled from a fresh version, moved by one
place, emptied for any reason; no times.  The refinement mapping is in
`RotationEngine` (`ImplementsWindow`) and, for the rows, in `Registry`
(`RowsImplementWindow`).

**Registry.** One identity, `Tokens` and `Threads`.  Every call is at least two
steps: the load of the rows into an engine with its transition, and the save of
every row (`Save`), which is where threads interleave; `enroll` is `ReadToken`,
`Claim` (first commit), `LoadProvision` and `Save` (second commit).
A stopped thread loses its copy.  Marked-outlived successors are dropped here
as `_apply` drops them.  `overlapped` is history: two calls have been under way
at once.

**ServerIdentity.** `pc` follows ensure_loaded and the rotation thread through
`_persist`: `Commit` of the rows, `SaveKeys` of the file, and the three
assignments of checkpoint (`BeginCheckpoint`, `Demote`, `Promote`), since
readers take no lock.  A key pair is named by the process start that made it,
so two pairs of one version can be told apart.  `Crash` is possible at every
step, `WriteFails` where the tick catches the exception.  `whole` and `timely`
record what a start found: the keys of every version in the window, and time
for a rotation before the active credential expires.

**RotationProtocol.** The client's engine, file and flag; the server's rows
for it; the frames in flight; `waiting` for the call the client is in.
`Handle` is tunnel2's whole handling of a request, `Refuse` the exceptions that
end the connection, `HandleOrphan` the server's thread reading what a broken
connection had delivered.  `Receive` compares what the client compares (the
type, and the key the answer is sealed for) and nothing else, and `Mirror` is
what each call then does to its own engine.  Registry transitions are one step
here.  `faults` counts the calls that timed out or lost their connection.
`ServerRotates` changes the server's key; an answer announces it only
where the code fills those fields in.

**EnvelopeAuth.** `check_and_add` is the test for the key, then move or record,
then the test of the size (`TestSize`) and popitem (`Evict`), each a step of its
own per thread: a thread removes a key on the strength of a size that others have
changed since.  Three variables are history: `newer`, the keys met since a key was
last put at the end of the cache; `exposed`, the keys the cache may take for new
again, because they were evicted or because a second thread looked for one
between the first thread's test and its record,
or went with the process in a `Restart`; `overlap`, the largest number of other
threads that were about to remove a key when a thread found the cache full.

**ObjectTransfer.** Per session the client's call, the frames each way and the
server's thread; `finalize` is digest, size and row in three steps.  Content is
`<<1, .., Size>>`, and a digest is the content it was taken of.  Every request
first looks at the permission rows, which the operator changes at any time
(`SetPolicy`).  `timeouts` counts the calls that were given up on a live session;
`late` what a client has stored since its permission was withdrawn.

**StoredObject.** Created once, finalized once and with the content that was
uploaded, returned when finalized, fetched as that; no frames, chunks or threads.
The mapping is in `ObjectTransfer` (`ImplementsStore`).

**ProxyRelay.** Per connection the thread's place in the control burst, then
the two pumps.  The lock, the proxy's identity, the `enrolled` flag and the
snapshot are shared.  An answer to an enrollment or a submit may be lost after
the server acted.  The frames the pumps copy are not represented (a pump is one
thread that reads a frame and then writes it, on connections `Framing` models);
a client that opens a new connection while the pumps of its old one still run is
two members of `Conns`.  `begun` is history: the registry's version when a
connection's burst took the lock.

**Codec, Messages, Framing, Wire.** `Codec` writes fields as digits and takes
them off again, and a field that is cut short raises.  `Messages` has for every
message of `protocol.py` what its encoder writes and, separately, the fields its
parser reads, in their orders.  The ciphers, the signature and the key derivation
are small checksums that depend on exactly what the code passes to the library:
so a swapped field of the associated data makes an answer unreadable, as it
would there; they say nothing of how strong the library's are.  `Framing` is one
direction of a socket: `Segment` is one recv, whose piece may end anywhere;
`TimeOut`, `SendCut` and `EndOfStream` are the calls that raise.  `Wire` builds
each message through all its layers, as `session.py` and `tunnel2.py` do, and
reads what `Framing` returned as the other end's handler does.  A parser's result
is the set of what it returns: one value, or none when it raises.  `Content` says
what the program puts into a message of each form: numbers that fit their field,
texts of any length, a kind that exists.  The names of `Framing`'s
specification begin with F (`FSpec`, `FTypeOK`).

## The runs

| Run | Checks | Shows |
|---|---|---|
| engine | TypeOK, WindowWellFormed, FallbackCovered, LifetimeBounded, NoRevival, ImplementsWindow, SuccessorResolved | every sequence of calls at every time, over almost three periods; a scheduler that asks for the checkpoint gets every successor decided |
| registry | TypeOK, RecoveryCutsOff, TokensPayForCredentials, RowsImplementWindow, OneEnrollment, RowsSurvive | two threads, stopped anywhere: what holds with lost updates, and what holds until two calls have overlapped |
| registry_race | RevocationHolds, refuted | two threads, a lost update: [finding 1](#findings) |
| protocol | TypeOK, ClientNeverAhead, NeverLockedOut, RolledBackTogether, RotationCompletes | time-outs, late answers, a break during a call, restarts from the file, the server's key rotating; and that rotations end when no call has failed |
| protocol_lost_answer | RetriesDecide, refuted | one connection lost at the wrong moment, and a retry that is answered: [finding 4](#findings).  The clock passes every expiry (`MaxTime = 9`), and the property does not count one as a decision: what ends the behaviour is neither the bound nor time |
| protocol_replacement | ReplacementPossible, refuted | [finding 2](#findings) |
| identity | TypeOK, RowsConsistent, KeysMatchRows, NeverExpires, KeysHeldWhileUp, FullCoverage, RefusedInPassing | a stop at every write, three starts, a failing write; what a process that stays up keeps besides, and when readers are refused |
| identity_key_lost | ActiveKeysHeld, refuted | [finding 3](#findings) |
| object | TypeOK, SealedIntact, WithdrawnStops, ImplementsStore | two uploaders that time out, break off and come back, a reader, and permissions that change meanwhile |
| auth | TypeOK, LastSeenKept, AcceptedOnce | three threads, every step of the cache one of its own, the cache at its limit, a restart |
| proxy | TypeOK, EnrolledOnce, RelaysOnFresh, CacheAdvances | two connections' bursts and relays, lost answers, the client and the proxy rotating |
| wire | FTypeOK, FramesInOrder, ParsedAsSent, CutDetected | every form of message, in segments that end anywhere, with a failing call on either side |

Some properties hold under a condition that says exactly what the code needs,
and are false without it:

* `ClientNeverAhead`, `NeverLockedOut` and `RolledBackTogether` need a socket
  time-out shorter than the validation period: 30 s (`session.py:114`) against
  12 h, half of the default T of 24 h.  `rotate` tries a checkpoint of its own
  copy on the answer to its submission (`session.py:202`), and what keeps that from being
  a promotion is only that the answer comes before T/2.  With `Timeout = 2`
  and `T = 4` TLC finds the client promoted and the server still validating,
  where `README.md:71` has the promotion "based strictly on the server's
  clock".  Nothing compares the two numbers (`SIH_ROTATION_DURATION` sets T
  alone, and T is 60 in the server's tests, where both are 30 s).  The
  configuration states the condition (`Timeout = 1`, `T = 4`), and so do the
  theorems.  `settimeout` bounds each recv and not the call: an answer that
  trickles in would outlast it.  In the model an answer comes in one piece, so the
  condition is on the longest call.
* `RotationCompletes` speaks until a call has failed (`faults`); finding 4 is
  what happens after.
* `RowsImplementWindow`, `RecoveryCutsOff` and `TokensPayForCredentials` speak
  until two calls have overlapped; finding 1 is what happens after.
* `ImplementsStore` speaks until a call has been given up on a session that
  stays open (`timeouts`); `SealedIntact` and `WithdrawnStops` always.
* `LastSeenKept` takes `overlap` off the number of keys a key outlives: what test
  and popitem without a lock cost.  With one thread at the cache `overlap` is 0 and
  the promise is the whole of `max_entries`.
* `AcceptedOnce` speaks of the envelopes that are not in `exposed`: with one
  thread, one process and a cache that holds the traffic, of all of them.
* `NeverExpires` and `KeysHeldWhileUp` speak of a process that found what it
  needs when it started (`timely`, `whole`), `FullCoverage` of the first one: a
  restart may follow a downtime of any length or find a key lost, which
  `identity_key_lost` shows.
* `FramesInOrder`, `ParsedAsSent` and `CutDetected` speak until an end uses a
  socket after a call on it raised.  The server's loop and the proxy's pumps
  never do; a client session does after a time-out.

Every property of a passing run has a mutant in `PROJECT.json`: an operator next
to the definition it changes, with a comment that says which mistake it is.

## Bounds

`T = 4` is the smallest period with a T/2 that has an interior instant, so that
before, at and after a deadline differ; `T = 2` in the registry, where the order
of deadlines is what matters; `T = 14` with a tick of 2 in `identity`: the tick fits
several times and does not divide T/2, so that every call can come late.  `MaxTime` covers at least one full life of a credential (3T/2)
after the first rotation is due where lifetimes are asked about, `MaxVersion`
the versions that can be made in that time; the clock stops there, and so do
the guards named after a bound: `LastSubmit`, `MaxQueue`, `MaxFaults`,
`ServerKeys`, `MaxStarts`, `MaxFailures`, `MaxAttempts`, `MaxTimeouts`,
`MaxPolicies`, `MaxArrivals`, `MaxRestarts`, `MaxFrames` (of `wire`).  In runs with liveness `LastSubmit`
leaves every successor enough clock to be decided.  Two threads, connections or
sessions are what each race here takes, and more of them do not change a step's
shape; two tokens make an enrollment and a recovery; three envelopes overfill a
cache of two, and `auth` has three threads, so that two can remove a key
while a third is anywhere; its clock and window are the least (`MaxTime = 2`,
`Window = 0`) that have timestamps on both sides of the window, because the time of an envelope
is looked at before the cache and never again.  Queues of up to three frames hold the answer being waited for and
one that is late.
In `wire` a byte has 16 values, numbers two of them and UUIDs and nonces one, so
that lengths, signs and digits still carry; the segments `Pieces` of 1, 3 and 24
bytes end at every place of a header and of most fields; `MaxFrameSize = 69`
is the size of the largest sample that may be sent, and another sample exceeds
it; two frames have one boundary that a segment can cross.  The samples have every
form of message, and a request also without its object and its strings.
In `registry` the last version is followed only until calls have overlapped
(`LastVersionAlone`).
Symmetry is used only where nothing tells the members apart and no temporal
formula is checked (sessions; envelopes and threads; the registry's threads, whose two
action properties look at rows alone).
`CHECK_DEADLOCK FALSE` stands where the clock and the bounds end the behaviours;
the engine's run does without it.

## Fairness

Three runs check liveness (`engine`, `protocol`, `protocol_lost_answer`); every other specification has no fairness.

* **Time passes** (`WF(Tick)`): bounded by `MaxTime`, as said.
* **Schedulers ask again** (`WF(Checkpoint)` of the engine, strong fairness of
  the client's `SendOther("checkpoint")`): "the scheduler retries"
  (`session.py:207-209`, `client/identity.py:220-222`).  Strong for the client,
  because another call of it can be under way whenever the scheduler looks.
* **The server and the client's reads run** (weak fairness of the steps of a
  connection in `RotationProtocol`): threads the operating system schedules.  An
  idle client reconnects (`Connect`), as every caller of the session does first.

Nothing is assumed about rotate, rollback, revoke or losing a connection.

## The proofs

All are about unbounded constants: any T from the assumption of `RotationOps`
(a natural number, odd ones included), any number of versions, threads, tokens,
connections, frames, sizes and faults, any clock.

| Component | Theorems (property) | Inductive invariant |
|---|---|---|
| engine | `TypeCorrect` (TypeOK), `WindowCorrect` (WindowWellFormed), `Irrevocable` (NoRevival), `TimingCorrect` (FallbackCovered, with PromotedInTime), `LifetimeCorrect` (LifetimeBounded), `Refinement` (ImplementsWindow) | `WindowInv`; `TimingInv` |
| registry | `RegistryTypeCorrect` (TypeOK), `EnrollmentExclusive` (OneEnrollment), `NoRowLost` (RowsSurvive), `RecoveryComplete` (RecoveryCutsOff), `TokensAlwaysPay` (TokensPayForCredentials), `RowsAreWindow` (RowsImplementWindow) | `EnrollInv`; `SerialInv` |
| server identity | `IdentityTypeCorrect` (TypeOK), `RowsAlwaysConsistent` (RowsConsistent), `RefusalIsPassing` (RefusedInPassing), `FileMatchesRows` (KeysMatchRows), `KeysNeverMissed` (KeysHeldWhileUp), `FallbackCoveredFully` (FullCoverage), `ActiveNeverExpires` (NeverExpires) | `IdInv`; `CoverInv`; `TimelyInv` |
| client and server | `ProtocolTypeCorrect` (TypeOK), `ClientStaysBehind` (ClientNeverAhead), `OwnerStaysLetIn` (NeverLockedOut), `GivenUpTogether` (RolledBackTogether) | `TypeInv`; `PairInv` |
| object transfer | `TransferTypeCorrect` (TypeOK), `SealedStaysIntact` (SealedIntact), `WithdrawalStops` (WithdrawnStops), `TransferImplementsStore` (ImplementsStore) | `OwnerInv`; `LateInv`; `SyncInv` |
| replay cache | `AuthTypeCorrect` (TypeOK), `AcceptedAtMostOnce` (AcceptedOnce), `RecentKeysKept` (LastSeenKept) | `TypeInv`; `OnceInv`; `PopInv`; `KeptInv` |
| wire | `FrameTypeCorrect` (FTypeOK), `WholeAndInOrder` (FramesInOrder), `MessagesParsedAsSent` (ParsedAsSent), `CutMessagesDetected` (CutDetected) | `FrameInv` with `InOrder` |
| proxy | `ProxyTypeCorrect` (TypeOK), `ProxyEnrollsOnce` (EnrolledOnce), `CacheOnlyAdvances` (CacheAdvances), `RelaysOnFreshSnapshot` (RelaysOnFresh) | `Exclusive`; `EnrollInv`; `CacheInv`; `FreshInv` |

`RotationOps_proofs` has the lemmas all engines share: what type each operator
returns, and that every operation is one of three moves (credentials `Leave` the
window, one may `Enter` it, or the window may `Advance`), each of which keeps
`Windowed`, one credential per place and the places in order.

**Engine.** `TimingInv` adds `Ages`: the dates of every VALIDATING and ACTIVE
record follow from when it was created.  The timing properties do not imply
themselves: how long a demoted credential has left follows only from when it
was made.  `Irrevocable` is proved per operation from `WindowInv`: without it a
promotion might move a second record.

**Registry.** `EnrollInv`: a thread past the claim has seen the identity row
written; the claim is the one step that brings a thread there, and needs the row
absent.  `NoRowLost`: every copy a thread saves is overlaid on the rows as they
are at that moment.  `SerialInv` says, until two calls overlap, that at most one
thread holds a copy, and that this copy is one move away from the rows it will be
saved over; between the two transactions of a recovery nothing usable is left.

**Server identity.** `IdInv` is four parts: types, the shape of the window in the
rows and at each step in memory (`ShapeInv`), where a key pair may be and where
else it then must be (`KeyInv`), and the dates of the window (`DateInv`).
`FullCoverage` was first stated with two intervals; the attempt to prove it
showed that three calls can each come an interval late (the promotion, the
submission of the next successor, its promotion), and TLC confirmed it at
`T = 14`.  `ActiveNeverExpires` has two hypotheses: three intervals fit into T/2,
which the defaults leave far behind (a call a minute, a day), and `MaxTime <=
MaxVersion`, under which the bound on versions never stops a rotation.

**Client and server.** `PairInv` says that the client stands at a version c, with
at most one successor, and the server at c or c + 1, or nowhere before the
enrollment; that a successor is submitted once and unknown to the server while
its submission travels; and, for every answer in flight, what the client may
conclude from it though it cannot tell to which call it belongs: a granted
checkpoint sealed for c means that the server has left c, a granted rollback or a
refused submission sealed for c that the successor is out for good.  The file is
the engine but for the mark of an outlived successor.  The hypothesis `Timeout <
ValidationPeriod` is used in one step, the answer to a submission; nothing is
assumed of the number of versions, of faults, of frames or of restarts.  The
server's rows change in one step here, as in the model.

**Object transfer.** `OwnerInv`: the connection whose WRITE was answered with yes
is the only one ever to have a chunk in flight or a thread at the file, so what
it measures and digests stays as it was.  `SyncInv`, until a call is given up:
connection and thread take turns, and every request is about the chunk the file
wants next; from it every step is a step of `StoredObject` or a stutter.

**Replay cache.** `TypeInv` has the size: the cache outgrows its limit by at most
an entry for each thread between its record and its eviction.  `OnceInv`: an
envelope outside `exposed` is accepted at most once, is in the cache once a
thread has recorded it, and is held by one thread past the test.  `PopInv`: each
thread that is about to remove a key found the cache full when there were `overlap`
others at most, so the cache still holds more than `MaxEntries - overlap` keys when
one goes.  `KeptInv` relates the order of the cache to the keys met since
(`newer`): behind a key of the cache stand only keys met since, so the first
goes when that many were.

**Proxy.** `Exclusive`: a connection is in its burst exactly when it holds the
lock.  From it the enrolled flag, the server's rows and the snapshot on its way
into the cache are each one thread's to change.  `FreshInv` follows what the
registry had when a burst began into the snapshot the connection is sent, and from
there into the cache, which only advances.

**Wire.** The statements are about data of any length, so each rests on an
induction.  The library's induction theorems take an operator as a parameter,
which the installed provers cannot instantiate; the module has its own, which
takes a set: `Least`, that a set of numbers has a least member, from the
library's `NatLessThanWellFounded` and `WFMin`, neither of which has such a
parameter, and from it `Induction` over `0 .. n` and `Iteration`, that a
function defined by recursion exists and is unique.  `Power`, `Number`,
`Decode` and `Checksum` are written as recursive functions for that.

*Order.* `FrameInv` bounds what a read asks for at each stage.  `InOrder` follows
the bytes: from the frames received so far on, what the reader holds followed by
what is on the stream is the concatenation of the encodings of the frames sent
and not yet returned, and possibly a part of one whose `sendall` gave up.  A
segment moves bytes from one side of that boundary to the other
(`Segmented`); a complete header is that of the next frame (`HeaderAhead`) and
gives its length, so that a complete payload is that frame's (`PayloadAhead`).

*Parsing.* A field that was encoded is taken off the front of any data that
begins with it, and leaves the rest (`Carries`, `TakeField`): for numbers because
digits give the number back (`NumberDigits`, `EncodesI64` with its sign), for
texts because their length is such a number.  A list of fields is an induction
over its fields (`Reached`, `Leading`), and each message has a lemma that its
encoder writes what its parser's fields expect (`RequestParsed` to
`SnapshotParsed`).  Layers compose: both ends compute the same secret
(`Exchanged`) and the same associated data (`HeaderAad`), so a box opens
(`MessageOpened`, `ChunkOpened`); the slices of an envelope are what was put
there (`EnvelopeParsed`), its signature is what the receiver computes, and the
inner text is one of the messages before.

*Cuts.* An envelope is as long as its header says, so that one of which the end is
missing fails one of the two length tests (`EnvelopeCut`); of a control message
the length prefix of the body is larger than what follows (`ControlCut`), and
an enrollment, which no envelope protects, is the body of one.  None of this
looks at the ciphers: the lengths suffice.

Assumptions on constants, besides bounds being natural numbers: sets of tokens,
envelopes and threads are finite where their members are counted, and no
connection is called "none".  `FramingAssumption` has the cap on a payload fit
into the length field of a frame (64 MiB in a u32, `framing.py`), without which
`send_frame` would raise for another reason; `WireAssumption` has the codes of
the program fit into a byte (there are fewer than five of each kind that is
fixed here), and the samples be messages that the program sends.

Only model-checked:

* liveness (`SuccessorResolved`, `RotationCompletes`): the prover has no rule for
  fairness or ENABLED;
* the four refuted properties, which are counterexamples and need none.

## Findings

Each is a run with one property, quoted in `PROJECT.json`.

1. `_apply` has nothing between load and save: a revocation can be undone (`registry_race`).
2. After a rollback no replacement can be generated, because it would carry the
   terminated version's number (`protocol_replacement`).
3. A stop between rows and key file loses a private key (`identity_key_lost`).
4. When the answer that grants a checkpoint is lost, asking again is refused, the
   server having nothing to promote, and the client reads that as "not yet"
   (`session.py:222-223`): it never mirrors the promotion
   (`protocol_lost_answer`).  `RetriesDecide` is about a retry that was sent after the
   promotion and answered, so the counterexample has that refusal in it.

Other places where the code does less than a document, a comment or a test says.
The models have the behaviour; no run states the property:

| Where | What |
|---|---|
| `credential_state.py:242` | a credential may enter FALLBACK with less validity left than the fallback period (lines 11-12 say never); checkpoint lengthens its expiry instead |
| `credential_state.py:242` | a reader between the demotion and the promotion finds no ACTIVE credential (`RefusedInPassing`: only there) |
| `session.py:202` | the client promotes on the answer to its submission when it waited for it past T/2 (only if T/2 is no longer than the socket's time-out) |
| `registry.py:220` | a recovery while a successor is VALIDATING spends its token and is then refused |
| `registry.py:171` | the engine's EXPIRED mark is dropped with the exception, and `expire_all` passes VALIDATING rows by: an outlived successor stays |
| `framing.py:43` | a time-out inside a frame loses the bytes that were read, and a session that is used again reads from the middle of the frame |
| `session.py:404` | a call repeated after a time-out takes the late answers for its own; an upload can be finalized with other content |
| `tunnel2.py:546` | no answer announces the server's new key |
| `tunnel2.py:429` | an empty object is never finalized |
| `api.py:52` | a read that began before the object was finalized returns its content unverified |
| `replay.py:26` | test and record are not one step: two threads accept the same envelope |
| `replay.py:30` | test and popitem are not one step: threads that find the cache full together each remove a key, up to the newest |
| `auth.py:79` | a VALIDATING credential does not authenticate, which lines 3-4 say it does |
| `proxy/tunnel.py:209` | once the proxy has submitted a successor, the next bursts raise and clients are turned away |
| `proxy/tunnel.py:130` | the relay ends when both directions have ended, where line 120 says either |
| `proxy/tunnel.py:126` | the frame validator is given to the direction from the server |

## What is left out

TLS configuration is a library's, and the ciphers are toys (see Wire).  Outside
`Wire`, a ciphertext is the version of its key and an envelope its sender and
nonce.  Text is bytes there, and keys, tags and signatures are shorter than in
the code; numbers too large for their field, which `struct` refuses, are not
sent.  The audit log is written and
never read.  The admin API calls registry operations that are modelled; the
second `ServerIdentity` it makes is not.  `ObjectStore.delete`, the
`ROTATE_REVOKE` request and `successor_announcement` have no production caller.
A partly appended chunk, and a proxy that restarts, are not modelled.
The demos are examples.

## Plan

Order of the modules, core first: RotationOps and RotationEngine with
CredentialWindow; Registry; RotationProtocol; ServerIdentity; ObjectTransfer
with StoredObject; EnvelopeAuth; ProxyRelay; Codec, Messages, Framing and Wire.
All of these exist.  Next:

*Proofs.* Every safety property of a passing run has its theorem.  Of the pair: an abstract specification of two windows that stay
within one promotion of each other, which `PairInv` would show
`RotationProtocol` to implement; `AcceptedOnce` and `LastSeenKept` as a
refinement of an unbounded set of accepted envelopes.

*Models.* An abstract registry that says what a revocation promises the rest of
the window; the admin API's second `ServerIdentity`; the proxy's restart, and
its snapshot as a whole window with VALIDATING entries; `RotationProtocol` over
`Registry`'s steps instead of atomic ones.
