---------------------------------- MODULE Wire ---------------------------------
(***************************************************************************)
(* Messages on a connection: what one end builds from a value, layer by    *)
(* layer (inner encoding, encryption, envelope, control message, frame),   *)
(* and what the other end's handler makes of the frame it reads.  The two  *)
(* ends are ClientSession (client/sih_client/session.py) and _Connection   *)
(* (server/sih_server/tunnel2.py).                                         *)
(*                                                                         *)
(* A message is a record of the form of its content, the content, and what *)
(* the code draws for it (request_id, timestamp, nonce and ephemeral key). *)
(***************************************************************************)
EXTENDS Framing, Messages

CONSTANTS Samples,        \* the messages that may be sent
          Client, Server  \* their uuid, credential version and private keys

Party == [uuid : Id, version : Uint32, ed25519 : Byte, x25519 : Byte]

KeyInfo == [version : Uint32, ed25519_public : Text, x25519_public : Text,
            prev_version : Uint32, successor_signature : Text]

RegistryEntry == [identity_uuid : Id, version : Uint32, status : Byte, ed25519_public : Text,
                  x25519_public : Text, created_at : Int64, validation_deadline : Int64,
                  activation_time : Int64, expiration_time : Int64]

Chunk == [object_uuid : Id, index : Uint64, data : Text]

\* What the program puts into a message.
Content(form) ==
  CASE form = "enroll"     -> [kind : Kinds, token : Text, version : Uint32,
                               ed25519_public : Text, x25519_public : Text]
    [] form = "enrolled"   -> [status : {0}, message : Text, key_info : KeyInfo] \cup
                              [status : Byte \ {0}, message : Text, key_info : {<<>>}]
    [] form = "kind"       -> Kinds
    [] form = "submission" -> [identity : Id, old_version : Uint32, new_version : Uint32,
                               ed25519_public : Text, x25519_public : Text, metadata : Text,
                               signature : [1 .. SignatureSize -> Byte]]
    [] form = "nothing"    -> {<<>>}
    [] form = "snapshot"   -> {entries \in Seq(RegistryEntry) : Len(entries) \in Uint32}
    [] form = "status"     -> [status : Byte, message : Text]
    [] form = "request"    -> [op : Byte, object_uuid : Id \cup {NoUuid}, file_type : Text,
                               file_size : Uint64, metadata : Text]
    [] form = "response"   -> [status : Byte, message : Text, object_uuid : Id \cup {NoUuid},
                               file_type : Text, file_size : Uint64, content_integrity : Text,
                               server_key_version : Uint32, server_ed25519_public : Text,
                               server_x25519_public : Text, server_successor_signature : Text,
                               server_prev_version : Uint32]
    [] form \in {"chunk", "chunk_reply"} -> Chunk

ToServer  == {"enroll", "kind", "submission", "nothing", "request", "chunk"}
IsRaw(m)   == m.form \in {"enroll", "enrolled"}
IsChunk(m) == m.form \in {"chunk", "chunk_reply"}
IsRelayed(m) == IsChunk(m) \/ m.form \in {"request", "response"}

Sender(m)    == IF m.form \in ToServer THEN Client ELSE Server
Recipient(m) == IF m.form \in ToServer THEN Server ELSE Client

CHANNEL_CONTROL == 0
CHANNEL_RELAY   == 1

REQUEST   == 1
OBJ_CHUNK == 3
CONTROL   == 4

-------------------------------------------------------------------------------
\* Building a message.

Inner(m) ==
  CASE m.form = "kind"       -> U8(m.value)
    [] m.form = "submission" -> EncodeSubmission(m.value)
    [] m.form = "nothing"    -> <<>>
    [] m.form = "snapshot"   -> EncodeSnapshot(m.value)
    [] m.form = "status"     -> EncodeStatus(m.value)
    [] m.form = "request"    -> EncodeRequest(m.value)
    [] m.form = "response"   -> EncodeResponse(m.value)

\* All answers of the server but a chunk go out under the type REQUEST.
MsgType(m) == IF IsChunk(m) THEN OBJ_CHUNK
              ELSE IF m.form = "request" \/ m.form \notin ToServer THEN REQUEST ELSE CONTROL

Header(m) == [version |-> EnvelopeVersion, msg_type |-> MsgType(m),
              sender_uuid |-> Sender(m).uuid, recipient_uuid |-> Recipient(m).uuid,
              request_id |-> m.request_id,
              sender_credential_version |-> Sender(m).version,
              timestamp |-> m.timestamp, nonce |-> m.nonce]

Public(private) == <<private>>

SealedMessage(m) ==
  WrapEncrypted([version    |-> Recipient(m).version,
                 ephemeral  |-> Public(m.ephemeral),
                 nonce      |-> m.nonce,
                 ciphertext |-> SealMessage(Public(Recipient(m).x25519), m.ephemeral, m.nonce,
                                            BuildAad(Header(m), 0), Inner(m))])

SealedChunk(m) ==
  LET c == m.value
  IN  WrapChunk([version     |-> Recipient(m).version,
                 object_uuid |-> c.object_uuid,
                 index       |-> c.index,
                 ephemeral   |-> Public(m.ephemeral),
                 ciphertext  |-> SealChunk(Public(Recipient(m).x25519), m.ephemeral,
                                           c.object_uuid, c.index,
                                           BuildAad(Header(m), c.index), c.data)])

Envelope(m) ==
  LET unsigned == With(Header(m), "payload", IF IsChunk(m) THEN SealedChunk(m)
                                                           ELSE SealedMessage(m))
  IN  With(unsigned, "signature", Sign(Sender(m).ed25519, SignedBytes(unsigned)))

\* The enrollment and its answer travel in clear inside TLS.
Body(m) == CASE m.form = "enroll"   -> EncodeEnrollment(m.value)
             [] m.form = "enrolled" -> EncodeEnrollResponse(m.value)
             [] OTHER               -> EncodeEnvelope(Envelope(m))

Carried(m) ==
  IF IsRelayed(m) THEN [channel |-> CHANNEL_RELAY, payload |-> Body(m)]
  ELSE [channel |-> CHANNEL_CONTROL,
        payload |-> EncodeControl([ctype |-> m.ctype, body |-> Body(m)])]

-------------------------------------------------------------------------------
\* Reading one: m is what the reader waits for, of which it uses the form, the
\* control type and its own keys.

ParseInner(m, data) ==
  CASE m.form = "kind"       -> IF data = <<>> THEN Returned(1)
                                ELSE IF data[1] \in Kinds THEN Returned(data[1]) ELSE Raised
    [] m.form = "submission" -> ParseSubmission(data)
    [] m.form = "nothing"    -> Returned(<<>>)
    [] m.form = "snapshot"   -> ParseSnapshot(data)
    [] m.form = "status"     -> Parsed(StatusFields, data)
    [] m.form = "request"    -> Parsed(RequestFields, data)
    [] m.form = "response"   -> Parsed(ResponseFields, data)

\* The server looks the sender's key up by the uuid and version in the header
\* and verifies the signature; a client takes what it can decrypt.
Authentic(m, e) ==
  m.form \in ToServer =>
    /\ e.sender_uuid = Client.uuid /\ e.sender_credential_version = Client.version
    /\ e.signature = Sign(Client.ed25519, SignedBytes(e))

Opened(m, e) ==
  Then(ParsedWhole(EncryptedFields, e.payload),
       LAMBDA w : OpenMessage(Recipient(m).x25519, w.ephemeral, w.nonce, BuildAad(e, 0),
                              w.ciphertext))

OpenedChunk(m, e) ==
  Then(UnwrapChunk(e.payload), LAMBDA w :
    Then(OpenChunk(Recipient(m).x25519, w.ephemeral, w.object_uuid, w.index,
                   BuildAad(e, w.index), w.ciphertext), LAMBDA data :
      Returned([object_uuid |-> w.object_uuid, index |-> w.index, data |-> data])))

\* The client looks at the type only after it has asked for a chunk.
ReadEnvelope(m, data) ==
  Then(ParseEnvelope(data), LAMBDA e :
    IF ~Authentic(m, e) THEN Raised
    ELSE IF m.form \in {"request", "chunk", "chunk_reply"} /\ e.msg_type = OBJ_CHUNK
    THEN OpenedChunk(m, e)
    ELSE Then(Opened(m, e), LAMBDA text : ParseInner(m, text)))

ReadBody(m, body) == CASE m.form = "enroll"   -> ParseEnrollment(body)
                       [] m.form = "enrolled" -> ParseEnrollResponse(body)
                       [] OTHER               -> ReadEnvelope(m, body)

Understood(m, frame) ==
  IF IsRelayed(m)
  THEN IF frame.channel # CHANNEL_RELAY THEN Raised ELSE ReadBody(m, frame.payload)
  ELSE IF frame.channel # CHANNEL_CONTROL THEN Raised
  ELSE Then(Parsed(ControlFields, frame.payload), LAMBDA c :
         IF c.ctype # m.ctype THEN Raised ELSE ReadBody(m, c.body))

-------------------------------------------------------------------------------

Forms == {"enroll", "enrolled", "kind", "submission", "nothing", "snapshot", "status",
          "request", "response", "chunk", "chunk_reply"}

WellFormed(m) ==
  /\ m.form \in Forms /\ m.value \in Content(m.form)
  /\ m.request_id \in Id /\ m.timestamp \in Int64 /\ m.nonce \in Nonce /\ m.ephemeral \in Byte
  /\ ~IsRelayed(m) => m.ctype \in Byte

\* The codes of the program fit into a byte.
ASSUME WireAssumption == /\ Base > 4
                         /\ {Client, Server} \subseteq Party
                         /\ \A m \in Samples : WellFormed(m)
                         /\ Frames = {Carried(m) : m \in Samples}

\* Evaluated once.
Carriage     == [m \in Samples |-> Carried(m)]
CarriedBy(f) == CHOOSE m \in Samples : Carriage[m] = f

\* However its bytes are cut into segments, a message is read at the other end
\* as it was sent, field by field through every layer, unless an end goes on
\* using the socket after a call on it has raised.
ParsedAsSent ==
  ~resumed => \A i \in DOMAIN received :
                LET m == CarriedBy(sent[i]) IN Understood(m, received[i]) = Returned(m.value)

\* If the part of a payload that has arrived were taken for the whole, as when
\* a call gives up inside a frame, some layer would raise: no prefix of a
\* message is a message.
CutDetected ==
  ~resumed /\ stage = "payload" /\ Waiting /\ Len(received) < Len(sent) =>
    Understood(CarriedBy(sent[Len(received) + 1]), [channel |-> channel, payload |-> chunks])
      = Raised
==============================================================================
