------------------------------- MODULE Messages -------------------------------
(***************************************************************************)
(* The messages of shared/sih_shared/protocol.py, layer by layer: what the *)
(* sender encodes, field by field, and what the receiver parses.  The two  *)
(* are separate code and are separate definitions here.                    *)
(*                                                                         *)
(* The ciphers and the signature are toys of the same shape (crypto.py     *)
(* calls a library): a ciphertext is as long as its text and ends with a   *)
(* tag over the key, the nonce, the associated data and the text.          *)
(***************************************************************************)
EXTENDS Codec

\* What a parser makes of its input: the value it returns, or no value when it
\* raises.
Returned(x) == {x}
Raised      == {}

\* The next step of a parser, unless the last one raised.
Then(result, Step(_)) == UNION {Step(x) : x \in result}

Parsed(fields, data) == LET d == Decode(fields, data)
                        IN  IF d.ok THEN Returned(d.value) ELSE Raised

\* With the test for trailing data.
ParsedWhole(fields, data) == LET d == Decode(fields, data)
                             IN  IF d.ok /\ d.rest = <<>> THEN Returned(d.value) ELSE Raised

OrNil(u) == IF u = NoUuid THEN NilUuid ELSE u

-------------------------------------------------------------------------------
\* Application requests and answers.

EncodeRequest(m) == U8(m.op) \o Uuid(m.object_uuid) \o Bytes(m.file_type)
                      \o U64(m.file_size) \o Bytes(m.metadata)

\* Mutant of RequestFields: two fields of the same kind are read in the wrong order.
RequestFieldsSwapped == << <<"op", "u8">>, <<"object_uuid", "uuid">>, <<"metadata", "bytes">>,
                           <<"file_size", "u64">>, <<"file_type", "bytes">> >>

RequestFields == << <<"op", "u8">>, <<"object_uuid", "uuid">>, <<"file_type", "bytes">>,
                    <<"file_size", "u64">>, <<"metadata", "bytes">> >>

EncodeResponse(m) ==
  U8(m.status) \o Bytes(m.message) \o Uuid(m.object_uuid) \o Bytes(m.file_type)
    \o U64(m.file_size) \o Bytes(m.content_integrity) \o U32(m.server_key_version)
    \o Bytes(m.server_ed25519_public) \o Bytes(m.server_x25519_public)
    \o Bytes(m.server_successor_signature) \o U32(m.server_prev_version)

ResponseFields ==
  << <<"status", "u8">>, <<"message", "bytes">>, <<"object_uuid", "uuid">>,
     <<"file_type", "bytes">>, <<"file_size", "u64">>, <<"content_integrity", "bytes">>,
     <<"server_key_version", "u32">>, <<"server_ed25519_public", "bytes">>,
     <<"server_x25519_public", "bytes">>, <<"server_successor_signature", "bytes">>,
     <<"server_prev_version", "u32">> >>

-------------------------------------------------------------------------------
\* Control messages and their bodies.

EncodeControl(m) == U8(m.ctype) \o Bytes(m.body)
ControlFields    == << <<"ctype", "u8">>, <<"body", "bytes">> >>

\* The body of an answer to a rotation request has the form of a control message.
StatusFields == << <<"status", "u8">>, <<"message", "bytes">> >>
EncodeStatus(m) == EncodeControl([ctype |-> m.status, body |-> m.message])

EncodeEnrollment(m) == U8(m.kind) \o Bytes(m.token) \o U32(m.version)
                         \o Bytes(m.ed25519_public) \o Bytes(m.x25519_public)

EnrollmentFields == << <<"kind", "u8">>, <<"token", "bytes">>, <<"version", "u32">>,
                       <<"ed25519_public", "bytes">>, <<"x25519_public", "bytes">> >>

Kinds == 1 .. 3   \* CLIENT, PROXY, SERVER

ParseEnrollment(data) ==
  Then(Parsed(EnrollmentFields, data), LAMBDA m : IF m.kind \in Kinds THEN Returned(m) ELSE Raised)

EncodeKeyInfo(m) == U32(m.version) \o Bytes(m.ed25519_public) \o Bytes(m.x25519_public)
                      \o U32(m.prev_version) \o Bytes(m.successor_signature)

KeyInfoFields == << <<"version", "u32">>, <<"ed25519_public", "bytes">>,
                    <<"x25519_public", "bytes">>, <<"prev_version", "u32">>,
                    <<"successor_signature", "bytes">> >>

\* The key information is parsed only when the enrollment was accepted.
EncodeEnrollResponse(m) ==
  U8(m.status) \o Bytes(m.message)
    \o Bytes(IF m.status = 0 THEN EncodeKeyInfo(m.key_info) ELSE <<>>)

EnrollResponseFields == << <<"status", "u8">>, <<"message", "bytes">>, <<"key_info", "bytes">> >>

ParseEnrollResponse(data) ==
  Then(Parsed(EnrollResponseFields, data),
       LAMBDA m : IF m.status # 0 THEN Returned(m)
                  ELSE Then(Parsed(KeyInfoFields, m.key_info),
                            LAMBDA k : Returned([m EXCEPT !.key_info = k])))

SuccessorTag == <<1>>

EncodeSuccessor(m) == Bytes(SuccessorTag) \o Uuid(m.identity) \o U32(m.old_version)
                        \o U32(m.new_version) \o Bytes(m.ed25519_public)
                        \o Bytes(m.x25519_public) \o Bytes(m.metadata)

SuccessorFields == << <<"tag", "bytes">>, <<"identity", "uuid">>, <<"old_version", "u32">>,
                      <<"new_version", "u32">>, <<"ed25519_public", "bytes">>,
                      <<"x25519_public", "bytes">>, <<"metadata", "bytes">> >>

SignatureSize == 1

\* A successor is submitted with its signature behind it.
EncodeSubmission(m) == EncodeSuccessor(m) \o m.signature

ParseSubmission(data) ==
  LET size == Len(data) - SignatureSize
  IN  Then(Parsed(SuccessorFields, Slice(data, 0, size)),
           LAMBDA m : IF m.tag # SuccessorTag THEN Raised
                      ELSE Returned([identity |-> OrNil(m.identity),
                                     old_version |-> m.old_version,
                                     new_version |-> m.new_version,
                                     ed25519_public |-> m.ed25519_public,
                                     x25519_public |-> m.x25519_public,
                                     metadata |-> m.metadata,
                                     signature |-> Slice(data, size, Len(data))]))

EncodeEntry(e) == Uuid(e.identity_uuid) \o U32(e.version) \o U8(e.status)
                    \o Bytes(e.ed25519_public) \o Bytes(e.x25519_public) \o I64(e.created_at)
                    \o I64(e.validation_deadline) \o I64(e.activation_time)
                    \o I64(e.expiration_time)

EntryFields == << <<"identity_uuid", "uuid">>, <<"version", "u32">>, <<"status", "u8">>,
                  <<"ed25519_public", "bytes">>, <<"x25519_public", "bytes">>,
                  <<"created_at", "i64">>, <<"validation_deadline", "i64">>,
                  <<"activation_time", "i64">>, <<"expiration_time", "i64">> >>

ParseEntry(data) ==
  Then(Parsed(EntryFields, data),
       LAMBDA e : Returned([e EXCEPT !.identity_uuid = OrNil(e.identity_uuid)]))

EncodeSnapshot(entries) ==
  U32(Len(entries)) \o FlattenSeq([i \in DOMAIN entries |-> Bytes(EncodeEntry(entries[i]))])

ParseSnapshot(data) ==
  LET head    == Decode(<< <<"count", "u32">> >>, data)
      records == ParsedWhole([i \in 1 .. head.value.count |-> <<i, "bytes">>], head.rest)
  IN  IF ~head.ok THEN Raised
      ELSE Then(records, LAMBDA rs :
             IF \E i \in 1 .. head.value.count : ParseEntry(rs[i]) = Raised THEN Raised
             ELSE Returned([i \in 1 .. head.value.count |-> CHOOSE e \in ParseEntry(rs[i]) : TRUE]))

-------------------------------------------------------------------------------
\* The envelope: a fixed header, the payload and a signature over both.

EnvelopeVersion == 1

PackHeader(e) == U8(e.version) \o U8(e.msg_type) \o e.sender_uuid \o e.recipient_uuid
                   \o e.request_id \o U32(e.sender_credential_version) \o I64(e.timestamp)
                   \o e.nonce \o U32(Len(e.payload))

HeaderFields ==
  << <<"version", "u8">>, <<"msg_type", "u8">>, <<"sender_uuid", "id">>,
     <<"recipient_uuid", "id">>, <<"request_id", "id">>,
     <<"sender_credential_version", "u32">>, <<"timestamp", "i64">>, <<"nonce", "nonce">>,
     <<"payload_len", "u32">> >>

EnvelopeHeaderSize == 2 + 3 * UuidWidth + IntWidth + LongWidth + NonceWidth + IntWidth

SignedBytes(e)    == PackHeader(e) \o e.payload
EncodeEnvelope(e) == SignedBytes(e) \o e.signature

\* The payload and the signature are slices: each is measured.
ParseEnvelope(data) ==
  IF Len(data) < EnvelopeHeaderSize + SignatureSize THEN Raised
  ELSE LET h         == Decode(HeaderFields, Slice(data, 0, EnvelopeHeaderSize)).value
           end       == EnvelopeHeaderSize + h.payload_len
           payload   == Slice(data, EnvelopeHeaderSize, end)
           signature == Slice(data, end, Len(data))
       IN  IF \/ h.version # EnvelopeVersion
              \/ Len(payload) # h.payload_len
              \/ Len(signature) # SignatureSize
           THEN Raised
           ELSE Returned([version |-> h.version, msg_type |-> h.msg_type,
                          sender_uuid |-> h.sender_uuid, recipient_uuid |-> h.recipient_uuid,
                          request_id |-> h.request_id,
                          sender_credential_version |-> h.sender_credential_version,
                          timestamp |-> h.timestamp, nonce |-> h.nonce,
                          payload |-> payload, signature |-> signature])

\* The associated data of a ciphertext: its envelope's header and its chunk.
AadTag == <<2>>

BuildAad(e, index) ==
  Bytes(AadTag) \o Uuid(e.sender_uuid) \o Uuid(e.recipient_uuid) \o Uuid(e.request_id)
    \o U32(e.sender_credential_version) \o I64(e.timestamp) \o Bytes(e.nonce) \o U64(index)

EncryptedFields == << <<"version", "u32">>, <<"ephemeral", "bytes">>, <<"nonce", "bytes">>,
                      <<"ciphertext", "bytes">> >>

WrapEncrypted(w) == U32(w.version) \o Bytes(w.ephemeral) \o Bytes(w.nonce) \o Bytes(w.ciphertext)

ChunkFields == << <<"version", "u32">>, <<"object_uuid", "uuid">>, <<"index", "u64">>,
                  <<"ephemeral", "bytes">>, <<"ciphertext", "bytes">> >>

WrapChunk(w) == U32(w.version) \o Uuid(w.object_uuid) \o U64(w.index) \o Bytes(w.ephemeral)
                  \o Bytes(w.ciphertext)

UnwrapChunk(data) ==
  Then(ParsedWhole(ChunkFields, data), LAMBDA w :
    Returned([w EXCEPT !.object_uuid = OrNil(@)]))

-------------------------------------------------------------------------------
\* crypto.py.

\* Any checksum of the bytes would do.
Checksum(b) == LET upto[i \in 0 .. Len(b)] ==
                     IF i = 0 THEN 0 ELSE (3 * upto[i - 1] + b[i] + 1) % Base
               IN  U8(upto[Len(b)])

Sign(private, data)     == Checksum(<<private>> \o data)
Exchange(private, peer) == (private + peer[1]) % Base

Encrypt(key, nonce, aad, text) ==
  [i \in DOMAIN text |-> (text[i] + key) % Base] \o Checksum(<<key>> \o nonce \o aad \o text)

Decrypt(key, nonce, aad, data) ==
  LET text == [i \in 1 .. Len(data) - 1 |-> (data[i] - key) % Base]
  IN  IF data # <<>> /\ Encrypt(key, nonce, aad, text) = data THEN Returned(text)
      ELSE Raised

\* The key of a chunk also depends on its object, and its nonce is its index.
ObjectKey(secret, object) == Checksum(<<secret>> \o object)[1]
ChunkNonce(index)         == Digits(index, NonceWidth)

SealMessage(public, ephemeral, nonce, aad, text) ==
  Encrypt(Exchange(ephemeral, public), nonce, aad, text)

OpenMessage(private, ephemeral, nonce, aad, data) ==
  Decrypt(Exchange(private, ephemeral), nonce, aad, data)

SealChunk(public, ephemeral, object, index, aad, text) ==
  Encrypt(ObjectKey(Exchange(ephemeral, public), object), ChunkNonce(index), aad, text)

OpenChunk(private, ephemeral, object, index, aad, data) ==
  Decrypt(ObjectKey(Exchange(private, ephemeral), object), ChunkNonce(index), aad, data)
==============================================================================
