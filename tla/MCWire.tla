--------------------------------- MODULE MCWire --------------------------------
EXTENDS Wire

Drawn == [request_id |-> <<7>>, timestamp |-> 20, nonce |-> <<5>>, ephemeral |-> 9]

Control(form, ctype, value) == Drawn @@ [form |-> form, ctype |-> ctype, value |-> value]
Relay(form, value)          == Drawn @@ [form |-> form, value |-> value]

MCClient == [uuid |-> <<3>>, version |-> 2, ed25519 |-> 4, x25519 |-> 6]
MCServer == [uuid |-> <<8>>, version |-> 1, ed25519 |-> 11, x25519 |-> 13]

Request(object, type, size, metadata) ==
  [op |-> 2, object_uuid |-> object, file_type |-> type, file_size |-> size,
   metadata |-> metadata]

Entry(version, status, deadline) ==
  [identity_uuid |-> <<3>>, version |-> version, status |-> status,
   ed25519_public |-> <<4>>, x25519_public |-> <<>>, created_at |-> -1,
   validation_deadline |-> deadline, activation_time |-> 19, expiration_time |-> 127]

MCSamples ==
  { Control("enroll", 1, [kind |-> 2, token |-> <<1, 15>>, version |-> 1,
                          ed25519_public |-> <<4>>, x25519_public |-> <<6>>]),
    Control("enrolled", 2, [status |-> 0, message |-> <<14>>,
                            key_info |-> [version |-> 1, ed25519_public |-> <<11>>,
                                          x25519_public |-> <<13>>, prev_version |-> 0,
                                          successor_signature |-> <<>>]]),
    Control("kind", 12, 2),
    Control("snapshot", 13, <<Entry(1, 3, 0), Entry(2, 2, 18)>>),
    Control("submission", 4, [identity |-> <<3>>, old_version |-> 2, new_version |-> 3,
                              ed25519_public |-> <<5>>, x25519_public |-> <<2, 7>>,
                              metadata |-> <<>>, signature |-> <<12>>]),
    Control("nothing", 6, <<>>),
    Control("status", 7, [status |-> 1, message |-> <<10>>]),
    Relay("request", Request(<<0>>, <<9>>, 200, <<2, 3>>)),
    Relay("request", Request(NoUuid, <<>>, 0, <<>>)),
    Relay("request", Request(<<1>>, [i \in 1 .. 70 |-> 1], 3, <<>>)),
    Relay("response", [status |-> 0, message |-> <<>>, object_uuid |-> <<1>>,
                       file_type |-> <<9>>, file_size |-> 200, content_integrity |-> <<6>>,
                       server_key_version |-> 0, server_ed25519_public |-> <<>>,
                       server_x25519_public |-> <<>>, server_successor_signature |-> <<>>,
                       server_prev_version |-> 0]),
    Relay("chunk", [object_uuid |-> <<1>>, index |-> 0, data |-> <<0, 15, 8>>]),
    Relay("chunk_reply", [object_uuid |-> <<0>>, index |-> 17, data |-> <<4>>]) }

SampleFrames == {Carried(m) : m \in MCSamples}
==============================================================================
