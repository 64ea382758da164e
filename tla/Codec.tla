--------------------------------- MODULE Codec ---------------------------------
(***************************************************************************)
(* The binary encoding of shared/sih_shared/codec.py: an Encoder appends   *)
(* fields to a buffer, a Decoder takes them off it from the front and      *)
(* raises when too few bytes are left.                                     *)
(*                                                                         *)
(* Abstractions: bytes have Base values and the fields are narrower than   *)
(* in the code; a str is the sequence of its UTF-8 bytes.                  *)
(***************************************************************************)
EXTENDS Integers, SequencesExt

CONSTANTS Base,       \* values of a byte
          IntWidth,   \* bytes of a u32
          LongWidth,  \* bytes of a u64 or an i64
          UuidWidth,  \* bytes of a UUID
          NonceWidth  \* bytes of a nonce

ASSUME CodecAssumption ==
  Base \in Nat \ {0, 1} /\ {IntWidth, LongWidth, UuidWidth, NonceWidth} \subseteq Nat \ {0}

Byte == 0 .. Base - 1

\* How many numbers w bytes can stand for.
Power(w) == LET upto[i \in 0 .. w] == IF i = 0 THEN 1 ELSE Base * upto[i - 1]
            IN  upto[w]

\* Big-endian digits of n, and the number some bytes stand for.
Digits(n, w) == [i \in 1 .. w |-> (n \div Power(w - i)) % Base]
Number(b)    == LET upto[i \in 0 .. Len(b)] == IF i = 0 THEN 0 ELSE upto[i - 1] * Base + b[i]
                IN  upto[Len(b)]

\* Two's complement.
Signed(b) == LET n == Number(b)
             IN  IF 2 * n < Power(Len(b)) THEN n ELSE n - Power(Len(b))

\* data[from : to], which Python cuts off at the end of the data.
Slice(data, from, to) == SubSeq(data, from + 1, Min({to, Len(data)}))

\* What fits into the fields; struct refuses other numbers.
Uint32 == 0 .. Power(IntWidth) - 1
Uint64 == 0 .. Power(LongWidth) - 1
Int64  == -(Power(LongWidth) \div 2) .. (Power(LongWidth) - 1) \div 2
Text   == Seq(Byte)
Id     == [1 .. UuidWidth -> Byte]
Nonce  == [1 .. NonceWidth -> Byte]

-------------------------------------------------------------------------------

U8(n)    == Digits(n, 1)
U32(n)   == Digits(n, IntWidth)
U64(n)   == Digits(n, LongWidth)
I64(n)   == Digits(n % Power(LongWidth), LongWidth)
Bytes(b) == U32(Len(b)) \o b

NoUuid  == <<>>   \* None
NilUuid == [i \in 1 .. UuidWidth |-> 0]

Uuid(u) == IF u = NoUuid THEN U8(0) \o NilUuid ELSE U8(1) \o u

-------------------------------------------------------------------------------

\* What a Decoder can be asked for.  "id" and "nonce" are struct's 16s and 12s,
\* which only the envelope's header has.
Fixed == [u8 |-> 1, u32 |-> IntWidth, u64 |-> LongWidth, i64 |-> LongWidth,
          uuid |-> 1 + UuidWidth, id |-> UuidWidth, nonce |-> NonceWidth]

\* The number of bytes the next field takes, when rest is what is left; the
\* prefix of a byte string may itself be cut short.
Size(kind, rest) == IF kind = "bytes" THEN IntWidth + Number(Slice(rest, 0, IntWidth))
                                      ELSE Fixed[kind]

\* The UUID of a flag and 16 bytes: with the flag 0 the bytes are passed over.
Value(kind, b) ==
  CASE kind \in {"u8", "u32", "u64"} -> Number(b)
    [] kind = "i64"                  -> Signed(b)
    [] kind \in {"id", "nonce"}      -> b
    [] kind = "bytes"                -> Slice(b, IntWidth, Len(b))
    [] kind = "uuid"                 -> IF b[1] = 0 THEN NoUuid ELSE Slice(b, 1, Len(b))

\* Mutant of Enough: _take hands out what there is.
EnoughAnyway(rest, n) == rest # <<>>

Enough(rest, n) == Len(rest) >= n

With(record, name, x) ==
  [n \in DOMAIN record \cup {name} |-> IF n = name THEN x ELSE record[n]]

\* Decoding a list of fields, each <<name, kind>>.  The result has what is left
\* and the values by name; it is not ok when a field was truncated.
Take(d, field) ==
  LET n == Size(field[2], d.rest)
  IN  IF d.ok /\ Enough(d.rest, n)
      THEN [ok    |-> TRUE,
            rest  |-> Slice(d.rest, n, Len(d.rest)),
            value |-> With(d.value, field[1], Value(field[2], Slice(d.rest, 0, n)))]
      ELSE [d EXCEPT !.ok = FALSE]

Decode(fields, data) ==
  LET upto[i \in 0 .. Len(fields)] ==
        IF i = 0 THEN [ok |-> TRUE, rest |-> data, value |-> <<>>]
                 ELSE Take(upto[i - 1], fields[i])
  IN  upto[Len(fields)]
==============================================================================
