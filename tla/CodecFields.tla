---------------------------- MODULE CodecFields ----------------------------
(***************************************************************************)
(* The fields that a contract writes to calldata, an event or a return     *)
(* value.  A state is one of them.                                         *)
(***************************************************************************)
EXTENDS ByteCodec, Inputs

Unsigned == {"u8", "u16", "u32", "u64", "u128", "u256"}
ByteString(length) == [1 .. length -> Byte]
Extended == [tweaked : ByteString(AddressLength), key : ByteString(AddressLength)]
Entry(keys) == [key : keys, value : ByteString(Width.u256)]

\* What a length in front of it can count.
Counted(S) == {s \in Seq(S) : Len(s) < PlaceValue[Width.u32]}

Method(types, be, values) == [kind : {"field"}, type : types, be : be, value : values]

\* Text has no zero byte, where the reader of a string would stop.
AnyField ==
    (UNION {Method({type}, BOOLEAN, ByteString(Width[type])) : type \in Integer})
    \cup Method({"boolean"}, BOOLEAN, BOOLEAN)
    \cup Method({"bytesWithLength"}, BOOLEAN, Counted(Byte))
    \cup Method({"stringWithLength"}, BOOLEAN, Counted(Byte \ {0}))
    \cup Method({"address"}, BOOLEAN, {s \in Seq(Byte) : Len(s) >= AddressLength})
    \cup Method({"extendedAddress"}, BOOLEAN, Extended)
    \cup Method({"schnorr"}, BOOLEAN, [address : Extended, signature : Seq(Byte)])
    \cup (UNION {[kind : {"field"}, type : {"integers"}, element : {type}, be : BOOLEAN,
                  value : Seq(ByteString(Width[type]))] : type \in Unsigned})
    \cup Method({"buffers"}, BOOLEAN, Seq(Counted(Byte)))
    \cup Method({"addresses"}, BOOLEAN, Seq(ByteString(AddressLength)))
    \cup Method({"extendedAddresses"}, BOOLEAN, Seq(Extended))
    \cup Method({"addressMap"}, BOOLEAN, Seq(Entry(ByteString(AddressLength))))
    \cup Method({"extendedAddressMap"}, BOOLEAN, Seq(Entry(Extended)))

Field(type, be, value) == [kind |-> "field", type |-> type, be |-> be, value |-> value]

FieldsNext ==
    \/ input = Nothing /\ \E f \in AnyField : input' = f
    \/ input # Nothing /\ input' = Nothing

FieldsSpec == Init /\ [][FieldsNext]_input

-----------------------------------------------------------------------------
(* Outcomes of reads are not mistaken for a revert.                        *)

Reader == [buffer : Buffer, offset : Nat]
ReadExtended == [tweaked : Buffer, key : Buffer]
ReadValue ==
    Buffer \cup BOOLEAN \cup Nat \cup ReadExtended
    \cup [address : ReadExtended, signature : Buffer]
    \cup Seq(Buffer) \cup Seq(ReadExtended)
    \cup [key : Buffer \cup ReadExtended, value : Buffer]
    \cup Seq([key : Buffer \cup ReadExtended, value : Buffer])

ASSUME ReadsAssumption ==
    Throw \notin [value : ReadValue \cup (ReadValue \X Buffer), reader : Reader]

-----------------------------------------------------------------------------
(* What the codec promises *)

\* The bytes that a contract reserves for a field.
Size(f) ==
    CASE f.type \in Integer -> Width[f.type]
      [] f.type = "boolean" -> 1
      [] f.type \in {"bytesWithLength", "stringWithLength"} -> Width.u32 + Len(f.value)
      [] f.type = "address" -> AddressLength
      [] f.type = "extendedAddress" -> 2 * AddressLength
      [] f.type = "schnorr" -> 2 * AddressLength + SignatureLength
      [] f.type = "integers" -> Width.u16 + Len(f.value) * Width[f.element]
      [] f.type = "buffers" -> EstimateArrayOfBufferLength(f.value)
      [] f.type = "addresses" -> Width.u16 + Len(f.value) * AddressLength
      [] f.type = "extendedAddresses" -> Width.u16 + Len(f.value) * (2 * AddressLength)
      [] f.type = "addressMap" -> Width.u16 + Len(f.value) * (AddressLength + Width.u256)
      [] f.type = "extendedAddressMap" ->
            Width.u16 + Len(f.value) * (2 * AddressLength + Width.u256)

Lists == {"integers", "buffers", "addresses", "extendedAddresses"}
Maps == {"addressMap", "extendedAddressMap"}

\* A field that no buffer is large enough for.
Refused(f) ==
    \/ f.type = "address" /\ Len(f.value) > AddressLength
    \/ f.type = "schnorr" /\ Len(f.value.signature) # SignatureLength
    \/ f.type \in Lists \cup Maps /\ Len(f.value) > MaxArrayLength

Mark == Field("u8", TRUE, <<1>>)

Marked(f, capacity) == WriteField(WriteField(NewWriter(capacity), f), Mark)

\* The value of the field and the mark behind it, and where the reader ends.
ReadBack(f, bytes) ==
    LET marked(value, next) ==
            LET both(mark) == <<value, mark>>
            IN  Converted(ReadInteger(next, Mark.type, Mark.be), both)
    IN  Then(ReadField(NewReader(bytes), f), marked)

\* The field and the mark take just the size that is reserved for them.
TakesItsSize(f) ==
    LET size == Size(f) + 1
    IN  /\ Marked(f, size - 1) = Throw /\ Marked(f, size) # Throw
        /\ Len(GetBuffer(Marked(f, size))) = size

\* They are read back, except for a map with a key twice, and not from less.
ComesBack(f) ==
    LET size == Size(f) + 1
        bytes == GetBuffer(Marked(f, size))
    IN  /\ ReadBack(f, bytes) =
              IF f.type \in Maps /\ HasTwoOfAKey(f.value) THEN Throw
              ELSE [value |-> <<f.value, Mark.value>>,
                    reader |-> [buffer |-> bytes, offset |-> size]]
        /\ ReadBack(f, SubSeq(bytes, 1, size - 1)) = Throw

\* Some of its bytes are read in another order than they were written in, and are not the
\* same in both: a signed word that is written in the default order, and a length in an
\* array of buffers that is written in the other one.
Misread(f) ==
    \/ f.type \in {"i16", "i32"} /\ f.be /\ Reverse(f.value) # f.value
    \/ /\ f.type = "buffers" /\ ~f.be
       /\ \E i \in DOMAIN f.value :
             LET length == Digits(Len(f.value[i]), Width.u32) IN Reverse(length) # length

\* Every field is written into a buffer of just the size that is reserved for it, and read
\* back with what follows it, unless it is too large to be written at all; a writer or a
\* buffer one byte short is refused, and so is a map with a key twice (BytesWriter.ts,
\* BytesReader.ts).  It is not read back in two cases, and in no others: signed words
\* in the default order (BytesReader.ts, readI16 and readI32), and arrays of buffers in
\* little-endian order (writeArrayOfBuffer, readArrayOfBuffer), whose bytes tell the orders apart.
CodecRoundTrips ==
    input.kind = "field" =>
        IF Refused(input)
        THEN \A capacity \in 0 .. 2 * Size(input) : Marked(input, capacity) = Throw
        ELSE TakesItsSize(input) /\ (ComesBack(input) <=> ~Misread(input))

\* Signed words of two and four bytes are read back as the others are: all
\* integers are big-endian by default (docs/types/bytes-writer-reader.md).
SignedWordsRoundTrip ==
    input.kind = "field" /\ input.type \in {"i16", "i32"} => ComesBack(input)
=============================================================================
