---------------------------- MODULE ByteCodec ----------------------------
(***************************************************************************)
(* buffer/BytesWriter.ts and buffer/BytesReader.ts: calldata, events and   *)
(* return values.  An integer is the tuple of its bytes, the most          *)
(* significant first, so its encoding is that tuple or its reverse; a byte *)
(* is a digit of base Base (256).  A field is a record of the method that  *)
(* writes it, its argument be and its value.  The outcome of a call that   *)
(* reverts is Throw.                                                       *)
(***************************************************************************)
EXTENDS Outcomes, Powers, Sequences, SequencesExt

CONSTANT Base       \* 256 in the code; any base from 2 on

Byte == 0 .. Base - 1
Buffer == Seq(Nat)

ASSUME CodecAssumption ==
    /\ Base \in Nat \ {0, 1}
    /\ Throw \notin Buffer /\ Throw \notin [written : Buffer, capacity : Nat]

Width == [u8 |-> 1, u16 |-> 2, u32 |-> 4, u64 |-> 8, u128 |-> 16, u256 |-> 32,
          i8 |-> 1, i16 |-> 2, i32 |-> 4, i64 |-> 8, i128 |-> 16]
Integer == DOMAIN Width
AddressLength == 32
SignatureLength == 64
PlaceValue == PowersOf(Base)
MaxArrayLength == PlaceValue[2] - 1     \* 65535, what a u16 can count

Digits(n, width) == [i \in 1 .. width |-> (n \div PlaceValue[width - i]) % Base]

Number(digits) ==
    LET value[i \in 0 .. Len(digits)] ==
            IF i = 0 THEN 0 ELSE value[i - 1] * Base + digits[i]
    IN  value[Len(digits)]

Ordered(digits, be) == IF be THEN digits ELSE Reverse(digits)

-----------------------------------------------------------------------------
(* BytesWriter.  Nothing is written anywhere but at the offset, so the     *)
(* buffer is what has been written, followed by zeros up to the capacity.  *)

NewWriter(length) == [written |-> <<>>, capacity |-> length]

\* allocSafe: the buffer is never resized, a call that needs more throws.
WriteBytes(w, bytes) ==
    IF w = Throw \/ bytes = Throw THEN Throw
    ELSE IF Len(w.written) + Len(bytes) > w.capacity THEN Throw
    ELSE [w EXCEPT !.written = @ \o bytes]

GetBuffer(w) == w.written \o [i \in 1 .. w.capacity - Len(w.written) |-> 0]

EncodeInteger(value, be) == Ordered(value, be)
EncodeBoolean(value) == <<IF value THEN 1 ELSE 0>>
EncodeWithLength(bytes, be) == Ordered(Digits(Len(bytes), Width.u32), be) \o bytes
EncodeAddress(bytes) == IF Len(bytes) > AddressLength THEN Throw ELSE bytes
EncodeExtendedAddress(value) == value.tweaked \o value.key
EncodeSchnorr(value) ==
    IF Len(value.signature) # SignatureLength THEN Throw
    ELSE EncodeExtendedAddress(value.address) \o value.signature

\* What a method for one value writes, and those for arrays and maps for each of theirs.
\* A map is its keys and values in the order of its keys.
EncodeOne(value, type, be) ==
    CASE type \in Integer -> EncodeInteger(value, be)
      [] type = "bytesWithLength" -> EncodeWithLength(value, be)
      [] type = "address" -> EncodeAddress(value)
      [] type = "extendedAddress" -> EncodeExtendedAddress(value)
      [] type = "addressEntry" -> EncodeAddress(value.key) \o EncodeInteger(value.value, be)
      [] type = "extendedAddressEntry" ->
            EncodeExtendedAddress(value.key) \o EncodeInteger(value.value, be)

\* The arrays: a u16 count and the elements.
EncodeArray(values, type, be) ==
    IF Len(values) > MaxArrayLength THEN Throw
    ELSE Ordered(Digits(Len(values), Width.u16), be)
         \o FlattenSeq([i \in 1 .. Len(values) |-> EncodeOne(values[i], type, be)])

EncodeIntegers(values, type, be) == EncodeArray(values, type, be)
EncodeBuffers(values, be) == EncodeArray(values, "bytesWithLength", be)
EncodeAddresses(values) == EncodeArray(values, "address", TRUE)
EncodeExtendedAddresses(values) == EncodeArray(values, "extendedAddress", TRUE)
EncodeAddressMap(entries, be) == EncodeArray(entries, "addressEntry", be)
EncodeExtendedAddressMap(entries, be) == EncodeArray(entries, "extendedAddressEntry", be)

EstimateArrayOfBufferLength(values) ==
    LET total[i \in 0 .. Len(values)] ==
            IF i = 0 THEN Width.u16 ELSE total[i - 1] + Width.u32 + Len(values[i])
    IN  total[Len(values)]

EncodeField(f) ==
    CASE f.type \in Integer \cup {"address", "extendedAddress"} ->
            EncodeOne(f.value, f.type, f.be)
      [] f.type = "boolean" -> EncodeBoolean(f.value)
      [] f.type \in {"bytesWithLength", "stringWithLength"} -> EncodeWithLength(f.value, TRUE)
      [] f.type = "schnorr" -> EncodeSchnorr(f.value)
      [] f.type = "integers" -> EncodeIntegers(f.value, f.element, f.be)
      [] f.type = "buffers" -> EncodeBuffers(f.value, f.be)
      [] f.type = "addresses" -> EncodeAddresses(f.value)
      [] f.type = "extendedAddresses" -> EncodeExtendedAddresses(f.value)
      [] f.type = "addressMap" -> EncodeAddressMap(f.value, f.be)
      [] f.type = "extendedAddressMap" -> EncodeExtendedAddressMap(f.value, f.be)

WriteField(w, f) == WriteBytes(w, EncodeField(f))

-----------------------------------------------------------------------------
(* BytesReader: a method returns its value and the reader, moved on.       *)

NewReader(bytes) == [buffer |-> bytes, offset |-> 0]

VerifyEnd(r, size) == size <= Len(r.buffer)

ReadBytes(r, n) ==
    IF VerifyEnd(r, r.offset + n)
    THEN [value |-> SubSeq(r.buffer, r.offset + 1, r.offset + n),
          reader |-> [r EXCEPT !.offset = @ + n]]
    ELSE Throw

\* The result of a read passed through a conversion.
Converted(read, Convert(_)) ==
    IF read = Throw THEN Throw ELSE [read EXCEPT !.value = Convert(@)]

\* A second read that depends on the first.
Then(read, Next(_, _)) ==
    IF read = Throw THEN Throw ELSE Next(read.value, read.reader)

\* A plausible slip: readI64 as well.
ReadsSignedLittleEndian(type, be) == type \in {"i16", "i32", "i64"} \/ ~be

\* readI16 and readI32 take no byte order and read the least significant
\* byte first.
ReadsLittleEndian(type, be) == type \in {"i16", "i32"} \/ ~be

ReadInteger(r, type, be) ==
    LET convert(bytes) == Ordered(bytes, ~ReadsLittleEndian(type, be))
    IN  Converted(ReadBytes(r, Width[type]), convert)

ReadBoolean(r) ==
    LET convert(bytes) == bytes[1] # 0 IN Converted(ReadBytes(r, 1), convert)

ReadCount(r, type, be) == Converted(ReadInteger(r, type, be), Number)

ReadBytesWithLength(r, be) ==
    LET rest(n, next) == ReadBytes(next, n) IN Then(ReadCount(r, "u32", be), rest)

\* readBytes with zeroStop: it ends after a zero, and what is left of the n
\* bytes is neither read nor skipped; the string decodes the whole of the
\* n-byte array behind the part that was read.
ReadString(r, n) ==
    LET left == SubSeq(r.buffer, r.offset + 1, Len(r.buffer))
        zeros == {i \in 1 .. n : i <= Len(left) /\ left[i] = 0}
        stop == CHOOSE i \in zeros : \A j \in zeros : i <= j
    IN  IF zeros = {} THEN ReadBytes(r, n)
        ELSE [value |-> [i \in 1 .. n |-> IF i < stop THEN left[i] ELSE 0],
              reader |-> [r EXCEPT !.offset = @ + stop]]

ReadStringWithLength(r, be) ==
    LET rest(n, next) == ReadString(next, n) IN Then(ReadCount(r, "u32", be), rest)

ReadAddress(r) == ReadBytes(r, AddressLength)

ReadExtendedAddress(r) ==
    LET convert(bytes) == [tweaked |-> SubSeq(bytes, 1, AddressLength),
                           key |-> SubSeq(bytes, AddressLength + 1, 2 * AddressLength)]
    IN  Converted(ReadBytes(r, 2 * AddressLength), convert)

ReadSchnorr(r) ==
    LET signed(address, next) ==
            LET pair(bytes) == [address |-> address, signature |-> bytes]
            IN  Converted(ReadBytes(next, SignatureLength), pair)
    IN  IF VerifyEnd(r, r.offset + 2 * AddressLength + SignatureLength)
        THEN Then(ReadExtendedAddress(r), signed)
        ELSE Throw

ReadEntry(r, keyType, be) ==
    LET valued(key, next) ==
            LET pair(v) == [key |-> key, value |-> v]
            IN  Converted(ReadInteger(next, "u256", be), pair)
    IN  Then(IF keyType = "address" THEN ReadAddress(r) ELSE ReadExtendedAddress(r), valued)

\* The method for one value of a type, and for one entry of a map.
ReadOne(r, type, be) ==
    CASE type \in Integer -> ReadInteger(r, type, be)
      [] type = "bytesWithLength" -> ReadBytesWithLength(r, be)
      [] type = "address" -> ReadAddress(r)
      [] type = "extendedAddress" -> ReadExtendedAddress(r)
      [] type = "addressEntry" -> ReadEntry(r, "address", be)
      [] type = "extendedAddressEntry" -> ReadEntry(r, "extendedAddress", be)

ReadMany(r, count, type, be) ==
    LET upTo[i \in 0 .. count] ==
            IF i = 0 THEN [value |-> <<>>, reader |-> r]
            ELSE LET more(sofar, next) ==
                         LET join(v) == Append(sofar, v) IN Converted(ReadOne(next, type, be), join)
                 IN  Then(upTo[i - 1], more)
    IN  upTo[count]

ReadArray(r, be, type, elementBe) ==
    LET rest(count, next) == ReadMany(next, count, type, elementBe)
    IN  Then(ReadCount(r, "u16", be), rest)

ReadIntegers(r, type, be) == ReadArray(r, be, type, be)

\* The lengths inside are read in the default order, whatever be is.
ReadBuffers(r, be) == ReadArray(r, be, "bytesWithLength", TRUE)

ReadAddresses(r, be) == ReadArray(r, be, "address", TRUE)
ReadExtendedAddresses(r, be) == ReadArray(r, be, "extendedAddress", TRUE)

HasTwoOfAKey(entries) ==
    \E i, j \in DOMAIN entries : i # j /\ entries[i].key = entries[j].key

\* A key that comes twice is refused.
ReadMap(r, be, entryType) ==
    LET unique(entries, next) ==
            IF HasTwoOfAKey(entries) THEN Throw ELSE [value |-> entries, reader |-> next]
    IN  Then(ReadArray(r, be, entryType, be), unique)

ReadAddressMap(r, be) == ReadMap(r, be, "addressEntry")
ReadExtendedAddressMap(r, be) == ReadMap(r, be, "extendedAddressEntry")

ReadField(r, f) ==
    CASE f.type \in Integer \cup {"address", "extendedAddress"} -> ReadOne(r, f.type, f.be)
      [] f.type = "boolean" -> ReadBoolean(r)
      [] f.type = "bytesWithLength" -> ReadBytesWithLength(r, TRUE)
      [] f.type = "stringWithLength" -> ReadStringWithLength(r, TRUE)
      [] f.type = "schnorr" -> ReadSchnorr(r)
      [] f.type = "integers" -> ReadIntegers(r, f.element, f.be)
      [] f.type = "buffers" -> ReadBuffers(r, f.be)
      [] f.type = "addresses" -> ReadAddresses(r, TRUE)
      [] f.type = "extendedAddresses" -> ReadExtendedAddresses(r, TRUE)
      [] f.type = "addressMap" -> ReadAddressMap(r, f.be)
      [] f.type = "extendedAddressMap" -> ReadExtendedAddressMap(r, f.be)
=============================================================================
