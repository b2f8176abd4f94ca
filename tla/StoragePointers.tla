--------------------------- MODULE StoragePointers ---------------------------
(***************************************************************************)
(* Where the stored structures of a contract keep their cells: math/abi.ts *)
(* and math/bytes.ts, and the pointers that storage/ and memory/ make with *)
(* them.  A pointer is the identifier of a field and a subpointer; maps    *)
(* with long keys take the start of a hash as subpointer, the others use   *)
(* the key or a multiple of an index as it is, and structures of several   *)
(* cells count on from their first one.  Numbers and keys are sequences of *)
(* bytes, the most significant first, with bytes as digits of base Base.   *)
(***************************************************************************)
EXTENDS ByteCodec

CONSTANTS
    IdBytes,            \* 2: a field's identifier, a u16
    SubBytes,           \* 30: a subpointer
    WordBytes,          \* 32: an address, a u256
    MaxString,          \* u32.MAX_VALUE: the longest string, and how far two strings are apart
    HeaderBytes,        \* 28: what the first cell of a string holds
    CellBytes,          \* 32: what the others hold
    Digest(_)           \* the host's SHA-256

PointerBytes == IdBytes + SubBytes
EMPTY_POINTER == [i \in 1 .. SubBytes |-> 0]

\* Blockchain.nextPointer: the identifiers of the fields of a contract count from 1.
NextPointer(last) == IF last = PlaceValue[IdBytes] - 1 THEN Throw ELSE last + 1

\* A shorter key is filled with zeros behind it.
EnsureAtLeast30Bytes(typed) == typed \o [i \in 1 .. SubBytes - Len(typed) |-> 0]

\* The identifier goes before the subpointer, of which no more than SubBytes are taken.
EncodePointer(id, typed, enforce30Bytes) ==
    LET array == EnsureAtLeast30Bytes(typed)
    IN  IF enforce30Bytes /\ Len(array) # SubBytes THEN Throw
        ELSE Digits(id, IdBytes) \o SubSeq(array, 1, SubBytes)

EncodePointerUnknownLength(id, typed) == EncodePointer(id, Digest(typed), FALSE)

\* The sum of a pointer and a number; a carry beyond the first byte is lost.
BigEndianAdd(pointer, increment) == Digits(Number(pointer) + increment, PointerBytes)

-----------------------------------------------------------------------------
(* The cells of each structure *)

\* StoredBoolean, StoredAddress, StoredU256, StoredU64 and StoredU32
ScalarCells(id) == {EncodePointer(id, EMPTY_POINTER, TRUE)}

\* A plausible slip: strings are counted like scalars.
StringAtIndex(index) == Digits(index, SubBytes)
\* StoredString: string number index begins after as many cells as a string has bytes.
StringSubPointer(index) ==
    SubSeq(Digits(index * MaxString, WordBytes), WordBytes - SubBytes + 1, WordBytes)

\* BaseStoredString: the header cell, and those for what does not fit there.
ChunkCount(length) ==
    IF length <= HeaderBytes THEN 1
    ELSE 1 + (length - HeaderBytes + CellBytes - 1) \div CellBytes
StringCells(id, index, length) ==
    {BigEndianAdd(EncodePointer(id, StringSubPointer(index), TRUE), i) :
        i \in 0 .. ChunkCount(length) - 1}

\* StoredPackedArray and StoredBooleanArray: the header, and the slots behind it.
ArrayCells(id, sub, slots) ==
    LET header == EncodePointer(id, sub, TRUE)
        base == BigEndianAdd(header, 1)
    IN  {header} \cup {BigEndianAdd(base, i) : i \in 0 .. slots - 1}

Truncated(address) == SubSeq(address, 1, SubBytes)

\* AddressMemoryMap takes the start of the address for the subpointer, as does OP721 for
\* the lists of the tokens of an owner.
AddressMapCells(id, address) == {EncodePointer(id, Truncated(address), TRUE)}
OwnerTokensCells(id, owner, slots) == ArrayCells(id, Truncated(owner), slots)

\* StoredMapU256: the map's subpointer and the key, with the two bytes the writer has left.
U256MapKey(key) ==
    GetBuffer(WriteBytes(WriteBytes(NewWriter(2 * WordBytes), EMPTY_POINTER), key))

\* Nested, of which MapOfMap keeps one per address: both keys, one behind the other.
NestedKey(parent, key) ==
    GetBuffer(WriteBytes(WriteBytes(NewWriter(Len(key) + Len(parent)), parent), key))

\* KeyMerger: two strings of ASCII characters, each behind its length and a colon.
Colon == 58
Decimal ==
    LET digits[n \in Nat] ==
            IF n < 10 THEN <<48 + n>> ELSE Append(digits[n \div 10], 48 + (n % 10))
    IN  digits
MergeKey(parent, key) ==
    Decimal[Len(parent)] \o <<Colon>> \o parent \o Decimal[Len(key)] \o <<Colon>> \o key
MergedKey(parent, key) ==
    LET merged == MergeKey(parent, key)
    IN  GetBuffer(WriteBytes(NewWriter(Len(merged)), merged))

\* What the structures with long keys hash.
IsHashed(s) == s.type \in {"u256Map", "nested", "merged"}
HashedKey(s) ==
    CASE s.type = "u256Map" -> U256MapKey(s.key)
      [] s.type = "nested" -> NestedKey(s.parent, s.key)
      [] s.type = "merged" -> MergedKey(s.parent, s.key)

\* The cells of a structure that holds as much as it can.
Cells(s, slots) ==
    CASE s.type = "scalar" -> ScalarCells(s.id)
      [] s.type = "string" -> StringCells(s.id, s.index, MaxString)
      [] s.type = "ownerTokens" -> OwnerTokensCells(s.id, s.key, slots)
      [] s.type = "addressMap" -> AddressMapCells(s.id, s.key)
      [] IsHashed(s) -> {EncodePointerUnknownLength(s.id, HashedKey(s))}

-----------------------------------------------------------------------------
\* No cell belongs to two structures of a contract, or to two keys of one, unless both are
\* kept under addresses that begin with the same SubBytes bytes.
Separate(s, t, slots) ==
    LET sameStart == /\ s.type = t.type /\ s.type \in {"addressMap", "ownerTokens"}
                     /\ s.id = t.id /\ Truncated(s.key) = Truncated(t.key)
    IN  s # t => (Cells(s, slots) \cap Cells(t, slots) = {}) = ~sameStart
=============================================================================
