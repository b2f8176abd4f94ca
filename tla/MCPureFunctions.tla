-------------------------- MODULE MCPureFunctions --------------------------
(***************************************************************************)
(* The pure functions of the runtime over bounded inputs.  A state is one  *)
(* input; the properties compare what the functions return for it with     *)
(* what they promise.  Arithmetic is checked for every pair of 8-bit       *)
(* words, the logarithms on 20-bit words at a scale of 1000, the codec     *)
(* with two-valued bytes and the scripts with real bytes.                  *)
(***************************************************************************)
EXTENDS SegwitAddresses, SafeMathCalls, StorageLayout, CodecFields

Wide == INSTANCE SafeMath
            WITH SegmentBits <- 5, Scale <- 1000, Ln2 <- 693, MaxPow10Exponent <- 6

\* Stands for the host's hashes: no two of the scripts below collide.
ToyHash(bytes, size) ==
    LET digest[lo \in Nat, hi \in Nat] ==
            LET mid == (lo + hi) \div 2 IN
            IF lo = hi THEN ((31 * lo + 7) * (bytes[lo] + 1)) % 65521
            ELSE (digest[lo, mid] + 3 * digest[mid + 1, hi]) % 65521
        d == digest[1, Len(bytes)]
    IN  [k \in 1 .. size |-> (d * k + d \div 251) % 256]
ToySha256(bytes) == ToyHash(bytes, 32)
ToyHash160(bytes) == ToyHash(bytes, 20)
ToyDigest(bytes) == ToyHash(bytes, 12)

-----------------------------------------------------------------------------
(* Inputs *)

Constantly(n, v) == [i \in 1 .. n |-> v]
Patterns(n) == {Constantly(n, 0),
                [i \in 1 .. n |-> IF i = 1 THEN 1 ELSE 0],
                [i \in 1 .. n |-> IF i = n THEN 1 ELSE 0]}
UpTo(n, S) == UNION {[1 .. k -> S] : k \in 0 .. n}
Key(n, v) == [i \in 1 .. n |-> IF i = 1 THEN 2 ELSE (v * i) % 256]

MaxMathBase == 160
MaxMathFactor == 32
SomeExtended == {[tweaked |-> t, key |-> k] : t \in Patterns(32), k \in Patterns(32)}
Pairs(K) == {<<>>} \cup {<<[key |-> k, value |-> v]>> : k \in K, v \in Patterns(32)}
    \cup {<<[key |-> k, value |-> Constantly(32, 1)], [key |-> l, value |-> Constantly(32, 0)]>>
            : k \in K, l \in K}

Arithmetic == \E a, b \in Word : \E m \in {b \div 16, 240 + b \div 16} :
            input' = Operands(a, b, m)
Logarithms == \E a \in 1 .. MaxMathBase, b \in 1 .. MaxMathFactor :
            input' = [kind |-> "logarithms", a |-> a, b |-> b]
Scalars == \E type \in Integer, be \in BOOLEAN :
            \E v \in Patterns(Width[type]) : input' = Field(type, be, v)
Booleans == \E v \in BOOLEAN : input' = Field("boolean", TRUE, v)
Bytes == \E v \in UpTo(3, {0, 1}) : input' = Field("bytesWithLength", TRUE, v)
Strings == \E v \in UpTo(3, {1}) : input' = Field("stringWithLength", TRUE, v)
Addresses == \E n \in {32, 33} : \E v \in Patterns(n) : input' = Field("address", TRUE, v)
ExtendedAddresses == \E v \in SomeExtended : input' = Field("extendedAddress", TRUE, v)
Signatures == \E a \in SomeExtended, n \in {63, 64} :
            input' = Field("schnorr", TRUE, [address |-> a, signature |-> Constantly(n, 1)])
IntegerArrays == \E type \in Unsigned, be \in BOOLEAN :
            \E v \in UpTo(4, {Constantly(Width[type], 0),
                              [i \in 1 .. Width[type] |-> IF i = 1 THEN 0 ELSE 1]}) :
               input' = [kind |-> "field", type |-> "integers", element |-> type,
                         be |-> be, value |-> v]
\* Of these lengths, 0 and 6 are the same in both byte orders.
BufferArrays == \E v \in UpTo(4, {<<>>, <<1>>, <<0, 1>>, Constantly(6, 1)}), be \in BOOLEAN :
            input' = Field("buffers", be, v)
AddressArrays == \E v \in UpTo(4, Patterns(32)) : input' = Field("addresses", TRUE, v)
ExtendedArrays == \E v \in UpTo(2, SomeExtended) : input' = Field("extendedAddresses", TRUE, v)
AddressMaps == \E v \in Pairs(Patterns(32)), be \in BOOLEAN :
            input' = Field("addressMap", be, v)
ExtendedMaps == \E v \in Pairs(SomeExtended), be \in BOOLEAN :
            input' = Field("extendedAddressMap", be, v)

Bounds == UNION {{2 ^ k + d, -(2 ^ k) - d} :
                    k \in {0, 3, 6, 7, 8, 15, 16, 23, 24, 30}, d \in -2 .. 2}
Blocks == {-1, 0, 1, 16, 17, 127, 128, 255, 256, 32767, 32768, 65535, 65536}
MainNet == <<98, 99>>                           \* bc
TestNet == <<116, 98>>                          \* tb
Hrps == {MainNet, TestNet, <<98, 49, 99>>}      \* and b1c

Numbers == \E x \in Bounds : input' = [kind |-> "number", x |-> x]
NumberBytes == \E data \in UpTo(2, {0, 1, 17, 127, 128, 129, 255}) \cup UpTo(5, {0, 1, 128, 255}) :
            input' = [kind |-> "numberBytes", data |-> data]
Timelocks == \E n \in {0, 32, 33, 65, 75, 76, 255, 256}, blocks \in Blocks, v \in {1, 3} :
            input' = [kind |-> "timelock", key |-> Key(n, v), blocks |-> blocks]
Multisigs == \E n \in 0 .. 17, m \in 0 .. 17, length \in {33, 34, 65} :
            /\ length = 33 \/ n \in 0 .. 3
            /\ input' = [kind |-> "multisig", m |-> m, keys |-> [i \in 1 .. n |-> Key(length, i)]]
Programs == \E hrp \in Hrps, version \in -1 .. 17, n \in {1, 2, 20, 21, 32, 40, 41}, v \in {1, 7} :
            input' = [kind |-> "program", hrp |-> hrp, version |-> version, program |-> Key(n, v)]
ShortPrograms == \E version \in 1 .. 16, v \in 2 .. 12 :
            input' = [kind |-> "program", hrp |-> MainNet, version |-> version,
                      program |-> Key(2, v)]
\* Five-bit words behind a checksum that is right, whatever their padding is.
DataWords == \E version \in 0 .. 31, n \in 2 .. 6, last \in 0 .. 31 :
            input' = [kind |-> "words", hrp |-> MainNet,
                      data |-> <<version>> \o [i \in 1 .. n |-> IF i = n THEN last ELSE i]]

\* The fields of a contract in the order of their declarations, of the types that OP721 has
\* and KeyMerger; the URIs share their field with the map of their indexes.  Lists fill the
\* room between two of the owners, and some addresses begin alike.
Pointer[n \in 1 .. 9] == NextPointer(IF n = 1 THEN 0 ELSE Pointer[n - 1])
Addressed == {Digits(n, WordBytes) : n \in {0, 1, 64, 69, 128, 1728, 4032}}
TokenStructures ==
    [type : {"string"}, id : {Pointer[1]}, index : {0} \cup 2 .. 7]
    \cup [type : {"scalar"}, id : {Pointer[2], Pointer[9]}]
    \cup [type : {"u256Map"}, id : {Pointer[3], Pointer[6]}, key : Addressed]
    \cup [type : {"addressMap"}, id : {Pointer[4]}, key : Addressed]
    \cup [type : {"nested"}, id : {Pointer[5]}, parent : Addressed, key : Addressed]
    \cup [type : {"string"}, id : {Pointer[6]}, index : 0 .. 16]
    \cup [type : {"ownerTokens"}, id : {Pointer[7]}, key : Addressed]
    \cup [type : {"merged"}, id : {Pointer[8]}, parent : UpTo(2, {49, 58}), key : UpTo(2, {49, 58})]
StoredCells == \E s \in Structures : input' = [kind |-> "cells", structure |-> s]

Choose ==
    /\ input = Nothing
    /\ \/ Arithmetic \/ Logarithms
       \/ Scalars \/ Booleans \/ Bytes \/ Strings \/ Addresses \/ ExtendedAddresses
       \/ Signatures \/ IntegerArrays \/ BufferArrays \/ AddressArrays \/ ExtendedArrays
       \/ AddressMaps \/ ExtendedMaps
       \/ Numbers \/ NumberBytes \/ Timelocks \/ Multisigs \/ Programs \/ ShortPrograms
       \/ DataWords \/ StoredCells

Done == input # Nothing /\ input' = Nothing

Next == Choose \/ Done
Spec == Init /\ [][Next]_input

-----------------------------------------------------------------------------
(* Logarithms *)

\* The fixed-point logarithms agree with one another: they grow with their
\* argument, turn products into sums and ratios into differences, up to the
\* rounding of the series (SafeMath.ts, preciseLog, preciseLogRatio, approxLog).
LogarithmsAgree ==
    input.kind = "logarithms" => Wide!LogarithmLaws(input.a, input.b, 8)

-----------------------------------------------------------------------------
(* Scripts *)

\* A number decodes to itself, and bytes are accepted just when they are what
\* encoding their value gives: no number has two encodings.
NumberIsCanonical ==
    /\ input.kind = "number" =>
          DecodeResult(Encode(input.x), TRUE) = input.x
    /\ input.kind = "numberBytes" =>
          LET strict == DecodeResult(input.data, TRUE)
              loose == DecodeResult(input.data, FALSE)
          IN  IF loose = Null THEN Len(input.data) > 4 /\ strict = Null
              ELSE (strict = loose) <=> (Encode(loose) = input.data)

\* The script cut short, continued, or with its key pushed the long way.
Spoilt(script, key) ==
    (Prefixes(script) \ {script}) \cup {script \o <<op>> : op \in {0, 81, 172, 174}}
        \cup {SubSeq(script, 1, Len(script) - Len(key) - 2) \o <<76, Len(key)>>
                 \o key \o <<172>>}

TimelockIsRecognised ==
    LET script == CsvTimelock(input.key, input.blocks)
        expected == [csvBlocks |-> input.blocks, pubkey |-> input.key]
    IN  IF script = Throw THEN input.blocks \notin 0 .. 65535
        ELSE IF Len(input.key) \notin {33, 65}
        THEN RecognizeCsvTimelock(script, TRUE) = Null
        ELSE /\ \A strict \in BOOLEAN :
                   RecognizeCsvTimelock(script, strict) = expected
             /\ \A other \in Spoilt(script, input.key) :
                   RecognizeCsvTimelock(other, TRUE) = Null

MultisigIsRecognised ==
    LET script == Multisig(input.m, input.keys)
        n == Len(input.keys)
    IN  IF script = Throw THEN ~(1 <= input.m /\ input.m <= n /\ n <= 16)
        ELSE IF \E i \in 1 .. n : Len(input.keys[i]) = 34
        THEN RecognizeMultisig(script, TRUE) = Null
        ELSE /\ RecognizeMultisig(script, TRUE) =
                   [m |-> input.m, n |-> n, pubkeys |-> input.keys]
             /\ \A other \in {SubSeq(script, 1, Len(script) - 1), script \o <<174>>,
                               [script EXCEPT ![Len(script) - 1] = @ - 1],
                               [script EXCEPT ![Len(script) - 1] = @ + 1]} :
                   RecognizeMultisig(other, TRUE) = Null

\* A witness script is recognised with the parameters it was built from when
\* its keys have 33 or 65 bytes, and with no others; cut short, continued or
\* with a push that is not the shortest it is refused.  Script numbers have
\* one encoding each (Script.ts, ScriptReader.ts).
ScriptsAreRecognised ==
    /\ NumberIsCanonical
    /\ input.kind = "timelock" => TimelockIsRecognised
    /\ input.kind = "multisig" => MultisigIsRecognised

-----------------------------------------------------------------------------
(* Addresses *)

Capitals(s) == [i \in DOMAIN s |-> IF s[i] \in 97 .. 122 THEN s[i] - 32 ELSE s[i]]

Characters == {113, 112, 108, 49, 98, 55}        \* q p l 1 b 7
Replaced(a) == {[a EXCEPT ![i] = c] : i \in DOMAIN a, c \in Characters} \ {a}
Swapped(a) == {[a EXCEPT ![i] = a[i + 1], ![i + 1] = a[i]] : i \in 1 .. Len(a) - 1} \ {a}
Inserted(a) == {SubSeq(a, 1, i) \o <<c>> \o SubSeq(a, i + 1, Len(a)) :
                   i \in 0 .. Len(a), c \in Characters}
Deleted(a) == {SubSeq(a, 1, i - 1) \o SubSeq(a, i + 1, Len(a)) : i \in DOMAIN a}
Mistyped(a) == Replaced(a) \cup Swapped(a) \cup Inserted(a) \cup Deleted(a)

ProgramRoundTrips ==
    LET address == EncodeOrNull(input.hrp, input.version, input.program)
        decoded == [hrp |-> input.hrp, version |-> input.version, program |-> input.program]
    IN  IF address = Null
        THEN \/ input.version \notin 0 .. 16 \/ Len(input.program) \notin 2 .. 40
             \/ input.version = 0 /\ Len(input.program) \notin {20, 32}
        ELSE /\ DecodeOrNull(address) = decoded
             /\ DecodeOrNull(Capitals(address)) = decoded
             /\ IsValidAddress(address, input.hrp, input.version)
             /\ Len(input.program) = 2 =>
                   \A other \in Mistyped(address) : DecodeOrNull(other) = Null

\* Words with a good checksum decode to what encodes to them again, or not.
WordsAreCanonical ==
    LET check == CreateChecksum(input.hrp, input.data, input.data[1])
        words == input.data \o check
        address == input.hrp \o <<49>> \o [i \in DOMAIN words |-> CHARSET[words[i] + 1]]
        decoded == DecodeOrNull(address)
    IN  decoded # Null =>
            EncodeOrNull(decoded.hrp, decoded.version, decoded.program) = address

\* An address stands for one program: it decodes to what it was made from, in
\* either case, a slip of one character is refused, and no other string with
\* a good checksum decodes to the same (Bech32.ts).
AddressesAreCanonical ==
    /\ input.kind = "program" => ProgramRoundTrips
    /\ input.kind = "words" => WordsAreCanonical

-----------------------------------------------------------------------------
(* Addresses of scripts, on the wire *)

ReaderOf(w) == Wire!NewReader(Wire!GetBuffer(w))

TimelockPairMatches(out) ==
    LET short == Wire!NewReader(SubSeq(out.written, 1, Len(out.written) - 1))
        verified(key, blocks, hrp) ==
            ReadAndVerifyCsvP2wsh(ReaderOf(out), key, blocks, hrp, TRUE) \notin {Null, Throw}
        standard == Len(input.key) \in {33, 65}
    IN  out # Throw =>
          /\ verified(input.key, input.blocks, MainNet) = standard
          /\ ~verified(input.key, input.blocks, TestNet)
          /\ ~verified(input.key, (input.blocks + 1) % 65536, MainNet)
          /\ ~verified(Append(input.key, 0), input.blocks, MainNet)
          /\ ReadCsvP2wshPairAndCrossCheck(ReaderOf(out), MainNet, TRUE) =
                IF standard THEN [csvBlocks |-> input.blocks, pubkey |-> input.key] ELSE Null
          /\ ReadP2wshPairAndVerify(short, MainNet) = Throw

MultisigPairMatches(out) ==
    LET n == Len(input.keys)
        verified(m) ==
            ReadAndVerifyMultisigP2wsh(ReaderOf(out), m, input.keys, MainNet)
                \notin {Null, Throw}
        crossChecked(m, keys) ==
            ReadMultisigP2wshPairAndCrossCheck(ReaderOf(out), MainNet, m, keys, TRUE) # Null
        standard == \A i \in 1 .. n : Len(input.keys[i]) \in {33, 65}
    IN  out # Throw =>
          /\ verified(input.m)
          /\ input.m < n => ~verified(input.m + 1)
          /\ crossChecked(-1, Null) = standard /\ crossChecked(input.m, input.keys) = standard
          /\ ~crossChecked(input.m + 1, Null)
          /\ ~crossChecked(-1, [input.keys EXCEPT ![n] = Append(@, 0)])

ProgramPairMatches(out) ==
    LET verified(key, hrp) ==
            ReadAndVerifyP2tr(ReaderOf(out), key, hrp) \notin {Null, Throw}
        key33 == input.program \o <<1>>
    IN  /\ (out = Throw) = (Len(input.program) # 32)
        /\ out # Throw =>
              /\ verified(input.program, input.hrp)
              /\ ~verified([input.program EXCEPT ![1] = @ + 1], input.hrp)
              /\ ~verified(input.program, <<97>>)
        /\ Len(key33) = 33 =>
              ScriptType(DecodeOrNull(P2wpkh(input.hrp, key33))) = "p2wpkh"

\* An address that is written for a script is accepted for the parameters of
\* that script and the network it was made for, and for no others
\* (BitcoinAddresses.ts, BitcoinCodec.ts).
VerifiedPairsMatch ==
    /\ input.kind = "timelock" => TimelockPairMatches(
          WriteCsvP2wsh(Wire!NewWriter(450), input.key, input.blocks, MainNet))
    /\ input.kind = "multisig" => MultisigPairMatches(
          WriteMultisigP2wsh(Wire!NewWriter(1200), input.m, input.keys, MainNet))
    /\ input.kind = "program" => ProgramPairMatches(
          WriteP2tr(Wire!NewWriter(100), input.program, input.hrp))
=============================================================================
