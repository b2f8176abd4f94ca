--------------------------- MODULE BitcoinScripts ---------------------------
(***************************************************************************)
(* script/Script.ts and script/reader/ScriptReader.ts: numbers, pushes and *)
(* the two witness scripts that are built and recognised, the timelock and *)
(* the multisig.  A script is a sequence of bytes.  Null is what a parser  *)
(* returns for input it does not accept, Throw what a revert gives.        *)
(* Numbers stay below 2^31; the readers accept no number beyond it.        *)
(***************************************************************************)
EXTENDS Outcomes, Sequences, SequencesExt

CONSTANT Null

OP_0 == 0
OP_PUSHDATA1 == 76
OP_PUSHDATA2 == 77
OP_PUSHDATA4 == 78
OP_1 == 81
OP_16 == 96
OP_DROP == 117
OP_CHECKSIG == 172
OP_CHECKMULTISIG == 174
OP_CHECKSEQUENCEVERIFY == 178

OpN(n) == IF n \notin 0 .. 16 THEN Throw ELSE IF n = 0 THEN OP_0 ELSE 80 + n

MaxScriptSize == 10000
KeyLengths == {33, 65}          \* compressed and uncompressed

-----------------------------------------------------------------------------
(* ScriptNumber: magnitude with the least byte first, and the sign in the  *)
(* top bit of the last byte.                                               *)

Magnitude(x) == IF x < 0 THEN -x ELSE x

\* A plausible slip: no byte is added for the sign.
EncodedLenUnsigned(x) ==
    LET bytes[n \in Nat] == IF n = 0 THEN 0 ELSE 1 + bytes[n \div 256]
    IN  bytes[Magnitude(x)]

EncodedLen(x) ==
    LET bytes[n \in Nat] == IF n = 0 THEN 0 ELSE 1 + bytes[n \div 256]
        size == bytes[Magnitude(x)]
        msb == Magnitude(x) \div 256 ^ (size - 1)
    IN  IF x = 0 THEN 0 ELSE IF msb >= 128 THEN size + 1 ELSE size

LittleEndian(n, size) == [i \in 1 .. size |-> (n \div 256 ^ (i - 1)) % 256]

Encode(x) ==
    LET out == LittleEndian(Magnitude(x), EncodedLen(x)) IN
    IF x < 0 THEN [out EXCEPT ![Len(out)] = IF @ < 128 THEN @ + 128 ELSE @] ELSE out

FromLittleEndian(data) ==
    LET value[i \in 0 .. Len(data)] ==
            IF i = 0 THEN 0 ELSE value[i - 1] + data[i] * 256 ^ (i - 1)
    IN  value[Len(data)]

\* The last byte holds more than a sign, or the one before needs its top bit.
Minimal(data) ==
    LET L == Len(data) IN
    data[L] % 128 = 0 => L > 1 /\ data[L - 1] >= 128

DecodeResult(data, minimal) ==
    LET L == Len(data)
        unsigned == [data EXCEPT ![L] = @ % 128]
    IN  IF L = 0 THEN 0
        ELSE IF L > 4 \/ (minimal /\ ~Minimal(data)) THEN Null
        ELSE IF data[L] >= 128 THEN -FromLittleEndian(unsigned)
        ELSE FromLittleEndian(data)

-----------------------------------------------------------------------------
(* ScriptIO: the shortest push for the length of the data *)

PushPrefix(len) ==
    IF len = 0 THEN <<OP_0>>
    ELSE IF len <= 75 THEN <<len>>
    ELSE IF len < 256 THEN <<OP_PUSHDATA1, len>>
    ELSE IF len < 65536 THEN <<OP_PUSHDATA2>> \o LittleEndian(len, 2)
    ELSE <<OP_PUSHDATA4>> \o LittleEndian(len, 4)

PushPrefixSize(len) ==
    IF len <= 75 THEN 1 ELSE IF len < 256 THEN 2 ELSE IF len < 65536 THEN 3 ELSE 5

WritePush(data) == PushPrefix(Len(data)) \o data

\* The script goes into a writer of the size computed for it, which throws
\* when it is too small; what is over at the end is cut off.
Written(script, size) ==
    IF size > MaxScriptSize \/ Len(script) > size THEN Throw ELSE script

CsvTimelock(pubkey, csvBlocks) ==
    LET small == csvBlocks <= 16
        number == IF small THEN <<OpN(csvBlocks)>> ELSE WritePush(Encode(csvBlocks))
        nPartSize == IF small THEN 1
                     ELSE PushPrefixSize(EncodedLen(csvBlocks)) + EncodedLen(csvBlocks)
        script == number \o <<OP_CHECKSEQUENCEVERIFY, OP_DROP>>
                  \o WritePush(pubkey) \o <<OP_CHECKSIG>>
    IN  IF csvBlocks \notin 0 .. 65535 THEN Throw
        ELSE Written(script, nPartSize + 3 + PushPrefixSize(Len(pubkey)) + Len(pubkey))

Multisig(m, pubkeys) ==
    LET n == Len(pubkeys)
        size[i \in 0 .. n] ==
            IF i = 0 THEN 3
            ELSE size[i - 1] + PushPrefixSize(Len(pubkeys[i])) + Len(pubkeys[i])
        pushes == FlattenSeq([i \in 1 .. n |-> WritePush(pubkeys[i])])
    IN  IF m \notin 1 .. 16 \/ n \notin m .. 16 THEN Throw
        ELSE Written(<<OpN(m)>> \o pushes \o <<OpN(n), OP_CHECKMULTISIG>>, size[n])

-----------------------------------------------------------------------------
(* ScriptReader: an instruction is its opcode, or minus the length of what *)
(* it pushes, with the data, Null when it pushes nothing.                  *)

\* The least length for which an opcode is the shortest push.
LeastLength(op) ==
    IF op = OP_PUSHDATA1 THEN 76
    ELSE IF op = OP_PUSHDATA2 THEN 256
    ELSE IF op = OP_PUSHDATA4 THEN 65536 ELSE 0

\* nextSafe at position i: the instruction and the position behind it.  A
\* four-byte length is an i32; one with the top bit set is left out.
NextSafe(s, i, strictMinimalPush) ==
    LET op == s[i + 1]
        lengthBytes == IF op = OP_PUSHDATA1 THEN 1 ELSE IF op = OP_PUSHDATA2 THEN 2
                       ELSE IF op = OP_PUSHDATA4 THEN 4 ELSE 0
        start == i + 1 + lengthBytes
        len == IF lengthBytes = 0 THEN op ELSE FromLittleEndian(SubSeq(s, i + 2, start))
    IN  IF i >= Len(s) THEN Null
        ELSE IF op = OP_0 THEN [op |-> OP_0, data |-> <<>>, next |-> i + 1]
        ELSE IF op > OP_PUSHDATA4 THEN [op |-> op, data |-> Null, next |-> i + 1]
        ELSE IF start > Len(s) THEN Null
        ELSE IF start + len > Len(s) THEN Null
        ELSE IF strictMinimalPush /\ len < LeastLength(op) THEN Null
        ELSE [op |-> -len, data |-> SubSeq(s, start + 1, start + len), next |-> start + len]

\* The instructions of a script that reads to its end.
Instructions(s, strictMinimal) ==
    LET prepended(t, rest) == IF rest = Null THEN Null ELSE <<t>> \o rest
        from[i \in 0 .. Len(s)] ==
            LET andSoOn(t) == IF t = Null THEN Null ELSE prepended(t, from[t.next])
            IN  IF i = Len(s) THEN <<>> ELSE andSoOn(NextSafe(s, i, strictMinimal))
    IN  from[0]

SmallNumber(t) == IF t.op \in OP_1 .. OP_16 THEN t.op - 80 ELSE Null

IsPubkey(t) == t.data # Null /\ Len(t.data) \in KeyLengths

\* Both recognisers refuse at the first instruction that does not fit; as
\* they also refuse a rest, they accept what reads as a whole and fits.
CsvBlocks(t, strictMinimal) ==
    IF t.data = Null THEN SmallNumber(t)
    ELSE LET number == DecodeResult(t.data, strictMinimal) IN
         IF number = Null THEN Null ELSE IF number < 0 THEN Null ELSE number

RecognizeCsvTimelock(script, strictMinimal) ==
    LET parameters(t) ==
            IF t = Null THEN Null
            ELSE IF /\ Len(t) = 5
                    /\ CsvBlocks(t[1], strictMinimal) # Null
                    /\ t[2].op = OP_CHECKSEQUENCEVERIFY /\ t[3].op = OP_DROP
                    /\ IsPubkey(t[4]) /\ t[5].op = OP_CHECKSIG
            THEN [csvBlocks |-> CsvBlocks(t[1], strictMinimal), pubkey |-> t[4].data]
            ELSE Null
    IN  parameters(Instructions(script, strictMinimal))

RecognizeMultisig(script, strictMinimal) ==
    LET parameters(t) ==
            LET m == SmallNumber(t[1])
                n == SmallNumber(t[Len(t) - 1])
                keys == SubSeq(t, 2, Len(t) - 2)
            IN  IF t = Null THEN Null
                ELSE IF Len(t) < 3 THEN Null
                ELSE IF /\ Null \notin {m, n}
                        /\ \A i \in DOMAIN keys : IsPubkey(keys[i])
                        /\ n = Len(keys) /\ t[Len(t)].op = OP_CHECKMULTISIG
                THEN IF n < m THEN Null
                     ELSE [m |-> m, n |-> n, pubkeys |-> [i \in 1 .. n |-> keys[i].data]]
                ELSE Null
    IN  parameters(Instructions(script, strictMinimal))
=============================================================================
