-------------------------- MODULE SegwitAddresses --------------------------
(***************************************************************************)
(* script/Bech32.ts, Segwit.ts, BitcoinAddresses.ts and BitcoinCodec.ts:   *)
(* addresses of witness programs, their check against the parameters of a  *)
(* script, and both on the wire.  A string is a sequence of character      *)
(* codes.  The host's hashes are parameters.                               *)
(***************************************************************************)
EXTENDS BitcoinScripts

CONSTANTS Sha256(_), Hash160(_)

Wire == INSTANCE ByteCodec WITH Base <- 256

Separator == 49
Lower == 97 .. 122
Upper == 65 .. 90
ToLower(c) == IF c \in Upper THEN c + 32 ELSE c

\* qpzry9x8gf2tvdw0s3jn54khce6mua7l
CHARSET == <<113, 112, 122, 114, 121, 57, 120, 56, 103, 102, 50, 116, 118, 100, 119, 48,
             115, 51, 106, 110, 53, 52, 107, 104, 99, 101, 54, 109, 117, 97, 55, 108>>

DecodeTable == [c \in Range(CHARSET) |-> CHOOSE v \in 0 .. 31 : CHARSET[v + 1] = c]

-----------------------------------------------------------------------------
(* The checksum *)

HrpExpand(hrp) ==
    [i \in 1 .. Len(hrp) |-> hrp[i] \div 32] \o <<0>>
        \o [i \in 1 .. Len(hrp) |-> hrp[i] % 32]

\* A word of thirty bits as six values of five, the top ones first.
Symbol == 0 .. 31
Symbols(n) == [p \in 1 .. 6 |-> (n \div 32 ^ (6 - p)) % 32]
XorTable ==
    LET differ(a, b, k) == ((a \div 2 ^ k) + (b \div 2 ^ k)) % 2
    IN  [a \in Symbol |-> [b \in Symbol |->
            differ(a, b, 0) + 2 * differ(a, b, 1) + 4 * differ(a, b, 2)
            + 8 * differ(a, b, 3) + 16 * differ(a, b, 4)]]
XorSymbols(x, y) == [p \in 1 .. 6 |-> XorTable[x[p]][y[p]]]

Generator == <<Symbols(996825010), Symbols(642813549), Symbols(513874426),
               Symbols(1027748829), Symbols(705979059)>>

\* The exclusive or of the generators that the bits of a symbol select.
SelectedBy(top) ==
    LET term(k) == IF (top \div 2 ^ (k - 1)) % 2 = 1 THEN Generator[k] ELSE Symbols(0)
    IN  XorSymbols(XorSymbols(term(1), term(2)),
                   XorSymbols(XorSymbols(term(3), term(4)), term(5)))

Selected == [top \in Symbol |-> SelectedBy(top)]

\* The word is shifted by a symbol, which the next value takes; a value has
\* five bits.  The fold goes by halves to spare TLC's stack.
Polymod(values) ==
    LET step(chk, value) == XorSymbols(Append(Tail(chk), value), Selected[chk[1]])
        run[lo \in Nat, hi \in Nat, chk \in Seq(Symbol)] ==
            LET mid == (lo + hi) \div 2 IN
            IF lo = hi THEN step(chk, values[lo]) ELSE run[mid + 1, hi, run[lo, mid, chk]]
    IN  run[1, Len(values), Symbols(1)]

\* A plausible slip: Bech32 for every version.
ChecksumConstantOld(witver) == Symbols(1)

ChecksumConstant(witver) ==
    IF witver = 0 THEN Symbols(1) ELSE Symbols(734539939)      \* 0x2bc830a3

CreateChecksum(hrp, data, witver) ==
    LET zeros == [i \in 1 .. 6 |-> 0]
    IN  XorSymbols(Polymod(HrpExpand(hrp) \o data \o zeros), ChecksumConstant(witver))

-----------------------------------------------------------------------------
(* convertBitsSafe: the bits of data, fromBits each, in groups of toBits.  *)
(* The accumulator keeps only the bits that are still to be written.       *)

\* A whole input word is left over, or bits that are not zero.
PaddingRefused(left, fromBits, rest) == left >= fromBits \/ (left > 0 /\ rest # 0)

ConvertBitsSafe(data, fromBits, toBits, pad) ==
    LET bit(k) == (data[((k - 1) \div fromBits) + 1]
                   \div 2 ^ (fromBits - 1 - ((k - 1) % fromBits))) % 2
        total == Len(data) * fromBits
        full == total \div toBits
        left == total % toBits
        group(g) ==
            LET value[j \in 0 .. toBits] ==
                    IF j = 0 THEN 0
                    ELSE 2 * value[j - 1] + (IF (g - 1) * toBits + j <= total
                                             THEN bit((g - 1) * toBits + j) ELSE 0)
            IN  value[toBits]
        groups == [g \in 1 .. full |-> group(g)]
    IN  IF \E i \in DOMAIN data : data[i] >= 2 ^ fromBits THEN Null
        ELSE IF pad THEN IF left = 0 THEN groups ELSE Append(groups, group(full + 1))
        ELSE IF PaddingRefused(left, fromBits, group(full + 1)) THEN Null ELSE groups

-----------------------------------------------------------------------------
(* Bech32 *)

ProgramLengths(witver) == IF witver = 0 THEN {20, 32} ELSE 2 .. 40

EncodeOrNull(hrp, witver, program) ==
    IF witver \notin 0 .. 16 THEN Null
    ELSE IF Len(program) \notin ProgramLengths(witver) THEN Null
    ELSE LET data == <<witver>> \o ConvertBitsSafe(program, 8, 5, TRUE)
             words == data \o CreateChecksum(hrp, data, witver)
         IN  hrp \o <<Separator>> \o [i \in DOMAIN words |-> CHARSET[words[i] + 1]]

DecodeOrNull(addr) ==
    LET L == Len(addr)
        lower == \E i \in 1 .. L : addr[i] \in Lower
        upper == \E i \in 1 .. L : addr[i] \in Upper
        separators == {i \in 1 .. L : addr[i] = Separator}
        pos == CHOOSE i \in separators : \A j \in separators : j <= i
        normal(s) == IF lower THEN s ELSE [i \in DOMAIN s |-> ToLower(s[i])]
        hrp == normal(SubSeq(addr, 1, pos - 1))
        chars == normal(SubSeq(addr, pos + 1, L))
        data == [i \in DOMAIN chars |-> DecodeTable[chars[i]]]
        witver == data[1]
        program == ConvertBitsSafe(SubSeq(data, 2, Len(data) - 6), 5, 8, FALSE)
    IN  IF L \notin 8 .. 90 \/ (\E i \in 1 .. L : addr[i] \notin 33 .. 126) THEN Null
        ELSE IF lower /\ upper THEN Null
        ELSE IF separators = {} THEN Null
        ELSE IF pos < 2 \/ pos + 6 > L THEN Null
        ELSE IF \E i \in DOMAIN chars : chars[i] \notin DOMAIN DecodeTable THEN Null
        ELSE IF witver > 16 THEN Null
        ELSE IF Polymod(HrpExpand(hrp) \o data) # ChecksumConstant(witver) THEN Null
        ELSE IF program = Null THEN Null
        ELSE IF Len(program) \notin ProgramLengths(witver) THEN Null
        ELSE [hrp |-> hrp, version |-> witver, program |-> program]

-----------------------------------------------------------------------------
(* Segwit and BitcoinAddresses.  A null encoding makes the call revert.    *)

IsValidWitnessScriptSize(script) == Len(script) <= MaxScriptSize

Encoded(hrp, witver, program) ==
    LET orThrow(address) == IF address = Null THEN Throw ELSE address
    IN  orThrow(EncodeOrNull(hrp, witver, program))

P2wsh(hrp, witnessScript) ==
    IF IsValidWitnessScriptSize(witnessScript)
    THEN Encoded(hrp, 0, Sha256(witnessScript)) ELSE Throw

P2wpkh(hrp, pubkey) ==
    IF Len(pubkey) = 33 THEN Encoded(hrp, 0, Hash160(pubkey)) ELSE Throw

P2tr(hrp, outputKey) == IF Len(outputKey) = 32 THEN Encoded(hrp, 1, outputKey) ELSE Throw

ScriptType(decoded) ==
    IF decoded.version = 0 /\ Len(decoded.program) = 20 THEN "p2wpkh"
    ELSE IF decoded.version = 0 /\ Len(decoded.program) = 32 THEN "p2wsh"
    ELSE IF decoded.version = 1 /\ Len(decoded.program) = 32 THEN "p2tr"
    ELSE Null

\* A plausible slip: an address of another network is accepted.
IsProgramAnywhere(address, hrp, version) ==
    LET fits(dec) == IF dec = Null THEN FALSE
                     ELSE dec.version = version /\ Len(dec.program) = 32
    IN  fits(DecodeOrNull(address))

\* With an address of another kind or network nothing else is compared.
IsProgram(address, hrp, version) ==
    LET fits(dec) == IF dec = Null THEN FALSE
                     ELSE dec.version = version /\ dec.hrp = hrp /\ Len(dec.program) = 32
    IN  fits(DecodeOrNull(address))

IsValidAddress(address, expectedHrp, expectedVersion) ==
    LET fits(dec) == IF dec = Null THEN FALSE
                     ELSE /\ expectedHrp \in {Null, dec.hrp}
                          /\ expectedVersion < 0 \/ expectedVersion = dec.version
                          /\ Len(dec.program) \in ProgramLengths(dec.version)
    IN  fits(DecodeOrNull(address))

Eq32(a, b) == Len(a) = 32 /\ Len(b) = 32 /\ a = b

VerifyCsvP2wshAddress(pubkey, csvBlocks, address, hrp, strictMinimal) ==
    LET fits(ws, rec) ==
            IF ws = Throw THEN Throw
            ELSE IF rec = Null THEN FALSE
            ELSE rec.csvBlocks = csvBlocks /\ Eq32(DecodeOrNull(address).program, Sha256(ws))
        verdict(ws) == fits(ws, RecognizeCsvTimelock(ws, strictMinimal))
    IN  IF ~IsProgram(address, hrp, 0) THEN FALSE ELSE verdict(CsvTimelock(pubkey, csvBlocks))

VerifyMultisigP2wshAddress(m, pubkeys, address, hrp) ==
    LET verdict(ws) == IF ws = Throw THEN Throw
                       ELSE Eq32(DecodeOrNull(address).program, Sha256(ws))
    IN  IF ~IsProgram(address, hrp, 0) THEN FALSE ELSE verdict(Multisig(m, pubkeys))

VerifyP2trAddress(outputKey, address, hrp) ==
    /\ IsProgram(address, hrp, 1)
    /\ Eq32(DecodeOrNull(address).program, outputKey)

-----------------------------------------------------------------------------
(* BitcoinCodec: the address as a string and the script behind it *)

WriteWitnessScriptAndAddress(out, witnessScript, hrp) ==
    LET both(address) ==
            IF address = Throw THEN Throw
            ELSE Wire!WriteBytes(Wire!WriteBytes(out, Wire!EncodeWithLength(address, TRUE)),
                                 Wire!EncodeWithLength(witnessScript, TRUE))
    IN  IF witnessScript = Throw THEN Throw ELSE both(P2wsh(hrp, witnessScript))

WriteCsvP2wsh(out, pubkey, csvBlocks, hrp) ==
    WriteWitnessScriptAndAddress(out, CsvTimelock(pubkey, csvBlocks), hrp)

WriteMultisigP2wsh(out, m, pubkeys, hrp) ==
    WriteWitnessScriptAndAddress(out, Multisig(m, pubkeys), hrp)

WriteP2tr(out, outputKey, hrp) ==
    LET written(address) == IF address = Throw THEN Throw
                            ELSE Wire!WriteBytes(out, Wire!EncodeWithLength(address, TRUE))
    IN  written(P2tr(hrp, outputKey))

\* An address that is read, and accepted when Verify of it says so.
ReadAndVerify(inp, Verify(_)) ==
    LET accepted(address, verdict) ==
            IF verdict = Throw THEN Throw ELSE IF verdict THEN address ELSE Null
        judged(address, next) == accepted(address, Verify(address))
    IN  Wire!Then(Wire!ReadStringWithLength(inp, TRUE), judged)

ReadAndVerifyCsvP2wsh(inp, pubkey, csvBlocks, hrp, strictMinimal) ==
    LET verify(a) == VerifyCsvP2wshAddress(pubkey, csvBlocks, a, hrp, strictMinimal)
    IN  ReadAndVerify(inp, verify)

ReadAndVerifyMultisigP2wsh(inp, m, pubkeys, hrp) ==
    LET verify(a) == VerifyMultisigP2wshAddress(m, pubkeys, a, hrp)
    IN  ReadAndVerify(inp, verify)

ReadAndVerifyP2tr(inp, outputKey, hrp) ==
    LET verify(a) == VerifyP2trAddress(outputKey, a, hrp) IN ReadAndVerify(inp, verify)

\* The script of a pair whose address commits to it.
ReadP2wshPairAndVerify(inp, hrp) ==
    LET verified(address, script) ==
            IF ~IsProgram(address, hrp, 0) THEN Null
            ELSE IF ~Eq32(DecodeOrNull(address).program, Sha256(script)) THEN Null
            ELSE script
        second(address, next) ==
            LET pair(script, end) == verified(address, script)
            IN  Wire!Then(Wire!ReadBytesWithLength(next, TRUE), pair)
    IN  Wire!Then(Wire!ReadStringWithLength(inp, TRUE), second)

ReadCsvP2wshPairAndCrossCheck(inp, hrp, strictMinimal) ==
    LET recognized(ws) ==
            IF ws \in {Throw, Null} THEN ws ELSE RecognizeCsvTimelock(ws, strictMinimal)
    IN  recognized(ReadP2wshPairAndVerify(inp, hrp))

ComparePublicKeyArrays(a, b) ==
    /\ Len(a) = Len(b)
    /\ \A i \in DOMAIN a : Len(a[i]) = Len(b[i]) /\ a[i] = b[i]

\* expectedPubkeys is Null and expectedM negative when any will do.
ReadMultisigP2wshPairAndCrossCheck(inp, hrp, expectedM, expectedPubkeys, strictMinimal) ==
    LET expected(rec) ==
            IF rec = Null THEN Null
            ELSE IF expectedM >= 0 /\ rec.m # expectedM THEN Null
            ELSE IF expectedPubkeys = Null THEN rec
            ELSE IF ComparePublicKeyArrays(rec.pubkeys, expectedPubkeys) THEN rec ELSE Null
        recognized(ws) == IF ws \in {Throw, Null} THEN ws
                          ELSE expected(RecognizeMultisig(ws, strictMinimal))
    IN  recognized(ReadP2wshPairAndVerify(inp, hrp))
=============================================================================
