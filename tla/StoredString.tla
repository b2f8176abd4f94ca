---------------------------- MODULE StoredString ----------------------------
(***************************************************************************)
(* storage/BaseStoredString.ts: a string in storage cells, the first of    *)
(* which holds the length and the first bytes, the others the rest.  A     *)
(* string is the sequence of its UTF-8 bytes.  The instance keeps the      *)
(* string; an empty one counts as not loaded.  A call that throws ends the *)
(* transaction and undoes it.                                              *)
(***************************************************************************)
EXTENDS Integers, Sequences

CONSTANTS
    HeaderBytes,    \* 28: what fits beside the length
    CellBytes,      \* 32
    MAX_LENGTH,
    Strings,        \* the strings that are written, some of them too long
    Cells           \* how many cells any of them needs

VARIABLES
    cells,          \* the cells as the transaction sees them
    permanent,      \* what they are if it is undone
    value,          \* _value
    failed,         \* the setter has thrown
    text,           \* history: the string the contract has set last
    keptText        \* history: what it is if the transaction is undone

vars == <<cells, permanent, value, failed, text, keptText>>

\* Numbers are bytes; 0 fills what is left.
Zeros(n) == [i \in 1 .. n |-> 0]
EmptyCells ==
    [c \in 0 .. Cells - 1 |->
        IF c = 0 THEN [length |-> 0, bytes |-> Zeros(HeaderBytes)]
        ELSE [length |-> 0, bytes |-> Zeros(CellBytes)]]

Init ==
    /\ cells = EmptyCells /\ permanent = EmptyCells /\ value = <<>> /\ failed = FALSE
    /\ text = <<>> /\ keptText = <<>>

\* A plausible slip: bytes that do not fill a cell are not counted.
FullChunkCount(length) ==
    IF length <= HeaderBytes THEN 1 ELSE 1 + (length - HeaderBytes) \div CellBytes

\* The cells of a string of the given length: 0 to ChunkCount - 1.
ChunkCount(length) ==
    IF length <= HeaderBytes THEN 1
    ELSE 1 + (length - HeaderBytes + CellBytes - 1) \div CellBytes

\* A plausible slip: the cell that is filled in part is not cleared.
ClearedFullChunks(cs, oldLength) ==
    [c \in DOMAIN cs |-> IF c < FullChunkCount(oldLength) THEN EmptyCells[c] ELSE cs[c]]

\* clearOldStorage
Cleared(cs, oldLength) ==
    IF oldLength = 0 THEN cs
    ELSE [c \in DOMAIN cs |-> IF c < ChunkCount(oldLength) THEN EmptyCells[c] ELSE cs[c]]

\* Where byte i of the string is: its cell, and its place there.
CellOf(i) == IF i <= HeaderBytes THEN 0 ELSE 1 + (i - HeaderBytes - 1) \div CellBytes
PlaceOf(i) == IF i <= HeaderBytes THEN i ELSE 1 + ((i - HeaderBytes - 1) % CellBytes)

\* The cells a string is written to are written whole.
Packed(cs, bytes) ==
    [c \in DOMAIN cs |->
        IF c >= ChunkCount(Len(bytes)) THEN cs[c]
        ELSE [length |-> IF c = 0 THEN Len(bytes) ELSE 0,
              bytes |-> [p \in DOMAIN cs[c].bytes |->
                  IF \E i \in DOMAIN bytes : CellOf(i) = c /\ PlaceOf(i) = p
                  THEN bytes[CHOOSE i \in DOMAIN bytes : CellOf(i) = c /\ PlaceOf(i) = p]
                  ELSE 0]]]

\* load
Loaded(cs) == [i \in 1 .. cs[0].length |-> cs[CellOf(i)].bytes[PlaceOf(i)]]

\* The setter with save: the old string is cleared before the length is checked.
Set(v) ==
    /\ ~failed
    /\ value' = v
    /\ LET free == Cleared(cells, cells[0].length) IN
       IF Len(v) > MAX_LENGTH
       THEN cells' = free /\ failed' = TRUE
       ELSE cells' = Packed(free, v) /\ failed' = FALSE
    /\ text' = v
    /\ UNCHANGED <<permanent, keptText>>

\* What the getter returns.
Read == IF value = <<>> THEN Loaded(cells) ELSE value

Get ==
    /\ ~failed
    /\ value' = Read
    /\ UNCHANGED <<cells, permanent, failed, text, keptText>>

\* The transaction ends; the next one has a new instance.
Commit ==
    /\ ~failed
    /\ permanent' = cells /\ keptText' = text /\ value' = <<>>
    /\ UNCHANGED <<cells, failed, text>>
Abort ==
    /\ cells' = permanent /\ text' = keptText /\ value' = <<>> /\ failed' = FALSE
    /\ UNCHANGED <<permanent, keptText>>

Next == Get \/ Commit \/ Abort \/ \E v \in Strings : Set(v)

Spec == Init /\ [][Next]_vars

-----------------------------------------------------------------------------
\* Until the setter throws, the string that was set is what the cells hold and what the
\* getter returns, in this transaction and in the next one.
StringIsKept ==
    /\ ~failed => Loaded(cells) = text /\ Read = text
    /\ Loaded(permanent) = keptText

\* The cells hold nothing of an earlier, longer string: what lies behind the end of the
\* string is zero, also when a string was refused after the old one was cleared.
NothingLeftBehind ==
    /\ ~failed => cells = Packed(EmptyCells, text)
    /\ permanent = Packed(EmptyCells, keptText)
=============================================================================
