-------------------------- MODULE StoredBooleanArray --------------------------
(***************************************************************************)
(* storage/arrays/StoredBooleanArray.ts: a ring of bits in storage slots.  *)
(* Unlike StoredPackedArray it changes the slot buffers in place, and they *)
(* are the buffers that Blockchain.storage holds (getStorageAt returns the *)
(* cached buffer, setStorageAt caches the buffer it is given), so which    *)
(* slots share a buffer is part of the state.  A call that throws ends the *)
(* transaction and undoes it (Abort).                                      *)
(***************************************************************************)
EXTENDS Integers, Sequences

CONSTANTS
    Capacity,       \* bits in a slot
    MAX_LENGTH,     \* as the constructor gets it
    DeleteMany,     \* whether deleteAll is called with more than one slot loaded
    MaxCalls,       \* bound on the calls
    MaxRawCalls     \* the bound for a contract that moves the start index

Slot == 0..((MAX_LENGTH - 1) \div Capacity)
Bit == 0..(Capacity - 1)
Bits == [Bit -> BOOLEAN]
NoBits == [b \in Bit |-> FALSE]
Nowhere == 0            \* no buffer

VARIABLES
    host,           \* the slots and the header in the host's storage
    permanent,      \* what they are if the transaction is undone
    heap,           \* the buffers of this instance, in the order they were made
    cached,         \* Blockchain.storage: the buffer of each slot
    values,         \* _values: the buffer of each slot
    changed,        \* _isChanged
    length,         \* _length
    startIndex,     \* _startIndex
    changedHeader,  \* _isChangedLength or _isChangedStartIndex
    nextItemOffset,
    maxLength,      \* MAX_LENGTH after setMaxLength
    raw,            \* whether the contract moves the start index (and never resets)
    calls           \* calls so far

memory == <<heap, cached, values, changed>>
header == <<length, startIndex, changedHeader>>
cursor == <<nextItemOffset, maxLength>>
vars == <<host, permanent, memory, header, cursor, raw, calls>>

Storage == [slots : [Slot -> Bits], length : 0..MAX_LENGTH, start : Nat]

TypeOK ==
    /\ host \in Storage /\ permanent \in Storage
    /\ heap \in Seq(Bits)
    /\ cached \in [Slot -> 0..Len(heap)] /\ values \in [Slot -> 0..Len(heap)]
    /\ changed \subseteq {s \in Slot : values[s] # Nowhere}
    /\ length \in 0..MAX_LENGTH /\ startIndex \in Nat /\ changedHeader \in BOOLEAN
    /\ nextItemOffset \in 0..MAX_LENGTH /\ maxLength \in 1..MAX_LENGTH
    /\ raw \in BOOLEAN /\ calls \in Nat

-----------------------------------------------------------------------------
RealIndex(i) == (startIndex + i) % maxLength
SlotOf(cell) == cell \div Capacity

\* ensureSlotLoaded: the buffers after slot s is loaded; a slot neither loaded nor cached
\* is read from the host into a new buffer.
Fresh(s) == values[s] = Nowhere /\ cached[s] = Nowhere
LoadedHeap(s) == IF Fresh(s) THEN Append(heap, host.slots[s]) ELSE heap
BufferOf(s) ==
    IF values[s] # Nowhere THEN values[s]
    ELSE IF cached[s] # Nowhere THEN cached[s] ELSE Len(heap) + 1

Load(s) ==
    /\ values' = [values EXCEPT ![s] = BufferOf(s)]
    /\ cached' = IF Fresh(s) THEN [cached EXCEPT ![s] = BufferOf(s)] ELSE cached

BitAt(cell) == LoadedHeap(SlotOf(cell))[BufferOf(SlotOf(cell))][cell % Capacity]

Read(cell) ==
    /\ Load(SlotOf(cell))
    /\ heap' = LoadedHeap(SlotOf(cell))
    /\ UNCHANGED changed

\* setBit in the slot's buffer; mark says whether the slot is marked as changed.
Write(cell, bit, mark) ==
    /\ Load(SlotOf(cell))
    /\ heap' = [LoadedHeap(SlotOf(cell)) EXCEPT ![BufferOf(SlotOf(cell))][cell % Capacity] = bit]
    /\ changed' = IF mark THEN changed \cup {SlotOf(cell)} ELSE changed

Call ==
    /\ calls < (IF raw THEN MaxRawCalls ELSE MaxCalls)
    /\ calls' = calls + 1
    /\ raw' = raw

Get(i) ==
    /\ Call /\ i < length
    /\ Read(RealIndex(i))
    /\ UNCHANGED <<host, permanent, header, cursor>>

GetNext ==
    /\ Call /\ nextItemOffset < length
    /\ Read(RealIndex(nextItemOffset))
    /\ nextItemOffset' = nextItemOffset + 1
    /\ UNCHANGED <<host, permanent, header, maxLength>>

\* set, and setMultiple for each of its elements; a slot is marked when the bit differs.
Set(i, bit) ==
    /\ Call /\ i < length
    /\ Write(RealIndex(i), bit, BitAt(RealIndex(i)) # bit)
    /\ UNCHANGED <<host, permanent, header, cursor>>

\* push writes and marks even a false bit: the cell may hold an old element.
PushFalseUnmarked(bit) ==
    /\ Call /\ length < maxLength
    /\ Write(RealIndex(length), bit, bit)
    /\ length' = length + 1
    /\ changedHeader' = TRUE
    /\ UNCHANGED <<host, permanent, startIndex, cursor>>
Push(bit) ==
    /\ Call /\ length < maxLength
    /\ Write(RealIndex(length), bit, TRUE)
    /\ length' = length + 1
    /\ changedHeader' = TRUE
    /\ UNCHANGED <<host, permanent, startIndex, cursor>>

Delete(i) ==
    /\ Call /\ i < length
    /\ Write(RealIndex(i), FALSE, BitAt(RealIndex(i)))
    /\ UNCHANGED <<host, permanent, header, cursor>>

RemoveItemFromLength ==
    /\ Call /\ length > 0
    /\ length' = length - 1
    /\ changedHeader' = TRUE
    /\ UNCHANGED <<host, permanent, memory, startIndex, cursor>>

DeleteLast ==
    /\ Call /\ length > 0
    /\ Write(RealIndex(length - 1), FALSE, BitAt(RealIndex(length - 1)))
    /\ length' = length - 1
    /\ changedHeader' = TRUE
    /\ UNCHANGED <<host, permanent, startIndex, cursor>>

MoveStart(i) ==
    /\ Call /\ raw
    /\ startIndex' = i
    /\ changedHeader' = TRUE
    /\ UNCHANGED <<host, permanent, memory, length, maxLength>>

IncrementStartingIndex ==
    /\ MoveStart(IF startIndex >= maxLength THEN 0 ELSE startIndex + 1)
    /\ UNCHANGED nextItemOffset
SetStartingIndex(i) == MoveStart(i) /\ UNCHANGED nextItemOffset
ApplyNextOffsetToStartingIndex ==
    /\ nextItemOffset # 0
    /\ MoveStart(startIndex + nextItemOffset - 1)
    /\ nextItemOffset' = 0

SetMaxLength(m) ==
    /\ Call /\ raw /\ m <= maxLength
    /\ maxLength' = m
    /\ UNCHANGED <<host, permanent, memory, header, nextItemOffset>>

\* save: setStorageAt caches the buffers it writes, which are those of _values.
Save ==
    /\ Call
    /\ host' = [slots |-> [s \in Slot |-> IF s \in changed THEN heap[values[s]] ELSE host.slots[s]],
                length |-> IF changedHeader THEN length ELSE host.length,
                start |-> IF changedHeader THEN startIndex ELSE host.start]
    /\ cached' = [s \in Slot |-> IF s \in changed THEN values[s] ELSE cached[s]]
    /\ changed' = {} /\ changedHeader' = FALSE
    /\ UNCHANGED <<permanent, heap, values, length, startIndex, cursor>>

Empty == /\ values' = [s \in Slot |-> Nowhere] /\ changed' = {}
         /\ length' = 0 /\ startIndex' = 0 /\ changedHeader' = FALSE

Loaded == {s \in Slot : values[s] # Nowhere}

\* deleteAll writes one zero buffer to every slot that is loaded.
DeleteAll ==
    /\ Call /\ (DeleteMany \/ \A s, t \in Loaded : s = t)
    /\ host' = [slots |-> [s \in Slot |-> IF values[s] # Nowhere THEN NoBits ELSE host.slots[s]],
                length |-> 0, start |-> 0]
    /\ heap' = Append(heap, NoBits)
    /\ cached' = [s \in Slot |-> IF values[s] # Nowhere THEN Len(heap) + 1 ELSE cached[s]]
    /\ Empty
    /\ UNCHANGED <<permanent, cursor>>

\* reset writes an empty header; the slots stay, in the cache as well.
Reset ==
    /\ Call /\ ~raw
    /\ host' = [host EXCEPT !.length = 0, !.start = 0]
    /\ Empty
    /\ UNCHANGED <<permanent, heap, cached, cursor>>

\* A new instance in the next transaction: an empty cache and the constructor.
Restart(from) ==
    /\ heap' = <<>> /\ cached' = [s \in Slot |-> Nowhere]
    /\ values' = [s \in Slot |-> Nowhere] /\ changed' = {}
    /\ length' = from.length /\ startIndex' = from.start /\ changedHeader' = FALSE
    /\ nextItemOffset' = 0 /\ maxLength' = MAX_LENGTH

Commit == permanent' = host /\ Restart(host) /\ UNCHANGED <<host, raw, calls>>
Abort == host' = permanent /\ Restart(permanent) /\ UNCHANGED <<permanent, raw, calls>>

Init ==
    /\ host = [slots |-> [s \in Slot |-> NoBits], length |-> 0, start |-> 0]
    /\ permanent = host
    /\ heap = <<>> /\ cached = [s \in Slot |-> Nowhere]
    /\ values = [s \in Slot |-> Nowhere] /\ changed = {}
    /\ length = 0 /\ startIndex = 0 /\ changedHeader = FALSE
    /\ nextItemOffset = 0 /\ maxLength = MAX_LENGTH
    /\ raw \in BOOLEAN /\ calls = 0

Index == 0..(MAX_LENGTH - 1)

Next ==
    \/ \E i \in Index : Get(i) \/ Delete(i) \/ SetStartingIndex(i)
    \/ \E i \in Index, bit \in BOOLEAN : Set(i, bit)
    \/ \E bit \in BOOLEAN : Push(bit)
    \/ GetNext \/ RemoveItemFromLength \/ DeleteLast
    \/ IncrementStartingIndex \/ ApplyNextOffsetToStartingIndex
    \/ \E m \in 1..MAX_LENGTH : SetMaxLength(m)
    \/ Save \/ DeleteAll \/ Reset \/ Commit \/ Abort

Spec == Init /\ [][Next]_vars

-----------------------------------------------------------------------------
(* Properties *)

View == [i \in 1..length |-> BitAt(RealIndex(i - 1))]
Stored(st) == [i \in 1..st.length |->
                 LET cell == (st.start + i - 1) % MAX_LENGTH
                 IN  st.slots[SlotOf(cell)][cell % Capacity]]

\* What each call does to the sequence, and to nothing else in it.
CallsAreExact ==
    /\ \A i \in 0..(length - 1) :
          /\ \A bit \in BOOLEAN : Set(i, bit) => View' = [View EXCEPT ![i + 1] = bit]
          /\ Delete(i) => View' = [View EXCEPT ![i + 1] = FALSE]
    /\ \A bit \in BOOLEAN : Push(bit) => View' = Append(View, bit)

\* Without the start index methods, the array is a sequence of booleans that survives its
\* transactions, and a call changes the bit it names and no other.
Sequence == INSTANCE SavedSequence WITH
                Element <- BOOLEAN, MaxLength <- MAX_LENGTH,
                view <- View, saved <- Stored(host), permanent <- Stored(permanent)
ImplementsSavedSequence ==
    /\ Sequence!Init
    /\ [][~raw => [Sequence!Next]_(Sequence!svars) /\ CallsAreExact]_vars

\* StoredBooleanArray.ts: "slot 0 stores indexes [0..255], slot 1 stores indexes
\* [256..511]": setting one element leaves the others as they are.
SetChangesOneElement ==
    [][\A i \in Index, bit \in BOOLEAN :
          Set(i, bit) => \A j \in 1..length : j # i + 1 => View'[j] = View[j]]_vars
=============================================================================
