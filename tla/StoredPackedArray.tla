-------------------------- MODULE StoredPackedArray ---------------------------
(***************************************************************************)
(* storage/arrays/StoredPackedArray.ts: a ring of at most MAX_LENGTH cells, *)
(* packed into storage slots, with a length and a start index in a header. *)
(* An instance loads the header when it is made, slots when it needs them, *)
(* keeps the last slot it used at hand and writes to the storage only in   *)
(* save, deleteAll and reset.  A call that throws ends the transaction and *)
(* undoes it (Abort).                                                      *)
(***************************************************************************)
EXTENDS Integers, Sequences

CONSTANTS
    Value,          \* element values
    Zero,           \* zeroValue() and defaultValue
    Capacity,       \* elements in a slot
    MAX_LENGTH,     \* as the constructor gets it
    MaxU32,         \* u32.MAX_VALUE
    MaxCalls,       \* bound on the calls
    MaxRawCalls     \* the bound for a contract that uses the raw methods

Slot == 0..((MAX_LENGTH - 1) \div Capacity)
SlotData == [0..(Capacity - 1) -> Value]
Length == 0..MAX_LENGTH
Storage == [slots : [Slot -> SlotData], length : Length, start : 0..MaxU32]
NoSlot == [slot |-> -1]         \* _cachedSlotIndex is -1

VARIABLES
    storage,        \* the array's pointers in the contract's storage
    permanent,      \* what they hold if the transaction is undone
    length,         \* _length
    startIndex,     \* _startIndex
    slots,          \* _slots: the slots loaded so far
    changed,        \* _isChanged
    changedHeader,  \* _isChangedLength or _isChangedStartIndex
    hot,            \* _cachedSlotIndex and _cachedSlotData
    nextItemOffset,
    maxLength,      \* MAX_LENGTH after setMaxLength
    raw,            \* whether the contract calls the physical and the start index methods
    calls           \* calls so far

memory == <<slots, changed, hot>>
header == <<length, startIndex, changedHeader>>
cursor == <<nextItemOffset, maxLength>>
vars == <<storage, permanent, memory, header, cursor, raw, calls>>

TypeOK ==
    /\ storage \in Storage /\ permanent \in Storage
    /\ length \in Length /\ startIndex \in 0..(MAX_LENGTH - 1)
    /\ DOMAIN slots \subseteq Slot /\ \A s \in DOMAIN slots : slots[s] \in SlotData
    /\ changed \subseteq DOMAIN slots /\ changedHeader \in BOOLEAN
    /\ hot = NoSlot \/ (hot.slot \in Slot /\ hot.data \in SlotData)
    /\ nextItemOffset \in 0..MAX_LENGTH /\ maxLength \in 1..MAX_LENGTH
    /\ raw \in BOOLEAN /\ calls \in Nat

-----------------------------------------------------------------------------
\* A u32 sum wraps.
Plus(m, n) == (m + n) % (MaxU32 + 1)

RealIndexClamped(i) ==
    IF startIndex + i < maxLength THEN startIndex + i ELSE maxLength - 1
RealIndex(i) == Plus(startIndex, i) % maxLength

\* ensureSlot: the slot at hand, else the one loaded, else the storage.
EnsureSlot(s) ==
    IF s = hot.slot THEN hot.data
    ELSE IF s \in DOMAIN slots THEN slots[s] ELSE storage.slots[s]

SlotOf(cell) == cell \div Capacity
CellValue(cell) == EnsureSlot(SlotOf(cell))[cell % Capacity]

Loaded(s, data) == [t \in DOMAIN slots \cup {s} |-> IF t = s THEN data ELSE slots[t]]
Keep(s, data) == slots' = Loaded(s, data) /\ hot' = [slot |-> s, data |-> data]

\* Reading a cell loads its slot.
Read(cell) ==
    /\ Keep(SlotOf(cell), EnsureSlot(SlotOf(cell)))
    /\ UNCHANGED changed

\* Writing a cell: a new slot, marked as changed when the value differs.
WriteColdSlot(cell, v) ==
    /\ slots' = Loaded(SlotOf(cell), [EnsureSlot(SlotOf(cell)) EXCEPT ![cell % Capacity] = v])
    /\ hot' = [slot |-> SlotOf(cell), data |-> EnsureSlot(SlotOf(cell))]
    /\ changed' = IF CellValue(cell) = v THEN changed ELSE changed \cup {SlotOf(cell)}
Write(cell, v) ==
    /\ Keep(SlotOf(cell), [EnsureSlot(SlotOf(cell)) EXCEPT ![cell % Capacity] = v])
    /\ changed' = IF CellValue(cell) = v THEN changed ELSE changed \cup {SlotOf(cell)}

Call ==
    /\ calls < (IF raw THEN MaxRawCalls ELSE MaxCalls)
    /\ calls' = calls + 1
    /\ raw' = raw
RawCall == raw /\ Call

Get(i) ==
    /\ Call /\ i < maxLength
    /\ Read(RealIndex(i))
    /\ UNCHANGED <<storage, permanent, header, cursor>>

GetNext ==
    /\ Call /\ nextItemOffset < maxLength
    /\ Read(RealIndex(nextItemOffset))
    /\ nextItemOffset' = nextItemOffset + 1
    /\ UNCHANGED <<storage, permanent, header, maxLength>>

\* set, and setMultiple for each of its elements; an index beyond the length is allowed.
Set(i, v) ==
    /\ Call /\ i < maxLength
    /\ Write(RealIndex(i), v)
    /\ UNCHANGED <<storage, permanent, header, cursor>>

SetPhysical(cell, v) ==
    /\ RawCall /\ cell < maxLength
    /\ Write(cell, v)
    /\ UNCHANGED <<storage, permanent, header, cursor>>

Push(v, isPhysical) ==
    /\ Call /\ (isPhysical => raw)
    /\ length < maxLength
    /\ Write(IF isPhysical THEN length % maxLength ELSE RealIndex(length), v)
    /\ length' = length + 1
    /\ changedHeader' = TRUE
    /\ UNCHANGED <<storage, permanent, startIndex, cursor>>

NextStart == IF startIndex + 1 >= maxLength THEN 0 ELSE startIndex + 1

\* shift clears the cell at the start index itself.
Shift ==
    /\ Call /\ length > 0
    /\ Write(startIndex, Zero)
    /\ length' = length - 1
    /\ startIndex' = NextStart
    /\ changedHeader' = TRUE
    /\ UNCHANGED <<storage, permanent, cursor>>

\* delete and delete_physical: the element becomes zero, the length stays.
Delete(i) ==
    /\ Call
    /\ Write(RealIndex(i), Zero)
    /\ UNCHANGED <<storage, permanent, header, cursor>>

RemoveItemFromLength ==
    /\ Call /\ length > 0
    /\ length' = length - 1
    /\ changedHeader' = TRUE
    /\ UNCHANGED <<storage, permanent, memory, startIndex, cursor>>

DeleteLastAtLength ==
    /\ Call /\ length > 0
    /\ Write(RealIndex(length), Zero)
    /\ length' = length - 1
    /\ changedHeader' = TRUE
    /\ UNCHANGED <<storage, permanent, startIndex, cursor>>
DeleteLast ==
    /\ Call /\ length > 0
    /\ Write(RealIndex(length - 1), Zero)
    /\ length' = length - 1
    /\ changedHeader' = TRUE
    /\ UNCHANGED <<storage, permanent, startIndex, cursor>>

MoveStart(i) ==
    /\ startIndex' = i
    /\ changedHeader' = TRUE
    /\ UNCHANGED <<storage, permanent, memory, length, maxLength>>

IncrementStartingIndex == RawCall /\ MoveStart(NextStart) /\ UNCHANGED nextItemOffset
SetStartingIndex(i) == RawCall /\ i < maxLength /\ MoveStart(i) /\ UNCHANGED nextItemOffset
ApplyNextOffsetToStartingIndex ==
    /\ RawCall /\ nextItemOffset # 0
    /\ MoveStart(Plus(startIndex, nextItemOffset) % maxLength)
    /\ nextItemOffset' = 0

\* save: the changed slots, then the header when it changed.
Save ==
    /\ Call
    /\ storage' = [slots |-> [s \in Slot |-> IF s \in changed THEN slots[s] ELSE storage.slots[s]],
                   length |-> IF changedHeader THEN length ELSE storage.length,
                   start |-> IF changedHeader THEN startIndex ELSE storage.start]
    /\ changed' = {} /\ changedHeader' = FALSE
    /\ UNCHANGED <<permanent, slots, hot, length, startIndex, cursor>>

Forget == slots' = <<>> /\ changed' = {} /\ hot' = NoSlot /\ length' = 0 /\ startIndex' = 0
          /\ changedHeader' = FALSE

\* deleteAll clears the slots this instance has loaded.
ZeroSlot == [k \in 0..(Capacity - 1) |-> Zero]
DeleteAll ==
    /\ Call
    /\ storage' = [slots |-> [s \in Slot |-> IF s \in DOMAIN slots THEN ZeroSlot ELSE storage.slots[s]],
                   length |-> 0, start |-> 0]
    /\ Forget
    /\ UNCHANGED <<permanent, cursor>>

\* reset writes an empty header and leaves the slots.
Reset ==
    /\ Call
    /\ storage' = [storage EXCEPT !.length = 0, !.start = 0]
    /\ Forget
    /\ UNCHANGED <<permanent, cursor>>

\* setMaxLength, which only lowers the maximum of this instance.
SetMaxLength(m) ==
    /\ RawCall /\ m <= maxLength
    /\ maxLength' = m
    /\ UNCHANGED <<storage, permanent, memory, header, nextItemOffset>>

\* The constructor, in the next transaction.
Load(from) ==
    /\ slots' = <<>> /\ changed' = {} /\ hot' = NoSlot
    /\ length' = from.length /\ startIndex' = from.start /\ changedHeader' = FALSE
    /\ nextItemOffset' = 0 /\ maxLength' = MAX_LENGTH

Commit == permanent' = storage /\ Load(storage) /\ UNCHANGED <<storage, raw, calls>>
Abort == storage' = permanent /\ Load(permanent) /\ UNCHANGED <<permanent, raw, calls>>

Init ==
    /\ storage = [slots |-> [s \in Slot |-> ZeroSlot], length |-> 0, start |-> 0]
    /\ permanent = storage
    /\ slots = <<>> /\ changed = {} /\ hot = NoSlot
    /\ length = 0 /\ startIndex = 0 /\ changedHeader = FALSE
    /\ nextItemOffset = 0 /\ maxLength = MAX_LENGTH
    /\ raw \in BOOLEAN /\ calls = 0

Index == 0..(MAX_LENGTH - 1)

Next ==
    \/ \E i \in Index : Get(i) \/ Delete(i) \/ SetStartingIndex(i)
    \/ \E i \in Index, v \in Value : Set(i, v) \/ SetPhysical(i, v)
    \/ \E v \in Value, isPhysical \in BOOLEAN : Push(v, isPhysical)
    \/ GetNext \/ Shift \/ RemoveItemFromLength \/ DeleteLast
    \/ IncrementStartingIndex \/ ApplyNextOffsetToStartingIndex
    \/ \E m \in 1..MAX_LENGTH : SetMaxLength(m)
    \/ Save \/ DeleteAll \/ Reset \/ Commit \/ Abort

Spec == Init /\ [][Next]_vars

-----------------------------------------------------------------------------
(* Properties *)

\* The slot kept at hand is the slot in memory: no sequence of writes, clears and reloads
\* leaves a stale copy that a later read would return.
HotSlotIsCurrent == hot # NoSlot => hot.slot \in DOMAIN slots /\ slots[hot.slot] = hot.data

\* Two elements of the array never share a cell, wherever it wraps around, unless
\* setMaxLength made the ring smaller than what is in it.
ElementsHaveOwnCells ==
    length <= maxLength =>
        \A i, j \in 0..(length - 1) : i # j => RealIndex(i) # RealIndex(j)

View == [i \in 1..length |-> CellValue(RealIndex(i - 1))]
Stored(st) == [i \in 1..st.length |->
                 LET cell == Plus(st.start, i - 1) % MAX_LENGTH
                 IN  st.slots[SlotOf(cell)][cell % Capacity]]

\* What each call does to the sequence, and to nothing else in it.
CallsAreExact ==
    /\ \A i \in 0..(length - 1) :
          /\ \A v \in Value : Set(i, v) => View' = [View EXCEPT ![i + 1] = v]
          /\ Delete(i) => View' = [View EXCEPT ![i + 1] = Zero]
    /\ \A v \in Value : Push(v, FALSE) => View' = Append(View, v)
    /\ Shift => View' = Tail(View)

\* Used without the raw methods, the array is a sequence that survives its transactions,
\* and a call changes the element it names and no other.
Sequence == INSTANCE SavedSequence WITH
                Element <- Value, MaxLength <- MAX_LENGTH,
                view <- View, saved <- Stored(storage), permanent <- Stored(permanent)
ImplementsSavedSequence ==
    /\ Sequence!Init
    /\ [][~raw => [Sequence!Next]_(Sequence!svars) /\ CallsAreExact]_vars
=============================================================================
