----------------------------- MODULE Components ------------------------------
(***************************************************************************)
(* The smaller components with state, side by side: each is an instance of *)
(* its module, and a behaviour is one of one of them, while the variables  *)
(* of the others keep their initial values.                                *)
(***************************************************************************)
EXTENDS PegAuthority, Sequences

CONSTANTS
    Key, Value, Throw,                              \* of the maps
    Plugins, MaxOffset,                             \* of a call of a contract
    HeaderBytes, CellBytes, MaxText, Texts, TextCells,      \* of stored strings
    Count, Number,                                  \* of packed numbers
    BitsPerSlot, MaxBits, MaxBitCalls, MaxBitRawCalls,      \* of boolean arrays
    Element, ZeroElement, PerSlot, MaxElements, MaxU32,     \* of packed arrays
    MaxArrayCalls, MaxArrayRawCalls

ASSUME CallAssumption == Plugins \in Nat /\ MaxOffset \in Nat
\* There is a cell for every byte of a string that is not too long.
ASSUME TextAssumption ==
    /\ HeaderBytes \in Nat /\ CellBytes \in Nat \ {0} /\ MaxText \in Nat /\ TextCells \in Nat \ {0}
    /\ MaxText <= HeaderBytes + CellBytes * (TextCells - 1)
    /\ Texts \subseteq Seq(Nat)
ASSUME NumberAssumption == Count \in Nat /\ 0 \in Number
ASSUME BitArrayAssumption == BitsPerSlot \in Nat \ {0} /\ MaxBits \in Nat \ {0}
ASSUME ArrayAssumption ==
    /\ MaxU32 \in Nat /\ MaxElements \in 1 .. MaxU32 /\ PerSlot \in Nat \ {0}
    /\ ZeroElement \in Element

VARIABLES
    part,
    class, keys, mapValues, lastIndex, answer,
    entry, phase, plugin, offset, startOffset, handlers, seen, hooks, handledBy,
    cells, keptCells, value, failed, text, keptText,
    slot, keptSlot, numbers, isLoaded, isChanged, wanted, saved, kept,
    host, keptHost, heap, cached, bitValues, changed, length, startIndex,
    changedHeader, nextItemOffset, maxLength, raw, calls,
    array, keptArray, arrayLength, arrayStart, slots, changedSlots, changedArrayHeader, hot,
    nextOffset, ringLength, rawArray, arrayCalls

pegVars == <<block, authority, pending, pegRate, updatedAt, maxStaleness, quotedAt>>
mapVars == <<class, keys, mapValues, lastIndex, answer>>
callVars == <<entry, phase, plugin, offset, startOffset, handlers, seen, hooks, handledBy>>
textVars == <<cells, keptCells, value, failed, text, keptText>>
slotVars == <<slot, keptSlot, numbers, isLoaded, isChanged, wanted, saved, kept>>
bitVars == <<host, keptHost, heap, cached, bitValues, changed, length, startIndex,
             changedHeader, nextItemOffset, maxLength, raw, calls>>
arrayVars == <<array, keptArray, arrayLength, arrayStart, slots, changedSlots,
               changedArrayHeader, hot, nextOffset, ringLength, rawArray, arrayCalls>>

Map == INSTANCE KeyedMap WITH values <- mapValues

Call == INSTANCE PluginDispatch WITH answer <- handledBy

Text == INSTANCE StoredString WITH
    MAX_LENGTH <- MaxText, Strings <- Texts, Cells <- TextCells, permanent <- keptCells

\* A reset before anything was read is overwritten by the first read: it is left out.
Packed == INSTANCE PackedScalars WITH
    ResetUnloaded <- FALSE, permanent <- keptSlot, values <- numbers

\* Deleting all elements at once is the subject of a run of its own.
Bits == INSTANCE StoredBooleanArray WITH
    Capacity <- BitsPerSlot, MAX_LENGTH <- MaxBits, DeleteMany <- FALSE,
    MaxCalls <- MaxBitCalls, MaxRawCalls <- MaxBitRawCalls,
    permanent <- keptHost, values <- bitValues

Array == INSTANCE StoredPackedArray WITH
    Value <- Element, Zero <- ZeroElement, Capacity <- PerSlot, MAX_LENGTH <- MaxElements,
    MaxCalls <- MaxArrayCalls, MaxRawCalls <- MaxArrayRawCalls,
    storage <- array, permanent <- keptArray, length <- arrayLength,
    startIndex <- arrayStart, changed <- changedSlots, changedHeader <- changedArrayHeader,
    nextItemOffset <- nextOffset, maxLength <- ringLength, raw <- rawArray, calls <- arrayCalls

ComponentsInit ==
    /\ part \in {"peg", "map", "call", "text", "packed", "bits", "array"}
    /\ Init /\ Map!Init /\ Call!Init /\ Text!Init /\ Packed!Init /\ Bits!Init
    /\ Array!Init
    /\ (part # "bits" => ~raw) /\ (part # "array" => ~rawArray)

ComponentsNext ==
    /\ part' = part
    /\ \/ part = "peg" /\ Next
          /\ UNCHANGED <<mapVars, callVars, textVars, slotVars, bitVars, arrayVars>>
       \/ part = "map" /\ Map!Next
          /\ UNCHANGED <<pegVars, callVars, textVars, slotVars, bitVars, arrayVars>>
       \/ part = "call" /\ Call!Next
          /\ UNCHANGED <<pegVars, mapVars, textVars, slotVars, bitVars, arrayVars>>
       \/ part = "text" /\ Text!Next
          /\ UNCHANGED <<pegVars, mapVars, callVars, slotVars, bitVars, arrayVars>>
       \/ part = "packed" /\ Packed!Next
          /\ UNCHANGED <<pegVars, mapVars, callVars, textVars, bitVars, arrayVars>>
       \/ part = "bits" /\ Bits!Next
          /\ UNCHANGED <<pegVars, mapVars, callVars, textVars, slotVars, arrayVars>>
       \/ part = "array" /\ Array!Next
          /\ UNCHANGED <<pegVars, mapVars, callVars, textVars, slotVars, bitVars>>

ComponentsSpec ==
    ComponentsInit /\ [][ComponentsNext]_<<part, pegVars, mapVars, callVars, textVars,
                                           slotVars, bitVars, arrayVars>>

-----------------------------------------------------------------------------
\* KeyedMap: the place a map remembers lies within its arrays, so no unchecked read leaves
\* them.
MapPlaceWithinArrays == Map!PlaceWithinArrays

\* KeyedMap: every class of map answers as a dictionary does.
MapImplementsDictionary == Map!ImplementsDictionary

\* PluginDispatch: the first plugin registered for a method answers it, with the reader at
\* the method's arguments and between the hooks of every plugin.
DispatchReachesTheHandler == Call!ArgumentsReachTheHandler

\* StoredString: a string that was set is read back, in this transaction and the next, and
\* nothing of an earlier string is left in the cells.
TextIsKept == Text!StringIsKept /\ Text!NothingLeftBehind

\* PackedScalars: a set changes its number and none beside it, and what is saved lasts.
PackedNumbersAreKept == Packed!NumbersAreKept

\* StoredBooleanArray: the array is a sequence that survives the transactions that save it,
\* and its header and its buffers stay within their bounds.
BitsImplementSavedSequence == []Bits!TypeOK /\ Bits!ImplementsSavedSequence

\* StoredPackedArray: the slot kept at hand is the slot in memory, and the header stays
\* within its bounds.
ArrayHotSlotIsCurrent == Array!TypeOK /\ Array!HotSlotIsCurrent

\* StoredPackedArray: two elements never share a cell, wherever the ring wraps around.
ArrayElementsHaveOwnCells == Array!ElementsHaveOwnCells

\* StoredPackedArray: the array is a sequence that survives the transactions that save it.
ArrayImplementsSavedSequence == Array!ImplementsSavedSequence
=============================================================================
