------------------------------ MODULE KeyedMap ------------------------------
(***************************************************************************)
(* generic/Map.ts, MapUint8Array.ts, AddressMap.ts, ExtendedAddressMap.ts  *)
(* and MapU256.ts: keys and values in two arrays of the same order.  All   *)
(* but MapU256 remember where the last search ended and look there first,  *)
(* without a bounds check.  Map and MapUint8Array delete by moving the     *)
(* last entry into the gap, the others by closing it.  No key is there     *)
(* twice, so that MapU256 searches from the other end makes no difference. *)
(* Indexes count from 1 here; 0 is the -1 of the code.                     *)
(***************************************************************************)
EXTENDS Sequences, SequencesExt

CONSTANTS Key, Value, Throw

VARIABLES
    class,          \* which of the classes this map is of
    keys,           \* _keys
    values,         \* _values
    lastIndex,      \* _lastIndex
    answer          \* the last call, and what it returned

vars == <<class, keys, values, lastIndex, answer>>

Cached == {"Map", "MapUint8Array", "AddressMap", "ExtendedAddressMap"}
Swapping == {"Map", "MapUint8Array"}

Answer(op, key, result) == [op |-> op, key |-> key, result |-> result]

Init ==
    /\ class = "Map" /\ keys = <<>> /\ values = <<>> /\ lastIndex = 0
    /\ answer = Answer("new", Throw, Throw)

\* A new, empty map of another class.
New(c) ==
    /\ keys = <<>> /\ lastIndex = 0
    /\ class' = c
    /\ UNCHANGED <<keys, values, lastIndex, answer>>

-----------------------------------------------------------------------------
\* indexOf: the remembered place, else the last place that holds k.
IndexOf(k) ==
    LET places == {i \in DOMAIN keys : keys[i] = k} IN
    IF lastIndex \in places THEN lastIndex
    ELSE IF places = {} THEN 0
    ELSE CHOOSE i \in places : \A j \in places : j <= i

\* What a search for k leaves remembered.
Remembered(k) ==
    IF class \in Cached /\ IndexOf(k) # 0 THEN IndexOf(k) ELSE lastIndex

Set(k, v) ==
    /\ IF IndexOf(k) # 0
       THEN /\ values' = [values EXCEPT ![IndexOf(k)] = v]
            /\ keys' = keys
            /\ lastIndex' = Remembered(k)
       ELSE /\ keys' = Append(keys, k)
            /\ values' = Append(values, v)
            /\ lastIndex' = IF class \in Cached THEN Len(keys) + 1 ELSE lastIndex
    /\ answer' = Answer("set", k, v)
    /\ class' = class

Get(k) ==
    /\ answer' = Answer("get", k, IF IndexOf(k) = 0 THEN Throw ELSE values[IndexOf(k)])
    /\ lastIndex' = Remembered(k)
    /\ UNCHANGED <<class, keys, values>>

Has(k) ==
    /\ answer' = Answer("has", k, IndexOf(k) # 0)
    /\ lastIndex' = Remembered(k)
    /\ UNCHANGED <<class, keys, values>>

\* A plausible slip: the last entry is dropped before it is moved.
RemovedUnmoved(s, i) ==
    IF class \in Swapping THEN Front(s) ELSE RemoveAt(s, i)

Removed(s, i) ==
    IF class \in Swapping THEN Front([s EXCEPT ![i] = Last(s)]) ELSE RemoveAt(s, i)

\* A plausible slip: nothing is forgotten when the last entry goes.
AfterDeleteTailKept(i) ==
    LET place == Remembered(keys[i]) IN
    IF i = Len(keys) THEN place ELSE IF place = Len(keys) THEN i ELSE 0

AfterDelete(i) ==
    LET place == Remembered(keys[i]) IN
    IF class \notin Swapping \/ place = i THEN 0
    ELSE IF place = Len(keys) THEN i ELSE place

Delete(k) ==
    /\ answer' = Answer("delete", k, IndexOf(k) # 0)
    /\ IF IndexOf(k) = 0
       THEN UNCHANGED <<keys, values, lastIndex>>
       ELSE /\ keys' = Removed(keys, IndexOf(k))
            /\ values' = Removed(values, IndexOf(k))
            /\ lastIndex' = AfterDelete(IndexOf(k))
    /\ class' = class

Clear ==
    /\ keys' = <<>> /\ values' = <<>> /\ lastIndex' = 0
    /\ answer' = Answer("clear", Throw, Throw)
    /\ class' = class

Next ==
    \/ \E c \in Cached \cup {"MapU256"} : New(c)
    \/ \E k \in Key : Get(k) \/ Has(k) \/ Delete(k) \/ \E v \in Value : Set(k, v)
    \/ Clear

Spec == Init /\ [][Next]_vars

-----------------------------------------------------------------------------
\* The remembered place lies within the arrays, so the unchecked reads of set and
\* isLastIndex never leave them, whatever was deleted before.
PlaceWithinArrays == lastIndex <= Len(keys) /\ Len(values) = Len(keys)

contents ==
    [k \in Range(keys) |-> values[CHOOSE i \in DOMAIN keys : keys[i] = k]]

Dictionary == INSTANCE Dictionary WITH contents <- contents, answer <- answer

\* Every class answers each call as a dictionary does, through any sequence of sets,
\* searches, deletions and clears.
ImplementsDictionary == Dictionary!Spec
=============================================================================
