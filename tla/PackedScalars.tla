---------------------------- MODULE PackedScalars ----------------------------
(***************************************************************************)
(* storage/StoredU64.ts and StoredU32.ts: several numbers in one storage   *)
(* slot, loaded together on the first use and written back together by     *)
(* save when one has changed.                                              *)
(***************************************************************************)
EXTENDS Integers

CONSTANTS
    Count,          \* 4 for StoredU64, 8 for StoredU32
    Number,         \* with 0
    ResetUnloaded   \* whether reset is called before anything was read

VARIABLES
    slot,           \* the slot as the transaction sees it
    permanent,      \* what it is if the transaction is undone
    values,         \* _values
    isLoaded, isChanged,
    wanted,         \* history: the numbers the contract has set,
    saved,          \* those it has saved,
    kept            \* and those that stay if the transaction is undone

storage == <<slot, permanent>>
history == <<wanted, saved, kept>>
vars == <<storage, values, isLoaded, isChanged, history>>

Zeros == [i \in 0 .. Count - 1 |-> 0]

Init ==
    /\ slot = Zeros /\ permanent = Zeros /\ values = Zeros
    /\ isLoaded = FALSE /\ isChanged = FALSE
    /\ wanted = Zeros /\ saved = Zeros /\ kept = Zeros

\* A plausible slip: a call that does not load the other numbers.
NotEnsured == values

\* ensureValues
Ensured == IF isLoaded THEN values ELSE slot

\* get, getAll, toString
Get ==
    /\ values' = Ensured /\ isLoaded' = TRUE
    /\ UNCHANGED <<storage, isChanged, history>>

Set(i, n) ==
    /\ values' = [Ensured EXCEPT ![i] = n]
    /\ isLoaded' = TRUE
    /\ isChanged' = (isChanged \/ Ensured[i] # n)
    /\ wanted' = [wanted EXCEPT ![i] = n]
    /\ UNCHANGED <<storage, saved, kept>>

SetMultiple(ns) ==
    /\ values' = ns /\ isLoaded' = TRUE
    /\ isChanged' = (isChanged \/ ns # Ensured)
    /\ wanted' = ns
    /\ UNCHANGED <<storage, saved, kept>>

\* reset does not count as loading.
Reset ==
    /\ isLoaded \/ ResetUnloaded
    /\ values' = Zeros /\ isChanged' = TRUE
    /\ wanted' = Zeros
    /\ UNCHANGED <<storage, isLoaded, saved, kept>>

Save ==
    /\ slot' = IF isChanged THEN values ELSE slot
    /\ isChanged' = FALSE
    /\ saved' = wanted
    /\ UNCHANGED <<permanent, values, isLoaded, wanted, kept>>

\* The transaction ends; the next one has a new instance.
NewInstance == values' = Zeros /\ isLoaded' = FALSE /\ isChanged' = FALSE
Commit ==
    /\ permanent' = slot /\ kept' = saved /\ wanted' = saved
    /\ NewInstance /\ UNCHANGED <<slot, saved>>
Abort ==
    /\ slot' = permanent /\ wanted' = kept /\ saved' = kept
    /\ NewInstance /\ UNCHANGED <<permanent, kept>>

Next ==
    \/ Get \/ Reset \/ Save \/ Commit \/ Abort
    \/ \E i \in 0 .. Count - 1, n \in Number : Set(i, n)
    \/ \E ns \in [0 .. Count - 1 -> Number] : SetMultiple(ns)

Spec == Init /\ [][Next]_vars

-----------------------------------------------------------------------------
\* A set changes its number and none beside it, no read loses a change, what was saved
\* is in the slot and stays there when the transaction succeeds.
NumbersAreKept == Ensured = wanted /\ slot = saved /\ permanent = kept
=============================================================================
