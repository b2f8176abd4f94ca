----------------------------- MODULE Dictionary -----------------------------
(***************************************************************************)
(* What a map of the runtime promises: a function on the keys it holds.    *)
(***************************************************************************)
CONSTANTS Key, Value, Throw

VARIABLES
    contents,
    answer      \* the last call, and what it returned

Answer(op, key, result) == answer' = [op |-> op, key |-> key, result |-> result]

Init == contents = <<>> /\ answer = [op |-> "new", key |-> Throw, result |-> Throw]

Holds(k) == k \in DOMAIN contents

Set(k, v) ==
    /\ contents' = [j \in DOMAIN contents \cup {k} |-> IF j = k THEN v ELSE contents[j]]
    /\ Answer("set", k, v)
Get(k) == contents' = contents /\ Answer("get", k, IF Holds(k) THEN contents[k] ELSE Throw)
Has(k) == contents' = contents /\ Answer("has", k, Holds(k))
Delete(k) ==
    /\ contents' = [j \in DOMAIN contents \ {k} |-> contents[j]]
    /\ Answer("delete", k, Holds(k))
Clear == contents' = <<>> /\ Answer("clear", Throw, Throw)

Next ==
    \/ \E k \in Key : Get(k) \/ Has(k) \/ Delete(k) \/ \E v \in Value : Set(k, v)
    \/ Clear

Spec == Init /\ [][Next]_<<contents, answer>>
=============================================================================
