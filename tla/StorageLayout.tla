--------------------------- MODULE StorageLayout ---------------------------
(***************************************************************************)
(* The stored structures of a contract, and the conditions under which     *)
(* they keep apart.  A state is one of the structures, or one key of one.  *)
(***************************************************************************)
EXTENDS StoragePointers, Inputs

CONSTANTS
    Structures,         \* the structures of a contract, with every key in use
    Slots               \* the most slots that the list of an owner takes

KeyWord == [1 .. WordBytes -> Byte]
Identifier == 1 .. PlaceValue[IdBytes] - 1

IsStructure(s) ==
    \/ s \in [type : {"scalar"}, id : Identifier]
    \/ s \in [type : {"string"}, id : Identifier, index : Nat]
    \/ s \in [type : {"ownerTokens", "addressMap", "u256Map"}, id : Identifier, key : KeyWord]
    \/ s \in [type : {"nested"}, id : Identifier, parent : KeyWord, key : Seq(Byte)]
    \/ s \in [type : {"merged"}, id : Identifier, parent : Seq(Nat), key : Seq(Nat)]

ASSUME SizesAssumption ==
    /\ IdBytes \in Nat \ {0} /\ SubBytes \in Nat \ {0}
    /\ WordBytes \in Nat /\ WordBytes >= SubBytes
    /\ HeaderBytes \in Nat \ {0} /\ CellBytes \in Nat \ {0}
    /\ MaxString \in Nat \ {0} /\ Slots \in Nat

\* Every field has its own identifier, but for the URIs of OP721 and the map of their
\* indexes.  A field has fewer strings than would count beyond its subpointers.
ASSUME FieldsAssumption ==
    /\ \A s \in Structures : IsStructure(s)
    /\ \A s, t \in Structures :
          s.id = t.id => s.type = t.type \/ {s.type, t.type} = {"string", "u256Map"}
    /\ \A s \in Structures :
          s.type = "string" => (s.index + 1) * MaxString <= PlaceValue[SubBytes]

\* The list of an owner begins where the address does: addresses are hashes, so far apart.
ASSUME OwnersAssumption ==
    \A s, t \in Structures : s.type = "ownerTokens" /\ t.type = "ownerTokens" =>
        LET first(u) == Number(Truncated(u.key)) IN
        /\ first(s) + Slots < PlaceValue[SubBytes]
        /\ first(s) < first(t) => first(s) + Slots < first(t)

\* The host's SHA-256 has no collisions among the keys in use, also in the bytes that
\* are taken of it, and does not meet a string of the field.
ASSUME DigestAssumption ==
    \A s \in Structures : IsHashed(s) =>
        LET hash(u) == Truncated(Digest(HashedKey(u))) IN
        /\ Digest(HashedKey(s)) \in [1 .. WordBytes -> Nat]
        /\ \A t \in Structures : IsHashed(t) /\ HashedKey(s) # HashedKey(t) => hash(s) # hash(t)
        /\ \A t \in Structures : t.type = "string" =>
              \A i \in 0 .. MaxString - 1 :
                 hash(s) # Digits(t.index * MaxString + i, SubBytes)

LayoutNext ==
    \/ input = Nothing /\ \E s \in Structures : input' = [kind |-> "cells", structure |-> s]
    \/ input # Nothing /\ input' = Nothing

LayoutSpec == Init /\ [][LayoutNext]_input

\* Structures that hold as much as they can share no cell, and neither do two keys of a
\* map, unless they are addresses that agree in the bytes of a subpointer; so two strings,
\* two lists or two keys that are put together never run into each other (abi.ts, bytes.ts,
\* StoredString.ts, Nested.ts, KeyMerger.ts).
CellsAreSeparate ==
    input.kind = "cells" =>
        \A other \in Structures : Separate(input.structure, other, Slots)
=============================================================================
