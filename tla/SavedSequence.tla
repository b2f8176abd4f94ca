---------------------------- MODULE SavedSequence -----------------------------
(***************************************************************************)
(* What a stored array promises: a sequence that a transaction changes     *)
(* freely and that becomes permanent when it is saved and the transaction  *)
(* succeeds.                                                               *)
(***************************************************************************)
EXTENDS Integers, Sequences, SequencesExt

CONSTANTS Element, MaxLength

VARIABLES
    view,       \* the sequence the transaction sees
    saved,      \* what has been saved
    permanent   \* what earlier transactions have left

svars == <<view, saved, permanent>>

Init == view = <<>> /\ saved = <<>> /\ permanent = <<>>

Change(s) == view' = s /\ UNCHANGED <<saved, permanent>>

Insert == \E e \in Element : Len(view) < MaxLength /\ Change(Append(view, e))
DropFirst == view # <<>> /\ Change(Tail(view))
DropLast == view # <<>> /\ Change(Front(view))
Assign == \E i \in DOMAIN view, e \in Element : Change([view EXCEPT ![i] = e])

Save == saved' = view /\ UNCHANGED <<view, permanent>>
Clear == view' = <<>> /\ saved' = <<>> /\ permanent' = permanent

\* The transaction ends: what it saved is permanent, or all of it is undone.
Commit == permanent' = saved /\ view' = saved /\ saved' = saved
Abort == view' = permanent /\ saved' = permanent /\ permanent' = permanent

Next == Insert \/ DropFirst \/ DropLast \/ Assign \/ Save \/ Clear \/ Commit \/ Abort

Spec == Init /\ [][Next]_svars
=============================================================================
