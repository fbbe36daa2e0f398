------------------------------ MODULE UndoLot -------------------------------
(***************************************************************************)
(* What the browser prototype promises of its history ("Undo the last      *)
(* allocation-related action", state.js:243): the lot goes back to what it *)
(* was, whole, and not only the slot that the history names.               *)
(***************************************************************************)
EXTENDS Integers, Sequences

CONSTANTS Places, Nobody

VARIABLES
    parked,   \* who is in each place
    past      \* the lot as it was before each action not undone yet

Init ==
    /\ parked \in [Places -> Int]
    /\ past = << >>

\* One place is taken or left; a place is never taken from somebody.
Act ==
    /\ \E p \in Places :
         /\ parked[p] = Nobody \/ parked'[p] = Nobody
         /\ parked' = [parked EXCEPT ![p] = parked'[p]]
    /\ past' = Append(past, parked)

Undo ==
    /\ past # << >>
    /\ parked' = past[Len(past)]
    /\ past' = SubSeq(past, 1, Len(past) - 1)

Next == Act \/ Undo

Spec == Init /\ [][Next]_<< parked, past >>

=============================================================================
