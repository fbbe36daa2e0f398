------------------------------- MODULE LifoLot ------------------------------
(***************************************************************************)
(* What the parking system promises about its slots, without requests,     *)
(* vehicles, zones or pointers: a lot of slots of which some are held, on  *)
(* a stack.  A client is granted a slot nobody holds, is refused only when *)
(* every slot is held, and what is given back is the slot granted last.    *)
(***************************************************************************)
EXTENDS Integers, Sequences

VARIABLES
    lot,       \* the slots there are
    held,      \* the slots that are held, the one granted last at the end
    answer     \* "granted" or "refused" after a request, "other" otherwise

vars == << lot, held, answer >>

HeldSlots == { held[n] : n \in DOMAIN held }

Init == lot = {} /\ held = << >> /\ answer = "other"

\* More slots; none is taken away.
Extend ==
    /\ lot \subseteq lot'
    /\ answer' = "other"
    /\ UNCHANGED held

Grant ==
    /\ \E slot \in lot \ HeldSlots : held' = Append(held, slot)
    /\ answer' = "granted"
    /\ UNCHANGED lot

Refuse ==
    /\ lot = HeldSlots
    /\ answer' = "refused"
    /\ UNCHANGED << lot, held >>

GiveBack ==
    /\ held # << >>
    /\ held' = SubSeq(held, 1, Len(held) - 1)
    /\ answer' = "other"
    /\ UNCHANGED lot

\* A call that finds nothing to do.
Nothing ==
    /\ answer' = "other"
    /\ UNCHANGED << lot, held >>

Next == Extend \/ Grant \/ Refuse \/ GiveBack \/ Nothing

Spec == Init /\ [][Next]_vars

=============================================================================
