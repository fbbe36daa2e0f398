-------------------------- MODULE RollbackContract --------------------------
(***************************************************************************)
(* The promise of RollbackManager's interface (RollBackManager.h:24-33) to *)
(* a client that records every operation and whose objects stay in place:  *)
(* rolling back the last k operations leaves slots and requests as they    *)
(* were before those operations, for every k.  ParkingSystem does not keep *)
(* the client's side: it cancels without recording and lets requests move. *)
(***************************************************************************)
EXTENDS RollbackManager

CONSTANTS
    Slots,         \* the slots operations are about
    NumRequests,   \* how many requests there are
    MaxHistory     \* bound: operations on the stack

ASSUME ContractAssumption ==
    /\ NumRequests \in Nat
    /\ MaxHistory \in Nat

VARIABLES
    isAvailable,   \* of each slot
    requests,      \* the requests, in a buffer that never moves
    history,       \* the undo stack
    past           \* history variable: the memory before each operation

vars == << isAvailable, requests, history, past >>

\* The name of the buffer the requests are in.
Buffer == 0

Memory == [slots |-> isAvailable, requests |-> requests]

Init ==
    /\ isAvailable \in [Slots -> BOOLEAN]
    /\ requests = [ i \in 1 .. NumRequests |-> [currentState |-> "REQUESTED"] ]
    /\ history = << >>
    /\ past = << >>

\* An operation: take a slot, move a request on, record what both were.
Operation(slot, requestId, newState) ==
    LET old == requests[requestId + 1].currentState
    IN  /\ Len(history) < MaxHistory
        /\ CanChange(old, newState)
        /\ isAvailable' = [isAvailable EXCEPT ![slot] = FALSE]
        /\ requests' = [requests EXCEPT ![requestId + 1] = SetCurrentState(@, newState)]
        /\ history' = RecordAllocation(history,
                        AllocationRecord(slot, isAvailable[slot],
                                         RequestPointer(requestId, Buffer), old))
        /\ past' = Append(past, Memory)

Rollback(k) ==
    /\ history' = Remaining(history, k)
    /\ isAvailable' = RestoredSlots(history, k, isAvailable)
    /\ requests' = RestoredRequests(history, k, requests, Buffer)
    /\ past' = SubSeq(past, 1, Len(history'))

Next ==
    \/ \E slot \in Slots, requestId \in 0 .. NumRequests - 1, newState \in RequestState :
            Operation(slot, requestId, newState)
    \/ \E k \in -1 .. MaxHistory + 1 : Rollback(k)

Spec == Init /\ [][Next]_vars

-----------------------------------------------------------------------------

\* "Roll back the last k allocation operations" (RollBackManager.h:30): for
\* every k up to the depth of the stack, what rollback(k) would leave is the
\* memory as it was before the k-th operation from the top.
UndoIsExact ==
    \A k \in 1 .. Len(history) :
        /\ RestoredSlots(history, k, isAvailable) = past[Len(history) - k + 1].slots
        /\ RestoredRequests(history, k, requests, Buffer) =
             past[Len(history) - k + 1].requests

=============================================================================
