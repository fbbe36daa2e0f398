------------------------ MODULE ParkingSystemClaims -------------------------
(***************************************************************************)
(* What comments and documents of the repository say of the parking        *)
(* system's operations and the code does not do.  Each is checked by a run *)
(* of its own, whose counterexample shows the disagreement.                *)
(***************************************************************************)
EXTENDS MCParkingSystem

Succeeds(call) == reply'.call = call /\ reply'.done

\* "Roll back the last operation affecting this request/slot"
\* (ParkingSystem.cpp:94): a cancelled request's slot is available again.
CancelFreesOwnSlot ==
    [][ Succeeds("cancelRequest") => isAvailable'[assignedSlot[reply'.id + 1]] ]_vars

\* "Terminal states: no further transitions allowed" (ParkingRequest.cpp:80):
\* no operation on one request moves another one out of a terminal state.
TerminalIsFinal ==
    [][ \A i \in DOMAIN requests :
          requests[i].currentState \in TerminalState
          => requests'[i].currentState = requests[i].currentState ]_vars

\* "Must be in ALLOCATED or OCCUPIED to be released" (ParkingSystem.cpp:109): a
\* request that is in one of the two can be released.
AllocatedCanBeReleased ==
    [][ /\ reply'.call = "releaseSlot"
        /\ reply'.id + 1 \in DOMAIN requests
        /\ requests[reply'.id + 1].currentState \in {"ALLOCATED", "OCCUPIED"}
        => reply'.done ]_vars

\* "Record an allocation operation so it can be undone later."
\* (RollBackManager.h:24): undoing a recorded allocation reaches its request.
UndoReachesRequest ==
    [][ Len(history') < Len(history)
        => requests'[history[Len(history)].request.id + 1].currentState =
             history[Len(history)].previousRequestState ]_vars

=============================================================================
