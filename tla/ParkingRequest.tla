--------------------------- MODULE ParkingRequest ---------------------------
(***************************************************************************)
(* A parking request and the transitions its changeState accepts           *)
(* (ParkingRequest.h, ParkingRequest.cpp).                                 *)
(*                                                                         *)
(* A request is a record of the vehicle, the zone asked for and the        *)
(* current state.  Its requestId is its position in the vector that holds  *)
(* it (ParkingSystem.cpp:28) and requestTime is always 0, so neither is a  *)
(* field here.                                                             *)
(***************************************************************************)

RequestState == {"REQUESTED", "ALLOCATED", "OCCUPIED", "RELEASED", "CANCELLED"}

\* The states whose case of the switch accepts nothing (ParkingRequest.cpp:78-82).
TerminalState == {"RELEASED", "CANCELLED"}

\* The pairs for which isValid becomes true in the switch.
ValidTransition ==
    { <<"REQUESTED", "ALLOCATED">>, <<"REQUESTED", "CANCELLED">>,
      <<"ALLOCATED", "OCCUPIED">>,  <<"ALLOCATED", "CANCELLED">>,
      <<"OCCUPIED", "RELEASED">> }

\* What changeState answers.
CanChange(from, to) == <<from, to>> \in ValidTransition

\* setCurrentState.
SetCurrentState(request, state) == [request EXCEPT !.currentState = state]

\* changeState: a refused transition leaves the request as it is.
ChangeState(request, newState) ==
    IF CanChange(request.currentState, newState)
    THEN SetCurrentState(request, newState) ELSE request

\* The constructor, called with State::REQUESTED by its only caller.
NewRequest(vehicleId, requestedZone) ==
    [ vehicleId     |-> vehicleId,
      requestedZone |-> requestedZone,
      currentState  |-> "REQUESTED" ]

=============================================================================
