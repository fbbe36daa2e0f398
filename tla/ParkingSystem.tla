--------------------------- MODULE ParkingSystem ----------------------------
(***************************************************************************)
(* The parking system (ParkingSystem.h, ParkingSystem.cpp): its zones,     *)
(* vehicles, requests and undo stack, and its four public operations, each *)
(* one action, called one at a time.                                       *)
(*                                                                         *)
(* Requests are numbered from 0 in the code: request id is requests[id+1]. *)
(***************************************************************************)
EXTENDS FiniteSets, AllocationEngine, RollbackManager

CONSTANTS
    Vehicles,      \* vehicle ids clients name
    ZoneIds,       \* zone ids clients name
    ZoneShapes,    \* the zones addZone is called with
    MaxZones,      \* bound: zones ever added
    MaxRequests    \* bound: requests ever stored

ASSUME ConstantsAssumption ==
    /\ ZoneIds \subseteq Int
    /\ ZoneShapes \subseteq [zoneId : ZoneIds, parkingAreas : Seq(Nat)]
    /\ MaxZones \in Nat
    /\ MaxRequests \in Nat

VARIABLES
    zones,         \* std::vector<Zone>: ids and shapes, in order
    isAvailable,   \* ParkingSlot::isAvailable of every slot
    vehicles,      \* std::vector<Vehicle>
    requests,      \* std::vector<ParkingRequest>
    capacity,      \* requests.capacity(): which buffer holds the requests
    history,       \* RollbackManager::history, the top is the last element
    reply,         \* what the last call answered
    status,        \* "undefined" once a write through a freed pointer did harm
    assignedSlot   \* history variable: the slot each request was granted

vars == << zones, isAvailable, vehicles, requests, capacity, history,
           reply, status, assignedSlot >>

Reply(call, id, done) == [call |-> call, id |-> id, done |-> done]

Init ==
    /\ zones = << >>
    /\ isAvailable = << >>
    /\ vehicles = << >>
    /\ requests = << >>
    /\ capacity = 0
    /\ history = << >>
    /\ reply = Reply("none", -1, FALSE)
    /\ status = "running"
    /\ assignedSlot = << >>

-----------------------------------------------------------------------------

\* addZone: zones.push_back(zone); the slots of the new zone are available.
AddZone(zone) ==
    /\ status = "running"
    /\ Len(zones) < MaxZones
    /\ zones' = Append(zones, zone)
    /\ isAvailable' = [ p \in ParkingSlots(zones') |->
                          IF p \in DOMAIN isAvailable THEN isAvailable[p] ELSE TRUE ]
    /\ reply' = Reply("addZone", -1, TRUE)
    /\ UNCHANGED << vehicles, requests, capacity, history, status, assignedSlot >>

-----------------------------------------------------------------------------

\* A registered vehicle registered again under every requested zone.
RegisterPerZone(vs, vehicleId, requestedZoneId) ==
    IF \E i \in DOMAIN vs : vs[i] = [vehicleId |-> vehicleId, preferredZone |-> requestedZoneId]
    THEN vs
    ELSE Append(vs, [vehicleId |-> vehicleId, preferredZone |-> requestedZoneId])

\* find_if and emplace_back: the first request of a vehicle registers it.
RegisterVehicle(vs, vehicleId, requestedZoneId) ==
    IF \E i \in DOMAIN vs : vs[i].vehicleId = vehicleId
    THEN vs
    ELSE Append(vs, [vehicleId |-> vehicleId, preferredZone |-> requestedZoneId])

\* std::vector::push_back of the build's library (libstdc++): a full buffer is
\* replaced by one of twice the capacity, and every element moves.
CapacityAfterPush(size, buffer) ==
    IF size < buffer THEN buffer ELSE IF buffer = 0 THEN 1 ELSE 2 * buffer

\* The address taken before the request is stored, in the buffer as it was.
BackBeforePush(size, buffer) == RequestPointer(size, buffer)

\* &requests.back(), taken after push_back: it points into the new buffer.
BackAfterPush(size, buffer) == RequestPointer(size, CapacityAfterPush(size, buffer))

\* requestParking finds no slot: the vehicle stays registered, nothing else.
RefuseParking(vehicleId, requestedZoneId) ==
    /\ zones = << >> \/ AllocateSlot(requestedZoneId, zones, isAvailable) = {}
    /\ vehicles' = RegisterVehicle(vehicles, vehicleId, requestedZoneId)
    /\ reply' = Reply("requestParking", -1, FALSE)
    /\ UNCHANGED << zones, isAvailable, requests, capacity, history, status, assignedSlot >>

\* requestParking takes the slot the engine returns and records it.
GrantParking(vehicleId, requestedZoneId) ==
    LET request   == NewRequest(vehicleId, requestedZoneId)
        requestId == Len(requests)
    IN  /\ Len(requests) < MaxRequests
        /\ zones # << >>
        /\ \E slot \in AllocateSlot(requestedZoneId, zones, isAvailable) :
            /\ isAvailable' = [isAvailable EXCEPT ![slot] = FALSE]
            /\ requests' = Append(requests, ChangeState(request, "ALLOCATED"))
            /\ capacity' = CapacityAfterPush(Len(requests), capacity)
            /\ history' = RecordAllocation(history,
                             AllocationRecord(slot, isAvailable[slot],
                                              BackAfterPush(requestId, capacity),
                                              request.currentState))
            /\ assignedSlot' = Append(assignedSlot, slot)
        /\ vehicles' = RegisterVehicle(vehicles, vehicleId, requestedZoneId)
        /\ reply' = Reply("requestParking", requestId, TRUE)
        /\ UNCHANGED << zones, status >>

RequestParking(vehicleId, requestedZoneId) ==
    /\ status = "running"
    /\ RefuseParking(vehicleId, requestedZoneId) \/ GrantParking(vehicleId, requestedZoneId)

-----------------------------------------------------------------------------

\* rollbackManager.rollback(1), the request vector holding reqs by then.  What
\* a write into freed memory does is up to the build: it may go unnoticed, or
\* end the run or overwrite something else, after which nothing is claimed.
Rollback(reqs) ==
    /\ history' = Remaining(history, 1)
    /\ isAvailable' = RestoredSlots(history, 1, isAvailable)
    /\ requests' = RestoredRequests(history, 1, reqs, capacity)
    /\ status' \in IF WritesFreedMemory(history, 1, capacity)
                   THEN {"running", "undefined"} ELSE {"running"}

IsRequest(requestId) == 0 <= requestId /\ requestId < Len(requests)

WithState(requestId, state) ==
    [requests EXCEPT ![requestId + 1] = ChangeState(@, state)]

\* The checks of cancelRequest: bounds, terminal state, transition rules.
Cancellable(requestId) ==
    /\ IsRequest(requestId)
    /\ requests[requestId + 1].currentState \notin TerminalState
    /\ CanChange(requests[requestId + 1].currentState, "CANCELLED")

\* cancelRequest: mark the request CANCELLED, then undo the last allocation.
CancelRequest(requestId) ==
    /\ status = "running"
    /\ reply' = Reply("cancelRequest", requestId, Cancellable(requestId))
    /\ IF Cancellable(requestId)
       THEN Rollback(WithState(requestId, "CANCELLED"))
       ELSE UNCHANGED << isAvailable, requests, history, status >>
    /\ UNCHANGED << zones, vehicles, capacity, assignedSlot >>

\* The checks of releaseSlot: bounds, holding state, transition rules.
Releasable(requestId) ==
    /\ IsRequest(requestId)
    /\ requests[requestId + 1].currentState \in {"ALLOCATED", "OCCUPIED"}
    /\ CanChange(requests[requestId + 1].currentState, "RELEASED")

\* releaseSlot: mark the request RELEASED, then undo the last allocation.
ReleaseSlot(requestId) ==
    /\ status = "running"
    /\ reply' = Reply("releaseSlot", requestId, Releasable(requestId))
    /\ IF Releasable(requestId)
       THEN Rollback(WithState(requestId, "RELEASED"))
       ELSE UNCHANGED << isAvailable, requests, history, status >>
    /\ UNCHANGED << zones, vehicles, capacity, assignedSlot >>

\* Clients also name ids that were never given out: -1 and the next id.
ClientIds == -1 .. Len(requests)

Next ==
    \/ \E zone \in ZoneShapes : AddZone(zone)
    \/ \E vehicleId \in Vehicles, zoneId \in ZoneIds : RequestParking(vehicleId, zoneId)
    \/ \E requestId \in ClientIds : CancelRequest(requestId)
    \/ \E requestId \in ClientIds : ReleaseSlot(requestId)

Spec == Init /\ [][Next]_vars

-----------------------------------------------------------------------------

Zone == [zoneId : ZoneIds, parkingAreas : Seq(Nat)]

Vehicle == [vehicleId : Vehicles, preferredZone : ZoneIds]

Request == [vehicleId : Vehicles, requestedZone : ZoneIds, currentState : RequestState]

Record == [ slot                 : ParkingSlots(zones),
            previousAvailability : BOOLEAN,
            request              : [id : 0 .. Len(requests) - 1, buffer : Nat],
            previousRequestState : RequestState ]

Replies == [ call : {"none", "addZone", "requestParking", "cancelRequest", "releaseSlot"},
             id   : Int,
             done : BOOLEAN ]

\* The type of every variable: in particular the records of the undo stack
\* point at slots and requests that the system holds.
TypeOK ==
    /\ zones \in Seq(Zone)
    /\ isAvailable \in [ParkingSlots(zones) -> BOOLEAN]
    /\ vehicles \in Seq(Vehicle)
    /\ requests \in Seq(Request)
    /\ capacity \in Nat
    /\ history \in Seq(Record)
    /\ reply \in Replies
    /\ status \in {"running", "undefined"}
    /\ assignedSlot \in Seq(ParkingSlots(zones))
    /\ Len(assignedSlot) = Len(requests)

HasRecord(requestId) == \E n \in DOMAIN history : history[n].request.id = requestId

\* The request at position i has moved since its pointer was taken: it lies in
\* the half of the buffer that was filled before the last reallocation.
Moved(i) == 2 * i <= capacity

\* The slots that are not available are exactly those on the undo stack, each
\* of them there once: whatever requestParking takes some rollback can give
\* back, and no rollback gives a slot back twice (ParkingSystem.cpp:51-66,
\* RollBackManager.cpp:18-37).
HistoryMatchesSlots ==
    /\ \A p \in DOMAIN isAvailable :
         ~isAvailable[p] <=> \E n \in DOMAIN history : history[n].slot = p
    /\ \A m, n \in DOMAIN history : history[m].slot = history[n].slot => m = n
    /\ \A n \in DOMAIN history : history[n].previousAvailability

\* The undo stack is in the order of the requests, with at most one record for
\* each, and the slot of a record is the one its request was granted
\* (ParkingSystem.cpp:28, 60-66).
HistoryInRequestOrder ==
    /\ \A m, n \in DOMAIN history :
         m < n => history[m].request.id < history[n].request.id
    /\ \A n \in DOMAIN history :
         history[n].slot = assignedSlot[history[n].request.id + 1]

\* A record's request pointer is stale exactly when the request lies in the
\* part of the buffer that the last reallocation moved: after a growth every
\* older record is stale, and only those (ParkingSystem.cpp:60-65).
StaleRecordsAreTheMoved ==
    \A n \in DOMAIN history :
        history[n].request.buffer # capacity <=> Moved(history[n].request.id + 1)

\* A request is back in REQUESTED only after its own record was undone, and a
\* request that was never moved is ALLOCATED only while its record, hence its
\* slot, is still there (ParkingSystem.cpp:71-98, RollBackManager.cpp:30-33).
StateMatchesRecord ==
    \A i \in DOMAIN requests :
        /\ requests[i].currentState = "REQUESTED" => ~HasRecord(i - 1)
        /\ requests[i].currentState = "ALLOCATED" /\ ~Moved(i) => HasRecord(i - 1)

\* Two ALLOCATED requests were granted the same slot only if one of them was
\* moved by a reallocation, so that its rollback could not reach it
\* (ParkingSystem.cpp:56-66, RollBackManager.cpp:25-33).
DoubleBookingNeedsMove ==
    \A i, j \in DOMAIN requests :
        /\ i < j
        /\ requests[i].currentState = "ALLOCATED"
        /\ requests[j].currentState = "ALLOCATED"
        /\ assignedSlot[i] = assignedSlot[j]
        => Moved(i)

\* No slot is lost for good: although cancelRequest undoes the newest record
\* and not its own, there are always at least as many requests that can still
\* be cancelled as slots on the undo stack (ParkingSystem.cpp:78-97).
NoSlotLeak ==
    Len(history) <=
        Cardinality({ i \in DOMAIN requests : requests[i].currentState \notin TerminalState })

\* The vehicle of every stored request is registered, and no vehicle twice
\* (ParkingSystem.cpp:17-25).
VehiclesRegisteredOnce ==
    /\ \A i, j \in DOMAIN vehicles : vehicles[i].vehicleId = vehicles[j].vehicleId => i = j
    /\ \A i \in DOMAIN requests :
         \E j \in DOMAIN vehicles : vehicles[j].vehicleId = requests[i].vehicleId

-----------------------------------------------------------------------------

\* The slots a search may return: available, in a zone of the system.
FreeSlots == { p \in DOMAIN isAvailable : isAvailable[p] }

InRequestedZone(slot, requestedZoneId) == zones[slot[1]].zoneId = requestedZoneId

\* Slot p comes before slot q: by zone, then area, then slot.
Before(p, q) ==
    \/ p[1] < q[1]
    \/ p[1] = q[1] /\ p[2] < q[2]
    \/ p[1] = q[1] /\ p[2] = q[2] /\ p[3] < q[3]

\* Slot p is the better choice: the requested zone first, then the order.
Better(p, q, requestedZoneId) ==
    \/ InRequestedZone(p, requestedZoneId) /\ ~InRequestedZone(q, requestedZoneId)
    \/ /\ InRequestedZone(p, requestedZoneId) <=> InRequestedZone(q, requestedZoneId)
       /\ Before(p, q)

\* A granted slot was free, and no free slot was a better choice: first the
\* requested zone, then any other, in order (AllocationEngine.h:11-22).
GrantsBestSlot ==
    [][ reply'.call = "requestParking" /\ reply'.done
        => LET n == Len(requests')
           IN  /\ n = Len(requests) + 1
               /\ assignedSlot'[n] \in FreeSlots
               /\ \A p \in FreeSlots :
                    ~Better(p, assignedSlot'[n], requests'[n].requestedZone) ]_vars

\* The slots on the undo stack, and what the last call said about a request.
Held == [ n \in DOMAIN history |-> history[n].slot ]

Answer == IF reply.call # "requestParking" THEN "other"
          ELSE IF reply.done THEN "granted" ELSE "refused"

\* What the slots of the system do, seen as a lot with a stack: it grants only
\* slots that nobody holds, refuses only when there is none, and gives back
\* the slot granted last (ParkingSystem.cpp:9-127).
Lot == INSTANCE LifoLot WITH lot <- ParkingSlots(zones), held <- Held, answer <- Answer

ImplementsLot == Lot!Spec

=============================================================================
