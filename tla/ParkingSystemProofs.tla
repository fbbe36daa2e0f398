------------------------ MODULE ParkingSystemProofs -------------------------
(***************************************************************************)
(* Theorems about the parking system, for all vehicles, zones and bounds.  *)
(***************************************************************************)
EXTENDS ParkingSystem, AllocationEngineProofs, SequenceTheorems, TLAPS

-----------------------------------------------------------------------------
(* rollback(1), the only rollback the parking system asks for: what it does  *)
(* to the stack and to the memory its records point at.                      *)

\* rollback(1) on a stack that holds something is about the top record only.
LEMMA PoppedTop ==
    ASSUME NEW T, NEW stack \in Seq(T), stack # << >>
    PROVE  /\ Len(stack) \in DOMAIN stack
           /\ Popped(stack, 1) = {Len(stack)}
  BY DEF Popped

\* The deepest of one record is that record.
LEMMA DeepestOfOne ==
    ASSUME NEW n \in Nat
    PROVE  Deepest({n}) = n
  BY DEF Deepest

LEMMA RemainingAfterOne ==
    ASSUME NEW T, NEW stack \in Seq(T), stack # << >>
    PROVE  /\ Remaining(stack, 1) = SubSeq(stack, 1, Len(stack) - 1)
           /\ Remaining(stack, 1) \in Seq(T)
           /\ Len(Remaining(stack, 1)) = Len(stack) - 1
           /\ \A n \in 1 .. Len(stack) - 1 : Remaining(stack, 1)[n] = stack[n]
<1> DEFINE len  == Len(stack)
           rest == SubSeq(stack, 1, len - 1)
<1>1. len \in Nat /\ len >= 1 /\ \A i \in 1 .. len : stack[i] \in T
  OBVIOUS
<1>2. Remaining(stack, 1) = rest
  BY <1>1 DEF Remaining
<1> HIDE DEF len
<1>3. len - 1 \in Int /\ \A i \in 1 .. len - 1 : stack[i] \in T
  BY <1>1
<1>4. /\ rest \in Seq(T)
      /\ Len(rest) = IF 1 <= len - 1 THEN len - 1 - 1 + 1 ELSE 0
      /\ \A i \in 1 .. len - 1 - 1 + 1 : rest[i] = stack[1 + i - 1]
  BY <1>3, SubSeqProperties
<1> HIDE DEF rest
<1>5. Len(rest) = len - 1 /\ \A n \in 1 .. len - 1 : rest[n] = stack[n]
  BY <1>1, <1>4
<1> QED
  BY <1>2, <1>4, <1>5 DEF len, rest

LEMMA RestoredSlotsTop ==
    ASSUME NEW T, NEW stack \in Seq(T), stack # << >>,
           NEW D, NEW avail \in [D -> BOOLEAN]
    PROVE  LET top == stack[Len(stack)]
           IN  RestoredSlots(stack, 1, avail) =
                 [p \in D |-> IF top.slot = p THEN top.previousAvailability
                              ELSE avail[p]]
<1> DEFINE top == stack[Len(stack)]
           hits(p) == { n \in Popped(stack, 1) : stack[n].slot = p }
<1>1. \A p : hits(p) = IF top.slot = p THEN {Len(stack)} ELSE {}
  BY PoppedTop
<1>2. Deepest({Len(stack)}) = Len(stack)
  BY PoppedTop, DeepestOfOne
<1>3. \A p : IF hits(p) = {} THEN top.slot # p
                             ELSE top.slot = p /\ stack[Deepest(hits(p))] = top
  BY <1>1, <1>2
<1> HIDE DEF hits
<1>4. RestoredSlots(stack, 1, avail) =
        [p \in D |-> IF hits(p) = {} THEN avail[p]
                     ELSE stack[Deepest(hits(p))].previousAvailability]
  BY DEF RestoredSlots, hits
<1> QED
  BY <1>3, <1>4

LEMMA RestoredRequestsTop ==
    ASSUME NEW T, NEW stack \in Seq(T), stack # << >>,
           NEW R, NEW rs \in Seq(R), NEW buffer
    PROVE  LET top == stack[Len(stack)]
           IN  RestoredRequests(stack, 1, rs, buffer) =
                 [i \in 1 .. Len(rs) |->
                    IF top.request = RequestPointer(i - 1, buffer)
                    THEN SetCurrentState(rs[i], top.previousRequestState)
                    ELSE rs[i]]
<1> DEFINE top == stack[Len(stack)]
           hits(i) == { n \in Popped(stack, 1) :
                          stack[n].request = RequestPointer(i - 1, buffer) }
<1>1. \A i : hits(i) = IF top.request = RequestPointer(i - 1, buffer)
                       THEN {Len(stack)} ELSE {}
  BY PoppedTop
<1>2. Deepest({Len(stack)}) = Len(stack)
  BY PoppedTop, DeepestOfOne
<1>3. \A i : IF hits(i) = {} THEN top.request # RequestPointer(i - 1, buffer)
             ELSE /\ top.request = RequestPointer(i - 1, buffer)
                  /\ stack[Deepest(hits(i))] = top
  BY <1>1, <1>2
<1> HIDE DEF hits
<1>4. RestoredRequests(stack, 1, rs, buffer) =
        [i \in 1 .. Len(rs) |->
           IF hits(i) = {} THEN rs[i]
           ELSE SetCurrentState(rs[i], stack[Deepest(hits(i))].previousRequestState)]
  BY DEF RestoredRequests, hits
<1> QED
  BY <1>3, <1>4

\* rollback(1) on an empty stack changes nothing.
LEMMA NothingToUndo ==
    ASSUME NEW D, NEW avail \in [D -> BOOLEAN],
           NEW R, NEW rs \in Seq(R), NEW buffer
    PROVE  /\ Remaining(<< >>, 1) = << >>
           /\ RestoredSlots(<< >>, 1, avail) = avail
           /\ RestoredRequests(<< >>, 1, rs, buffer) = rs
<1>1. Popped(<< >>, 1) = {}
  BY DEF Popped
<1>2. Remaining(<< >>, 1) = << >>
  BY DEF Remaining
<1>3. RestoredSlots(<< >>, 1, avail) = avail
  BY <1>1 DEF RestoredSlots
<1>4. RestoredRequests(<< >>, 1, rs, buffer) = rs
  BY <1>1 DEF RestoredRequests
<1> QED
  BY <1>2, <1>3, <1>4

-----------------------------------------------------------------------------

\* Setting the state of a request changes nothing else of it.
LEMMA SetStateType ==
    ASSUME NEW request \in Request, NEW state \in RequestState
    PROVE  /\ SetCurrentState(request, state) \in Request
           /\ SetCurrentState(request, state).currentState = state
           /\ SetCurrentState(request, state).vehicleId = request.vehicleId
  BY DEF SetCurrentState, Request

\* What a rollback leaves is of the right types.
LEMMA RollbackType ==
    ASSUME TypeOK, NEW reqs \in Seq(Request), Len(reqs) = Len(requests), Rollback(reqs)
    PROVE  /\ history' \in Seq(Record)
           /\ isAvailable' \in [ParkingSlots(zones) -> BOOLEAN]
           /\ requests' \in Seq(Request)
           /\ Len(requests') = Len(requests)
           /\ status' \in {"running", "undefined"}
<1>1. /\ history \in Seq(Record)
      /\ isAvailable \in [ParkingSlots(zones) -> BOOLEAN]
  BY DEF TypeOK
<1>2. CASE history = << >>
  BY <1>1, <1>2, NothingToUndo DEF Rollback
<1>3. CASE history # << >>
  <2> DEFINE top == history[Len(history)]
  <2>1. top \in Record
    BY <1>1, <1>3
  <2>2. top.previousAvailability \in BOOLEAN /\ top.previousRequestState \in RequestState
    BY <2>1 DEF Record
  <2>3. isAvailable' = [p \in ParkingSlots(zones) |->
                          IF top.slot = p THEN top.previousAvailability
                          ELSE isAvailable[p]]
    BY <1>1, <1>3, RestoredSlotsTop DEF Rollback
  <2>4. requests' = [i \in 1 .. Len(reqs) |->
                       IF top.request = RequestPointer(i - 1, capacity)
                       THEN SetCurrentState(reqs[i], top.previousRequestState)
                       ELSE reqs[i]]
    BY <1>1, <1>3, RestoredRequestsTop DEF Rollback
  <2>5. history' \in Seq(Record)
    BY <1>1, <1>3, RemainingAfterOne DEF Rollback
  <2> HIDE DEF top
  <2>6. \A i \in 1 .. Len(reqs) : reqs[i] \in Request
    OBVIOUS
  <2>7. \A i \in 1 .. Len(reqs) :
            SetCurrentState(reqs[i], top.previousRequestState) \in Request
    BY <2>2, <2>6, SetStateType
  <2>8. requests' \in Seq(Request) /\ Len(requests') = Len(reqs)
    BY <2>4, <2>6, <2>7
  <2> QED
    BY <1>1, <2>2, <2>3, <2>5, <2>8 DEF Rollback
<1> QED
  BY <1>2, <1>3 DEF Rollback

LEMMA WithStateType ==
    ASSUME TypeOK, NEW requestId \in Int, IsRequest(requestId), NEW state \in RequestState
    PROVE  /\ WithState(requestId, state) \in Seq(Request)
           /\ Len(WithState(requestId, state)) = Len(requests)
<1>1. requestId + 1 \in DOMAIN requests /\ requests[requestId + 1] \in Request
  BY DEF TypeOK, IsRequest
<1>2. ChangeState(requests[requestId + 1], state) \in Request
  BY <1>1, SetStateType DEF ChangeState
<1> QED
  BY <1>1, <1>2 DEF TypeOK, WithState

\* The record type depends on the zones and on how many requests there are.
LEMMA RecordsGrow ==
    ASSUME ParkingSlots(zones) \subseteq ParkingSlots(zones'),
           Len(requests) \in Nat, Len(requests') \in Nat, Len(requests) <= Len(requests')
    PROVE  Seq(Record) \subseteq Seq(Record')
<1>1. Record \subseteq Record'
  BY DEF Record
<1> QED
  BY <1>1

LEMMA AddZoneType ==
    ASSUME TypeOK, NEW zone \in ZoneShapes, AddZone(zone)
    PROVE  TypeOK'
<1> USE DEF AddZone, TypeOK
<1>1. zone \in Zone
  BY ConstantsAssumption DEF Zone
<1>2. zones' \in Seq(Zone)
  BY <1>1
<1>3. ParkingSlots(zones) \subseteq ParkingSlots(zones')
  BY <1>1, SlotsGrow
<1>4. isAvailable' \in [ParkingSlots(zones') -> BOOLEAN]
  OBVIOUS
<1>5. history' \in Seq(Record')
  BY <1>3, RecordsGrow
<1>6. reply' \in Replies
  BY DEF Reply, Replies
<1>7. assignedSlot' \in Seq(ParkingSlots(zones'))
  BY <1>3
<1> QED
  BY <1>2, <1>4, <1>5, <1>6, <1>7

LEMMA RegisterType ==
    ASSUME TypeOK, NEW vehicleId \in Vehicles, NEW zoneId \in ZoneIds
    PROVE  RegisterVehicle(vehicles, vehicleId, zoneId) \in Seq(Vehicle)
<1>1. [vehicleId |-> vehicleId, preferredZone |-> zoneId] \in Vehicle
  BY DEF Vehicle
<1> QED
  BY <1>1 DEF TypeOK, RegisterVehicle

LEMMA RefuseType ==
    ASSUME TypeOK, NEW vehicleId \in Vehicles, NEW zoneId \in ZoneIds,
           RefuseParking(vehicleId, zoneId), UNCHANGED status
    PROVE  TypeOK'
<1>1. reply' \in Replies
  BY DEF RefuseParking, Reply, Replies
<1>2. vehicles' \in Seq(Vehicle)
  BY RegisterType DEF RefuseParking
<1> QED
  BY <1>1, <1>2 DEF TypeOK, RefuseParking, Record

LEMMA GrantType ==
    ASSUME TypeOK, NEW vehicleId \in Vehicles, NEW zoneId \in ZoneIds,
           GrantParking(vehicleId, zoneId)
    PROVE  TypeOK'
<1> DEFINE request == NewRequest(vehicleId, zoneId)
           new     == ChangeState(request, "ALLOCATED")
<1>1. PICK slot \in AllocateSlot(zoneId, zones, isAvailable) :
        /\ isAvailable' = [isAvailable EXCEPT ![slot] = FALSE]
        /\ requests' = Append(requests, new)
        /\ capacity' = CapacityAfterPush(Len(requests), capacity)
        /\ history' = RecordAllocation(history,
                         AllocationRecord(slot, isAvailable[slot],
                                          BackAfterPush(Len(requests), capacity),
                                          request.currentState))
        /\ assignedSlot' = Append(assignedSlot, slot)
  BY DEF GrantParking
<1>2. slot \in ParkingSlots(zones) /\ isAvailable[slot]
  BY AllocatedIsFree
<1>3. zones' = zones /\ status' = status
  BY DEF GrantParking
<1>4. capacity' \in Nat
  BY <1>1 DEF TypeOK, CapacityAfterPush
<1>5. new \in Request
  <2>1. request \in Request
    BY DEF NewRequest, RequestState, Request
  <2> QED
    BY <2>1, SetStateType DEF ChangeState, RequestState
<1>6. requests' \in Seq(Request) /\ Len(requests') = Len(requests) + 1
  BY <1>1, <1>5 DEF TypeOK
<1>7. history' \in Seq(Record')
  <2> DEFINE record == AllocationRecord(slot, isAvailable[slot],
                                        BackAfterPush(Len(requests), capacity),
                                        request.currentState)
  <2>1. history \in Seq(Record')
    BY <1>3, <1>6, RecordsGrow DEF TypeOK
  <2>2. record \in Record'
    BY <1>1, <1>2, <1>3, <1>4, <1>6
       DEF TypeOK, Record, AllocationRecord, BackAfterPush, RequestPointer,
           NewRequest, RequestState
  <2> QED
    BY <1>1, <2>1, <2>2 DEF RecordAllocation
<1>8. reply' \in Replies
  BY DEF GrantParking, Reply, Replies, TypeOK
<1>9. vehicles' \in Seq(Vehicle)
  BY RegisterType DEF GrantParking
<1>10. isAvailable' \in [ParkingSlots(zones) -> BOOLEAN]
  BY <1>1 DEF TypeOK
<1>11. assignedSlot' \in Seq(ParkingSlots(zones)) /\ Len(assignedSlot') = Len(requests')
  BY <1>1, <1>2, <1>6 DEF TypeOK
<1> QED
  BY <1>3, <1>4, <1>6, <1>7, <1>8, <1>9, <1>10, <1>11 DEF TypeOK

\* cancelRequest and releaseSlot: a refused call, or a state set and a rollback.
LEMMA UndoType ==
    ASSUME TypeOK, NEW requestId \in Int, NEW state \in RequestState, NEW accepted \in BOOLEAN,
           NEW call \in {"cancelRequest", "releaseSlot"},
           accepted => IsRequest(requestId),
           reply' = Reply(call, requestId, accepted),
           IF accepted THEN Rollback(WithState(requestId, state))
           ELSE UNCHANGED << isAvailable, requests, history, status >>,
           UNCHANGED << zones, vehicles, capacity, assignedSlot >>
    PROVE  TypeOK'
<1>1. reply' \in Replies
  BY DEF Reply, Replies
<1>2. CASE accepted
  <2>1. /\ history' \in Seq(Record)
        /\ isAvailable' \in [ParkingSlots(zones) -> BOOLEAN]
        /\ requests' \in Seq(Request)
        /\ Len(requests') = Len(requests)
        /\ status' \in {"running", "undefined"}
    BY <1>2, WithStateType, RollbackType
  <2> QED
    BY <1>1, <2>1 DEF TypeOK, Record
<1>3. CASE ~accepted
  BY <1>1, <1>3 DEF TypeOK, Record
<1> QED
  BY <1>2, <1>3

LEMMA CancelType ==
    ASSUME TypeOK, NEW requestId \in ClientIds, CancelRequest(requestId)
    PROVE  TypeOK'
<1>1. requestId \in Int
  BY DEF TypeOK, ClientIds
<1>2. Cancellable(requestId) \in BOOLEAN /\ (Cancellable(requestId) => IsRequest(requestId))
  BY DEF Cancellable
<1>3. "CANCELLED" \in RequestState
  BY DEF RequestState
<1> QED
  BY <1>1, <1>2, <1>3, UndoType DEF CancelRequest

LEMMA ReleaseType ==
    ASSUME TypeOK, NEW requestId \in ClientIds, ReleaseSlot(requestId)
    PROVE  TypeOK'
<1>1. requestId \in Int
  BY DEF TypeOK, ClientIds
<1>2. Releasable(requestId) \in BOOLEAN /\ (Releasable(requestId) => IsRequest(requestId))
  BY DEF Releasable
<1>3. "RELEASED" \in RequestState
  BY DEF RequestState
<1> QED
  BY <1>1, <1>2, <1>3, UndoType DEF ReleaseSlot

LEMMA InitType == Init => TypeOK
<1>1. ParkingSlots(<< >>) = {}
  BY DEF ParkingSlots
<1> QED
  BY <1>1 DEF Init, TypeOK, Reply, Replies

LEMMA NextType == TypeOK /\ [Next]_vars => TypeOK'
<1> SUFFICES ASSUME TypeOK, [Next]_vars PROVE TypeOK'
  OBVIOUS
<1>1. ASSUME NEW zone \in ZoneShapes, AddZone(zone) PROVE TypeOK'
  BY <1>1, AddZoneType
<1>2. ASSUME NEW vehicleId \in Vehicles, NEW zoneId \in ZoneIds,
             RequestParking(vehicleId, zoneId)
      PROVE  TypeOK'
  BY <1>2, RefuseType, GrantType DEF RequestParking, RefuseParking
<1>3. ASSUME NEW requestId \in ClientIds, CancelRequest(requestId) PROVE TypeOK'
  BY <1>3, CancelType
<1>4. ASSUME NEW requestId \in ClientIds, ReleaseSlot(requestId) PROVE TypeOK'
  BY <1>4, ReleaseType
<1>5. CASE UNCHANGED vars
  BY <1>5 DEF vars, TypeOK, Record
<1> QED
  BY <1>1, <1>2, <1>3, <1>4, <1>5 DEF Next

\* Every variable keeps its type; in particular a record on the undo stack
\* always points at a slot and at a request of the system, although zones and
\* requests are added after it was made.
THEOREM TypeCorrect == Spec => []TypeOK
  BY InitType, NextType, PTL DEF Spec

-----------------------------------------------------------------------------

\* The three parts of HistoryMatchesSlots, as the proof uses them.
RecordedIffTaken ==
    \A p \in DOMAIN isAvailable :
        ~isAvailable[p] <=> \E n \in DOMAIN history : history[n].slot = p

RecordedOnce ==
    \A m, n \in DOMAIN history : history[m].slot = history[n].slot => m = n

UndoFrees == \A n \in DOMAIN history : history[n].previousAvailability

LEMMA Parts == HistoryMatchesSlots <=> RecordedIffTaken /\ RecordedOnce /\ UndoFrees
  BY DEF HistoryMatchesSlots, RecordedIffTaken, RecordedOnce, UndoFrees

\* The slot of a record is a slot of the system.
LEMMA RecordSlot ==
    ASSUME TypeOK, NEW n \in DOMAIN history
    PROVE  history[n].slot \in ParkingSlots(zones)
<1>1. history[n] \in Record
  BY DEF TypeOK
<1> QED
  BY <1>1 DEF Record

\* A rollback of a stack that holds something pops the top record and frees
\* its slot; a rollback of an empty stack does nothing.
LEMMA RollbackPops ==
    ASSUME TypeOK, HistoryMatchesSlots, NEW reqs \in Seq(Request), Rollback(reqs),
           history # << >>
    PROVE  /\ Len(history) \in Nat /\ Len(history) >= 1
           /\ history' = SubSeq(history, 1, Len(history) - 1)
           /\ DOMAIN history' = 1 .. Len(history) - 1
           /\ \A n \in 1 .. Len(history) - 1 : history'[n] = history[n]
           /\ isAvailable' = [p \in ParkingSlots(zones) |->
                                 IF history[Len(history)].slot = p THEN TRUE
                                 ELSE isAvailable[p]]
<1>1. history \in Seq(Record) /\ isAvailable \in [ParkingSlots(zones) -> BOOLEAN]
  BY DEF TypeOK
<1>2. Len(history) \in Nat /\ Len(history) >= 1 /\ Len(history) \in DOMAIN history
  BY <1>1
<1>3. history[Len(history)].previousAvailability
  BY <1>2, Parts DEF UndoFrees
<1>4. /\ history' = SubSeq(history, 1, Len(history) - 1)
      /\ history' \in Seq(Record)
      /\ Len(history') = Len(history) - 1
      /\ \A n \in 1 .. Len(history) - 1 : history'[n] = history[n]
  BY <1>1, RemainingAfterOne DEF Rollback
<1>5. isAvailable' = [p \in ParkingSlots(zones) |->
                        IF history[Len(history)].slot = p
                        THEN history[Len(history)].previousAvailability
                        ELSE isAvailable[p]]
  BY <1>1, RestoredSlotsTop DEF Rollback
<1> QED
  BY <1>2, <1>3, <1>4, <1>5

LEMMA RollbackOfNothing ==
    ASSUME TypeOK, NEW reqs \in Seq(Request), Rollback(reqs), history = << >>
    PROVE  history' = history /\ isAvailable' = isAvailable
  BY NothingToUndo DEF TypeOK, Rollback

LEMMA RollbackMatches ==
    ASSUME TypeOK, HistoryMatchesSlots, NEW reqs \in Seq(Request), Rollback(reqs)
    PROVE  HistoryMatchesSlots'
<1>1. CASE history = << >>
  BY <1>1, RollbackOfNothing DEF HistoryMatchesSlots
<1>2. CASE history # << >>
  <2> DEFINE len == Len(history)
  <2>1. /\ len \in Nat /\ len >= 1
        /\ DOMAIN history' = 1 .. len - 1
        /\ \A n \in 1 .. len - 1 : history'[n] = history[n]
        /\ isAvailable' = [p \in ParkingSlots(zones) |->
                              IF history[len].slot = p THEN TRUE ELSE isAvailable[p]]
    BY <1>2, RollbackPops
  <2>2. DOMAIN history = 1 .. len /\ DOMAIN isAvailable = ParkingSlots(zones)
    BY DEF TypeOK
  <2> HIDE DEF len
  <2>3. RecordedOnce' /\ UndoFrees'
    BY <2>1, <2>2, Parts DEF RecordedOnce, UndoFrees
  <2>4. ASSUME NEW p \in ParkingSlots(zones), history[len].slot = p
        PROVE  isAvailable'[p] /\ ~ \E n \in DOMAIN history' : history'[n].slot = p
    BY <2>1, <2>2, <2>4, Parts DEF RecordedOnce
  <2>5. ASSUME NEW p \in ParkingSlots(zones), history[len].slot # p
        PROVE  ~isAvailable'[p] <=> \E n \in DOMAIN history' : history'[n].slot = p
    <3>1. isAvailable'[p] = isAvailable[p]
      BY <2>1, <2>5
    <3>2. (\E n \in DOMAIN history' : history'[n].slot = p)
            <=> \E n \in DOMAIN history : history[n].slot = p
      BY <2>1, <2>2, <2>5
    <3> QED
      BY <3>1, <3>2, <2>2, Parts DEF RecordedIffTaken
  <2>6. RecordedIffTaken'
    BY <2>1, <2>4, <2>5 DEF RecordedIffTaken
  <2> QED
    BY <2>3, <2>6, Parts, PTL
<1> QED
  BY <1>1, <1>2

LEMMA AddZoneMatches ==
    ASSUME TypeOK, HistoryMatchesSlots, NEW zone \in ZoneShapes, AddZone(zone)
    PROVE  HistoryMatchesSlots'
<1>1. /\ DOMAIN isAvailable = ParkingSlots(zones)
      /\ isAvailable' = [p \in ParkingSlots(zones') |->
                            IF p \in DOMAIN isAvailable THEN isAvailable[p] ELSE TRUE]
      /\ history' = history
  BY DEF TypeOK, AddZone
<1>2. \A n \in DOMAIN history : history[n].slot \in DOMAIN isAvailable
  BY <1>1, RecordSlot
<1>3. RecordedIffTaken'
  BY <1>1, <1>2, Parts DEF RecordedIffTaken
<1> QED
  BY <1>1, <1>3 DEF HistoryMatchesSlots, RecordedIffTaken

LEMMA GrantMatches ==
    ASSUME TypeOK, HistoryMatchesSlots, NEW vehicleId, NEW zoneId,
           GrantParking(vehicleId, zoneId)
    PROVE  HistoryMatchesSlots'
<1>1. PICK slot \in AllocateSlot(zoneId, zones, isAvailable) :
        /\ isAvailable' = [isAvailable EXCEPT ![slot] = FALSE]
        /\ history' = RecordAllocation(history,
                         AllocationRecord(slot, isAvailable[slot],
                                          BackAfterPush(Len(requests), capacity),
                                          NewRequest(vehicleId, zoneId).currentState))
  BY DEF GrantParking
<1> DEFINE record == AllocationRecord(slot, isAvailable[slot],
                                      BackAfterPush(Len(requests), capacity),
                                      NewRequest(vehicleId, zoneId).currentState)
           len == Len(history)
<1>2. slot \in DOMAIN isAvailable /\ isAvailable[slot]
  BY AllocatedIsFree DEF TypeOK
<1>3. record.slot = slot /\ record.previousAvailability
  BY <1>2 DEF AllocationRecord
<1>4. /\ len \in Nat /\ DOMAIN history = 1 .. len
      /\ DOMAIN history' = 1 .. len + 1
      /\ \A n \in 1 .. len : history'[n] = history[n]
      /\ history'[len + 1] = record
  BY <1>1 DEF TypeOK, RecordAllocation
<1> HIDE DEF record, len
<1>5. \A n \in 1 .. len : history[n].slot # slot
  BY <1>2, <1>4, Parts DEF RecordedIffTaken
<1>6. UndoFrees'
  BY <1>3, <1>4, Parts DEF UndoFrees
<1>7. RecordedOnce'
  BY <1>3, <1>4, <1>5, Parts DEF RecordedOnce
<1>8. RecordedIffTaken'
  <2> SUFFICES ASSUME NEW p \in DOMAIN isAvailable'
               PROVE  ~isAvailable'[p] <=> \E n \in DOMAIN history' : history'[n].slot = p
    BY DEF RecordedIffTaken
  <2>1. CASE p = slot
    <3>1. len + 1 \in DOMAIN history' /\ history'[len + 1].slot = slot
      BY <1>3, <1>4
    <3>2. ~isAvailable'[slot]
      BY <1>1, <1>2
    <3> QED
      BY <2>1, <3>1, <3>2
  <2>2. CASE p # slot
    <3>1. isAvailable'[p] = isAvailable[p] /\ p \in DOMAIN isAvailable
      BY <2>2, <1>1
    <3>2. (\E n \in DOMAIN history' : history'[n].slot = p)
            <=> \E n \in DOMAIN history : history[n].slot = p
      BY <2>2, <1>3, <1>4
    <3> QED
      BY <3>1, <3>2, Parts DEF RecordedIffTaken
  <2> QED
    BY <2>1, <2>2
<1> QED
  BY <1>6, <1>7, <1>8, Parts, PTL

LEMMA InitMatches == Init => HistoryMatchesSlots
  BY DEF Init, HistoryMatchesSlots

LEMMA NextMatches == TypeOK /\ HistoryMatchesSlots /\ [Next]_vars => HistoryMatchesSlots'
<1> SUFFICES ASSUME TypeOK, HistoryMatchesSlots, [Next]_vars PROVE HistoryMatchesSlots'
  OBVIOUS
<1>1. ASSUME NEW zone \in ZoneShapes, AddZone(zone) PROVE HistoryMatchesSlots'
  BY <1>1, AddZoneMatches
<1>2. ASSUME NEW vehicleId \in Vehicles, NEW zoneId \in ZoneIds,
             RequestParking(vehicleId, zoneId)
      PROVE  HistoryMatchesSlots'
  <2>1. CASE RefuseParking(vehicleId, zoneId)
    <3>1. UNCHANGED << isAvailable, history >>
      BY <2>1 DEF RefuseParking
    <3> QED
      BY <3>1 DEF HistoryMatchesSlots
  <2>2. CASE GrantParking(vehicleId, zoneId)
    BY <2>2, GrantMatches
  <2> QED
    BY <1>2, <2>1, <2>2 DEF RequestParking
<1>3. ASSUME NEW requestId \in ClientIds, CancelRequest(requestId)
      PROVE  HistoryMatchesSlots'
  <2>1. CASE Cancellable(requestId)
    <3>1. WithState(requestId, "CANCELLED") \in Seq(Request)
      BY <2>1, WithStateType DEF TypeOK, ClientIds, Cancellable, RequestState
    <3> QED
      BY <1>3, <2>1, <3>1, RollbackMatches DEF CancelRequest
  <2>2. CASE ~Cancellable(requestId)
    <3>1. UNCHANGED << isAvailable, history >>
      BY <1>3, <2>2 DEF CancelRequest
    <3> QED
      BY <3>1 DEF HistoryMatchesSlots
  <2> QED
    BY <2>1, <2>2
<1>4. ASSUME NEW requestId \in ClientIds, ReleaseSlot(requestId)
      PROVE  HistoryMatchesSlots'
  <2>1. CASE Releasable(requestId)
    <3>1. WithState(requestId, "RELEASED") \in Seq(Request)
      BY <2>1, WithStateType DEF TypeOK, ClientIds, Releasable, RequestState
    <3> QED
      BY <1>4, <2>1, <3>1, RollbackMatches DEF ReleaseSlot
  <2>2. CASE ~Releasable(requestId)
    <3>1. UNCHANGED << isAvailable, history >>
      BY <1>4, <2>2 DEF ReleaseSlot
    <3> QED
      BY <3>1 DEF HistoryMatchesSlots
  <2> QED
    BY <2>1, <2>2
<1>5. CASE UNCHANGED vars
  <2>1. UNCHANGED << isAvailable, history >>
    BY <1>5 DEF vars
  <2> QED
    BY <2>1 DEF HistoryMatchesSlots
<1> QED
  BY <1>1, <1>2, <1>3, <1>4, <1>5 DEF Next

\* The slots that are taken are at all times exactly those on the undo stack,
\* each once: the induction needs the types, because a new zone must not bring
\* in a slot that a record already names.
THEOREM SlotsMatchHistory == Spec => []HistoryMatchesSlots
<1>1. Init => TypeOK /\ HistoryMatchesSlots
  BY InitType, InitMatches
<1>2. TypeOK /\ HistoryMatchesSlots /\ [Next]_vars => (TypeOK /\ HistoryMatchesSlots)'
  BY NextType, NextMatches
<1> QED
  BY <1>1, <1>2, PTL DEF Spec

-----------------------------------------------------------------------------

\* The stack of held slots is a sequence of slots of the lot.
HeldIsSequence ==
    /\ Held \in Seq(ParkingSlots(zones))
    /\ Len(Held) = Len(history)
    /\ DOMAIN Held = 1 .. Len(history)
    /\ \A n \in 1 .. Len(history) : Held[n] = history[n].slot

LEMMA HeldSequence == TypeOK => HeldIsSequence
<1> SUFFICES ASSUME TypeOK PROVE HeldIsSequence
  OBVIOUS
<1>1. Len(history) \in Nat /\ DOMAIN history = 1 .. Len(history)
  BY DEF TypeOK
<1>2. Held \in [1 .. Len(history) -> ParkingSlots(zones)]
  BY <1>1, RecordSlot DEF Held
<1> QED
  BY <1>1, <1>2 DEF Held, HeldIsSequence

\* The slots held are the slots taken.
LEMMA HeldAreTaken ==
    ASSUME TypeOK, HistoryMatchesSlots
    PROVE  Lot!HeldSlots = { p \in ParkingSlots(zones) : ~isAvailable[p] }
<1>1. DOMAIN isAvailable = ParkingSlots(zones) /\ DOMAIN history = 1 .. Len(history)
  BY DEF TypeOK
<1>2. \A p \in ParkingSlots(zones) :
          ~isAvailable[p] <=> \E n \in 1 .. Len(history) : history[n].slot = p
  BY <1>1, Parts DEF RecordedIffTaken
<1>3. \A n \in 1 .. Len(history) : history[n].slot \in ParkingSlots(zones)
  BY <1>1, RecordSlot
<1>4. Lot!HeldSlots = { history[n].slot : n \in 1 .. Len(history) }
  BY HeldSequence DEF HeldIsSequence, Lot!HeldSlots
<1> QED
  BY <1>2, <1>3, <1>4

LEMMA AddZoneExtends ==
    ASSUME TypeOK, NEW zone \in ZoneShapes, AddZone(zone)
    PROVE  Lot!Extend
<1>1. ParkingSlots(zones) \subseteq ParkingSlots(zones')
  BY ConstantsAssumption, SlotsGrow DEF TypeOK, AddZone, Zone
<1>2. Held' = Held /\ Answer' = "other"
  BY DEF AddZone, Held, Answer, Reply
<1> QED
  BY <1>1, <1>2 DEF Lot!Extend

LEMMA RefuseRefuses ==
    ASSUME TypeOK, HistoryMatchesSlots, NEW vehicleId, NEW zoneId,
           RefuseParking(vehicleId, zoneId)
    PROVE  Lot!Refuse
<1>1. \A p \in ParkingSlots(zones) : ~isAvailable[p]
  <2>1. CASE zones = << >>
    BY <2>1 DEF ParkingSlots
  <2>2. CASE AllocateSlot(zoneId, zones, isAvailable) = {}
    BY <2>2, NullptrMeansFull DEF TypeOK, Zone
  <2> QED
    BY <2>1, <2>2 DEF RefuseParking
<1>2. ParkingSlots(zones) = Lot!HeldSlots
  BY <1>1, HeldAreTaken
<1>3. ParkingSlots(zones') = ParkingSlots(zones) /\ Held' = Held /\ Answer' = "refused"
  BY DEF RefuseParking, Held, Answer, Reply
<1> QED
  BY <1>2, <1>3 DEF Lot!Refuse

LEMMA GrantGrants ==
    ASSUME TypeOK, TypeOK', HistoryMatchesSlots, NEW vehicleId, NEW zoneId,
           GrantParking(vehicleId, zoneId)
    PROVE  Lot!Grant
<1>1. PICK slot \in AllocateSlot(zoneId, zones, isAvailable) :
        history' = RecordAllocation(history,
                     AllocationRecord(slot, isAvailable[slot],
                                      BackAfterPush(Len(requests), capacity),
                                      NewRequest(vehicleId, zoneId).currentState))
  BY DEF GrantParking
<1> DEFINE record == AllocationRecord(slot, isAvailable[slot],
                                      BackAfterPush(Len(requests), capacity),
                                      NewRequest(vehicleId, zoneId).currentState)
           len == Len(history)
<1>2. slot \in ParkingSlots(zones) \ Lot!HeldSlots
  BY AllocatedIsFree, HeldAreTaken
<1>3. /\ len \in Nat /\ Len(history') = len + 1
      /\ \A n \in 1 .. len : history'[n] = history[n]
      /\ history'[len + 1] = record
      /\ record.slot = slot
  BY <1>1 DEF TypeOK, RecordAllocation, AllocationRecord
<1>4. zones' = zones /\ Answer' = "granted"
  BY DEF GrantParking, Answer, Reply
<1>5. /\ Held \in Seq(ParkingSlots(zones)) /\ Len(Held) = len
      /\ \A n \in 1 .. len : Held[n] = history[n].slot
  BY HeldSequence DEF HeldIsSequence
<1>6. /\ Held' \in Seq(ParkingSlots(zones)) /\ Len(Held') = len + 1
      /\ \A n \in 1 .. len + 1 : Held'[n] = history'[n].slot
  <2>1. HeldIsSequence'
    BY HeldSequence, PTL
  <2> QED
    BY <2>1, <1>3, <1>4 DEF HeldIsSequence
<1> HIDE DEF record, len
<1>7. Held' = Append(Held, slot)
  <2>1. /\ Append(Held, slot) \in Seq(ParkingSlots(zones))
        /\ Len(Append(Held, slot)) = len + 1
        /\ \A n \in 1 .. len : Append(Held, slot)[n] = Held[n]
        /\ Append(Held, slot)[len + 1] = slot
    BY <1>2, <1>5, AppendProperties
  <2>2. \A n \in 1 .. len + 1 : Held'[n] = Append(Held, slot)[n]
    BY <1>3, <1>5, <1>6, <2>1
  <2> QED
    BY <1>6, <2>1, <2>2, SeqEqual
<1> QED
  BY <1>2, <1>4, <1>7 DEF Lot!Grant

LEMMA RollbackGivesBack ==
    ASSUME TypeOK, TypeOK', HistoryMatchesSlots, NEW reqs \in Seq(Request), Rollback(reqs),
           zones' = zones, Answer' = "other"
    PROVE  Lot!GiveBack \/ Lot!Nothing
<1>1. CASE history = << >>
  BY <1>1, RollbackOfNothing DEF Held, Lot!Nothing
<1>2. CASE history # << >>
  <2> DEFINE len == Len(history)
  <2>1. /\ len \in Nat /\ len >= 1
        /\ DOMAIN history' = 1 .. len - 1
        /\ \A n \in 1 .. len - 1 : history'[n] = history[n]
    BY <1>2, RollbackPops
  <2>2. Len(history') = len - 1
    BY <2>1 DEF TypeOK
  <2>3. /\ Held \in Seq(ParkingSlots(zones)) /\ Len(Held) = len
        /\ \A n \in 1 .. len : Held[n] = history[n].slot
    BY HeldSequence DEF HeldIsSequence
  <2>4. /\ Held' \in Seq(ParkingSlots(zones)) /\ Len(Held') = len - 1
        /\ \A n \in 1 .. len - 1 : Held'[n] = history'[n].slot
    <3>1. HeldIsSequence'
      BY HeldSequence, PTL
    <3> QED
      BY <3>1, <2>2 DEF HeldIsSequence
  <2> HIDE DEF len
  <2> DEFINE rest == SubSeq(Held, 1, len - 1)
  <2>5. /\ rest \in Seq(ParkingSlots(zones))
        /\ Len(rest) = IF 1 <= len - 1 THEN len - 1 - 1 + 1 ELSE 0
        /\ \A i \in 1 .. len - 1 - 1 + 1 : rest[i] = Held[1 + i - 1]
    <3>1. len - 1 \in Int /\ \A i \in 1 .. len - 1 : Held[i] \in ParkingSlots(zones)
      BY <2>1, <2>3
    <3> QED
      BY <3>1, SubSeqProperties
  <2> HIDE DEF rest
  <2>6. Len(rest) = len - 1 /\ \A i \in 1 .. len - 1 : rest[i] = Held[i]
    BY <2>1, <2>5
  <2>7. \A i \in 1 .. len - 1 : Held'[i] = rest[i]
    BY <2>1, <2>3, <2>4, <2>6
  <2>8. Held' = rest
    BY <2>4, <2>5, <2>6, <2>7, SeqEqual
  <2>9. Held # << >>
    BY <2>1, <2>3
  <2> QED
    BY <2>3, <2>8, <2>9 DEF Lot!GiveBack, rest
<1> QED
  BY <1>1, <1>2

LEMMA NextImplements ==
    TypeOK /\ TypeOK' /\ HistoryMatchesSlots /\ [Next]_vars => [Lot!Next]_Lot!vars
<1> SUFFICES ASSUME TypeOK, TypeOK', HistoryMatchesSlots, [Next]_vars
             PROVE  [Lot!Next]_Lot!vars
  OBVIOUS
<1>1. ASSUME NEW zone \in ZoneShapes, AddZone(zone) PROVE Lot!Next
  BY <1>1, AddZoneExtends DEF Lot!Next
<1>2. ASSUME NEW vehicleId \in Vehicles, NEW zoneId \in ZoneIds,
             RequestParking(vehicleId, zoneId)
      PROVE  Lot!Next
  BY <1>2, RefuseRefuses, GrantGrants DEF RequestParking, Lot!Next
<1>3. ASSUME NEW requestId \in ClientIds, CancelRequest(requestId) PROVE Lot!Next
  <2>1. Answer' = "other" /\ zones' = zones
    BY <1>3 DEF CancelRequest, Answer, Reply
  <2>2. CASE Cancellable(requestId)
    <3>1. WithState(requestId, "CANCELLED") \in Seq(Request)
      BY <2>2, WithStateType DEF TypeOK, ClientIds, Cancellable, RequestState
    <3> QED
      BY <1>3, <2>1, <2>2, <3>1, RollbackGivesBack DEF CancelRequest, Lot!Next
  <2>3. CASE ~Cancellable(requestId)
    BY <1>3, <2>1, <2>3 DEF CancelRequest, Held, Lot!Next, Lot!Nothing
  <2> QED
    BY <2>2, <2>3
<1>4. ASSUME NEW requestId \in ClientIds, ReleaseSlot(requestId) PROVE Lot!Next
  <2>1. Answer' = "other" /\ zones' = zones
    BY <1>4 DEF ReleaseSlot, Answer, Reply
  <2>2. CASE Releasable(requestId)
    <3>1. WithState(requestId, "RELEASED") \in Seq(Request)
      BY <2>2, WithStateType DEF TypeOK, ClientIds, Releasable, RequestState
    <3> QED
      BY <1>4, <2>1, <2>2, <3>1, RollbackGivesBack DEF ReleaseSlot, Lot!Next
  <2>3. CASE ~Releasable(requestId)
    BY <1>4, <2>1, <2>3 DEF ReleaseSlot, Held, Lot!Next, Lot!Nothing
  <2> QED
    BY <2>2, <2>3
<1>5. CASE UNCHANGED vars
  BY <1>5 DEF vars, Held, Answer, Lot!vars
<1> QED
  BY <1>1, <1>2, <1>3, <1>4, <1>5 DEF Next

LEMMA InitImplements == Init => Lot!Init
  BY DEF Init, Lot!Init, ParkingSlots, Held, Answer, Reply

\* The parking system implements the lot: it never grants a slot that is held,
\* never refuses while one is free, and gives back the slot granted last.
THEOREM SystemImplementsLot == Spec => ImplementsLot
<1>1. Spec => []TypeOK /\ []HistoryMatchesSlots
  BY TypeCorrect, SlotsMatchHistory
<1>2. TypeOK /\ TypeOK' /\ HistoryMatchesSlots /\ [Next]_vars => [Lot!Next]_Lot!vars
  BY NextImplements
<1>3. Init => Lot!Init
  BY InitImplements
<1> QED
  BY <1>1, <1>2, <1>3, PTL DEF Spec, ImplementsLot, Lot!Spec

-----------------------------------------------------------------------------

\* No free slot is a better choice than the one allocateSlot returns.
LEMMA AllocatedIsBest ==
    ASSUME TypeOK, NEW zoneId \in ZoneIds,
           NEW slot \in AllocateSlot(zoneId, zones, isAvailable), NEW p \in FreeSlots
    PROVE  ~Better(p, slot, zoneId)
<1>1. zones \in Seq([zoneId : ZoneIds, parkingAreas : Seq(Nat)])
  BY DEF TypeOK, Zone
<1>2. p \in ParkingSlots(zones) /\ isAvailable[p]
  BY DEF FreeSlots, TypeOK
<1>3. PICK z \in DOMAIN zones : \E a \in DOMAIN zones[z].parkingAreas :
            \E s \in 1 .. zones[z].parkingAreas[a] : p = <<z, a, s>>
  BY <1>2, SlotPlace
<1>4. PICK a \in DOMAIN zones[z].parkingAreas :
            \E s \in 1 .. zones[z].parkingAreas[a] : p = <<z, a, s>>
  BY <1>3
<1>5. PICK s \in 1 .. zones[z].parkingAreas[a] : p = <<z, a, s>>
  BY <1>4
<1>6. FindAvailableSlotInZone(zones, isAvailable, z) # {}
  BY <1>1, <1>2, <1>5, ZoneWithSlot
<1>7. PICK y \in DOMAIN zones :
        /\ slot \in FindAvailableSlotInZone(zones, isAvailable, y)
        /\ zones[z].zoneId = zoneId => zones[y].zoneId = zoneId
        /\ (zones[z].zoneId = zoneId <=> zones[y].zoneId = zoneId) => y <= z
  <2>1. DOMAIN zones \subseteq Nat
    BY <1>1
  <2> QED
    BY <1>6, <2>1, FirstZone
<1>8. slot[1] = y /\ slot \in ParkingSlots(zones)
  BY <1>7, FoundInZone
<1>9. y = z => slot[2] < a \/ (slot[2] = a /\ slot[3] <= s)
  BY <1>1, <1>2, <1>5, <1>7, FirstInZone
<1>10. /\ y \in Nat /\ z \in Nat /\ a \in Nat /\ s \in Nat
       /\ slot[2] \in Nat /\ slot[3] \in Nat
  <2>1. PICK x \in DOMAIN zones : \E b \in DOMAIN zones[x].parkingAreas :
            \E t \in 1 .. zones[x].parkingAreas[b] : slot = <<x, b, t>>
    BY <1>8, SlotPlace
  <2>2. \A w \in DOMAIN zones : zones[w].parkingAreas \in Seq(Nat)
    <3> SUFFICES ASSUME NEW w \in DOMAIN zones
                 PROVE  zones[w].parkingAreas \in Seq(Nat)
      OBVIOUS
    <3>1. zones[w] \in [zoneId : ZoneIds, parkingAreas : Seq(Nat)]
      BY <1>1, SeqElement
    <3> QED
      BY <3>1
  <2>3. y \in Nat /\ z \in Nat
    BY <1>1
  <2>4. PICK b \in DOMAIN zones[x].parkingAreas :
            \E t \in 1 .. zones[x].parkingAreas[b] : slot = <<x, b, t>>
    BY <2>1
  <2>5. slot[2] \in Nat /\ slot[3] \in Nat
    <3>1. zones[x].parkingAreas \in Seq(Nat)
      BY <2>2
    <3> QED
      BY <2>4, <3>1
  <2>6. a \in Nat /\ s \in Nat
    <3>1. zones[z].parkingAreas \in Seq(Nat)
      BY <2>2
    <3> QED
      BY <3>1
  <2> QED
    BY <2>3, <2>5, <2>6
<1>11. p[1] = z /\ p[2] = a /\ p[3] = s
  BY <1>5
<1> QED
  BY <1>7, <1>8, <1>9, <1>10, <1>11 DEF Better, Before, InRequestedZone

LEMMA GrantIsBest ==
    ASSUME TypeOK, NEW vehicleId \in Vehicles, NEW zoneId \in ZoneIds,
           GrantParking(vehicleId, zoneId)
    PROVE  LET n == Len(requests')
           IN  /\ n = Len(requests) + 1
               /\ assignedSlot'[n] \in FreeSlots
               /\ \A p \in FreeSlots :
                    ~Better(p, assignedSlot'[n], requests'[n].requestedZone)
<1> DEFINE new == ChangeState(NewRequest(vehicleId, zoneId), "ALLOCATED")
<1>1. PICK slot \in AllocateSlot(zoneId, zones, isAvailable) :
        requests' = Append(requests, new) /\ assignedSlot' = Append(assignedSlot, slot)
  BY DEF GrantParking
<1>2. /\ requests \in Seq(Request)
      /\ assignedSlot \in Seq(ParkingSlots(zones)) /\ Len(assignedSlot) = Len(requests)
  BY DEF TypeOK
<1>3. slot \in FreeSlots
  BY AllocatedIsFree DEF FreeSlots, TypeOK
<1>4. new.requestedZone = zoneId
  BY DEF NewRequest, ChangeState, SetCurrentState
<1> HIDE DEF new
<1>5. /\ Len(requests') = Len(requests) + 1
      /\ requests'[Len(requests) + 1] = new
      /\ assignedSlot'[Len(requests) + 1] = slot
  BY <1>1, <1>2
<1> QED
  BY <1>3, <1>4, <1>5, AllocatedIsBest

\* A slot that is granted was free, and no free slot was a better choice: first
\* the requested zone, then any other, in order, whatever zones repeat an id or
\* are empty (AllocateEngine.cpp:12-38, AllocationEngine.h:11-22).
THEOREM BestSlotIsGranted == Spec => GrantsBestSlot
<1> DEFINE Granted == reply'.call = "requestParking" /\ reply'.done
           Best == LET n == Len(requests')
                   IN  /\ n = Len(requests) + 1
                       /\ assignedSlot'[n] \in FreeSlots
                       /\ \A p \in FreeSlots :
                            ~Better(p, assignedSlot'[n], requests'[n].requestedZone)
<1>1. TypeOK /\ [Next]_vars => [Granted => Best]_vars
  <2> SUFFICES ASSUME TypeOK, Next, Granted PROVE Best
    OBVIOUS
  <2>1. PICK vehicleId \in Vehicles, zoneId \in ZoneIds : GrantParking(vehicleId, zoneId)
    <3>1. ASSUME NEW id, CancelRequest(id) \/ ReleaseSlot(id) PROVE FALSE
      BY <3>1 DEF CancelRequest, ReleaseSlot, Reply
    <3>2. ASSUME NEW zone, AddZone(zone) PROVE FALSE
      BY <3>2 DEF AddZone, Reply
    <3>3. ASSUME NEW vehicleId, NEW zoneId, RefuseParking(vehicleId, zoneId) PROVE FALSE
      BY <3>3 DEF RefuseParking, Reply
    <3> QED
      BY <3>1, <3>2, <3>3 DEF Next, RequestParking
  <2> QED
    BY <2>1, GrantIsBest
<1>2. Spec => []TypeOK
  BY TypeCorrect
<1> QED
  BY <1>1, <1>2, PTL DEF Spec, GrantsBestSlot

=============================================================================
