------------------------ MODULE ParkingHistoryProofs ------------------------
(***************************************************************************)
(* Theorems about the undo stack of the parking system and the requests it *)
(* points at, for all vehicles, zones and bounds.                          *)
(***************************************************************************)
EXTENDS ParkingSystemProofs, FiniteSetTheorems

\* What the types say of lengths and pointers.
Shape ==
    /\ Len(history) \in Nat /\ DOMAIN history = 1 .. Len(history)
    /\ Len(requests) \in Nat /\ DOMAIN requests = 1 .. Len(requests)
    /\ capacity \in Nat
    /\ \A n \in DOMAIN history :
         /\ history[n].request.id \in Int /\ history[n].request.buffer \in Nat
         /\ 0 <= history[n].request.id /\ history[n].request.id < Len(requests)

LEMMA TypesShape == TypeOK => Shape
<1> SUFFICES ASSUME TypeOK PROVE Shape
  OBVIOUS
<1>1. /\ Len(history) \in Nat /\ DOMAIN history = 1 .. Len(history)
      /\ Len(requests) \in Nat /\ DOMAIN requests = 1 .. Len(requests)
      /\ capacity \in Nat
  BY DEF TypeOK
<1>2. ASSUME NEW n \in DOMAIN history
      PROVE  history[n].request \in [id : 0 .. Len(requests) - 1, buffer : Nat]
  <2>1. history[n] \in Record
    BY DEF TypeOK
  <2> QED
    BY <2>1 DEF Record
<1> QED
  BY <1>1, <1>2 DEF Shape

-----------------------------------------------------------------------------
(* What the steps of the system do to requests and stack *)

Same == UNCHANGED << history, requests, capacity, assignedSlot >>

\* A request is granted a slot and recorded.
Granted ==
    LET h == Len(history)
        r == Len(requests)
    IN  /\ Len(requests') = r + 1
        /\ \A i \in 1 .. r : requests'[i] = requests[i] /\ assignedSlot'[i] = assignedSlot[i]
        /\ requests'[r + 1].currentState = "ALLOCATED"
        /\ capacity' = CapacityAfterPush(r, capacity)
        /\ Len(history') = h + 1
        /\ \A n \in 1 .. h : history'[n] = history[n]
        /\ history'[h + 1].slot = assignedSlot'[r + 1]
        /\ history'[h + 1].request.id = r
        /\ history'[h + 1].request.buffer = capacity'
        /\ history'[h + 1].previousRequestState = "REQUESTED"

\* The top record reaches request j.
Reaches(j) ==
    /\ history # << >>
    /\ history[Len(history)].request.id = j - 1
    /\ history[Len(history)].request.buffer = capacity

\* Request i comes to its end and the top record, if any, is undone.
Undone(i) ==
    /\ requests[i].currentState \notin TerminalState
    /\ Len(requests') = Len(requests)
    /\ \A j \in 1 .. Len(requests) :
         IF Reaches(j)
         THEN requests'[j].currentState = history[Len(history)].previousRequestState
         ELSE IF i = j THEN requests'[j].currentState \in TerminalState
         ELSE requests'[j].currentState = requests[j].currentState
    /\ \A j \in 1 .. Len(requests) : requests'[j].vehicleId = requests[j].vehicleId
    /\ UNCHANGED << capacity, assignedSlot >>
    /\ Len(history') = IF history = << >> THEN 0 ELSE Len(history) - 1
    /\ \A n \in 1 .. Len(history') : history'[n] = history[n]

LEMMA GrantIsGranted ==
    ASSUME TypeOK, NEW vehicleId, NEW zoneId, GrantParking(vehicleId, zoneId)
    PROVE  Granted
<1> DEFINE h == Len(history)
           r == Len(requests)
           new == ChangeState(NewRequest(vehicleId, zoneId), "ALLOCATED")
           pointer == BackAfterPush(r, capacity)
<1>1. PICK slot :
        /\ requests' = Append(requests, new)
        /\ capacity' = CapacityAfterPush(r, capacity)
        /\ history' = Append(history, AllocationRecord(slot, isAvailable[slot], pointer, "REQUESTED"))
        /\ assignedSlot' = Append(assignedSlot, slot)
  BY DEF GrantParking, RecordAllocation, NewRequest
<1>2. new.currentState = "ALLOCATED"
  BY DEF ChangeState, CanChange, ValidTransition, SetCurrentState, NewRequest
<1>3. pointer.id = r /\ pointer.buffer = capacity'
  BY <1>1 DEF BackAfterPush, RequestPointer
<1> DEFINE record == AllocationRecord(slot, isAvailable[slot], pointer, "REQUESTED")
<1> HIDE DEF new, pointer
<1>4. record.slot = slot /\ record.request = pointer /\ record.previousRequestState = "REQUESTED"
  BY DEF AllocationRecord
<1> HIDE DEF record
<1>5. h \in Nat /\ r \in Nat /\ Len(assignedSlot) = r
  BY DEF TypeOK
<1>6. /\ Len(requests') = r + 1 /\ requests'[r + 1] = new
      /\ \A i \in 1 .. r : requests'[i] = requests[i]
  BY <1>1 DEF TypeOK
<1>7. assignedSlot'[r + 1] = slot /\ \A i \in 1 .. r : assignedSlot'[i] = assignedSlot[i]
  BY <1>1, <1>5 DEF TypeOK
<1>8. /\ Len(history') = h + 1 /\ history'[h + 1] = record
      /\ \A n \in 1 .. h : history'[n] = history[n]
  BY <1>1 DEF TypeOK, record
<1> QED
  BY <1>1, <1>2, <1>3, <1>4, <1>6, <1>7, <1>8 DEF Granted

LEMMA UndoIsUndone ==
    ASSUME TypeOK, NEW requestId \in Int, IsRequest(requestId), NEW state \in TerminalState,
           CanChange(requests[requestId + 1].currentState, state),
           Rollback(WithState(requestId, state)), UNCHANGED << capacity, assignedSlot >>
    PROVE  Undone(requestId + 1)
<1> DEFINE i    == requestId + 1
           reqs == WithState(requestId, state)
<1>1. state \in RequestState
  BY DEF TerminalState, RequestState
<1>2. reqs \in Seq(Request) /\ Len(reqs) = Len(requests)
  BY <1>1, WithStateType
<1>3. requests[i].currentState \notin TerminalState
  BY DEF CanChange, ValidTransition, TerminalState
<1>4. \A j \in 1 .. Len(requests) :
         /\ reqs[j].currentState = IF i = j THEN state ELSE requests[j].currentState
         /\ reqs[j].vehicleId = requests[j].vehicleId
  <2> SUFFICES ASSUME NEW j \in 1 .. Len(requests)
               PROVE  /\ reqs[j].currentState = IF i = j THEN state ELSE requests[j].currentState
                      /\ reqs[j].vehicleId = requests[j].vehicleId
    OBVIOUS
  <2>1. j \in DOMAIN requests /\ requests[j] \in Request
    BY DEF TypeOK
  <2>2. reqs[j] = IF i = j THEN SetCurrentState(requests[j], state) ELSE requests[j]
    BY <2>1 DEF WithState, ChangeState
  <2> QED
    BY <1>1, <2>1, <2>2, SetStateType
<1> HIDE DEF reqs, i
<1>5. CASE history = << >>
  <2>1. history' = << >> /\ requests' = reqs
    BY <1>2, <1>5, NothingToUndo DEF TypeOK, Rollback, reqs
  <2>2. \A j : ~Reaches(j)
    BY <1>5 DEF Reaches
  <2> QED
    BY <1>2, <1>3, <1>4, <1>5, <2>1, <2>2 DEF Undone, i
<1>6. CASE history # << >>
  <2> DEFINE top == history[Len(history)]
  <2>1. /\ history \in Seq(Record) /\ top \in Record
        /\ Len(history) \in Nat
    BY <1>6 DEF TypeOK
  <2>2. /\ top.previousRequestState \in RequestState
        /\ top.request \in [id : 0 .. Len(requests) - 1, buffer : Nat]
    BY <2>1 DEF Record
  <2>3. requests' = [j \in 1 .. Len(reqs) |->
                       IF top.request = RequestPointer(j - 1, capacity)
                       THEN SetCurrentState(reqs[j], top.previousRequestState)
                       ELSE reqs[j]]
    BY <1>2, <1>6, <2>1, RestoredRequestsTop DEF Rollback, reqs
  <2>4. /\ Len(history') = Len(history) - 1
        /\ \A n \in 1 .. Len(history) - 1 : history'[n] = history[n]
    BY <1>6, <2>1, RemainingAfterOne DEF Rollback
  <2>5. \A j : Reaches(j) <=> top.request = RequestPointer(j - 1, capacity)
    BY <1>6, <2>2 DEF Reaches, RequestPointer
  <2> HIDE DEF top
  <2>6. \A j \in 1 .. Len(reqs) :
           LET request == SetCurrentState(reqs[j], top.previousRequestState)
           IN  /\ request.currentState = top.previousRequestState
               /\ request.vehicleId = reqs[j].vehicleId
    BY <1>2, <2>2, SetStateType
  <2>7. Len(requests') = Len(requests)
    BY <1>2, <2>3
  <2>8. \A j \in 1 .. Len(requests) :
           /\ requests'[j].currentState =
                 IF Reaches(j) THEN top.previousRequestState ELSE reqs[j].currentState
           /\ requests'[j].vehicleId = reqs[j].vehicleId
    BY <1>2, <2>3, <2>5, <2>6
  <2> QED
    BY <1>3, <1>4, <1>6, <2>4, <2>7, <2>8 DEF Undone, top, i
<1> QED
  BY <1>5, <1>6

LEMMA Steps ==
    ASSUME TypeOK, [Next]_vars
    PROVE  Same \/ Granted \/ \E i \in DOMAIN requests : Undone(i)
<1>1. ASSUME NEW zone, AddZone(zone) PROVE Same
  BY <1>1 DEF AddZone, Same
<1>2. ASSUME NEW vehicleId, NEW zoneId, RequestParking(vehicleId, zoneId)
      PROVE  Same \/ Granted
  BY <1>2, GrantIsGranted DEF RequestParking, RefuseParking, Same
<1>3. \A id \in ClientIds : IsRequest(id) => id \in Int /\ id + 1 \in DOMAIN requests
  BY DEF TypeOK, ClientIds, IsRequest
<1>4. ASSUME NEW id \in ClientIds, CancelRequest(id)
      PROVE  Same \/ \E i \in DOMAIN requests : Undone(i)
  <2>1. CASE Cancellable(id)
    <3>1. id \in Int /\ id + 1 \in DOMAIN requests
      BY <1>3, <2>1 DEF Cancellable
    <3>2. Undone(id + 1)
      BY <1>4, <2>1, <3>1, UndoIsUndone DEF CancelRequest, Cancellable, TerminalState
    <3> QED
      BY <3>1, <3>2
  <2>2. CASE ~Cancellable(id)
    BY <1>4, <2>2 DEF CancelRequest, Same
  <2> QED
    BY <2>1, <2>2
<1>5. ASSUME NEW id \in ClientIds, ReleaseSlot(id)
      PROVE  Same \/ \E i \in DOMAIN requests : Undone(i)
  <2>1. CASE Releasable(id)
    <3>1. id \in Int /\ id + 1 \in DOMAIN requests
      BY <1>3, <2>1 DEF Releasable
    <3>2. Undone(id + 1)
      BY <1>5, <2>1, <3>1, UndoIsUndone DEF ReleaseSlot, Releasable, TerminalState
    <3> QED
      BY <3>1, <3>2
  <2>2. CASE ~Releasable(id)
    BY <1>5, <2>2 DEF ReleaseSlot, Same
  <2> QED
    BY <2>1, <2>2
<1> QED
  BY <1>1, <1>2, <1>4, <1>5 DEF Next, vars, Same

\* An undo takes records away and adds none.
LEMMA UndoneShrinks ==
    ASSUME TypeOK, TypeOK', NEW i, Undone(i)
    PROVE  /\ DOMAIN history' \subseteq DOMAIN history
           /\ \A n \in DOMAIN history' : history'[n] = history[n]
           /\ DOMAIN requests' = DOMAIN requests /\ Len(requests') = Len(requests)
           /\ capacity' = capacity /\ assignedSlot' = assignedSlot
<1>1. Shape /\ DOMAIN history' = 1 .. Len(history') /\ DOMAIN requests' = 1 .. Len(requests')
  BY TypesShape DEF TypeOK
<1> DEFINE h == Len(history)
<1>2. h \in Nat /\ DOMAIN history = 1 .. h /\ DOMAIN requests = 1 .. Len(requests)
  BY <1>1 DEF Shape
<1> HIDE DEF h
<1>3. 1 .. 0 \subseteq 1 .. h /\ 1 .. h - 1 \subseteq 1 .. h
  BY <1>2
<1>4. /\ Len(history') = IF history = << >> THEN 0 ELSE h - 1
      /\ \A n \in 1 .. Len(history') : history'[n] = history[n]
      /\ capacity' = capacity /\ assignedSlot' = assignedSlot
      /\ Len(requests') = Len(requests)
  BY DEF Undone, h
<1> QED
  BY <1>1, <1>2, <1>3, <1>4

\* A grant adds one record and one request.
LEMMA GrantedAdds ==
    ASSUME TypeOK, TypeOK', Granted
    PROVE  LET h == Len(history)
               r == Len(requests)
           IN  /\ h \in Nat /\ r \in Nat /\ capacity \in Nat /\ capacity' \in Nat
               /\ DOMAIN history = 1 .. h /\ DOMAIN requests = 1 .. r
               /\ DOMAIN history' = 1 .. h + 1 /\ DOMAIN requests' = 1 .. r + 1
               /\ h + 1 \in 1 .. h + 1
               /\ \A n \in 1 .. h + 1 : n \in 1 .. h \/ n = h + 1
               /\ \A n \in 1 .. h : /\ n \in 1 .. h + 1 /\ n < h + 1
                                    /\ history'[n] = history[n]
                                    /\ history[n].request.id \in Int
                                    /\ history[n].request.id < r
                                    /\ history[n].request.id + 1 \in 1 .. r
<1> DEFINE h == Len(history)
           r == Len(requests)
<1>1. /\ Shape /\ capacity' \in Nat
      /\ DOMAIN history' = 1 .. Len(history') /\ DOMAIN requests' = 1 .. Len(requests')
  BY TypesShape DEF TypeOK
<1>2. /\ h \in Nat /\ r \in Nat /\ capacity \in Nat
      /\ DOMAIN history = 1 .. h /\ DOMAIN requests = 1 .. r
      /\ \A n \in 1 .. h : /\ history[n].request.id \in Int
                           /\ 0 <= history[n].request.id /\ history[n].request.id < r
  BY <1>1 DEF Shape
<1>3. /\ Len(history') = h + 1 /\ Len(requests') = r + 1
      /\ \A n \in 1 .. h : history'[n] = history[n]
  BY DEF Granted
<1> HIDE DEF h, r
<1>4. /\ h + 1 \in 1 .. h + 1
      /\ \A n \in 1 .. h + 1 : n \in 1 .. h \/ n = h + 1
      /\ \A n \in 1 .. h : /\ n \in 1 .. h + 1 /\ n < h + 1
                           /\ history[n].request.id + 1 \in 1 .. r
  BY <1>2
<1> QED
  BY <1>1, <1>2, <1>3, <1>4 DEF h, r

-----------------------------------------------------------------------------
(* The order of the stack *)

LEMMA OrderInit == Init => HistoryInRequestOrder
  BY DEF Init, HistoryInRequestOrder

LEMMA OrderNext == TypeOK /\ HistoryInRequestOrder /\ [Next]_vars => HistoryInRequestOrder'
<1> SUFFICES ASSUME TypeOK, HistoryInRequestOrder, [Next]_vars PROVE HistoryInRequestOrder'
  OBVIOUS
<1>1. Shape /\ (Same \/ Granted \/ \E i \in DOMAIN requests : Undone(i))
  BY TypesShape, Steps
<1>2. TypeOK'
  BY NextType
<1>3. CASE Same
  BY <1>3 DEF Same, HistoryInRequestOrder
<1>4. CASE Granted
  <2> DEFINE h == Len(history)
             r == Len(requests)
  <2>1. /\ h \in Nat /\ r \in Nat
        /\ DOMAIN history = 1 .. h /\ DOMAIN history' = 1 .. h + 1
        /\ \A n \in 1 .. h + 1 : n \in 1 .. h \/ n = h + 1
        /\ \A n \in 1 .. h : /\ n < h + 1 /\ history'[n] = history[n]
                             /\ history[n].request.id \in Int
                             /\ history[n].request.id < r
                             /\ history[n].request.id + 1 \in 1 .. r
    BY <1>2, <1>4, GrantedAdds
  <2>2. /\ history'[h + 1].request.id = r
        /\ history'[h + 1].slot = assignedSlot'[r + 1]
        /\ \A i \in 1 .. r : assignedSlot'[i] = assignedSlot[i]
    BY <1>4 DEF Granted
  <2> HIDE DEF h, r
  <2>3. ASSUME NEW m \in 1 .. h + 1, NEW n \in 1 .. h + 1, m < n
        PROVE  history'[m].request.id < history'[n].request.id
    <3>1. m \in 1 .. h
      BY <2>1, <2>3
    <3>2. CASE n \in 1 .. h
      BY <2>1, <2>3, <3>1, <3>2 DEF HistoryInRequestOrder
    <3>3. CASE n = h + 1
      BY <2>1, <2>2, <3>1, <3>3
    <3> QED
      BY <2>1, <3>2, <3>3
  <2>4. ASSUME NEW n \in 1 .. h + 1
        PROVE  history'[n].slot = assignedSlot'[history'[n].request.id + 1]
    BY <2>1, <2>2 DEF HistoryInRequestOrder
  <2> QED
    BY <2>1, <2>3, <2>4 DEF HistoryInRequestOrder
<1>5. ASSUME NEW i \in DOMAIN requests, Undone(i) PROVE HistoryInRequestOrder'
  <2>1. /\ DOMAIN history' \subseteq DOMAIN history
        /\ \A n \in DOMAIN history' : history'[n] = history[n]
        /\ assignedSlot' = assignedSlot
    BY <1>2, <1>5, UndoneShrinks
  <2> QED
    BY <2>1 DEF HistoryInRequestOrder
<1> QED
  BY <1>1, <1>3, <1>4, <1>5

\* The undo stack is in the order of the requests, each has at most one record
\* on it, and the record names the slot its request was granted: whatever was
\* cancelled in between (ParkingSystem.cpp:28, 60-66).
THEOREM RecordsInRequestOrder == Spec => []HistoryInRequestOrder
<1>1. Spec => []TypeOK
  BY TypeCorrect
<1> QED
  BY <1>1, OrderInit, OrderNext, PTL DEF Spec

-----------------------------------------------------------------------------
(* The buffers of the vector *)

\* The buffer is at least half full, and no record is from a later buffer.
Buffers ==
    /\ Len(requests) <= capacity
    /\ IF Len(requests) = 0 THEN capacity = 0 ELSE capacity < 2 * Len(requests)
    /\ \A n \in DOMAIN history : history[n].request.buffer <= capacity
    /\ StaleRecordsAreTheMoved

LEMMA BuffersInit == Init => Buffers
  BY DEF Init, Buffers, StaleRecordsAreTheMoved

LEMMA BuffersNext == TypeOK /\ Buffers /\ [Next]_vars => Buffers'
<1> SUFFICES ASSUME TypeOK, Buffers, [Next]_vars PROVE Buffers'
  OBVIOUS
<1>1. Shape /\ (Same \/ Granted \/ \E i \in DOMAIN requests : Undone(i))
  BY TypesShape, Steps
<1>2. TypeOK'
  BY NextType
<1>3. CASE Same
  BY <1>3 DEF Same, Buffers, StaleRecordsAreTheMoved, Moved
<1>4. CASE Granted
  <2> DEFINE r == Len(requests)
             h == Len(history)
  <2>1. /\ r \in Nat /\ h \in Nat /\ capacity \in Nat /\ capacity' \in Nat
        /\ DOMAIN history = 1 .. h /\ DOMAIN history' = 1 .. h + 1
        /\ \A n \in 1 .. h + 1 : n \in 1 .. h \/ n = h + 1
        /\ \A n \in 1 .. h : history'[n] = history[n]
    BY <1>2, <1>4, GrantedAdds
  <2>2. /\ Len(requests') = r + 1 /\ capacity' = CapacityAfterPush(r, capacity)
        /\ history'[h + 1].request.id = r
        /\ history'[h + 1].request.buffer = capacity'
    BY <1>4 DEF Granted
  <2>3. /\ r <= capacity
        /\ IF r = 0 THEN capacity = 0 ELSE capacity < 2 * r
    BY DEF Buffers
  <2>4. \A n \in 1 .. h :
          /\ history[n].request.id \in Int /\ history[n].request.buffer \in Nat
          /\ 0 <= history[n].request.id /\ history[n].request.id < r
          /\ history[n].request.buffer <= capacity
          /\ history[n].request.buffer # capacity <=> 2 * (history[n].request.id + 1) <= capacity
    BY <1>1 DEF Shape, Buffers, StaleRecordsAreTheMoved, Moved
  <2> HIDE DEF r, h
  <2>5. capacity' = IF r < capacity THEN capacity ELSE IF r = 0 THEN 1 ELSE 2 * r
    BY <2>1, <2>2, <2>3 DEF CapacityAfterPush
  <2>6. r + 1 <= capacity' /\ capacity' < 2 * (r + 1)
    BY <2>1, <2>3, <2>5
  <2>7. ASSUME NEW n \in 1 .. h
        PROVE  /\ history'[n].request.buffer <= capacity'
               /\ history'[n].request.buffer # capacity'
                    <=> 2 * (history'[n].request.id + 1) <= capacity'
    <3> DEFINE id     == history[n].request.id
               buffer == history[n].request.buffer
    <3>1. /\ id \in Int /\ buffer \in Nat /\ 0 <= id /\ id < r /\ buffer <= capacity
          /\ buffer # capacity <=> 2 * (id + 1) <= capacity
      BY <2>4
    <3>2. history'[n].request.id = id /\ history'[n].request.buffer = buffer
      BY <2>1
    <3> HIDE DEF id, buffer
    <3>3. buffer <= capacity' /\ (buffer # capacity' <=> 2 * (id + 1) <= capacity')
      BY <2>1, <2>3, <2>5, <3>1
    <3> QED
      BY <3>2, <3>3
  <2>8. ASSUME NEW n \in 1 .. h + 1
        PROVE  /\ history'[n].request.buffer <= capacity'
               /\ history'[n].request.buffer # capacity'
                    <=> 2 * (history'[n].request.id + 1) <= capacity'
    <3>1. CASE n = h + 1
      BY <2>1, <2>2, <2>6, <3>1
    <3> QED
      BY <2>1, <2>7, <3>1
  <2>9. /\ Len(requests') <= capacity'
        /\ Len(requests') # 0 /\ capacity' < 2 * Len(requests')
    BY <2>1, <2>2, <2>6
  <2> QED
    BY <2>1, <2>8, <2>9 DEF Buffers, StaleRecordsAreTheMoved, Moved
<1>5. ASSUME NEW i \in DOMAIN requests, Undone(i) PROVE Buffers'
  <2>1. /\ DOMAIN history' \subseteq DOMAIN history
        /\ \A n \in DOMAIN history' : history'[n] = history[n]
        /\ capacity' = capacity /\ Len(requests') = Len(requests)
    BY <1>2, <1>5, UndoneShrinks
  <2> QED
    BY <2>1 DEF Buffers, StaleRecordsAreTheMoved, Moved
<1> QED
  BY <1>1, <1>3, <1>4, <1>5

LEMMA BuffersAlways == Spec => []Buffers
<1>1. Spec => []TypeOK
  BY TypeCorrect
<1> QED
  BY <1>1, BuffersInit, BuffersNext, PTL DEF Spec

\* A record's pointer is stale exactly when its request is in the lower half of
\* the vector's buffer: every growth leaves all older records stale, and
\* nothing else does (ParkingSystem.cpp:60-65).
THEOREM StaleAreTheMoved == Spec => []StaleRecordsAreTheMoved
<1>1. Buffers => StaleRecordsAreTheMoved
  BY DEF Buffers
<1> QED
  BY <1>1, BuffersAlways, PTL

-----------------------------------------------------------------------------
(* States and records *)

\* What is undone is the first step of a request.
RestoresRequested == \A n \in DOMAIN history : history[n].previousRequestState = "REQUESTED"

StatesInv == StateMatchesRecord /\ RestoresRequested

LEMMA StatesInit == Init => StatesInv
  BY DEF Init, StatesInv, StateMatchesRecord, RestoresRequested

LEMMA StatesNext ==
    ASSUME TypeOK, HistoryInRequestOrder, Buffers, StatesInv, [Next]_vars
    PROVE  StatesInv'
<1>1. Shape /\ (Same \/ Granted \/ \E i \in DOMAIN requests : Undone(i))
  BY TypesShape, Steps
<1>2. DOMAIN history' = 1 .. Len(history') /\ DOMAIN requests' = 1 .. Len(requests')
  BY NextType DEF TypeOK
<1>3. CASE Same
  BY <1>3 DEF Same, StatesInv, StateMatchesRecord, RestoresRequested, HasRecord, Moved
<1>4. CASE Granted
  <2> DEFINE r == Len(requests)
             h == Len(history)
  <2>1. /\ r \in Nat /\ h \in Nat /\ capacity \in Nat /\ capacity' \in Nat
        /\ DOMAIN history = 1 .. h
        /\ \A n \in 1 .. h : history[n].request.id \in Int /\ history[n].request.id < r
    BY <1>1, NextType DEF Shape, TypeOK
  <2>0. r + 1 \in Int /\ (r + 1) - 1 = r /\ h + 1 \in 1 .. h + 1
    BY <2>1
  <2>2. /\ DOMAIN requests' = 1 .. r + 1
        /\ \A i \in 1 .. r : requests'[i] = requests[i]
        /\ requests'[r + 1].currentState = "ALLOCATED"
        /\ DOMAIN history' = 1 .. h + 1
        /\ \A n \in 1 .. h : history'[n] = history[n]
        /\ history'[h + 1].request.id = r
        /\ history'[h + 1].previousRequestState = "REQUESTED"
    BY <1>2, <1>4 DEF Granted
  <2>3. capacity <= capacity'
    BY <1>4, <2>1 DEF Granted, CapacityAfterPush
  <2>4. RestoresRequested'
    BY <2>1, <2>2 DEF StatesInv, RestoresRequested
  <2>5. \A i \in 1 .. r : HasRecord(i - 1)' <=> HasRecord(i - 1)
    BY <2>1, <2>2 DEF HasRecord
  <2>6. \E n \in DOMAIN history' : history'[n].request.id = r
    BY <2>0, <2>2
  <2>7. \A i \in 1 .. r : Moved(i) => Moved(i)'
    BY <2>1, <2>3 DEF Moved
  <2>8. DOMAIN requests = 1 .. r
    BY <1>1 DEF Shape
  <2> SUFFICES ASSUME NEW i \in 1 .. r + 1
               PROVE  /\ requests'[i].currentState = "REQUESTED" => ~HasRecord(i - 1)'
                      /\ requests'[i].currentState = "ALLOCATED" /\ ~Moved(i)' => HasRecord(i - 1)'
    BY <2>2, <2>4 DEF StatesInv, StateMatchesRecord, HasRecord
  <2>9. CASE i \in 1 .. r
    BY <2>2, <2>5, <2>7, <2>8, <2>9 DEF StatesInv, StateMatchesRecord
  <2>10. CASE i = r + 1
    <3>1. i - 1 = r /\ requests'[i].currentState = "ALLOCATED"
      BY <2>0, <2>2, <2>10
    <3>2. HasRecord(i - 1)'
      BY <2>6, <3>1 DEF HasRecord
    <3> QED
      BY <3>1, <3>2
  <2> QED
    BY <2>1, <2>9, <2>10
<1>5. ASSUME NEW i \in DOMAIN requests, Undone(i) PROVE StatesInv'
  <2> DEFINE h == Len(history)
  <2>1. /\ h \in Nat /\ Len(requests) \in Nat
        /\ DOMAIN history = 1 .. h /\ DOMAIN requests = 1 .. Len(requests)
        /\ capacity \in Nat
    BY <1>1 DEF Shape
  <2>2. /\ DOMAIN requests' = 1 .. Len(requests) /\ capacity' = capacity
        /\ DOMAIN history' = 1 .. (IF history = << >> THEN 0 ELSE h - 1)
        /\ \A n \in DOMAIN history' : history'[n] = history[n]
    BY <1>2, <1>5 DEF Undone
  <2>3. DOMAIN history' \subseteq DOMAIN history
    BY <2>1, <2>2
  <2>4. RestoresRequested'
    BY <2>2, <2>3 DEF StatesInv, RestoresRequested
  <2> SUFFICES ASSUME NEW j \in 1 .. Len(requests)
               PROVE  /\ requests'[j].currentState = "REQUESTED" => ~HasRecord(j - 1)'
                      /\ requests'[j].currentState = "ALLOCATED" /\ ~Moved(j)' => HasRecord(j - 1)'
    BY <2>2, <2>4 DEF StatesInv, StateMatchesRecord, HasRecord
  <2>5. HasRecord(j - 1)' => HasRecord(j - 1)
    BY <2>2, <2>3 DEF HasRecord
  <2>6. CASE Reaches(j)
    <3>1. h \in DOMAIN history /\ h \notin DOMAIN history' /\ history # << >>
      BY <2>1, <2>2, <2>6 DEF Reaches
    <3>2. requests'[j].currentState = "REQUESTED"
      BY <1>5, <2>6, <3>1 DEF Undone, StatesInv, RestoresRequested
    <3>3. \A n \in DOMAIN history' : history[n].request.id < history[h].request.id
      BY <2>1, <2>2, <3>1 DEF HistoryInRequestOrder
    <3>4. history[h].request.id = j - 1
      BY <2>6 DEF Reaches
    <3>5. \A n \in DOMAIN history' : history'[n].request.id # j - 1
      BY <1>1, <2>2, <2>3, <3>3, <3>4 DEF Shape
    <3> QED
      BY <3>2, <3>5 DEF HasRecord
  <2>7. CASE ~Reaches(j) /\ i = j
    <3>1. requests'[j].currentState \in TerminalState
      BY <1>5, <2>7 DEF Undone
    <3> QED
      BY <3>1 DEF TerminalState
  <2>8. CASE ~Reaches(j) /\ i # j
    <3>1. requests'[j].currentState = requests[j].currentState
      BY <1>5, <2>8 DEF Undone
    <3>2. /\ requests[j].currentState = "REQUESTED" => ~HasRecord(j - 1)
          /\ requests[j].currentState = "ALLOCATED" /\ ~Moved(j) => HasRecord(j - 1)
      BY <2>1 DEF StatesInv, StateMatchesRecord
    <3>3. ASSUME HasRecord(j - 1), ~Moved(j) PROVE HasRecord(j - 1)'
      <4>1. PICK n \in DOMAIN history : history[n].request.id = j - 1
        BY <3>3 DEF HasRecord
      <4>2. history[n].request.buffer = capacity
        <5>1. history[n].request.id + 1 = j
          BY <4>1
        <5> QED
          BY <3>3, <5>1 DEF Buffers, StaleRecordsAreTheMoved
      <4>3. n # h /\ history # << >>
        BY <2>1, <2>8, <4>1, <4>2 DEF Reaches
      <4>4. n \in DOMAIN history' /\ history'[n] = history[n]
        BY <2>1, <2>2, <4>3
      <4> QED
        BY <4>1, <4>4 DEF HasRecord
    <3>4. Moved(j)' <=> Moved(j)
      BY <2>2 DEF Moved
    <3> QED
      BY <2>5, <3>1, <3>2, <3>3, <3>4
  <2> QED
    BY <2>6, <2>7, <2>8
<1> QED
  BY <1>1, <1>3, <1>4, <1>5

\* A request in REQUESTED has been undone, and an ALLOCATED request that no
\* growth has moved still has its record: in every sequence of calls
\* (ParkingSystem.cpp:71-98, RollBackManager.cpp:30-33).
THEOREM StatesMatchRecords == Spec => []StateMatchesRecord
<1>1. Spec => []TypeOK /\ []HistoryInRequestOrder /\ []Buffers
  BY TypeCorrect, RecordsInRequestOrder, BuffersAlways
<1>2. TypeOK /\ HistoryInRequestOrder /\ Buffers /\ StatesInv /\ [Next]_vars => StatesInv'
  BY StatesNext
<1>3. StatesInv => StateMatchesRecord
  BY DEF StatesInv
<1> QED
  BY <1>1, <1>2, <1>3, StatesInit, PTL DEF Spec

\* Two ALLOCATED requests share a slot only if the older one was moved by a
\* growth: if neither was, both still have their records, and no slot is on
\* the stack twice (ParkingSystem.cpp:56-66, RollBackManager.cpp:25-33).
THEOREM SharedSlotNeedsMove == Spec => []DoubleBookingNeedsMove
<1>1. ASSUME TypeOK, HistoryMatchesSlots, HistoryInRequestOrder, StateMatchesRecord
      PROVE  DoubleBookingNeedsMove
  <2> SUFFICES ASSUME NEW i \in DOMAIN requests, NEW j \in DOMAIN requests, i < j,
                      requests[i].currentState = "ALLOCATED",
                      requests[j].currentState = "ALLOCATED",
                      assignedSlot[i] = assignedSlot[j], ~Moved(i)
               PROVE  FALSE
    BY DEF DoubleBookingNeedsMove
  <2>1. i \in Int /\ j \in Int /\ capacity \in Nat
    BY <1>1, TypesShape DEF Shape
  <2>2. ~Moved(j)
    BY <2>1 DEF Moved
  <2>3. HasRecord(i - 1) /\ HasRecord(j - 1)
    BY <1>1, <2>2 DEF StateMatchesRecord
  <2>4. PICK m \in DOMAIN history : history[m].request.id = i - 1
    BY <2>3 DEF HasRecord
  <2>5. PICK n \in DOMAIN history : history[n].request.id = j - 1
    BY <2>3 DEF HasRecord
  <2>6. history[m].slot = assignedSlot[i] /\ history[n].slot = assignedSlot[j]
    <3>1. history[m].request.id + 1 = i /\ history[n].request.id + 1 = j
      BY <2>1, <2>4, <2>5
    <3> QED
      BY <1>1, <3>1 DEF HistoryInRequestOrder
  <2>7. m = n
    BY <1>1, <2>6 DEF HistoryMatchesSlots
  <2> QED
    BY <2>1, <2>4, <2>5, <2>7
<1>2. Spec => /\ []TypeOK /\ []HistoryMatchesSlots
              /\ []HistoryInRequestOrder /\ []StateMatchesRecord
  BY TypeCorrect, SlotsMatchHistory, RecordsInRequestOrder, StatesMatchRecords
<1> QED
  BY <1>1, <1>2, PTL

-----------------------------------------------------------------------------
(* Slots are not lost *)

Unfinished(i) == requests[i].currentState \notin TerminalState

UnfinishedRequests == { i \in DOMAIN requests : Unfinished(i) }

LEMMA UnfinishedFinite ==
    ASSUME TypeOK
    PROVE  IsFiniteSet(UnfinishedRequests) /\ Cardinality(UnfinishedRequests) \in Nat
<1>1. Len(requests) \in Int /\ DOMAIN requests = 1 .. Len(requests)
  BY TypesShape DEF Shape
<1>2. IsFiniteSet(1 .. Len(requests))
  BY <1>1, FS_Interval
<1>3. UnfinishedRequests \in SUBSET (1 .. Len(requests))
  BY <1>1 DEF UnfinishedRequests
<1> QED
  BY <1>2, <1>3, FS_Subset, FS_CardinalityType

LEMMA LeakSays == NoSlotLeak <=> Len(history) <= Cardinality(UnfinishedRequests)
  BY DEF NoSlotLeak, UnfinishedRequests, Unfinished

LEMMA LeakInit == Init => NoSlotLeak
<1> SUFFICES ASSUME Init PROVE NoSlotLeak
  OBVIOUS
<1>1. Cardinality(UnfinishedRequests) \in Nat /\ Len(history) = 0
  BY InitType, UnfinishedFinite DEF Init
<1> QED
  BY <1>1, LeakSays

LEMMA LeakNext == TypeOK /\ StatesInv /\ NoSlotLeak /\ [Next]_vars => NoSlotLeak'
<1> SUFFICES ASSUME TypeOK, StatesInv, NoSlotLeak, [Next]_vars PROVE NoSlotLeak'
  OBVIOUS
<1> DEFINE h   == Len(history)
           old == UnfinishedRequests
           new == { i \in DOMAIN requests' : requests'[i].currentState \notin TerminalState }
<1>1. Shape /\ (Same \/ Granted \/ \E i \in DOMAIN requests : Undone(i)) /\ TypeOK'
  BY TypesShape, Steps, NextType
<1>2. /\ h \in Nat /\ h <= Cardinality(old)
      /\ IsFiniteSet(old) /\ Cardinality(old) \in Nat
  BY <1>1, UnfinishedFinite, LeakSays DEF Shape
<1>3. IsFiniteSet(new) /\ Cardinality(new) \in Nat
  <2>1. (TypeOK => IsFiniteSet(UnfinishedRequests) /\ Cardinality(UnfinishedRequests) \in Nat)'
    BY UnfinishedFinite, PTL
  <2> QED
    BY <1>1, <2>1 DEF UnfinishedRequests, Unfinished
<1>4. NoSlotLeak' <=> Len(history') <= Cardinality(new)
  BY DEF NoSlotLeak
<1>5. CASE Same
  BY <1>5 DEF Same, NoSlotLeak
<1>6. CASE Granted
  <2> DEFINE r == Len(requests)
  <2>1. /\ r \in Nat /\ DOMAIN requests = 1 .. r /\ DOMAIN requests' = 1 .. r + 1
    BY <1>1, <1>6, GrantedAdds
  <2>2. /\ \A i \in 1 .. r : requests'[i] = requests[i]
        /\ requests'[r + 1].currentState = "ALLOCATED"
        /\ Len(history') = h + 1
    BY <1>6 DEF Granted
  <2> HIDE DEF r, h
  <2>3. old \cup {r + 1} \in SUBSET new /\ r + 1 \notin old
    BY <2>1, <2>2 DEF UnfinishedRequests, Unfinished, TerminalState
  <2> HIDE DEF old, new
  <2>4. /\ IsFiniteSet(old \cup {r + 1})
        /\ Cardinality(old \cup {r + 1}) = Cardinality(old) + 1
    BY <1>2, <2>3, FS_AddElement
  <2>5. Cardinality(old \cup {r + 1}) <= Cardinality(new)
    BY <1>3, <2>3, FS_Subset
  <2> QED
    BY <1>2, <1>3, <1>4, <2>2, <2>4, <2>5
<1>7. ASSUME NEW i \in DOMAIN requests, Undone(i) PROVE NoSlotLeak'
  <2>1. DOMAIN requests' = DOMAIN requests /\ DOMAIN requests = 1 .. Len(requests)
    BY <1>1, <1>7, UndoneShrinks DEF Shape
  <2>2. i \in old
    BY <1>7 DEF UnfinishedRequests, Unfinished, Undone
  <2>3. ASSUME NEW j \in old, j # i PROVE j \in new
    <3>1. j \in DOMAIN requests /\ requests[j].currentState \notin TerminalState
      BY <2>3 DEF UnfinishedRequests, Unfinished
    <3>2. CASE Reaches(j)
      <4>1. h \in DOMAIN history
        BY <1>1, <3>2 DEF Shape, Reaches
      <4>2. requests'[j].currentState = "REQUESTED"
        BY <1>7, <2>1, <3>1, <3>2, <4>1 DEF Undone, StatesInv, RestoresRequested
      <4> QED
        BY <2>1, <3>1, <4>2 DEF TerminalState
    <3>3. CASE ~Reaches(j)
      <4>1. requests'[j].currentState = requests[j].currentState
        BY <1>7, <2>1, <2>3, <3>1, <3>3 DEF Undone
      <4> QED
        BY <2>1, <3>1, <4>1
    <3> QED
      BY <3>2, <3>3
  <2>4. Len(history') = IF history = << >> THEN 0 ELSE h - 1
    BY <1>7 DEF Undone
  <2> HIDE DEF old, new, h
  <2>5. IsFiniteSet(old \ {i}) /\ Cardinality(old \ {i}) = Cardinality(old) - 1
    BY <1>2, <2>2, FS_RemoveElement
  <2>6. Cardinality(old \ {i}) <= Cardinality(new)
    <3>1. old \ {i} \in SUBSET new
      BY <2>3
    <3> QED
      BY <1>3, <3>1, FS_Subset
  <2> QED
    BY <1>2, <1>3, <1>4, <2>4, <2>5, <2>6
<1> QED
  BY <1>1, <1>5, <1>6, <1>7

\* No slot is lost for good: although cancelRequest undoes the newest record
\* and not its own, a lot of any size and after any calls always has as many
\* requests to cancel as slots to give back (ParkingSystem.cpp:78-97).
THEOREM NoSlotIsLost == Spec => []NoSlotLeak
<1>1. Spec => []TypeOK /\ []HistoryInRequestOrder /\ []Buffers
  BY TypeCorrect, RecordsInRequestOrder, BuffersAlways
<1>2. TypeOK /\ HistoryInRequestOrder /\ Buffers /\ StatesInv /\ [Next]_vars => StatesInv'
  BY StatesNext
<1>3. Spec => []StatesInv
  BY <1>1, <1>2, StatesInit, PTL DEF Spec
<1> QED
  BY <1>1, <1>3, LeakInit, LeakNext, PTL DEF Spec

-----------------------------------------------------------------------------
(* Vehicles *)

Once(vs) == \A i, j \in DOMAIN vs : vs[i].vehicleId = vs[j].vehicleId => i = j

Registered(vs, v) == \E j \in DOMAIN vs : vs[j].vehicleId = v

LEMMA VehiclesSay ==
    VehiclesRegisteredOnce <=>
        Once(vehicles) /\ \A i \in DOMAIN requests : Registered(vehicles, requests[i].vehicleId)
  BY DEF VehiclesRegisteredOnce, Once, Registered

LEMMA RegisterKeeps ==
    ASSUME NEW vs \in Seq(Vehicle), Once(vs), NEW v \in Vehicles, NEW z \in ZoneIds
    PROVE  LET new == RegisterVehicle(vs, v, z)
           IN  /\ Once(new) /\ Registered(new, v)
               /\ \A u : Registered(vs, u) => Registered(new, u)
<1>1. CASE Registered(vs, v)
  BY <1>1 DEF Registered, RegisterVehicle
<1>2. CASE ~Registered(vs, v)
  <2> DEFINE vehicle == [vehicleId |-> v, preferredZone |-> z]
             new     == Append(vs, vehicle)
             n       == Len(vs)
  <2>1. RegisterVehicle(vs, v, z) = new
    BY <1>2 DEF Registered, RegisterVehicle
  <2>2. /\ n \in Nat /\ DOMAIN vs = 1 .. n /\ DOMAIN new = 1 .. n + 1
        /\ \A j \in 1 .. n : new[j] = vs[j]
        /\ new[n + 1] = vehicle
    BY DEF Vehicle
  <2>3. vehicle.vehicleId = v
    OBVIOUS
  <2> HIDE DEF new, n, vehicle
  <2>4. Once(new)
    BY <1>2, <2>2, <2>3 DEF Once, Registered
  <2>5. /\ n + 1 \in DOMAIN new /\ new[n + 1].vehicleId = v
        /\ DOMAIN vs \subseteq DOMAIN new
    BY <2>2, <2>3
  <2> QED
    BY <2>1, <2>2, <2>4, <2>5 DEF Registered
<1> QED
  BY <1>1, <1>2

LEMMA VehiclesNext ==
    TypeOK /\ VehiclesRegisteredOnce /\ [Next]_vars => VehiclesRegisteredOnce'
<1> SUFFICES ASSUME TypeOK, VehiclesRegisteredOnce, [Next]_vars PROVE VehiclesRegisteredOnce'
  OBVIOUS
<1>1. /\ Once(vehicles) /\ \A i \in DOMAIN requests : Registered(vehicles, requests[i].vehicleId)
      /\ Shape /\ TypeOK'
  BY VehiclesSay, TypesShape, NextType
<1>2. (Once(vehicles) /\ \A i \in DOMAIN requests : Registered(vehicles, requests[i].vehicleId))'
        => VehiclesRegisteredOnce'
  BY VehiclesSay, PTL
<1>3. CASE UNCHANGED << vehicles, requests >>
  BY <1>3 DEF VehiclesRegisteredOnce
<1>4. ASSUME NEW vehicleId \in Vehicles, NEW zoneId \in ZoneIds, RequestParking(vehicleId, zoneId)
      PROVE  VehiclesRegisteredOnce'
  <2>1. vehicles' = RegisterVehicle(vehicles, vehicleId, zoneId)
    BY <1>4 DEF RequestParking, RefuseParking, GrantParking
  <2>2. vehicles \in Seq(Vehicle)
    BY DEF TypeOK
  <2>3. /\ Once(vehicles') /\ Registered(vehicles', vehicleId)
        /\ \A u : Registered(vehicles, u) => Registered(vehicles', u)
    BY <1>1, <2>1, <2>2, RegisterKeeps
  <2>4. CASE requests' = requests
    BY <1>1, <1>2, <2>3, <2>4
  <2>5. CASE GrantParking(vehicleId, zoneId)
    <3> DEFINE new == ChangeState(NewRequest(vehicleId, zoneId), "ALLOCATED")
               r   == Len(requests)
    <3>1. requests' = Append(requests, new)
      BY <2>5 DEF GrantParking
    <3>2. new.vehicleId = vehicleId
      BY DEF ChangeState, SetCurrentState, NewRequest
    <3> HIDE DEF new
    <3>3. /\ r \in Nat /\ DOMAIN requests = 1 .. r /\ DOMAIN requests' = 1 .. r + 1
          /\ requests'[r + 1] = new /\ \A i \in 1 .. r : requests'[i] = requests[i]
      BY <3>1 DEF TypeOK
    <3> HIDE DEF r
    <3>4. \A i \in DOMAIN requests' : i \in 1 .. r \/ i = r + 1
      BY <3>3
    <3>5. \A i \in DOMAIN requests' : Registered(vehicles', requests'[i].vehicleId)
      BY <1>1, <2>3, <3>2, <3>3, <3>4
    <3> QED
      BY <1>2, <2>3, <3>5
  <2> QED
    BY <1>4, <2>4, <2>5 DEF RequestParking, RefuseParking
<1>5. ASSUME NEW i \in DOMAIN requests, Undone(i), vehicles' = vehicles
      PROVE  VehiclesRegisteredOnce'
  <2>1. /\ DOMAIN requests' = DOMAIN requests
        /\ \A j \in DOMAIN requests : requests'[j].vehicleId = requests[j].vehicleId
    BY <1>1, <1>5, UndoneShrinks DEF Undone, Shape
  <2> QED
    BY <1>1, <1>2, <1>5, <2>1
<1>6. (\E zone \in ZoneShapes : AddZone(zone)) \/ UNCHANGED vars => UNCHANGED << vehicles, requests >>
  BY DEF AddZone, vars
<1>7. ASSUME NEW id \in ClientIds, CancelRequest(id) \/ ReleaseSlot(id)
      PROVE  /\ vehicles' = vehicles
             /\ requests' = requests \/ \E i \in DOMAIN requests : Undone(i)
  <2>1. vehicles' = vehicles /\ UNCHANGED << capacity, assignedSlot >>
    BY <1>7 DEF CancelRequest, ReleaseSlot
  <2>2. IsRequest(id) => id \in Int /\ id + 1 \in DOMAIN requests
    BY DEF TypeOK, ClientIds, IsRequest
  <2>3. CASE CancelRequest(id)
    BY <2>1, <2>2, <2>3, UndoIsUndone DEF CancelRequest, Cancellable, TerminalState
  <2>4. CASE ReleaseSlot(id)
    BY <2>1, <2>2, <2>4, UndoIsUndone DEF ReleaseSlot, Releasable, TerminalState
  <2> QED
    BY <1>7, <2>1, <2>3, <2>4
<1> QED
  BY <1>3, <1>4, <1>5, <1>6, <1>7 DEF Next

\* Every request's vehicle is registered and none twice: a vehicle stays
\* registered when its request is refused or cancelled, and its next request
\* finds it (ParkingSystem.cpp:17-25).
THEOREM VehiclesRegistered == Spec => []VehiclesRegisteredOnce
<1>1. Init => VehiclesRegisteredOnce
  BY DEF Init, VehiclesRegisteredOnce
<1>2. Spec => []TypeOK
  BY TypeCorrect
<1> QED
  BY <1>1, <1>2, VehiclesNext, PTL DEF Spec

=============================================================================
