---------------------- MODULE SmartParkingServerProofs -----------------------
(***************************************************************************)
(* Theorems about the REST server, for any number of worker threads and    *)
(* requests, any demo data, and any interleaving of the handlers.          *)
(***************************************************************************)
EXTENDS SmartParkingServer, AllocationEngineProofs, FiniteSetTheorems

\* The instance of the parking system searches as the engine does.
LEMMA SameSlots == \A zs : PS!ParkingSlots(zs) = ParkingSlots(zs)
  BY DEF PS!ParkingSlots, ParkingSlots, PS!SlotsOfZone, SlotsOfZone,
         PS!SlotsOfArea, SlotsOfArea

LEMMA SameSearch ==
    \A zoneId, zs, free : PS!AllocateSlot(zoneId, zs, free) = AllocateSlot(zoneId, zs, free)
  BY DEF PS!AllocateSlot, AllocateSlot, PS!First, First, PS!ZonesWithSlot, ZonesWithSlot,
         PS!FindAvailableSlotInZone, FindAvailableSlotInZone,
         PS!GetFirstAvailableSlot, GetFirstAvailableSlot

\* The slot a search finds is free.
LEMMA FoundIsFree ==
    ASSUME NEW zoneId, NEW slot \in PS!AllocateSlot(zoneId, zones, isAvailable)
    PROVE  slot \in ParkingSlots(zones) /\ isAvailable[slot]
  BY SameSearch, AllocatedIsFree

-----------------------------------------------------------------------------
(* The types *)

Zone == [zoneId : ZoneIds, parkingAreas : Seq(Nat)]

StoredRequest == [id : Nat, slot : ParkingSlots(zones), alone : BOOLEAN]

Record == [ slot                 : ParkingSlots(zones),
            previousAvailability : BOOLEAN,
            request              : [id : Int, buffer : Nat],
            previousRequestState : PS!RequestState ]

\* The system is of the right types: slots are slots of its zones, each stored
\* request has an id below their number, and none was ever cancelled.
SystemOK ==
    /\ zones \in Seq(Zone)
    /\ isAvailable \in [ParkingSlots(zones) -> BOOLEAN]
    /\ requests \in Seq(Request)
    /\ \A i \in DOMAIN requests : requests[i].currentState = "ALLOCATED"
    /\ capacity \in Nat
    /\ stored \in Seq(StoredRequest) /\ Len(stored) = Len(requests)
    /\ \A i \in DOMAIN stored : stored[i].id < Len(requests)
    /\ history \in Seq(Record)
    /\ status \in {"running", "undefined"}
    /\ seeded \in 0 .. Len(DemoZones) + Len(DemoRequests)

Finding == {"find", "register", "search"}
Storing == {"take", "push", "record"}
GetCalls == {"dashboard", "zones", "zone", "requests"}

\* A worker that writes.
PostOK(x) ==
    /\ DOMAIN x = {"call", "at", "vehicleId", "zoneId", "id", "slot", "previous", "alone"}
    /\ x.at \in Finding \cup Storing \cup {"answer"}
    /\ x.vehicleId \in Vehicles /\ x.zoneId \in ZoneIds
    /\ x.id \in Int /\ x.previous \in BOOLEAN /\ x.alone \in BOOLEAN
    /\ x.at \in Finding => x.id = -1

\* A worker that reads.
GetOK(x) ==
    /\ DOMAIN x = {"call", "at", "todo", "zones", "requests", "buffer", "next",
                   "occupied", "active", "wasOccupied", "wasActive"}
    /\ x.at \in {"slots", "requests"}

WorkerOK(x) ==
    \/ x = Idle
    \/ x.call = "POST" /\ PostOK(x)
    \/ x.call \in GetCalls /\ GetOK(x)

WorkersOK ==
    /\ DOMAIN worker = Workers
    /\ \A w \in Workers : WorkerOK(worker[w])

\* What a worker remembers of the system is in it.
LinkOK(x, slots, stores) ==
    /\ x.at \in Storing => x.slot \in slots /\ x.id \in 0 .. stores
    /\ x.at \in {"record", "answer"} => x.id < stores

LinksOK == \A w \in Workers : LinkOK(worker[w], ParkingSlots(zones), Len(requests))

\* The demo data are stored before the first call.
SeededFirst == ~(seeded = Len(DemoZones) + Len(DemoRequests)) => worker = [ w \in Workers |-> Idle ]

TypeInv == SystemOK /\ WorkersOK /\ LinksOK /\ SeededFirst

-----------------------------------------------------------------------------
(* What the steps do *)

\* The system and what is stored of its calls are as they were.
Quiet == UNCHANGED << zones, isAvailable, vehicles, requests, capacity, history, reply,
                      seeded, stored >>

\* What the types are about is as it was.
Kept == UNCHANGED << zones, isAvailable, requests, capacity, history, stored, seeded >>

\* Worker w goes on with x; the others are as they were.
Becomes(w, x) == worker' = [worker EXCEPT ![w] = x]

LEMMA BecomesOne ==
    ASSUME WorkersOK, NEW w \in Workers, NEW x, Becomes(w, x)
    PROVE  /\ DOMAIN worker' = Workers /\ worker'[w] = x
           /\ \A v \in Workers \ {w} : worker'[v] = worker[v]
  BY DEF Becomes, WorkersOK

LEMMA HarmStatus ==
    ASSUME NEW possible, Harm(possible)
    PROVE  status' \in {"running", "undefined"}
  BY DEF Harm

LEMMA StepHarmStatus ==
    ASSUME NEW w, StepHarm(w)
    PROVE  status' \in {"running", "undefined"}
  BY HarmStatus DEF StepHarm

\* The calls in progress no longer run alone.
LEMMA ContendedCalls ==
    ASSUME WorkersOK
    PROVE  /\ DOMAIN Contended = Workers
           /\ \A w \in Workers :
                /\ WorkerOK(Contended[w])
                /\ worker[w].call # "POST" => Contended[w] = worker[w]
                /\ worker[w].call = "POST" =>
                     /\ ~Contended[w].alone
                     /\ Contended[w] = [worker[w] EXCEPT !.alone = FALSE]
                /\ Contended[w].call = worker[w].call /\ Contended[w].at = worker[w].at
<1> SUFFICES ASSUME NEW w \in Workers
             PROVE  /\ WorkerOK(Contended[w])
                    /\ worker[w].call # "POST" => Contended[w] = worker[w]
                    /\ worker[w].call = "POST" =>
                         /\ ~Contended[w].alone
                         /\ Contended[w] = [worker[w] EXCEPT !.alone = FALSE]
                    /\ Contended[w].call = worker[w].call /\ Contended[w].at = worker[w].at
  BY DEF Contended
<1>1. CASE worker[w].call = "POST"
  <2>1. Contended[w] = [worker[w] EXCEPT !.alone = FALSE] /\ PostOK(worker[w])
    BY <1>1 DEF Contended, Posting, WorkersOK, WorkerOK, Idle, GetCalls
  <2> QED
    BY <1>1, <2>1 DEF WorkerOK, PostOK
<1>2. CASE worker[w].call # "POST"
  <2>1. Contended[w] = worker[w]
    BY <1>2 DEF Contended, Posting
  <2> QED
    BY <1>2, <2>1 DEF WorkersOK
<1> QED
  BY <1>1, <1>2

\* A worker at a step of a kind is in a call of that kind.
LEMMA StepsOfCalls ==
    ASSUME WorkersOK, NEW w \in Workers
    PROVE  /\ worker[w].at \in Finding \cup Storing \cup {"answer"} =>
                worker[w].call = "POST" /\ PostOK(worker[w])
           /\ worker[w].at \in {"slots", "requests"} =>
                worker[w].call \in GetCalls /\ GetOK(worker[w])
           /\ worker[w].call = "POST" => PostOK(worker[w])
           /\ worker[w].call \in GetCalls => GetOK(worker[w])
  BY DEF WorkersOK, WorkerOK, PostOK, GetOK, Idle, Finding, Storing, GetCalls

\* A zone that is added makes its slots available and leaves the others alone.
ZoneAdded(zone) ==
    /\ zones' = Append(zones, zone)
    /\ isAvailable' = [ p \in PS!ParkingSlots(zones') |->
                          IF p \in DOMAIN isAvailable THEN isAvailable[p] ELSE TRUE ]
    /\ UNCHANGED << requests, capacity, history, stored >>

\* A request that seedDemo stores.
SeedStores(vehicleId, zoneId, slot) ==
    /\ isAvailable' = [isAvailable EXCEPT ![slot] = FALSE]
    /\ requests' = Append(requests, PS!ChangeState(PS!NewRequest(vehicleId, zoneId), "ALLOCATED"))
    /\ capacity' = PS!CapacityAfterPush(Len(requests), capacity)
    /\ history' = PS!RecordAllocation(history,
                    PS!AllocationRecord(slot, isAvailable[slot],
                                        PS!BackAfterPush(Len(requests), capacity), "REQUESTED"))
    /\ stored' = Append(stored, [id |-> Len(requests), slot |-> slot, alone |-> TRUE])
    /\ zones' = zones

LEMMA SeedAssigns ==
    ASSUME SystemOK, NEW s, NEW slot, NEW record, record.slot = s,
           stored' = Append(stored, record), assignedSlot' = Append(assignedSlot, slot)
    PROVE  s = slot
<1>1. stored \in Seq(StoredRequest) /\ Len(stored) \in Nat /\ DOMAIN stored = 1 .. Len(stored)
  BY DEF SystemOK
<1> DEFINE n == Len(stored) + 1
<1>2. DOMAIN stored' = 1 .. n /\ stored'[n] = record
  BY <1>1
<1>3. assignedSlot'[n] = s
  BY <1>1, <1>2 DEF assignedSlot
<1>4. assignedSlot = [i \in 1 .. Len(stored) |-> stored[i].slot]
  BY <1>1 DEF assignedSlot
<1>5. assignedSlot \in Seq({ stored[i].slot : i \in 1 .. Len(stored) })
      /\ Len(assignedSlot) = Len(stored)
  BY <1>1, <1>4
<1>6. Append(assignedSlot, slot)[n] = slot
  BY <1>1, <1>5
<1> QED
  BY <1>3, <1>6

\* Each step of seedDemo adds a zone, finds no slot or stores a request.
LEMMA SeedSteps ==
    ASSUME SystemOK, SeedDemo
    PROVE  /\ seeded' = seeded + 1 /\ seeded < Len(DemoZones) + Len(DemoRequests)
           /\ UNCHANGED << worker, before, answer, status >> /\ status = "running"
           /\ \/ \E zone \in ZoneShapes :
                   PS!AddZone(zone) /\ ZoneAdded(zone)
              \/ \E vehicleId \in Vehicles, zoneId \in ZoneIds :
                   /\ PS!RequestParking(vehicleId, zoneId)
                   /\ UNCHANGED << zones, isAvailable, requests, capacity, history, stored >>
              \/ \E vehicleId \in Vehicles, zoneId \in ZoneIds :
                   /\ PS!RequestParking(vehicleId, zoneId)
                   /\ \E slot \in PS!AllocateSlot(zoneId, zones, isAvailable) :
                        SeedStores(vehicleId, zoneId, slot)
<1>1. /\ seeded' = seeded + 1 /\ seeded < Len(DemoZones) + Len(DemoRequests)
      /\ UNCHANGED << worker, before, answer >>
  BY DEF SeedDemo
<1>2. seeded \in Nat /\ Len(DemoZones) \in Nat /\ Len(DemoRequests) \in Nat
  BY DemoAssumption DEF SystemOK
<1>3. CASE seeded < Len(DemoZones)
  <2>1. UNCHANGED stored /\ PS!AddZone(DemoZones[seeded + 1])
    BY <1>3 DEF SeedDemo
  <2>2. DemoZones[seeded + 1] \in ZoneShapes
    BY <1>2, <1>3, DemoAssumption
  <2> QED
    BY <1>1, <2>1, <2>2 DEF PS!AddZone, ZoneAdded
<1>4. CASE ~(seeded < Len(DemoZones))
  <2> DEFINE r     == DemoRequests[seeded + 1 - Len(DemoZones)]
             slots == PS!AllocateSlot(r[2], zones, isAvailable)
  <2>1. /\ PS!RequestParking(r[1], r[2])
        /\ slots = {} => stored' = stored
        /\ slots # {} => \E s \in slots :
             stored' = Append(stored, [id |-> Len(requests), slot |-> s, alone |-> TRUE])
    BY <1>4 DEF SeedDemo
  <2>2. r \in Vehicles \X ZoneIds
    <3>1. seeded + 1 - Len(DemoZones) \in 1 .. Len(DemoRequests)
      BY <1>1, <1>2, <1>4
    <3> QED
      BY <3>1, DemoAssumption
  <2>3. r[1] \in Vehicles /\ r[2] \in ZoneIds
    BY <2>2
  <2> HIDE DEF r
  <2>4. status' = status /\ status = "running"
    BY <2>1 DEF PS!RequestParking, PS!RefuseParking, PS!GrantParking
  <2>5. CASE slots = {}
    <3>1. PS!RefuseParking(r[1], r[2])
      BY <2>1, <2>5 DEF PS!RequestParking, PS!GrantParking
    <3> QED
      BY <1>1, <2>1, <2>3, <2>4, <2>5, <3>1 DEF PS!RefuseParking
  <2>6. CASE slots # {}
    <3>1. zones # << >>
      <4>1. PICK slot \in slots : TRUE
        BY <2>6
      <4>2. slot \in ParkingSlots(zones)
        BY <4>1, FoundIsFree
      <4> QED
        BY <4>2, SlotPlace
    <3>2. PS!GrantParking(r[1], r[2])
      BY <2>1, <2>6, <3>1 DEF PS!RequestParking, PS!RefuseParking
    <3>3. PICK s \in slots :
            stored' = Append(stored, [id |-> Len(requests), slot |-> s, alone |-> TRUE])
      BY <2>1, <2>6
    <3>4. PICK slot \in slots :
            /\ isAvailable' = [isAvailable EXCEPT ![slot] = FALSE]
            /\ requests' = Append(requests, PS!ChangeState(PS!NewRequest(r[1], r[2]), "ALLOCATED"))
            /\ capacity' = PS!CapacityAfterPush(Len(requests), capacity)
            /\ history' = PS!RecordAllocation(history,
                            PS!AllocationRecord(slot, isAvailable[slot],
                                 PS!BackAfterPush(Len(requests), capacity),
                                 PS!NewRequest(r[1], r[2]).currentState))
            /\ assignedSlot' = Append(assignedSlot, slot)
      BY <3>2 DEF PS!GrantParking
    <3>5. s = slot
      BY <3>3, <3>4, SeedAssigns
    <3>6. SeedStores(r[1], r[2], slot)
      BY <3>2, <3>3, <3>4, <3>5 DEF SeedStores, PS!NewRequest, PS!GrantParking
    <3> QED
      BY <1>1, <2>1, <2>3, <2>4, <3>4, <3>6
  <2> QED
    BY <2>5, <2>6
<1> QED
  BY <1>3, <1>4

-----------------------------------------------------------------------------
(* The types are invariant *)

LEMMA TypesGrow ==
    ASSUME ParkingSlots(zones) \subseteq ParkingSlots(zones')
    PROVE  StoredRequest \subseteq StoredRequest' /\ Record \subseteq Record'
  BY DEF StoredRequest, Record

\* What is pushed, by a thread or by seedDemo.
LEMMA PushedRequest ==
    ASSUME NEW vehicleId \in Vehicles, NEW zoneId \in ZoneIds
    PROVE  LET request == PS!ChangeState(PS!NewRequest(vehicleId, zoneId), "ALLOCATED")
           IN  request \in Request /\ request.currentState = "ALLOCATED"
  BY DEF PS!ChangeState, PS!NewRequest, PS!CanChange, PS!ValidTransition,
         PS!SetCurrentState, Request, PS!RequestState

LEMMA ZoneAddedOK ==
    ASSUME SystemOK, NEW zone \in ZoneShapes, ZoneAdded(zone),
           status' \in {"running", "undefined"},
           seeded' \in 0 .. Len(DemoZones) + Len(DemoRequests)
    PROVE  SystemOK' /\ ParkingSlots(zones) \subseteq ParkingSlots(zones')
<1>1. zone \in Zone /\ zones \in Seq(Zone) /\ zones' = Append(zones, zone)
  BY SystemAssumption DEF Zone, ZoneAdded, SystemOK
<1>2. ParkingSlots(zones) \subseteq ParkingSlots(zones')
  BY <1>1, SlotsGrow
<1>3. isAvailable' \in [ParkingSlots(zones') -> BOOLEAN]
  BY SameSlots DEF ZoneAdded, SystemOK
<1>4. stored' \in Seq(StoredRequest') /\ history' \in Seq(Record')
  BY <1>2, TypesGrow DEF ZoneAdded, SystemOK
<1>5. zones' \in Seq(Zone)
  BY <1>1
<1>6. UNCHANGED << requests, capacity, stored >>
  BY DEF ZoneAdded
<1> QED
  BY <1>2, <1>3, <1>4, <1>5, <1>6 DEF SystemOK

\* What is known of each stored request.
LEMMA StoredFields ==
    ASSUME SystemOK, NEW i \in DOMAIN stored
    PROVE  /\ stored[i] \in StoredRequest
           /\ stored[i].id \in Nat /\ stored[i].id < Len(requests)
           /\ stored[i].slot \in ParkingSlots(zones) /\ stored[i].alone \in BOOLEAN
<1>1. stored[i] \in StoredRequest
  BY SeqElement DEF SystemOK
<1> QED
  BY <1>1 DEF SystemOK, StoredRequest

LEMMA StoredOK ==
    ASSUME SystemOK, NEW vehicleId \in Vehicles, NEW zoneId \in ZoneIds,
           NEW record \in StoredRequest, record.id <= Len(requests),
           requests' = Append(requests,
                         PS!ChangeState(PS!NewRequest(vehicleId, zoneId), "ALLOCATED")),
           stored' = Append(stored, record), zones' = zones
    PROVE  /\ requests' \in Seq(Request) /\ Len(requests') = Len(requests) + 1
           /\ \A i \in DOMAIN requests' : requests'[i].currentState = "ALLOCATED"
           /\ stored' \in Seq(StoredRequest') /\ Len(stored') = Len(requests')
           /\ \A i \in DOMAIN stored' : stored'[i].id < Len(requests')
           /\ stored'[Len(stored')] = record
           /\ \A i \in DOMAIN stored : stored'[i] = stored[i]
           /\ DOMAIN stored' = DOMAIN stored \cup {Len(stored')}
<1> DEFINE request == PS!ChangeState(PS!NewRequest(vehicleId, zoneId), "ALLOCATED")
<1>1. request \in Request /\ request.currentState = "ALLOCATED"
  BY PushedRequest
<1> HIDE DEF request
<1>2. /\ requests \in Seq(Request) /\ stored \in Seq(StoredRequest)
      /\ Len(stored) = Len(requests) /\ Len(requests) \in Nat
      /\ \A i \in DOMAIN requests : requests[i].currentState = "ALLOCATED"
      /\ \A i \in DOMAIN stored : stored[i].id < Len(requests) /\ stored[i].id \in Nat
  BY StoredFields DEF SystemOK
<1>3. /\ requests' = Append(requests, request) /\ StoredRequest' = StoredRequest
      /\ record.id \in Nat
  BY DEF request, StoredRequest
<1>4. /\ requests' \in Seq(Request) /\ Len(requests') = Len(requests) + 1
      /\ \A i \in DOMAIN requests' : requests'[i].currentState = "ALLOCATED"
  BY <1>1, <1>2, <1>3
<1>5. /\ stored' \in Seq(StoredRequest') /\ Len(stored') = Len(requests')
      /\ stored'[Len(stored')] = record
      /\ \A i \in DOMAIN stored : stored'[i] = stored[i]
      /\ DOMAIN stored' = DOMAIN stored \cup {Len(stored')}
  BY <1>2, <1>3, <1>4
<1>6. \A i \in DOMAIN stored' : stored'[i].id < Len(requests')
  BY <1>2, <1>3, <1>4, <1>5
<1> QED
  BY <1>4, <1>5, <1>6

LEMMA SeedStoresOK ==
    ASSUME SystemOK, NEW vehicleId \in Vehicles, NEW zoneId \in ZoneIds,
           NEW slot \in PS!AllocateSlot(zoneId, zones, isAvailable),
           SeedStores(vehicleId, zoneId, slot), status' = status,
           seeded' \in 0 .. Len(DemoZones) + Len(DemoRequests)
    PROVE  SystemOK'
<1> DEFINE record == [id |-> Len(requests), slot |-> slot, alone |-> TRUE]
<1>1. slot \in ParkingSlots(zones) /\ isAvailable[slot] \in BOOLEAN
  BY FoundIsFree DEF SystemOK
<1>2. record \in StoredRequest /\ record.id <= Len(requests)
  BY <1>1 DEF StoredRequest, SystemOK
<1> HIDE DEF record
<1>3. /\ requests' \in Seq(Request) /\ Len(requests') = Len(requests) + 1
      /\ \A i \in DOMAIN requests' : requests'[i].currentState = "ALLOCATED"
      /\ stored' \in Seq(StoredRequest') /\ Len(stored') = Len(requests')
      /\ \A i \in DOMAIN stored' : stored'[i].id < Len(requests')
  BY <1>2, StoredOK DEF SeedStores, record
<1>4. capacity' \in Nat
  BY DEF SeedStores, PS!CapacityAfterPush, SystemOK
<1>5. history' \in Seq(Record')
  <2>1. history \in Seq(Record') /\ Record' = Record
    BY DEF SystemOK, Record, SeedStores
  <2>2. PS!CapacityAfterPush(Len(requests), capacity) \in Nat
    BY DEF PS!CapacityAfterPush, SystemOK
  <2>3. PS!BackAfterPush(Len(requests), capacity) \in [id : Int, buffer : Nat]
    BY <2>2 DEF PS!BackAfterPush, PS!RequestPointer, SystemOK
  <2>4. PS!AllocationRecord(slot, isAvailable[slot],
               PS!BackAfterPush(Len(requests), capacity), "REQUESTED") \in Record
    BY <1>1, <2>3 DEF PS!AllocationRecord, Record, PS!RequestState
  <2> QED
    BY <2>1, <2>4 DEF SeedStores, PS!RecordAllocation
<1>6. isAvailable' \in [ParkingSlots(zones') -> BOOLEAN]
  BY <1>1 DEF SeedStores, SystemOK
<1> QED
  BY <1>3, <1>4, <1>5, <1>6 DEF SystemOK, SeedStores

LEMMA SeedTypes ==
    ASSUME TypeInv, SeedDemo
    PROVE  TypeInv'
<1>1. /\ seeded' = seeded + 1 /\ seeded < Len(DemoZones) + Len(DemoRequests)
      /\ worker' = worker /\ status' = status
  BY SeedSteps DEF TypeInv
<1>2. seeded' \in 0 .. Len(DemoZones) + Len(DemoRequests)
  BY <1>1, DemoAssumption DEF TypeInv, SystemOK
<1>3. SystemOK'
  <2>1. CASE \E zone \in ZoneShapes : ZoneAdded(zone)
    BY <1>1, <1>2, <2>1, ZoneAddedOK DEF TypeInv, SystemOK
  <2>2. CASE UNCHANGED << zones, isAvailable, requests, capacity, history, stored >>
    BY <1>1, <1>2, <2>2 DEF TypeInv, SystemOK, StoredRequest, Record
  <2>3. CASE \E vehicleId \in Vehicles, zoneId \in ZoneIds :
               \E slot \in PS!AllocateSlot(zoneId, zones, isAvailable) :
                 SeedStores(vehicleId, zoneId, slot)
    BY <1>1, <1>2, <2>3, SeedStoresOK DEF TypeInv
  <2> QED
    BY <2>1, <2>2, <2>3, SeedSteps DEF TypeInv
<1>4. worker = [w \in Workers |-> Idle]
  BY <1>1, DemoAssumption DEF TypeInv, SeededFirst, SystemOK
<1> QED
  BY <1>1, <1>3, <1>4 DEF TypeInv, WorkersOK, WorkerOK, LinksOK, LinkOK, SeededFirst, Idle, Storing

-----------------------------------------------------------------------------

\* A step of one worker: what it says of itself must be right.
LEMMA OneWorkerOK ==
    ASSUME TypeInv, NEW w \in Workers, NEW x, Becomes(w, x), WorkerOK(x),
           LinkOK(x, ParkingSlots(zones'), Len(requests')),
           ParkingSlots(zones) \subseteq ParkingSlots(zones'),
           Len(requests') \in Nat, Len(requests) <= Len(requests')
    PROVE  WorkersOK' /\ LinksOK'
<1>1. DOMAIN worker' = Workers /\ worker'[w] = x /\ \A v \in Workers \ {w} : worker'[v] = worker[v]
  BY BecomesOne DEF TypeInv
<1>2. \A v \in Workers : WorkerOK(worker[v])
  BY DEF TypeInv, WorkersOK
<1>3. ASSUME NEW v \in Workers \ {w}
      PROVE  LinkOK(worker[v], ParkingSlots(zones'), Len(requests'))
  <2>1. LinkOK(worker[v], ParkingSlots(zones), Len(requests))
    BY DEF TypeInv, LinksOK
  <2>2. worker[v].at \in {"record", "answer"} => worker[v].id \in Int
    BY StepsOfCalls DEF TypeInv, Storing, PostOK
  <2>3. Len(requests) \in Nat
    BY DEF TypeInv, SystemOK
  <2> QED
    BY <2>1, <2>2, <2>3 DEF LinkOK
<1>4. \A v \in Workers : WorkerOK(worker'[v])
  BY <1>1, <1>2
<1>5. \A v \in Workers : LinkOK(worker'[v], ParkingSlots(zones'), Len(requests'))
  BY <1>1, <1>3
<1> QED
  BY <1>1, <1>4, <1>5 DEF WorkersOK, LinksOK

\* Once a worker is at work, the demo data are complete.
LEMMA SeededWhenBusy ==
    ASSUME TypeInv, NEW w \in Workers, worker[w] # Idle
    PROVE  seeded = Len(DemoZones) + Len(DemoRequests)
  BY DEF TypeInv, SeededFirst

LEMMA StillSeeded ==
    ASSUME seeded = Len(DemoZones) + Len(DemoRequests), seeded' = seeded
    PROVE  SeededFirst'
  BY DEF SeededFirst

\* A step that leaves the system alone.
LEMMA KeptOK ==
    ASSUME TypeInv, Kept, status' \in {"running", "undefined"},
           seeded = Len(DemoZones) + Len(DemoRequests),
           NEW w \in Workers, NEW x, Becomes(w, x), WorkerOK(x),
           LinkOK(x, ParkingSlots(zones), Len(requests))
    PROVE  TypeInv'
<1>1. SystemOK'
  BY DEF TypeInv, SystemOK, Kept, StoredRequest, Record
<1>2. /\ ParkingSlots(zones) \subseteq ParkingSlots(zones')
      /\ Len(requests') \in Nat /\ Len(requests) <= Len(requests')
  BY DEF Kept, TypeInv, SystemOK
<1>3. WorkersOK' /\ LinksOK'
  BY <1>2, OneWorkerOK DEF Kept
<1>4. SeededFirst'
  BY StillSeeded DEF Kept
<1> QED
  BY <1>1, <1>3, <1>4 DEF TypeInv

\* The steps of the GETs.
Reading(w) ==
    \/ \E call \in Gets, zoneId \in ZoneIds : BeginGet(w, call, zoneId)
    \/ VisitSlot(w) \/ SlotsDone(w) \/ VisitRequest(w) \/ RequestsDone(w)

\* A GET changes nothing but its worker.
LEMMA GetSteps ==
    ASSUME TypeInv, status = "running", NEW w \in Workers, Reading(w)
    PROVE  /\ Quiet /\ before' = before /\ answer' = NoAnswer
           /\ status' \in {"running", "undefined"}
           /\ seeded = Len(DemoZones) + Len(DemoRequests)
           /\ Becomes(w, worker'[w])
           /\ worker[w].call # "POST"
           /\ worker'[w] = Idle \/ (worker'[w].call \in GetCalls /\ GetOK(worker'[w]))
<1> USE DEF TypeInv
<1>1. ASSUME NEW call \in Gets, NEW zoneId \in ZoneIds, BeginGet(w, call, zoneId)
      PROVE  /\ worker[w] = Idle /\ Becomes(w, worker'[w])
             /\ worker'[w].call \in GetCalls /\ GetOK(worker'[w])
  <2>1. worker[w] = Idle /\ DOMAIN worker = Workers
    BY <1>1 DEF BeginGet, WorkersOK
  <2> QED
    BY <1>1, <2>1, DemoAssumption DEF BeginGet, Becomes, GetCalls, GetOK
<1>2. ASSUME VisitSlot(w)
      PROVE  /\ worker[w].call \in GetCalls /\ Becomes(w, worker'[w])
             /\ worker'[w].call \in GetCalls /\ GetOK(worker'[w])
  <2>1. worker[w].call \in GetCalls /\ GetOK(worker[w]) /\ DOMAIN worker = Workers
    BY <1>2, StepsOfCalls DEF VisitSlot, WorkersOK
  <2> DEFINE p == NextPlace(worker[w].todo)
             y == [[worker[w] EXCEPT !.todo = Advance(@, p)] EXCEPT
                      !.occupied = @ + IF Counts(p) THEN 1 ELSE 0]
  <2>2. Becomes(w, y)
    BY <1>2, <2>1 DEF VisitSlot, Becomes
  <2>3. y.call \in GetCalls /\ GetOK(y)
    BY <2>1 DEF GetOK
  <2> HIDE DEF y
  <2> QED
    BY <2>1, <2>2, <2>3 DEF Becomes
<1>3. ASSUME SlotsDone(w)
      PROVE  /\ worker[w].call \in GetCalls /\ Becomes(w, worker'[w])
             /\ worker'[w] = Idle \/ (worker'[w].call \in GetCalls /\ GetOK(worker'[w]))
  <2>1. worker[w].call \in GetCalls /\ GetOK(worker[w]) /\ DOMAIN worker = Workers
    BY <1>3, StepsOfCalls DEF SlotsDone, WorkersOK
  <2> QED
    BY <1>3, <2>1 DEF SlotsDone, Becomes, GetOK
<1>4. ASSUME VisitRequest(w)
      PROVE  /\ worker[w].call \in GetCalls /\ Becomes(w, worker'[w])
             /\ worker'[w].call \in GetCalls /\ GetOK(worker'[w])
  <2>1. worker[w].call \in GetCalls /\ GetOK(worker[w]) /\ DOMAIN worker = Workers
    BY <1>4, StepsOfCalls DEF VisitRequest, WorkersOK
  <2> DEFINE y == [[worker[w] EXCEPT !.next = @ + 1] EXCEPT
                      !.active = @ + IF worker[w].next \in Active THEN 1 ELSE 0]
  <2>2. Becomes(w, y)
    BY <1>4, <2>1 DEF VisitRequest, Becomes
  <2>3. y.call \in GetCalls /\ GetOK(y)
    BY <2>1 DEF GetOK
  <2> HIDE DEF y
  <2> QED
    BY <2>1, <2>2, <2>3 DEF Becomes
<1>5. ASSUME RequestsDone(w)
      PROVE  worker[w].call \in GetCalls /\ Becomes(w, worker'[w]) /\ worker'[w] = Idle
  <2>1. worker[w].call \in GetCalls /\ DOMAIN worker = Workers
    BY <1>5, StepsOfCalls DEF RequestsDone, WorkersOK
  <2> QED
    BY <1>5, <2>1 DEF RequestsDone, Becomes
<1>6. Quiet /\ before' = before /\ answer' = NoAnswer
  BY DEF Reading, BeginGet, VisitSlot, SlotsDone, VisitRequest, RequestsDone, Quiet
<1>7. status' \in {"running", "undefined"}
  BY HarmStatus DEF Reading, BeginGet, VisitSlot, SlotsDone, VisitRequest, RequestsDone
<1>8. worker[w] # Idle => seeded = Len(DemoZones) + Len(DemoRequests)
  BY SeededWhenBusy
<1>9. (\E call \in Gets, zoneId \in ZoneIds : BeginGet(w, call, zoneId)) =>
         seeded = Len(DemoZones) + Len(DemoRequests)
  BY DEF BeginGet, Serving
<1> QED
  BY <1>1, <1>2, <1>3, <1>4, <1>5, <1>6, <1>7, <1>8, <1>9 DEF Reading, Idle, GetCalls

LEMMA GetTypes ==
    ASSUME TypeInv, status = "running", NEW w \in Workers, Reading(w)
    PROVE  TypeInv'
<1>1. WorkerOK(worker'[w])
  BY GetSteps DEF WorkerOK
<1>2. LinkOK(worker'[w], ParkingSlots(zones), Len(requests))
  BY GetSteps DEF LinkOK, GetOK, Idle, Storing
<1>3. Kept
  BY GetSteps DEF Quiet, Kept
<1> QED
  BY <1>1, <1>2, <1>3, GetSteps, KeptOK

-----------------------------------------------------------------------------

\* A worker that goes on at another step.
At(x, at) == [x EXCEPT !.at = at]

\* The steps of a POST: what they change beside the worker, and the locals.
LEMMA FindStep ==
    ASSUME NEW w, FindVehicle(w), seeded' = seeded
    PROVE  /\ worker[w].at = "find" /\ Kept /\ UNCHANGED << vehicles, reply >>
           /\ Becomes(w, At(worker[w], IF Found(worker[w].vehicleId) THEN "search" ELSE "register"))
  BY DEF FindVehicle, Goto, At, Becomes, Kept

LEMMA RegisterStep ==
    ASSUME NEW w, RegisterVehicle(w), seeded' = seeded
    PROVE  /\ worker[w].at = "register" /\ Kept /\ reply' = reply
           /\ Becomes(w, At(worker[w], "search"))
  BY DEF RegisterVehicle, Goto, At, Becomes, Kept

\* The locals of a worker that found a slot.
WithSlot(x, id, slot) == [[x EXCEPT !.id = id, !.slot = slot] EXCEPT !.at = "take"]

LEMMA SearchStep ==
    ASSUME NEW w, SearchSlot(w), seeded' = seeded
    PROVE  /\ worker[w].at = "search" /\ Kept /\ vehicles' = vehicles
           /\ \/ /\ PS!AllocateSlot(worker[w].zoneId, zones, isAvailable) = {}
                 /\ Becomes(w, At(worker[w], "answer"))
                 /\ reply' = PS!Reply("requestParking", -1, FALSE)
              \/ \E slot \in PS!AllocateSlot(worker[w].zoneId, zones, isAvailable) :
                   Becomes(w, WithSlot(worker[w], Len(requests), slot)) /\ reply' = reply
  BY DEF SearchSlot, Goto, At, Becomes, Kept, NewId, WithSlot

LEMMA FoundSlot ==
    ASSUME NEW x, PostOK(x), NEW id \in Int, NEW slot, NEW y, y = WithSlot(x, id, slot)
    PROVE  /\ y.at = "take" /\ y.id = id /\ y.slot = slot /\ y.call = x.call
           /\ y.vehicleId = x.vehicleId /\ y.zoneId = x.zoneId /\ y.alone = x.alone
           /\ PostOK(y)
  BY DEF WithSlot, PostOK, Finding, Storing

\* The locals of a worker that took its slot.
WithTaken(x, previous) == [[x EXCEPT !.previous = previous] EXCEPT !.at = "push"]

LEMMA TakeStep ==
    ASSUME NEW w, TakeSlot(w)
    PROVE  /\ worker[w].at = "take"
           /\ isAvailable' = [isAvailable EXCEPT ![worker[w].slot] = FALSE]
           /\ UNCHANGED << zones, vehicles, requests, capacity, history, reply, stored >>
           /\ Becomes(w, WithTaken(worker[w], isAvailable[worker[w].slot]))
  BY DEF TakeSlot, SetTaken, PrevAvailability, Goto, Becomes, WithTaken

LEMMA TakenSlot ==
    ASSUME NEW x, PostOK(x), NEW previous \in BOOLEAN
    PROVE  LET y == WithTaken(x, previous)
           IN  /\ y.at = "push" /\ y.previous = previous
               /\ y.id = x.id /\ y.slot = x.slot /\ y.call = x.call
               /\ y.vehicleId = x.vehicleId /\ y.zoneId = x.zoneId /\ y.alone = x.alone
               /\ PostOK(y)
  BY DEF WithTaken, PostOK, Finding, Storing

LEMMA NextStep ==
    ASSUME NEW x, PostOK(x), NEW at \in Finding \cup Storing \cup {"answer"},
           at \in Finding => x.at \in Finding
    PROVE  LET y == At(x, at)
           IN  /\ y.at = at /\ y.previous = x.previous
               /\ y.id = x.id /\ y.slot = x.slot /\ y.call = x.call
               /\ y.vehicleId = x.vehicleId /\ y.zoneId = x.zoneId /\ y.alone = x.alone
               /\ PostOK(y)
  BY DEF At, PostOK

LEMMA PushStep ==
    ASSUME NEW w, PushRequest(w)
    PROVE  /\ worker[w].at = "push"
           /\ UNCHANGED << zones, isAvailable, vehicles, history, reply >>
           /\ requests' = Append(requests, PS!ChangeState(
                             PS!NewRequest(worker[w].vehicleId, worker[w].zoneId), "ALLOCATED"))
           /\ stored' = Append(stored, [ id |-> worker[w].id, slot |-> worker[w].slot,
                                         alone |-> worker[w].alone ])
           /\ capacity' = PS!CapacityAfterPush(Len(requests), capacity)
           /\ Becomes(w, At(worker[w], "record"))
  BY DEF PushRequest, Goto, At, Becomes

LEMMA RecordStep ==
    ASSUME NEW w, RecordAllocation(w)
    PROVE  /\ worker[w].at = "record"
           /\ UNCHANGED << zones, isAvailable, vehicles, requests, capacity, stored >>
           /\ history' = Append(history,
                            PS!AllocationRecord(worker[w].slot, worker[w].previous,
                               PS!RequestPointer(Len(requests) - 1, capacity), "REQUESTED"))
           /\ reply' = PS!Reply("requestParking", worker[w].id, TRUE)
           /\ Becomes(w, At(worker[w], "answer"))
  BY DEF RecordAllocation, PS!RecordAllocation, Goto, At, Becomes

LEMMA AnswerStep ==
    ASSUME NEW w, AnswerRequest(w)
    PROVE  /\ worker[w].at = "answer" /\ Quiet /\ before' = before /\ Becomes(w, Idle)
           /\ answer' = [ granted |-> worker[w].id # -1, own |-> worker[w].id,
                          id |-> BackId, alone |-> worker[w].alone ]
  BY DEF AnswerRequest, Becomes, Quiet

\* A step of requestParking is one of a POST, which may end in an answer.
LEMMA PostCalls ==
    ASSUME WorkersOK, NEW w \in Workers, RequestParkingStep(w) \/ AnswerRequest(w)
    PROVE  /\ PostOK(worker[w]) /\ worker[w].call = "POST" /\ worker[w] # Idle
           /\ seeded' = seeded /\ status' \in {"running", "undefined"}
           /\ RequestParkingStep(w) => answer' = NoAnswer
<1>1. seeded' = seeded /\ status' \in {"running", "undefined"}
  BY StepHarmStatus DEF RequestParkingStep, AnswerRequest
<1>2. worker[w].at \in Finding \cup Storing \cup {"answer"}
  BY DEF RequestParkingStep, FindVehicle, RegisterVehicle, SearchSlot, TakeSlot,
         PushRequest, RecordAllocation, AnswerRequest, Finding, Storing
<1>3. PostOK(worker[w]) /\ worker[w].call = "POST"
  BY <1>2, StepsOfCalls
<1>4. worker[w] # Idle
  BY <1>3 DEF Idle
<1>5. RequestParkingStep(w) => answer' = NoAnswer
  BY DEF RequestParkingStep
<1> QED
  BY <1>1, <1>3, <1>4, <1>5

LEMMA PushTypes ==
    ASSUME TypeInv, NEW w \in Workers, PushRequest(w), UNCHANGED seeded
    PROVE  /\ requests' \in Seq(Request) /\ Len(requests') = Len(requests) + 1
           /\ \A i \in DOMAIN requests' : requests'[i].currentState = "ALLOCATED"
           /\ stored' \in Seq(StoredRequest') /\ Len(stored') = Len(requests')
           /\ \A i \in DOMAIN stored' : stored'[i].id < Len(requests')
           /\ stored'[Len(stored')] = [ id |-> worker[w].id, slot |-> worker[w].slot,
                                        alone |-> worker[w].alone ]
           /\ \A i \in DOMAIN stored : stored'[i] = stored[i]
           /\ DOMAIN stored' = DOMAIN stored \cup {Len(stored')}
           /\ capacity' \in Nat
<1> DEFINE record == [ id |-> worker[w].id, slot |-> worker[w].slot, alone |-> worker[w].alone ]
<1>1. /\ worker[w].at = "push" /\ zones' = zones
      /\ requests' = Append(requests, PS!ChangeState(
                        PS!NewRequest(worker[w].vehicleId, worker[w].zoneId), "ALLOCATED"))
      /\ stored' = Append(stored, record)
      /\ capacity' = PS!CapacityAfterPush(Len(requests), capacity)
  BY DEF PushRequest
<1>2. PostOK(worker[w])
  BY <1>1, StepsOfCalls DEF TypeInv, Storing
<1>3. /\ worker[w].slot \in ParkingSlots(zones) /\ worker[w].id \in Nat
      /\ worker[w].id <= Len(requests)
  BY <1>1 DEF TypeInv, LinksOK, LinkOK, Storing, SystemOK
<1>4. record \in StoredRequest /\ record.id <= Len(requests)
  BY <1>2, <1>3 DEF StoredRequest, PostOK
<1>5. worker[w].vehicleId \in Vehicles /\ worker[w].zoneId \in ZoneIds
  BY <1>2 DEF PostOK
<1>6. capacity' \in Nat
  BY <1>1 DEF PS!CapacityAfterPush, TypeInv, SystemOK
<1> HIDE DEF record
<1>7. record = [ id |-> worker[w].id, slot |-> worker[w].slot, alone |-> worker[w].alone ]
  BY DEF record
<1> QED
  BY <1>1, <1>4, <1>5, <1>6, <1>7, StoredOK DEF TypeInv

LEMMA PostTypes ==
    ASSUME TypeInv, NEW w \in Workers, RequestParkingStep(w) \/ AnswerRequest(w)
    PROVE  TypeInv'
<1>0. /\ PostOK(worker[w]) /\ worker[w].call = "POST"
      /\ seeded' = seeded /\ status' \in {"running", "undefined"}
      /\ seeded = Len(DemoZones) + Len(DemoRequests)
  BY PostCalls, SeededWhenBusy DEF TypeInv
<1>1. /\ LinkOK(worker[w], ParkingSlots(zones), Len(requests)) /\ Len(requests) \in Nat
      /\ isAvailable \in [ParkingSlots(zones) -> BOOLEAN]
  BY DEF TypeInv, LinksOK, SystemOK
<1>2. ASSUME NEW x, Becomes(w, x), Kept, PostOK(x), x.call = "POST",
             LinkOK(x, ParkingSlots(zones), Len(requests))
      PROVE  TypeInv'
  BY <1>0, <1>2, KeptOK DEF WorkerOK
<1>3. CASE FindVehicle(w)
  <2>1. PICK at \in {"search", "register"} : Becomes(w, At(worker[w], at))
    BY <1>0, <1>3, FindStep
  <2> DEFINE x == At(worker[w], at)
  <2>2. worker[w].at = "find" /\ Kept
    BY <1>0, <1>3, FindStep
  <2>3. x.at = at /\ PostOK(x) /\ x.call = "POST"
    BY <1>0, <2>2, NextStep DEF Finding
  <2> HIDE DEF x
  <2>4. LinkOK(x, ParkingSlots(zones), Len(requests))
    BY <2>3 DEF LinkOK, Storing
  <2> QED
    BY <1>2, <2>1, <2>2, <2>3, <2>4 DEF x
<1>4. CASE RegisterVehicle(w)
  <2> DEFINE x == At(worker[w], "search")
  <2>1. Becomes(w, x) /\ Kept /\ worker[w].at = "register"
    BY <1>0, <1>4, RegisterStep
  <2>2. x.at = "search" /\ PostOK(x) /\ x.call = "POST"
    BY <1>0, <2>1, NextStep DEF Finding
  <2> HIDE DEF x
  <2>3. LinkOK(x, ParkingSlots(zones), Len(requests))
    BY <2>2 DEF LinkOK, Storing
  <2> QED
    BY <1>2, <2>1, <2>2, <2>3
<1>5. CASE SearchSlot(w)
  <2>1. Kept /\ worker[w].at = "search"
    BY <1>0, <1>5, SearchStep
  <2>2. CASE Becomes(w, At(worker[w], "answer"))
    <3> DEFINE x == At(worker[w], "answer")
    <3>1. x.at = "answer" /\ PostOK(x) /\ x.call = "POST" /\ x.id = -1
      <4>1. worker[w].id = -1
        BY <1>0, <2>1 DEF Finding, PostOK
      <4> QED
        BY <1>0, <4>1, NextStep DEF Finding
    <3> HIDE DEF x
    <3>2. LinkOK(x, ParkingSlots(zones), Len(requests))
      BY <1>1, <3>1 DEF LinkOK, Storing
    <3> QED
      BY <1>2, <2>1, <2>2, <3>1, <3>2 DEF x
  <2>3. ASSUME NEW slot \in PS!AllocateSlot(worker[w].zoneId, zones, isAvailable),
               Becomes(w, WithSlot(worker[w], Len(requests), slot))
        PROVE  TypeInv'
    <3> DEFINE x == WithSlot(worker[w], Len(requests), slot)
    <3>1. /\ x.at = "take" /\ x.id = Len(requests) /\ x.slot = slot
          /\ PostOK(x) /\ x.call = "POST"
      BY <1>0, <1>1, FoundSlot
    <3> HIDE DEF x
    <3>2. LinkOK(x, ParkingSlots(zones), Len(requests))
      BY <1>1, <3>1, FoundIsFree DEF LinkOK, Storing
    <3> QED
      BY <1>2, <2>1, <2>3, <3>1, <3>2 DEF x
  <2> QED
    BY <1>0, <1>5, <2>2, <2>3, SearchStep
<1>6. CASE TakeSlot(w)
  <2> DEFINE x == WithTaken(worker[w], isAvailable[worker[w].slot])
  <2>1. /\ Becomes(w, x) /\ worker[w].at = "take"
        /\ isAvailable' = [isAvailable EXCEPT ![worker[w].slot] = FALSE]
        /\ UNCHANGED << zones, requests, capacity, history, stored >>
    BY <1>6, TakeStep
  <2>2. worker[w].slot \in ParkingSlots(zones) /\ worker[w].id \in 0 .. Len(requests)
    BY <1>1, <2>1 DEF LinkOK, Storing
  <2>3. /\ x.at = "push" /\ x.id = worker[w].id /\ x.slot = worker[w].slot
        /\ PostOK(x) /\ x.call = "POST"
    BY <1>0, <1>1, <2>2, TakenSlot
  <2> HIDE DEF x
  <2>4. WorkerOK(x) /\ LinkOK(x, ParkingSlots(zones), Len(requests))
    BY <2>2, <2>3 DEF WorkerOK, LinkOK, Storing
  <2>5. WorkersOK' /\ LinksOK'
    BY <1>1, <2>1, <2>4, OneWorkerOK
  <2>6. SystemOK'
    BY <1>0, <2>1, <2>2 DEF TypeInv, SystemOK, StoredRequest, Record
  <2> QED
    BY <1>0, <2>5, <2>6, StillSeeded DEF TypeInv
<1>7. CASE PushRequest(w)
  <2> DEFINE x == At(worker[w], "record")
  <2>1. /\ Becomes(w, x) /\ worker[w].at = "push"
        /\ UNCHANGED << zones, isAvailable, history >>
    BY <1>7, PushStep
  <2>2. /\ requests' \in Seq(Request) /\ Len(requests') = Len(requests) + 1
        /\ \A i \in DOMAIN requests' : requests'[i].currentState = "ALLOCATED"
        /\ stored' \in Seq(StoredRequest') /\ Len(stored') = Len(requests')
        /\ \A i \in DOMAIN stored' : stored'[i].id < Len(requests')
        /\ capacity' \in Nat
    BY <1>0, <1>7, PushTypes
  <2>3. /\ x.at = "record" /\ x.id = worker[w].id /\ x.slot = worker[w].slot
        /\ PostOK(x) /\ x.call = "POST"
    BY <1>0, NextStep DEF Finding, Storing
  <2> HIDE DEF x
  <2>4. WorkerOK(x) /\ LinkOK(x, ParkingSlots(zones'), Len(requests'))
    BY <1>1, <2>1, <2>2, <2>3 DEF WorkerOK, LinkOK, Storing
  <2>5. WorkersOK' /\ LinksOK'
    BY <1>1, <2>1, <2>2, <2>4, OneWorkerOK
  <2>6. SystemOK'
    BY <1>0, <2>1, <2>2 DEF TypeInv, SystemOK, Record
  <2> QED
    BY <1>0, <2>5, <2>6, StillSeeded DEF TypeInv
<1>8. CASE RecordAllocation(w)
  <2> DEFINE x      == At(worker[w], "answer")
             record == PS!AllocationRecord(worker[w].slot, worker[w].previous,
                           PS!RequestPointer(Len(requests) - 1, capacity), "REQUESTED")
  <2>1. /\ Becomes(w, x) /\ worker[w].at = "record" /\ history' = Append(history, record)
        /\ UNCHANGED << zones, isAvailable, requests, capacity, stored >>
    BY <1>8, RecordStep
  <2>2. x.at = "answer" /\ x.id = worker[w].id /\ PostOK(x) /\ x.call = "POST"
    BY <1>0, NextStep DEF Finding
  <2> HIDE DEF x
  <2>3. WorkerOK(x) /\ LinkOK(x, ParkingSlots(zones), Len(requests))
    BY <1>1, <2>1, <2>2 DEF WorkerOK, LinkOK, Storing
  <2>4. WorkersOK' /\ LinksOK'
    BY <1>1, <2>1, <2>3, OneWorkerOK
  <2>5. record \in Record
    <3>1. PS!RequestPointer(Len(requests) - 1, capacity) \in [id : Int, buffer : Nat]
      BY DEF PS!RequestPointer, TypeInv, SystemOK
    <3>2. worker[w].slot \in ParkingSlots(zones) /\ worker[w].previous \in BOOLEAN
      BY <1>0, <1>1, <2>1 DEF LinkOK, Storing, PostOK
    <3> QED
      BY <3>1, <3>2 DEF PS!AllocationRecord, Record, PS!RequestState
  <2> HIDE DEF record
  <2>6. SystemOK'
    BY <1>0, <2>1, <2>5 DEF TypeInv, SystemOK, Record, StoredRequest
  <2> QED
    BY <1>0, <2>4, <2>6, StillSeeded DEF TypeInv
<1>9. CASE AnswerRequest(w)
  <2>1. Becomes(w, Idle) /\ Kept
    BY <1>9, AnswerStep DEF Quiet, Kept
  <2>2. WorkerOK(Idle) /\ LinkOK(Idle, ParkingSlots(zones), Len(requests))
    BY DEF WorkerOK, LinkOK, Idle, Storing
  <2> QED
    BY <1>0, <2>1, <2>2, KeptOK
<1> QED
  BY <1>3, <1>4, <1>5, <1>6, <1>7, <1>8, <1>9 DEF RequestParkingStep

-----------------------------------------------------------------------------

\* The call that a POST begins with.
NewPost(vehicleId, zoneId) ==
    [ call |-> "POST", at |-> "find", vehicleId |-> vehicleId, zoneId |-> zoneId,
      id |-> -1, slot |-> << >>, previous |-> TRUE, alone |-> Posting = {} ]

\* A POST begins: the other workers contend with it, nothing else changes.
LEMMA BeginSteps ==
    ASSUME TypeInv, NEW w \in Workers, NEW vehicleId \in Vehicles, NEW zoneId \in ZoneIds,
           BeginRequest(w, vehicleId, zoneId)
    PROVE  /\ Serving /\ worker[w] = Idle /\ Quiet /\ status' = status
           /\ DOMAIN worker' = Workers
           /\ worker'[w] = NewPost(vehicleId, zoneId)
           /\ \A v \in Workers \ {w} : worker'[v] = Contended[v]
           /\ WorkerOK(NewPost(vehicleId, zoneId))
<1>1. DOMAIN Contended = Workers
  BY ContendedCalls DEF TypeInv
<1>2. worker' = [Contended EXCEPT ![w] = NewPost(vehicleId, zoneId)]
  BY DEF BeginRequest, NewPost
<1>3. PostOK(NewPost(vehicleId, zoneId)) /\ NewPost(vehicleId, zoneId).call = "POST"
  BY DEF PostOK, NewPost, Finding, Storing
<1> QED
  BY <1>1, <1>2, <1>3 DEF BeginRequest, Quiet, WorkerOK

LEMMA ContendedLinks ==
    ASSUME TypeInv, NEW w \in Workers
    PROVE  LinkOK(Contended[w], ParkingSlots(zones), Len(requests))
<1>1. LinkOK(worker[w], ParkingSlots(zones), Len(requests))
  BY DEF TypeInv, LinksOK
<1>2. CASE worker[w].call = "POST"
  <2>1. Contended[w] = [worker[w] EXCEPT !.alone = FALSE] /\ PostOK(worker[w])
    BY <1>2, ContendedCalls, StepsOfCalls DEF TypeInv
  <2> QED
    BY <1>1, <2>1 DEF LinkOK, PostOK
<1>3. CASE worker[w].call # "POST"
  BY <1>1, <1>3, ContendedCalls DEF TypeInv
<1> QED
  BY <1>2, <1>3

LEMMA BeginTypes ==
    ASSUME TypeInv, NEW w \in Workers, NEW vehicleId \in Vehicles, NEW zoneId \in ZoneIds,
           BeginRequest(w, vehicleId, zoneId)
    PROVE  TypeInv'
<1>1. SystemOK' /\ zones' = zones /\ requests' = requests
  BY BeginSteps DEF TypeInv, SystemOK, Quiet, StoredRequest, Record
<1>2. WorkersOK'
  <2>1. \A v \in Workers : WorkerOK(Contended[v])
    BY ContendedCalls DEF TypeInv
  <2>2. \A v \in Workers : WorkerOK(worker'[v])
    BY <2>1, BeginSteps
  <2>3. DOMAIN worker' = Workers
    BY BeginSteps
  <2> QED
    BY <2>2, <2>3 DEF WorkersOK
<1>3. LinkOK(NewPost(vehicleId, zoneId), ParkingSlots(zones), Len(requests))
  BY DEF NewPost, LinkOK, Storing
<1>4. LinksOK'
  BY <1>1, <1>3, BeginSteps, ContendedLinks DEF LinksOK
<1>5. SeededFirst'
  BY BeginSteps, StillSeeded DEF Serving, Quiet
<1> QED
  BY <1>1, <1>2, <1>4, <1>5 DEF TypeInv

\* A zone is created: the POSTs in progress contend with it.
LEMMA CreateSteps ==
    ASSUME NEW w \in Workers, NEW zone \in ZoneShapes, CreateZone(w, zone)
    PROVE  /\ Serving /\ ZoneAdded(zone) /\ status' \in {"running", "undefined"}
           /\ worker' = Contended /\ answer' = NoAnswer
           /\ UNCHANGED << vehicles, seeded, before >>
           /\ reply' = PS!Reply("addZone", -1, TRUE) /\ Len(zones) < MaxZones
<1>1. status' \in {"running", "undefined"}
  BY HarmStatus DEF CreateZone
<1> QED
  BY <1>1 DEF CreateZone, ZoneAdded

LEMMA CreateTypes ==
    ASSUME TypeInv, NEW w \in Workers, NEW zone \in ZoneShapes, CreateZone(w, zone)
    PROVE  TypeInv'
<1>1. seeded' \in 0 .. Len(DemoZones) + Len(DemoRequests)
  BY CreateSteps DEF TypeInv, SystemOK
<1>2. SystemOK' /\ ParkingSlots(zones) \subseteq ParkingSlots(zones') /\ requests' = requests
  BY <1>1, CreateSteps, ZoneAddedOK DEF TypeInv, ZoneAdded
<1>3. WorkersOK'
  BY CreateSteps, ContendedCalls DEF TypeInv, WorkersOK
<1>4. \A v \in Workers : LinkOK(Contended[v], ParkingSlots(zones'), Len(requests))
  BY <1>2, ContendedLinks DEF LinkOK
<1>5. LinksOK'
  BY <1>2, <1>4, CreateSteps DEF LinksOK
<1>6. SeededFirst'
  BY CreateSteps, StillSeeded DEF Serving
<1> QED
  BY <1>2, <1>3, <1>5, <1>6 DEF TypeInv

LEMMA InitTypes == Init => TypeInv
<1> SUFFICES ASSUME Init PROVE TypeInv
  OBVIOUS
<1>1. /\ zones = << >> /\ isAvailable = << >> /\ requests = << >> /\ capacity = 0
      /\ history = << >> /\ stored = << >> /\ status = "running" /\ seeded = 0
      /\ worker = [w \in Workers |-> Idle]
  BY DEF Init, PS!Init
<1>2. ParkingSlots(zones) = {}
  BY <1>1, SlotPlace
<1>3. isAvailable \in [ParkingSlots(zones) -> BOOLEAN]
  BY <1>1, <1>2
<1>4. SystemOK
  BY <1>1, <1>3, DemoAssumption DEF SystemOK
<1> QED
  BY <1>1, <1>4 DEF TypeInv, WorkersOK, WorkerOK, LinksOK, LinkOK, SeededFirst, Idle, Storing

LEMMA NextTypes == TypeInv /\ [Next]_vars => TypeInv'
<1> SUFFICES ASSUME TypeInv, [Next]_vars PROVE TypeInv'
  OBVIOUS
<1>1. CASE SeedDemo
  BY <1>1, SeedTypes
<1>2. ASSUME NEW w \in Workers, Step(w) PROVE TypeInv'
  BY <1>2, PostTypes, GetTypes DEF Step, Reading
<1>3. ASSUME NEW w \in Workers, Arrival(w) PROVE TypeInv'
  <2>1. ASSUME NEW call \in Gets, NEW z \in ZoneIds, BeginGet(w, call, z) PROVE TypeInv'
    <3>1. status = "running" /\ Reading(w)
      BY <2>1 DEF BeginGet, Serving, Reading
    <3> QED
      BY <3>1, GetTypes
  <2> QED
    BY <1>3, <2>1, BeginTypes, CreateTypes DEF Arrival
<1>4. CASE UNCHANGED vars
  BY <1>4 DEF vars, TypeInv, SystemOK, WorkersOK, LinksOK, SeededFirst, StoredRequest, Record
<1> QED
  BY <1>1, <1>2, <1>3, <1>4 DEF Next

LEMMA TypesImply == TypeInv => TypeOK
<1> SUFFICES ASSUME TypeInv PROVE TypeOK
  OBVIOUS
<1> USE DEF TypeInv
<1>1. \A i \in DOMAIN stored : stored[i].id \in 0 .. Len(requests) - 1
  BY StoredFields DEF SystemOK
<1>2. DOMAIN assignedSlot = DOMAIN requests
  BY DEF assignedSlot, SystemOK
<1>3. \A n \in DOMAIN history : history[n].slot \in DOMAIN isAvailable
  <2> SUFFICES ASSUME NEW n \in DOMAIN history PROVE history[n].slot \in DOMAIN isAvailable
    OBVIOUS
  <2>1. history[n] \in Record
    BY SeqElement DEF SystemOK
  <2> QED
    BY <2>1 DEF Record, SystemOK
<1>4. \A w \in Workers : worker[w].at \in {"take", "push", "record"} =>
                           worker[w].slot \in DOMAIN isAvailable
  BY DEF LinksOK, LinkOK, Storing, SystemOK
<1> QED
  BY <1>1, <1>2, <1>3, <1>4, SameSlots DEF SystemOK, TypeOK

LEMMA AlwaysTyped == Spec => []TypeInv
  BY InitTypes, NextTypes, PTL DEF Spec

\* Every variable of the server keeps its type: what a worker remembers of the
\* system while others change it is still there when it goes on
\* (Server.cpp:289-299, ParkingSystem.cpp:14-69).
THEOREM ServerTypes == Spec => []TypeOK
  BY AlwaysTyped, TypesImply, PTL

-----------------------------------------------------------------------------
(* Who shares a slot or an id *)

\* A call that runs alone is the only one that writes.
OneAlone ==
    \A w, v \in Workers :
        worker[w].call = "POST" /\ worker[w].alone /\ worker[v].call = "POST" => v = w

Shares(record, x) == record.slot = x.slot \/ record.id = x.id

\* What a worker holds: the slot it took is taken; only calls that overlapped
\* share it, or the id; and once a call that runs alone has stored its request,
\* that is the last one.
Holds(x, stores, free) ==
    /\ x.at = "push" => ~free[x.slot]
    /\ x.at \in {"take", "push"} =>
         \A i \in DOMAIN stores : Shares(stores[i], x) => ~stores[i].alone /\ ~x.alone
    /\ x.at \in {"record", "answer"} /\ x.alone /\ x.id # -1 =>
         stores # << >> /\ stores[Len(stores)].id = x.id

SharingInv ==
    /\ \A i \in DOMAIN stored : ~isAvailable[stored[i].slot]
    /\ OneAlone
    /\ \A w \in Workers : Holds(worker[w], stored, isAvailable)
    /\ SharingNeedsOverlap
    /\ AloneIsAnsweredOwnId

\* No slot that was taken becomes available.
StaysTaken == \A p \in ParkingSlots(zones) : ~isAvailable[p] => ~isAvailable'[p]

\* x is a later step of a call that may be y, and runs alone only if y did.
Continues(x, y) == x.call = "POST" => y.call = "POST" /\ (x.alone => y.alone)

\* If nothing is stored, taken slots stay taken and every call goes on, each
\* has to hold what it says it holds.
LEMMA NothingStored ==
    ASSUME TypeInv, SharingInv, stored' = stored, StaysTaken, AloneIsAnsweredOwnId',
           \A v \in Workers : Continues(worker'[v], worker[v]),
           \A v \in Workers : Holds(worker'[v], stored, isAvailable')
    PROVE  SharingInv'
<1>1. \A i \in DOMAIN stored' : ~isAvailable'[stored'[i].slot]
  BY StoredFields DEF SharingInv, StaysTaken, TypeInv
<1>2. OneAlone'
  <2> SUFFICES ASSUME NEW w \in Workers, NEW v \in Workers, worker'[w].call = "POST",
                      worker'[w].alone, worker'[v].call = "POST"
               PROVE  v = w
    BY DEF OneAlone
  <2> QED
    BY DEF Continues, SharingInv, OneAlone
<1>3. \A w \in Workers : Holds(worker'[w], stored', isAvailable')
  OBVIOUS
<1>4. SharingNeedsOverlap'
  BY DEF SharingInv, SharingNeedsOverlap
<1> QED
  BY <1>1, <1>2, <1>3, <1>4 DEF SharingInv

LEMMA ZoneAddedKeeps ==
    ASSUME SystemOK, NEW zone \in ZoneShapes, ZoneAdded(zone)
    PROVE  StaysTaken
<1>1. zone \in Zone /\ zones \in Seq(Zone) /\ zones' = Append(zones, zone)
  BY SystemAssumption DEF Zone, ZoneAdded, SystemOK
<1>2. ParkingSlots(zones) \subseteq PS!ParkingSlots(zones')
  BY <1>1, SlotsGrow, SameSlots
<1> QED
  BY <1>2 DEF ZoneAdded, StaysTaken, SystemOK

\* What a worker held it still holds.
LEMMA StillHolds ==
    ASSUME TypeInv, SharingInv, StaysTaken, NEW v \in Workers
    PROVE  Holds(worker[v], stored, isAvailable')
<1>1. Holds(worker[v], stored, isAvailable)
  BY DEF SharingInv
<1>2. worker[v].at = "push" => worker[v].slot \in ParkingSlots(zones)
  BY DEF TypeInv, LinksOK, LinkOK, Storing
<1> QED
  BY <1>1, <1>2 DEF Holds, StaysTaken

LEMMA OneHolds ==
    ASSUME TypeInv, SharingInv, stored' = stored, StaysTaken, AloneIsAnsweredOwnId',
           NEW w \in Workers, NEW x, Becomes(w, x), Continues(x, worker[w]),
           Holds(x, stored, isAvailable')
    PROVE  SharingInv'
<1>1. worker'[w] = x /\ \A v \in Workers \ {w} : worker'[v] = worker[v]
  BY BecomesOne DEF TypeInv
<1>2. \A v \in Workers : Continues(worker'[v], worker[v])
  BY <1>1 DEF Continues
<1>3. \A v \in Workers : Holds(worker'[v], stored, isAvailable')
  BY <1>1, StillHolds
<1> QED
  BY <1>2, <1>3, NothingStored

LEMMA NoAnswerIsOwn == answer' = NoAnswer => AloneIsAnsweredOwnId'
  BY DEF AloneIsAnsweredOwnId, NoAnswer

\* A call that begins or goes on without a slot holds nothing.
LEMMA EmptyHands ==
    ASSUME NEW x, x.at \notin Storing \cup {"answer"}
    PROVE  \A stores, free : Holds(x, stores, free)
  BY DEF Holds, Storing

LEMMA GetShares ==
    ASSUME TypeInv, SharingInv, status = "running", NEW w \in Workers, Reading(w)
    PROVE  SharingInv'
<1>1. stored' = stored /\ StaysTaken /\ Becomes(w, worker'[w]) /\ AloneIsAnsweredOwnId'
  BY GetSteps, NoAnswerIsOwn DEF Quiet, StaysTaken
<1>2. worker'[w].at \notin Storing \cup {"answer"} /\ worker'[w].call # "POST"
  BY GetSteps DEF GetOK, Idle, Storing, GetCalls
<1>3. Holds(worker'[w], stored, isAvailable')
  BY <1>2, EmptyHands
<1> QED
  BY <1>1, <1>2, <1>3, OneHolds DEF Continues

\* A step of requestParking that stores nothing.
LEMMA PostShares ==
    ASSUME TypeInv, SharingInv, NEW w \in Workers,
           (RequestParkingStep(w) /\ ~PushRequest(w)) \/ AnswerRequest(w)
    PROVE  SharingInv'
<1>0. /\ PostOK(worker[w]) /\ worker[w].call = "POST" /\ seeded' = seeded
      /\ RequestParkingStep(w) => AloneIsAnsweredOwnId'
  BY PostCalls, NoAnswerIsOwn DEF TypeInv
<1>1. Holds(worker[w], stored, isAvailable)
  BY DEF SharingInv
<1>2. ASSUME NEW x, Becomes(w, x), Kept, AloneIsAnsweredOwnId', x.alone = worker[w].alone,
             Holds(x, stored, isAvailable)
      PROVE  SharingInv'
  <2>1. stored' = stored /\ StaysTaken /\ Continues(x, worker[w]) /\ isAvailable' = isAvailable
    BY <1>0, <1>2 DEF Kept, StaysTaken, Continues
  <2>2. Holds(x, stored, isAvailable')
    BY <1>2, <2>1
  <2> QED
    BY <1>2, <2>1, <2>2, OneHolds
<1>3. ASSUME FindVehicle(w), RequestParkingStep(w) PROVE SharingInv'
  <2>1. PICK at \in {"search", "register"} : Becomes(w, At(worker[w], at))
    BY <1>0, <1>3, FindStep
  <2> DEFINE x == At(worker[w], at)
  <2>2. worker[w].at = "find" /\ Kept
    BY <1>0, <1>3, FindStep
  <2>3. x.at = at /\ x.alone = worker[w].alone
    BY <1>0, <2>2, NextStep DEF Finding
  <2> HIDE DEF x
  <2>4. Holds(x, stored, isAvailable)
    BY <2>3 DEF Holds
  <2> QED
    BY <1>0, <1>2, <1>3, <2>1, <2>2, <2>3, <2>4 DEF x
<1>4. ASSUME RegisterVehicle(w), RequestParkingStep(w) PROVE SharingInv'
  <2> DEFINE x == At(worker[w], "search")
  <2>1. Becomes(w, x) /\ Kept /\ worker[w].at = "register"
    BY <1>0, <1>4, RegisterStep
  <2>2. x.at = "search" /\ x.alone = worker[w].alone
    BY <1>0, <2>1, NextStep DEF Finding
  <2> HIDE DEF x
  <2>3. Holds(x, stored, isAvailable)
    BY <2>2 DEF Holds
  <2> QED
    BY <1>0, <1>2, <1>4, <2>1, <2>2, <2>3
<1>5. ASSUME SearchSlot(w), RequestParkingStep(w) PROVE SharingInv'
  <2>1. Kept /\ worker[w].at = "search"
    BY <1>0, <1>5, SearchStep
  <2>2. CASE Becomes(w, At(worker[w], "answer"))
    <3> DEFINE x == At(worker[w], "answer")
    <3>1. x.at = "answer" /\ x.alone = worker[w].alone /\ x.id = -1
      <4>1. worker[w].id = -1
        BY <1>0, <2>1 DEF Finding, PostOK
      <4> QED
        BY <1>0, <4>1, NextStep DEF Finding
    <3> HIDE DEF x
    <3>2. Holds(x, stored, isAvailable)
      BY <3>1 DEF Holds
    <3> QED
      BY <1>0, <1>2, <1>5, <2>1, <2>2, <3>1, <3>2 DEF x
  <2>3. ASSUME NEW slot \in PS!AllocateSlot(worker[w].zoneId, zones, isAvailable),
               Becomes(w, WithSlot(worker[w], Len(requests), slot))
        PROVE  SharingInv'
    <3> DEFINE x == WithSlot(worker[w], Len(requests), slot)
    <3>1. /\ x.at = "take" /\ x.id = Len(requests) /\ x.slot = slot
          /\ x.alone = worker[w].alone
      <4>1. Len(requests) \in Int
        BY DEF TypeInv, SystemOK
      <4> QED
        BY <1>0, <4>1, FoundSlot
    <3> HIDE DEF x
    <3>2. \A i \in DOMAIN stored : ~Shares(stored[i], x)
      BY <3>1, FoundIsFree, StoredFields DEF Shares, SharingInv, TypeInv, SystemOK
    <3>3. Holds(x, stored, isAvailable)
      BY <3>1, <3>2 DEF Holds
    <3> QED
      BY <1>0, <1>2, <1>5, <2>1, <2>3, <3>1, <3>3 DEF x
  <2> QED
    BY <1>0, <1>5, <2>2, <2>3, SearchStep
<1>6. ASSUME TakeSlot(w), RequestParkingStep(w) PROVE SharingInv'
  <2> DEFINE x == WithTaken(worker[w], isAvailable[worker[w].slot])
  <2>1. /\ worker[w].at = "take" /\ Becomes(w, x)
        /\ isAvailable' = [isAvailable EXCEPT ![worker[w].slot] = FALSE]
        /\ stored' = stored
    BY <1>6, TakeStep
  <2>2. worker[w].slot \in ParkingSlots(zones) /\ isAvailable \in [ParkingSlots(zones) -> BOOLEAN]
    BY <2>1 DEF TypeInv, SystemOK, LinksOK, LinkOK, Storing
  <2>3. StaysTaken /\ ~isAvailable'[worker[w].slot]
    BY <2>1, <2>2 DEF StaysTaken
  <2>4. /\ x.slot = worker[w].slot /\ x.id = worker[w].id /\ x.at = "push"
        /\ x.alone = worker[w].alone
    BY <1>0, <2>2, TakenSlot
  <2> HIDE DEF x
  <2>5. Continues(x, worker[w]) /\ Holds(x, stored, isAvailable')
    BY <1>0, <1>1, <2>1, <2>3, <2>4 DEF Continues, Holds, Shares
  <2> QED
    BY <1>0, <1>6, <2>1, <2>3, <2>5, OneHolds
<1>7. ASSUME RecordAllocation(w), RequestParkingStep(w) PROVE SharingInv'
  <2> DEFINE x == At(worker[w], "answer")
  <2>1. /\ worker[w].at = "record" /\ Becomes(w, x)
        /\ stored' = stored /\ isAvailable' = isAvailable
    BY <1>7, RecordStep
  <2>2. x.at = "answer" /\ x.alone = worker[w].alone /\ x.id = worker[w].id
    BY <1>0, NextStep DEF Finding
  <2> HIDE DEF x
  <2>3. Continues(x, worker[w]) /\ Holds(x, stored, isAvailable') /\ StaysTaken
    BY <1>0, <1>1, <2>1, <2>2 DEF Continues, Holds, StaysTaken
  <2> QED
    BY <1>0, <1>7, <2>1, <2>3, OneHolds
<1>8. CASE AnswerRequest(w)
  <2>1. /\ worker[w].at = "answer" /\ Becomes(w, Idle) /\ stored' = stored /\ StaysTaken
        /\ answer' = [ granted |-> worker[w].id # -1, own |-> worker[w].id,
                       id |-> BackId, alone |-> worker[w].alone ]
    BY <1>8, AnswerStep DEF Quiet, StaysTaken
  <2>2. AloneIsAnsweredOwnId'
    BY <1>1, <2>1 DEF Holds, AloneIsAnsweredOwnId, BackId
  <2>3. Continues(Idle, worker[w]) /\ Holds(Idle, stored, isAvailable')
    BY DEF Continues, Holds, Idle
  <2> QED
    BY <2>1, <2>2, <2>3, OneHolds
<1> QED
  BY <1>3, <1>4, <1>5, <1>6, <1>7, <1>8 DEF RequestParkingStep

\* The request is stored: it shares a slot or an id with another only if both
\* calls overlapped others, and the calls that go on overlap this one.
LEMMA PushShares ==
    ASSUME TypeInv, SharingInv, NEW w \in Workers, RequestParkingStep(w), PushRequest(w)
    PROVE  SharingInv'
<1> DEFINE record == [ id |-> worker[w].id, slot |-> worker[w].slot, alone |-> worker[w].alone ]
           x      == At(worker[w], "record")
           last   == Len(stored')
<1>0. /\ PostOK(worker[w]) /\ worker[w].call = "POST" /\ seeded' = seeded
      /\ AloneIsAnsweredOwnId'
  BY PostCalls, NoAnswerIsOwn DEF TypeInv
<1>1. worker[w].at = "push" /\ isAvailable' = isAvailable /\ Becomes(w, x)
  BY PushStep
<1>2. worker'[w] = x /\ \A v \in Workers \ {w} : worker'[v] = worker[v]
  BY <1>1, BecomesOne DEF TypeInv
<1>3. /\ stored'[last] = record /\ \A i \in DOMAIN stored : stored'[i] = stored[i]
      /\ DOMAIN stored' = DOMAIN stored \cup {last}
      /\ stored' # << >> /\ last \notin DOMAIN stored
  <2>1. /\ stored'[last] = record /\ \A i \in DOMAIN stored : stored'[i] = stored[i]
        /\ DOMAIN stored' = DOMAIN stored \cup {last}
        /\ last = Len(requests) + 1 /\ Len(stored) = Len(requests)
        /\ stored' \in Seq(StoredRequest') /\ stored \in Seq(StoredRequest)
    BY <1>0, PushTypes DEF TypeInv, SystemOK
  <2> QED
    BY <2>1
<1>4. /\ record.id = worker[w].id /\ record.slot = worker[w].slot
      /\ record.alone = worker[w].alone
  OBVIOUS
<1> HIDE DEF record, last
<1>5. \A v \in Workers : Holds(worker[v], stored, isAvailable)
  BY DEF SharingInv
<1>6. ~isAvailable[record.slot]
  BY <1>1, <1>4, <1>5 DEF Holds
<1>7. \A i \in DOMAIN stored :
         Shares(stored[i], record) => ~stored[i].alone /\ ~record.alone
  BY <1>1, <1>4, <1>5 DEF Holds, Shares
<1>8. /\ x.at = "record" /\ x.call = "POST" /\ x.id = worker[w].id
      /\ x.alone = worker[w].alone
  BY <1>0, NextStep DEF Finding, Storing
<1> HIDE DEF x
<1>9. \A i \in DOMAIN stored' : ~isAvailable'[stored'[i].slot]
  <2>1. \A i \in DOMAIN stored : ~isAvailable[stored[i].slot]
    BY DEF SharingInv
  <2> QED
    BY <1>1, <1>3, <1>6, <2>1
<1>10. OneAlone'
  <2> SUFFICES ASSUME NEW u \in Workers, NEW v \in Workers, worker'[u].call = "POST",
                      worker'[u].alone, worker'[v].call = "POST"
               PROVE  v = u
    BY DEF OneAlone
  <2>1. worker[u].call = "POST" /\ worker[u].alone /\ worker[v].call = "POST"
    BY <1>0, <1>2, <1>8
  <2> QED
    BY <2>1 DEF SharingInv, OneAlone
<1>11. SharingNeedsOverlap'
  <2> SUFFICES ASSUME NEW i \in DOMAIN stored', NEW j \in DOMAIN stored', i # j,
                      stored'[i].slot = stored'[j].slot \/ stored'[i].id = stored'[j].id
               PROVE  ~stored'[i].alone /\ ~stored'[j].alone
    BY DEF SharingNeedsOverlap
  <2>1. CASE i \in DOMAIN stored /\ j \in DOMAIN stored
    BY <1>3, <2>1 DEF SharingInv, SharingNeedsOverlap
  <2>2. CASE i \in DOMAIN stored /\ j = last
    BY <1>3, <1>7, <2>2 DEF Shares
  <2>3. CASE i = last /\ j \in DOMAIN stored
    BY <1>3, <1>7, <2>3 DEF Shares
  <2> QED
    BY <1>3, <2>1, <2>2, <2>3
<1>12. \A v \in Workers : Holds(worker'[v], stored', isAvailable')
  <2>1. Holds(x, stored', isAvailable')
    BY <1>3, <1>4, <1>8 DEF Holds, last
  <2>2. ASSUME NEW v \in Workers \ {w} PROVE Holds(worker[v], stored', isAvailable')
    <3>1. Holds(worker[v], stored, isAvailable)
      BY <1>5
    <3>2. worker[v].at \in Storing \cup {"answer"} => ~worker[v].alone /\ ~worker[w].alone
      <4>1. worker[v].at \in Storing \cup {"answer"} => worker[v].call = "POST"
        BY StepsOfCalls DEF TypeInv
      <4> QED
        BY <1>0, <4>1 DEF SharingInv, OneAlone
    <3>3. ASSUME worker[v].at \in {"take", "push"}, NEW i \in DOMAIN stored',
                 Shares(stored'[i], worker[v])
          PROVE  ~stored'[i].alone /\ ~worker[v].alone
      BY <1>3, <1>4, <3>1, <3>2, <3>3 DEF Holds, Storing
    <3> QED
      BY <1>1, <3>1, <3>2, <3>3 DEF Holds, Storing
  <2> QED
    BY <1>2, <2>1, <2>2
<1> QED
  BY <1>0, <1>9, <1>10, <1>11, <1>12 DEF SharingInv

\* A POST begins, or a zone is created: no other call runs alone any more.
LEMMA ContendedHolds ==
    ASSUME TypeInv, SharingInv, StaysTaken, NEW v \in Workers
    PROVE  /\ Holds(Contended[v], stored, isAvailable')
           /\ Contended[v].call = worker[v].call
           /\ Contended[v].call = "POST" => ~Contended[v].alone
<1>1. Holds(worker[v], stored, isAvailable')
  BY StillHolds
<1>2. /\ Contended[v].call = worker[v].call
      /\ Contended[v].call = "POST" => ~Contended[v].alone
  BY ContendedCalls DEF TypeInv
<1>3. CASE worker[v].call = "POST"
  <2>1. Contended[v] = [worker[v] EXCEPT !.alone = FALSE] /\ PostOK(worker[v])
    BY <1>3, ContendedCalls, StepsOfCalls DEF TypeInv
  <2>2. /\ Contended[v].at = worker[v].at /\ Contended[v].slot = worker[v].slot
        /\ Contended[v].id = worker[v].id /\ ~Contended[v].alone
    BY <2>1 DEF PostOK
  <2> QED
    BY <1>1, <1>2, <2>2 DEF Holds, Shares
<1>4. CASE worker[v].call # "POST"
  BY <1>1, <1>2, <1>4, ContendedCalls DEF TypeInv
<1> QED
  BY <1>2, <1>3, <1>4

\* A POST that begins while none is in progress runs alone.
LEMMA BeginShares ==
    ASSUME TypeInv, SharingInv, NEW w \in Workers, NEW vehicleId \in Vehicles,
           NEW zoneId \in ZoneIds, BeginRequest(w, vehicleId, zoneId)
    PROVE  SharingInv'
<1> DEFINE x == NewPost(vehicleId, zoneId)
<1>1. /\ stored' = stored /\ isAvailable' = isAvailable /\ worker[w] = Idle
      /\ worker'[w] = x /\ \A v \in Workers \ {w} : worker'[v] = Contended[v]
  BY BeginSteps DEF Quiet
<1>2. StaysTaken
  BY <1>1 DEF StaysTaken
<1>3. AloneIsAnsweredOwnId'
  BY NoAnswerIsOwn DEF BeginRequest
<1>4. x.call = "POST" /\ x.at = "find" /\ x.alone = (Posting = {})
  BY DEF NewPost
<1> HIDE DEF x
<1>5. \A i \in DOMAIN stored' : ~isAvailable'[stored'[i].slot]
  BY <1>1 DEF SharingInv
<1>6. \A v \in Workers : Holds(worker'[v], stored', isAvailable')
  <2>1. Holds(x, stored, isAvailable')
    BY <1>4, EmptyHands DEF Storing
  <2> QED
    BY <1>1, <1>2, <2>1, ContendedHolds
<1>7. OneAlone'
  <2> SUFFICES ASSUME NEW u \in Workers, NEW v \in Workers, worker'[u].call = "POST",
                      worker'[u].alone, worker'[v].call = "POST"
               PROVE  v = u
    BY DEF OneAlone
  <2>1. u = w
    BY <1>1, <1>2, ContendedHolds
  <2>2. Posting = {}
    BY <1>1, <1>4, <2>1
  <2>3. worker[v].call # "POST"
    BY <2>2 DEF Posting
  <2> QED
    BY <1>1, <1>2, <2>1, <2>3, ContendedHolds
<1>8. SharingNeedsOverlap'
  BY <1>1 DEF SharingInv, SharingNeedsOverlap
<1> QED
  BY <1>3, <1>5, <1>6, <1>7, <1>8 DEF SharingInv

LEMMA CreateShares ==
    ASSUME TypeInv, SharingInv, NEW w \in Workers, NEW zone \in ZoneShapes, CreateZone(w, zone)
    PROVE  SharingInv'
<1>1. stored' = stored /\ worker' = Contended /\ ZoneAdded(zone)
  BY CreateSteps DEF ZoneAdded
<1>2. AloneIsAnsweredOwnId'
  BY NoAnswerIsOwn, CreateSteps
<1>3. StaysTaken
  BY <1>1, ZoneAddedKeeps DEF TypeInv
<1>4. \A v \in Workers : Holds(worker'[v], stored, isAvailable')
  BY <1>1, <1>3, ContendedHolds
<1>5. \A v \in Workers : Continues(worker'[v], worker[v])
  BY <1>1, <1>3, ContendedHolds DEF Continues
<1> QED
  BY <1>1, <1>2, <1>3, <1>4, <1>5, NothingStored

\* What seedDemo stores has a slot and an id of its own.
LEMMA SeedShares ==
    ASSUME TypeInv, SharingInv, SeedDemo
    PROVE  SharingInv'
<1>1. /\ worker' = worker /\ answer' = answer
      /\ seeded < Len(DemoZones) + Len(DemoRequests)
  BY SeedSteps DEF TypeInv
<1>2. \A v \in Workers : worker[v] = Idle
  BY <1>1, DemoAssumption DEF TypeInv, SeededFirst, SystemOK
<1>3. AloneIsAnsweredOwnId' /\ OneAlone'
  BY <1>1 DEF SharingInv, AloneIsAnsweredOwnId, OneAlone
<1>4. \A v \in Workers : \A stores, free : Holds(worker'[v], stores, free)
  BY <1>1, <1>2 DEF Holds, Idle
<1>5. ASSUME stored' = stored, StaysTaken PROVE SharingInv'
  <2>1. \A v \in Workers : Continues(worker'[v], worker[v])
    BY <1>1 DEF Continues
  <2> QED
    BY <1>3, <1>4, <1>5, <2>1, NothingStored
<1>6. ASSUME NEW vehicleId \in Vehicles, NEW zoneId \in ZoneIds,
             NEW slot \in PS!AllocateSlot(zoneId, zones, isAvailable),
             SeedStores(vehicleId, zoneId, slot)
      PROVE  SharingInv'
  <2> DEFINE record == [id |-> Len(requests), slot |-> slot, alone |-> TRUE]
             last   == Len(stored) + 1
  <2>1. slot \in ParkingSlots(zones) /\ isAvailable[slot]
    BY FoundIsFree
  <2>2. /\ stored \in Seq(StoredRequest) /\ isAvailable \in [ParkingSlots(zones) -> BOOLEAN]
        /\ stored' = Append(stored, record)
        /\ isAvailable' = [isAvailable EXCEPT ![slot] = FALSE]
    BY <1>6 DEF TypeInv, SystemOK, SeedStores
  <2>3. record.id = Len(requests) /\ record.slot = slot
    OBVIOUS
  <2>4. \A i \in DOMAIN stored :
           /\ stored[i].slot \in ParkingSlots(zones) /\ ~isAvailable[stored[i].slot]
           /\ stored[i].id # Len(requests)
    BY StoredFields DEF SharingInv, TypeInv, SystemOK
  <2> HIDE DEF record
  <2>5. /\ stored'[last] = record /\ \A i \in DOMAIN stored : stored'[i] = stored[i]
        /\ DOMAIN stored' = DOMAIN stored \cup {last}
    BY <2>2
  <2> HIDE DEF last
  <2>6. \A i \in DOMAIN stored' : ~isAvailable'[stored'[i].slot]
    BY <2>1, <2>2, <2>3, <2>4, <2>5
  <2>7. \A i \in DOMAIN stored : ~Shares(stored[i], record)
    BY <2>1, <2>3, <2>4 DEF Shares
  <2>8. SharingNeedsOverlap'
    <3> SUFFICES ASSUME NEW i \in DOMAIN stored', NEW j \in DOMAIN stored', i # j,
                        stored'[i].slot = stored'[j].slot \/ stored'[i].id = stored'[j].id
                 PROVE  ~stored'[i].alone /\ ~stored'[j].alone
      BY DEF SharingNeedsOverlap
    <3>1. i \in DOMAIN stored /\ j \in DOMAIN stored
      BY <2>5, <2>7 DEF Shares
    <3> QED
      BY <2>5, <3>1 DEF SharingInv, SharingNeedsOverlap
  <2> QED
    BY <1>3, <1>4, <2>6, <2>8 DEF SharingInv
<1>7. ASSUME NEW zone \in ZoneShapes, ZoneAdded(zone) PROVE stored' = stored /\ StaysTaken
  BY <1>7, ZoneAddedKeeps DEF ZoneAdded, TypeInv
<1>8. UNCHANGED << isAvailable, stored >> => stored' = stored /\ StaysTaken
  BY DEF StaysTaken
<1> QED
  BY <1>5, <1>6, <1>7, <1>8, SeedSteps DEF TypeInv

LEMMA InitShares == Init => SharingInv
<1> SUFFICES ASSUME Init PROVE SharingInv
  OBVIOUS
<1>1. stored = << >> /\ worker = [w \in Workers |-> Idle] /\ answer = NoAnswer
  BY DEF Init
<1> QED
  BY <1>1 DEF SharingInv, OneAlone, Holds, SharingNeedsOverlap, AloneIsAnsweredOwnId,
              NoAnswer, Idle

LEMMA NextShares == TypeInv /\ SharingInv /\ [Next]_vars => SharingInv'
<1> SUFFICES ASSUME TypeInv, SharingInv, [Next]_vars PROVE SharingInv'
  OBVIOUS
<1>1. CASE SeedDemo
  BY <1>1, SeedShares
<1>2. ASSUME NEW w \in Workers, Step(w) PROVE SharingInv'
  BY <1>2, PushShares, PostShares, GetShares DEF Step, Reading
<1>3. ASSUME NEW w \in Workers, Arrival(w) PROVE SharingInv'
  <2>1. ASSUME NEW call \in Gets, NEW z \in ZoneIds, BeginGet(w, call, z) PROVE SharingInv'
    <3>1. status = "running" /\ Reading(w)
      BY <2>1 DEF BeginGet, Serving, Reading
    <3> QED
      BY <3>1, GetShares
  <2> QED
    BY <1>3, <2>1, BeginShares, CreateShares DEF Arrival
<1>4. CASE UNCHANGED vars
  BY <1>4 DEF vars, SharingInv, OneAlone, SharingNeedsOverlap, AloneIsAnsweredOwnId
<1> QED
  BY <1>1, <1>2, <1>3, <1>4 DEF Next

LEMMA AlwaysShares == Spec => []SharingInv
<1>1. Init => SharingInv
  BY InitShares
<1>2. TypeInv /\ SharingInv /\ [Next]_vars => SharingInv'
  BY NextShares
<1> QED
  BY <1>1, <1>2, AlwaysTyped, PTL DEF Spec

\* However many handlers overlap, two requests come to share a slot or an id
\* only if the calls of both overlapped another: a call that has the system to
\* itself finds a slot that nobody is about to take (Server.cpp:289, 442).
THEOREM ServerSharing == Spec => []SharingNeedsOverlap
<1>1. SharingInv => SharingNeedsOverlap
  BY DEF SharingInv
<1> QED
  BY <1>1, AlwaysShares, PTL

\* A POST that runs alone is answered with the id of the request it stored,
\* though the handler answers with the last one (Server.cpp:292-294).
THEOREM ServerOwnId == Spec => []AloneIsAnsweredOwnId
<1>1. SharingInv => AloneIsAnsweredOwnId
  BY DEF SharingInv
<1> QED
  BY <1>1, AlwaysShares, PTL

-----------------------------------------------------------------------------
(* A call that runs alone is one operation of the parking system *)

\* What a call that runs alone has done to the system since it was b.
Since(b, now, x) ==
    /\ now.zones = b.zones /\ now.history = b.history
    /\ now.vehicles = IF x.at \in {"find", "register"} THEN b.vehicles
                      ELSE PS!RegisterVehicle(b.vehicles, x.vehicleId, x.zoneId)
    /\ x.at = "register" => \A i \in DOMAIN b.vehicles : b.vehicles[i].vehicleId # x.vehicleId
    /\ x.at \in Storing =>
         x.slot \in PS!AllocateSlot(x.zoneId, b.zones, b.isAvailable) /\ x.id = Len(b.requests)
    /\ now.isAvailable = IF x.at \in {"push", "record"}
                         THEN [b.isAvailable EXCEPT ![x.slot] = FALSE] ELSE b.isAvailable
    /\ x.at \in {"push", "record"} => x.previous = b.isAvailable[x.slot]
    /\ IF x.at = "record"
       THEN /\ now.requests = Append(b.requests, PS!ChangeState(
                                 PS!NewRequest(x.vehicleId, x.zoneId), "ALLOCATED"))
            /\ now.capacity = PS!CapacityAfterPush(Len(b.requests), b.capacity)
            /\ now.stored = Append(b.stored, [id |-> x.id, slot |-> x.slot, alone |-> TRUE])
       ELSE now.requests = b.requests /\ now.capacity = b.capacity /\ now.stored = b.stored

\* The system before the calls in progress was one of its right size.
BeforeOK(b) ==
    /\ b.stored \in Seq(StoredRequest)
    /\ b.requests \in Seq(Request) /\ Len(b.requests) < MaxRequests

AtomicInv ==
    \A w \in Workers : InRequestParking(worker[w]) /\ worker[w].alone =>
        Since(before, System, worker[w]) /\ BeforeOK(before)

\* The system seen by the serial specification is as it was.
LEMMA SerialStutters ==
    ASSUME UNCHANGED Shown, UNCHANGED status
    PROVE  UNCHANGED Serial!vars
  BY DEF Serial!vars

\* The serial specification computes what the instance of the model computes.
LEMMA SameSerial ==
    /\ \A zs : Serial!ParkingSlots(zs) = PS!ParkingSlots(zs)
    /\ \A z, zs, free : Serial!AllocateSlot(z, zs, free) = PS!AllocateSlot(z, zs, free)
    /\ \A vs, v, z : Serial!RegisterVehicle(vs, v, z) = PS!RegisterVehicle(vs, v, z)
    /\ \A call, id, done : Serial!Reply(call, id, done) = PS!Reply(call, id, done)
    /\ \A v, z : Serial!NewRequest(v, z) = PS!NewRequest(v, z)
    /\ \A request, state : Serial!ChangeState(request, state) = PS!ChangeState(request, state)
    /\ \A size, buffer : Serial!CapacityAfterPush(size, buffer) = PS!CapacityAfterPush(size, buffer)
    /\ \A size, buffer : Serial!BackAfterPush(size, buffer) = PS!BackAfterPush(size, buffer)
    /\ \A slot, free, pointer, state :
         Serial!AllocationRecord(slot, free, pointer, state) = PS!AllocationRecord(slot, free, pointer, state)
    /\ \A h, record : Serial!RecordAllocation(h, record) = PS!RecordAllocation(h, record)
<1>1. \A zs : Serial!ParkingSlots(zs) = PS!ParkingSlots(zs)
  BY DEF Serial!ParkingSlots, PS!ParkingSlots, Serial!SlotsOfZone, PS!SlotsOfZone,
         Serial!SlotsOfArea, PS!SlotsOfArea
<1>2. \A z, zs, free : Serial!AllocateSlot(z, zs, free) = PS!AllocateSlot(z, zs, free)
  BY DEF PS!AllocateSlot, Serial!AllocateSlot, PS!First, Serial!First, PS!ZonesWithSlot,
         Serial!ZonesWithSlot, PS!FindAvailableSlotInZone, Serial!FindAvailableSlotInZone,
         PS!GetFirstAvailableSlot, Serial!GetFirstAvailableSlot
<1>3. \A vs, v, z : Serial!RegisterVehicle(vs, v, z) = PS!RegisterVehicle(vs, v, z)
  BY DEF PS!RegisterVehicle, Serial!RegisterVehicle
<1>4. \A v, z : Serial!NewRequest(v, z) = PS!NewRequest(v, z)
  BY DEF PS!NewRequest, Serial!NewRequest
<1>5. \A request, state : Serial!ChangeState(request, state) = PS!ChangeState(request, state)
  BY DEF PS!ChangeState, Serial!ChangeState, PS!CanChange, Serial!CanChange,
         PS!ValidTransition, Serial!ValidTransition, PS!SetCurrentState, Serial!SetCurrentState
<1>6. /\ \A size, buffer : Serial!CapacityAfterPush(size, buffer) = PS!CapacityAfterPush(size, buffer)
      /\ \A size, buffer : Serial!BackAfterPush(size, buffer) = PS!BackAfterPush(size, buffer)
  BY DEF PS!CapacityAfterPush, Serial!CapacityAfterPush, PS!BackAfterPush, Serial!BackAfterPush,
         PS!RequestPointer, Serial!RequestPointer
<1>7. /\ \A call, id, done : Serial!Reply(call, id, done) = PS!Reply(call, id, done)
      /\ \A slot, free, pointer, state :
           Serial!AllocationRecord(slot, free, pointer, state) = PS!AllocationRecord(slot, free, pointer, state)
      /\ \A h, record : Serial!RecordAllocation(h, record) = PS!RecordAllocation(h, record)
  BY DEF PS!Reply, Serial!Reply, PS!AllocationRecord, Serial!AllocationRecord,
         PS!RecordAllocation, Serial!RecordAllocation
<1> QED
  BY <1>1, <1>2, <1>3, <1>4, <1>5, <1>6, <1>7

LEMMA ShownFields ==
    ASSUME Shown = System
    PROVE  /\ Shown.zones = zones /\ Shown.isAvailable = isAvailable
           /\ Shown.vehicles = vehicles /\ Shown.requests = requests
           /\ Shown.capacity = capacity /\ Shown.history = history
           /\ Shown.stored = stored /\ Shown.reply = reply
  BY DEF System

LEMMA ShownNext ==
    ASSUME Shown' = System'
    PROVE  /\ Shown'.zones = zones' /\ Shown'.isAvailable = isAvailable'
           /\ Shown'.vehicles = vehicles' /\ Shown'.requests = requests'
           /\ Shown'.capacity = capacity' /\ Shown'.history = history'
           /\ Shown'.stored = stored' /\ Shown'.reply = reply'
  BY DEF System

\* A zone that is added while no call is half done.
LEMMA SerialAdd ==
    ASSUME Shown = System, Shown' = System', NEW zone, PS!AddZone(zone), UNCHANGED stored
    PROVE  Serial!AddZone(zone)
  BY ShownFields, ShownNext, SameSerial DEF PS!AddZone, Serial!AddZone

\* A call that is refused, from b to the system as it is now.
LEMMA SerialRefuse ==
    ASSUME Shown' = System', status = "running", status' = status,
           NEW vehicleId, NEW zoneId,
           zones' = Shown.zones /\ isAvailable' = Shown.isAvailable,
           PS!AllocateSlot(zoneId, Shown.zones, Shown.isAvailable) = {},
           vehicles' = PS!RegisterVehicle(Shown.vehicles, vehicleId, zoneId),
           reply' = PS!Reply("requestParking", -1, FALSE),
           requests' = Shown.requests /\ capacity' = Shown.capacity,
           history' = Shown.history /\ stored' = Shown.stored
    PROVE  Serial!RequestParking(vehicleId, zoneId)
  BY ShownNext, SameSerial DEF Serial!RequestParking, Serial!RefuseParking

\* A call that is granted a slot.
LEMMA SerialGrant ==
    ASSUME Shown' = System', status = "running", status' = status,
           NEW vehicleId, NEW zoneId,
           NEW slot \in PS!AllocateSlot(zoneId, Shown.zones, Shown.isAvailable),
           Len(Shown.requests) < MaxRequests,
           zones' = Shown.zones,
           isAvailable' = [Shown.isAvailable EXCEPT ![slot] = FALSE],
           vehicles' = PS!RegisterVehicle(Shown.vehicles, vehicleId, zoneId),
           reply' = PS!Reply("requestParking", Len(Shown.requests), TRUE),
           requests' = Append(Shown.requests,
                         PS!ChangeState(PS!NewRequest(vehicleId, zoneId), "ALLOCATED")),
           capacity' = PS!CapacityAfterPush(Len(Shown.requests), Shown.capacity),
           history' = PS!RecordAllocation(Shown.history,
                        PS!AllocationRecord(slot, Shown.isAvailable[slot],
                          PS!BackAfterPush(Len(Shown.requests), Shown.capacity), "REQUESTED")),
           NEW S, Shown.stored \in Seq(S),
           NEW record, stored' = Append(Shown.stored, record), record.slot = slot
    PROVE  Serial!RequestParking(vehicleId, zoneId)
<1>1. Shown.zones # << >>
  <2>1. slot \in ParkingSlots(Shown.zones)
    BY SameSearch, AllocatedIsFree
  <2> QED
    BY <2>1, SlotPlace
<1>2. PS!NewRequest(vehicleId, zoneId).currentState = "REQUESTED"
  BY DEF PS!NewRequest
<1>3. [ i \in DOMAIN Shown'.stored |-> Shown'.stored[i].slot ]
         = Append([ i \in DOMAIN Shown.stored |-> Shown.stored[i].slot ], slot)
  <2> DEFINE old   == Shown.stored
             slots == [ i \in DOMAIN old |-> old[i].slot ]
             T     == { old[i].slot : i \in DOMAIN old }
  <2>1. old \in Seq(S) /\ DOMAIN old = 1 .. Len(old) /\ Len(old) \in Nat
    OBVIOUS
  <2>2. slots \in Seq(T) /\ Len(slots) = Len(old)
    BY <2>1
  <2>3. Shown'.stored = Append(old, record)
    BY ShownNext
  <2> HIDE DEF old, slots, T
  <2>4. /\ DOMAIN Append(old, record) = 1 .. Len(old) + 1
        /\ \A i \in 1 .. Len(old) : Append(old, record)[i] = old[i]
        /\ Append(old, record)[Len(old) + 1] = record
    BY <2>1
  <2>5. [ i \in DOMAIN Append(old, record) |-> Append(old, record)[i].slot ] = Append(slots, slot)
    BY <2>1, <2>2, <2>4 DEF slots
  <2> QED
    BY <2>3, <2>5 DEF slots, old
<1>4. Serial!GrantParking(vehicleId, zoneId)
  BY <1>1, <1>2, <1>3, ShownNext, SameSerial DEF Serial!GrantParking
<1> QED
  BY <1>4 DEF Serial!RequestParking

LEMMA SystemFields ==
    /\ System.zones = zones /\ System.isAvailable = isAvailable
    /\ System.vehicles = vehicles /\ System.requests = requests
    /\ System.capacity = capacity /\ System.history = history /\ System.stored = stored
    /\ System'.zones = zones' /\ System'.isAvailable = isAvailable'
    /\ System'.vehicles = vehicles' /\ System'.requests = requests'
    /\ System'.capacity = capacity' /\ System'.history = history' /\ System'.stored = stored'
  BY DEF System

LEMMA WritersPost ==
    ASSUME WorkersOK, NEW v \in Workers
    PROVE  /\ InRequestParking(worker[v]) <=> worker[v].at \in Finding \cup Storing
           /\ InRequestParking(worker[v]) => worker[v].call = "POST" /\ PostOK(worker[v])
  BY StepsOfCalls DEF InRequestParking, Finding, Storing

\* A step of requestParking moves its worker, which runs alone as before.
LEMMA WritersMove ==
    ASSUME TypeInv, NEW w \in Workers, RequestParkingStep(w)
    PROVE  \E x : Becomes(w, x) /\ x.alone = worker[w].alone /\ x.call = "POST"
<1>0. PostOK(worker[w]) /\ worker[w].call = "POST" /\ seeded' = seeded
  BY PostCalls DEF TypeInv
<1>1. ASSUME NEW at \in {"register", "search", "record", "answer"}, Becomes(w, At(worker[w], at)),
             at \in Finding => worker[w].at \in Finding
      PROVE  \E x : Becomes(w, x) /\ x.alone = worker[w].alone /\ x.call = "POST"
  <2>1. At(worker[w], at).alone = worker[w].alone
          /\ At(worker[w], at).call = "POST"
    BY <1>0, <1>1, NextStep DEF Finding, Storing
  <2> QED
    BY <1>1, <2>1
<1>2. CASE FindVehicle(w)
  <2>1. /\ worker[w].at \in Finding
        /\ \E at \in {"search", "register"} : Becomes(w, At(worker[w], at))
    BY <1>0, <1>2, FindStep DEF Finding
  <2> QED
    BY <1>1, <2>1
<1>3. CASE RegisterVehicle(w)
  <2>1. worker[w].at \in Finding /\ Becomes(w, At(worker[w], "search"))
    BY <1>0, <1>3, RegisterStep DEF Finding
  <2> QED
    BY <1>1, <2>1
<1>4. CASE SearchSlot(w)
  <2>1. ASSUME NEW slot, Becomes(w, WithSlot(worker[w], Len(requests), slot))
        PROVE  \E x : Becomes(w, x) /\ x.alone = worker[w].alone /\ x.call = "POST"
    <3>1. Len(requests) \in Int
      BY DEF TypeInv, SystemOK
    <3>2. WithSlot(worker[w], Len(requests), slot).alone = worker[w].alone
          /\ WithSlot(worker[w], Len(requests), slot).call = "POST"
      BY <1>0, <3>1, FoundSlot
    <3> QED
      BY <2>1, <3>2
  <2>2. ASSUME Becomes(w, At(worker[w], "answer"))
        PROVE  \E x : Becomes(w, x) /\ x.alone = worker[w].alone /\ x.call = "POST"
    BY <1>1, <2>2 DEF Finding
  <2> QED
    BY <1>0, <1>4, <2>1, <2>2, SearchStep
<1>5. CASE TakeSlot(w)
  <2>1. worker[w].at = "take" /\ Becomes(w, WithTaken(worker[w], isAvailable[worker[w].slot]))
    BY <1>5, TakeStep
  <2>2. isAvailable[worker[w].slot] \in BOOLEAN
    BY <2>1 DEF TypeInv, SystemOK, LinksOK, LinkOK, Storing
  <2>3. WithTaken(worker[w], isAvailable[worker[w].slot]).alone = worker[w].alone
          /\ WithTaken(worker[w], isAvailable[worker[w].slot]).call = "POST"
    BY <1>0, <2>2, TakenSlot
  <2> QED
    BY <2>1, <2>3
<1>6. CASE PushRequest(w)
  <2>1. Becomes(w, At(worker[w], "record"))
    BY <1>6, PushStep
  <2> QED
    BY <1>1, <2>1 DEF Finding
<1>7. CASE RecordAllocation(w)
  <2>1. Becomes(w, At(worker[w], "answer"))
    BY <1>7, RecordStep
  <2> QED
    BY <1>1, <2>1 DEF Finding
<1> QED
  BY <1>2, <1>3, <1>4, <1>5, <1>6, <1>7 DEF RequestParkingStep

\* A call that goes on in requestParking does to the system what Since says.
LEMMA SinceGoesOn ==
    ASSUME TypeInv, NEW w \in Workers, RequestParkingStep(w), NEW b,
           Since(b, System, worker[w]), worker[w].alone,
           worker'[w].at \in Finding \cup Storing
    PROVE  Since(b, System', worker'[w])
<1>0. PostOK(worker[w]) /\ worker[w].call = "POST" /\ seeded' = seeded
  BY PostCalls DEF TypeInv
<1>1. ASSUME NEW x, Becomes(w, x) PROVE worker'[w] = x
  BY <1>1, BecomesOne DEF TypeInv
<1>2. CASE FindVehicle(w)
  <2> DEFINE at == IF Found(worker[w].vehicleId) THEN "search" ELSE "register"
  <2>1. /\ worker[w].at = "find" /\ worker'[w] = At(worker[w], at)
        /\ Kept /\ UNCHANGED << vehicles, reply >>
    BY <1>0, <1>1, <1>2, FindStep
  <2>2. at \in {"search", "register"}
    OBVIOUS
  <2>3. /\ at = "search" => Found(worker[w].vehicleId)
        /\ at = "register" => ~Found(worker[w].vehicleId)
    OBVIOUS
  <2> HIDE DEF at
  <2>4. /\ worker'[w].at = at /\ worker'[w].vehicleId = worker[w].vehicleId
        /\ worker'[w].zoneId = worker[w].zoneId
    BY <1>0, <2>1, <2>2, NextStep DEF Finding
  <2>5. b.vehicles = vehicles
    BY <2>1, SystemFields DEF Since
  <2>6. at = "search" =>
          PS!RegisterVehicle(b.vehicles, worker[w].vehicleId, worker[w].zoneId) = b.vehicles
    BY <2>3, <2>5 DEF PS!RegisterVehicle, Found
  <2>7. at = "register" => \A i \in DOMAIN b.vehicles : b.vehicles[i].vehicleId # worker[w].vehicleId
    BY <2>3, <2>5 DEF Found
  <2> QED
    BY <2>1, <2>2, <2>4, <2>5, <2>6, <2>7, SystemFields DEF Since, Storing, Kept
<1>3. CASE RegisterVehicle(w)
  <2>1. /\ worker[w].at = "register" /\ worker'[w] = At(worker[w], "search") /\ Kept
    BY <1>0, <1>1, <1>3, RegisterStep
  <2>2. /\ worker'[w].at = "search" /\ worker'[w].vehicleId = worker[w].vehicleId
        /\ worker'[w].zoneId = worker[w].zoneId
    BY <1>0, <2>1, NextStep DEF Finding
  <2>3. vehicles' = PS!RegisterVehicle(b.vehicles, worker[w].vehicleId, worker[w].zoneId)
    BY <1>3, <2>1, SystemFields DEF RegisterVehicle, PS!RegisterVehicle, Since
  <2> QED
    BY <2>1, <2>2, <2>3, SystemFields DEF Since, Storing, Kept
<1>4. CASE SearchSlot(w)
  <2>1. worker[w].at = "search" /\ Kept /\ vehicles' = vehicles
    BY <1>0, <1>4, SearchStep
  <2>2. Len(requests) \in Int
    BY DEF TypeInv, SystemOK
  <2>3. PICK slot \in PS!AllocateSlot(worker[w].zoneId, zones, isAvailable) :
            Becomes(w, WithSlot(worker[w], Len(requests), slot))
    <3>1. CASE Becomes(w, At(worker[w], "answer"))
      <4>1. worker'[w].at = "answer"
        BY <1>0, <1>1, <3>1, NextStep DEF Finding
      <4> QED
        BY <4>1 DEF Finding, Storing
    <3> QED
      BY <1>0, <1>4, <3>1, SearchStep
  <2>4. /\ worker'[w].at = "take" /\ worker'[w].vehicleId = worker[w].vehicleId
        /\ worker'[w].zoneId = worker[w].zoneId
        /\ worker'[w].id = Len(requests) /\ worker'[w].slot = slot
    BY <1>0, <1>1, <2>2, <2>3, FoundSlot
  <2>5. /\ b.zones = zones /\ b.history = history /\ b.isAvailable = isAvailable
        /\ vehicles = PS!RegisterVehicle(b.vehicles, worker[w].vehicleId, worker[w].zoneId)
        /\ b.requests = requests /\ b.capacity = capacity /\ b.stored = stored
    BY <2>1, SystemFields DEF Since
  <2>6. worker'[w].slot \in PS!AllocateSlot(worker'[w].zoneId, b.zones, b.isAvailable)
    BY <2>3, <2>4, <2>5
  <2> QED
    BY <2>1, <2>4, <2>5, <2>6, SystemFields DEF Since, Kept
<1>5. CASE TakeSlot(w)
  <2> DEFINE x == WithTaken(worker[w], isAvailable[worker[w].slot])
  <2>1. /\ worker[w].at = "take" /\ worker'[w] = x
        /\ isAvailable' = [isAvailable EXCEPT ![worker[w].slot] = FALSE]
        /\ UNCHANGED << zones, vehicles, requests, capacity, history, reply, stored >>
    BY <1>1, <1>5, TakeStep
  <2>2. worker[w].slot \in ParkingSlots(zones) /\ isAvailable \in [ParkingSlots(zones) -> BOOLEAN]
    BY <2>1 DEF TypeInv, SystemOK, LinksOK, LinkOK, Storing
  <2>3. /\ x.at = "push" /\ x.previous = isAvailable[worker[w].slot]
        /\ x.id = worker[w].id /\ x.slot = worker[w].slot
        /\ x.vehicleId = worker[w].vehicleId /\ x.zoneId = worker[w].zoneId
    BY <1>0, <2>2, TakenSlot
  <2> HIDE DEF x
  <2>4. /\ b.zones = zones /\ b.history = history /\ b.isAvailable = isAvailable
        /\ vehicles = PS!RegisterVehicle(b.vehicles, worker[w].vehicleId, worker[w].zoneId)
        /\ b.requests = requests /\ b.capacity = capacity /\ b.stored = stored
        /\ worker[w].slot \in PS!AllocateSlot(worker[w].zoneId, b.zones, b.isAvailable)
        /\ worker[w].id = Len(b.requests)
    BY <2>1, SystemFields DEF Since, Storing
  <2> QED
    BY <2>1, <2>3, <2>4, SystemFields DEF Since
<1>6. CASE PushRequest(w)
  <2> DEFINE x == At(worker[w], "record")
  <2>1. /\ worker[w].at = "push" /\ worker'[w] = x
        /\ UNCHANGED << zones, isAvailable, vehicles, history, reply >>
        /\ requests' = Append(requests, PS!ChangeState(
                          PS!NewRequest(worker[w].vehicleId, worker[w].zoneId), "ALLOCATED"))
        /\ stored' = Append(stored, [ id |-> worker[w].id, slot |-> worker[w].slot,
                                      alone |-> worker[w].alone ])
        /\ capacity' = PS!CapacityAfterPush(Len(requests), capacity)
    BY <1>1, <1>6, PushStep
  <2>2. /\ x.at = "record" /\ x.previous = worker[w].previous
        /\ x.id = worker[w].id /\ x.slot = worker[w].slot
        /\ x.vehicleId = worker[w].vehicleId /\ x.zoneId = worker[w].zoneId
    BY <1>0, NextStep DEF Finding, Storing
  <2>3. worker[w].alone = TRUE
    BY <1>0 DEF PostOK
  <2> HIDE DEF x
  <2> QED
    BY <2>1, <2>2, <2>3, SystemFields DEF Since, Storing
<1>7. CASE RecordAllocation(w)
  <2>1. worker'[w] = At(worker[w], "answer")
    BY <1>1, <1>7, RecordStep
  <2>2. worker'[w].at = "answer"
    BY <1>0, <2>1, NextStep DEF Finding
  <2> QED
    BY <2>2 DEF Finding, Storing
<1> QED
  BY <1>2, <1>3, <1>4, <1>5, <1>6, <1>7 DEF RequestParkingStep

\* A step that leaves the system alone, and the workers that write: w, if it
\* moves at all, is none of them after it.
LEMMA QuietSince ==
    ASSUME TypeInv, AtomicInv, Quiet, before' = before,
           NEW w \in Workers, ~(worker'[w].at \in Finding \cup Storing),
           \A v \in Workers \ {w} : worker'[v] = worker[v]
    PROVE  AtomicInv'
<1>1. System' = System /\ StoredRequest' = StoredRequest
  BY DEF Quiet, System, StoredRequest
<1> SUFFICES ASSUME NEW v \in Workers, InRequestParking(worker'[v]), worker'[v].alone
             PROVE  Since(before', System', worker'[v]) /\ BeforeOK(before)'
  BY DEF AtomicInv
<1>2. v # w
  BY DEF InRequestParking, Finding, Storing
<1>3. Since(before, System, worker[v]) /\ BeforeOK(before)
  BY <1>2 DEF AtomicInv
<1> QED
  BY <1>1, <1>2, <1>3 DEF BeforeOK

LEMMA StepSince ==
    ASSUME TypeInv, OneAlone, AtomicInv, NEW w \in Workers, RequestParkingStep(w)
    PROVE  AtomicInv'
<1>0. PostOK(worker[w]) /\ worker[w].call = "POST" /\ seeded' = seeded
  BY PostCalls DEF TypeInv
<1>1. InRequestParking(worker[w])
  BY DEF RequestParkingStep, FindVehicle, RegisterVehicle, SearchSlot, TakeSlot,
         PushRequest, RecordAllocation, InRequestParking
<1>2. PICK x : Becomes(w, x) /\ x.alone = worker[w].alone
  BY <1>0, WritersMove
<1>3. worker'[w] = x /\ \A v \in Workers \ {w} : worker'[v] = worker[v]
  BY <1>2, BecomesOne DEF TypeInv
<1> SUFFICES ASSUME NEW v \in Workers, InRequestParking(worker'[v]), worker'[v].alone
             PROVE  Since(before', System', worker'[v]) /\ BeforeOK(before)'
  BY DEF AtomicInv
<1>4. v = w
  <2>1. CASE v # w
    <3>1. worker[v].call = "POST" /\ worker[v].alone
      BY <1>3, <2>1, WritersPost DEF TypeInv
    <3> QED
      BY <1>0, <3>1 DEF OneAlone
  <2> QED
    BY <2>1
<1>5. before' = before
  BY DEF RequestParkingStep
<1>6. Since(before, System, worker[w]) /\ BeforeOK(before) /\ worker[w].alone
  BY <1>1, <1>2, <1>3, <1>4 DEF AtomicInv
<1>7. worker'[w].at \in Finding \cup Storing
  BY <1>4 DEF InRequestParking, Finding, Storing
<1>8. Since(before, System', worker'[w])
  BY <1>6, <1>7, SinceGoesOn
<1>9. ParkingSlots(zones') = ParkingSlots(zones)
  <2>1. zones' = zones
    BY DEF RequestParkingStep, FindVehicle, RegisterVehicle, SearchSlot, TakeSlot,
           PushRequest, RecordAllocation
  <2> QED
    BY <2>1
<1>10. BeforeOK(before)'
  BY <1>5, <1>6, <1>9 DEF BeforeOK, StoredRequest
<1> QED
  BY <1>4, <1>5, <1>8, <1>10

LEMMA BeginSince ==
    ASSUME TypeInv, SharingInv, AtomicInv, NEW w \in Workers, NEW vehicleId \in Vehicles,
           NEW zoneId \in ZoneIds, BeginRequest(w, vehicleId, zoneId)
    PROVE  AtomicInv'
<1>1. /\ Quiet /\ worker'[w] = NewPost(vehicleId, zoneId)
      /\ \A v \in Workers \ {w} : worker'[v] = Contended[v]
  BY BeginSteps
<1>2. StaysTaken
  BY <1>1 DEF Quiet, StaysTaken
<1> SUFFICES ASSUME NEW v \in Workers, InRequestParking(worker'[v]), worker'[v].alone
             PROVE  Since(before', System', worker'[v]) /\ BeforeOK(before)'
  BY DEF AtomicInv
<1>3. v = w
  <2>1. CASE v # w
    <3>1. worker'[v] = Contended[v] /\ Contended[v].at = worker[v].at
          /\ (Contended[v].call = "POST" => ~Contended[v].alone)
          /\ Contended[v].call = worker[v].call
      BY <1>1, <2>1, ContendedCalls DEF TypeInv
    <3>2. InRequestParking(worker[v])
      BY <3>1 DEF InRequestParking
    <3> QED
      BY <3>1, <3>2, WritersPost DEF TypeInv
  <2> QED
    BY <2>1
<1>4. Posting = {}
  <2>1. NewPost(vehicleId, zoneId).alone <=> Posting = {}
    BY DEF NewPost
  <2> QED
    BY <1>1, <1>3, <2>1
<1>5. ~\E u \in Workers : InRequestParking(worker[u])
  BY <1>4, WritersPost DEF Posting, TypeInv
<1>6. before' = System /\ Len(requests) + Cardinality(Posting) < MaxRequests
  BY <1>5 DEF BeginRequest
<1>7. Len(requests) < MaxRequests
  BY <1>4, <1>6, FS_EmptySet DEF TypeInv, SystemOK
<1>8. BeforeOK(before)'
  <2>1. /\ stored \in Seq(StoredRequest) /\ StoredRequest' = StoredRequest
        /\ requests \in Seq(Request)
    BY <1>1 DEF TypeInv, SystemOK, Quiet, StoredRequest
  <2> QED
    BY <1>6, <1>7, <2>1, SystemFields DEF BeforeOK
<1>9. Since(System, System', worker'[w])
  BY <1>1, SystemFields DEF Since, Quiet, NewPost, Storing
<1> QED
  BY <1>3, <1>6, <1>8, <1>9

LEMMA NextSince == TypeInv /\ SharingInv /\ AtomicInv /\ [Next]_vars => AtomicInv'
<1> SUFFICES ASSUME TypeInv, SharingInv, AtomicInv, [Next]_vars PROVE AtomicInv'
  OBVIOUS
<1>1. CASE SeedDemo
  <2>1. worker' = worker /\ \A v \in Workers : worker[v] = Idle
    BY <1>1, SeedSteps, DemoAssumption DEF TypeInv, SeededFirst, SystemOK
  <2> QED
    BY <2>1 DEF AtomicInv, InRequestParking, Idle
<1>2. ASSUME NEW w \in Workers, status = "running", Reading(w) PROVE AtomicInv'
  <2>1. /\ Quiet /\ before' = before /\ Becomes(w, worker'[w])
        /\ worker'[w] = Idle \/ GetOK(worker'[w])
    BY <1>2, GetSteps
  <2>2. \A v \in Workers \ {w} : worker'[v] = worker[v]
    BY <2>1, BecomesOne DEF TypeInv
  <2>3. ~(worker'[w].at \in Finding \cup Storing)
    BY <2>1 DEF Idle, GetOK, Finding, Storing
  <2> QED
    BY <2>1, <2>2, <2>3, QuietSince
<1>3. ASSUME NEW w \in Workers, AnswerRequest(w) PROVE AtomicInv'
  <2>1. Quiet /\ before' = before /\ Becomes(w, Idle)
    BY <1>3, AnswerStep
  <2>2. worker'[w] = Idle /\ \A v \in Workers \ {w} : worker'[v] = worker[v]
    BY <2>1, BecomesOne DEF TypeInv
  <2>3. ~(worker'[w].at \in Finding \cup Storing)
    BY <2>2 DEF Idle, Finding, Storing
  <2> QED
    BY <2>1, <2>2, <2>3, QuietSince
<1>4. ASSUME NEW w \in Workers, Step(w) PROVE AtomicInv'
  BY <1>2, <1>3, <1>4, StepSince DEF Step, Reading, SharingInv
<1>5. ASSUME NEW w \in Workers, NEW zone \in ZoneShapes, CreateZone(w, zone) PROVE AtomicInv'
  <2>1. worker' = Contended
    BY <1>5, CreateSteps
  <2>2. ASSUME NEW v \in Workers, InRequestParking(Contended[v]) PROVE ~Contended[v].alone
    <3>1. InRequestParking(worker[v])
      BY <2>2, ContendedCalls DEF InRequestParking, TypeInv
    <3> QED
      BY <3>1, WritersPost, ContendedCalls DEF TypeInv
  <2> QED
    BY <2>1, <2>2 DEF AtomicInv
<1>6. ASSUME NEW w \in Workers, Arrival(w) PROVE AtomicInv'
  <2>1. ASSUME NEW call \in Gets, NEW z \in ZoneIds, BeginGet(w, call, z) PROVE AtomicInv'
    BY <1>2, <2>1 DEF BeginGet, Serving, Reading
  <2> QED
    BY <1>5, <1>6, <2>1, BeginSince DEF Arrival
<1>7. CASE UNCHANGED vars
  BY <1>7 DEF vars, AtomicInv, System, BeforeOK, StoredRequest
<1> QED
  BY <1>1, <1>4, <1>6, <1>7 DEF Next

\* The system shown while a call is half done, and while none is.
LEMMA WhatIsShown ==
    /\ (\E v \in Workers : InRequestParking(worker[v])) => Shown = before
    /\ ~(\E v \in Workers : InRequestParking(worker[v])) => Shown = System
    /\ (\E v \in Workers : InRequestParking(worker'[v])) => Shown' = before'
    /\ ~(\E v \in Workers : InRequestParking(worker'[v])) => Shown' = System'
  BY DEF Shown

\* What a step of the server is to the parking system seen call by call.
SerialStep == Serial!Next \/ UNCHANGED Serial!vars \/ status' = "undefined"

\* A step that leaves the system and the calls that write alone.
LEMMA QuietSerial ==
    ASSUME TypeInv, Quiet, before' = before, status = "running",
           status' \in {"running", "undefined"},
           NEW w \in Workers, ~(worker'[w].at \in Finding \cup Storing),
           ~(worker[w].at \in Finding \cup Storing),
           \A v \in Workers \ {w} : worker'[v] = worker[v]
    PROVE  SerialStep
<1>1. System' = System
  BY DEF Quiet, System
<1>2. \A v \in Workers : InRequestParking(worker'[v]) <=> InRequestParking(worker[v])
  BY DEF InRequestParking, Finding, Storing
<1>3. Shown' = Shown
  BY <1>1, <1>2 DEF Shown
<1> QED
  BY <1>3, SerialStutters DEF SerialStep

\* The answer of a call that runs alone: the operation it performed.
LEMMA StepSerial ==
    ASSUME TypeInv, OneAlone, AtomicInv, NEW w \in Workers, status = "running",
           RequestParkingStep(w), worker[w].alone
    PROVE  SerialStep
<1>0. /\ PostOK(worker[w]) /\ worker[w].call = "POST" /\ seeded' = seeded
      /\ status' \in {"running", "undefined"}
  BY PostCalls DEF TypeInv
<1>1. InRequestParking(worker[w])
  BY DEF RequestParkingStep, FindVehicle, RegisterVehicle, SearchSlot, TakeSlot,
         PushRequest, RecordAllocation, InRequestParking
<1>2. Shown = before /\ Since(before, System, worker[w]) /\ BeforeOK(before)
  BY <1>1, WhatIsShown DEF AtomicInv
<1>3. CASE \E v \in Workers : InRequestParking(worker'[v])
  <2>1. before' = before
    BY <1>3 DEF RequestParkingStep
  <2>2. Shown' = Shown
    BY <1>2, <1>3, <2>1, WhatIsShown
  <2> QED
    BY <1>0, <2>2, SerialStutters DEF SerialStep
<1>4. CASE ~(\E v \in Workers : InRequestParking(worker'[v])) /\ status' = "running"
  <2>0. Shown' = System'
    BY <1>4, WhatIsShown
  <2> DEFINE x == worker[w]
  <2>1. worker'[w].at \notin Finding \cup Storing
    BY <1>4 DEF InRequestParking, Finding, Storing
  <2>2. ASSUME NEW y, Becomes(w, y) PROVE worker'[w] = y
    BY <2>2, BecomesOne DEF TypeInv
  <2>3. x.vehicleId \in Vehicles /\ x.zoneId \in ZoneIds
    BY <1>0 DEF PostOK
  <2> PICK vehicleId \in Vehicles, zoneId \in ZoneIds :
             vehicleId = x.vehicleId /\ zoneId = x.zoneId
    BY <2>3
  <2>4. ASSUME NEW at \in {"search", "record"}, worker'[w] = At(worker[w], at),
               at \in Finding => worker[w].at \in Finding
        PROVE  FALSE
    <3>1. worker'[w].at = at
      BY <1>0, <2>4, NextStep DEF Finding, Storing
    <3> QED
      BY <2>1, <3>1 DEF Finding, Storing
  <2>5. CASE SearchSlot(w)
    <3>1. /\ x.at = "search" /\ Kept /\ vehicles' = vehicles
          /\ PS!AllocateSlot(x.zoneId, zones, isAvailable) = {}
          /\ reply' = PS!Reply("requestParking", -1, FALSE)
      <4>1. ASSUME NEW slot, Becomes(w, WithSlot(worker[w], Len(requests), slot))
            PROVE  FALSE
        <5>1. Len(requests) \in Int
          BY DEF TypeInv, SystemOK
        <5>2. worker'[w].at = "take"
          BY <1>0, <2>2, <4>1, <5>1, FoundSlot
        <5> QED
          BY <2>1, <5>2 DEF Storing
      <4> QED
        BY <1>0, <2>5, <4>1, SearchStep
    <3>2. /\ zones = before.zones /\ isAvailable = before.isAvailable
          /\ vehicles = PS!RegisterVehicle(before.vehicles, x.vehicleId, x.zoneId)
          /\ requests = before.requests /\ capacity = before.capacity
          /\ history = before.history /\ stored = before.stored
      BY <1>2, <3>1, SystemFields DEF Since
    <3>3. Serial!RequestParking(vehicleId, zoneId)
      BY <1>2, <1>4, <2>0, <3>1, <3>2, SerialRefuse DEF Kept
    <3> QED
      BY <3>3 DEF SerialStep, Serial!Next
  <2>6. CASE RecordAllocation(w)
    <3>1. /\ x.at = "record"
          /\ UNCHANGED << zones, isAvailable, vehicles, requests, capacity, stored >>
          /\ history' = PS!RecordAllocation(history,
                           PS!AllocationRecord(x.slot, x.previous,
                              PS!RequestPointer(Len(requests) - 1, capacity), "REQUESTED"))
          /\ reply' = PS!Reply("requestParking", x.id, TRUE)
      BY <2>6, RecordStep DEF PS!RecordAllocation
    <3> DEFINE request == PS!ChangeState(PS!NewRequest(x.vehicleId, x.zoneId), "ALLOCATED")
               record  == [id |-> x.id, slot |-> x.slot, alone |-> TRUE]
    <3>2. /\ zones = before.zones
          /\ isAvailable = [before.isAvailable EXCEPT ![x.slot] = FALSE]
          /\ x.previous = before.isAvailable[x.slot]
          /\ vehicles = PS!RegisterVehicle(before.vehicles, x.vehicleId, x.zoneId)
          /\ requests = Append(before.requests, request)
          /\ capacity = PS!CapacityAfterPush(Len(before.requests), before.capacity)
          /\ history = before.history /\ stored = Append(before.stored, record)
          /\ x.slot \in PS!AllocateSlot(x.zoneId, before.zones, before.isAvailable)
          /\ x.id = Len(before.requests)
      BY <1>2, <3>1, SystemFields DEF Since, Storing
    <3>3. before.stored \in Seq(StoredRequest) /\ Len(before.requests) < MaxRequests
      BY <1>2 DEF BeforeOK
    <3>4. record.slot = x.slot
      OBVIOUS
    <3> HIDE DEF record
    <3>5. request \in Request
      BY <2>3, PushedRequest
    <3> HIDE DEF request
    <3>6. PS!RequestPointer(Len(requests) - 1, capacity)
             = PS!BackAfterPush(Len(before.requests), before.capacity)
      <4>1. Len(requests) = Len(before.requests) + 1
        BY <1>2, <3>2, <3>5 DEF BeforeOK
      <4>2. Len(before.requests) \in Nat
        BY <1>2 DEF BeforeOK
      <4> QED
        BY <3>2, <4>1, <4>2 DEF PS!BackAfterPush
    <3> HIDE DEF x
    <3>7. Serial!RequestParking(vehicleId, zoneId)
      BY <1>2, <1>4, <2>0, <3>1, <3>2, <3>3, <3>4, <3>6, SerialGrant DEF request
    <3> QED
      BY <3>7 DEF SerialStep, Serial!Next
  <2>7. CASE FindVehicle(w)
    <3>1. /\ worker[w].at \in Finding
          /\ \E at \in {"search", "register"} : Becomes(w, At(worker[w], at))
      BY <1>0, <2>7, FindStep DEF Finding
    <3>2. PICK at \in {"search", "register"} : worker'[w] = At(worker[w], at)
      BY <2>2, <3>1
    <3>3. worker'[w].at = at
      BY <1>0, <3>1, <3>2, NextStep DEF Finding
    <3> QED
      BY <2>1, <3>3 DEF Finding
  <2>8. CASE RegisterVehicle(w)
    BY <1>0, <2>2, <2>4, <2>8, RegisterStep DEF Finding
  <2>9. CASE TakeSlot(w)
    <3>1. worker[w].at = "take" /\ worker'[w] = WithTaken(worker[w], isAvailable[worker[w].slot])
      BY <2>2, <2>9, TakeStep
    <3>2. isAvailable[worker[w].slot] \in BOOLEAN
      BY <3>1 DEF TypeInv, SystemOK, LinksOK, LinkOK, Storing
    <3>3. worker'[w].at = "push"
      BY <1>0, <3>1, <3>2, TakenSlot
    <3> QED
      BY <2>1, <3>3 DEF Storing
  <2>10. CASE PushRequest(w)
    BY <2>2, <2>4, <2>10, PushStep DEF Finding
  <2> QED
    BY <2>5, <2>6, <2>7, <2>8, <2>9, <2>10 DEF RequestParkingStep
<1> QED
  BY <1>0, <1>3, <1>4 DEF SerialStep

\* seedDemo calls the parking system, one operation at a time.
LEMMA SeedSerial ==
    ASSUME TypeInv, SeedDemo
    PROVE  SerialStep
<1>1. /\ worker' = worker /\ status' = status /\ status = "running"
      /\ seeded < Len(DemoZones) + Len(DemoRequests)
  BY SeedSteps DEF TypeInv
<1>2. \A v \in Workers : worker[v] = Idle
  BY <1>1, DemoAssumption DEF TypeInv, SeededFirst, SystemOK
<1>3. Shown = System /\ Shown' = System'
  BY <1>1, <1>2, WhatIsShown DEF InRequestParking, Idle
<1>4. /\ Shown.zones = zones /\ Shown.isAvailable = isAvailable
      /\ Shown.vehicles = vehicles /\ Shown.requests = requests
      /\ Shown.capacity = capacity /\ Shown.history = history
      /\ Shown.stored = stored
  BY <1>3, ShownFields
<1>5. requests \in Seq(Request) /\ stored \in Seq(StoredRequest)
  BY DEF TypeInv, SystemOK
<1>6. \A request : requests # Append(requests, request)
  BY <1>5
<1>7. ASSUME NEW zone \in ZoneShapes, PS!AddZone(zone), ZoneAdded(zone)
      PROVE  SerialStep
  BY <1>3, <1>7, SerialAdd DEF ZoneAdded, SerialStep, Serial!Next
<1>8. ASSUME NEW vehicleId \in Vehicles, NEW zoneId \in ZoneIds,
             PS!RequestParking(vehicleId, zoneId),
             UNCHANGED << zones, isAvailable, requests, capacity, history, stored >>
      PROVE  SerialStep
  <2>1. PS!RefuseParking(vehicleId, zoneId)
    BY <1>6, <1>8 DEF PS!RequestParking, PS!GrantParking
  <2>2. PS!AllocateSlot(zoneId, zones, isAvailable) = {}
    <3>1. zones = << >> => \A slot : slot \notin PS!AllocateSlot(zoneId, zones, isAvailable)
      BY FoundIsFree, SlotPlace
    <3> QED
      BY <2>1, <3>1 DEF PS!RefuseParking
  <2>3. Serial!RequestParking(vehicleId, zoneId)
    BY <1>1, <1>3, <1>4, <1>8, <2>1, <2>2, SerialRefuse DEF PS!RefuseParking
  <2> QED
    BY <2>3 DEF SerialStep, Serial!Next
<1>9. ASSUME NEW vehicleId \in Vehicles, NEW zoneId \in ZoneIds,
             PS!RequestParking(vehicleId, zoneId),
             NEW slot \in PS!AllocateSlot(zoneId, zones, isAvailable),
             SeedStores(vehicleId, zoneId, slot)
      PROVE  SerialStep
  <2>1. PS!GrantParking(vehicleId, zoneId)
    BY <1>6, <1>9 DEF PS!RequestParking, PS!RefuseParking, SeedStores
  <2>2. /\ Len(requests) < MaxRequests
        /\ vehicles' = PS!RegisterVehicle(vehicles, vehicleId, zoneId)
        /\ reply' = PS!Reply("requestParking", Len(requests), TRUE)
    BY <2>1 DEF PS!GrantParking
  <2>3. [id |-> Len(requests), slot |-> slot, alone |-> TRUE].slot = slot
    OBVIOUS
  <2>4. Serial!RequestParking(vehicleId, zoneId)
    BY <1>1, <1>3, <1>4, <1>5, <1>9, <2>2, <2>3, SerialGrant DEF SeedStores
  <2> QED
    BY <2>4 DEF SerialStep, Serial!Next
<1> QED
  BY <1>7, <1>8, <1>9, SeedSteps DEF TypeInv

\* A zone is created: an operation of its own, or hidden behind a call that is
\* half done.
LEMMA CreateSerial ==
    ASSUME TypeInv, NEW w \in Workers, NEW zone \in ZoneShapes, CreateZone(w, zone)
    PROVE  SerialStep
<1>1. /\ status = "running" /\ status' \in {"running", "undefined"}
      /\ worker' = Contended /\ before' = before
      /\ PS!AddZone(zone) \/ status' = "undefined"
      /\ UNCHANGED stored
  <2>1. status' \in {"running", "undefined"} /\ UNCHANGED stored
    BY HarmStatus DEF CreateZone
  <2>2. UNCHANGED assignedSlot
    BY <2>1 DEF assignedSlot
  <2> QED
    BY <2>1, <2>2 DEF CreateZone, Serving, PS!AddZone
<1>2. \A v \in Workers : InRequestParking(worker'[v]) <=> InRequestParking(worker[v])
  BY <1>1, ContendedCalls DEF InRequestParking, TypeInv
<1>3. CASE \E v \in Workers : InRequestParking(worker[v])
  <2>1. Shown' = Shown
    BY <1>1, <1>2, <1>3, WhatIsShown
  <2> QED
    BY <1>1, <2>1, SerialStutters DEF SerialStep
<1>4. CASE ~\E v \in Workers : InRequestParking(worker[v])
  <2>1. Shown = System /\ Shown' = System'
    BY <1>2, <1>4, WhatIsShown
  <2> QED
    BY <1>1, <2>1, SerialAdd DEF SerialStep, Serial!Next
<1> QED
  BY <1>3, <1>4

\* A POST begins: what is shown stays the system as it is now.
LEMMA BeginSerial ==
    ASSUME TypeInv, NEW w \in Workers, NEW vehicleId \in Vehicles, NEW zoneId \in ZoneIds,
           BeginRequest(w, vehicleId, zoneId)
    PROVE  SerialStep
<1>1. status' = status /\ InRequestParking(worker'[w])
  <2>1. worker'[w] = NewPost(vehicleId, zoneId) /\ status' = status
    BY BeginSteps
  <2>2. NewPost(vehicleId, zoneId).at = "find"
    BY DEF NewPost
  <2> QED
    BY <2>1, <2>2 DEF InRequestParking
<1>2. Shown' = before'
  BY <1>1, WhatIsShown
<1>3. before' = Shown
  BY WhatIsShown DEF BeginRequest
<1> QED
  BY <1>1, <1>2, <1>3, SerialStutters DEF SerialStep

LEMMA NextSerial ==
    ASSUME TypeInv, SharingInv, AtomicInv, [Next]_vars
    PROVE  \/ SerialStep
           \/ \E w \in Workers : InRequestParking(worker[w]) /\ ~worker[w].alone
<1> SUFFICES ASSUME \A w \in Workers : InRequestParking(worker[w]) => worker[w].alone
             PROVE  SerialStep
  OBVIOUS
<1>1. CASE SeedDemo
  BY <1>1, SeedSerial
<1>2. ASSUME NEW w \in Workers, status = "running", Reading(w) PROVE SerialStep
  <2>1. /\ Quiet /\ before' = before /\ Becomes(w, worker'[w]) /\ worker[w].call # "POST"
        /\ status' \in {"running", "undefined"}
        /\ worker'[w] = Idle \/ GetOK(worker'[w])
    BY <1>2, GetSteps
  <2>2. \A v \in Workers \ {w} : worker'[v] = worker[v]
    BY <2>1, BecomesOne DEF TypeInv
  <2>3. ~(worker'[w].at \in Finding \cup Storing)
    BY <2>1 DEF Idle, GetOK, Finding, Storing
  <2>4. ~(worker[w].at \in Finding \cup Storing)
    BY <2>1, StepsOfCalls DEF TypeInv
  <2> QED
    BY <1>2, <2>1, <2>2, <2>3, <2>4, QuietSerial
<1>3. ASSUME NEW w \in Workers, status = "running", AnswerRequest(w) PROVE SerialStep
  <2>1. /\ Quiet /\ before' = before /\ Becomes(w, Idle) /\ worker[w].at = "answer"
        /\ status' \in {"running", "undefined"}
    BY <1>3, AnswerStep, PostCalls DEF TypeInv
  <2>2. worker'[w] = Idle /\ \A v \in Workers \ {w} : worker'[v] = worker[v]
    BY <2>1, BecomesOne DEF TypeInv
  <2>3. ~(worker'[w].at \in Finding \cup Storing) /\ ~(worker[w].at \in Finding \cup Storing)
    BY <2>1, <2>2 DEF Idle, Finding, Storing
  <2> QED
    BY <1>3, <2>1, <2>2, <2>3, QuietSerial
<1>4. ASSUME NEW w \in Workers, status = "running", RequestParkingStep(w) PROVE SerialStep
  <2>1. InRequestParking(worker[w])
    BY <1>4 DEF RequestParkingStep, FindVehicle, RegisterVehicle, SearchSlot, TakeSlot,
           PushRequest, RecordAllocation, InRequestParking
  <2> QED
    BY <1>4, <2>1, StepSerial DEF SharingInv
<1>5. ASSUME NEW w \in Workers, Step(w) PROVE SerialStep
  BY <1>2, <1>3, <1>4, <1>5 DEF Step, Reading
<1>6. ASSUME NEW w \in Workers, Arrival(w) PROVE SerialStep
  <2>1. ASSUME NEW call \in Gets, NEW z \in ZoneIds, BeginGet(w, call, z) PROVE SerialStep
    BY <1>2, <2>1 DEF BeginGet, Serving, Reading
  <2> QED
    BY <1>6, <2>1, BeginSerial, CreateSerial DEF Arrival
<1>7. CASE UNCHANGED vars
  <2>1. UNCHANGED Shown
    BY <1>7 DEF vars, Shown, System, InRequestParking
  <2> QED
    BY <1>7, <2>1, SerialStutters DEF SerialStep, vars
<1> QED
  BY <1>1, <1>5, <1>6, <1>7 DEF Next

LEMMA InitSince == Init => AtomicInv
  BY DEF Init, AtomicInv, InRequestParking, Idle

LEMMA AlwaysSince == Spec => []AtomicInv
<1>1. TypeInv /\ SharingInv /\ AtomicInv /\ [Next]_vars => AtomicInv'
  BY NextSince
<1> QED
  BY <1>1, InitSince, AlwaysTyped, AlwaysShares, PTL DEF Spec

\* Whatever overlapping calls left behind, a call that overlaps no other has
\* the effect of exactly one operation of the parking system; nothing else
\* that the handlers do changes it (ParkingSystem.cpp:14-69, Server.cpp:289).
THEOREM ServerAtomic == Spec => AloneIsAtomic
<1>1. TypeInv /\ SharingInv /\ AtomicInv /\ [Next]_vars
        => [ \/ Serial!Next \/ UNCHANGED Serial!vars \/ status' = "undefined"
             \/ \E w \in Workers : InRequestParking(worker[w]) /\ ~worker[w].alone ]_vars
  BY NextSerial DEF SerialStep
<1> QED
  BY <1>1, AlwaysTyped, AlwaysShares, AlwaysSince, PTL DEF Spec, AloneIsAtomic

-----------------------------------------------------------------------------
(* What a dashboard shows *)

LEMMA FiniteRange ==
    ASSUME NEW S, IsFiniteSet(S), NEW f, DOMAIN f = S
    PROVE  IsFiniteSet({ f[x] : x \in S })
<1> DEFINE T == { f[x] : x \in S }
           g == [x \in S |-> f[x]]
<1>1. g \in Surjection(S, T)
  BY DEF Surjection
<1> QED
  BY <1>1, FS_Surjection

\* A system has finitely many slots.
LEMMA FiniteSlots ==
    ASSUME TypeInv
    PROVE  IsFiniteSet(ParkingSlots(zones))
<1>1. zones \in Seq(Zone) /\ Len(zones) \in Nat /\ DOMAIN zones = 1 .. Len(zones)
  BY DEF TypeInv, SystemOK
<1>2. ASSUME NEW z \in DOMAIN zones PROVE IsFiniteSet(SlotsOfZone(zones, z))
  <2> DEFINE areas == zones[z].parkingAreas
             f     == [a \in DOMAIN areas |-> SlotsOfArea(zones, z, a)]
  <2>1. areas \in Seq(Nat) /\ DOMAIN areas = 1 .. Len(areas) /\ Len(areas) \in Nat
    <3>1. zones[z] \in Zone
      BY <1>1, SeqElement
    <3>2. zones[z].parkingAreas \in Seq(Nat)
      BY <3>1 DEF Zone
    <3> QED
      BY <3>2
  <2>2. ASSUME NEW a \in DOMAIN areas PROVE IsFiniteSet(SlotsOfArea(zones, z, a))
    <3> DEFINE g == [s \in 1 .. areas[a] |-> <<z, a, s>>]
    <3>1. areas[a] \in Nat
      BY <2>1
    <3>2. IsFiniteSet(1 .. areas[a])
      BY <3>1, FS_Interval
    <3>3. IsFiniteSet({ g[s] : s \in 1 .. areas[a] })
      BY <3>2, FiniteRange
    <3>4. { g[s] : s \in 1 .. areas[a] } = { <<z, a, s>> : s \in 1 .. areas[a] }
      <4>1. \A s \in 1 .. areas[a] : g[s] = <<z, a, s>>
        OBVIOUS
      <4> HIDE DEF g
      <4> QED
        BY <4>1
    <3> QED
      BY <3>3, <3>4 DEF SlotsOfArea
  <2>3. IsFiniteSet(DOMAIN areas)
    BY <2>1, FS_Interval
  <2>4. IsFiniteSet({ f[a] : a \in DOMAIN areas })
    BY <2>3, FiniteRange
  <2>5. IsFiniteSet(UNION { f[a] : a \in DOMAIN areas })
    BY <2>2, <2>4, FS_UNION
  <2> QED
    BY <2>5 DEF SlotsOfZone
<1> DEFINE h == [z \in DOMAIN zones |-> SlotsOfZone(zones, z)]
<1>3. IsFiniteSet(DOMAIN zones)
  BY <1>1, FS_Interval
<1>4. IsFiniteSet({ h[z] : z \in DOMAIN zones })
  BY <1>3, FiniteRange
<1>5. IsFiniteSet(UNION { h[z] : z \in DOMAIN zones })
  BY <1>2, <1>4, FS_UNION
<1> QED
  BY <1>5 DEF ParkingSlots

LEMMA OccupiedFinite ==
    TypeInv => IsFiniteSet(Occupied) /\ Occupied \subseteq ParkingSlots(zones)
<1> SUFFICES ASSUME TypeInv PROVE IsFiniteSet(Occupied) /\ Occupied \subseteq ParkingSlots(zones)
  OBVIOUS
<1>1. Occupied \subseteq ParkingSlots(zones)
  BY DEF Occupied, TypeInv, SystemOK
<1> QED
  BY <1>1, FiniteSlots, FS_Subset

\* No request was cancelled: all of them are active.
LEMMA AllActive ==
    ASSUME TypeInv
    PROVE  /\ Active = 1 .. Len(requests) /\ Len(requests) \in Nat
           /\ Cardinality(Active) = Len(requests)
<1>1. Active = 1 .. Len(requests) /\ Len(requests) \in Nat
  BY DEF Active, TypeInv, SystemOK
<1>2. ASSUME NEW n \in Nat PROVE Cardinality(1 .. n) = n
  <2>1. Cardinality(1 .. n) = IF 1 > n THEN 0 ELSE n - 1 + 1
    BY FS_Interval
  <2> QED
    BY <2>1
<1> QED
  BY <1>1, <1>2

Place == Nat \X Nat \X Nat

LEMMA HasLeast ==
    ASSUME NEW S, S \subseteq Nat, S # {}
    PROVE  \E i \in S : \A j \in S : i <= j
<1>1. First(S) # {}
  BY LeastHit, Zenon
<1> QED
  BY <1>1 DEF First

\* A loop over the places goes on with one of those that are left.
LEMMA NextIsLeft ==
    ASSUME NEW todo, todo \subseteq Place, todo # {}
    PROVE  NextPlace(todo) \in todo
<1> DEFINE firsts == { p[1] : p \in todo }
<1>1. firsts \subseteq Nat /\ firsts # {}
  BY DEF Place
<1>2. PICK a \in firsts : \A j \in firsts : a <= j
  BY <1>1, HasLeast
<1> DEFINE seconds == { p[2] : p \in { q \in todo : q[1] = a } }
<1>3. seconds \subseteq Nat /\ seconds # {}
  BY <1>2 DEF Place
<1>4. PICK b \in seconds : \A j \in seconds : b <= j
  BY <1>3, HasLeast
<1> DEFINE thirds == { p[3] : p \in { q \in todo : q[1] = a /\ q[2] = b } }
<1>5. thirds \subseteq Nat /\ thirds # {}
  BY <1>4 DEF Place
<1>6. PICK c \in thirds : \A j \in thirds : c <= j
  BY <1>5, HasLeast
<1>7. PICK p \in todo : p[1] = a /\ p[2] = b /\ p[3] = c
  BY <1>6
<1>8. ASSUME NEW q \in todo \ {p} PROVE PS!Before(p, q)
  <2>1. /\ p = <<p[1], p[2], p[3]>> /\ q = <<q[1], q[2], q[3]>>
        /\ q[1] \in Nat /\ q[2] \in Nat /\ q[3] \in Nat
    BY DEF Place
  <2>2. a <= q[1]
    BY <1>2
  <2>3. q[1] = a => b <= q[2]
    BY <1>4
  <2>4. q[1] = a /\ q[2] = b => c <= q[3]
    BY <1>6
  <2>5. ~(q[1] = a /\ q[2] = b /\ q[3] = c)
    BY <1>7, <2>1
  <2>6. a \in Nat /\ b \in Nat /\ c \in Nat
    BY <1>1, <1>2, <1>3, <1>4, <1>5, <1>6
  <2> HIDE DEF firsts, seconds, thirds
  <2> QED
    BY <1>7, <2>1, <2>2, <2>3, <2>4, <2>5, <2>6 DEF PS!Before
<1> QED
  BY <1>7, <1>8 DEF NextPlace

\* What a dashboard has counted: the slots that are taken, but for those it
\* has still to visit; then the requests, one by one.
Seen(x, occupied, slots, stores) ==
    /\ x.todo \subseteq Place
    /\ \A p \in x.todo : p[3] = 0 \/ p \in slots
    /\ x.occupied \in Nat /\ x.wasOccupied \in Nat /\ x.wasActive \in Nat
    /\ x.occupied <= Cardinality(occupied \ x.todo)
    /\ x.wasOccupied <= x.occupied + Cardinality(occupied \cap x.todo)
    /\ x.at = "slots" => x.active = 0 /\ x.next = 1 /\ x.wasActive <= stores
    /\ x.at = "requests" =>
         /\ x.todo = {}
         /\ x.requests \in x.wasActive .. stores
         /\ x.next \in 1 .. x.requests + 1
         /\ x.active = x.next - 1

DashboardInv ==
    \A w \in Workers : worker[w].call = "dashboard" =>
        Seen(worker[w], Occupied, ParkingSlots(zones), Len(requests))

LEMMA DashboardImplied == TypeInv /\ DashboardInv => DashboardInWindow
<1> SUFFICES ASSUME TypeInv, DashboardInv, NEW w \in Workers, worker[w].call = "dashboard"
             PROVE  /\ worker[w].occupied <= Cardinality(Occupied)
                    /\ worker[w].active <= Cardinality(Active)
                    /\ worker[w].todo = {} => worker[w].occupied >= worker[w].wasOccupied
                    /\ worker[w].at = "requests" /\ worker[w].next > worker[w].requests
                         => worker[w].active >= worker[w].wasActive
  BY DEF DashboardInWindow
<1> DEFINE x == worker[w]
<1>1. Seen(x, Occupied, ParkingSlots(zones), Len(requests)) /\ x.at \in {"slots", "requests"}
  BY StepsOfCalls DEF DashboardInv, TypeInv, GetCalls, GetOK
<1> HIDE DEF x
<1>2. Len(requests) \in Nat /\ Cardinality(Active) = Len(requests)
  BY AllActive
<1>3. /\ Cardinality(Occupied \ x.todo) <= Cardinality(Occupied)
      /\ Cardinality(Occupied \ x.todo) \in Nat /\ Cardinality(Occupied) \in Nat
  <2>1. IsFiniteSet(Occupied) /\ Occupied \ x.todo \in SUBSET Occupied
    BY OccupiedFinite
  <2> QED
    BY <2>1, FS_Subset, FS_CardinalityType
<1>4. x.occupied <= Cardinality(Occupied)
  BY <1>1, <1>3 DEF Seen
<1>5. x.active <= Cardinality(Active)
  BY <1>1, <1>2 DEF Seen
<1>6. x.todo = {} => x.occupied >= x.wasOccupied
  <2>1. x.todo = {} => Occupied \cap x.todo = {}
    OBVIOUS
  <2> QED
    BY <1>1, <2>1, FS_EmptySet DEF Seen
<1>7. x.at = "requests" /\ x.next > x.requests => x.active >= x.wasActive
  BY <1>1, <1>2 DEF Seen
<1> QED
  BY <1>4, <1>5, <1>6, <1>7 DEF x

\* What others add to the system does not invalidate what was seen.
LEMMA SeenStays ==
    ASSUME NEW x, NEW o, NEW o2, NEW slots, NEW slots2, NEW n \in Nat, NEW n2 \in Nat,
           Seen(x, o, slots, n), o \subseteq o2, IsFiniteSet(o2), slots \subseteq slots2, n <= n2
    PROVE  Seen(x, o2, slots2, n2)
<1>1. /\ IsFiniteSet(o2 \ x.todo) /\ IsFiniteSet(o2 \cap x.todo)
      /\ o \ x.todo \in SUBSET (o2 \ x.todo) /\ o \cap x.todo \in SUBSET (o2 \cap x.todo)
  <2>1. o2 \ x.todo \in SUBSET o2 /\ o2 \cap x.todo \in SUBSET o2
    OBVIOUS
  <2> QED
    BY <2>1, FS_Subset
<1>2. /\ Cardinality(o \ x.todo) <= Cardinality(o2 \ x.todo)
      /\ Cardinality(o \cap x.todo) <= Cardinality(o2 \cap x.todo)
      /\ IsFiniteSet(o \ x.todo) /\ IsFiniteSet(o \cap x.todo)
  BY <1>1, FS_Subset
<1>3. /\ Cardinality(o \ x.todo) \in Nat /\ Cardinality(o2 \ x.todo) \in Nat
      /\ Cardinality(o \cap x.todo) \in Nat /\ Cardinality(o2 \cap x.todo) \in Nat
  BY <1>1, <1>2, FS_CardinalityType
<1>4. x.at = "requests" => x.requests \in x.wasActive .. n2
  BY DEF Seen
<1>5. x.at = "slots" => x.active = 0 /\ x.next = 1 /\ x.wasActive <= n2
  BY DEF Seen
<1> QED
  BY <1>2, <1>3, <1>4, <1>5 DEF Seen

\* No step frees a slot, or takes a slot or a request away.
Grows ==
    /\ StaysTaken /\ ParkingSlots(zones) \subseteq ParkingSlots(zones')
    /\ Len(requests) <= Len(requests')

LEMMA KeptGrows ==
    ASSUME TypeInv, UNCHANGED << zones, isAvailable, requests >>
    PROVE  Grows
  BY DEF Grows, StaysTaken, TypeInv, SystemOK

LEMMA PostGrows ==
    ASSUME TypeInv, NEW w \in Workers, RequestParkingStep(w)
    PROVE  Grows
<1>1. CASE FindVehicle(w) \/ RegisterVehicle(w) \/ SearchSlot(w) \/ RecordAllocation(w)
  BY <1>1, KeptGrows DEF FindVehicle, RegisterVehicle, SearchSlot, RecordAllocation
<1>2. CASE TakeSlot(w)
  <2>1. /\ isAvailable' = [isAvailable EXCEPT ![worker[w].slot] = FALSE]
        /\ zones' = zones /\ requests' = requests
    BY <1>2, TakeStep
  <2>2. isAvailable \in [ParkingSlots(zones) -> BOOLEAN] /\ Len(requests) \in Nat
    BY DEF TypeInv, SystemOK
  <2> QED
    BY <2>1, <2>2 DEF Grows, StaysTaken
<1>3. CASE PushRequest(w)
  <2>1. zones' = zones /\ isAvailable' = isAvailable
    BY <1>3, PushStep
  <2>2. seeded' = seeded
    BY DEF RequestParkingStep
  <2>3. Len(requests') = Len(requests) + 1
    BY <1>3, <2>2, PushTypes
  <2>4. Len(requests) \in Nat
    BY DEF TypeInv, SystemOK
  <2> QED
    BY <2>1, <2>3, <2>4 DEF Grows, StaysTaken
<1> QED
  BY <1>1, <1>2, <1>3 DEF RequestParkingStep

LEMMA ZoneGrows ==
    ASSUME TypeInv, NEW zone \in ZoneShapes, ZoneAdded(zone)
    PROVE  Grows
<1>1. StaysTaken
  BY ZoneAddedKeeps DEF TypeInv
<1>2. zone \in Zone /\ zones \in Seq(Zone) /\ zones' = Append(zones, zone)
  BY SystemAssumption DEF Zone, ZoneAdded, TypeInv, SystemOK
<1>3. ParkingSlots(zones) \subseteq ParkingSlots(zones')
  BY <1>2, SlotsGrow
<1>4. requests' = requests /\ Len(requests) \in Nat
  BY DEF ZoneAdded, TypeInv, SystemOK
<1> QED
  BY <1>1, <1>3, <1>4 DEF Grows

\* While the system grows, a dashboard that does not move has seen no less.
LEMMA GrownSeen ==
    ASSUME TypeInv, TypeInv', DashboardInv, Grows, NEW v \in Workers,
           worker[v].call = "dashboard"
    PROVE  Seen(worker[v], Occupied', ParkingSlots(zones'), Len(requests'))
<1>1. Seen(worker[v], Occupied, ParkingSlots(zones), Len(requests))
  BY DEF DashboardInv
<1>2. IsFiniteSet(Occupied')
  <2>1. (TypeInv => IsFiniteSet(Occupied) /\ Occupied \subseteq ParkingSlots(zones))'
    BY OccupiedFinite, PTL
  <2> QED
    BY <2>1 DEF Occupied
<1>3. Occupied \subseteq Occupied'
  BY DEF Occupied, Grows, StaysTaken, TypeInv, SystemOK
<1>4. Len(requests) \in Nat /\ Len(requests') \in Nat
  BY DEF TypeInv, SystemOK
<1> QED
  BY <1>1, <1>2, <1>3, <1>4, SeenStays DEF Grows

LEMMA OthersSeen ==
    ASSUME TypeInv, TypeInv', DashboardInv, Grows,
           \A v \in Workers : worker'[v].call = "dashboard" => worker'[v] = worker[v]
    PROVE  DashboardInv'
<1>1. ASSUME NEW v \in Workers, worker'[v].call = "dashboard"
      PROVE  Seen(worker'[v], Occupied', ParkingSlots(zones'), Len(requests'))
  BY <1>1, GrownSeen
<1> QED
  BY <1>1 DEF DashboardInv

\* A dashboard moves: what it says it has seen must be right.
LEMMA OneSeen ==
    ASSUME TypeInv, TypeInv', DashboardInv, Quiet, NEW w \in Workers, NEW x, Becomes(w, x),
           x.call = "dashboard" => Seen(x, Occupied, ParkingSlots(zones), Len(requests))
    PROVE  DashboardInv'
<1>1. worker'[w] = x /\ \A v \in Workers \ {w} : worker'[v] = worker[v]
  BY BecomesOne DEF TypeInv
<1>2. Occupied' = Occupied /\ zones' = zones /\ requests' = requests
  BY DEF Quiet, Occupied
<1>3. ASSUME NEW v \in Workers, worker'[v].call = "dashboard"
      PROVE  Seen(worker'[v], Occupied', ParkingSlots(zones'), Len(requests'))
  BY <1>1, <1>2, <1>3 DEF DashboardInv
<1> QED
  BY <1>3 DEF DashboardInv

\* A visit moves one place from those left to those seen.
LEMMA VisitCounts ==
    ASSUME NEW o, IsFiniteSet(o), NEW todo, NEW p \in todo
    PROVE  LET one == IF p \in o THEN 1 ELSE 0
           IN  /\ Cardinality(o \ (todo \ {p})) = Cardinality(o \ todo) + one
               /\ Cardinality(o \cap todo) = Cardinality(o \cap (todo \ {p})) + one
               /\ Cardinality(o \ todo) \in Nat /\ Cardinality(o \cap (todo \ {p})) \in Nat
<1>1. o \ todo \in SUBSET o /\ o \cap (todo \ {p}) \in SUBSET o
  OBVIOUS
<1>2. /\ IsFiniteSet(o \ todo) /\ IsFiniteSet(o \cap (todo \ {p}))
      /\ Cardinality(o \ todo) \in Nat /\ Cardinality(o \cap (todo \ {p})) \in Nat
  BY <1>1, FS_Subset, FS_CardinalityType
<1>3. CASE p \in o
  <2>1. o \ (todo \ {p}) = (o \ todo) \cup {p} /\ p \notin o \ todo
    BY <1>3
  <2>2. o \cap todo = (o \cap (todo \ {p})) \cup {p} /\ p \notin o \cap (todo \ {p})
    BY <1>3
  <2>3. Cardinality((o \ todo) \cup {p}) = Cardinality(o \ todo) + 1
    BY <1>2, <2>1, FS_AddElement
  <2>4. Cardinality((o \cap (todo \ {p})) \cup {p}) = Cardinality(o \cap (todo \ {p})) + 1
    BY <1>2, <2>2, FS_AddElement
  <2> QED
    BY <1>2, <1>3, <2>1, <2>2, <2>3, <2>4
<1>4. CASE p \notin o
  <2>1. o \ (todo \ {p}) = o \ todo /\ o \cap todo = o \cap (todo \ {p})
    BY <1>4
  <2> QED
    BY <1>2, <1>4, <2>1
<1> QED
  BY <1>3, <1>4

\* The slots have indices from 1 on.
LEMMA SlotIndices ==
    ASSUME TypeInv, NEW p \in ParkingSlots(zones)
    PROVE  p \in Place /\ p[3] > 0
<1>1. PICK z \in DOMAIN zones : \E a \in DOMAIN zones[z].parkingAreas :
              \E s \in 1 .. zones[z].parkingAreas[a] : p = <<z, a, s>>
  BY SlotPlace
<1>2. PICK a \in DOMAIN zones[z].parkingAreas :
              \E s \in 1 .. zones[z].parkingAreas[a] : p = <<z, a, s>>
  BY <1>1
<1>3. PICK s \in 1 .. zones[z].parkingAreas[a] : p = <<z, a, s>>
  BY <1>2
<1>4. zones \in Seq(Zone)
  BY DEF TypeInv, SystemOK
<1>5. zones[z] \in Zone /\ z \in Nat
  BY <1>4, SeqElement
<1>6. zones[z].parkingAreas \in Seq(Nat)
  BY <1>5 DEF Zone
<1>7. a \in Nat /\ zones[z].parkingAreas[a] \in Nat
  BY <1>6, SeqElement
<1>8. s \in Nat /\ s > 0
  BY <1>7
<1> QED
  BY <1>3, <1>5, <1>7, <1>8 DEF Place

LEMMA CountsTaken ==
    ASSUME TypeInv, NEW p, p[3] = 0 \/ p \in ParkingSlots(zones)
    PROVE  Counts(p) <=> p \in Occupied
<1>1. DOMAIN isAvailable = ParkingSlots(zones)
  BY DEF TypeInv, SystemOK
<1>2. CASE p \in ParkingSlots(zones)
  BY <1>1, <1>2, SlotIndices DEF Counts, Occupied
<1>3. CASE p \notin ParkingSlots(zones)
  BY <1>1, <1>3 DEF Counts, Occupied
<1> QED
  BY <1>2, <1>3

\* The locals of a GET that visited place p, and those of one that visited a request.
WithPlace(x, p, count) == [[x EXCEPT !.todo = Advance(@, p)] EXCEPT !.occupied = @ + count]
WithRequest(x, count)  == [[x EXCEPT !.next = @ + 1] EXCEPT !.active = @ + count]

\* The locals of a dashboard that goes on to the requests.
WithRequests(x, stores, buffer) ==
    [x EXCEPT !.at = "requests", !.requests = stores, !.buffer = buffer]

LEMMA VisitSeen ==
    ASSUME TypeInv, TypeInv', DashboardInv, NEW w \in Workers, VisitSlot(w)
    PROVE  DashboardInv'
<1> DEFINE x     == worker[w]
           p     == NextPlace(x.todo)
           count == IF Counts(p) THEN 1 ELSE 0
           y     == WithPlace(x, p, count)
<1>1. x.at = "slots" /\ x.todo # {} /\ Quiet
  BY DEF VisitSlot, Quiet
<1>2. x.call \in GetCalls /\ GetOK(x)
  BY <1>1, StepsOfCalls DEF TypeInv
<1>3. Becomes(w, y)
  BY <1>2 DEF VisitSlot, Becomes, WithPlace, TypeInv, WorkersOK
<1> HIDE DEF count, p
<1>4. /\ y.todo = x.todo \ {p} /\ y.occupied = x.occupied + count /\ y.call = x.call
      /\ y.at = x.at /\ y.active = x.active /\ y.next = x.next
      /\ y.wasOccupied = x.wasOccupied /\ y.wasActive = x.wasActive
  BY <1>2 DEF WithPlace, GetOK, Advance
<1> HIDE DEF y
<1>5. ASSUME x.call = "dashboard"
      PROVE  Seen(y, Occupied, ParkingSlots(zones), Len(requests))
  <2>1. Seen(x, Occupied, ParkingSlots(zones), Len(requests))
    BY <1>5 DEF DashboardInv
  <2>2. x.todo \subseteq Place /\ \A q \in x.todo : q[3] = 0 \/ q \in ParkingSlots(zones)
    BY <2>1 DEF Seen
  <2>3. p \in x.todo
    BY <1>1, <2>2, NextIsLeft DEF p
  <2>4. count = IF p \in Occupied THEN 1 ELSE 0
    BY <2>2, <2>3, CountsTaken DEF count
  <2>5. IsFiniteSet(Occupied)
    BY OccupiedFinite
  <2> HIDE DEF x
  <2>6. /\ Cardinality(Occupied \ y.todo) = Cardinality(Occupied \ x.todo) + count
        /\ Cardinality(Occupied \cap x.todo) = Cardinality(Occupied \cap y.todo) + count
        /\ Cardinality(Occupied \ x.todo) \in Nat /\ Cardinality(Occupied \cap y.todo) \in Nat
    <3> DEFINE one == IF p \in Occupied THEN 1 ELSE 0
    <3>1. /\ Cardinality(Occupied \ (x.todo \ {p})) = Cardinality(Occupied \ x.todo) + one
          /\ Cardinality(Occupied \cap x.todo) = Cardinality(Occupied \cap (x.todo \ {p})) + one
          /\ Cardinality(Occupied \ x.todo) \in Nat
          /\ Cardinality(Occupied \cap (x.todo \ {p})) \in Nat
      BY <2>3, <2>5, VisitCounts
    <3>2. y.todo = x.todo \ {p} /\ one = count
      BY <1>4, <2>4
    <3> HIDE DEF one
    <3> QED
      BY <3>1, <3>2
  <2>7. count \in {0, 1}
    BY <2>4
  <2> HIDE DEF count
  <2>8. y.todo \subseteq Place /\ \A q \in y.todo : q[3] = 0 \/ q \in ParkingSlots(zones)
    BY <1>4, <2>2
  <2>9. /\ x.occupied \in Nat /\ x.wasOccupied \in Nat /\ x.wasActive \in Nat
        /\ x.occupied <= Cardinality(Occupied \ x.todo)
        /\ x.wasOccupied <= x.occupied + Cardinality(Occupied \cap x.todo)
        /\ x.active = 0 /\ x.next = 1 /\ x.wasActive <= Len(requests)
    BY <1>1, <2>1 DEF Seen, x
  <2>10. /\ y.occupied \in Nat
         /\ y.occupied <= Cardinality(Occupied \ y.todo)
         /\ y.wasOccupied <= y.occupied + Cardinality(Occupied \cap y.todo)
    BY <1>4, <2>6, <2>7, <2>9
  <2> QED
    BY <1>1, <1>4, <2>8, <2>9, <2>10 DEF Seen, x
<1> QED
  BY <1>1, <1>3, <1>4, <1>5, OneSeen

LEMMA DoneSeen ==
    ASSUME TypeInv, TypeInv', DashboardInv, NEW w \in Workers, SlotsDone(w)
    PROVE  DashboardInv'
<1> DEFINE x == worker[w]
           y == WithRequests(x, Len(requests), capacity)
<1>1. x.at = "slots" /\ x.todo = {} /\ Quiet
  BY DEF SlotsDone, Quiet
<1>2. GetOK(x)
  BY <1>1, StepsOfCalls DEF TypeInv
<1>3. CASE x.call # "dashboard"
  <2>1. Becomes(w, Idle)
    BY <1>3 DEF SlotsDone, Becomes, TypeInv, WorkersOK
  <2> QED
    BY <1>1, <2>1, OneSeen DEF Idle
<1>4. CASE x.call = "dashboard"
  <2>1. Becomes(w, y)
    BY <1>4 DEF SlotsDone, Becomes, WithRequests, TypeInv, WorkersOK
  <2>2. /\ y.todo = x.todo /\ y.occupied = x.occupied /\ y.call = x.call
        /\ y.at = "requests" /\ y.requests = Len(requests)
        /\ y.active = x.active /\ y.next = x.next
        /\ y.wasOccupied = x.wasOccupied /\ y.wasActive = x.wasActive
    BY <1>2 DEF WithRequests, GetOK
  <2>3. Seen(x, Occupied, ParkingSlots(zones), Len(requests)) /\ Len(requests) \in Nat
    BY <1>4 DEF DashboardInv, TypeInv, SystemOK
  <2>4. /\ x.wasActive \in Nat /\ x.wasActive <= Len(requests)
        /\ x.active = 0 /\ x.next = 1
    BY <1>1, <2>3 DEF Seen
  <2> HIDE DEF x, y
  <2>5. y.requests \in y.wasActive .. Len(requests) /\ y.next \in 1 .. y.requests + 1
        /\ y.active = y.next - 1
    BY <2>2, <2>3, <2>4
  <2>6. Seen(y, Occupied, ParkingSlots(zones), Len(requests))
    BY <1>1, <2>2, <2>3, <2>5 DEF Seen
  <2> QED
    BY <1>1, <2>1, <2>2, <2>6, OneSeen
<1> QED
  BY <1>3, <1>4

LEMMA RequestSeen ==
    ASSUME TypeInv, TypeInv', DashboardInv, NEW w \in Workers, VisitRequest(w)
    PROVE  DashboardInv'
<1> DEFINE x     == worker[w]
           count == IF x.next \in Active THEN 1 ELSE 0
           y     == WithRequest(x, count)
<1>1. x.at = "requests" /\ x.next <= x.requests /\ Quiet
  BY DEF VisitRequest, Quiet
<1>2. GetOK(x)
  BY <1>1, StepsOfCalls DEF TypeInv
<1>3. Becomes(w, y)
  BY <1>2 DEF VisitRequest, Becomes, WithRequest, TypeInv, WorkersOK
<1> HIDE DEF count
<1>4. /\ y.todo = x.todo /\ y.occupied = x.occupied /\ y.call = x.call
      /\ y.at = x.at /\ y.requests = x.requests
      /\ y.active = x.active + count /\ y.next = x.next + 1
      /\ y.wasOccupied = x.wasOccupied /\ y.wasActive = x.wasActive
  BY <1>2 DEF WithRequest, GetOK
<1> HIDE DEF y
<1>5. ASSUME x.call = "dashboard"
      PROVE  Seen(y, Occupied, ParkingSlots(zones), Len(requests))
  <2>1. Seen(x, Occupied, ParkingSlots(zones), Len(requests))
    BY <1>5 DEF DashboardInv
  <2>2. Active = 1 .. Len(requests) /\ Len(requests) \in Nat
    BY AllActive
  <2>3. /\ x.wasActive \in Nat /\ x.requests \in x.wasActive .. Len(requests)
        /\ x.next \in 1 .. x.requests + 1 /\ x.active = x.next - 1
    BY <1>1, <2>1 DEF Seen
  <2>4. x.next \in Active
    BY <1>1, <2>2, <2>3
  <2>5. count = 1
    BY <2>4 DEF count
  <2> HIDE DEF x
  <2>6. y.next \in 1 .. y.requests + 1 /\ y.active = y.next - 1
    BY <1>1, <1>4, <2>2, <2>3, <2>5 DEF x
  <2> QED
    BY <1>1, <1>4, <2>1, <2>6 DEF Seen, x
<1> QED
  BY <1>1, <1>3, <1>4, <1>5, OneSeen

\* The places a loop over all zones visits.
LEMMA AllPlaces ==
    ASSUME TypeInv
    PROVE  /\ Places(DOMAIN zones) \subseteq Place
           /\ \A p \in Places(DOMAIN zones) : p[3] = 0 \/ p \in ParkingSlots(zones)
           /\ ParkingSlots(zones) \subseteq Places(DOMAIN zones)
<1>1. zones \in Seq(Zone) /\ DOMAIN zones \subseteq Nat
  BY DEF TypeInv, SystemOK
<1>2. Places(DOMAIN zones) = { <<z, 0, 0>> : z \in DOMAIN zones } \cup ParkingSlots(zones)
  BY DEF Places, ParkingSlots, PS!SlotsOfZone, SlotsOfZone, PS!SlotsOfArea, SlotsOfArea
<1>3. ASSUME NEW z \in DOMAIN zones PROVE <<z, 0, 0>> \in Place /\ <<z, 0, 0>>[3] = 0
  BY <1>1 DEF Place
<1>4. \A p \in ParkingSlots(zones) : p \in Place
  BY SlotIndices
<1> QED
  BY <1>2, <1>3, <1>4

LEMMA BeginSeen ==
    ASSUME TypeInv, TypeInv', DashboardInv, NEW w \in Workers,
           NEW call \in Gets, NEW zoneId \in ZoneIds, BeginGet(w, call, zoneId)
    PROVE  DashboardInv'
<1> DEFINE todo == Places(VisitedZones(call, zoneId))
           y == [ call |-> call, at |-> IF call = "requests" THEN "requests" ELSE "slots",
                  todo |-> todo,
                  zones |-> Len(zones), requests |-> Len(requests), buffer |-> capacity, next |-> 1,
                  occupied |-> 0, active |-> 0,
                  wasOccupied |-> Cardinality(Occupied), wasActive |-> Cardinality(Active) ]
<1>1. Becomes(w, y) /\ Quiet
  BY DEF BeginGet, Becomes, Quiet
<1> HIDE DEF todo
<1>2. /\ y.call = call /\ y.todo = todo /\ y.occupied = 0 /\ y.active = 0 /\ y.next = 1
      /\ y.at = IF call = "requests" THEN "requests" ELSE "slots"
      /\ y.wasOccupied = Cardinality(Occupied) /\ y.wasActive = Cardinality(Active)
  OBVIOUS
<1> HIDE DEF y
<1>3. ASSUME y.call = "dashboard"
      PROVE  Seen(y, Occupied, ParkingSlots(zones), Len(requests))
  <2>1. todo = Places(DOMAIN zones)
    BY <1>2, <1>3 DEF todo, VisitedZones
  <2>2. /\ todo \subseteq Place /\ \A p \in todo : p[3] = 0 \/ p \in ParkingSlots(zones)
        /\ ParkingSlots(zones) \subseteq todo
    BY <2>1, AllPlaces
  <2>3. Occupied \subseteq ParkingSlots(zones) /\ IsFiniteSet(Occupied)
    BY OccupiedFinite
  <2>4. Occupied \cap todo = Occupied /\ Occupied \ todo = {}
    BY <2>2, <2>3
  <2>5. Cardinality(Occupied) \in Nat /\ Cardinality(Occupied \ todo) = 0
    BY <2>3, <2>4, FS_CardinalityType, FS_EmptySet
  <2>6. Cardinality(Active) = Len(requests) /\ Len(requests) \in Nat
    BY AllActive
  <2>7. /\ y.todo = todo /\ y.at = "slots" /\ y.occupied = 0 /\ y.active = 0 /\ y.next = 1
        /\ y.wasOccupied = Cardinality(Occupied) /\ y.wasActive = Len(requests)
    BY <1>2, <1>3, <2>6
  <2>8. Cardinality(Occupied \cap y.todo) = Cardinality(Occupied)
        /\ Cardinality(Occupied \ y.todo) = 0
    BY <2>4, <2>5, <2>7
  <2> QED
    BY <2>2, <2>5, <2>6, <2>7, <2>8 DEF Seen
<1> QED
  BY <1>1, <1>3, OneSeen

LEMMA InitSeen == Init => DashboardInv
  BY DEF Init, DashboardInv, Idle

\* While a worker does anything but move a dashboard, the others' have seen no less.
LEMMA PostSeen ==
    ASSUME TypeInv, TypeInv', DashboardInv, NEW w \in Workers,
           RequestParkingStep(w) \/ AnswerRequest(w)
    PROVE  DashboardInv'
<1>1. Grows
  <2>1. AnswerRequest(w) => UNCHANGED << zones, isAvailable, requests >>
    BY AnswerStep DEF Quiet
  <2> QED
    BY <2>1, PostGrows, KeptGrows
<1>2. PostOK(worker[w]) /\ worker[w].call = "POST"
  BY PostCalls DEF TypeInv
<1>3. worker'[w].call # "dashboard" /\ \A v \in Workers \ {w} : worker'[v] = worker[v]
  <2>1. ASSUME RequestParkingStep(w)
        PROVE  \E x : Becomes(w, x) /\ x.call = "POST"
    BY <2>1, WritersMove
  <2>2. AnswerRequest(w) => Becomes(w, Idle)
    BY AnswerStep
  <2>3. \E x : Becomes(w, x) /\ x.call # "dashboard"
    BY <2>1, <2>2 DEF Idle
  <2> QED
    BY <2>3 DEF Becomes, TypeInv, WorkersOK
<1> QED
  BY <1>1, <1>3, OthersSeen

LEMMA ContendedSeen ==
    ASSUME TypeInv, TypeInv', DashboardInv, Grows,
           \A v \in Workers : worker'[v].call = "dashboard" => worker'[v] = Contended[v]
    PROVE  DashboardInv'
<1>1. ASSUME NEW v \in Workers, worker'[v].call = "dashboard"
      PROVE  worker'[v] = worker[v]
  BY <1>1, ContendedCalls DEF TypeInv
<1> QED
  BY <1>1, OthersSeen

LEMMA NextSeen == TypeInv /\ DashboardInv /\ [Next]_vars => DashboardInv'
<1> SUFFICES ASSUME TypeInv, DashboardInv, [Next]_vars PROVE DashboardInv'
  OBVIOUS
<1>0. TypeInv'
  BY NextTypes
<1>1. CASE SeedDemo
  <2>1. worker = [w \in Workers |-> Idle] /\ worker' = worker
    BY <1>1, SeedSteps, DemoAssumption DEF TypeInv, SeededFirst, SystemOK
  <2> QED
    BY <2>1 DEF DashboardInv, Idle
<1>2. ASSUME NEW w \in Workers, Step(w) PROVE DashboardInv'
  <2>1. CASE RequestsDone(w)
    <3>1. Becomes(w, Idle) /\ Quiet
      BY <2>1 DEF RequestsDone, Becomes, Quiet
    <3> QED
      BY <1>0, <3>1, OneSeen DEF Idle
  <2> QED
    BY <1>0, <1>2, <2>1, PostSeen, VisitSeen, DoneSeen, RequestSeen DEF Step
<1>3. ASSUME NEW w \in Workers, Arrival(w) PROVE DashboardInv'
  <2>1. ASSUME NEW v \in Vehicles, NEW z \in ZoneIds, BeginRequest(w, v, z) PROVE DashboardInv'
    <3>1. UNCHANGED << zones, isAvailable, requests >>
      BY <2>1, BeginSteps DEF Quiet
    <3>2. worker'[w].call = "POST" /\ \A u \in Workers \ {w} : worker'[u] = Contended[u]
      <4>1. NewPost(v, z).call = "POST"
        BY DEF NewPost
      <4>2. worker'[w] = NewPost(v, z) /\ \A u \in Workers \ {w} : worker'[u] = Contended[u]
        BY <2>1, BeginSteps
      <4> QED
        BY <4>1, <4>2
    <3> QED
      BY <1>0, <3>1, <3>2, KeptGrows, ContendedSeen
  <2>2. ASSUME NEW zone \in ZoneShapes, CreateZone(w, zone) PROVE DashboardInv'
    <3>1. ZoneAdded(zone) /\ worker' = Contended
      BY <2>2, CreateSteps
    <3> QED
      BY <1>0, <3>1, ZoneGrows, ContendedSeen
  <2> QED
    BY <1>0, <1>3, <2>1, <2>2, BeginSeen DEF Arrival
<1>4. CASE UNCHANGED vars
  BY <1>4 DEF vars, DashboardInv, Occupied
<1> QED
  BY <1>1, <1>2, <1>3, <1>4 DEF Next

LEMMA AlwaysSeen == Spec => []DashboardInv
  BY InitSeen, NextSeen, AlwaysTyped, PTL DEF Spec

\* However many slots are taken, zones added and requests stored while it is
\* put together, what a dashboard counts lies between what there was when it
\* began and what there is now (Server.cpp:325-347).
THEOREM ServerDashboard == Spec => []DashboardInWindow
  BY DashboardImplied, AlwaysTyped, AlwaysSeen, PTL

=============================================================================
