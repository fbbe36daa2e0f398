------------------------- MODULE SmartParkingServer -------------------------
(***************************************************************************)
(* The REST handlers of Server.cpp on Crow's worker threads, sharing one   *)
(* ParkingSystem without a lock (multithreaded().run(), line 442).         *)
(*                                                                         *)
(* A worker runs one handler at a time, in the steps another thread can    *)
(* see.  The search for a slot is one step: slots are only ever taken (no  *)
(* route frees one), so a scan finds what it would find at once when it    *)
(* reads its last slot.  Two threads about to use one container, one of    *)
(* them to change it, are a data race, and a loop goes on through a buffer *)
(* that has been outgrown: either does no harm, or makes status undefined, *)
(* after which nothing is claimed.                                         *)
(***************************************************************************)
EXTENDS Integers, Sequences, FiniteSets

CONSTANTS
    Workers,        \* the worker threads
    DemoZones,      \* the zones seedDemo adds
    DemoRequests,   \* the <<vehicle, zone>> pairs seedDemo asks for
    Gets,           \* the GETs clients send
    Vehicles, ZoneIds, ZoneShapes, MaxZones, MaxRequests   \* see ParkingSystem

ASSUME SystemAssumption ==
    /\ ZoneIds \subseteq Int
    /\ ZoneShapes \subseteq [zoneId : ZoneIds, parkingAreas : Seq(Nat)]
    /\ MaxZones \in Nat
    /\ MaxRequests \in Nat

ASSUME DemoAssumption ==
    /\ DemoZones \in Seq(ZoneShapes)
    /\ DemoRequests \in Seq(Vehicles \X ZoneIds)
    /\ Gets \subseteq {"dashboard", "zones", "zone", "requests"}

VARIABLES
    zones, isAvailable, vehicles, requests, capacity, history, status, reply,
    seeded,     \* how many operations of seedDemo are done
    stored,     \* requestId of each stored request; history: its slot and
                \* whether its call had run alone until then
    worker,     \* what each worker is doing
    before,     \* history variable: the system before the calls now writing
    answer      \* history variable: the answer just given to a POST of a request

vars == << zones, isAvailable, vehicles, requests, capacity, history, status,
           reply, seeded, stored, worker, before, answer >>

\* The capacity of a vector of n elements that grew by push_back alone.
Capacity(n) ==
    IF n = 0 THEN 0 ELSE CHOOSE c \in { 2^k : k \in 0 .. n } : n <= c /\ c < 2 * n

assignedSlot == [ i \in DOMAIN stored |-> stored[i].slot ]

PS == INSTANCE ParkingSystem

Idle == [call |-> "none", at |-> "idle"]
NoAnswer == [granted |-> FALSE, own |-> 0, id |-> 0, alone |-> TRUE]

Init ==
    /\ stored = << >>
    /\ PS!Init
    /\ seeded = 0
    /\ worker = [ w \in Workers |-> Idle ]
    /\ before = << >>
    /\ answer = NoAnswer

-----------------------------------------------------------------------------

\* seedDemo: before the server runs, one call at a time.
SeedDemo ==
    /\ seeded < Len(DemoZones) + Len(DemoRequests)
    /\ seeded' = seeded + 1
    /\ IF seeded < Len(DemoZones)
       THEN UNCHANGED stored /\ PS!AddZone(DemoZones[seeded + 1])
       ELSE LET r     == DemoRequests[seeded + 1 - Len(DemoZones)]
                slots == PS!AllocateSlot(r[2], zones, isAvailable)
            IN  /\ IF slots = {} THEN UNCHANGED stored
                   ELSE \E s \in slots :
                          stored' = Append(stored, [id |-> Len(requests), slot |-> s, alone |-> TRUE])
                /\ PS!RequestParking(r[1], r[2])
    /\ UNCHANGED << worker, before, answer >>

Serving == status = "running" /\ seeded = Len(DemoZones) + Len(DemoRequests)

-----------------------------------------------------------------------------

\* What push_back writes: the vector's end and, when the buffer is full, its
\* elements, which move.
Push(vector, full) ==
    { << vector, "end" >> } \cup (IF full THEN { << vector, "elements" >> } ELSE {})

Full(n) == Capacity(n) = n

Whole(vector) == { << vector, "end" >>, << vector, "elements" >> }

\* What the next step of a worker doing x reads and writes.
Reads(x) ==
    CASE x.at = "find"                 -> Whole("vehicles")
      [] x.at = "search"               -> { << "requests", "end" >> } \cup Whole("zones")
      [] x.at \in {"record", "answer"} -> Whole("requests")
      [] x.at = "slots"                -> { << "zones", "elements" >> }
      [] x.at = "requests"             -> { << "requests", "elements" >> }
      [] OTHER                         -> {}

Writes(x) ==
    CASE x.at = "register" -> Push("vehicles", Full(Len(vehicles)))
      [] x.at = "push"     -> Push("requests", Len(requests) = capacity)
      [] x.at = "record"   -> { << "history", "end" >> }
      [] OTHER             -> {}

\* Another worker is about to use what this one changes, or to change what
\* this one uses.
Race(w, reads, writes) ==
    \E v \in Workers \ {w} :
        \/ writes \cap (Reads(worker[v]) \cup Writes(worker[v])) # {}
        \/ reads \cap Writes(worker[v]) # {}

Harm(possible) == status' \in IF possible THEN {"running", "undefined"} ELSE {"running"}

StepHarm(w) == Harm(Race(w, Reads(worker[w]), Writes(worker[w])))

-----------------------------------------------------------------------------

InRequestParking(x) == x.at \in {"find", "register", "search", "take", "push", "record"}

\* The calls that write, from their first step to their answer.
Posting == { w \in Workers : worker[w].call = "POST" }

\* A call that writes begins: the ones in progress do not run alone.
Contended == [ w \in Workers |-> IF w \in Posting THEN [worker[w] EXCEPT !.alone = FALSE]
                                 ELSE worker[w] ]

System == [ zones |-> zones, isAvailable |-> isAvailable, vehicles |-> vehicles,
            requests |-> requests, capacity |-> capacity, history |-> history,
            stored |-> stored, reply |-> reply ]

\* handleCreateRequest: the body is parsed, requestParking is called.
BeginRequest(w, vehicleId, requestedZoneId) ==
    /\ Serving
    /\ worker[w] = Idle
    /\ Len(requests) + Cardinality(Posting) < MaxRequests
    /\ worker' = [Contended EXCEPT ![w] =
                    [ call |-> "POST", at |-> "find", vehicleId |-> vehicleId,
                      zoneId |-> requestedZoneId, id |-> -1, slot |-> << >>,
                      previous |-> TRUE, alone |-> Posting = {} ]]
    /\ before' = IF \E v \in Workers : InRequestParking(worker[v]) THEN before ELSE System
    /\ UNCHANGED << zones, isAvailable, vehicles, requests, capacity, history, status,
                    reply, seeded, stored >>
    /\ answer' = NoAnswer

\* Worker w, its locals being x now, goes on at step at.
Goto(w, x, at) == worker' = [worker EXCEPT ![w] = [x EXCEPT !.at = at]]

\* find_if over the vehicles.
Found(vehicleId) == \E i \in DOMAIN vehicles : vehicles[i].vehicleId = vehicleId

FindVehicle(w) ==
    /\ worker[w].at = "find"
    /\ Goto(w, worker[w], IF Found(worker[w].vehicleId) THEN "search" ELSE "register")
    /\ UNCHANGED << zones, isAvailable, vehicles, requests, capacity, history, reply, stored >>

\* vehicles.emplace_back.
RegisterVehicle(w) ==
    /\ worker[w].at = "register"
    /\ vehicles' = Append(vehicles, [ vehicleId     |-> worker[w].vehicleId,
                                      preferredZone |-> worker[w].zoneId ])
    /\ Goto(w, worker[w], "search")
    /\ UNCHANGED << zones, isAvailable, requests, capacity, history, reply, stored >>

\* Ids that start at 1.
IdFromOne == Len(requests) + 1

\* static_cast<int>(requests.size())
NewId == Len(requests)

\* The id of the new request, and allocateSlot.
SearchSlot(w) ==
    /\ worker[w].at = "search"
    /\ LET slots == PS!AllocateSlot(worker[w].zoneId, zones, isAvailable)
       IN  \/ /\ slots = {}
              /\ Goto(w, worker[w], "answer")
              /\ reply' = PS!Reply("requestParking", -1, FALSE)
           \/ \E s \in slots :
                /\ Goto(w, [worker[w] EXCEPT !.id = NewId, !.slot = s], "take")
                /\ UNCHANGED reply
    /\ UNCHANGED << zones, isAvailable, vehicles, requests, capacity, history, stored >>

\* The availability read after it was set.
ReadLate(slot) == FALSE

\* getIsAvailable
PrevAvailability(slot) == isAvailable[slot]

\* A slot that stays available.
LeftAvailable(slot) == isAvailable

\* setIsAvailable(false)
SetTaken(slot) == [isAvailable EXCEPT ![slot] = FALSE]

\* The previous availability is noted and the slot is taken.
TakeSlot(w) ==
    /\ worker[w].at = "take"
    /\ isAvailable' = SetTaken(worker[w].slot)
    /\ Goto(w, [worker[w] EXCEPT !.previous = PrevAvailability(worker[w].slot)], "push")
    /\ UNCHANGED << zones, vehicles, requests, capacity, history, reply, stored >>

\* changeState and requests.push_back.
PushRequest(w) ==
    /\ worker[w].at = "push"
    /\ requests' = Append(requests,
                     PS!ChangeState(PS!NewRequest(worker[w].vehicleId, worker[w].zoneId), "ALLOCATED"))
    /\ stored' = Append(stored, [ id |-> worker[w].id, slot |-> worker[w].slot,
                                  alone |-> worker[w].alone ])
    /\ capacity' = PS!CapacityAfterPush(Len(requests), capacity)
    /\ Goto(w, worker[w], "record")
    /\ UNCHANGED << zones, isAvailable, vehicles, history, reply >>

\* recordAllocation(slot, prevAvailability, &requests.back(), prevState).
RecordAllocation(w) ==
    /\ worker[w].at = "record"
    /\ history' = PS!RecordAllocation(history,
                    PS!AllocationRecord(worker[w].slot, worker[w].previous,
                                        PS!RequestPointer(Len(requests) - 1, capacity),
                                        "REQUESTED"))
    /\ reply' = PS!Reply("requestParking", worker[w].id, TRUE)
    /\ Goto(w, worker[w], "answer")
    /\ UNCHANGED << zones, isAvailable, vehicles, requests, capacity, stored >>

\* One more step of requestParking.
RequestParkingStep(w) ==
    /\ \/ FindVehicle(w) \/ RegisterVehicle(w) \/ SearchSlot(w)
       \/ TakeSlot(w) \/ PushRequest(w) \/ RecordAllocation(w)
    /\ StepHarm(w)
    /\ before' = IF \E v \in Workers : InRequestParking(worker'[v]) THEN before ELSE << >>
    /\ UNCHANGED seeded
    /\ answer' = NoAnswer

\* The id of the first request.
FrontId == IF stored = << >> THEN 0 ELSE stored[1].id

\* newId: the id of the last request, or 0 if there is none.
BackId == IF stored = << >> THEN 0 ELSE stored[Len(stored)].id

\* The answer of handleCreateRequest; requestParking's result is not looked at.
AnswerRequest(w) ==
    /\ worker[w].at = "answer"
    /\ answer' = [ granted |-> worker[w].id # -1, own |-> worker[w].id,
                   id |-> BackId, alone |-> worker[w].alone ]
    /\ worker' = [worker EXCEPT ![w] = Idle]
    /\ StepHarm(w)
    /\ UNCHANGED << zones, isAvailable, vehicles, requests, capacity, history, reply,
                    seeded, stored, before >>

\* handleCreateZone: the zone is built from the body and pushed.
CreateZone(w, zone) ==
    /\ Serving
    /\ worker[w] = Idle
    /\ Len(zones) < MaxZones
    /\ zones' = Append(zones, zone)
    /\ isAvailable' = [ p \in PS!ParkingSlots(zones') |->
                          IF p \in DOMAIN isAvailable THEN isAvailable[p] ELSE TRUE ]
    /\ reply' = PS!Reply("addZone", -1, TRUE)
    /\ worker' = Contended
    /\ Harm(Race(w, {}, Push("zones", Full(Len(zones)))))
    /\ UNCHANGED << vehicles, requests, capacity, history, seeded, stored, before >>
    /\ answer' = NoAnswer

-----------------------------------------------------------------------------

\* The places a loop over the zones visits: each zone, then its slots.
Places(zs) == UNION { { << z, 0, 0 >> } \cup PS!SlotsOfZone(zones, z) : z \in zs }

\* The zones a GET visits: all, none, or the first with the id.
VisitedZones(call, zoneId) ==
    CASE call \in {"dashboard", "zones"} -> DOMAIN zones
      [] call = "zone" -> PS!First({ z \in DOMAIN zones : zones[z].zoneId = zoneId })
      [] OTHER -> {}

Occupied == { p \in DOMAIN isAvailable : ~isAvailable[p] }
Active == { i \in DOMAIN requests : requests[i].currentState \in {"REQUESTED", "ALLOCATED"} }

\* A GET begins, and its loop takes the ends of the vectors it goes through.
BeginGet(w, call, zoneId) ==
    /\ Serving
    /\ worker[w] = Idle
    /\ worker' = [worker EXCEPT ![w] =
                    [ call |-> call, at |-> IF call = "requests" THEN "requests" ELSE "slots",
                      todo |-> Places(VisitedZones(call, zoneId)),
                      zones |-> Len(zones), requests |-> Len(requests), buffer |-> capacity, next |-> 1,
                      occupied |-> 0, active |-> 0,
                      wasOccupied |-> Cardinality(Occupied), wasActive |-> Cardinality(Active) ]]
    /\ Harm(call = "requests" /\ Race(w, { << "requests", "end" >> }, {}))
    /\ UNCHANGED << zones, isAvailable, vehicles, requests, capacity, history, reply,
                    seeded, stored, before >>
    /\ answer' = NoAnswer

NextPlace(todo) == CHOOSE p \in todo : \A q \in todo \ {p} : PS!Before(p, q)

\* A loop that counts the slots that are available.
CountsFree(p) == p[3] > 0 /\ isAvailable[p]

\* What a loop counts: the slots that are not available.
Counts(p) == p[3] > 0 /\ ~isAvailable[p]

\* An iterator that is not advanced.
Stay(todo, p) == todo

\* The places left once p was visited.
Advance(todo, p) == todo \ {p}

\* One iteration over the slots.  Only entering a zone reads the vector, but
\* handleGetZoneDetail also looks for the vehicle of a slot that is taken.
VisitSlot(w) ==
    /\ worker[w].at = "slots" /\ worker[w].todo # {}
    /\ LET p     == NextPlace(worker[w].todo)
           owner == worker[w].call = "zone" /\ Counts(p)
       IN  /\ worker' = [worker EXCEPT ![w].todo = Advance(@, p),
                                       ![w].occupied = @ + IF Counts(p) THEN 1 ELSE 0]
           /\ Harm(\/ p[3] = 0 /\ Capacity(Len(zones)) # Capacity(worker[w].zones)
                   \/ Race(w, IF owner THEN Whole("requests") ELSE {}, {}))
    /\ UNCHANGED << zones, isAvailable, vehicles, requests, capacity, history, reply,
                    seeded, stored, before >>
    /\ answer' = NoAnswer

\* The dashboard goes on to the requests, taking the vector's ends as they are.
SlotsDone(w) ==
    /\ worker[w].at = "slots" /\ worker[w].todo = {}
    /\ worker' = [worker EXCEPT ![w] =
                    IF @.call = "dashboard"
                    THEN [@ EXCEPT !.at = "requests", !.requests = Len(requests), !.buffer = capacity]
                    ELSE Idle]
    /\ Harm(worker[w].call = "dashboard" /\ Race(w, { << "requests", "end" >> }, {}))
    /\ UNCHANGED << zones, isAvailable, vehicles, requests, capacity, history, reply,
                    seeded, stored, before >>
    /\ answer' = NoAnswer

\* One iteration over the requests.
VisitRequest(w) ==
    /\ worker[w].at = "requests" /\ worker[w].next <= worker[w].requests
    /\ worker' = [worker EXCEPT ![w].next = @ + 1,
                                ![w].active = @ + IF worker[w].next \in Active THEN 1 ELSE 0]
    /\ Harm(capacity # worker[w].buffer)
    /\ UNCHANGED << zones, isAvailable, vehicles, requests, capacity, history, reply,
                    seeded, stored, before >>
    /\ answer' = NoAnswer

\* The GET answers.
RequestsDone(w) ==
    /\ worker[w].at = "requests" /\ worker[w].next > worker[w].requests
    /\ worker' = [worker EXCEPT ![w] = Idle]
    /\ UNCHANGED << zones, isAvailable, vehicles, requests, capacity, history, status,
                    reply, seeded, stored, before >>
    /\ answer' = NoAnswer

-----------------------------------------------------------------------------

\* A worker goes on with the handler it runs.
Step(w) ==
    /\ status = "running"
    /\ \/ RequestParkingStep(w) \/ AnswerRequest(w)
       \/ VisitSlot(w) \/ SlotsDone(w) \/ VisitRequest(w) \/ RequestsDone(w)

\* A client's request reaches a worker.
Arrival(w) ==
    \/ \E v \in Vehicles, z \in ZoneIds : BeginRequest(w, v, z)
    \/ \E zone \in ZoneShapes : CreateZone(w, zone)
    \/ \E call \in Gets, z \in ZoneIds : BeginGet(w, call, z)

Next == SeedDemo \/ \E w \in Workers : Step(w) \/ Arrival(w)

Spec == Init /\ [][Next]_vars

\* A thread that has a step to take takes it.
FairSpec == Spec /\ \A w \in Workers : WF_vars(Step(w))

-----------------------------------------------------------------------------

Request == [ vehicleId     : Vehicles,
             requestedZone : ZoneIds,
             currentState  : PS!RequestState ]

\* The type of every variable: ids, slots and records exist in the system, and
\* there is an id and a slot for each stored request.
TypeOK ==
    /\ seeded \in 0 .. Len(DemoZones) + Len(DemoRequests)
    /\ isAvailable \in [PS!ParkingSlots(zones) -> BOOLEAN]
    /\ requests \in Seq(Request)
    /\ \A i \in DOMAIN stored : stored[i].id \in 0 .. Len(requests) - 1
    /\ DOMAIN assignedSlot = DOMAIN requests
    /\ \A n \in DOMAIN history : history[n].slot \in DOMAIN isAvailable
    /\ \A w \in Workers : worker[w].at \in {"take", "push", "record"} =>
                            worker[w].slot \in DOMAIN isAvailable
    /\ status \in {"running", "undefined"}

\* Two requests share a slot or an id only if the calls of both overlapped
\* another call: a call that runs alone is never harmed by what overlapping
\* calls did before it or do after it (Server.cpp:289, 442).
SharingNeedsOverlap ==
    \A i, j \in DOMAIN stored :
        /\ i # j
        /\ stored[i].slot = stored[j].slot \/ stored[i].id = stored[j].id
        => ~stored[i].alone /\ ~stored[j].alone

\* A POST that is granted a slot and runs alone is answered with its own id;
\* the rest of the answers are another request's (Server.cpp:292-294).
AloneIsAnsweredOwnId ==
    answer.granted /\ answer.alone => answer.id = answer.own

\* What a dashboard shows was true at some time while it was put together: its
\* counts are between those when the call began and those now, and the slots
\* counted are no more than there are (Server.cpp:325-347).
DashboardInWindow ==
    \A w \in Workers : worker[w].call = "dashboard" =>
        /\ worker[w].occupied <= Cardinality(Occupied)
        /\ worker[w].active <= Cardinality(Active)
        /\ worker[w].todo = {} => worker[w].occupied >= worker[w].wasOccupied
        /\ worker[w].at = "requests" /\ worker[w].next > worker[w].requests
             => worker[w].active >= worker[w].wasActive

\* The system as it is when no requestParking is half done: before those in
\* progress, else now.
Shown == IF \E w \in Workers : InRequestParking(worker[w]) THEN before ELSE System

Serial == INSTANCE ParkingSystem WITH
    zones <- Shown.zones, isAvailable <- Shown.isAvailable, vehicles <- Shown.vehicles,
    requests <- Shown.requests, capacity <- Shown.capacity,
    history <- Shown.history, reply <- Shown.reply,
    assignedSlot <- [ i \in DOMAIN Shown.stored |-> Shown.stored[i].slot ]

\* A call to the system that overlaps no other has the effect of one operation
\* of the parking system, whatever overlapping calls left behind: nothing else
\* changes the system (ParkingSystem.cpp:14-69, Server.cpp:289).
AloneIsAtomic ==
    [][ \/ Serial!Next
        \/ UNCHANGED Serial!vars
        \/ status' = "undefined"
        \/ \E w \in Workers : InRequestParking(worker[w]) /\ ~worker[w].alone ]_vars

\* A handler that was called answers, unless the state became undefined
\* before: its loops end although other handlers change what they go through.
EveryCallIsAnswered ==
    \A w \in Workers : worker[w] # Idle ~> (worker[w] = Idle \/ status = "undefined")

=============================================================================
