# Smart Parking Allocation: a verification project

TLA+ models of the parking system in this repository, TLC runs that check them
on small instances, and TLAPS proofs for every instance. Source lines are quoted
as `file:line`, relative to the repository's root.

## 1. The system

| Component | Source | State | Operations |
|---|---|---|---|
| Slots, areas, zones | `ParkingSlot`, `ParkingArea`, `Zone` | a zone's id and areas; each slot's `isAvailable` | add a slot, add an area, first available slot |
| Allocation engine | `AllocateEngine.cpp` | none | `allocateSlot`: requested zone first, then any other |
| Parking request | `ParkingRequest` | `currentState` | `changeState` (checked), `setCurrentState` (unchecked) |
| Rollback manager | `RollBackManager` | stack of records: slot pointer, availability, request pointer, state | `recordAllocation`, `rollback(k)` |
| Parking system | `ParkingSystem` | vectors of zones, vehicles, requests; the two parts above | `addZone`, `requestParking`, `cancelRequest`, `releaseSlot` |
| REST server | `Server.cpp` | one `ParkingSystem`, shared by all handlers | nine routes; demo data |
| HTTP pipeline | `server/Crow-master` (vendored), `CorsMiddleware` in `Server.cpp` | per worker: connections with parser and response, the timer's tasks | accept, read, route, before/after handlers, deadlines |
| Second server | `server/server.cpp` | an `ApiController` whose source is not in the repository | route table only |
| Web page | `frontend/app.js`, `frontend/index.html` | `appState`, the DOM, the loading overlay | fetch and render zones, requests, dashboard; create requests and zones |
| Browser prototype | `frontend/scripts` | zones, undo history, active zone, the dialog's listeners | allocate, deallocate, undo, add zone, dialogs |

How they interact. The core is direct calls on one thread: `ParkingSystem` owns
the engine and the rollback manager; `requestParking` asks the engine for a slot,
writes the slot and the request, and hands pointers to both to the rollback
manager; `cancelRequest` and `releaseSlot` write the request and call
`rollback(1)`, which writes through those pointers. The REST handlers run on
Crow's worker threads and call the one `ParkingSystem` without a lock
(`Server.cpp:442`). Each connection belongs to one worker, whose `io_context`
runs its callbacks one at a time. The page talks to the server with `fetch`, and
its loads overlap. The prototype in `frontend/scripts` keeps its own data and is
not loaded by `index.html`.

What is hard, and what makes each component correct:

- *Core.* The undo stack is shared by all requests, but cancelling names one
  request. The vector of requests moves its elements when it grows, and the
  stack keeps pointers to them. Correct: taken slots and stack agree; a slot is
  granted only when free and refused only when all are taken; a request's state
  agrees with what is on the stack; no slot is lost for good.
- *Engine.* Two loops over zones whose ids may repeat, each over areas and slots
  that may be empty. Correct: the best free slot, or none iff there is none.
- *Rollback manager.* Correct: rollback(k) leaves the memory as it was before
  the last k recorded operations.
- *Server.* Handlers interleave at every container they share. Correct: a call
  that overlaps no other is atomic and is answered with its own id; a dashboard
  shows counts that were true while it was put together; every call is answered.
- *HTTP pipeline.* A request is answered in the middle of its parsing, after it,
  or cut off by a deadline whose id another connection may remember. Correct: the
  n-th answer is to the n-th request and is what the routes say; a silent client
  is cut off.
- *Page.* Its functions share one overlay and render whatever arrives last.
  Correct: the overlay always goes away; what is shown agrees with itself and
  does not go back in time unless loads overlap.
- *Prototype.* Correct: undo takes back the last action, whole; a confirmation
  acts once, on the zone the dialog was opened for.

## 2. Modules

| Module | Models | Correspondence |
|---|---|---|
| `ParkingRequest` | `ParkingRequest.{h,cpp}` | `ValidTransition` is the switch of `changeState`; `ChangeState`, `SetCurrentState` are the two setters |
| `AllocationEngine` | `Zone`, `ParkingArea`, `ParkingSlot`, `AllocateEngine.cpp` | a slot is its place `<<zone, area, slot>>` (a `ParkingSlot*`); a search answers the set of at most one slot (`{}` is `nullptr`); a loop that returns at its first hit is `First` |
| `RollbackManager` | `RollBackManager.{h,cpp}` | operators on the stack and on the memory its records point at; a request pointer is the request's id and the buffer (named by its capacity) it pointed into |
| `ParkingSystem` | `ParkingSystem.{h,cpp}`, composing the three above | one variable per member, one action per public operation |
| `LifoLot` | abstract specification of the core | a lot of slots and a stack of those held |
| `RollbackContract` | what `RollBackManager.h:24-33` promises | a client that records every operation and whose objects stay in place |
| `SmartParkingServer` | the handlers of `Server.cpp`, composing `ParkingSystem` | one action per step another thread can see |
| `CrowWorker` | `http_connection.h`, `parser.h`, `http_response.h`, `routing.h`, `task_timer.h`, `CorsMiddleware` | one action per callback of the worker's `io_context` |
| `WebPage` | `frontend/app.js` | one action per click, per fetch served, settled or failed |
| `Prototype` | `frontend/scripts/state.js`, `app.js`, `ui.js` | one action per event; a submit event takes one step for each listener |
| `UndoLot` | abstract specification of the prototype | a lot and the whole lots to go back to |
| `MCParkingSystem`, `MCSmartParkingServer`, `MCCrowWorker`, `MCPrototype` | instances for TLC | |
| `ParkingSystemClaims` | statements of comments that the core does not keep | one property each |
| `AllocationEngineProofs`, `RollbackContractProofs`, `ParkingSystemProofs`, `ParkingHistoryProofs`, `SmartParkingServerProofs`, `CrowWorkerProofs`, `WebPageProofs`, `PrototypeProofs` | theorems | see section 5 |

`ParkingSystem`:

- `AddZone`: `addZone` (`ParkingSystem.cpp:9-12`). The slots of a new zone are
  available, as the constructor of `ParkingSlot` makes them.
- `RequestParking`: `requestParking` (14-69). `RefuseParking` is the two early
  returns of -1; the vehicle stays registered by then. `GrantParking` is the
  rest, in the code's order: the slot is taken, the request goes to `ALLOCATED`
  and is pushed, which may grow the vector, and only then is its address taken.
- `CancelRequest`, `ReleaseSlot`: 71-98 and 100-127. Either the checks refuse and
  nothing changes, or the state is set and `Rollback` is `rollback(1)`.
- `reply` is the last call and its answer. `assignedSlot` is a history variable:
  the code does not store the slot of a request, the properties need it.
- `capacity` is `requests.capacity()`. The library's vector doubles its buffer
  (`CapacityAfterPush`), so a buffer is named by its capacity, and a pointer
  reaches its request as long as the capacity is the one it was taken at.
- `status`. Writing through a pointer into an outgrown buffer is undefined. In
  the model it goes unnoticed (the request keeps its state), or it makes the
  state of the program `"undefined"`: it ended, or some other object was
  overwritten. Nothing happens after that in the model and nothing is claimed.

`SmartParkingServer`:

- `SeedDemo` is `seedDemo`, with the operations of `ParkingSystem` as they are.
- A POST of a request is `FindVehicle`, `RegisterVehicle`, `SearchSlot`,
  `TakeSlot`, `PushRequest`, `RecordAllocation`, `AnswerRequest`: the steps of
  `requestParking` between which another thread can come, then the answer. The
  search is one step because slots are only ever taken (no route frees one).
- The GETs visit one slot or one request per step, through the ends of the
  vectors they took when their loop began.
- Two workers about to use one container, one of them to change it, are a data
  race, and so is a loop over a buffer that has been outgrown; both may do no
  harm or make `status` undefined.
- `before` and `alone` are history variables: the system before the calls in
  progress, and whether a call has overlapped another one that writes.
- As committed, `Server.cpp` does not compile against the headers beside it: it
  names the fields `allocatedZoneId`, `allocatedSlotId` and `licensePlate`, which
  `ParkingRequest.h` and `Vehicle.h` do not have. They are only read for display,
  and the model leaves them out.

`CrowWorker`:

- A `Connection` is a record: its phase, socket, remembered deadline (`taskId`),
  the request whose rest is to be read (`part`) and `res`.
- `Accept`, `Start`, `ReadRequest`, `ReadBeginning`, `ReadRest`, `ReadFails`,
  `ReadAborted`, `Tick` are the callbacks. `Complete` is what a complete message
  goes through: `HandleUrl` (which may answer at once), `HandleHeader` (the
  interim answer to `Expect`), `Handle` (host check, middleware, router). Errors
  of the router and preflights end parsing, and the connection (`Parses`).
- `StartDeadline`, `Cancelled`, `Tick` are `task_timer`: ids count up and start
  again at 1 once no task is scheduled (`NextId`).
- `robbed` is a history variable: the connections whose deadline was cancelled
  through an id that another connection still remembered.

`WebPage`: a call is the list of functions it has yet to run, waiting for one
fetch of the first. `Serve` is the moment the server answers, `Settle` the moment
the page goes on with it, `Fails` either of them failing; what a function leaves
behind unawaited (the activity list, the zones' details) is another call. The
server's state is the number of its zones and of its requests.

`Prototype`: `form`, `dialogs` and `outside` are the one form all dialogs share
and the listeners left on it and on the backdrop. Listeners run in the order of
`addEventListener`, which is the order of the dialogs' numbers (`First`). `past`
is a history variable that keeps the whole lot before each action, which
`UndoLot` restores.

Abstractions: vehicle ids are model values or numbers; `requestId` is the
position of the request; `requestTime` (always 0), adjacent zones (never read)
and the numbers of slots and areas (never compared) are left out; so are
accessors, logging, JSON and rendering.

## 3. Runs

| Run | Question | Bounds |
|---|---|---|
| `system_deep` | Do slots, stack, requests and buffers stay consistent in long sequences of calls, and does the system implement the lot? | one zone of two slots, one vehicle, six requests |
| `system_zones` | Is it always the best free slot that is granted, and each vehicle registered once? | two zones out of three shapes, with a repeated zone id and a zone without areas; three requests |
| `rollback_contract` | Does rollback(k) restore exactly the memory of k operations ago? | two slots, two requests, five operations, k up to six |
| `server_concurrent` | What do overlapping handlers share, and is a call that runs alone atomic? | two workers, two vehicles, two zones of one slot, four requests, the demo data included |
| `crow_worker` | Are requests answered once, in order, as routed, and are silent clients cut off? | three connections; one client with twelve kinds of requests, two of them in sequence |
| `web_page` | Does the overlay go away, and does the page show what belongs together? | three calls started by users, two at once, all eight functions |
| `prototype` | Is undo exact, does a confirmation act once, does the prototype implement its lot? | two zones of up to two slots, two new vehicles, three dialogs |
| `claim_*` | five statements the code does not keep, see section 4 | the four of the core: two zones of two slots, four requests; the preflight: as `crow_worker` |

Why the bounds are enough.

- `system_deep`: six requests grow the buffer four times (1, 2, 4, 8), the last
  one with records of each earlier buffer still on the stack; with two slots, six
  requests need cancellations in between, so every slot is taken and given back
  several times, and full and empty stacks both occur. The operations look at no
  more than the top record and one request at a time.
- `system_zones`: the order of zones, of areas and of slots and the fall back to
  another zone each decide the answer in some state.
- `rollback_contract`: one request can be recorded three times on the stack, as
  often as its state can change, and one slot five times.
- `server_concurrent`: two workers meet in every pair of steps; three further
  requests after the seeded one let two overlap and a third one run alone after
  them, and grow the vector while the others go through it.
- `crow_worker`: two requests on one connection are what an answer can inherit
  from the last one. Three connections are what chained losses of deadlines need:
  one that timed out, one it robs, and one that the robbed one robs.
- `web_page`: an overlap needs two calls; a third one follows what they leave.
- `prototype`: three dialogs leave two listeners of one kind under the shown one.

All bounds (`MaxZones`, `MaxRequests`, `MaxHistory`, `MaxClicks`, `MaxAtOnce`,
`MaxSlots`, `MaxVehicles`, `MaxDialogs`) stand in guards. Deadlock is not checked
where the program may stop or be done: a write into freed memory may end the
runs of `ParkingSystem` and of the server, all connections may be over, all calls
of the page may be done.

Properties, in one line each:

- `HistoryMatchesSlots`: the taken slots are those on the stack, each once.
- `HistoryInRequestOrder`: the stack is in request order, one record each, with the slot granted.
- `StaleRecordsAreTheMoved`: a record is stale iff its request was moved by the last growth.
- `StateMatchesRecord`: `REQUESTED` means undone; an unmoved `ALLOCATED` request still has its record.
- `DoubleBookingNeedsMove`: two `ALLOCATED` requests share a slot only if one was moved by a growth.
- `NoSlotLeak`: there are always enough requests left to cancel to empty the stack.
- `ImplementsLot`: `LifoLot`'s specification, with the stack of slots for `held`.
- `GrantsBestSlot`, `VehiclesRegisteredOnce`, `UndoIsExact`: as the questions say.
- `SharingNeedsOverlap`: requests share a slot or an id only if both calls overlapped another.
- `AloneIsAnsweredOwnId`, `AloneIsAtomic`: a call that overlaps none is one operation of `ParkingSystem`, answered with its id, whatever overlaps left behind.
- `DashboardInWindow`: its counts lie between those when it began and those now.
- `EveryCallIsAnswered` (liveness): the handlers' loops end although others change what they go through.
- `AnswersInStep`: the n-th answer is to the n-th request; none is left out or answered twice.
- `AnsweredAsRouted`, `CorsUnlessEarly`, `BodyUnlessLeaked`: status, CORS headers and body of each answer are the routes', but for the exceptions of section 4.
- `DeadlineUnlessRobbed`, `RobbedByTheTimedOut`: who has no deadline, and whose doing it is.
- `SilentClientsAreClosed` (liveness): an accepted connection ends, unless it lost its deadline.
- `OverlayHasOwner`, `OverlayGoesAway` (liveness): whoever fails or overlaps, a call at work will hide the overlay.
- `StatsAgree`: no more slots taken than requests active, although fetched one after the other.
- `ZonesGoBackOnlyByOverlap`: the zones shown get older only by overlapping loads.
- `NoRequestIsConfirmed`: no request is ever reported as allocated.
- `HistoryIsExact`, `ImplementsUndoLot`: each record of the history undoes exactly its action.
- `OneVehiclePerConfirm`, `OutsideHeals`: listeners of old dialogs are gone, unless dialogs were opened over one another.

Fairness. The core is passive and every call is a client's choice: none is
assumed there. `SmartParkingServer` has weak fairness of `Step(w)` for each
worker: the operating system runs a thread that can go on. `CrowWorker` has it of
`Start`, `ReadAborted` and `DeadlinePasses`: `io_context::run` runs what is
ready, and the timer's tick is rescheduled for ever; nothing is assumed of the
client, no read need ever return. `WebPage` has it of each call's fetch: the
browser settles every promise of `fetch`, with an answer or an error. No user is
assumed to click, and no server to succeed.

## 4. What the runs found

Runs with `expect` `violation`, each a disagreement with a statement of the repository:

1. `CancelFreesOwnSlot`. Request 0, request 1, cancel 0: slot 1 is freed and slot
   0 stays taken, because `rollback(1)` undoes the newest record
   (`ParkingSystem.cpp:95`), not the one "affecting this request/slot" (94).
2. `TerminalIsFinal`. With four requests, cancel 2 and then cancel 3: request 2
   leaves `CANCELLED`, although "no further transitions allowed"
   (`ParkingRequest.cpp:80`). For the same reason a request that is cancelled
   itself is left in `REQUESTED`: the rollback writes over `CANCELLED`.
3. `AllocatedCanBeReleased`. Every `releaseSlot` of an `ALLOCATED` request answers
   false: `changeState` has no transition from `ALLOCATED` to `RELEASED`, and no
   operation ever makes a request `OCCUPIED`.
4. `UndoReachesRequest`. Request 0, request 1 (the vector grows), cancel twice:
   the second rollback writes through a dangling pointer (`ParkingSystem.cpp:65`).
5. `PreflightCarriesCors`. The router answers every OPTIONS itself, before the
   middleware runs: the 204 has no CORS header, although `CORS_FIX_SUMMARY.md:21`
   says so. `apiFetch` declares JSON on every request, so that every call from
   another origin needs a preflight, and fails.

Behaviour that contradicts no statement and that properties describe as it is:

- Overlapping POSTs can be granted one slot, store one id twice, and be answered
  with each other's id (`SharingNeedsOverlap`). A POST that is refused is answered
  with the id of the last request of someone else (`Server.cpp:292-294`).
- `Expect: 100-continue` turns a 404 or 405 into an empty 200, because writing the
  interim answer clears the response; a HEAD or OPTIONS whose URL arrives in two
  reads may be answered for the first part (`AnsweredAsRouted`).
- A HEAD without Host leaves `skip_body` set, and the next answer on that
  connection has no body (`BodyUnlessLeaked`). The 400 has no CORS headers.
- Ids of deadlines start again once none is scheduled, so that a connection that
  timed out, and reads its abort late, cancels the deadline of another one, which
  then waits for ever and can in turn do the same to a third
  (`RobbedByTheTimedOut`).
- The answer to a POST of a request is not declared as JSON, so that the page
  never sees its id and reports an error although the request was made
  (`NoRequestIsConfirmed`); the timer of `init` hides an overlay that other calls
  still need (`HideEarly`); overlapping loads may show older zones.

## 5. Proofs

For every value of the constants, from the assumptions named in the modules,
which TLC evaluates in the runs: `ConstantsAssumption`, `ContractAssumption`,
`SystemAssumption`, `ClientAssumption`, `ClicksAssumption` and the two
`DemoAssumption`. They give the constants their types and say that demo data is
well formed. Every invariant and every action property or refinement that a
passing run checks is also a theorem.

The core:

- `NullptrMeansFull` (`AllocationEngineProofs`): `allocateSlot` returns `nullptr`
  only if no slot in any zone is available. A set of indices that is not empty has
  a least one (`LeastHit`, from the well-foundedness of the naturals), applied to
  slots, areas and zones in turn.
- `TypeCorrect`: `Spec => []TypeOK`. It is inductive as it stands. The part worth
  proving is that a record keeps pointing at a slot and a request that exist.
- `SlotsMatchHistory`: the inductive invariant is `TypeOK /\ HistoryMatchesSlots`:
  the types are needed in `AddZone`, where a new slot must not be one that a record
  names already. The last conjunct, that undoing a record frees its slot, is needed
  for a rollback to keep the first.
- `SystemImplementsLot`: the refinement, from the two invariants and
  `NullptrMeansFull`: a refusal maps to `Refuse` only because a search that finds
  nothing means that every slot is held.
- `BestSlotIsGranted`: a step that grants takes the least slot of the least area
  of the first zone of the requested kind that has one (`FirstInZone`,
  `FirstZone`), so no free slot is `Better`; needs only the types.
- `ParkingHistoryProofs` first shows (`Steps`) that every step leaves requests and
  stack alone, grants (`Granted`) or undoes (`Undone`). `RecordsInRequestOrder`
  needs no more. `StaleAreTheMoved` needs `Buffers`: the vector's buffer is at least
  half full and no record is from a later one, so a growth leaves every older
  record stale. `StatesMatchRecords` adds `RestoresRequested` and uses both to see
  that an undo that does not reach a request is one of a moved request.
  `SharedSlotNeedsMove` follows from these and `SlotsMatchHistory` without another
  induction. `NoSlotIsLost` counts: a grant adds one to both sides, a cancellation
  takes one request and at most one record away, and what an undo restores is
  never at its end. `VehiclesRegistered` is inductive once every step is known to
  leave the vehicle of a stored request alone.

The rollback manager's contract (`RollbackContractProofs`, `RollbackUndoes`):
`UndoIsExact` for every k and every depth is inductive together with the types.
An object gets the value of the deepest record that names it among those popped,
and the deepest of two parts of the stack is that of the lower part if it has one
(`DeepestIsBelow`); so rolling back k operations and then j more is to roll back
k + j (`SlotsRestoredTogether`, `RequestsRestoredTogether`), and to roll back what
was just recorded is to do nothing.

The server (`SmartParkingServerProofs`), for any number of workers:

- `ServerTypes`: `TypeOK` alone is not inductive; `TypeInv` adds what a worker in
  the middle of `requestParking` remembers (`LinksOK`: its slot exists, its id is
  no greater than the number of requests, and less once it is stored), that every
  stored id is below that number, and that the demo data come first.
- `ServerSharing` and `ServerOwnId`, from `SharingInv`: at most one call runs alone;
  a call that took or is about to take a slot, or is about to store an id, shares
  it only with stored requests that overlapped, and not at all if it runs alone;
  after a call that runs alone has stored its request, that is the last one. Slots
  never become free again, so a slot found free has not been stored before.
- `ServerAtomic`, from `AtomicInv`: what a call that runs alone has done since
  `before`, step by step (`Since`), is a prefix of `RequestParking`; its last step
  completes that action of the instance of `ParkingSystem` (`Serial`), and every
  other step is hidden from it or belongs to calls that overlap.
- `ServerDashboard`, from `DashboardInv`: what a dashboard has counted is no more
  than the slots now taken without those it has still to visit, and with those it
  is no less than the slots taken when it began.

The worker (`CrowWorkerProofs`): `WorkerTypes`, `DeadlinesAreKept` and
`RobbersTimedOut`. The inductive invariant adds to the properties that a
connection that has not started remembers no id (`NewHasNoId`) and the fields of
the records; the answering of a request is shown once to leave socket, deadline
and count alone (`CompleteServes`). That a robber timed out, or was robbed, is
what `DeadlineUnlessRobbed` says of a connection whose id names another's task.
`WorkerAnswersInStep`, `WorkerAnswersAsRouted`, `WorkerSendsCors` and
`WorkerSendsBodies` rest on `AnswersInv`: between two callbacks a connection that
is not over has a response it has not completed, clean but for a `skip_body` left
from a HEAD without Host (`InHand`), and has answered all requests but the one it
is in the middle of. The last answer is what the routes say at each of the four
places that may give it (`HandleUrl`, `HandleHeader`, the host check, the router).

The page (`WebPageProofs`), for any number of clicks and of calls under way:

- `DashboardsAgree` and `NothingIsConfirmed`: a request to allocate is never
  served, and the slots a dashboard has counted are no more than the requests the
  server had then (`CallOK`), hence no more than those of its later answer.
- `PageTypes`: the places for calls are enough (`ShapeInv`). Each call that will
  leave one behind, unawaited, and go on itself counts twice (`Room`), and a click
  is taken only while fewer than `MaxAtOnce` are at work.
- `OverlayIsOwned`: whenever the overlay shows, a call still has a function to run
  that hides it, whatever failed before (`ScriptSteps` lists what a step of a call
  leaves it to run).
- `ZonesGoForward`: a load that overlaps no other was served no less than is shown
  (`LoadOK`), and two loads at work both know that they overlap (`Apart`).

The prototype (`PrototypeProofs`): `PrototypeTypes`, `PrototypeUndoIsExact` (the
chain of lots in `past`, record by record) and `PrototypeImplementsLot`, which
follows from it: the last record restores all of the lot, and not only its slot.
`OneVehicleIsParked` and `ClicksOutsideHeal`, from `DialogInv`: unless dialogs were
opened over one another, the dialog shown is the only one that listens to the
form, and none does when no dialog is shown.

Model-checked only: the three liveness properties, `EveryCallIsAnswered`,
`SilentClientsAreClosed` and `OverlayGoesAway`. They rest on fairness and
`ENABLED`, which are out of the prover's reach. So is induction over data: the
theorems above that speak of every k or of sets of any size use least elements of
sets of numbers and facts about cardinality instead.

## 6. Not modelled

- `server/server.cpp`: its controller, `ApiController`, is not in the repository.
- Vendored code as such. Crow and asio are nearly all of the repository's lines.
  Modelled of Crow is what every request of this server goes through. Left out
  are pipelined requests, upgrades and websockets, streamed and static bodies,
  compression, TLS, the route trie (a set of methods for each URL stands for it)
  and the choice among the workers by queue length (one of the `concurrency`
  threads only accepts: `http_server.h:130`). asio stands behind the order in
  which callbacks run.
- Bodies that do not parse, the mock PUT and the constant analytics of
  `Server.cpp`, which change nothing; `roundPercent`, whose overflow needs more
  taken slots than any instance has.
- Filters, modals, toasts, charts and texts of the page; build scripts, style
  sheets, mark-up.

What could be added: how the core behaves for a client that cancels in stack
order only, which is what `rollback(1)` is right for; pipelined requests of the
worker.
