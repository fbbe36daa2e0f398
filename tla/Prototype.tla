----------------------------- MODULE Prototype ------------------------------
(***************************************************************************)
(* The browser prototype (frontend/scripts): the state container state.js, *)
(* the event handlers of app.js and the dialog of ui.js, which one form    *)
(* and one backdrop serve for all dialogs.  Each action is one event; the  *)
(* submit event takes one step for each of its listeners.                  *)
(*                                                                         *)
(* Zones are numbered as they were added and a slot is its <<zone, number>>.*)
(* Vehicles are numbered as they were created; 0 is no vehicle.            *)
(***************************************************************************)
EXTENDS Integers, Sequences, SequencesExt, FiniteSets

CONSTANTS
    DemoZones,     \* the number of slots of each zone of bootstrapDemoData
    DemoTaken,     \* the slots it fills
    SlotCounts,    \* the slot counts users enter
    MaxZones,      \* bound: zones ever added
    MaxSlots,      \* bound: slots of a zone
    MaxVehicles,   \* bound: vehicles ever created
    MaxDialogs     \* bound: dialogs ever opened

Places == (1 .. MaxZones) \X (1 .. MaxSlots)

ASSUME DemoAssumption ==
    /\ MaxZones \in Nat /\ MaxSlots \in Nat /\ MaxVehicles \in Nat /\ MaxDialogs \in Nat
    /\ SlotCounts \subseteq 1 .. MaxSlots
    /\ DemoZones \in Seq(1 .. MaxSlots)
    /\ Len(DemoZones) \in 1 .. MaxZones
    /\ DemoTaken \in SUBSET Places
    /\ \A p \in DemoTaken : p[1] <= Len(DemoZones) /\ p[2] <= DemoZones[p[1]]

VARIABLES
    zones,      \* the number of slots of each zone
    activeZone,
    vehicle,    \* the vehicle in each slot
    history,    \* AllocationAction[]: slot and vehicleBefore
    created,    \* how many vehicles were created after the demo data
    past,       \* history variable: the lot before each action in history
    visible,    \* whether the backdrop is shown
    form,       \* the dialog whose fields the form has, and the slots it offers
    dialogs,    \* the dialogs that listen for submit events of the form
    outside,    \* the dialogs that listen for clicks on the backdrop
    opened,     \* how many dialogs were opened
    running,    \* the listeners still to run, and the data they get
    added,      \* history variable: the slots filled by the last confirmation of
                \* the dialog shown
    stacked     \* history variable: a dialog was opened over another one

state == << zones, activeZone, vehicle, history, created, past >>
modal == << visible, form, dialogs, outside, opened, stacked >>
vars == << state, modal, running, added >>

NoData == [todo |-> {}]

NoDialog == [number |-> 0, kind |-> "none", zone |-> 0, offered |-> {}]

\* init, after which the page waits for events.
Init ==
    /\ zones = DemoZones
    /\ activeZone = 1
    /\ \E numbering \in [DemoTaken -> 1 .. Cardinality(DemoTaken)] :
         /\ \A p, q \in DemoTaken : numbering[p] = numbering[q] => p = q
         /\ vehicle = [ p \in Places |-> IF p \in DemoTaken THEN -numbering[p] ELSE 0 ]
    /\ history = << >> /\ past = << >> /\ created = 0
    /\ visible = FALSE /\ form = NoDialog /\ dialogs = {} /\ outside = {}
    /\ opened = 0 /\ stacked = FALSE
    /\ running = NoData /\ added = << >>

-----------------------------------------------------------------------------
(* state.js *)

SlotsOf(zone) == { p \in Places : p[1] = zone /\ zone <= Len(zones) /\ p[2] <= zones[zone] }

AllSlots == UNION { SlotsOf(zone) : zone \in DOMAIN zones }

Free(slot) == vehicle[slot] = 0

\* The slot allocateVehicle looks at: the preferred one if it is in the zone,
\* else the first that is free.
AnySlot == << 0, 0 >>

TargetSlot(zone, preferred) ==
    IF preferred # AnySlot THEN { preferred } \cap SlotsOf(zone)
    ELSE { p \in SlotsOf(zone) : Free(p) /\ \A q \in SlotsOf(zone) : q[2] < p[2] => ~Free(q) }

\* A target taken as it is, whether or not there is a vehicle in it.
IgnoreVehicle(slot) == TRUE

MayTake(slot) == Free(slot)

\* vehicleBefore taken after the slot changed.
NothingBefore(slot) == 0

\* snapshotVehicle of what is in the slot before the action.
VehicleBefore(slot) == vehicle[slot]

\* history.push
Record(slot) ==
    /\ history' = Append(history, [slot |-> slot, before |-> VehicleBefore(slot)])
    /\ past' = Append(past, vehicle)

Allocatable(zone, preferred) == { slot \in TargetSlot(zone, preferred) : MayTake(slot) }

AllocateVehicle(zone, preferred) ==
    \E slot \in Allocatable(zone, preferred) :
        /\ vehicle' = [vehicle EXCEPT ![slot] = created + 1]
        /\ created' = created + 1
        /\ Record(slot)
        /\ added' = Append(added, slot)
        /\ UNCHANGED << zones, activeZone >>

\* deallocateVehicle: part of the API, which app.js does not call.
DeallocateVehicle(slot) ==
    /\ running.todo = {}
    /\ slot \in AllSlots /\ ~Free(slot)
    /\ vehicle' = [vehicle EXCEPT ![slot] = 0]
    /\ Record(slot)
    /\ UNCHANGED << zones, activeZone, created, modal, running, added >>

\* A history whose last action is read and stays.
NotPopped(actions) == actions

\* history.pop
Popped(actions) == Front(actions)

\* undoLast, on a click on "Undo".
UndoLast ==
    /\ running.todo = {}
    /\ history # << >>
    /\ LET action == Last(history)
       IN  vehicle' = IF action.slot \in AllSlots
                      THEN [vehicle EXCEPT ![action.slot] = action.before] ELSE vehicle
    /\ history' = Popped(history)
    /\ past' = Front(past)
    /\ UNCHANGED << zones, activeZone, created, modal, running, added >>

\* setActiveZone, on a click on the zone's card, which the backdrop covers.
SetActiveZone(zone) ==
    /\ running.todo = {} /\ ~visible
    /\ activeZone' = zone
    /\ UNCHANGED << zones, vehicle, history, created, past, modal, running, added >>

-----------------------------------------------------------------------------
(* ui.js, openModal *)

\* A click on "Add Zone" or "Add Vehicle"; the buttons stay in reach of the
\* keyboard while a dialog is shown.
OpenModal(kind) ==
    /\ running.todo = {}
    /\ opened < MaxDialogs
    /\ LET dialog == [ number |-> opened + 1, kind |-> kind, zone |-> activeZone,
                       offered |-> { slot \in SlotsOf(activeZone) : kind = "vehicle" /\ Free(slot) } ]
       IN  /\ form' = dialog
           /\ dialogs' = dialogs \cup {dialog}
           /\ outside' = outside \cup {dialog}
    /\ opened' = opened + 1
    /\ visible' = TRUE
    /\ stacked' = (stacked \/ visible)
    /\ added' = << >>
    /\ UNCHANGED << state, running >>

\* A dialog closed without removing its submit listener.
StillListening(closed) == dialogs

\* The dialogs whose submit listeners are left once some dialogs closed.
Listening(closed) == dialogs \ closed

\* A click on "Cancel", which belongs to the dialog shown.
Cancel ==
    /\ running.todo = {} /\ visible
    /\ visible' = FALSE
    /\ dialogs' = Listening({form})
    /\ added' = << >>
    /\ UNCHANGED << state, form, outside, opened, stacked, running >>

\* A click on the backdrop closes every dialog that listens for it.
ClickOutside ==
    /\ running.todo = {} /\ visible
    /\ visible' = FALSE
    /\ dialogs' = Listening(outside)
    /\ outside' = {}
    /\ stacked' = FALSE
    /\ added' = << >>
    /\ UNCHANGED << state, form, opened, running >>

\* The slots offered when the dialog was opened may be taken by now.
Confirm(preferred, slotCount, blank) ==
    /\ running.todo = {} /\ visible
    /\ running' = [ todo |-> dialogs, preferred |-> preferred,
                    slotCount |-> slotCount, blank |-> blank ]
    /\ added' = << >>
    /\ UNCHANGED << state, modal >>

\* The listener whose turn it is: listeners run in the order they were added.
First(listeners) == { d \in listeners : \A e \in listeners : d.number <= e.number }

\* onSubmit of one listener: it does nothing with the fields of another kind
\* of dialog, and acts on the zone that was active when its dialog opened.
RunListener ==
    /\ running.todo # {}
    /\ \E dialog \in First(running.todo) :
       LET accepted == dialog.kind = form.kind /\ ~running.blank
       IN  /\ running' = [running EXCEPT !.todo = @ \ {dialog}]
           /\ \/ /\ accepted /\ dialog.kind = "zone"
                 /\ Len(zones) < MaxZones
                 /\ zones' = Append(zones, running.slotCount)
                 /\ UNCHANGED << activeZone, vehicle, history, created, past, added >>
              \/ /\ accepted /\ dialog.kind = "vehicle"
                 /\ created < MaxVehicles
                 /\ AllocateVehicle(dialog.zone, running.preferred)
              \/ /\ \/ ~accepted
                    \/ dialog.kind = "zone" /\ Len(zones) = MaxZones
                    \/ dialog.kind = "vehicle" /\ created = MaxVehicles
                    \/ dialog.kind = "vehicle" /\ Allocatable(dialog.zone, running.preferred) = {}
                 /\ UNCHANGED << state, added >>
    /\ UNCHANGED modal

Next ==
    \/ \E kind \in {"zone", "vehicle"} : OpenModal(kind)
    \/ \E preferred \in {AnySlot} \cup form.offered, slotCount \in SlotCounts, blank \in BOOLEAN :
         Confirm(preferred, slotCount, blank)
    \/ RunListener \/ Cancel \/ ClickOutside \/ UndoLast
    \/ \E zone \in DOMAIN zones : SetActiveZone(zone)
    \/ \E slot \in AllSlots : DeallocateVehicle(slot)

Spec == Init /\ [][Next]_vars

-----------------------------------------------------------------------------

\* The type of every variable: the history names slots of the lot.
TypeOK ==
    /\ zones \in Seq(1 .. MaxSlots) /\ Len(zones) <= MaxZones
    /\ activeZone \in DOMAIN zones
    /\ vehicle \in [Places -> Int]
    /\ created \in Nat
    /\ history \in Seq([slot : AllSlots, before : Int])
    /\ past \in Seq([Places -> Int])
    /\ Len(past) = Len(history)

\* Each record of the history names the slot in which the lot before the action
\* differs from the lot after it, and the vehicle that was there: taking back
\* any number of actions is exact (state.js:184-258).
HistoryIsExact ==
    \A n \in DOMAIN history :
        past[n] = [(IF n = Len(history) THEN vehicle ELSE past[n + 1])
                     EXCEPT ![history[n].slot] = history[n].before]

\* A confirmation parks one vehicle, in the zone of the dialog shown, unless a
\* dialog was opened over another since the backdrop was last clicked: whatever
\* dialogs were cancelled or confirmed before, their listeners are gone
\* (ui.js:275-301, app.js:197-209).
OneVehiclePerConfirm ==
    ~stacked => /\ Len(added) <= 1
                /\ added # << >> => added[1][1] = form.zone

\* A click outside always gets rid of every listener (ui.js:281-300).
OutsideHeals ==
    /\ dialogs \subseteq outside
    /\ ~visible /\ ~stacked => dialogs = {}

Lot == INSTANCE UndoLot WITH Nobody <- 0, parked <- vehicle

\* The lot and its history do what UndoLot promises.
ImplementsUndoLot == Lot!Spec

=============================================================================
