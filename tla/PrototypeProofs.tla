-------------------------- MODULE PrototypeProofs ---------------------------
(***************************************************************************)
(* Proofs about Prototype: its types, the exactness of its history, that   *)
(* it implements the lot with undo, and the listeners of its dialogs.      *)
(***************************************************************************)
EXTENDS Prototype, TLAPS

\* While listeners run, the data they get are those of a confirmed form.
DataOK ==
    running.todo # {} =>
        \E todo, preferred, blank : \E slotCount \in SlotCounts :
            running = [ todo |-> todo, preferred |-> preferred,
                        slotCount |-> slotCount, blank |-> blank ]

\* The inductive invariant.
IInv == TypeOK /\ DataOK /\ HistoryIsExact

LEMMA SeqOfMore ==
    ASSUME NEW S, NEW T, S \subseteq T, NEW s \in Seq(S)
    PROVE  s \in Seq(T)
  OBVIOUS

-----------------------------------------------------------------------------
(* The slots *)

\* The slots of a zone are slots of the lot.
LEMMA SlotsOfIsPart ==
    ASSUME Len(zones) \in Nat, DOMAIN zones = 1 .. Len(zones), NEW zone
    PROVE  SlotsOf(zone) \subseteq AllSlots /\ AllSlots \subseteq Places
  <1>1. Places = (1 .. MaxZones) \X (1 .. MaxSlots)
    BY DEF Places
  <1>2. ASSUME NEW p \in SlotsOf(zone) PROVE p \in AllSlots
    <2>1. p \in Places /\ p[1] = zone /\ zone <= Len(zones)
      BY DEF SlotsOf
    <2>2. zone \in 1 .. Len(zones)
      BY <2>1, <1>1, DemoAssumption
    <2> QED
      BY <2>2 DEF AllSlots
  <1>3. AllSlots \subseteq Places
    BY DEF AllSlots, SlotsOf
  <1> QED
    BY <1>2, <1>3

\* The slot that is allocated is one of the lot, and free.
LEMMA TargetIsFree ==
    ASSUME Len(zones) \in Nat, DOMAIN zones = 1 .. Len(zones), NEW zone, NEW preferred,
           NEW slot \in Allocatable(zone, preferred)
    PROVE  slot \in AllSlots /\ Free(slot)
  <1>1. slot \in TargetSlot(zone, preferred) /\ Free(slot)
    BY DEF Allocatable, MayTake
  <1>2. slot \in SlotsOf(zone)
    BY <1>1 DEF TargetSlot
  <1> QED
    BY <1>1, <1>2, SlotsOfIsPart

\* A lot to which a zone is added keeps its slots.
LEMMA ZonesGrow ==
    ASSUME zones \in Seq(1 .. MaxSlots), NEW n \in 1 .. MaxSlots, zones' = Append(zones, n)
    PROVE  /\ zones' \in Seq(1 .. MaxSlots)
           /\ Len(zones') = Len(zones) + 1
           /\ AllSlots \subseteq AllSlots'
  <1>1. zones' \in Seq(1 .. MaxSlots) /\ Len(zones') = Len(zones) + 1
    OBVIOUS
  <1>2. \A z \in 1 .. Len(zones) : zones'[z] = zones[z]
    OBVIOUS
  <1>3. DOMAIN zones = 1 .. Len(zones) /\ DOMAIN zones' = 1 .. Len(zones) + 1
    BY <1>1
  <1>4. Len(zones) \in Nat
    OBVIOUS
  <1>5. ASSUME NEW z \in DOMAIN zones PROVE z \in DOMAIN zones' /\ SlotsOf(z) \subseteq SlotsOf(z)'
    BY <1>1, <1>2, <1>3, <1>4 DEF SlotsOf, Places
  <1>6. AllSlots \subseteq AllSlots'
    BY <1>5 DEF AllSlots
  <1> QED
    BY <1>1, <1>6

-----------------------------------------------------------------------------
(* The history *)

\* What an action that changes one slot and records it leaves behind.
LEMMA RecordAppends ==
    ASSUME TypeOK, NEW slot \in AllSlots, Record(slot)
    PROVE  /\ history' = Append(history, [slot |-> slot, before |-> vehicle[slot]])
           /\ past' = Append(past, vehicle)
           /\ Len(history') = Len(history) + 1 /\ Len(past') = Len(history')
           /\ Len(history) \in Nat /\ Len(past) = Len(history)
           /\ DOMAIN history' = 1 .. Len(history) + 1 /\ DOMAIN history = 1 .. Len(history)
           /\ \A n \in 1 .. Len(history) : history'[n] = history[n] /\ past'[n] = past[n]
           /\ history'[Len(history) + 1] = [slot |-> slot, before |-> vehicle[slot]]
           /\ past'[Len(history) + 1] = vehicle
           /\ history' \in Seq([slot : AllSlots, before : Int])
           /\ past' \in Seq([Places -> Int])
  <1> DEFINE R == [slot : AllSlots, before : Int]
             L == [Places -> Int]
             r == [slot |-> slot, before |-> vehicle[slot]]
  <1>1. history' = Append(history, r) /\ past' = Append(past, vehicle)
    BY DEF Record, VehicleBefore
  <1>2. history \in Seq(R) /\ past \in Seq(L) /\ Len(past) = Len(history)
    BY DEF TypeOK
  <1>3. vehicle \in L
    BY DEF TypeOK
  <1>4. slot \in Places
    BY DEF AllSlots, SlotsOf
  <1>5. r \in R
    BY <1>3, <1>4
  <1> HIDE DEF R, L, r
  <1>6. /\ history' \in Seq(R) /\ Len(history') = Len(history) + 1
        /\ Len(history) \in Nat
        /\ DOMAIN history' = 1 .. Len(history) + 1 /\ DOMAIN history = 1 .. Len(history)
        /\ \A n \in 1 .. Len(history) : history'[n] = history[n]
        /\ history'[Len(history) + 1] = r
    BY <1>1, <1>2, <1>5
  <1>7. /\ past' \in Seq(L) /\ Len(past') = Len(past) + 1
        /\ \A n \in 1 .. Len(past) : past'[n] = past[n]
        /\ past'[Len(past) + 1] = vehicle
    BY <1>1, <1>2, <1>3
  <1> QED
    BY <1>1, <1>2, <1>6, <1>7 DEF R, L, r

LEMMA ActKeepsExact ==
    ASSUME TypeOK, HistoryIsExact, NEW slot \in AllSlots, NEW x \in Int,
           vehicle' = [vehicle EXCEPT ![slot] = x], Record(slot)
    PROVE  HistoryIsExact'
  <1> DEFINE len == Len(history)
  <1>1. /\ len \in Nat /\ Len(history') = len + 1
        /\ DOMAIN history' = 1 .. len + 1 /\ DOMAIN history = 1 .. len
        /\ \A n \in 1 .. len : history'[n] = history[n] /\ past'[n] = past[n]
        /\ history'[len + 1] = [slot |-> slot, before |-> vehicle[slot]]
        /\ past'[len + 1] = vehicle
    BY RecordAppends
  <1>2. \A n \in 1 .. len :
            past[n] = [(IF n = len THEN vehicle ELSE past[n + 1])
                         EXCEPT ![history[n].slot] = history[n].before]
    BY <1>1 DEF HistoryIsExact
  <1>3. vehicle \in [Places -> Int] /\ slot \in Places
    BY DEF TypeOK, AllSlots, SlotsOf
  <1> HIDE DEF len
  <1> DEFINE after(n) == IF n = len + 1 THEN vehicle' ELSE past'[n + 1]
  <1>4. ASSUME NEW n \in 1 .. len + 1
        PROVE  past'[n] = [after(n) EXCEPT ![history'[n].slot] = history'[n].before]
    <2>1. CASE n = len + 1
      <3>1. after(n) = vehicle'
        BY <2>1
      <3>2. [vehicle' EXCEPT ![slot] = vehicle[slot]] = vehicle
        BY <1>3
      <3>3. history'[n].slot = slot /\ history'[n].before = vehicle[slot]
        BY <1>1, <2>1
      <3> QED
        BY <3>1, <3>2, <3>3, <1>1, <2>1
    <2>2. CASE n \in 1 .. len
      <3>1. after(n) = IF n = len THEN vehicle ELSE past[n + 1]
        BY <1>1, <2>2
      <3>2. past'[n] = past[n] /\ history'[n] = history[n]
        BY <1>1, <2>2
      <3> HIDE DEF after
      <3> QED
        BY <3>1, <3>2, <1>2, <2>2
    <2> QED
      BY <1>1, <2>1, <2>2
  <1> QED
    BY <1>1, <1>4 DEF HistoryIsExact

\* What an undo leaves behind: it restores the lot before the last action.
LEMMA UndoRestores ==
    ASSUME TypeOK, HistoryIsExact, UndoLast
    PROVE  /\ Len(history) \in Nat \ {0}
           /\ DOMAIN history = 1 .. Len(history) /\ DOMAIN history' = 1 .. Len(history) - 1
           /\ vehicle' = past[Len(history)] /\ vehicle' \in [Places -> Int]
           /\ Len(history') = Len(history) - 1 /\ Len(past') = Len(history')
           /\ \A n \in 1 .. Len(history) - 1 : history'[n] = history[n] /\ past'[n] = past[n]
           /\ history' \in Seq([slot : AllSlots, before : Int])
           /\ past' \in Seq([Places -> Int])
  <1> DEFINE R == [slot : AllSlots, before : Int]
             L == [Places -> Int]
             len == Len(history)
  <1>1. history \in Seq(R) /\ past \in Seq(L) /\ Len(past) = len /\ history # << >>
    BY DEF TypeOK, UndoLast
  <1>2. history' = SubSeq(history, 1, len - 1) /\ past' = SubSeq(past, 1, len - 1)
    BY <1>1 DEF UndoLast, Popped, Front
  <1>3. history[len] \in R /\ len \in Nat \ {0} /\ past[len] \in L /\ DOMAIN history = 1 .. len
    <2> HIDE DEF R, L
    <2> QED
      BY <1>1
  <1>4. history[len].slot \in AllSlots
    BY <1>3
  <1>5. vehicle' = [vehicle EXCEPT ![history[len].slot] = history[len].before]
    BY <1>4 DEF UndoLast, Last
  <1>6. past[len] = [vehicle EXCEPT ![history[len].slot] = history[len].before]
    <2>1. \A n \in 1 .. len :
              past[n] = [(IF n = len THEN vehicle ELSE past[n + 1])
                           EXCEPT ![history[n].slot] = history[n].before]
      BY <1>3 DEF HistoryIsExact
    <2>2. len \in 1 .. len
      BY <1>3
    <2> HIDE DEF len
    <2> QED
      BY <2>1, <2>2
  <1> HIDE DEF R, L
  <1>7. /\ history' \in Seq(R) /\ Len(history') = len - 1 /\ DOMAIN history' = 1 .. len - 1
        /\ \A n \in 1 .. len - 1 : history'[n] = history[n]
    BY <1>1, <1>2, <1>3
  <1>8. /\ past' \in Seq(L) /\ Len(past') = len - 1
        /\ \A n \in 1 .. len - 1 : past'[n] = past[n]
    BY <1>1, <1>2, <1>3
  <1> QED
    BY <1>3, <1>5, <1>6, <1>7, <1>8 DEF R, L

LEMMA UndoKeepsExact ==
    ASSUME TypeOK, HistoryIsExact, UndoLast
    PROVE  HistoryIsExact'
  <1> DEFINE len == Len(history)
  <1>1. /\ len \in Nat \ {0}
        /\ DOMAIN history = 1 .. len /\ DOMAIN history' = 1 .. len - 1
        /\ vehicle' = past[len] /\ Len(history') = len - 1
        /\ \A n \in 1 .. len - 1 : history'[n] = history[n] /\ past'[n] = past[n]
    BY UndoRestores
  <1>2. \A n \in 1 .. len :
            past[n] = [(IF n = len THEN vehicle ELSE past[n + 1])
                         EXCEPT ![history[n].slot] = history[n].before]
    BY <1>1 DEF HistoryIsExact
  <1> HIDE DEF len
  <1> DEFINE after(n) == IF n = len - 1 THEN vehicle' ELSE past'[n + 1]
  <1>3. ASSUME NEW n \in 1 .. len - 1
        PROVE  past'[n] = [after(n) EXCEPT ![history'[n].slot] = history'[n].before]
    <2>1. after(n) = past[n + 1] /\ n # len /\ n \in 1 .. len
      BY <1>1
    <2>2. past'[n] = past[n] /\ history'[n] = history[n]
      BY <1>1
    <2> HIDE DEF after
    <2> QED
      BY <2>1, <2>2, <1>2
  <1> QED
    BY <1>1, <1>3 DEF HistoryIsExact

-----------------------------------------------------------------------------
(* The actions *)

\* The variables of the lot as an action that takes or leaves a slot leaves them.
LEMMA ActKeepsTypes ==
    ASSUME TypeOK, NEW slot \in AllSlots, NEW x \in Int,
           vehicle' = [vehicle EXCEPT ![slot] = x], Record(slot),
           created' \in Nat, UNCHANGED << zones, activeZone >>
    PROVE  TypeOK'
  <1>1. AllSlots' = AllSlots
    BY DEF AllSlots, SlotsOf
  <1>2. vehicle' \in [Places -> Int]
    BY DEF TypeOK
  <1>3. /\ history' \in Seq([slot : AllSlots, before : Int])
        /\ past' \in Seq([Places -> Int]) /\ Len(past') = Len(history')
    BY RecordAppends
  <1> QED
    BY <1>1, <1>2, <1>3 DEF TypeOK

LEMMA UndoKeepsTypes ==
    ASSUME TypeOK, HistoryIsExact, UndoLast
    PROVE  TypeOK'
  <1>1. AllSlots' = AllSlots
    BY DEF AllSlots, SlotsOf, UndoLast
  <1>2. /\ vehicle' \in [Places -> Int]
        /\ history' \in Seq([slot : AllSlots, before : Int])
        /\ past' \in Seq([Places -> Int]) /\ Len(past') = Len(history')
    BY UndoRestores
  <1> QED
    BY <1>1, <1>2 DEF TypeOK, UndoLast

LEMMA AddZoneKeepsTypes ==
    ASSUME TypeOK, NEW n \in SlotCounts, Len(zones) < MaxZones, zones' = Append(zones, n),
           UNCHANGED << activeZone, vehicle, history, created, past >>
    PROVE  TypeOK'
  <1>1. n \in 1 .. MaxSlots /\ zones \in Seq(1 .. MaxSlots) /\ MaxZones \in Nat
    BY DemoAssumption DEF TypeOK
  <1>2. zones' \in Seq(1 .. MaxSlots) /\ Len(zones') = Len(zones) + 1 /\ AllSlots \subseteq AllSlots'
    BY <1>1, ZonesGrow
  <1>3. activeZone' \in DOMAIN zones' /\ Len(zones') <= MaxZones
    BY <1>1, <1>2 DEF TypeOK
  <1>4. history' \in Seq([slot : AllSlots', before : Int])
    <2>1. [slot : AllSlots, before : Int] \subseteq [slot : AllSlots', before : Int]
      BY <1>2
    <2>2. history' = history /\ history \in Seq([slot : AllSlots, before : Int])
      BY DEF TypeOK
    <2> QED
      BY <2>1, <2>2, SeqOfMore
  <1> QED
    BY <1>2, <1>3, <1>4 DEF TypeOK

\* An action of the user that leaves the lot as it is.
LEMMA LotUntouched ==
    ASSUME TypeOK, HistoryIsExact, UNCHANGED << zones, vehicle, history, created, past >>,
           activeZone' \in DOMAIN zones
    PROVE  TypeOK' /\ HistoryIsExact'
  <1>1. AllSlots' = AllSlots
    BY DEF AllSlots, SlotsOf
  <1> QED
    BY <1>1 DEF TypeOK, HistoryIsExact

\* A listener that is done leaves the others the data they get.
LEMMA ListenerKeepsData ==
    ASSUME DataOK, running.todo # {}, NEW dialog,
           running' = [running EXCEPT !.todo = @ \ {dialog}]
    PROVE  DataOK'
  <1>1. PICK todo, preferred, blank : \E slotCount \in SlotCounts :
            running = [ todo |-> todo, preferred |-> preferred,
                        slotCount |-> slotCount, blank |-> blank ]
    BY DEF DataOK
  <1>2. PICK slotCount \in SlotCounts :
            running = [ todo |-> todo, preferred |-> preferred,
                        slotCount |-> slotCount, blank |-> blank ]
    BY <1>1
  <1>3. running' = [ todo |-> todo \ {dialog}, preferred |-> preferred,
                     slotCount |-> slotCount, blank |-> blank ]
    BY <1>2
  <1>4. \E t, p, b : \E n \in SlotCounts :
            running' = [ todo |-> t, preferred |-> p, slotCount |-> n, blank |-> b ]
    BY <1>3, Zenon
  <1> QED
    BY <1>4, Zenon DEF DataOK

LEMMA ListenerKeepsInv ==
    ASSUME IInv, RunListener
    PROVE  IInv'
  <1>1. DataOK'
    <2>1. PICK dialog : running' = [running EXCEPT !.todo = @ \ {dialog}]
      BY DEF RunListener
    <2> QED
      BY <2>1, ListenerKeepsData DEF IInv, RunListener
  <1>2. running.slotCount \in SlotCounts
    BY DEF IInv, DataOK, RunListener
  <1>3. Len(zones) \in Nat /\ DOMAIN zones = 1 .. Len(zones)
    BY DEF IInv, TypeOK
  <1>4. CASE /\ Len(zones) < MaxZones
             /\ zones' = Append(zones, running.slotCount)
             /\ UNCHANGED << activeZone, vehicle, history, created, past, added >>
    <2>1. TypeOK'
      BY <1>2, <1>4, AddZoneKeepsTypes DEF IInv
    <2>2. HistoryIsExact'
      BY <1>4 DEF IInv, HistoryIsExact
    <2> QED
      BY <1>1, <2>1, <2>2 DEF IInv
  <1>5. ASSUME NEW zone, AllocateVehicle(zone, running.preferred) PROVE IInv'
    <2>1. PICK slot \in Allocatable(zone, running.preferred) :
            /\ vehicle' = [vehicle EXCEPT ![slot] = created + 1]
            /\ created' = created + 1
            /\ Record(slot)
            /\ UNCHANGED << zones, activeZone >>
      BY <1>5 DEF AllocateVehicle
    <2>2. slot \in AllSlots
      BY <1>3, TargetIsFree
    <2>3. created + 1 \in Int /\ created' \in Nat
      BY <2>1 DEF IInv, TypeOK
    <2>4. TypeOK'
      BY <2>1, <2>2, <2>3, ActKeepsTypes DEF IInv
    <2>5. HistoryIsExact'
      BY <2>1, <2>2, <2>3, ActKeepsExact DEF IInv
    <2> QED
      BY <1>1, <2>4, <2>5 DEF IInv
  <1>6. CASE UNCHANGED << state, added >>
    <2>1. TypeOK' /\ HistoryIsExact'
      BY <1>6, LotUntouched DEF IInv, state, TypeOK
    <2> QED
      BY <1>1, <2>1 DEF IInv
  <1> QED
    BY <1>4, <1>5, <1>6 DEF RunListener

LEMMA InitInv == Init => IInv
  <1> SUFFICES ASSUME Init PROVE IInv
    OBVIOUS
  <1>1. vehicle \in [Places -> Int]
    <2>1. PICK numbering \in [DemoTaken -> 1 .. Cardinality(DemoTaken)] :
            vehicle = [ p \in Places |-> IF p \in DemoTaken THEN -numbering[p] ELSE 0 ]
      BY DEF Init
    <2>2. \A p \in DemoTaken : numbering[p] \in 1 .. Cardinality(DemoTaken)
      OBVIOUS
    <2>3. \A i \in 1 .. Cardinality(DemoTaken) : i \in Int /\ -i \in Int
      OBVIOUS
    <2> QED
      BY <2>1, <2>2, <2>3
  <1>2. zones \in Seq(1 .. MaxSlots) /\ Len(zones) <= MaxZones /\ activeZone \in DOMAIN zones
    BY DemoAssumption DEF Init
  <1>3. history = << >> /\ past = << >> /\ created = 0 /\ running.todo = {}
    BY DEF Init, NoData
  <1> QED
    BY <1>1, <1>2, <1>3 DEF IInv, TypeOK, DataOK, HistoryIsExact

LEMMA NextInv == IInv /\ [Next]_vars => IInv'
  <1> SUFFICES ASSUME IInv, [Next]_vars PROVE IInv'
    OBVIOUS
  <1> USE DEF IInv
  <1>1. ASSUME UNCHANGED << state, running >> PROVE IInv'
    <2>1. activeZone' \in DOMAIN zones
      BY <1>1 DEF state, TypeOK
    <2>2. TypeOK' /\ HistoryIsExact'
      BY <1>1, <2>1, LotUntouched DEF state
    <2> QED
      BY <1>1, <2>2 DEF DataOK
  <1>2. ASSUME NEW kind \in {"zone", "vehicle"}, OpenModal(kind) PROVE IInv'
    BY <1>1, <1>2 DEF OpenModal
  <1>3. ASSUME NEW preferred \in {AnySlot} \cup form.offered, NEW slotCount \in SlotCounts,
               NEW blank \in BOOLEAN, Confirm(preferred, slotCount, blank)
        PROVE  IInv'
    <2>1. TypeOK' /\ HistoryIsExact'
      BY <1>3, LotUntouched DEF Confirm, state, TypeOK
    <2>2. running' = [ todo |-> dialogs, preferred |-> preferred,
                       slotCount |-> slotCount, blank |-> blank ]
      BY <1>3 DEF Confirm
    <2>3. \E t, p, b : \E n \in SlotCounts :
              running' = [ todo |-> t, preferred |-> p, slotCount |-> n, blank |-> b ]
      BY <2>2, Zenon
    <2> QED
      BY <2>1, <2>3, Zenon DEF DataOK
  <1>4. ASSUME RunListener PROVE IInv'
    BY <1>4, ListenerKeepsInv
  <1>5. ASSUME Cancel PROVE IInv'
    BY <1>1, <1>5 DEF Cancel
  <1>6. ASSUME ClickOutside PROVE IInv'
    BY <1>1, <1>6 DEF ClickOutside
  <1>7. ASSUME UndoLast PROVE IInv'
    <2>1. DataOK'
      BY <1>7 DEF UndoLast, DataOK
    <2> QED
      BY <1>7, <2>1, UndoKeepsTypes, UndoKeepsExact
  <1>8. ASSUME NEW zone \in DOMAIN zones, SetActiveZone(zone) PROVE IInv'
    <2>1. TypeOK' /\ HistoryIsExact'
      BY <1>8, LotUntouched DEF SetActiveZone
    <2> QED
      BY <1>8, <2>1 DEF SetActiveZone, DataOK
  <1>9. ASSUME NEW slot \in AllSlots, DeallocateVehicle(slot) PROVE IInv'
    <2>1. /\ vehicle' = [vehicle EXCEPT ![slot] = 0] /\ Record(slot)
          /\ UNCHANGED << zones, activeZone, created, running >>
      BY <1>9 DEF DeallocateVehicle
    <2>2. 0 \in Int /\ created' \in Nat /\ UNCHANGED << zones, activeZone >>
      BY <2>1 DEF TypeOK
    <2>3. TypeOK'
      BY <2>1, <2>2, ActKeepsTypes
    <2>4. HistoryIsExact'
      BY <2>1, <2>2, ActKeepsExact
    <2> QED
      BY <2>1, <2>3, <2>4 DEF DataOK
  <1>10. CASE UNCHANGED vars
    BY <1>1, <1>10 DEF vars
  <1> QED
    BY <1>2, <1>3, <1>4, <1>5, <1>6, <1>7, <1>8, <1>9, <1>10 DEF Next

LEMMA Invariance == Spec => []IInv
  <1>1. Init => IInv
    BY InitInv
  <1>2. IInv /\ [Next]_vars => IInv'
    BY NextInv
  <1> QED
    BY <1>1, <1>2, PTL DEF Spec

\* The types of the prototype's state: above all, the history only names slots
\* of the lot, so that an undo always finds its slot (state.js:250-253).
THEOREM PrototypeTypes == Spec => []TypeOK
  <1>1. IInv => TypeOK
    BY DEF IInv
  <1> QED
    BY <1>1, Invariance, PTL

\* Undoing any number of actions restores the lot before them, exactly
\* (state.js:184-258).
THEOREM PrototypeUndoIsExact == Spec => []HistoryIsExact
  <1>1. IInv => HistoryIsExact
    BY DEF IInv
  <1> QED
    BY <1>1, Invariance, PTL

-----------------------------------------------------------------------------
(* Refinement *)

LEMMA ActActs ==
    ASSUME TypeOK, NEW slot \in AllSlots, NEW x \in Int, Free(slot) \/ x = 0,
           vehicle' = [vehicle EXCEPT ![slot] = x], Record(slot)
    PROVE  Lot!Act
  <1>1. slot \in Places /\ vehicle \in [Places -> Int]
    BY DEF TypeOK, AllSlots, SlotsOf
  <1>2. vehicle'[slot] = x
    BY <1>1
  <1>3. past' = Append(past, vehicle)
    BY DEF Record
  <1> QED
    BY <1>1, <1>2, <1>3 DEF Lot!Act, Free

LEMMA UndoUndoes ==
    ASSUME TypeOK, HistoryIsExact, UndoLast
    PROVE  Lot!Undo
  <1>1. past # << >> /\ Len(past) = Len(history)
    BY UndoRestores DEF TypeOK
  <1>2. vehicle' = past[Len(past)]
    BY <1>1, UndoRestores
  <1> QED
    BY <1>1, <1>2 DEF Lot!Undo, UndoLast, Front

LEMMA NextImplements ==
    TypeOK /\ HistoryIsExact /\ [Next]_vars => [Lot!Next]_<< vehicle, past >>
  <1> SUFFICES ASSUME TypeOK, HistoryIsExact, [Next]_vars
               PROVE  [Lot!Next]_<< vehicle, past >>
    OBVIOUS
  <1>1. ASSUME RunListener PROVE [Lot!Next]_<< vehicle, past >>
    <2>1. CASE UNCHANGED << vehicle, past >>
      BY <2>1
    <2>2. ASSUME NEW zone, AllocateVehicle(zone, running.preferred)
          PROVE  [Lot!Next]_<< vehicle, past >>
      <3>1. PICK slot \in Allocatable(zone, running.preferred) :
              vehicle' = [vehicle EXCEPT ![slot] = created + 1] /\ Record(slot)
        BY <2>2 DEF AllocateVehicle
      <3>2. Len(zones) \in Nat /\ DOMAIN zones = 1 .. Len(zones)
        BY DEF TypeOK
      <3>3. slot \in AllSlots /\ Free(slot)
        BY <3>2, TargetIsFree
      <3>4. created + 1 \in Int
        BY DEF TypeOK
      <3> QED
        BY <3>1, <3>3, <3>4, ActActs DEF Lot!Next
    <2> QED
      BY <1>1, <2>1, <2>2 DEF RunListener, state
  <1>2. ASSUME NEW slot \in AllSlots, DeallocateVehicle(slot)
        PROVE  [Lot!Next]_<< vehicle, past >>
    <2>1. vehicle' = [vehicle EXCEPT ![slot] = 0] /\ Record(slot) /\ 0 \in Int
      BY <1>2 DEF DeallocateVehicle
    <2> QED
      BY <2>1, ActActs DEF Lot!Next
  <1>3. ASSUME UndoLast PROVE [Lot!Next]_<< vehicle, past >>
    BY <1>3, UndoUndoes DEF Lot!Next
  <1>4. ASSUME \/ \E kind \in {"zone", "vehicle"} : OpenModal(kind)
               \/ \E preferred \in {AnySlot} \cup form.offered, slotCount \in SlotCounts,
                     blank \in BOOLEAN : Confirm(preferred, slotCount, blank)
               \/ Cancel \/ ClickOutside
               \/ \E zone \in DOMAIN zones : SetActiveZone(zone)
               \/ UNCHANGED vars
        PROVE  UNCHANGED << vehicle, past >>
    BY <1>4 DEF OpenModal, Confirm, Cancel, ClickOutside, SetActiveZone, vars, state
  <1> QED
    BY <1>1, <1>2, <1>3, <1>4 DEF Next

\* The prototype implements the lot with undo: a slot is never taken from a
\* vehicle, and an undo brings back the whole lot (state.js:184-258).
THEOREM PrototypeImplementsLot == Spec => ImplementsUndoLot
  <1>1. Init => Lot!Init
    BY InitInv DEF IInv, TypeOK, Init, Lot!Init
  <1>2. TypeOK /\ HistoryIsExact /\ [Next]_vars => [Lot!Next]_<< vehicle, past >>
    BY NextImplements
  <1>3. Spec => []TypeOK /\ []HistoryIsExact
    BY PrototypeTypes, PrototypeUndoIsExact
  <1> QED
    BY <1>1, <1>2, <1>3, PTL DEF Spec, ImplementsUndoLot, Lot!Spec

-----------------------------------------------------------------------------
(* The dialogs *)

\* Unless dialogs were stacked, the dialog shown is the only one that listens,
\* and while its listener is still to run nothing has been parked.
DialogInv ==
    /\ dialogs \subseteq outside
    /\ ~stacked => /\ visible => dialogs = {form}
                   /\ ~visible => dialogs = {}
                   /\ running.todo # {} => running.todo = {form} /\ added = << >>
    /\ OneVehiclePerConfirm

LEMMA ListenerKeepsDialogs ==
    ASSUME TypeOK, DataOK, DialogInv, RunListener
    PROVE  DialogInv'
  <1>1. UNCHANGED << visible, form, dialogs, outside, stacked >> /\ running.todo # {}
    BY DEF RunListener, modal
  <1>2. ASSUME ~stacked
        PROVE  /\ running'.todo = {}
               /\ added' = << >> \/ \E slot : slot[1] = form.zone /\ added' = << slot >>
    <2>1. running.todo = {form} /\ added = << >>
      BY <1>1, <1>2 DEF DialogInv
    <2>2. First(running.todo) \subseteq {form}
      BY <2>1 DEF First
    <2>3. running' = [running EXCEPT !.todo = @ \ {form}]
      BY <2>2 DEF RunListener
    <2>4. running'.todo = {}
      BY <1>1, <2>1, <2>3 DEF DataOK
    <2>5. added' = added \/ AllocateVehicle(form.zone, running.preferred)
      BY <2>2 DEF RunListener
    <2>6. CASE AllocateVehicle(form.zone, running.preferred)
      <3>1. PICK slot \in Allocatable(form.zone, running.preferred) : added' = Append(added, slot)
        BY <2>6 DEF AllocateVehicle
      <3>2. slot \in SlotsOf(form.zone)
        BY DEF Allocatable, TargetSlot
      <3>3. slot[1] = form.zone
        BY <3>2 DEF SlotsOf
      <3>4. added' = << slot >>
        BY <2>1, <3>1
      <3> QED
        BY <2>4, <3>3, <3>4
    <2> QED
      BY <2>1, <2>4, <2>5, <2>6
  <1>3. OneVehiclePerConfirm'
    <2> SUFFICES ASSUME ~stacked
                 PROVE  Len(added') <= 1 /\ (added' # << >> => added'[1][1] = form.zone)
      BY <1>1 DEF OneVehiclePerConfirm
    <2>1. CASE added' = << >>
      BY <2>1
    <2>2. ASSUME NEW slot, slot[1] = form.zone, added' = << slot >>
          PROVE  Len(added') <= 1 /\ (added' # << >> => added'[1][1] = form.zone)
      BY <2>2
    <2> QED
      BY <1>2, <2>1, <2>2
  <1> QED
    BY <1>1, <1>2, <1>3 DEF DialogInv

LEMMA NextDialogs == TypeOK /\ DataOK /\ DialogInv /\ [Next]_vars => DialogInv'
  <1> SUFFICES ASSUME TypeOK, DataOK, DialogInv, [Next]_vars PROVE DialogInv'
    OBVIOUS
  <1>1. added' = << >> => OneVehiclePerConfirm'
    BY DEF OneVehiclePerConfirm
  <1>2. ASSUME NEW kind \in {"zone", "vehicle"}, OpenModal(kind) PROVE DialogInv'
    BY <1>1, <1>2 DEF OpenModal, DialogInv
  <1>3. ASSUME NEW preferred \in {AnySlot} \cup form.offered, NEW slotCount \in SlotCounts,
               NEW blank \in BOOLEAN, Confirm(preferred, slotCount, blank)
        PROVE  DialogInv'
    BY <1>1, <1>3 DEF Confirm, modal, DialogInv
  <1>4. ASSUME RunListener PROVE DialogInv'
    BY <1>4, ListenerKeepsDialogs
  <1>5. ASSUME Cancel PROVE DialogInv'
    BY <1>1, <1>5 DEF Cancel, Listening, DialogInv
  <1>6. ASSUME ClickOutside PROVE DialogInv'
    BY <1>1, <1>6 DEF ClickOutside, Listening, DialogInv
  <1>7. CASE UNCHANGED << modal, running, added >>
    BY <1>7 DEF modal, DialogInv, OneVehiclePerConfirm
  <1> QED
    BY <1>2, <1>3, <1>4, <1>5, <1>6, <1>7
       DEF Next, UndoLast, SetActiveZone, DeallocateVehicle, vars

LEMMA Dialogs == Spec => []DialogInv
  <1>1. Init => DialogInv
    BY DEF Init, DialogInv, OneVehiclePerConfirm, NoData
  <1>2. IInv => TypeOK /\ DataOK
    BY DEF IInv
  <1> QED
    BY <1>1, <1>2, Invariance, NextDialogs, PTL DEF Spec

\* A confirmation parks at most one vehicle, in the zone of the dialog shown,
\* unless a dialog was opened over another since the backdrop was last clicked,
\* whatever was cancelled or confirmed before (ui.js:275-301, app.js:197-209).
THEOREM OneVehicleIsParked == Spec => []OneVehiclePerConfirm
  <1>1. DialogInv => OneVehiclePerConfirm
    BY DEF DialogInv
  <1> QED
    BY <1>1, Dialogs, PTL

\* A click outside gets rid of every listener, however many dialogs were opened
\* over each other and cancelled (ui.js:281-300).
THEOREM ClicksOutsideHeal == Spec => []OutsideHeals
  <1>1. DialogInv => OutsideHeals
    BY DEF DialogInv, OutsideHeals
  <1> QED
    BY <1>1, Dialogs, PTL

=============================================================================
