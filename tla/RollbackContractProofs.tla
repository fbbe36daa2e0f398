----------------------- MODULE RollbackContractProofs -----------------------
(***************************************************************************)
(* Proofs about RollbackManager and its contract: what rollback(k) does,   *)
(* for every k and every depth of the stack.                               *)
(***************************************************************************)
EXTENDS RollbackContract, SequenceTheorems, WellFoundedInduction, TLAPS

-----------------------------------------------------------------------------
(* The deepest record *)

\* The deepest of some records is one of them, below all others.
LEMMA DeepestIsLeast ==
    ASSUME NEW hits, hits \subseteq Nat, hits # {}
    PROVE  /\ Deepest(hits) \in hits
           /\ \A m \in hits : Deepest(hits) <= m
  <1>1. IsWellFoundedOn(OpToRel(<, Nat), Nat)
    BY NatLessThanWellFounded
  <1>2. \E n \in hits : \A m \in hits : ~ (<< m, n >> \in OpToRel(<, Nat))
    BY <1>1, WFMin
  <1>3. \A m, n \in Nat : << m, n >> \in OpToRel(<, Nat) <=> m < n
    BY DEF OpToRel
  <1> HIDE DEF OpToRel
  <1>4. PICK n \in hits : \A m \in hits : ~(m < n)
    BY <1>2, <1>3
  <1>5. \A m \in hits : n <= m
    BY <1>4
  <1> QED
    BY <1>5 DEF Deepest

\* If some records lie below some others, the deepest of all is one of those.
LEMMA DeepestIsBelow ==
    ASSUME NEW above, above \subseteq Nat, NEW below, below \subseteq Nat,
           \A n \in below : \A m \in above : n < m
    PROVE  /\ below # {} => Deepest(above \cup below) = Deepest(below)
           /\ below = {} => above \cup below = above
  <1>1. ASSUME below # {} PROVE Deepest(above \cup below) = Deepest(below)
    <2> DEFINE all == above \cup below
               low == Deepest(below)
               lowest == Deepest(all)
    <2>1. low \in below /\ \A m \in below : low <= m
      BY <1>1, DeepestIsLeast
    <2>2. all \subseteq Nat /\ all # {}
      BY <1>1
    <2> HIDE DEF low, lowest
    <2>3. lowest \in all /\ \A m \in all : lowest <= m
      <3> HIDE DEF all
      <3> QED
        BY <2>2, DeepestIsLeast DEF lowest
    <2>4. lowest \in Nat /\ low \in Nat /\ lowest <= low
      BY <2>1, <2>3
    <2>5. lowest \in below
      BY <2>1, <2>3, <2>4
    <2>6. lowest = low
      BY <2>1, <2>4, <2>5
    <2> QED
      BY <2>6 DEF lowest, low
  <1>2. below = {} => above \cup below = above
    OBVIOUS
  <1> QED
    BY <1>1, <1>2

-----------------------------------------------------------------------------
(* Two rollbacks in a row *)

\* A stack of which rest is what is left when its top k records are popped.
IsRest(rest, stack, k) ==
    /\ k \in Nat /\ Len(rest) \in Nat
    /\ DOMAIN stack = 1 .. Len(stack) /\ DOMAIN rest = 1 .. Len(rest)
    /\ Len(stack) = Len(rest) + k
    /\ \A n \in 1 .. Len(rest) : rest[n] = stack[n]

LEMMA PoppedTogether ==
    ASSUME NEW stack, NEW rest, NEW k, IsRest(rest, stack, k), NEW j \in 0 .. Len(rest)
    PROVE  /\ Popped(stack, k) = Len(rest) + 1 .. Len(stack)
           /\ Popped(rest, j) = Len(rest) - j + 1 .. Len(rest)
           /\ Popped(stack, k + j) = Len(rest) - j + 1 .. Len(stack)
  BY DEF Popped, IsRest

\* Rolling back j more operations is to roll back k + j.
LEMMA SlotsRestoredTogether ==
    ASSUME NEW stack, NEW rest, NEW k, IsRest(rest, stack, k), NEW j \in 0 .. Len(rest),
           NEW avail
    PROVE  RestoredSlots(rest, j, RestoredSlots(stack, k, avail)) =
             RestoredSlots(stack, k + j, avail)
  <1> DEFINE above(p) == { n \in Popped(stack, k) : stack[n].slot = p }
             below(p) == { n \in Popped(rest, j) : rest[n].slot = p }
             all(p)   == { n \in Popped(stack, k + j) : stack[n].slot = p }
             first    == RestoredSlots(stack, k, avail)
  <1>1. ASSUME NEW p
        PROVE  /\ all(p) = above(p) \cup below(p)
               /\ above(p) \subseteq Nat /\ below(p) \subseteq 1 .. Len(rest)
               /\ below(p) \subseteq Nat
               /\ \A n \in below(p) : \A m \in above(p) : n < m
    <2>1. /\ Len(rest) \in Nat /\ k \in Nat /\ Len(stack) = Len(rest) + k
          /\ \A n \in Len(rest) - j + 1 .. Len(rest) : rest[n] = stack[n]
      BY DEF IsRest
    <2>2. /\ Len(rest) - j + 1 .. Len(stack) =
                (Len(rest) + 1 .. Len(stack)) \cup (Len(rest) - j + 1 .. Len(rest))
      BY <2>1
    <2>3. /\ Popped(stack, k) = Len(rest) + 1 .. Len(stack)
          /\ Popped(rest, j) = Len(rest) - j + 1 .. Len(rest)
          /\ Popped(stack, k + j) = Popped(stack, k) \cup Popped(rest, j)
      BY <2>2, PoppedTogether
    <2>4. all(p) = above(p) \cup below(p)
      BY <2>1, <2>3
    <2> QED
      BY <2>1, <2>3, <2>4
  <1>2. /\ first = [ p \in DOMAIN avail |->
                       IF above(p) = {} THEN avail[p]
                       ELSE stack[Deepest(above(p))].previousAvailability ]
        /\ RestoredSlots(rest, j, first) =
             [ p \in DOMAIN first |->
                 IF below(p) = {} THEN first[p]
                 ELSE rest[Deepest(below(p))].previousAvailability ]
        /\ RestoredSlots(stack, k + j, avail) =
             [ p \in DOMAIN avail |->
                 IF all(p) = {} THEN avail[p]
                 ELSE stack[Deepest(all(p))].previousAvailability ]
    BY DEF RestoredSlots
  <1> HIDE DEF above, below, all, first
  <1>3. ASSUME NEW p
        PROVE  /\ below(p) = {} => all(p) = above(p)
               /\ below(p) # {} => /\ Deepest(all(p)) = Deepest(below(p)) /\ all(p) # {}
                                   /\ rest[Deepest(below(p))] = stack[Deepest(below(p))]
    <2> DEFINE a == above(p)
               b == below(p)
    <2>1. /\ all(p) = a \cup b /\ a \subseteq Nat /\ b \subseteq Nat
          /\ b \subseteq 1 .. Len(rest) /\ \A n \in b : \A m \in a : n < m
      BY <1>1
    <2> HIDE DEF a, b
    <2>2. /\ b # {} => Deepest(a \cup b) = Deepest(b)
          /\ b = {} => a \cup b = a
      BY <2>1, DeepestIsBelow
    <2>3. b # {} => Deepest(b) \in b
      BY <2>1, DeepestIsLeast
    <2>4. b # {} => a \cup b # {} /\ rest[Deepest(b)] = stack[Deepest(b)]
      BY <2>1, <2>3 DEF IsRest
    <2> QED
      BY <2>1, <2>2, <2>4 DEF a, b
  <1>4. DOMAIN first = DOMAIN avail
    BY <1>2
  <1>5. ASSUME NEW p \in DOMAIN avail
        PROVE  RestoredSlots(rest, j, first)[p] = RestoredSlots(stack, k + j, avail)[p]
    BY <1>2, <1>3, <1>4
  <1> QED
    BY <1>2, <1>4, <1>5 DEF first

LEMMA RequestsRestoredTogether ==
    ASSUME NEW stack, NEW rest, NEW k, IsRest(rest, stack, k), NEW j \in 0 .. Len(rest),
           NEW rs, NEW buffer
    PROVE  RestoredRequests(rest, j, RestoredRequests(stack, k, rs, buffer), buffer) =
             RestoredRequests(stack, k + j, rs, buffer)
  <1> DEFINE above(i) == { n \in Popped(stack, k) :
                             stack[n].request = RequestPointer(i - 1, buffer) }
             below(i) == { n \in Popped(rest, j) :
                             rest[n].request = RequestPointer(i - 1, buffer) }
             all(i)   == { n \in Popped(stack, k + j) :
                             stack[n].request = RequestPointer(i - 1, buffer) }
             first    == RestoredRequests(stack, k, rs, buffer)
  <1>1. ASSUME NEW i
        PROVE  /\ all(i) = above(i) \cup below(i)
               /\ above(i) \subseteq Nat /\ below(i) \subseteq 1 .. Len(rest)
               /\ below(i) \subseteq Nat
               /\ \A n \in below(i) : \A m \in above(i) : n < m
    <2>1. /\ Len(rest) \in Nat /\ k \in Nat /\ Len(stack) = Len(rest) + k
          /\ \A n \in Len(rest) - j + 1 .. Len(rest) : rest[n] = stack[n]
      BY DEF IsRest
    <2>2. /\ Len(rest) - j + 1 .. Len(stack) =
                (Len(rest) + 1 .. Len(stack)) \cup (Len(rest) - j + 1 .. Len(rest))
      BY <2>1
    <2>3. /\ Popped(stack, k) = Len(rest) + 1 .. Len(stack)
          /\ Popped(rest, j) = Len(rest) - j + 1 .. Len(rest)
          /\ Popped(stack, k + j) = Popped(stack, k) \cup Popped(rest, j)
      BY <2>2, PoppedTogether
    <2>4. all(i) = above(i) \cup below(i)
      BY <2>1, <2>3
    <2> QED
      BY <2>1, <2>3, <2>4
  <1>2. /\ first = [ i \in DOMAIN rs |->
                       IF above(i) = {} THEN rs[i]
                       ELSE SetCurrentState(rs[i],
                              stack[Deepest(above(i))].previousRequestState) ]
        /\ RestoredRequests(rest, j, first, buffer) =
             [ i \in DOMAIN first |->
                 IF below(i) = {} THEN first[i]
                 ELSE SetCurrentState(first[i], rest[Deepest(below(i))].previousRequestState) ]
        /\ RestoredRequests(stack, k + j, rs, buffer) =
             [ i \in DOMAIN rs |->
                 IF all(i) = {} THEN rs[i]
                 ELSE SetCurrentState(rs[i], stack[Deepest(all(i))].previousRequestState) ]
    BY DEF RestoredRequests
  <1> HIDE DEF above, below, all, first
  <1>3. ASSUME NEW i
        PROVE  /\ below(i) = {} => all(i) = above(i)
               /\ below(i) # {} => /\ Deepest(all(i)) = Deepest(below(i)) /\ all(i) # {}
                                   /\ rest[Deepest(below(i))] = stack[Deepest(below(i))]
    <2> DEFINE a == above(i)
               b == below(i)
    <2>1. /\ all(i) = a \cup b /\ a \subseteq Nat /\ b \subseteq Nat
          /\ b \subseteq 1 .. Len(rest) /\ \A n \in b : \A m \in a : n < m
      BY <1>1
    <2> HIDE DEF a, b
    <2>2. /\ b # {} => Deepest(a \cup b) = Deepest(b)
          /\ b = {} => a \cup b = a
      BY <2>1, DeepestIsBelow
    <2>3. b # {} => Deepest(b) \in b
      BY <2>1, DeepestIsLeast
    <2>4. b # {} => a \cup b # {} /\ rest[Deepest(b)] = stack[Deepest(b)]
      BY <2>1, <2>3 DEF IsRest
    <2> QED
      BY <2>1, <2>2, <2>4 DEF a, b
  <1>4. \A r, s, t : SetCurrentState(SetCurrentState(r, s), t) = SetCurrentState(r, t)
    BY DEF SetCurrentState
  <1>5. DOMAIN first = DOMAIN rs
    BY <1>2
  <1>6. ASSUME NEW i \in DOMAIN rs
        PROVE  RestoredRequests(rest, j, first, buffer)[i] =
                 RestoredRequests(stack, k + j, rs, buffer)[i]
    <2>1. CASE below(i) = {}
      BY <1>2, <1>3, <1>5, <2>1
    <2>2. CASE below(i) # {}
      BY <1>2, <1>3, <1>4, <1>5, <2>2
    <2> QED
      BY <2>1, <2>2
  <1> QED
    BY <1>2, <1>5, <1>6 DEF first

-----------------------------------------------------------------------------
(* The contract *)

Lots == [Slots -> BOOLEAN]

AllRequests == [1 .. NumRequests -> [currentState : RequestState]]

Records == [ slot : Slots, previousAvailability : BOOLEAN,
             request : [id : Int, buffer : {Buffer}], previousRequestState : RequestState ]

Memories == [slots : Lots, requests : AllRequests]

\* What the memory and the stack are made of.
Types ==
    /\ isAvailable \in Lots /\ requests \in AllRequests
    /\ history \in Seq(Records) /\ past \in Seq(Memories) /\ Len(past) = Len(history)

\* The inductive invariant.
IInv == Types /\ UndoIsExact

\* How many records rollback(k) pops.
Depth(k) == IF k <= 0 THEN 0 ELSE IF k > Len(history) THEN Len(history) ELSE k

\* A rollback deeper than the stack undoes all of it, one of none nothing.
LEMMA RollbackOfDepth ==
    ASSUME Types, NEW k \in Int
    PROVE  LET e == Depth(k)
           IN  /\ e \in 0 .. Len(history)
               /\ Popped(history, k) = Popped(history, e)
               /\ Remaining(history, k) = SubSeq(history, 1, Len(history) - e)
  <1>1. Len(history) \in Nat /\ DOMAIN history = 1 .. Len(history)
    BY DEF Types
  <1> QED
    BY <1>1 DEF Depth, Popped, Remaining

\* What the k-th operation from the top found is what rollback(k) leaves.
LEMMA ExactAtDepth ==
    ASSUME IInv, NEW e \in 0 .. Len(history)
    PROVE  /\ RestoredSlots(history, e, isAvailable) =
                IF e = 0 THEN isAvailable ELSE past[Len(history) - e + 1].slots
           /\ RestoredRequests(history, e, requests, Buffer) =
                IF e = 0 THEN requests ELSE past[Len(history) - e + 1].requests
           /\ RestoredSlots(history, e, isAvailable) \in Lots
           /\ RestoredRequests(history, e, requests, Buffer) \in AllRequests
  <1>1. /\ Len(history) \in Nat /\ DOMAIN history = 1 .. Len(history)
        /\ Len(past) = Len(history) /\ isAvailable \in Lots /\ requests \in AllRequests
    BY DEF IInv, Types
  <1>2. CASE e = 0
    <2>1. Popped(history, 0) = {}
      BY <1>1 DEF Popped
    <2>2. /\ RestoredSlots(history, 0, isAvailable) = isAvailable
          /\ RestoredRequests(history, 0, requests, Buffer) = requests
      BY <1>1, <2>1 DEF RestoredSlots, RestoredRequests, Lots, AllRequests
    <2> QED
      BY <1>1, <1>2, <2>2
  <1>3. CASE e # 0
    <2> DEFINE n == Len(history) - e + 1
    <2>1. e \in 1 .. Len(history) /\ n \in 1 .. Len(past)
      BY <1>1, <1>3
    <2>2. past[n] \in Memories
      BY <2>1 DEF IInv, Types
    <2>3. past[n].slots \in Lots /\ past[n].requests \in AllRequests
      BY <2>2 DEF Memories
    <2> QED
      BY <1>3, <2>1, <2>3 DEF IInv, UndoIsExact
  <1> QED
    BY <1>2, <1>3

LEMMA RollbackKeeps ==
    ASSUME IInv, NEW k \in Int, Rollback(k)
    PROVE  IInv'
  <1> DEFINE e    == Depth(k)
             m    == Len(history) - e
             rest == SubSeq(history, 1, m)
  <1>1. /\ e \in 0 .. Len(history) /\ Popped(history, k) = Popped(history, e)
        /\ Remaining(history, k) = rest
    BY RollbackOfDepth DEF IInv
  <1>2. /\ history' = rest
        /\ isAvailable' = RestoredSlots(history, e, isAvailable)
        /\ requests' = RestoredRequests(history, e, requests, Buffer)
        /\ past' = SubSeq(past, 1, Len(rest))
    BY <1>1 DEF Rollback, RestoredSlots, RestoredRequests
  <1>3. /\ Len(history) \in Nat /\ DOMAIN history = 1 .. Len(history)
        /\ Len(past) = Len(history) /\ history \in Seq(Records) /\ past \in Seq(Memories)
    BY DEF IInv, Types
  <1> HIDE DEF e
  <1>4. m \in 0 .. Len(history) /\ e = Len(history) - m
    BY <1>1, <1>3
  <1> HIDE DEF m
  <1>5. /\ rest \in Seq(Records) /\ Len(rest) = m /\ DOMAIN rest = 1 .. m
        /\ \A n \in 1 .. m : rest[n] = history[n]
    BY <1>3, <1>4
  <1>6. /\ past' \in Seq(Memories) /\ Len(past') = m
        /\ \A n \in 1 .. m : past'[n] = past[n]
    BY <1>2, <1>3, <1>4, <1>5
  <1> HIDE DEF rest
  <1>7. Types'
    BY <1>1, <1>2, <1>5, <1>6, ExactAtDepth DEF Types
  <1>8. IsRest(rest, history, e)
    BY <1>1, <1>3, <1>4, <1>5 DEF IsRest
  <1>9. UndoIsExact'
    <2> SUFFICES ASSUME NEW j \in 1 .. m
                 PROVE  /\ RestoredSlots(rest, j, isAvailable') = past'[m - j + 1].slots
                        /\ RestoredRequests(rest, j, requests', Buffer) =
                             past'[m - j + 1].requests
      BY <1>2, <1>5 DEF UndoIsExact, Buffer
    <2>1. /\ j \in 0 .. Len(rest) /\ e + j \in 1 .. Len(history)
          /\ Len(history) - (e + j) + 1 = m - j + 1 /\ m - j + 1 \in 1 .. m
      BY <1>1, <1>4, <1>5
    <2>2. /\ RestoredSlots(rest, j, isAvailable') = RestoredSlots(history, e + j, isAvailable)
          /\ RestoredRequests(rest, j, requests', Buffer) =
               RestoredRequests(history, e + j, requests, Buffer)
      BY <1>2, <1>8, <2>1, SlotsRestoredTogether, RequestsRestoredTogether
    <2>3. /\ RestoredSlots(history, e + j, isAvailable) = past[Len(history) - (e + j) + 1].slots
          /\ RestoredRequests(history, e + j, requests, Buffer) =
               past[Len(history) - (e + j) + 1].requests
      BY <2>1 DEF IInv, UndoIsExact
    <2>4. past'[m - j + 1] = past[m - j + 1]
      BY <1>6, <2>1
    <2> QED
      BY <2>1, <2>2, <2>3, <2>4
  <1> QED
    BY <1>7, <1>9 DEF IInv

\* rollback(1) takes an operation back.
LEMMA TopIsUndone ==
    ASSUME IInv, NEW slot \in Slots, NEW requestId \in 0 .. NumRequests - 1,
           NEW newState \in RequestState, Operation(slot, requestId, newState)
    PROVE  /\ RestoredSlots(history', 1, isAvailable') = isAvailable
           /\ RestoredRequests(history', 1, requests', Buffer) = requests
           /\ isAvailable' \in Lots /\ requests' \in AllRequests
           /\ \E record \in Records : history' = Append(history, record)
  <1> DEFINE i      == requestId + 1
             old    == requests[i].currentState
             record == AllocationRecord(slot, isAvailable[slot],
                                        RequestPointer(requestId, Buffer), old)
             top    == Len(history) + 1
  <1>1. /\ Len(history) \in Nat /\ DOMAIN history = 1 .. Len(history)
        /\ history \in Seq(Records) /\ isAvailable \in Lots /\ requests \in AllRequests
    BY DEF IInv, Types
  <1>2. i \in 1 .. NumRequests /\ i \in Int
    BY ContractAssumption
  <1>3. /\ requests[i] \in [currentState : RequestState] /\ old \in RequestState
    BY <1>1, <1>2 DEF AllRequests
  <1>4. /\ isAvailable' = [isAvailable EXCEPT ![slot] = FALSE]
        /\ requests' = [requests EXCEPT ![i] = SetCurrentState(requests[i], newState)]
        /\ history' = Append(history, record)
    BY DEF Operation, RecordAllocation
  <1>5. /\ record \in Records /\ record.slot = slot
        /\ record.previousAvailability = isAvailable[slot]
        /\ record.request = RequestPointer(requestId, Buffer)
        /\ record.previousRequestState = old
    BY <1>1, <1>3 DEF AllocationRecord, Records, Lots, RequestPointer
  <1> HIDE DEF record
  <1>6. /\ DOMAIN history' = 1 .. top /\ Len(history') = top /\ history'[top] = record
        /\ top \in Nat
    BY <1>1, <1>4, <1>5
  <1>7. Popped(history', 1) = {top}
    BY <1>6 DEF Popped
  <1>8. Deepest({top}) = top
    BY <1>6, DeepestIsLeast
  <1>9. isAvailable' \in Lots /\ requests' \in AllRequests
    <2>1. SetCurrentState(requests[i], newState) \in [currentState : RequestState]
      BY <1>3 DEF SetCurrentState
    <2> QED
      BY <1>1, <1>2, <1>4, <2>1 DEF Lots, AllRequests
  <1> HIDE DEF top
  <1>10. RestoredSlots(history', 1, isAvailable') = isAvailable
    <2> DEFINE hits(p) == { n \in Popped(history', 1) : history'[n].slot = p }
    <2>1. \A p : hits(p) = IF p = slot THEN {top} ELSE {}
      BY <1>5, <1>6, <1>7
    <2>2. RestoredSlots(history', 1, isAvailable') =
            [ p \in Slots |-> IF hits(p) = {} THEN isAvailable'[p]
                              ELSE history'[Deepest(hits(p))].previousAvailability ]
      BY <1>9 DEF RestoredSlots, Lots
    <2> HIDE DEF hits
    <2>3. ASSUME NEW p \in Slots
          PROVE  RestoredSlots(history', 1, isAvailable')[p] = isAvailable[p]
      <3>1. CASE p = slot
        BY <1>5, <1>6, <1>8, <2>1, <2>2, <3>1
      <3>2. CASE p # slot
        BY <1>1, <1>4, <2>1, <2>2, <3>2 DEF Lots
      <3> QED
        BY <3>1, <3>2
    <2> QED
      BY <1>1, <2>2, <2>3 DEF Lots
  <1>11. RestoredRequests(history', 1, requests', Buffer) = requests
    <2> DEFINE hits(r) == { n \in Popped(history', 1) :
                              history'[n].request = RequestPointer(r - 1, Buffer) }
    <2>1. \A r \in Int : hits(r) = IF r = i THEN {top} ELSE {}
      BY <1>2, <1>5, <1>6, <1>7 DEF RequestPointer
    <2>2. RestoredRequests(history', 1, requests', Buffer) =
            [ r \in 1 .. NumRequests |->
                IF hits(r) = {} THEN requests'[r]
                ELSE SetCurrentState(requests'[r],
                       history'[Deepest(hits(r))].previousRequestState) ]
      BY <1>9 DEF RestoredRequests, AllRequests
    <2> HIDE DEF hits
    <2>3. SetCurrentState(SetCurrentState(requests[i], newState), old) = requests[i]
      BY <1>3 DEF SetCurrentState
    <2>4. ASSUME NEW r \in 1 .. NumRequests
          PROVE  RestoredRequests(history', 1, requests', Buffer)[r] = requests[r]
      <3> DEFINE h == hits(r)
                 kept == RestoredRequests(history', 1, requests', Buffer)[r]
      <3>1. r \in Int /\ h = IF r = i THEN {top} ELSE {}
        BY <2>1
      <3>2. kept = IF h = {} THEN requests'[r]
                   ELSE SetCurrentState(requests'[r], history'[Deepest(h)].previousRequestState)
        BY <2>2
      <3> HIDE DEF h, kept
      <3>3. CASE r = i
        <4>1. requests'[r] = SetCurrentState(requests[i], newState)
          BY <1>1, <1>2, <1>4, <3>3 DEF AllRequests
        <4> QED
          BY <1>5, <1>6, <1>8, <2>3, <3>1, <3>2, <3>3, <4>1 DEF kept
      <3>4. CASE r # i
        BY <1>1, <1>4, <3>1, <3>2, <3>4 DEF AllRequests, kept
      <3> QED
        BY <3>3, <3>4
    <2> QED
      BY <1>1, <2>2, <2>4 DEF AllRequests
  <1> QED
    BY <1>4, <1>5, <1>9, <1>10, <1>11

LEMMA OperationKeeps ==
    ASSUME IInv, NEW slot \in Slots, NEW requestId \in 0 .. NumRequests - 1,
           NEW newState \in RequestState, Operation(slot, requestId, newState)
    PROVE  IInv'
  <1>1. /\ Len(history) \in Nat /\ DOMAIN history = 1 .. Len(history)
        /\ history \in Seq(Records) /\ past \in Seq(Memories) /\ Len(past) = Len(history)
        /\ Memory \in Memories
    BY DEF IInv, Types, Memory, Memories
  <1>2. PICK record \in Records : history' = Append(history, record)
    BY TopIsUndone
  <1>3. past' = Append(past, Memory)
    BY DEF Operation
  <1>4. /\ history' \in Seq(Records) /\ Len(history') = Len(history) + 1
        /\ DOMAIN history' = 1 .. Len(history) + 1
        /\ \A n \in 1 .. Len(history) : history'[n] = history[n]
    BY <1>1, <1>2
  <1>5. /\ past' \in Seq(Memories) /\ Len(past') = Len(history) + 1
        /\ \A n \in 1 .. Len(history) : past'[n] = past[n]
        /\ past'[Len(history) + 1] = Memory
    BY <1>1, <1>3
  <1>6. Types'
    BY <1>4, <1>5, TopIsUndone DEF Types
  <1>7. IsRest(history, history', 1)
    BY <1>1, <1>4 DEF IsRest
  <1>8. UndoIsExact'
    <2> SUFFICES ASSUME NEW k \in 1 .. Len(history) + 1
                 PROVE  /\ RestoredSlots(history', k, isAvailable') =
                             past'[Len(history) + 1 - k + 1].slots
                        /\ RestoredRequests(history', k, requests', Buffer) =
                             past'[Len(history) + 1 - k + 1].requests
      BY <1>4 DEF UndoIsExact, Buffer
    <2> DEFINE e == k - 1
    <2>1. e \in 0 .. Len(history) /\ k = 1 + e
      BY <1>1
    <2> HIDE DEF e
    <2>2. /\ RestoredSlots(history', 1 + e, isAvailable') = RestoredSlots(history, e, isAvailable)
          /\ RestoredRequests(history', 1 + e, requests', Buffer) =
               RestoredRequests(history, e, requests, Buffer)
      BY <1>7, <2>1, TopIsUndone, SlotsRestoredTogether, RequestsRestoredTogether
    <2>3. CASE e = 0
      <3>1. past'[Len(history) + 1 - k + 1] = Memory
        BY <1>1, <1>5, <2>1, <2>3
      <3> QED
        BY <2>1, <2>2, <2>3, <3>1, ExactAtDepth DEF Memory
    <2>4. CASE e # 0
      <3>1. /\ Len(history) + 1 - k + 1 = Len(history) - e + 1
            /\ Len(history) - e + 1 \in 1 .. Len(history)
        BY <1>1, <2>1, <2>4
      <3>2. past'[Len(history) + 1 - k + 1] = past[Len(history) - e + 1]
        BY <1>5, <3>1
      <3> QED
        BY <2>1, <2>2, <2>4, <3>2, ExactAtDepth
    <2> QED
      BY <2>3, <2>4
  <1> QED
    BY <1>6, <1>8 DEF IInv

LEMMA NextInv == IInv /\ [Next]_vars => IInv'
  <1> SUFFICES ASSUME IInv, [Next]_vars PROVE IInv'
    OBVIOUS
  <1>1. CASE UNCHANGED vars
    BY <1>1 DEF vars, IInv, Types, UndoIsExact
  <1>2. ASSUME NEW k \in -1 .. MaxHistory + 1, Rollback(k) PROVE IInv'
    BY <1>2, RollbackKeeps, ContractAssumption
  <1> QED
    BY <1>1, <1>2, OperationKeeps DEF Next

LEMMA InitInv == Init => IInv
  <1> SUFFICES ASSUME Init PROVE IInv
    OBVIOUS
  <1>1. Types
    BY DEF Init, Types, Lots, AllRequests, RequestState
  <1> QED
    BY <1>1 DEF Init, IInv, UndoIsExact

\* rollback(k) takes back the last k operations, whatever they were, for every
\* k up to the depth of the stack, any slots and any requests
\* (RollBackManager.h:30, RollBackManager.cpp:9-25).
THEOREM RollbackUndoes == Spec => []UndoIsExact
  <1>1. IInv => UndoIsExact
    BY DEF IInv
  <1> QED
    BY <1>1, InitInv, NextInv, PTL DEF Spec

=============================================================================
