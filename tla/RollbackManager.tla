-------------------------- MODULE RollbackManager ---------------------------
(***************************************************************************)
(* The undo stack of allocations (RollBackManager.h, RollBackManager.cpp). *)
(*                                                                         *)
(* A record holds two raw pointers and the two values to restore.  A slot  *)
(* never moves once its zone is in the system, so a slot pointer is the    *)
(* slot's place.  A request does move when the vector of requests grows: a *)
(* request pointer is the request's id and the buffer the vector had when  *)
(* the pointer was taken, a buffer being named by its capacity.  Writing   *)
(* through a pointer into an outgrown buffer does not reach the request.   *)
(***************************************************************************)
EXTENDS Integers, Sequences, ParkingRequest

\* The pointer one past the last request, requests.end().
PastTheEnd(requestId, buffer) == [id |-> requestId + 1, buffer |-> buffer]

\* &requests.back(), taken when the vector's buffer is buffer.
RequestPointer(requestId, buffer) == [id |-> requestId, buffer |-> buffer]

AllocationRecord(slot, previousAvailability, request, previousRequestState) ==
    [ slot                 |-> slot,
      previousAvailability |-> previousAvailability,
      request              |-> request,
      previousRequestState |-> previousRequestState ]

\* The record put under the others instead of on top of them.
RecordAtBottom(history, record) == << record >> \o history

\* recordAllocation: history.push(record).
RecordAllocation(history, record) == Append(history, record)

\* The records rollback(k) pops: the top k, or all of them.
Popped(history, k) == { n \in DOMAIN history : n > Len(history) - k }

\* A rollback that takes the oldest records instead of the newest.
KeepNewest(history, k) == SubSeq(history, k + 1, Len(history))

\* A rollback that reads the top without popping it.
PeekOnly(history, k) == history

\* The stack rollback(k) leaves.  The loop does not run for k <= 0.
Remaining(history, k) ==
    SubSeq(history, 1, IF k <= 0 THEN Len(history)
                       ELSE IF k > Len(history) THEN 0 ELSE Len(history) - k)

\* The record restored first instead of last.
Shallowest(hits) == CHOOSE n \in hits : \A m \in hits : m <= n

\* Of several records popped for one object the deepest is restored last.
Deepest(hits) == CHOOSE n \in hits : \A m \in hits : n <= m

\* The availability rollback(k) leaves.
RestoredSlots(history, k, isAvailable) ==
    [ p \in DOMAIN isAvailable |->
        LET hits == { n \in Popped(history, k) : history[n].slot = p }
        IN  IF hits = {} THEN isAvailable[p]
            ELSE history[Deepest(hits)].previousAvailability ]

\* A rollback that frees the slot and forgets the request.
KeepRequests(history, k, requests, buffer) == requests

\* The requests rollback(k) leaves, the vector's buffer being buffer: a request
\* is restored by the records that still point at it.
RestoredRequests(history, k, requests, buffer) ==
    [ i \in DOMAIN requests |->
        LET hits == { n \in Popped(history, k) :
                        history[n].request = RequestPointer(i - 1, buffer) }
        IN  IF hits = {} THEN requests[i]
            ELSE SetCurrentState(requests[i], history[Deepest(hits)].previousRequestState) ]

\* rollback(k) writes through a pointer into a buffer that is gone.
WritesFreedMemory(history, k, buffer) ==
    \E n \in Popped(history, k) : history[n].request.buffer # buffer

=============================================================================
