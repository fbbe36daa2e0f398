-------------------------- MODULE CrowWorkerProofs --------------------------
(***************************************************************************)
(* Proofs about CrowWorker: its types, how requests are answered, and      *)
(* which connections lose their deadline, for every number of              *)
(* connections and requests.                                               *)
(***************************************************************************)
EXTENDS CrowWorker, TLAPS

Fields == DOMAIN NewConnection

\* Each connection is a record with these fields.
FieldsOK == DOMAIN conn = Connections /\ \A c \in Connections : DOMAIN conn[c] = Fields

\* A connection that has not started remembers no id.
NewHasNoId == \A c \in Connections : conn[c].at \in {"new", "accepted"} => conn[c].taskId = 0

\* The inductive invariant.
IInv == TypeOK /\ FieldsOK /\ NewHasNoId /\ DeadlineUnlessRobbed

LEMMA FieldsAre ==
    Fields = { "at", "open", "taskId", "part", "res", "begun", "bad", "answers", "answer" }
  BY DEF Fields, NewConnection

-----------------------------------------------------------------------------
(* What the handling of a request leaves alone *)

\* Connection y is x, but for what was read and answered.
Served(x, y) ==
    /\ DOMAIN y = Fields
    /\ y.open = x.open /\ y.begun = x.begun /\ y.taskId = x.taskId

LEMMA WriteServes ==
    ASSUME NEW x, DOMAIN x = Fields, NEW request, NEW res
    PROVE  Served(x, Write(x, request, res))
  BY FieldsAre DEF Served, Write

LEMMA HandleUrlServes ==
    ASSUME NEW x, DOMAIN x = Fields, NEW request, NEW url
    PROVE  Served(x, HandleUrl(x, request, url))
  <1> DEFINE initial == HandleInitial(x.res, request.method, url)
  <1>1. CASE initial.found = "none"
    BY <1>1, WriteServes DEF HandleUrl
  <1>2. CASE initial.found # "none"
    <2> HIDE DEF initial
    <2>1. Served(x, [x EXCEPT !.res = initial.res])
      BY FieldsAre DEF Served
    <2> QED
      BY <1>2, <2>1 DEF HandleUrl, initial
  <1> QED
    BY <1>1, <1>2

LEMMA HandleHeaderServes ==
    ASSUME NEW x, DOMAIN x = Fields, NEW request
    PROVE  Served(x, HandleHeader(x, request))
  <1>1. Served(x, [x EXCEPT !.res = Clear(@)]) /\ Served(x, x)
    BY FieldsAre DEF Served
  <1> QED
    BY <1>1 DEF HandleHeader

LEMMA HandleServes ==
    ASSUME NEW x, DOMAIN x = Fields, NEW request, NEW found
    PROVE  Served(x, Handle(x, request, found))
  <1> DEFINE before == BeforeHandle(x.res, request.method)
             after  == AfterHandle(RouterHandle(before, found), request.method)
             sent   == Write(x, request, after)
  <1>1. Served(x, sent)
    BY WriteServes
  <1>2. Served(x, Write(x, request, Assign(x.res, 400, FALSE)))
    BY WriteServes
  <1>3. Served(x, Write(x, request, before))
    BY WriteServes
  <1>4. Served(x, [sent EXCEPT !.res = Sent(@)])
    <2> HIDE DEF sent
    <2> QED
      BY <1>1, FieldsAre DEF Served
  <1> HIDE DEF before, after
  <1>5. Handle(x, request, found) =
          IF ~request.host THEN Write(x, request, Assign(x.res, 400, FALSE))
          ELSE IF before.completed THEN Write(x, request, before)
          ELSE [sent EXCEPT !.res = Sent(@)]
    BY Zenon DEF Handle, before, after
  <1> HIDE DEF sent
  <1> QED
    BY <1>2, <1>3, <1>4, <1>5

LEMMA CompleteServes ==
    ASSUME NEW x, DOMAIN x = Fields, NEW request
    PROVE  /\ Served(x, Complete(x, request))
           /\ Parses(Found(x, request, request.url)) => Complete(x, request).part = << >>
  <1> DEFINE found  == Found(x, request, request.url)
             url    == HandleUrl(x, request, request.url)
             header == HandleHeader(url, request)
             bad    == request.method = "HEAD" /\ ~request.host
             done   == Handle(header, request, found)
  <1>1. Served(x, url)
    BY HandleUrlServes
  <1>2. Served(url, header)
    BY <1>1, HandleHeaderServes DEF Served
  <1>3. Served(header, done)
    BY <1>2, HandleServes DEF Served
  <1>4. Complete(x, request) =
          IF Parses(found) THEN [done EXCEPT !.part = << >>, !.bad = @ \/ bad] ELSE url
    BY DEF Complete
  <1> HIDE DEF found, url, header, bad, done
  <1>5. /\ Served(x, [done EXCEPT !.part = << >>, !.bad = @ \/ bad])
        /\ [done EXCEPT !.part = << >>, !.bad = @ \/ bad].part = << >>
    BY <1>1, <1>2, <1>3, FieldsAre DEF Served
  <1> QED
    BY <1>1, <1>4, <1>5 DEF found

-----------------------------------------------------------------------------
(* Deadlines *)

\* The type of one connection.
ConnOK(c, x) ==
    /\ x.at \in {"new", "accepted", "reading", "done"}
    /\ x.open => x.at \in {"accepted", "reading"}
    /\ x.begun \in 0 .. MaxRequests[c]
    /\ x.taskId \in Nat

TasksOK == \A i \in DOMAIN tasks : i \in 1 .. highestId /\ tasks[i] \in Connections

LEMMA TypeOKSplits ==
    TypeOK <=> /\ \A c \in Connections : ConnOK(c, conn[c])
               /\ highestId \in Nat
               /\ TasksOK
               /\ robbed \subseteq Connections
  BY DEF TypeOK, ConnOK, TasksOK

\* Connection c has its deadline.
HasDeadline(c) == conn[c].taskId \in DOMAIN tasks /\ tasks[conn[c].taskId] = c

LEMMA DeadlineIsIts ==
    DeadlineUnlessRobbed <=> \A c \in Connections : Reads(c) => c \in robbed \/ HasDeadline(c)
  BY Zenon DEF DeadlineUnlessRobbed, HasDeadline

\* Whose deadline goes when c cancels the one it remembers: its own, or that
\* of a connection which is then robbed.
LEMMA CancelRobs ==
    ASSUME IInv, NEW c \in Connections
    PROVE  /\ DOMAIN Cancelled(c) = DOMAIN tasks \ {conn[c].taskId}
           /\ \A i \in DOMAIN tasks \ {conn[c].taskId} : Cancelled(c)[i] = tasks[i]
           /\ Robbed(c) \subseteq Connections /\ robbed \subseteq Robbed(c)
           /\ \A d \in Connections \ {c} :
                 conn[c].taskId \in DOMAIN tasks /\ tasks[conn[c].taskId] = d => d \in Robbed(c)
           /\ \A d \in Robbed(c) \ robbed :
                 d # c /\ conn[c].taskId \in DOMAIN tasks /\ tasks[conn[c].taskId] = d
  BY DEF IInv, TypeOK, Cancelled, Robbed

\* Only a connection that was robbed itself, or that its deadline has closed,
\* remembers the id of another's deadline.
LEMMA RobbersAreTimedOut ==
    ASSUME IInv, NEW c \in Connections, conn[c].at \in {"accepted", "reading"},
           Robbed(c) \ robbed # {}
    PROVE  c \in robbed \/ (conn[c].at = "reading" /\ ~conn[c].open)
  <1>1. PICK d \in Robbed(c) \ robbed : TRUE
    OBVIOUS
  <1>2. d # c /\ conn[c].taskId \in DOMAIN tasks /\ tasks[conn[c].taskId] = d
    BY CancelRobs
  <1>3. conn[c].taskId # 0
    BY <1>2 DEF IInv, TypeOK
  <1>4. conn[c].at = "reading"
    BY <1>3 DEF IInv, NewHasNoId
  <1>5. ~Reads(c) \/ c \in robbed
    BY <1>2 DEF IInv, DeadlineUnlessRobbed
  <1> QED
    BY <1>4, <1>5 DEF Reads

LEMMA CloseKeepsInv ==
    ASSUME IInv, NEW c \in Connections, NEW x, DOMAIN x = Fields,
           x.begun \in 0 .. MaxRequests[c], x.taskId \in Nat, CloseConnection(c, x)
    PROVE  IInv'
  <1> DEFINE y == [x EXCEPT !.at = "done", !.open = FALSE]
  <1>1. /\ conn' = [conn EXCEPT ![c] = y] /\ highestId' = highestId
        /\ tasks' = Cancelled(c) /\ robbed' = Robbed(c)
    BY DEF CloseConnection
  <1>2. DOMAIN y = Fields /\ y.at = "done" /\ ConnOK(c, y)
    BY FieldsAre DEF ConnOK
  <1> HIDE DEF y
  <1>3. /\ DOMAIN conn' = Connections /\ conn'[c] = y
        /\ \A d \in Connections \ {c} : conn'[d] = conn[d]
    BY <1>1 DEF IInv, FieldsOK
  <1>4. FieldsOK'
    BY <1>2, <1>3 DEF IInv, FieldsOK
  <1>5. /\ DOMAIN tasks' \subseteq DOMAIN tasks
        /\ \A i \in DOMAIN tasks' : tasks'[i] = tasks[i]
        /\ \A i \in DOMAIN tasks : i # conn[c].taskId => i \in DOMAIN tasks'
        /\ robbed' \subseteq Connections /\ robbed \subseteq robbed'
        /\ \A d \in Connections \ {c} :
              conn[c].taskId \in DOMAIN tasks /\ tasks[conn[c].taskId] = d => d \in robbed'
    <2>1. /\ DOMAIN Cancelled(c) = DOMAIN tasks \ {conn[c].taskId}
          /\ \A i \in DOMAIN tasks \ {conn[c].taskId} : Cancelled(c)[i] = tasks[i]
      BY CancelRobs
    <2>2. /\ robbed' \subseteq Connections /\ robbed \subseteq robbed'
          /\ \A d \in Connections \ {c} :
                conn[c].taskId \in DOMAIN tasks /\ tasks[conn[c].taskId] = d => d \in robbed'
      BY <1>1, CancelRobs
    <2>3. DOMAIN tasks' = DOMAIN Cancelled(c) /\ \A i \in DOMAIN tasks' : tasks'[i] = Cancelled(c)[i]
      BY <1>1, Zenon
    <2> QED
      BY <2>1, <2>2, <2>3
  <1>6. TypeOK'
    <2>1. \A d \in Connections : ConnOK(d, conn'[d])
      BY <1>2, <1>3, TypeOKSplits DEF IInv
    <2>2. highestId' \in Nat /\ TasksOK'
      BY <1>1, <1>5, TypeOKSplits DEF IInv, TasksOK
    <2> QED
      BY <1>5, <2>1, <2>2 DEF TypeOK, ConnOK, TasksOK
  <1>7. NewHasNoId'
    BY <1>2, <1>3 DEF IInv, NewHasNoId
  <1>8. DeadlineUnlessRobbed'
    <2> SUFFICES ASSUME NEW d \in Connections, Reads(d)', d \notin robbed'
                 PROVE  HasDeadline(d)'
      BY Zenon DEF DeadlineUnlessRobbed, HasDeadline
    <2>1. d # c /\ Reads(d) /\ conn'[d] = conn[d]
      BY <1>2, <1>3 DEF Reads
    <2>2. HasDeadline(d)
      BY <1>5, <2>1, DeadlineIsIts DEF IInv
    <2>3. conn[d].taskId # conn[c].taskId
      BY <1>5, <2>1, <2>2 DEF HasDeadline
    <2> QED
      BY <1>5, <2>1, <2>2, <2>3 DEF HasDeadline
  <1> QED
    BY <1>4, <1>6, <1>7, <1>8 DEF IInv

LEMMA ReadOnKeepsInv ==
    ASSUME IInv, NEW c \in Connections, NEW x, DOMAIN x = Fields,
           x.begun \in 0 .. MaxRequests[c], ReadOn(c, x)
    PROVE  IInv'
  <1> DEFINE new == highestId + 1
             y   == [x EXCEPT !.at = "reading", !.taskId = new]
  <1>1. /\ conn' = [conn EXCEPT ![c] = y] /\ highestId' = new
        /\ tasks' = StartDeadline(c) /\ robbed' = Robbed(c) \ {c}
    BY DEF ReadOn
  <1>2. /\ new \in Nat /\ new # 0 /\ new \notin DOMAIN tasks /\ 1 .. highestId \subseteq 1 .. new
        /\ new \in 1 .. new
    BY DEF IInv, TypeOK
  <1>3. DOMAIN y = Fields /\ y.at = "reading" /\ y.taskId = new /\ ConnOK(c, y)
    BY <1>2, FieldsAre DEF ConnOK
  <1> HIDE DEF y
  <1>4. /\ DOMAIN conn' = Connections /\ conn'[c] = y
        /\ \A d \in Connections \ {c} : conn'[d] = conn[d]
    BY <1>1 DEF IInv, FieldsOK
  <1>5. FieldsOK'
    BY <1>3, <1>4 DEF IInv, FieldsOK
  <1>6. /\ DOMAIN tasks' = DOMAIN Cancelled(c) \cup {new}
        /\ tasks'[new] = c
        /\ \A i \in DOMAIN Cancelled(c) : i # new => tasks'[i] = tasks[i]
    BY <1>1 DEF StartDeadline
  <1> HIDE DEF new
  <1>7. /\ DOMAIN tasks' \subseteq DOMAIN tasks \cup {new} /\ new \in DOMAIN tasks'
        /\ \A i \in DOMAIN tasks' : i # new => tasks'[i] = tasks[i]
        /\ \A i \in DOMAIN tasks : i # conn[c].taskId => i \in DOMAIN tasks'
        /\ robbed' \subseteq Connections /\ robbed \ {c} \subseteq robbed'
        /\ \A d \in Connections \ {c} :
              conn[c].taskId \in DOMAIN tasks /\ tasks[conn[c].taskId] = d => d \in robbed'
    BY <1>1, <1>6, CancelRobs
  <1>8. TypeOK'
    <2>1. \A d \in Connections : ConnOK(d, conn'[d])
      BY <1>3, <1>4, TypeOKSplits DEF IInv
    <2>2. highestId' \in Nat /\ TasksOK'
      BY <1>1, <1>2, <1>6, <1>7, TypeOKSplits DEF IInv, TasksOK
    <2> QED
      BY <1>7, <2>1, <2>2 DEF TypeOK, ConnOK, TasksOK
  <1>9. NewHasNoId'
    BY <1>3, <1>4 DEF IInv, NewHasNoId
  <1>10. DeadlineUnlessRobbed'
    <2> SUFFICES ASSUME NEW d \in Connections, Reads(d)', d \notin robbed'
                 PROVE  HasDeadline(d)'
      BY Zenon DEF DeadlineUnlessRobbed, HasDeadline
    <2>1. CASE d = c
      BY <1>3, <1>4, <1>6, <2>1 DEF HasDeadline
    <2>2. CASE d # c
      <3>1. Reads(d) /\ conn'[d] = conn[d]
        BY <1>4, <2>2 DEF Reads
      <3>2. HasDeadline(d)
        BY <1>7, <2>2, <3>1, DeadlineIsIts DEF IInv
      <3>3. conn[d].taskId # conn[c].taskId /\ conn[d].taskId # new
        BY <1>2, <1>7, <2>2, <3>2 DEF HasDeadline
      <3> QED
        BY <1>7, <3>1, <3>2, <3>3 DEF HasDeadline
    <2> QED
      BY <2>1, <2>2
  <1> QED
    BY <1>5, <1>8, <1>9, <1>10 DEF IInv

-----------------------------------------------------------------------------
(* The callbacks *)

LEMMA TickKeepsInv ==
    ASSUME IInv, NEW id \in {0} \cup DOMAIN tasks, Tick(id)
    PROVE  IInv'
  <1> DEFINE fired == { i \in DOMAIN tasks : i <= id }
             rest  == [ i \in DOMAIN tasks \ fired |-> tasks[i] ]
             hit(c) == \E i \in fired : tasks[i] = c
  <1>1. /\ conn' = [ c \in Connections |-> IF hit(c) THEN CloseSocket(conn[c]) ELSE conn[c] ]
        /\ tasks' = rest /\ highestId' = NextId(rest) /\ robbed' = robbed
    BY DEF Tick
  <1>2. /\ DOMAIN tasks' = DOMAIN tasks \ fired
        /\ \A i \in DOMAIN tasks' : tasks'[i] = tasks[i]
    BY <1>1
  <1>3. \A c \in Connections : conn'[c] = IF hit(c) THEN CloseSocket(conn[c]) ELSE conn[c]
    BY <1>1, Zenon
  <1>4. \A c \in Connections : \A i \in DOMAIN tasks : tasks[i] = c /\ ~hit(c) => i \in DOMAIN tasks'
    BY <1>2
  <1>5. highestId' \in Nat /\ TasksOK'
    <2>1. CASE DOMAIN rest = {}
      BY <1>1, <2>1 DEF NextId, TasksOK
    <2>2. CASE DOMAIN rest # {}
      BY <1>1, <1>2, <2>2, TypeOKSplits DEF NextId, TasksOK, IInv
    <2> QED
      BY <2>1, <2>2
  <1>6. DOMAIN conn' = Connections
    BY <1>1
  <1> HIDE DEF hit
  <1>7. \A c \in Connections :
          /\ DOMAIN conn'[c] = Fields /\ ConnOK(c, conn'[c])
          /\ conn'[c].at = conn[c].at /\ conn'[c].taskId = conn[c].taskId
          /\ conn'[c].open => conn[c].open
          /\ ~hit(c) => conn'[c] = conn[c]
          /\ hit(c) => ~conn'[c].open
    <2> TAKE c \in Connections
    <2>1. DOMAIN conn[c] = Fields /\ ConnOK(c, conn[c])
      BY TypeOKSplits DEF IInv, FieldsOK
    <2> DEFINE x == CloseSocket(conn[c])
    <2>2. /\ DOMAIN x = Fields /\ ConnOK(c, x) /\ ~x.open
          /\ x.at = conn[c].at /\ x.taskId = conn[c].taskId
      BY <2>1, FieldsAre DEF CloseSocket, ConnOK
    <2>3. conn'[c] = IF hit(c) THEN x ELSE conn[c]
      BY <1>3
    <2> HIDE DEF x
    <2> QED
      BY <2>1, <2>2, <2>3
  <1>8. TypeOK'
    <2>1. robbed' \subseteq Connections
      BY <1>1 DEF IInv, TypeOK
    <2> QED
      BY <1>5, <1>7, <2>1 DEF TypeOK, ConnOK, TasksOK
  <1>9. FieldsOK' /\ NewHasNoId'
    BY <1>6, <1>7 DEF IInv, FieldsOK, NewHasNoId
  <1>10. DeadlineUnlessRobbed'
    <2> SUFFICES ASSUME NEW c \in Connections, Reads(c)', c \notin robbed'
                 PROVE  HasDeadline(c)'
      BY Zenon DEF DeadlineUnlessRobbed, HasDeadline
    <2>1. Reads(c) /\ ~hit(c) /\ conn'[c] = conn[c]
      BY <1>7 DEF Reads
    <2>2. HasDeadline(c)
      BY <1>1, <2>1, DeadlineIsIts DEF IInv
    <2> QED
      BY <1>2, <1>4, <2>1, <2>2 DEF HasDeadline
  <1> QED
    BY <1>8, <1>9, <1>10 DEF IInv

\* Connection x is conn[c], having begun to read one more request, or not.
Begun(c, x) ==
    /\ DOMAIN x = Fields
    /\ x.begun \in 0 .. MaxRequests[c] /\ x.taskId \in Nat

LEMMA ServedIsBegun ==
    ASSUME NEW c \in Connections, NEW x, Begun(c, x), NEW y, Served(x, y)
    PROVE  Begun(c, y)
  BY DEF Begun, Served

LEMMA ReadUntilEndKeepsInv ==
    ASSUME IInv, NEW c \in Connections, NEW x, Begun(c, x), NEW request,
           ReadUntilEnd(c, x, request)
    PROVE  IInv'
  <1> DEFINE y == Complete(x, request)
  <1>1. Begun(c, y)
    BY CompleteServes, ServedIsBegun DEF Begun
  <1>2. ReadOn(c, y) \/ CloseConnection(c, y)
    BY DEF ReadUntilEnd
  <1> HIDE DEF y
  <1> QED
    BY <1>1, <1>2, ReadOnKeepsInv, CloseKeepsInv DEF Begun

LEMMA BeginsRequest ==
    ASSUME IInv, NEW c \in Connections, conn[c].begun < MaxRequests[c], NEW request
    PROVE  /\ Begun(c, [conn[c] EXCEPT !.begun = @ + 1])
           /\ Begun(c, [conn[c] EXCEPT !.begun = @ + 1, !.part = << request >>])
  <1> DEFINE n == conn[c].begun + 1
  <1>1. MaxRequests[c] \in Nat
    BY ClientAssumption
  <1>2. n \in 0 .. MaxRequests[c] /\ conn[c].taskId \in Nat /\ DOMAIN conn[c] = Fields
    BY <1>1 DEF IInv, TypeOK, FieldsOK
  <1> HIDE DEF n
  <1>3. /\ Begun(c, [conn[c] EXCEPT !.begun = n])
        /\ Begun(c, [conn[c] EXCEPT !.begun = n, !.part = << request >>])
    BY <1>2, FieldsAre DEF Begun
  <1> QED
    BY <1>3 DEF n

LEMMA NextInv == IInv /\ [Next]_vars => IInv'
  <1> SUFFICES ASSUME IInv, [Next]_vars PROVE IInv'
    OBVIOUS
  <1>1. \A c \in Connections : Begun(c, conn[c])
    BY DEF IInv, TypeOK, FieldsOK, Begun
  <1>2. ASSUME NEW c \in Connections, Accept(c) PROVE IInv'
    <2> DEFINE y == [conn[c] EXCEPT !.at = "accepted", !.open = TRUE]
    <2>1. /\ conn' = [conn EXCEPT ![c] = y]
          /\ tasks' = tasks /\ highestId' = highestId /\ robbed' = robbed
      BY <1>2 DEF Accept
    <2>2. DOMAIN conn[c] = Fields /\ ConnOK(c, conn[c]) /\ conn[c].at = "new" /\ conn[c].taskId = 0
      BY <1>2, TypeOKSplits DEF IInv, FieldsOK, NewHasNoId, Accept
    <2>3. DOMAIN y = Fields /\ y.at = "accepted" /\ y.taskId = 0 /\ ConnOK(c, y)
      BY <2>2, FieldsAre DEF ConnOK
    <2> HIDE DEF y
    <2>4. /\ DOMAIN conn' = Connections /\ conn'[c] = y
          /\ \A d \in Connections \ {c} : conn'[d] = conn[d]
      BY <2>1 DEF IInv, FieldsOK
    <2>5. \A d \in Connections : ConnOK(d, conn'[d])
      BY <2>3, <2>4, TypeOKSplits DEF IInv
    <2>6. TypeOK'
      BY <2>1, <2>5, TypeOKSplits DEF IInv, TypeOK, ConnOK, TasksOK
    <2>7. FieldsOK' /\ NewHasNoId'
      BY <2>3, <2>4 DEF IInv, FieldsOK, NewHasNoId
    <2>8. DeadlineUnlessRobbed'
      <3> SUFFICES ASSUME NEW d \in Connections, Reads(d)', d \notin robbed'
                   PROVE  HasDeadline(d)'
        BY Zenon DEF DeadlineUnlessRobbed, HasDeadline
      <3>1. Reads(d) /\ conn'[d] = conn[d]
        BY <2>3, <2>4 DEF Reads
      <3> QED
        BY <2>1, <3>1, DeadlineIsIts DEF IInv, HasDeadline
    <2> QED
      BY <2>6, <2>7, <2>8 DEF IInv
  <1>3. ASSUME NEW c \in Connections, Start(c) PROVE IInv'
    BY <1>1, <1>3, ReadOnKeepsInv DEF Start, Begun
  <1>4. ASSUME NEW c \in Connections, NEW request, ReadRequest(c, request) PROVE IInv'
    BY <1>4, BeginsRequest, ReadUntilEndKeepsInv DEF ReadRequest
  <1>5. ASSUME NEW c \in Connections, NEW request, NEW prefix, ReadBeginning(c, request, prefix)
        PROVE  IInv'
    <2> DEFINE x == [conn[c] EXCEPT !.begun = @ + 1, !.part = << request >>]
               y == HandleUrl(x, request, prefix)
    <2>1. Begun(c, x)
      BY <1>5, BeginsRequest DEF ReadBeginning
    <2>2. ReadOn(c, y) \/ CloseConnection(c, y)
      BY <1>5 DEF ReadBeginning
    <2> HIDE DEF x
    <2>3. Begun(c, y)
      BY <2>1, HandleUrlServes, ServedIsBegun DEF Begun
    <2> HIDE DEF y
    <2> QED
      BY <2>2, <2>3, ReadOnKeepsInv, CloseKeepsInv DEF Begun
  <1>6. ASSUME NEW c \in Connections, ReadRest(c) PROVE IInv'
    BY <1>1, <1>6, ReadUntilEndKeepsInv DEF ReadRest
  <1>7. ASSUME NEW c \in Connections, ReadFails(c) \/ ReadAborted(c) PROVE IInv'
    BY <1>1, <1>7, CloseKeepsInv DEF ReadFails, ReadAborted, Begun
  <1>8. ASSUME UNCHANGED vars PROVE IInv'
    BY <1>8 DEF vars, IInv, TypeOK, FieldsOK, NewHasNoId, DeadlineUnlessRobbed, Reads
  <1> QED
    BY <1>2, <1>3, <1>4, <1>5, <1>6, <1>7, <1>8, TickKeepsInv DEF Next

LEMMA InitInv == Init => IInv
  <1> SUFFICES ASSUME Init PROVE IInv
    OBVIOUS
  <1>1. \A c \in Connections : MaxRequests[c] \in Nat
    BY ClientAssumption
  <1>2. \A c \in Connections :
          /\ conn[c] = NewConnection
          /\ conn[c].at = "new" /\ conn[c].open = FALSE /\ conn[c].begun = 0 /\ conn[c].taskId = 0
    BY DEF Init, NewConnection
  <1>3. TypeOK
    BY <1>1, <1>2 DEF Init, TypeOK
  <1>4. FieldsOK /\ NewHasNoId
    BY <1>2 DEF Init, FieldsOK, NewHasNoId, Fields
  <1>5. DeadlineUnlessRobbed
    BY <1>2 DEF DeadlineUnlessRobbed, Reads
  <1> QED
    BY <1>3, <1>4, <1>5 DEF IInv

LEMMA SpecInv == Spec => []IInv
  BY InitInv, NextInv, PTL DEF Spec

\* A connection object is always in one of its four phases, has an open socket
\* only while it is at work, and no deadline has an id that was not given out
\* (http_connection.h, task_timer.h).
THEOREM WorkerTypes == Spec => []TypeOK
  <1>1. IInv => TypeOK
    BY DEF IInv
  <1> QED
    BY <1>1, SpecInv, PTL

\* A connection that waits for its client has a deadline, its own, unless
\* another connection cancelled it: for any number of connections, requests
\* and routes (http_connection.h:485-505, task_timer.h:62-98).
THEOREM DeadlinesAreKept == Spec => []DeadlineUnlessRobbed
  <1>1. IInv => DeadlineUnlessRobbed
    BY DEF IInv
  <1> QED
    BY <1>1, SpecInv, PTL

-----------------------------------------------------------------------------
(* Who loses its deadline *)

\* What a step that takes c's deadline says of another connection.
Robs(c) ==
    \E d \in Connections \ {c} :
        /\ conn'[d] # conn[d]
        /\ d \in robbed \/ (conn[d].at = "reading" /\ ~conn[d].open)

LEMMA ChangeRobs ==
    ASSUME IInv, NEW c \in Connections, conn[c].at \in {"accepted", "reading"},
           robbed' \subseteq Robbed(c), conn'[c] # conn[c]
    PROVE  \A d \in robbed' \ robbed : Robs(d)
  <1> SUFFICES ASSUME NEW d \in robbed' \ robbed PROVE Robs(d)
    OBVIOUS
  <1>1. d # c
    BY CancelRobs
  <1>2. c \in robbed \/ (conn[c].at = "reading" /\ ~conn[c].open)
    BY RobbersAreTimedOut
  <1> QED
    BY <1>1, <1>2 DEF Robs

LEMMA CloseRobs ==
    ASSUME IInv, NEW c \in Connections, conn[c].at \in {"accepted", "reading"},
           NEW x, DOMAIN x = Fields, CloseConnection(c, x)
    PROVE  \A d \in robbed' \ robbed : Robs(d)
  <1> DEFINE y == [x EXCEPT !.at = "done", !.open = FALSE]
  <1>1. y.at = "done"
    BY FieldsAre
  <1>2. conn' = [conn EXCEPT ![c] = y] /\ robbed' = Robbed(c)
    BY DEF CloseConnection
  <1> HIDE DEF y
  <1>3. conn'[c] = y
    BY <1>2 DEF IInv, FieldsOK
  <1>4. conn'[c] # conn[c]
    BY <1>1, <1>3
  <1> QED
    BY <1>2, <1>4, ChangeRobs

LEMMA ReadOnRobs ==
    ASSUME IInv, NEW c \in Connections, conn[c].at \in {"accepted", "reading"},
           NEW x, DOMAIN x = Fields, ReadOn(c, x),
           \/ conn[c].at = "accepted" \/ x.begun # conn[c].begun \/ x.part # conn[c].part
    PROVE  \A d \in robbed' \ robbed : Robs(d)
  <1> DEFINE new == highestId + 1
             y   == [x EXCEPT !.at = "reading", !.taskId = new]
  <1> HIDE DEF new
  <1>1. y.at = "reading" /\ y.begun = x.begun /\ y.part = x.part
    BY FieldsAre
  <1>2. conn' = [conn EXCEPT ![c] = y] /\ robbed' \subseteq Robbed(c)
    BY DEF ReadOn, new
  <1> HIDE DEF y
  <1>3. conn'[c] = y
    BY <1>2 DEF IInv, FieldsOK
  <1>4. conn'[c] # conn[c]
    BY <1>1, <1>3
  <1> QED
    BY <1>2, <1>4, ChangeRobs

LEMMA ReadUntilEndRobs ==
    ASSUME IInv, NEW c \in Connections, conn[c].at = "reading",
           NEW x, DOMAIN x = Fields, NEW request, ReadUntilEnd(c, x, request),
           x.begun # conn[c].begun \/ conn[c].part # << >>
    PROVE  \A d \in robbed' \ robbed : Robs(d)
  <1> DEFINE y == Complete(x, request)
             parses == Parses(Found(x, request, request.url))
  <1>1. DOMAIN y = Fields /\ y.begun = x.begun /\ (parses => y.part = << >>)
    BY CompleteServes DEF Served
  <1>2. (parses /\ ReadOn(c, y)) \/ CloseConnection(c, y)
    BY DEF ReadUntilEnd
  <1> HIDE DEF y, parses
  <1> QED
    BY <1>1, <1>2, ReadOnRobs, CloseRobs

LEMMA StepRobs == IInv /\ [Next]_vars => \A d \in robbed' \ robbed : Robs(d)
  <1> SUFFICES ASSUME IInv, [Next]_vars PROVE \A d \in robbed' \ robbed : Robs(d)
    OBVIOUS
  <1>1. \A c \in Connections : DOMAIN conn[c] = Fields /\ conn[c].begun \in Int
    BY DEF IInv, TypeOK, FieldsOK
  <1>2. CASE UNCHANGED robbed
    BY <1>2
  <1>3. ASSUME NEW c \in Connections, Start(c) PROVE \A d \in robbed' \ robbed : Robs(d)
    BY <1>1, <1>3, ReadOnRobs DEF Start
  <1>4. ASSUME NEW c \in Connections, NEW request, ReadRequest(c, request)
        PROVE  \A d \in robbed' \ robbed : Robs(d)
    <2> DEFINE x == [conn[c] EXCEPT !.begun = @ + 1]
    <2>1. x.begun = conn[c].begun + 1
      BY <1>1, FieldsAre
    <2>2. DOMAIN x = Fields /\ x.begun # conn[c].begun
      BY <1>1, <2>1
    <2>3. conn[c].at = "reading" /\ ReadUntilEnd(c, x, request)
      BY <1>4 DEF ReadRequest, Reads
    <2> HIDE DEF x
    <2> QED
      BY <2>2, <2>3, ReadUntilEndRobs
  <1>5. ASSUME NEW c \in Connections, NEW request, NEW prefix, ReadBeginning(c, request, prefix)
        PROVE  \A d \in robbed' \ robbed : Robs(d)
    <2> DEFINE x == [conn[c] EXCEPT !.begun = @ + 1, !.part = << request >>]
               y == HandleUrl(x, request, prefix)
    <2>1. x.begun = conn[c].begun + 1
      BY <1>1, FieldsAre
    <2>2. DOMAIN x = Fields /\ x.begun # conn[c].begun
      BY <1>1, <2>1
    <2>3. conn[c].at = "reading" /\ (ReadOn(c, y) \/ CloseConnection(c, y))
      BY <1>5 DEF ReadBeginning, Reads
    <2> HIDE DEF x
    <2>4. DOMAIN y = Fields /\ y.begun # conn[c].begun
      BY <2>2, HandleUrlServes DEF Served
    <2> HIDE DEF y
    <2> QED
      BY <2>3, <2>4, ReadOnRobs, CloseRobs
  <1>6. ASSUME NEW c \in Connections, ReadRest(c) PROVE \A d \in robbed' \ robbed : Robs(d)
    BY <1>1, <1>6, ReadUntilEndRobs DEF ReadRest, Reads
  <1>7. ASSUME NEW c \in Connections, ReadFails(c) \/ ReadAborted(c)
        PROVE  \A d \in robbed' \ robbed : Robs(d)
    BY <1>1, <1>7, CloseRobs DEF ReadFails, ReadAborted, Reads
  <1>8. (\E c \in Connections : Accept(c)) \/ (\E id \in {0} \cup DOMAIN tasks : Tick(id))
          => UNCHANGED robbed
    BY DEF Accept, Tick
  <1> QED
    BY <1>2, <1>3, <1>4, <1>5, <1>6, <1>7, <1>8 DEF Next, vars

\* A connection loses its deadline only in a step of another one that was
\* closed by its own deadline, or had lost it: for any number of connections,
\* the fault never starts with two connections that are both in time
\* (task_timer.h:143).
THEOREM RobbersTimedOut == Spec => RobbedByTheTimedOut
  <1>1. IInv /\ [Next]_vars
          => [ \A c \in robbed' \ robbed :
                 \E d \in Connections \ {c} :
                     /\ conn'[d] # conn[d]
                     /\ d \in robbed \/ (conn[d].at = "reading" /\ ~conn[d].open) ]_vars
    BY StepRobs DEF Robs
  <1> QED
    BY <1>1, SpecInv, PTL DEF Spec, RobbedByTheTimedOut

-----------------------------------------------------------------------------
(* What is answered *)

ResFields == { "code", "body", "completed", "skipBody", "cors" }

\* A response that was not completed.
ResOK(res) == DOMAIN res = ResFields /\ ~res.completed /\ res.skipBody \in BOOLEAN

LEMMA ClearFields ==
    ASSUME NEW res, DOMAIN res = ResFields
    PROVE  LET r == Clear(res)
           IN  /\ DOMAIN r = ResFields /\ r.code = 200 /\ ~r.body
               /\ ~r.completed /\ ~r.cors /\ r.skipBody = res.skipBody
  BY DEF Clear, ResFields

LEMMA AssignEmpty ==
    ASSUME NEW res, DOMAIN res = ResFields, NEW code
    PROVE  LET r == Assign(res, code, FALSE)
           IN  /\ DOMAIN r = ResFields /\ r.code = code /\ ~r.body
               /\ ~r.completed /\ ~r.cors /\ r.skipBody = res.skipBody
  <1> DEFINE cleared == Clear(res)
  <1>1. /\ DOMAIN cleared = ResFields
        /\ ~cleared.completed /\ ~cleared.cors /\ cleared.skipBody = res.skipBody
    BY ClearFields
  <1> HIDE DEF cleared
  <1>2. LET r == [cleared EXCEPT !.code = code, !.body = FALSE]
        IN  /\ DOMAIN r = ResFields /\ r.code = code /\ ~r.body
            /\ ~r.completed /\ ~r.cors /\ r.skipBody = res.skipBody
    BY <1>1 DEF ResFields
  <1> QED
    BY <1>2 DEF Assign, cleared

LEMMA AssignBody ==
    ASSUME NEW res, DOMAIN res = ResFields, NEW code
    PROVE  LET r == Assign(res, code, TRUE)
           IN  /\ DOMAIN r = ResFields /\ r.code = code /\ r.body
               /\ ~r.completed /\ ~r.cors /\ r.skipBody = res.skipBody
  <1> DEFINE cleared == Clear(res)
  <1>1. /\ DOMAIN cleared = ResFields
        /\ ~cleared.completed /\ ~cleared.cors /\ cleared.skipBody = res.skipBody
    BY ClearFields
  <1> HIDE DEF cleared
  <1>2. LET r == [cleared EXCEPT !.code = code, !.body = TRUE]
        IN  /\ DOMAIN r = ResFields /\ r.code = code /\ r.body
            /\ ~r.completed /\ ~r.cors /\ r.skipBody = res.skipBody
    BY <1>1 DEF ResFields
  <1> QED
    BY <1>2 DEF Assign, cleared

LEMMA EndFields ==
    ASSUME NEW res, DOMAIN res = ResFields, ~res.completed
    PROVE  LET r == End(res)
           IN  /\ DOMAIN r = ResFields /\ r.code = res.code /\ (r.body <=> res.body /\ ~res.skipBody)
               /\ r.completed /\ r.cors = res.cors /\ r.skipBody = res.skipBody
  BY DEF End, ResFields

LEMMA AfterFields ==
    ASSUME NEW res, DOMAIN res = ResFields, NEW method
    PROVE  LET r == AfterHandle(res, method)
           IN  /\ DOMAIN r = ResFields /\ r.code = res.code /\ r.body = res.body
               /\ r.skipBody = res.skipBody
               /\ method = "OPTIONS" => r.cors = res.cors
               /\ method # "OPTIONS" => r.cors
  BY DEF AfterHandle, ResFields

\* What writing an answer changes of a connection.
LEMMA WriteFields ==
    ASSUME NEW x, DOMAIN x = Fields, NEW request, NEW res
    PROVE  LET y == Write(x, request, res)
           IN  /\ DOMAIN y = Fields /\ y.res = Clear(res) /\ y.answers = x.answers + 1
               /\ y.answer = Answer(x.begun, request, res)
               /\ y.part = x.part /\ y.begun = x.begun /\ y.bad = x.bad /\ y.at = x.at
  BY FieldsAre DEF Write

\* The routes serve a request for a URL.
Served200(request, url) ==
    \/ Matches(request.method, url)
    \/ request.method = "HEAD" /\ Matches("GET", url)

\* What handle_url finds, and the response it leaves.
Finds(i, res, request, url) ==
    /\ DOMAIN i.res = ResFields
    /\ i.found = "none" =>
         /\ request.method \in {"HEAD", "OPTIONS"}
         /\ request.method = "HEAD" => ~Served200(request, url)
         /\ i.res.code = RoutedCode(request, url)
         /\ ~i.res.cors
    /\ i.found # "none" =>
         /\ request.method # "OPTIONS" /\ ResOK(i.res)
         /\ i.found \in {"rule", "catch_all"}
         /\ i.found = "rule" <=> Served200(request, url)
         /\ i.found = "catch_all" => i.res.code = IF KnownUrl(url) THEN 405 ELSE 404
         /\ request.method = "HEAD" => i.res.skipBody /\ i.found = "rule"
         /\ i.res.skipBody => request.method = "HEAD" \/ res.skipBody

\* What the routes say if there is no handler is neither 200 nor 400.
LEMMA NoneIsRouted ==
    ASSUME NEW i, NEW res, NEW request, NEW url, Finds(i, res, request, url), i.found = "none"
    PROVE  i.res.code \in {204, 404}
  BY DEF Finds, RoutedCode, Served200, Matches

LEMMA RefusedFields ==
    ASSUME NEW res, ResOK(res), NEW code
    PROVE  LET e == End(Assign(res, code, FALSE))
           IN  DOMAIN e = ResFields /\ e.code = code /\ ~e.cors
  <1> DEFINE a == Assign(res, code, FALSE)
  <1>1. DOMAIN a = ResFields /\ a.code = code /\ ~a.completed /\ ~a.cors
    BY AssignEmpty DEF ResOK
  <1> HIDE DEF a
  <1>2. DOMAIN End(a) = ResFields /\ End(a).code = code /\ ~End(a).cors
    BY <1>1, EndFields
  <1> QED
    BY <1>2 DEF a

\* The router finds no handler: it completes the response itself.
LEMMA NoneFound ==
    ASSUME NEW res, ResOK(res), NEW request, NEW url, NEW code, code = RoutedCode(request, url), request.method \in {"HEAD", "OPTIONS"},
           request.method = "HEAD" => ~Served200(request, url)
    PROVE  Finds([found |-> "none", res |-> End(Assign(res, code, FALSE))], res, request, url)
  <1> DEFINE e == End(Assign(res, code, FALSE))
  <1>1. DOMAIN e = ResFields /\ e.code = code /\ ~e.cors
    BY RefusedFields
  <1> HIDE DEF e
  <1>2. Finds([found |-> "none", res |-> e], res, request, url)
    BY <1>1 DEF Finds
  <1> QED
    BY <1>2 DEF e

LEMMA RuleFound ==
    ASSUME NEW res, NEW request, NEW url, NEW r, ResOK(r), Served200(request, url),
           request.method # "OPTIONS", request.method = "HEAD" => r.skipBody,
           r.skipBody => request.method = "HEAD" \/ res.skipBody
    PROVE  Finds([found |-> "rule", res |-> r], res, request, url)
  BY DEF Finds, ResOK

LEMMA InitialFinds ==
    ASSUME NEW res, ResOK(res), NEW request, NEW url
    PROVE  Finds(HandleInitial(res, request.method, url), res, request, url)
  <1> DEFINE i == HandleInitial(res, request.method, url)
             m == request.method
  <1>1. CASE m = "HEAD" /\ (Matches("HEAD", url) \/ Matches("GET", url))
    <2> DEFINE r == [res EXCEPT !.skipBody = TRUE]
    <2>1. i = [found |-> "rule", res |-> r]
      BY <1>1 DEF HandleInitial
    <2>2. ResOK(r) /\ r.skipBody
      BY DEF ResOK, ResFields
    <2>3. Served200(request, url)
      BY <1>1 DEF Served200
    <2> HIDE DEF r
    <2> QED
      BY <1>1, <2>1, <2>2, <2>3, RuleFound
  <1>2. CASE m = "HEAD" /\ ~(Matches("HEAD", url) \/ Matches("GET", url))
    <2> DEFINE code == 404
    <2>1. i = [found |-> "none", res |-> End(Assign(res, code, FALSE))]
      BY <1>2 DEF HandleInitial
    <2>2. code = RoutedCode(request, url)
      BY <1>2 DEF RoutedCode, Matches
    <2> HIDE DEF code
    <2> QED
      BY <1>2, <2>1, <2>2, NoneFound DEF Served200
  <1>3. CASE m = "OPTIONS"
    <2> DEFINE code == IF KnownUrl(url) THEN 204 ELSE 404
    <2>1. i = [found |-> "none", res |-> End(Assign(res, code, FALSE))]
      BY <1>3 DEF HandleInitial
    <2>2. code = RoutedCode(request, url)
      BY <1>3 DEF RoutedCode, KnownUrl
    <2> HIDE DEF code
    <2> QED
      BY <1>3, <2>1, <2>2, NoneFound
  <1>4. CASE m \notin {"HEAD", "OPTIONS"} /\ Matches(m, url)
    <2>1. i = [found |-> "rule", res |-> res]
      BY <1>4 DEF HandleInitial
    <2> QED
      BY <1>4, <2>1, RuleFound DEF Served200
  <1>5. CASE m \notin {"HEAD", "OPTIONS"} /\ ~Matches(m, url)
    <2> DEFINE code == IF KnownUrl(url) THEN 405 ELSE 404
               r    == [res EXCEPT !.code = code]
    <2>1. i = [found |-> "catch_all", res |-> r]
      BY <1>5 DEF HandleInitial
    <2> HIDE DEF code
    <2>2. ResOK(r) /\ r.code = code /\ r.skipBody = res.skipBody
      BY DEF ResOK, ResFields
    <2> HIDE DEF r
    <2>3. ~Served200(request, url)
      BY <1>5 DEF Served200
    <2>4. Finds([found |-> "catch_all", res |-> r], res, request, url)
      BY <1>5, <2>2, <2>3 DEF Finds, ResOK, code
    <2> QED
      BY <2>1, <2>4
  <1> QED
    BY <1>1, <1>2, <1>3, <1>4, <1>5

\* What an answer says of the request it answers, part and bad being those of
\* its connection.
AnswerOK(a, part, bad) ==
    /\ \/ a.code = RoutedCode(a.request, a.request.url)
       \/ /\ a.request.method \in {"HEAD", "OPTIONS"} /\ part # << >>
          /\ \E prefix \in Prefixes[a.request.url] : a.code = RoutedCode(a.request, prefix)
       \/ a.code = 200 /\ a.request.expect /\ ~a.body
    /\ a.cors <=> a.request.method # "OPTIONS" /\ a.code # 400
    /\ ~bad /\ a.code = 200 /\ ~a.request.expect => (a.body <=> a.request.method # "HEAD")

\* Connection y is x, having sent the answer.
Answers(x, y, request) ==
    /\ DOMAIN y = Fields /\ y.answers = x.answers + 1 /\ y.begun = x.begun
    /\ y.answer.number = x.begun /\ y.answer.request = request

LEMMA WriteAnswers ==
    ASSUME NEW x, DOMAIN x = Fields, NEW request, NEW res, DOMAIN res = ResFields
    PROVE  LET y == Write(x, request, res)
           IN  /\ Answers(x, y, request) /\ y.part = x.part /\ y.bad = x.bad
               /\ y.answer.code = res.code /\ (y.answer.cors <=> res.cors)
               /\ y.answer.body <=> res.body \/ res.code >= 400
               /\ DOMAIN y.res = ResFields /\ ~y.res.completed /\ y.res.skipBody = res.skipBody
  <1> DEFINE y == Write(x, request, res)
  <1>1. /\ DOMAIN y = Fields /\ y.res = Clear(res) /\ y.answers = x.answers + 1
        /\ y.answer = Answer(x.begun, request, res)
        /\ y.part = x.part /\ y.begun = x.begun /\ y.bad = x.bad
    BY WriteFields
  <1>2. /\ DOMAIN Clear(res) = ResFields /\ ~Clear(res).completed
        /\ Clear(res).skipBody = res.skipBody
    BY ClearFields
  <1>3. LET a == Answer(x.begun, request, res)
        IN  /\ a.number = x.begun /\ a.request = request /\ a.code = res.code
            /\ (a.cors <=> res.cors) /\ (a.body <=> res.body \/ res.code >= 400)
    BY DEF Answer
  <1> HIDE DEF y
  <1>4. /\ y.answer.number = x.begun /\ y.answer.request = request /\ y.answer.code = res.code
        /\ (y.answer.cors <=> res.cors) /\ (y.answer.body <=> res.body \/ res.code >= 400)
    BY <1>1, <1>3
  <1>5. DOMAIN y.res = ResFields /\ ~y.res.completed /\ y.res.skipBody = res.skipBody
    BY <1>1, <1>2
  <1>6. Answers(x, y, request)
    BY <1>1, <1>4 DEF Answers
  <1> QED
    BY <1>1, <1>4, <1>5, <1>6 DEF y

\* handle_url answers what the router finds no handler for, as the routes say
\* of the part of the URL it was given; else it leaves a response to complete.
LEMMA UrlAnswers ==
    ASSUME NEW x, DOMAIN x = Fields, ResOK(x.res), NEW request, NEW url
    PROVE  LET y == HandleUrl(x, request, url)
           IN  /\ y.part = x.part /\ y.bad = x.bad /\ y.begun = x.begun
               /\ DOMAIN y = Fields
               /\ Found(x, request, url) = "none" =>
                    /\ Answers(x, y, request)
                    /\ request.method \in {"HEAD", "OPTIONS"}
                    /\ y.answer.code = RoutedCode(request, url) /\ y.answer.code \in {204, 404}
                    /\ y.answer.cors <=> request.method # "OPTIONS"
               /\ Found(x, request, url) # "none" =>
                    /\ y.answers = x.answers /\ y.answer = x.answer
                    /\ y.res = HandleInitial(x.res, request.method, url).res
  <1> DEFINE i == HandleInitial(x.res, request.method, url)
             r == AfterHandle(i.res, request.method)
             y == HandleUrl(x, request, url)
  <1>1. Finds(i, x.res, request, url)
    BY InitialFinds
  <1>2. Found(x, request, url) = i.found
    BY DEF Found
  <1>3. y = IF i.found = "none" THEN Write(x, request, r) ELSE [x EXCEPT !.res = i.res]
    BY DEF HandleUrl
  <1> HIDE DEF i, y
  <1>4. CASE i.found = "none"
    <2>1. i.res.code \in {204, 404} /\ i.res.code = RoutedCode(request, url)
      BY <1>1, <1>4, NoneIsRouted DEF Finds
    <2>2. DOMAIN i.res = ResFields /\ ~i.res.cors /\ request.method \in {"HEAD", "OPTIONS"}
      BY <1>1, <1>4 DEF Finds
    <2>3. /\ DOMAIN r = ResFields /\ r.code = i.res.code
          /\ r.cors <=> request.method # "OPTIONS"
      BY <2>2, AfterFields
    <2>4. y = Write(x, request, r)
      BY <1>3, <1>4
    <2> HIDE DEF r
    <2>5. /\ Answers(x, y, request) /\ y.part = x.part /\ y.bad = x.bad
          /\ y.answer.code = r.code /\ (y.answer.cors <=> r.cors)
      BY <2>3, <2>4, WriteAnswers
    <2> QED
      BY <1>2, <1>4, <2>1, <2>2, <2>3, <2>5 DEF y, Answers
  <1>5. CASE i.found # "none"
    <2>1. y = [x EXCEPT !.res = i.res]
      BY <1>3, <1>5
    <2>2. /\ DOMAIN y = Fields /\ y.part = x.part /\ y.bad = x.bad /\ y.begun = x.begun
          /\ y.answers = x.answers /\ y.answer = x.answer /\ y.res = i.res
      BY <2>1, FieldsAre
    <2> QED
      BY <1>2, <1>5, <2>2 DEF y, i
  <1> QED
    BY <1>4, <1>5

\* What the router completes: the handler's answer, or an error that the
\* connection has noted.
LEMMA RouterCompletes ==
    ASSUME NEW res, ResOK(res), NEW found, NEW method, method # "OPTIONS"
    PROVE  LET r == AfterHandle(RouterHandle(res, found), method)
           IN  /\ DOMAIN r = ResFields /\ r.cors /\ r.skipBody = res.skipBody
               /\ found = "rule"  => r.code = 200 /\ (r.body <=> ~res.skipBody)
               /\ found # "rule" => r.code = res.code /\ (r.body <=> res.body /\ ~res.skipBody)
  <1> DEFINE e == RouterHandle(res, found)
             code == 200
  <1>1. CASE found = "rule"
    <2> DEFINE a == Assign(res, code, TRUE)
    <2>1. e = End(a)
      BY <1>1 DEF RouterHandle
    <2> HIDE DEF code
    <2>2. DOMAIN a = ResFields /\ a.code = code /\ a.body /\ ~a.completed /\ a.skipBody = res.skipBody
      BY AssignBody DEF ResOK
    <2> HIDE DEF a, e
    <2>3. DOMAIN e = ResFields /\ e.code = code /\ (e.body <=> ~res.skipBody) /\ e.skipBody = res.skipBody
      BY <2>1, <2>2, EndFields
    <2>4. LET r == AfterHandle(e, method)
          IN  /\ DOMAIN r = ResFields /\ r.cors /\ r.skipBody = res.skipBody
              /\ r.code = code /\ (r.body <=> ~res.skipBody)
      BY <2>3, AfterFields
    <2> QED
      BY <1>1, <2>4 DEF code, e
  <1>2. CASE found # "rule"
    <2>1. e = End(res)
      BY <1>2 DEF RouterHandle
    <2> HIDE DEF e
    <2>2. /\ DOMAIN e = ResFields /\ e.code = res.code /\ e.skipBody = res.skipBody
          /\ (e.body <=> res.body /\ ~res.skipBody)
      BY <2>1, EndFields DEF ResOK
    <2>3. LET r == AfterHandle(e, method)
          IN  /\ DOMAIN r = ResFields /\ r.cors /\ r.skipBody = res.skipBody
              /\ r.code = res.code /\ (r.body <=> res.body /\ ~res.skipBody)
      BY <2>2, AfterFields
    <2> QED
      BY <1>2, <2>3 DEF e
  <1> QED
    BY <1>1, <1>2

\* Connection x has found a handler, or noted an error, for a request.
Routed(x, request, found) ==
    /\ DOMAIN x = Fields /\ ResOK(x.res)
    /\ request.method # "OPTIONS" /\ found \in {"rule", "catch_all"}
    /\ found = "rule" <=> Served200(request, request.url)
    /\ request.method = "HEAD" => x.res.skipBody /\ found = "rule"
    /\ x.res.skipBody => request.method = "HEAD" \/ x.bad
    /\ found = "catch_all" /\ request.expect => x.res.code = 200 /\ ~x.res.body
    /\ found = "catch_all" /\ ~request.expect =>
         x.res.code = IF KnownUrl(request.url) THEN 405 ELSE 404

\* handle sends one answer, which is what the routes say.
LEMMA HandleAnswers ==
    ASSUME NEW x, NEW request, NEW found, Routed(x, request, found)
    PROVE  LET y == Handle(x, request, found)
           IN  /\ Answers(x, y, request) /\ y.bad = x.bad
               /\ \/ y.answer.code = RoutedCode(request, request.url)
                  \/ y.answer.code = 200 /\ request.expect /\ ~y.answer.body
               /\ y.answer.cors <=> y.answer.code # 400
               /\ ~x.bad /\ y.answer.code = 200 /\ ~request.expect
                    => (y.answer.body <=> request.method # "HEAD")
               /\ ResOK(y.res)
               /\ y.res.skipBody => x.bad \/ (request.method = "HEAD" /\ ~request.host)
  <1> DEFINE y == Handle(x, request, found)
             m == request.method
             r == AfterHandle(RouterHandle(x.res, found), m)
             sent == Write(x, request, r)
  <1>1. DOMAIN x = Fields /\ DOMAIN x.res = ResFields /\ ~x.res.completed
        /\ x.res.skipBody \in BOOLEAN /\ ResOK(x.res) /\ m # "OPTIONS"
    BY DEF Routed, ResOK
  <1>2. CASE ~request.host
    <2> DEFINE code == 400
               a    == Assign(x.res, code, FALSE)
    <2>1. y = Write(x, request, a)
      BY <1>2 DEF Handle
    <2> HIDE DEF code
    <2>2. DOMAIN a = ResFields /\ a.code = code /\ ~a.cors /\ a.skipBody = x.res.skipBody
      BY <1>1, AssignEmpty
    <2> HIDE DEF a, y
    <2>3. /\ Answers(x, y, request) /\ y.bad = x.bad
          /\ y.answer.code = code /\ ~y.answer.cors
          /\ DOMAIN y.res = ResFields /\ ~y.res.completed /\ y.res.skipBody = x.res.skipBody
      BY <1>1, <2>1, <2>2, WriteAnswers
    <2>4. RoutedCode(request, request.url) = 400
      BY <1>2, <1>1 DEF RoutedCode, Routed, Served200, Matches
    <2>5. y.res.skipBody => x.bad \/ (m = "HEAD" /\ ~request.host)
      BY <1>2, <2>3 DEF Routed
    <2>6. y.answer.code = 400
      BY <2>3 DEF code
    <2>7. ResOK(y.res)
      BY <1>1, <2>3 DEF ResOK
    <2> QED
      BY <2>3, <2>4, <2>5, <2>6, <2>7 DEF y
  <1>3. CASE request.host
    <2>1. BeforeHandle(x.res, m) = x.res
      BY <1>1 DEF BeforeHandle
    <2>2. y = [sent EXCEPT !.res = Sent(@)]
      BY <1>1, <1>3, <2>1 DEF Handle
    <2>3. /\ DOMAIN r = ResFields /\ r.cors
          /\ found = "rule"  => r.code = 200 /\ (r.body <=> ~x.res.skipBody)
          /\ found # "rule" => r.code = x.res.code /\ (r.body <=> x.res.body /\ ~x.res.skipBody)
      BY <1>1, RouterCompletes
    <2> HIDE DEF r
    <2>4. /\ Answers(x, sent, request) /\ sent.bad = x.bad
          /\ sent.answer.code = r.code /\ (sent.answer.cors <=> r.cors)
          /\ (sent.answer.body <=> r.body \/ r.code >= 400)
          /\ DOMAIN sent.res = ResFields /\ ~sent.res.completed
      BY <1>1, <2>3, WriteAnswers
    <2> HIDE DEF sent
    <2>5. DOMAIN Sent(sent.res) = ResFields /\ ~Sent(sent.res).completed /\ Sent(sent.res).skipBody = FALSE
      BY <2>4 DEF Sent, ResFields
    <2>6. /\ Answers(x, y, request) /\ y.bad = x.bad /\ y.answer = sent.answer
          /\ y.res = Sent(sent.res)
      BY <2>2, <2>4, FieldsAre DEF Answers
    <2> HIDE DEF y
    <2>7. ResOK(y.res) /\ ~y.res.skipBody
      BY <2>5, <2>6 DEF ResOK
    <2>8. /\ y.answer.code = r.code /\ y.answer.cors
          /\ (y.answer.body <=> r.body \/ r.code >= 400)
      BY <2>3, <2>4, <2>6
    <2>9. CASE found = "rule"
      <3>1. RoutedCode(request, request.url) = 200
        BY <1>1, <1>3, <2>9 DEF RoutedCode, Routed, Served200, Matches
      <3>2. y.answer.code = 200
        BY <2>3, <2>8, <2>9
      <3>3. y.answer.body <=> ~x.res.skipBody
        BY <2>3, <2>8, <2>9
      <3>4. ~x.bad => (x.res.skipBody <=> m = "HEAD")
        BY DEF Routed
      <3> QED
        BY <2>6, <2>7, <2>8, <3>1, <3>2, <3>3, <3>4 DEF y
    <2>10. CASE found = "catch_all"
      <3>1. m # "HEAD" /\ ~Served200(request, request.url)
        BY <2>10 DEF Routed
      <3>2. RoutedCode(request, request.url) = IF KnownUrl(request.url) THEN 405 ELSE 404
        BY <1>1, <1>3, <3>1 DEF RoutedCode, Served200, Matches, KnownUrl
      <3>3. CASE request.expect
        <4>1. x.res.code = 200 /\ ~x.res.body
          BY <2>10, <3>3 DEF Routed
        <4>2. y.answer.code = 200 /\ ~y.answer.body
          BY <2>3, <2>8, <2>10, <4>1
        <4> QED
          BY <2>6, <2>7, <2>8, <3>3, <4>2 DEF y
      <3>4. CASE ~request.expect
        <4>1. y.answer.code = IF KnownUrl(request.url) THEN 405 ELSE 404
          BY <2>3, <2>8, <2>10, <3>4 DEF Routed
        <4>2. y.answer.code # 400 /\ y.answer.code # 200
          BY <4>1
        <4> QED
          BY <2>6, <2>7, <2>8, <3>2, <4>1, <4>2 DEF y
      <3> QED
        BY <3>3, <3>4
    <2> QED
      BY <2>9, <2>10 DEF Routed
  <1> QED
    BY <1>2, <1>3

\* A connection that reads a request, or its rest.
Ready(x, request) ==
    /\ DOMAIN x = Fields /\ x.begun \in Nat /\ x.answers \in Nat
    /\ x.answers + 1 = x.begun /\ ResOK(x.res)
    /\ x.res.skipBody => request.method = "HEAD" \/ x.bad

\* The answers of a connection are to its requests, in order.
InStep(x) ==
    /\ DOMAIN x = Fields /\ x.begun \in Nat /\ x.answers \in Nat
    /\ x.answer.number = x.answers
    /\ x.part = << >> => x.answers = x.begun
    /\ x.answers > 0 => AnswerOK(x.answer, x.part, x.bad)

\* A connection that is not over can answer the request it reads: its response
\* is not completed, and skips a body only for a HEAD.
InHand(x) ==
    /\ ResOK(x.res)
    /\ x.part # << >> => x.answers + 1 = x.begun
    /\ x.res.skipBody => x.bad \/ (x.part # << >> /\ x.part[1].method = "HEAD")

LEMMA HeaderRoutes ==
    ASSUME NEW x, NEW request, Ready(x, request)
    PROVE  LET found  == Found(x, request, request.url)
               header == HandleHeader(HandleUrl(x, request, request.url), request)
           IN  found # "none" =>
                 /\ Routed(header, request, found)
                 /\ header.begun = x.begun /\ header.answers = x.answers /\ header.bad = x.bad
  <1> DEFINE found  == Found(x, request, request.url)
             i      == HandleInitial(x.res, request.method, request.url)
             url    == HandleUrl(x, request, request.url)
             header == HandleHeader(url, request)
  <1> SUFFICES ASSUME found # "none"
               PROVE  /\ Routed(header, request, found)
                      /\ header.begun = x.begun /\ header.answers = x.answers /\ header.bad = x.bad
    OBVIOUS
  <1>1. Finds(i, x.res, request, request.url) /\ found = i.found
    BY InitialFinds DEF Ready, Found
  <1>2. /\ DOMAIN url = Fields /\ url.bad = x.bad /\ url.begun = x.begun
        /\ url.answers = x.answers /\ url.res = i.res
    BY UrlAnswers DEF Ready
  <1> HIDE DEF found, i, url
  <1>3. /\ ResOK(url.res) /\ request.method # "OPTIONS"
        /\ found \in {"rule", "catch_all"}
        /\ found = "rule" <=> Served200(request, request.url)
        /\ found = "catch_all" => url.res.code = IF KnownUrl(request.url) THEN 405 ELSE 404
        /\ request.method = "HEAD" => url.res.skipBody /\ found = "rule"
        /\ url.res.skipBody => request.method = "HEAD" \/ x.bad
    BY <1>1, <1>2 DEF Finds, Ready
  <1>4. CASE request.expect
    <2> DEFINE r == Clear(url.res)
    <2>1. header = [url EXCEPT !.res = r]
      BY <1>4 DEF HandleHeader
    <2>2. DOMAIN r = ResFields /\ r.code = 200 /\ ~r.body /\ ~r.completed /\ r.skipBody = url.res.skipBody
      BY <1>3, ClearFields DEF ResOK
    <2> HIDE DEF r, header
    <2>3. /\ DOMAIN header = Fields /\ header.bad = x.bad /\ header.begun = x.begun
          /\ header.answers = x.answers /\ header.res = r
      BY <1>2, <2>1, FieldsAre
    <2>4. ResOK(r)
      BY <1>3, <2>2 DEF ResOK
    <2> QED
      BY <1>3, <1>4, <2>2, <2>3, <2>4 DEF Routed
  <1>5. CASE ~request.expect
    <2>1. header = url
      BY <1>5 DEF HandleHeader
    <2> QED
      BY <1>2, <1>3, <1>5, <2>1 DEF Routed
  <1> QED
    BY <1>4, <1>5

\* The end of a request is answered, once, early or by handle.
LEMMA CompleteAnswers ==
    ASSUME NEW x, NEW request, Ready(x, request)
    PROVE  LET y == Complete(x, request)
           IN  /\ InStep(y)
               /\ Parses(Found(x, request, request.url)) => InHand(y)
  <1> DEFINE found  == Found(x, request, request.url)
             url    == HandleUrl(x, request, request.url)
             header == HandleHeader(url, request)
             bad    == request.method = "HEAD" /\ ~request.host
             done   == Handle(header, request, found)
             y      == Complete(x, request)
  <1>1. y = IF found # "none" THEN [done EXCEPT !.part = << >>, !.bad = @ \/ bad] ELSE url
    BY DEF Complete, Parses
  <1>2. found # "none" =>
          /\ Routed(header, request, found)
          /\ header.begun = x.begun /\ header.answers = x.answers /\ header.bad = x.bad
    BY HeaderRoutes
  <1>3. /\ x.begun \in Nat /\ x.answers \in Nat /\ x.answers + 1 = x.begun
        /\ x.answers + 1 > 0
    BY DEF Ready
  <1>4. CASE found = "none"
    <2>1. y = url
      BY <1>1, <1>4
    <2>2. /\ y.part = x.part /\ y.bad = x.bad /\ Answers(x, y, request)
          /\ request.method \in {"HEAD", "OPTIONS"}
          /\ y.answer.code = RoutedCode(request, request.url) /\ y.answer.code \in {204, 404}
          /\ y.answer.cors <=> request.method # "OPTIONS"
      BY <1>4, <2>1, UrlAnswers DEF Ready
    <2> HIDE DEF y, found
    <2>3. y.answer.request = request
      BY <2>2 DEF Answers
    <2>4. AnswerOK(y.answer, y.part, y.bad)
      BY <2>2, <2>3 DEF AnswerOK
    <2>5. InStep(y)
      BY <1>3, <2>2, <2>4 DEF InStep, Answers
    <2> QED
      BY <1>4, <2>5 DEF y, found, Parses
  <1>5. CASE found # "none"
    <2>1. /\ Answers(header, done, request) /\ done.bad = header.bad
          /\ \/ done.answer.code = RoutedCode(request, request.url)
             \/ done.answer.code = 200 /\ request.expect /\ ~done.answer.body
          /\ done.answer.cors <=> done.answer.code # 400
          /\ ~header.bad /\ done.answer.code = 200 /\ ~request.expect
               => (done.answer.body <=> request.method # "HEAD")
          /\ ResOK(done.res)
          /\ done.res.skipBody => header.bad \/ bad
      BY <1>2, <1>5, HandleAnswers
    <2>2. request.method # "OPTIONS"
      BY <1>2, <1>5 DEF Routed
    <2>3. y = [done EXCEPT !.part = << >>, !.bad = @ \/ bad]
      BY <1>1, <1>5
    <2>4. header.begun = x.begun /\ header.answers = x.answers /\ header.bad = x.bad
      BY <1>2, <1>5
    <2> HIDE DEF y, done, header, bad, found
    <2>5. /\ DOMAIN y = Fields /\ y.part = << >> /\ y.bad = (x.bad \/ bad)
          /\ y.answers = done.answers /\ y.begun = done.begun /\ y.answer = done.answer
          /\ y.res = done.res
      <3>1. DOMAIN done = Fields /\ done.bad = x.bad
        BY <2>1, <2>4 DEF Answers
      <3>2. y.bad = (done.bad \/ bad)
        BY <2>3, <3>1, FieldsAre
      <3>3. y.bad = (x.bad \/ bad)
        BY <3>1, <3>2, Zenon
      <3> QED
        BY <2>3, <3>1, <3>3, FieldsAre
    <2>6. /\ y.answers = x.answers + 1 /\ y.begun = x.begun /\ y.answer.number = x.begun
          /\ y.answer.request = request
      BY <2>1, <2>4, <2>5 DEF Answers
    <2>7. AnswerOK(y.answer, y.part, y.bad)
      <3>1. ~y.bad => ~header.bad
        BY <2>4, <2>5
      <3>2. \/ y.answer.code = RoutedCode(request, request.url)
            \/ y.answer.code = 200 /\ request.expect /\ ~y.answer.body
        BY <2>1, <2>5
      <3>3. /\ y.answer.cors <=> y.answer.code # 400
            /\ ~y.bad /\ y.answer.code = 200 /\ ~request.expect
                 => (y.answer.body <=> request.method # "HEAD")
        BY <2>1, <2>5, <3>1
      <3> QED
        BY <2>2, <2>6, <3>2, <3>3, Zenon DEF AnswerOK
    <2>8. InStep(y)
      BY <1>3, <2>5, <2>6, <2>7 DEF InStep
    <2>9. InHand(y)
      BY <2>1, <2>4, <2>5 DEF InHand
    <2> QED
      BY <2>8, <2>9 DEF y
  <1> QED
    BY <1>4, <1>5

\* The beginning of a request is answered early or not at all.
LEMMA BeginningAnswers ==
    ASSUME NEW x, NEW request, x.part = << request >>, Ready(x, request),
           NEW url \in Prefixes[request.url], x.answer.number = x.answers,
           x.answers > 0 => AnswerOK(x.answer, x.part, x.bad)
    PROVE  LET y == HandleUrl(x, request, url)
           IN  InStep(y) /\ (Parses(Found(x, request, url)) => InHand(y))
  <1> DEFINE found == Found(x, request, url)
             y     == HandleUrl(x, request, url)
             i     == HandleInitial(x.res, request.method, url)
  <1>1. /\ y.part = x.part /\ y.bad = x.bad /\ y.begun = x.begun /\ DOMAIN y = Fields
        /\ found = "none" =>
             /\ Answers(x, y, request)
             /\ request.method \in {"HEAD", "OPTIONS"}
             /\ y.answer.code = RoutedCode(request, url) /\ y.answer.code \in {204, 404}
             /\ y.answer.cors <=> request.method # "OPTIONS"
        /\ found # "none" =>
             y.answers = x.answers /\ y.answer = x.answer /\ y.res = i.res
    BY UrlAnswers DEF Ready
  <1>2. Finds(i, x.res, request, url) /\ found = i.found
    BY InitialFinds DEF Ready, Found
  <1>3. /\ x.begun \in Nat /\ x.answers \in Nat /\ x.answers + 1 = x.begun
        /\ x.part # << >> /\ x.part[1] = request
    BY DEF Ready
  <1> HIDE DEF found, y, i
  <1>4. CASE found = "none"
    <2>1. y.answer.request = request
      BY <1>1, <1>4 DEF Answers
    <2>2. AnswerOK(y.answer, y.part, y.bad)
      BY <1>1, <1>3, <1>4, <2>1 DEF AnswerOK
    <2>3. InStep(y)
      BY <1>1, <1>3, <1>4, <2>2 DEF InStep, Answers
    <2> QED
      BY <1>4, <2>3 DEF y, found, Parses
  <1>5. CASE found # "none"
    <2>1. ResOK(y.res) /\ (y.res.skipBody => request.method = "HEAD" \/ y.bad)
      BY <1>1, <1>2, <1>5 DEF Finds, Ready
    <2>2. InHand(y)
      BY <1>1, <1>3, <1>5, <2>1 DEF InHand
    <2>3. InStep(y)
      BY <1>1, <1>3, <1>5 DEF InStep
    <2> QED
      BY <2>2, <2>3 DEF y
  <1> QED
    BY <1>4, <1>5

\* A connection, between two callbacks.
Good(x) == InStep(x) /\ (x.at # "done" => InHand(x))

\* The inductive invariant.
AnswersInv == \A c \in Connections : Good(conn[c])

LEMMA SameGood ==
    ASSUME NEW x, NEW y, DOMAIN y = DOMAIN x, InStep(x),
           y.begun = x.begun, y.answers = x.answers, y.answer = x.answer,
           y.part = x.part, y.bad = x.bad, y.res = x.res,
           y.at = "done" \/ InHand(x)
    PROVE  Good(y)
  <1>1. InStep(y)
    BY DEF InStep
  <1>2. InHand(x) => InHand(y)
    BY DEF InHand
  <1> QED
    BY <1>1, <1>2 DEF Good

LEMMA StepAnswers ==
    ASSUME AnswersInv, FieldsOK, NEW c \in Connections, NEW y, Good(y),
           conn' = [conn EXCEPT ![c] = y]
    PROVE  AnswersInv'
  <1>1. \A d \in Connections : conn'[d] = IF d = c THEN y ELSE conn[d]
    BY DEF FieldsOK
  <1> QED
    BY <1>1 DEF AnswersInv

LEMMA CloseAnswers ==
    ASSUME AnswersInv, FieldsOK, NEW c \in Connections, NEW x, InStep(x), CloseConnection(c, x)
    PROVE  AnswersInv'
  <1> DEFINE y == [x EXCEPT !.at = "done", !.open = FALSE]
  <1>1. DOMAIN x = Fields
    BY DEF InStep
  <1>2. /\ DOMAIN y = Fields /\ y.at = "done" /\ y.begun = x.begun /\ y.answers = x.answers
        /\ y.answer = x.answer /\ y.part = x.part /\ y.bad = x.bad /\ y.res = x.res
    BY <1>1, FieldsAre
  <1>3. conn' = [conn EXCEPT ![c] = y]
    BY DEF CloseConnection
  <1> HIDE DEF y
  <1>4. Good(y)
    BY <1>1, <1>2, SameGood
  <1> QED
    BY <1>3, <1>4, StepAnswers

LEMMA ReadOnAnswers ==
    ASSUME AnswersInv, FieldsOK, NEW c \in Connections, NEW x, InStep(x), InHand(x), ReadOn(c, x)
    PROVE  AnswersInv'
  <1> DEFINE y == [x EXCEPT !.at = "reading", !.taskId = highestId + 1]
  <1>1. DOMAIN x = Fields
    BY DEF InStep
  <1>2. /\ DOMAIN y = Fields /\ y.begun = x.begun /\ y.answers = x.answers
        /\ y.answer = x.answer /\ y.part = x.part /\ y.bad = x.bad /\ y.res = x.res
    BY <1>1, FieldsAre
  <1>3. conn' = [conn EXCEPT ![c] = y]
    BY DEF ReadOn
  <1> HIDE DEF y
  <1>4. Good(y)
    BY <1>1, <1>2, SameGood
  <1> QED
    BY <1>3, <1>4, StepAnswers

LEMMA ReadUntilEndAnswers ==
    ASSUME AnswersInv, FieldsOK, NEW c \in Connections, NEW x, NEW request, Ready(x, request),
           ReadUntilEnd(c, x, request)
    PROVE  AnswersInv'
  <1> DEFINE y == Complete(x, request)
  <1>1. InStep(y) /\ (Parses(Found(x, request, request.url)) => InHand(y))
    BY CompleteAnswers
  <1>2. \/ Parses(Found(x, request, request.url)) /\ ReadOn(c, y)
        \/ CloseConnection(c, y)
    BY DEF ReadUntilEnd
  <1> HIDE DEF y
  <1> QED
    BY <1>1, <1>2, ReadOnAnswers, CloseAnswers

\* An answer that needs no excuse is right while another request is read.
LEMMA NoExcuse ==
    ASSUME NEW a, NEW part, NEW bad, AnswerOK(a, << >>, bad)
    PROVE  AnswerOK(a, part, bad)
  <1>1. \/ a.code = RoutedCode(a.request, a.request.url)
        \/ a.code = 200 /\ a.request.expect /\ ~a.body
    BY DEF AnswerOK
  <1> QED
    BY <1>1, Zenon DEF AnswerOK

\* A connection that begins to read a request is ready to answer it.
LEMMA BeginsReady ==
    ASSUME NEW z, Good(z), z.at = "reading", z.part = << >>, NEW request
    PROVE  /\ Ready([z EXCEPT !.begun = @ + 1], request)
           /\ LET x == [z EXCEPT !.begun = @ + 1, !.part = << request >>]
              IN  /\ Ready(x, request) /\ x.part = << request >> /\ x.answer.number = x.answers
                  /\ x.answers > 0 => AnswerOK(x.answer, x.part, x.bad)
  <1> DEFINE n == z.begun + 1
             w == [z EXCEPT !.begun = n]
             x == [z EXCEPT !.begun = n, !.part = << request >>]
  <1>1. /\ DOMAIN z = Fields /\ z.answers \in Nat /\ z.answers = z.begun /\ n \in Nat
        /\ z.answers + 1 = n /\ z.answer.number = z.answers /\ ResOK(z.res)
        /\ z.res.skipBody => z.bad
        /\ z.answers > 0 => AnswerOK(z.answer, << >>, z.bad)
    BY DEF Good, InStep, InHand
  <1> HIDE DEF n
  <1>2. /\ DOMAIN w = Fields /\ w.begun = n /\ w.answers = z.answers /\ w.res = z.res
        /\ w.bad = z.bad
    BY <1>1, FieldsAre
  <1>3. /\ DOMAIN x = Fields /\ x.begun = n /\ x.answers = z.answers /\ x.res = z.res
        /\ x.bad = z.bad /\ x.part = << request >> /\ x.answer = z.answer
    BY <1>1, FieldsAre
  <1> HIDE DEF w, x
  <1>4. Ready(w, request) /\ Ready(x, request)
    BY <1>1, <1>2, <1>3 DEF Ready
  <1>5. AnswerOK(z.answer, << >>, z.bad) => AnswerOK(x.answer, x.part, x.bad)
    BY <1>3, NoExcuse
  <1>6. x.answer.number = x.answers /\ (x.answers > 0 => AnswerOK(x.answer, x.part, x.bad))
    BY <1>1, <1>3, <1>5
  <1>7. w = [z EXCEPT !.begun = @ + 1] /\ x = [z EXCEPT !.begun = @ + 1, !.part = << request >>]
    BY DEF w, x, n
  <1>8. x.part = << request >>
    BY <1>3
  <1> QED
    BY <1>4, <1>6, <1>7, <1>8, Zenon

LEMMA NextAnswers == AnswersInv /\ IInv /\ [Next]_vars => AnswersInv'
  <1> SUFFICES ASSUME AnswersInv, IInv, [Next]_vars PROVE AnswersInv'
    OBVIOUS
  <1>1. FieldsOK /\ \A c \in Connections : Good(conn[c]) /\ InStep(conn[c])
    BY DEF IInv, AnswersInv, Good
  <1>2. ASSUME NEW c \in Connections, Accept(c) PROVE AnswersInv'
    <2> DEFINE x == conn[c]
               y == [x EXCEPT !.at = "accepted", !.open = TRUE]
    <2>1. DOMAIN x = Fields /\ InStep(x) /\ InHand(x)
      BY <1>1, <1>2 DEF FieldsOK, Good, Accept
    <2>2. conn' = [conn EXCEPT ![c] = y]
      BY <1>2 DEF Accept
    <2> HIDE DEF x
    <2>3. /\ DOMAIN y = Fields /\ y.begun = x.begun /\ y.answers = x.answers
          /\ y.answer = x.answer /\ y.part = x.part /\ y.bad = x.bad /\ y.res = x.res
      BY <2>1, FieldsAre
    <2> HIDE DEF y
    <2>4. Good(y)
      BY <2>1, <2>3, SameGood
    <2> QED
      BY <1>1, <2>2, <2>4, StepAnswers
  <1>3. ASSUME NEW c \in Connections, Start(c) PROVE AnswersInv'
    <2>1. InHand(conn[c])
      BY <1>1, <1>3 DEF Good, Start
    <2> QED
      BY <1>1, <1>3, <2>1, ReadOnAnswers DEF Start
  <1>4. ASSUME NEW c \in Connections, NEW request, ReadRequest(c, request) PROVE AnswersInv'
    BY <1>1, <1>4, BeginsReady, ReadUntilEndAnswers DEF ReadRequest, Reads
  <1>5. ASSUME NEW c \in Connections, NEW request, NEW prefix \in Prefixes[request.url],
               ReadBeginning(c, request, prefix)
        PROVE  AnswersInv'
    <2> DEFINE x == [conn[c] EXCEPT !.begun = @ + 1, !.part = << request >>]
               y == HandleUrl(x, request, prefix)
    <2>1. /\ Ready(x, request) /\ x.part = << request >> /\ x.answer.number = x.answers
          /\ x.answers > 0 => AnswerOK(x.answer, x.part, x.bad)
      BY <1>1, <1>5, BeginsReady DEF ReadBeginning, Reads
    <2>2. \/ Parses(Found(x, request, prefix)) /\ ReadOn(c, y)
          \/ CloseConnection(c, y)
      BY <1>5 DEF ReadBeginning
    <2> HIDE DEF x
    <2>3. InStep(y) /\ (Parses(Found(x, request, prefix)) => InHand(y))
      BY <2>1, BeginningAnswers
    <2> HIDE DEF y
    <2> QED
      BY <1>1, <2>2, <2>3, ReadOnAnswers, CloseAnswers
  <1>6. ASSUME NEW c \in Connections, ReadRest(c) PROVE AnswersInv'
    <2>1. Ready(conn[c], conn[c].part[1])
      BY <1>1, <1>6 DEF ReadRest, Reads, Good, InStep, InHand, Ready
    <2> QED
      BY <1>1, <1>6, <2>1, ReadUntilEndAnswers DEF ReadRest
  <1>7. ASSUME NEW c \in Connections, ReadFails(c) \/ ReadAborted(c) PROVE AnswersInv'
    BY <1>1, <1>7, CloseAnswers DEF ReadFails, ReadAborted
  <1>8. ASSUME NEW id \in {0} \cup DOMAIN tasks, Tick(id) PROVE AnswersInv'
    <2> SUFFICES ASSUME NEW c \in Connections PROVE Good(conn[c])'
      BY DEF AnswersInv
    <2> DEFINE y == CloseSocket(conn[c])
    <2>1. conn'[c] = y \/ conn'[c] = conn[c]
      BY <1>8 DEF Tick
    <2>2. DOMAIN conn[c] = Fields
      BY <1>1 DEF FieldsOK
    <2>3. /\ DOMAIN y = Fields /\ y.at = conn[c].at /\ y.begun = conn[c].begun
          /\ y.answers = conn[c].answers /\ y.answer = conn[c].answer /\ y.part = conn[c].part
          /\ y.bad = conn[c].bad /\ y.res = conn[c].res
      BY <2>2, FieldsAre DEF CloseSocket
    <2> HIDE DEF y
    <2>4. Good(y)
      BY <1>1, <2>2, <2>3, SameGood DEF Good
    <2> QED
      BY <1>1, <2>1, <2>4
  <1>9. ASSUME UNCHANGED vars PROVE AnswersInv'
    BY <1>9 DEF vars, AnswersInv
  <1> QED
    BY <1>2, <1>3, <1>4, <1>5, <1>6, <1>7, <1>8, <1>9 DEF Next

LEMMA InitAnswers == Init => AnswersInv
  <1> SUFFICES ASSUME Init, NEW c \in Connections PROVE Good(conn[c])
    BY DEF AnswersInv
  <1>1. conn[c] = NewConnection
    BY DEF Init
  <1>2. /\ DOMAIN NewConnection = Fields /\ NewConnection.begun = 0 /\ NewConnection.answers = 0
        /\ NewConnection.answer.number = 0 /\ NewConnection.part = << >>
        /\ DOMAIN NewConnection.res = ResFields /\ ~NewConnection.res.completed
        /\ ~NewConnection.res.skipBody /\ NewConnection.res.skipBody \in BOOLEAN
    BY DEF Fields, NewConnection, NoAnswer, ResFields
  <1>3. InStep(NewConnection)
    BY <1>2 DEF InStep
  <1>4. InHand(NewConnection)
    BY <1>2 DEF InHand, ResOK
  <1> QED
    BY <1>1, <1>3, <1>4 DEF Good

LEMMA AlwaysAnswers == Spec => []AnswersInv
  BY InitAnswers, NextAnswers, SpecInv, PTL DEF Spec

\* No request of any client is answered twice or left out, in whatever pieces
\* it arrives and whatever is answered early or refused: the n-th answer is to
\* the n-th request (http_connection.h:112-122, 210-218, 385-426).
THEOREM WorkerAnswersInStep == Spec => []AnswersInStep
  <1>1. AnswersInv => AnswersInStep
    BY DEF AnswersInv, Good, InStep, InHand, AnswersInStep, Reads
  <1> QED
    BY <1>1, AlwaysAnswers, PTL

\* For any routes, an answer is what the routes say of the request, but for
\* the two exceptions the property names: nothing an earlier request left in
\* the response shows in a code (routing.h:1569-1697, http_connection.h:112-139).
THEOREM WorkerAnswersAsRouted == Spec => []AnsweredAsRouted
  <1>1. AnswersInv => AnsweredAsRouted
    BY DEF AnswersInv, Good, InStep, AnswerOK, AnsweredAsRouted
  <1> QED
    BY <1>1, AlwaysAnswers, PTL

\* The answers without CORS headers are those to OPTIONS and to a request
\* without Host, on any connection (Server.cpp:31-58,
\* http_connection.h:112-122, 157-162).
THEOREM WorkerSendsCors == Spec => []CorsUnlessEarly
  <1>1. AnswersInv => CorsUnlessEarly
    BY DEF AnswersInv, Good, InStep, AnswerOK, CorsUnlessEarly
  <1> QED
    BY <1>1, AlwaysAnswers, PTL

\* skip_body outlives its request only on a connection that sent a HEAD
\* without Host; on any other, a handled request is answered with a body
\* exactly if it is no HEAD (http_response.h:191-198, 246-264, routing.h:1601).
THEOREM WorkerSendsBodies == Spec => []BodyUnlessLeaked
  <1>1. AnswersInv => BodyUnlessLeaked
    BY DEF AnswersInv, Good, InStep, AnswerOK, BodyUnlessLeaked
  <1> QED
    BY <1>1, AlwaysAnswers, PTL

=============================================================================
