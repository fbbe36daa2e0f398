--------------------------- MODULE WebPageProofs ----------------------------
(***************************************************************************)
(* Proofs about WebPage, for every number of clicks and of calls at once.  *)
(***************************************************************************)
EXTENDS WebPage, FiniteSetTheorems, SequenceTheorems, WellFoundedInduction, TLAPS

CallFields == {"todo", "at", "state", "answer", "list", "overlaps"}

\* What holds of a call x while the server is s: a request to allocate is never
\* served, and a dashboard has counted no more than the server had.
CallOK(x, s) ==
    /\ DOMAIN x = CallFields
    /\ x.at \in Int /\ x.answer.requests \in Int /\ x.list.requests \in Int
    /\ x.todo # << >> =>
         /\ Head(x.todo) \in {"newRequest", "allocate"} /\ x.at = 2 => x.state # "served"
         /\ Head(x.todo) = "dashboard" =>
              /\ x.at \in {1, 2}
              /\ x.at = 1 /\ x.state = "served" => x.answer.requests <= s.requests
              /\ x.at = 2 => x.list.requests <= s.requests
              /\ x.at = 2 /\ x.state = "served" => x.list.requests <= x.answer.requests

CallsOK(cs, s) == DOMAIN cs = Places /\ \A c \in Places : CallOK(cs[c], s)

\* The inductive invariant.
IInv ==
    /\ CallsOK(calls, server)
    /\ server \in Snapshots
    /\ DOMAIN shown = {"zones", "stats"}
    /\ StatsAgree
    /\ NoRequestIsConfirmed

LEMMA NewCallOK ==
    ASSUME NEW todo, NEW list, list.requests \in Int, NEW overlaps, NEW s
    PROVE  CallOK(Call(todo, list, overlaps), s)
  BY DEF CallOK, Call, CallFields, Nothing

LEMMA NothingHasRequests == Nothing.requests \in Int
  BY DEF Nothing

\* Remembering overlaps and adding a call changes no other call.
LEMMA OverlapsKeep ==
    ASSUME NEW cs, NEW s, CallsOK(cs, s)
    PROVE  CallsOK(WithOverlaps(cs), s)
  <1> DEFINE overlaps(c) == LoadsZones(cs[c])
                /\ (cs[c].overlaps \/ \E d \in Places \ {c} : LoadsZones(cs[d]))
  <1>1. WithOverlaps(cs) = [c \in Places |-> [cs[c] EXCEPT !.overlaps = overlaps(c)]]
    BY DEF WithOverlaps
  <1> HIDE DEF overlaps
  <1>2. ASSUME NEW c \in Places
        PROVE  CallOK([cs[c] EXCEPT !.overlaps = overlaps(c)], s)
    BY DEF CallsOK, CallOK, CallFields
  <1> QED
    BY <1>1, <1>2 DEF CallsOK

LEMMA AddingKeeps ==
    ASSUME NEW cs, NEW s, CallsOK(cs, s), NEW call, CallOK(call, s)
    PROVE  CallsOK(With(cs, call), s)
  <1> DEFINE free == CHOOSE c \in Places : /\ cs[c] = Idle
                                           /\ \A d \in 1 .. c - 1 : cs[d] # Idle
  <1>1. With(cs, call) = [cs EXCEPT ![free] = call]
    BY DEF With
  <1> HIDE DEF free
  <1> QED
    BY <1>1 DEF CallsOK

LEMMA ChangingKeeps ==
    ASSUME NEW cs, NEW s, CallsOK(cs, s), NEW c \in Places, NEW call, CallOK(call, s)
    PROVE  CallsOK([cs EXCEPT ![c] = call], s)
  BY DEF CallsOK

-----------------------------------------------------------------------------

LEMMA InitInv == Init => IInv
  <1> SUFFICES ASSUME Init PROVE IInv
    OBVIOUS
  <1>1. \A todo : CallOK(Call(todo, Nothing, FALSE), server)
    BY NewCallOK, NothingHasRequests
  <1>2. CallsOK(calls, server)
    BY <1>1 DEF Init, CallsOK, Idle
  <1>3. server \in Snapshots /\ DOMAIN shown = {"zones", "stats"} /\ StatsAgree
    BY DEF Init, Snapshots, StatsAgree
  <1> QED
    BY <1>2, <1>3 DEF Init, IInv, NoRequestIsConfirmed

LEMMA ClickKeeps ==
    ASSUME IInv, NEW function, Click(function)
    PROVE  IInv'
  <1>1. CallsOK(calls', server)
    BY NewCallOK, NothingHasRequests, AddingKeeps, OverlapsKeep DEF Click, IInv
  <1> QED
    BY <1>1 DEF Click, IInv, StatsAgree, NoRequestIsConfirmed

LEMMA ServeKeeps ==
    ASSUME IInv, NEW c \in Places, Serve(c)
    PROVE  IInv'
  <1> DEFINE x     == calls[c]
             fetch == Fetches(Head(x.todo))[x.at]
             state == IF fetch = "allocateRequest" THEN "refused" ELSE "served"
             seen  == IF Remembered(Head(x.todo)) THEN server' ELSE Nothing
             y     == [x EXCEPT !.state = state, !.answer = seen]
  <1>1. x.todo # << >> /\ CallOK(x, server) /\ DOMAIN calls = Places
    BY DEF Serve, Busy, IInv, CallsOK
  <1>2. /\ server' = server \/ server' = [server EXCEPT !.requests = @ + 1]
           \/ server' = [server EXCEPT !.zones = @ + 1]
        /\ calls' = [calls EXCEPT ![c] = y]
        /\ shown' = shown /\ succeeded' = succeeded
    BY DEF Serve, Runs, IdOfAnswer
  <1>3. server' \in Snapshots /\ server.requests \in Int /\ server'.requests \in Int
        /\ server.requests <= server'.requests
    BY <1>2 DEF IInv, Snapshots
  <1>4. CallsOK(calls, server')
    <2> SUFFICES ASSUME NEW d \in Places PROVE CallOK(calls[d], server')
      BY <1>1 DEF CallsOK
    <2>1. CallOK(calls[d], server)
      BY DEF IInv, CallsOK
    <2> QED
      BY <1>3, <2>1 DEF CallOK
  <1>5. CallOK(y, server')
    <2>1. Head(x.todo) \in {"newRequest", "allocate"} /\ x.at = 2 => state = "refused"
      BY DEF Fetches
    <2>2. seen.requests \in Int /\ (Head(x.todo) = "dashboard" => seen = server')
      BY <1>3, NothingHasRequests DEF Remembered
    <2> HIDE DEF state, seen, x
    <2>3. /\ DOMAIN y = CallFields /\ y.todo = x.todo /\ y.at = x.at /\ y.list = x.list
          /\ y.state = state /\ y.answer = seen
      BY <1>1 DEF CallOK, CallFields
    <2> HIDE DEF y
    <2> QED
      BY <1>1, <1>3, <2>1, <2>2, <2>3 DEF CallOK
  <1> HIDE DEF y
  <1>6. CallsOK(calls', server')
    BY <1>2, <1>4, <1>5, ChangingKeeps
  <1> QED
    BY <1>2, <1>3, <1>6 DEF IInv, StatsAgree, NoRequestIsConfirmed

LEMMA ErrorKeeps ==
    ASSUME IInv, NEW c \in Places, EndsInError(c), server' = server
    PROVE  IInv'
  <1> DEFINE call == Call(IF Runs(c) \in Handlers THEN << >> ELSE Tail(calls[c].todo), Nothing, FALSE)
  <1>1. calls' = WithOverlaps([calls EXCEPT ![c] = call])
    BY DEF EndsInError
  <1>2. CallOK(call, server)
    BY NewCallOK, NothingHasRequests
  <1> HIDE DEF call
  <1>3. CallsOK(calls', server)
    BY <1>1, <1>2, ChangingKeeps, OverlapsKeep DEF IInv
  <1>4. /\ shown' = shown \/ shown' = [shown EXCEPT !.zones = Nothing]
        /\ succeeded' = succeeded
    BY DEF EndsInError
  <1>5. shown'.stats = shown.stats /\ DOMAIN shown' = {"zones", "stats"}
    BY <1>4 DEF IInv
  <1> QED
    BY <1>3, <1>4, <1>5 DEF IInv, StatsAgree, NoRequestIsConfirmed

\* The end of a function, if a dashboard's two answers agree.
LEMMA EndKeeps ==
    ASSUME IInv, NEW c \in Places, NEW list, NEW last, Ends(c, list, last), server' = server,
           last.requests \in Int, Runs(c) \notin {"newRequest", "allocate"},
           Runs(c) = "dashboard" /\ last # Nothing => list.requests <= last.requests
    PROVE  IInv'
  <1>1. CallsOK(GoesOn(c, last), server)
    <2> DEFINE over == [calls EXCEPT ![c] = Call(Tail(calls[c].todo), Nothing, FALSE)]
    <2>1. CallsOK(over, server)
      BY NewCallOK, NothingHasRequests, ChangingKeeps DEF IInv
    <2> HIDE DEF over
    <2>2. /\ CallsOK(With(over, Call(<< "details" >>, last, calls[c].overlaps)), server)
          /\ CallsOK(With(over, Call(<< "activity" >>, Nothing, FALSE)), server)
      BY <2>1, NewCallOK, NothingHasRequests, AddingKeeps
    <2> QED
      BY <2>1, <2>2 DEF GoesOn, ListForDetails, over
  <1>2. CallsOK(calls', server)
    BY <1>1, OverlapsKeep DEF Ends
  <1>3. succeeded' = 0
    BY DEF Ends, IInv, NoRequestIsConfirmed
  <1>4. DOMAIN shown' = {"zones", "stats"} /\ StatsAgree'
    <2>1. CASE Runs(c) = "dashboard"
      <3> DEFINE stats == [ taken |-> list.requests, active |-> last.requests,
                            known |-> last # Nothing ]
      <3>1. shown' = [shown EXCEPT !.stats = stats]
        BY <2>1 DEF Ends, AnswerTo, Fetches
      <3>2. shown'.stats = stats /\ DOMAIN shown' = {"zones", "stats"}
        BY <3>1 DEF IInv
      <3>3. stats.taken = list.requests /\ stats.active = last.requests
        OBVIOUS
      <3>4. stats.known = (last # Nothing)
        BY Zenon
      <3> HIDE DEF stats
      <3>5. stats.known => stats.taken <= stats.active
        BY <2>1, <3>3, <3>4
      <3> QED
        BY <3>2, <3>5 DEF StatsAgree
    <2>2. CASE Runs(c) # "dashboard"
      <3>1. shown' = shown \/ shown' = [shown EXCEPT !.zones = last]
        BY <2>2 DEF Ends
      <3>2. shown'.stats = shown.stats /\ DOMAIN shown' = {"zones", "stats"}
        BY <3>1 DEF IInv
      <3> QED
        BY <3>2 DEF IInv, StatsAgree
    <2> QED
      BY <2>1, <2>2
  <1> QED
    BY <1>2, <1>3, <1>4 DEF IInv, NoRequestIsConfirmed

LEMMA SettleKeeps ==
    ASSUME IInv, NEW c \in Places, Settle(c)
    PROVE  IInv'
  <1> DEFINE x == calls[c]
  <1>1. x.todo # << >> /\ x.state = "served" /\ CallOK(x, server)
    BY DEF Settle, Busy, IInv, CallsOK
  <1>2. server' = server
    BY DEF Settle
  <1>3. CASE IsLast(c) /\ Ends(c, x.list, x.answer)
    <2>1. /\ Head(x.todo) \in {"newRequest", "allocate"} => x.at = 2
          /\ Head(x.todo) = "dashboard" => x.at = 2
      BY <1>3 DEF IsLast, Fetches
    <2>2. /\ Runs(c) \notin {"newRequest", "allocate"} /\ x.answer.requests \in Int
          /\ Runs(c) = "dashboard" => x.list.requests <= x.answer.requests
      BY <1>1, <2>1 DEF CallOK, Runs
    <2> HIDE DEF x
    <2> QED
      BY <1>2, <1>3, <2>2, EndKeeps
  <1>4. CASE EndsInError(c)
    BY <1>2, <1>4, ErrorKeeps
  <1>5. CASE /\ ~IsLast(c)
             /\ calls' = [calls EXCEPT ![c].at = @ + 1, ![c].state = "sent",
                                       ![c].answer = Nothing, ![c].list = x.answer]
             /\ UNCHANGED << overlay, shown, succeeded >>
    <2> DEFINE at == x.at + 1
               y  == [x EXCEPT !.at = at, !.state = "sent", !.answer = Nothing, !.list = x.answer]
    <2>1. calls' = [calls EXCEPT ![c] = y]
      BY <1>5 DEF IInv, CallsOK
    <2>2. Head(x.todo) = "dashboard" => x.at = 1
      BY <1>1, <1>5 DEF IsLast, Fetches, CallOK
    <2> HIDE DEF at, x
    <2>3. /\ DOMAIN y = CallFields /\ y.todo = x.todo /\ y.at = at /\ y.list = x.answer
          /\ y.state = "sent" /\ y.answer = Nothing
      BY <1>1 DEF CallOK, CallFields
    <2> HIDE DEF y
    <2>4. CallOK(y, server)
      BY <1>1, <2>2, <2>3, NothingHasRequests DEF CallOK, at
    <2>5. CallsOK(calls', server)
      BY <2>1, <2>4, ChangingKeeps DEF IInv
    <2> QED
      BY <1>2, <1>5, <2>5 DEF IInv, StatsAgree, NoRequestIsConfirmed
  <1> QED
    BY <1>3, <1>4, <1>5 DEF Settle

LEMMA FailsKeeps ==
    ASSUME IInv, NEW c \in Places, Fails(c)
    PROVE  IInv'
  <1> DEFINE x == calls[c]
             last == IF Runs(c) = "details" THEN x.list ELSE Nothing
  <1>1. server' = server /\ x.list.requests \in Int
    BY DEF Fails, IInv, CallsOK, CallOK
  <1>2. CASE IsOptional(Runs(c), x.at)
    <2>1. Ends(c, x.list, last)
      BY <1>2 DEF Fails
    <2>2. Runs(c) \notin {"newRequest", "allocate"}
      BY <1>2 DEF IsOptional
    <2>3. last.requests \in Int /\ (Runs(c) = "dashboard" => last = Nothing)
      BY <1>1, NothingHasRequests
    <2> HIDE DEF last, x
    <2> QED
      BY <1>1, <2>1, <2>2, <2>3, EndKeeps
  <1>3. CASE ~IsOptional(Runs(c), x.at)
    BY <1>1, <1>3, ErrorKeeps DEF Fails
  <1> QED
    BY <1>2, <1>3

LEMMA NextInv == IInv /\ [Next]_vars => IInv'
  <1> SUFFICES ASSUME IInv, [Next]_vars PROVE IInv'
    OBVIOUS
  <1>1. CASE HideEarly
    BY <1>1 DEF HideEarly, IInv, StatsAgree, NoRequestIsConfirmed
  <1>2. CASE UNCHANGED vars
    BY <1>2 DEF vars, IInv, StatsAgree, NoRequestIsConfirmed
  <1> QED
    BY <1>1, <1>2, ClickKeeps, ServeKeeps, SettleKeeps, FailsKeeps DEF Next

LEMMA SpecInv == Spec => []IInv
  BY InitInv, NextInv, PTL DEF Spec

\* The dashboard never shows more taken slots than active requests, unless the
\* requests could not be fetched: however many loads overlap, since the slots
\* are asked for first (app.js:185-212).
THEOREM DashboardsAgree == Spec => []StatsAgree
  <1>1. IInv => StatsAgree
    BY DEF IInv
  <1> QED
    BY <1>1, SpecInv, PTL

\* No request is ever reported as allocated, whatever users click and however
\* their calls overlap (app.js:470-474, 726-731, Server.cpp:299).
THEOREM NothingIsConfirmed == Spec => []NoRequestIsConfirmed
  <1>1. IInv => NoRequestIsConfirmed
    BY DEF IInv
  <1> QED
    BY <1>1, SpecInv, PTL

-----------------------------------------------------------------------------
(* What a call has still to run *)

\* The calls that will leave another behind and go on.
Wide == { << "createZone", "zones", "dashboard" >>, << "zones", "dashboard" >> }

Singles ==
    { "dashboard", "zones", "requests", "analytics", "select", "details", "activity" }

Scripts ==
    { << f >> : f \in Singles } \cup Wide \cup
    { << >>, << "newRequest", "requests", "dashboard" >>, << "requests", "dashboard" >>,
      << "allocate", "zones" >> }

LEMMA ConcatOne ==
    ASSUME NEW a, NEW b
    PROVE  << a >> \o << b >> = << a, b >>
  <1> DEFINE S == {a, b}
             s == << a >> \o << b >>
             t == << a, b >>
  <1>1. << a >> \in Seq(S) /\ << b >> \in Seq(S) /\ t \in Seq(S)
    OBVIOUS
  <1>2. s \in Seq(S) /\ Len(s) = 2 /\ s[1] = a /\ s[2] = b
    BY <1>1
  <1>3. Len(t) = 2 /\ t[1] = a /\ t[2] = b
    OBVIOUS
  <1> HIDE DEF s, t, S
  <1>4. t \in Seq(S) /\ Len(s) = Len(t) /\ \A i \in 1 .. Len(s) : s[i] = t[i]
    BY <1>1, <1>2, <1>3
  <1> QED
    BY <1>2, <1>4, SeqEqual DEF s, t

LEMMA ConcatTwo ==
    ASSUME NEW a, NEW b, NEW c
    PROVE  << a >> \o << b, c >> = << a, b, c >>
  <1> DEFINE S == {a, b, c}
             s == << a >> \o << b, c >>
             t == << a, b, c >>
  <1>1. << a >> \in Seq(S) /\ << b, c >> \in Seq(S) /\ t \in Seq(S)
    OBVIOUS
  <1>2. s \in Seq(S) /\ Len(s) = 3 /\ s[1] = a /\ s[2] = b /\ s[3] = c
    BY <1>1
  <1>3. Len(t) = 3 /\ t[1] = a /\ t[2] = b /\ t[3] = c
    OBVIOUS
  <1> HIDE DEF s, t, S
  <1>4. t \in Seq(S) /\ Len(s) = Len(t) /\ \A i \in 1 .. Len(s) : s[i] = t[i]
    BY <1>1, <1>2, <1>3
  <1> QED
    BY <1>2, <1>4, SeqEqual DEF s, t

LEMMA ClickScripts ==
    ASSUME NEW function \in Clicks
    PROVE  LET todo == << function >> \o FollowedBy(function)
           IN  todo \in Scripts /\ todo # << >> /\ Head(todo) = function
  <1>1. CASE function = "newRequest"
    <2>1. FollowedBy(function) = << "requests", "dashboard" >>
      BY <1>1 DEF FollowedBy
    <2>2. << function >> \o << "requests", "dashboard" >> = << "newRequest", "requests", "dashboard" >>
      BY <1>1, ConcatTwo
    <2>3. << "newRequest", "requests", "dashboard" >> \in Scripts /\ << "newRequest", "requests", "dashboard" >> # << >>
          /\ Head(<< "newRequest", "requests", "dashboard" >>) = "newRequest"
      BY DEF Scripts
    <2>4. << function >> \o FollowedBy(function) = << "newRequest", "requests", "dashboard" >>
      BY <2>1, <2>2, Zenon
    <2> QED
      BY <1>1, <2>3, <2>4, Zenon
  <1>2. CASE function = "allocate"
    <2>1. FollowedBy(function) = << "zones" >>
      BY <1>2 DEF FollowedBy
    <2>2. << function >> \o << "zones" >> = << "allocate", "zones" >>
      BY <1>2, ConcatOne
    <2>3. << "allocate", "zones" >> \in Scripts /\ << "allocate", "zones" >> # << >>
          /\ Head(<< "allocate", "zones" >>) = "allocate"
      BY DEF Scripts
    <2>4. << function >> \o FollowedBy(function) = << "allocate", "zones" >>
      BY <2>1, <2>2, Zenon
    <2> QED
      BY <1>2, <2>3, <2>4, Zenon
  <1>3. CASE function = "createZone"
    <2>1. FollowedBy(function) = << "zones", "dashboard" >>
      BY <1>3 DEF FollowedBy
    <2>2. << function >> \o << "zones", "dashboard" >> = << "createZone", "zones", "dashboard" >>
      BY <1>3, ConcatTwo
    <2>3. << "createZone", "zones", "dashboard" >> \in Scripts /\ << "createZone", "zones", "dashboard" >> # << >>
          /\ Head(<< "createZone", "zones", "dashboard" >>) = "createZone"
      BY DEF Scripts, Wide
    <2>4. << function >> \o FollowedBy(function) = << "createZone", "zones", "dashboard" >>
      BY <2>1, <2>2, Zenon
    <2> QED
      BY <1>3, <2>3, <2>4, Zenon
  <1>4. CASE function \notin Handlers
    <2>1. function \in Singles
      BY <1>4, ClicksAssumption DEF Singles, Handlers
    <2>2. FollowedBy(function) = << >>
      BY <1>4 DEF FollowedBy, Handlers
    <2>3. << function >> \o << >> = << function >>
      OBVIOUS
    <2> QED
      BY <2>1, <2>2, <2>3 DEF Scripts
  <1> QED
    BY <1>1, <1>2, <1>3, <1>4 DEF Handlers

LEMMA ScriptSteps ==
    ASSUME NEW todo \in Scripts, todo # << >>
    PROVE  /\ Tail(todo) \in Scripts
           /\ Len(todo) > 1 => /\ Tail(todo) # << >> /\ ShowsLoading(Head(Tail(todo)))
                               /\ Head(Tail(todo)) # "details"
           /\ Tail(todo) # << >> => Len(todo) > 1
           /\ Tail(todo) \in Wide => todo \in Wide
           /\ Head(todo) = "zones" /\ Tail(todo) # << >> => todo \in Wide /\ Tail(todo) \notin Wide
           /\ Head(todo) \in {"dashboard", "details"} => Tail(todo) = << >>
  <1>1. CASE \E f \in Singles : todo = << f >>
    BY <1>1 DEF Scripts, Wide
  <1>2. CASE todo = << "createZone", "zones", "dashboard" >>
    BY <1>2 DEF Scripts, Wide, ShowsLoading
  <1>3. CASE todo = << "zones", "dashboard" >>
    <2>1. Tail(todo) = << "dashboard" >> /\ Head(todo) = "zones" /\ Len(todo) = 2
      BY <1>3
    <2> QED
      BY <1>3, <2>1 DEF Scripts, Wide, ShowsLoading, Singles
  <1>4. CASE todo = << "newRequest", "requests", "dashboard" >>
    BY <1>4 DEF Scripts, Wide, ShowsLoading
  <1>5. CASE todo = << "requests", "dashboard" >>
    BY <1>5 DEF Scripts, Wide, ShowsLoading, Singles
  <1>6. CASE todo = << "allocate", "zones" >>
    BY <1>6 DEF Scripts, Wide, ShowsLoading, Singles
  <1> QED
    BY <1>1, <1>2, <1>3, <1>4, <1>5, <1>6 DEF Scripts, Wide

-----------------------------------------------------------------------------
(* The places of the calls *)

\* A call is idle, or runs a function that has the fetch it waits for.
Shaped(x) ==
    /\ DOMAIN x = CallFields /\ x.todo \in Scripts
    /\ x.todo = << >> => x = Idle
    /\ x.todo # << >> => x.at \in 1 .. Len(Fetches(Head(x.todo)))

AllShaped(cs) == DOMAIN cs = Places /\ \A c \in Places : Shaped(cs[c])

BusyIn(cs) == { c \in Places : cs[c].todo # << >> }

WideIn(cs) == { c \in Places : cs[c].todo \in Wide }

\* The places are enough for the calls at work, those that the wide ones will
\* leave behind, and some more.
Room(cs, more) == Cardinality(BusyIn(cs)) + Cardinality(WideIn(cs)) + more <= 2 * MaxAtOnce

LEMMA PlacesFinite ==
    /\ IsFiniteSet(Places) /\ Cardinality(Places) = 2 * MaxAtOnce /\ MaxAtOnce \in Nat
    /\ \A S \in SUBSET Places : IsFiniteSet(S) /\ Cardinality(S) \in Nat
  <1>1. 2 * MaxAtOnce \in Nat /\ MaxAtOnce \in Nat
    BY ClicksAssumption
  <1>2. IsFiniteSet(Places) /\ Cardinality(Places) = 2 * MaxAtOnce
    BY <1>1, FS_Interval DEF Places
  <1>3. ASSUME NEW S \in SUBSET Places PROVE IsFiniteSet(S) /\ Cardinality(S) \in Nat
    BY <1>2, FS_Subset, FS_CardinalityType
  <1> QED
    BY <1>1, <1>2, <1>3

\* A non-empty set of places has a first one.
LEMMA FirstPlace ==
    ASSUME NEW S \in SUBSET Places, S # {}
    PROVE  \E c \in S : \A d \in 1 .. c - 1 : d \notin S
  <1>1. IsWellFoundedOn(OpToRel(<, Nat), Nat)
    BY NatLessThanWellFounded
  <1>2. S \subseteq Nat
    BY DEF Places
  <1>3. \E c \in S : \A d \in S : ~ (<< d, c >> \in OpToRel(<, Nat))
    BY <1>1, <1>2, WFMin
  <1>4. \A c, d \in Nat : << d, c >> \in OpToRel(<, Nat) <=> d < c
    BY DEF OpToRel
  <1> HIDE DEF OpToRel
  <1>5. PICK c \in S : \A d \in S : ~(d < c)
    BY <1>2, <1>3, <1>4
  <1>6. ASSUME NEW d \in 1 .. c - 1 PROVE d \notin S
    BY <1>2, <1>5
  <1> QED
    BY <1>5, <1>6

\* A call is put in a place that is idle.
LEMMA AddedToFree ==
    ASSUME NEW cs, \E c \in Places : cs[c] = Idle, NEW call
    PROVE  \E f \in Places : cs[f] = Idle /\ With(cs, call) = [cs EXCEPT ![f] = call]
  <1> DEFINE free == CHOOSE c \in Places : /\ cs[c] = Idle
                                           /\ \A d \in 1 .. c - 1 : cs[d] # Idle
             S == { c \in Places : cs[c] = Idle }
  <1>1. PICK c \in S : \A d \in 1 .. c - 1 : d \notin S
    BY FirstPlace
  <1>2. \A d \in 1 .. c - 1 : d \in Places
    BY <1>1, ClicksAssumption DEF Places
  <1>3. c \in Places /\ cs[c] = Idle /\ \A d \in 1 .. c - 1 : cs[d] # Idle
    BY <1>1, <1>2
  <1>4. free \in Places /\ cs[free] = Idle
    BY <1>3
  <1>5. With(cs, call) = [cs EXCEPT ![free] = call]
    BY DEF With
  <1> HIDE DEF free
  <1> QED
    BY <1>4, <1>5

\* Where there is room, a place is idle.
LEMMA RoomHasPlace ==
    ASSUME NEW cs, AllShaped(cs), Cardinality(BusyIn(cs)) < 2 * MaxAtOnce
    PROVE  \E c \in Places : cs[c] = Idle
  <1>1. BusyIn(cs) # Places
    BY PlacesFinite, ClicksAssumption
  <1>2. PICK c \in Places : cs[c].todo = << >>
    BY <1>1 DEF BusyIn
  <1> QED
    BY <1>2 DEF AllShaped, Shaped

LEMMA OverlapsShaped ==
    ASSUME NEW cs, AllShaped(cs)
    PROVE  LET os == WithOverlaps(cs)
           IN  /\ AllShaped(os) /\ \A c \in Places : os[c].todo = cs[c].todo
               /\ BusyIn(os) = BusyIn(cs) /\ WideIn(os) = WideIn(cs)
  <1> DEFINE overlaps(c) == LoadsZones(cs[c])
                /\ (cs[c].overlaps \/ \E d \in Places \ {c} : LoadsZones(cs[d]))
             os == WithOverlaps(cs)
  <1>1. os = [c \in Places |-> [cs[c] EXCEPT !.overlaps = overlaps(c)]]
    BY DEF WithOverlaps
  <1>2. ASSUME NEW c \in Places, cs[c] = Idle PROVE overlaps(c) = FALSE
    BY <1>2 DEF LoadsZones, Idle, Call
  <1> HIDE DEF overlaps, os
  <1>3. ASSUME NEW c \in Places
        PROVE  Shaped(os[c]) /\ os[c].todo = cs[c].todo
    <2> DEFINE x == cs[c]
    <2>1. Shaped(x)
      BY DEF AllShaped
    <2>2. os[c] = [x EXCEPT !.overlaps = overlaps(c)]
      BY <1>1
    <2>3. x = Idle => os[c] = Idle
      <3>1. Idle = [f \in CallFields |-> Idle[f]] /\ Idle.overlaps = FALSE
        BY DEF Idle, Call, CallFields
      <3>2. [Idle EXCEPT !.overlaps = FALSE] = Idle
        BY <3>1 DEF CallFields
      <3> QED
        BY <1>2, <2>2, <3>2
    <2> HIDE DEF x
    <2>4. DOMAIN os[c] = CallFields /\ os[c].todo = x.todo /\ os[c].at = x.at
      BY <2>1, <2>2 DEF Shaped, CallFields
    <2> QED
      BY <2>1, <2>3, <2>4 DEF Shaped, x
  <1>4. AllShaped(os)
    BY <1>1, <1>3 DEF AllShaped
  <1>5. BusyIn(os) = BusyIn(cs) /\ WideIn(os) = WideIn(cs)
    BY <1>3 DEF BusyIn, WideIn
  <1> QED
    BY <1>3, <1>4, <1>5 DEF os

\* The calls new are the calls cs with x in place c.
Replaces(new, cs, c, x) ==
    DOMAIN new = Places /\ \A d \in Places : new[d] = IF d = c THEN x ELSE cs[d]

LEMMA ReplacedCounts ==
    ASSUME NEW cs, NEW c \in Places, NEW x, NEW new, Replaces(new, cs, c, x)
    PROVE  /\ x.todo # << >> => BusyIn(new) = BusyIn(cs) \cup {c}
           /\ x.todo = << >> => BusyIn(new) = BusyIn(cs) \ {c}
           /\ x.todo \in Wide => WideIn(new) = WideIn(cs) \cup {c}
           /\ x.todo \notin Wide => WideIn(new) = WideIn(cs) \ {c}
  <1>1. /\ x.todo # << >> => BusyIn(new) = BusyIn(cs) \cup {c}
        /\ x.todo = << >> => BusyIn(new) = BusyIn(cs) \ {c}
    BY DEF BusyIn, Replaces
  <1>2. /\ x.todo \in Wide => WideIn(new) = WideIn(cs) \cup {c}
        /\ x.todo \notin Wide => WideIn(new) = WideIn(cs) \ {c}
    BY DEF WideIn, Replaces
  <1> QED
    BY <1>1, <1>2

LEMMA CountOfOneMore ==
    ASSUME NEW S, IsFiniteSet(S), NEW x
    PROVE  /\ Cardinality(S \cup {x}) \in Nat /\ Cardinality(S \cup {x}) <= Cardinality(S) + 1
           /\ Cardinality(S \ {x}) \in Nat /\ Cardinality(S \ {x}) <= Cardinality(S)
  <1> DEFINE n == Cardinality(S)
             m == Cardinality(S \cup {x})
             l == Cardinality(S \ {x})
  <1>1. n \in Nat
    BY FS_CardinalityType
  <1>2. IsFiniteSet(S \cup {x}) /\ m = IF x \in S THEN n ELSE n + 1
    BY FS_AddElement, Zenon
  <1>3. IsFiniteSet(S \ {x}) /\ l = IF x \in S THEN n - 1 ELSE n
    BY FS_RemoveElement, Zenon
  <1>4. m \in Nat /\ l \in Nat
    BY <1>2, <1>3, FS_CardinalityType
  <1> HIDE DEF n, m, l
  <1>5. m <= n + 1 /\ l <= n
    BY <1>1, <1>2, <1>3
  <1> QED
    BY <1>4, <1>5 DEF n, m, l

\* Room for a new call that leaves none behind while it goes on, or one.
LEMMA AddedKeepsRoom ==
    ASSUME NEW cs, AllShaped(cs), NEW call, Shaped(call), call.todo # << >>,
           NEW more \in {1, 2}, Room(cs, more), call.todo \in Wide => more = 2
    PROVE  /\ AllShaped(With(cs, call)) /\ Room(With(cs, call), 0)
           /\ \E f \in Places : cs[f] = Idle /\ With(cs, call) = [cs EXCEPT ![f] = call]
  <1> DEFINE busy == BusyIn(cs)
             wide == WideIn(cs)
  <1>1. /\ IsFiniteSet(busy) /\ Cardinality(busy) \in Nat
        /\ IsFiniteSet(wide) /\ Cardinality(wide) \in Nat /\ MaxAtOnce \in Nat
    BY PlacesFinite DEF BusyIn, WideIn
  <1>2. Cardinality(busy) < 2 * MaxAtOnce
    BY <1>1 DEF Room
  <1>3. PICK f \in Places : cs[f] = Idle /\ With(cs, call) = [cs EXCEPT ![f] = call]
    BY <1>2, RoomHasPlace, AddedToFree
  <1> DEFINE new == With(cs, call)
  <1>4. f \in Places /\ Replaces(new, cs, f, call)
    BY <1>3 DEF AllShaped, Replaces
  <1> HIDE DEF new
  <1>5. /\ BusyIn(new) = busy \cup {f}
        /\ call.todo \in Wide => WideIn(new) = wide \cup {f}
        /\ call.todo \notin Wide => WideIn(new) = wide \ {f}
    <2>1. BusyIn(new) = BusyIn(cs) \cup {f}
      BY <1>4 DEF BusyIn, Replaces
    <2>2. /\ call.todo \in Wide => WideIn(new) = WideIn(cs) \cup {f}
          /\ call.todo \notin Wide => WideIn(new) = WideIn(cs) \ {f}
      BY <1>4 DEF WideIn, Replaces
    <2> QED
      BY <2>1, <2>2 DEF busy, wide
  <1> HIDE DEF busy, wide
  <1>6. /\ Cardinality(BusyIn(new)) \in Nat
        /\ Cardinality(BusyIn(new)) <= Cardinality(busy) + 1
    BY <1>1, <1>5, CountOfOneMore
  <1>7. /\ Cardinality(WideIn(new)) \in Nat
        /\ Cardinality(WideIn(new)) <= Cardinality(wide) + (IF call.todo \in Wide THEN 1 ELSE 0)
    <2>1. CASE call.todo \in Wide
      BY <1>1, <1>5, <2>1, CountOfOneMore
    <2>2. CASE call.todo \notin Wide
      <3>1. /\ Cardinality(WideIn(new)) \in Nat
            /\ Cardinality(WideIn(new)) <= Cardinality(wide)
        BY <1>1, <1>5, <2>2, CountOfOneMore
      <3> QED
        BY <1>1, <2>2, <3>1
    <2> QED
      BY <2>1, <2>2
  <1> DEFINE b == Cardinality(busy)
             w == Cardinality(wide)
             n == IF call.todo \in Wide THEN 1 ELSE 0
             i == Cardinality(BusyIn(new))
             j == Cardinality(WideIn(new))
  <1>8. b + w + (n + 1) <= 2 * MaxAtOnce
    <2>1. n + 1 <= more
      OBVIOUS
    <2>2. b + w + more <= 2 * MaxAtOnce /\ b \in Nat /\ w \in Nat /\ n \in {0, 1}
      BY <1>1 DEF Room, busy, wide
    <2> HIDE DEF b, w, n
    <2> QED
      BY <1>1, <2>1, <2>2
  <1> HIDE DEF b, w, i, j, n
  <1>9. Room(new, 0)
    <2>1. b \in Nat /\ w \in Nat /\ n \in Int /\ i \in Nat /\ j \in Nat
      BY <1>1, <1>6, <1>7 DEF b, w, n, i, j
    <2>2. i <= b + 1 /\ j <= w + n
      BY <1>6, <1>7 DEF b, w, n, i, j
    <2>3. i + j + 0 <= 2 * MaxAtOnce
      BY <1>1, <1>8, <2>1, <2>2
    <2> QED
      BY <2>3 DEF Room, i, j
  <1>10. AllShaped(new)
    BY <1>4 DEF AllShaped, Replaces
  <1> QED
    BY <1>3, <1>9, <1>10 DEF new

\* A call that goes on with less to run makes room for one more if it is over,
\* or was wide and no longer is.
LEMMA LessKeepsRoom ==
    ASSUME NEW cs, AllShaped(cs), Room(cs, 0), NEW c \in Places, cs[c].todo # << >>,
           NEW x, Shaped(x), x.todo \in Wide => cs[c].todo \in Wide,
           NEW new, Replaces(new, cs, c, x)
    PROVE  /\ AllShaped(new) /\ Room(new, 0)
           /\ x.todo = << >> \/ (cs[c].todo \in Wide /\ x.todo \notin Wide) => Room(new, 1)
  <1> DEFINE busy == BusyIn(cs)
             wide == WideIn(cs)
  <1>1. /\ IsFiniteSet(busy) /\ Cardinality(busy) \in Nat
        /\ IsFiniteSet(wide) /\ Cardinality(wide) \in Nat /\ MaxAtOnce \in Nat
    BY PlacesFinite DEF BusyIn, WideIn
  <1>2. /\ x.todo # << >> => BusyIn(new) = busy \cup {c}
        /\ x.todo = << >> => BusyIn(new) = busy \ {c}
        /\ x.todo \in Wide => WideIn(new) = wide \cup {c}
        /\ x.todo \notin Wide => WideIn(new) = wide \ {c}
    BY ReplacedCounts
  <1>3. c \in busy /\ (c \in wide <=> cs[c].todo \in Wide)
    BY DEF BusyIn, WideIn
  <1>4. Cardinality(busy \ {c}) = Cardinality(busy) - 1
    BY <1>1, <1>3, FS_RemoveElement
  <1>5. Cardinality(wide \ {c}) = IF c \in wide THEN Cardinality(wide) - 1 ELSE Cardinality(wide)
    BY <1>1, FS_RemoveElement
  <1>6. << >> \notin Wide
    BY DEF Wide
  <1> HIDE DEF busy, wide
  <1>7. /\ Cardinality(BusyIn(new)) = IF x.todo # << >> THEN Cardinality(busy)
                                      ELSE Cardinality(busy) - 1
        /\ Cardinality(WideIn(new)) =
             IF x.todo \in Wide \/ c \notin wide THEN Cardinality(wide) ELSE Cardinality(wide) - 1
    <2>1. busy \cup {c} = busy
      BY <1>3
    <2>2. x.todo \in Wide => wide \cup {c} = wide
      BY <1>3
    <2> QED
      BY <1>2, <1>4, <1>5, <2>1, <2>2
  <1>8. /\ Room(new, 0)
        /\ x.todo = << >> \/ (cs[c].todo \in Wide /\ x.todo \notin Wide) => Room(new, 1)
    BY <1>1, <1>3, <1>6, <1>7 DEF Room, busy, wide
  <1>9. AllShaped(new)
    BY DEF AllShaped, Replaces
  <1> QED
    BY <1>8, <1>9

LEMMA NewShaped ==
    ASSUME NEW todo \in Scripts, NEW list, NEW overlaps,
           todo = << >> => list = Nothing /\ overlaps = FALSE
    PROVE  Shaped(Call(todo, list, overlaps)) /\ Call(todo, list, overlaps).todo = todo
  <1> DEFINE x == Call(todo, list, overlaps)
  <1>1. DOMAIN x = CallFields /\ x.todo = todo /\ x.at = 1
    BY DEF Call, CallFields
  <1>2. \A f : 1 \in 1 .. Len(Fetches(f))
    BY DEF Fetches
  <1>3. todo = << >> => x = Idle
    BY DEF Idle
  <1> HIDE DEF x
  <1>4. Shaped(x)
    BY <1>1, <1>2, <1>3 DEF Shaped
  <1> QED
    BY <1>1, <1>4 DEF x

LEMMA FirstShapes ==
    /\ Shaped(Idle) /\ Idle.todo = << >>
    /\ \A list, overlaps : /\ Shaped(Call(<< "details" >>, list, overlaps))
                           /\ Call(<< "details" >>, list, overlaps).todo = << "details" >>
    /\ Shaped(Call(<< "activity" >>, Nothing, FALSE))
    /\ Call(<< "activity" >>, Nothing, FALSE).todo = << "activity" >>
    /\ << "details" >> \notin Wide /\ << "activity" >> \notin Wide
    /\ << "details" >> # << >> /\ << "activity" >> # << >>
  <1>1. /\ << >> \in Scripts /\ << "details" >> \in Scripts /\ << "activity" >> \in Scripts
        /\ << "details" >> # << >> /\ << "activity" >> # << >>
    BY DEF Scripts, Singles
  <1>2. << "details" >> \notin Wide /\ << "activity" >> \notin Wide
    BY DEF Wide
  <1> QED
    BY <1>1, <1>2, NewShaped DEF Idle

-----------------------------------------------------------------------------
(* The places are enough *)

ShapeInv == AllShaped(calls) /\ Room(calls, 0)

LEMMA OverlapsKeepShape ==
    ASSUME NEW cs, AllShaped(cs), Room(cs, 0), calls' = WithOverlaps(cs)
    PROVE  ShapeInv'
  <1> DEFINE os == WithOverlaps(cs)
  <1>1. AllShaped(os) /\ BusyIn(os) = BusyIn(cs) /\ WideIn(os) = WideIn(cs)
    BY OverlapsShaped
  <1>2. Room(os, 0)
    BY <1>1 DEF Room
  <1> QED
    BY <1>1, <1>2 DEF ShapeInv

LEMMA ShapeInit == Init => ShapeInv
  <1> SUFFICES ASSUME Init PROVE ShapeInv
    OBVIOUS
  <1> DEFINE x == Call(<< "dashboard" >>, Nothing, FALSE)
  <1>1. << "dashboard" >> \in Scripts /\ << "dashboard" >> # << >> /\ << "dashboard" >> \notin Wide
    BY DEF Scripts, Singles, Wide
  <1>2. Shaped(x) /\ x.todo = << "dashboard" >>
    BY <1>1, NewShaped
  <1>3. Shaped(Idle) /\ Idle.todo = << >> /\ << >> \notin Wide
    BY FirstShapes DEF Wide
  <1> HIDE DEF x
  <1>4. calls = [c \in Places |-> IF c = 1 THEN x ELSE Idle]
    BY DEF Init, x
  <1>5. AllShaped(calls)
    BY <1>2, <1>3, <1>4 DEF AllShaped
  <1>6. BusyIn(calls) = {1} /\ WideIn(calls) = {}
    BY <1>1, <1>2, <1>3, <1>4, ClicksAssumption DEF BusyIn, WideIn, Places
  <1>7. Cardinality({1}) = 1 /\ Cardinality({}) = 0
    BY FS_Singleton, FS_EmptySet
  <1>8. Room(calls, 0)
    BY <1>6, <1>7, ClicksAssumption DEF Room
  <1> QED
    BY <1>5, <1>8 DEF ShapeInv

\* A click is only taken while few calls are at work, so that there is room
\* for the call it starts.
LEMMA ClickRoom ==
    ASSUME ShapeInv, NEW function \in Clicks, Click(function), NEW x
    PROVE  \E more \in {1, 2} : Room(calls, more) /\ (x.todo \in Wide => more = 2)
  <1> DEFINE busy == BusyIn(calls)
             wide == WideIn(calls)
             b    == Cardinality(busy)
             w    == Cardinality(wide)
  <1>1. b < MaxAtOnce
    BY DEF Click, Busy, BusyIn
  <1>2. wide \subseteq busy
    <2>1. << >> \notin Wide
      BY DEF Wide
    <2> QED
      BY <2>1 DEF WideIn, BusyIn
  <1>3. IsFiniteSet(busy) /\ b \in Nat /\ w \in Nat /\ MaxAtOnce \in Nat
    BY PlacesFinite DEF BusyIn, WideIn
  <1>4. w <= b
    BY <1>2, <1>3, FS_Subset
  <1> HIDE DEF b, w
  <1>5. b + w + 2 <= 2 * MaxAtOnce
    BY <1>1, <1>3, <1>4
  <1>6. Room(calls, 2)
    BY <1>5 DEF Room, b, w
  <1> QED
    BY <1>6

LEMMA ClickShape ==
    ASSUME ShapeInv, NEW function \in Clicks, Click(function)
    PROVE  ShapeInv'
  <1> DEFINE todo == << function >> \o FollowedBy(function)
             x    == Call(todo, Nothing, FALSE)
  <1>1. todo \in Scripts /\ todo # << >>
    BY ClickScripts
  <1> HIDE DEF todo
  <1>2. Shaped(x) /\ x.todo # << >>
    BY <1>1, NewShaped
  <1>3. calls' = WithOverlaps(With(calls, x))
    BY DEF Click, todo
  <1>4. PICK more \in {1, 2} : Room(calls, more) /\ (x.todo \in Wide => more = 2)
    BY ClickRoom
  <1> HIDE DEF x
  <1>5. AllShaped(With(calls, x)) /\ Room(With(calls, x), 0)
    BY <1>2, <1>4, AddedKeepsRoom DEF ShapeInv
  <1> QED
    BY <1>3, <1>5, OverlapsKeepShape

\* A function is over: the call has less to run, and there is room for the one
\* it leaves behind.
LEMMA OverShape ==
    ASSUME ShapeInv, NEW c \in Places, Busy(c), NEW todo,
           todo = << >> \/ todo = Tail(calls[c].todo)
    PROVE  LET over == [calls EXCEPT ![c] = Call(todo, Nothing, FALSE)]
           IN  /\ AllShaped(over) /\ Room(over, 0)
               /\ Runs(c) \in {"zones", "dashboard"} => Room(over, 1)
  <1> DEFINE x    == Call(todo, Nothing, FALSE)
             over == [calls EXCEPT ![c] = x]
             rest == calls[c].todo
  <1>1. AllShaped(calls) /\ rest \in Scripts /\ rest # << >>
    BY DEF ShapeInv, AllShaped, Shaped, Busy
  <1>2. /\ Tail(rest) \in Scripts
        /\ Tail(rest) \in Wide => rest \in Wide
        /\ Head(rest) \in {"zones", "dashboard"} =>
             Tail(rest) = << >> \/ (rest \in Wide /\ Tail(rest) \notin Wide)
    BY <1>1, ScriptSteps
  <1>3. << >> \notin Wide /\ << >> \in Scripts
    BY DEF Wide, Scripts
  <1> HIDE DEF rest
  <1>4. /\ todo \in Scripts /\ (todo \in Wide => rest \in Wide)
        /\ Head(rest) \in {"zones", "dashboard"} =>
             todo = << >> \/ (rest \in Wide /\ todo \notin Wide)
    BY <1>2, <1>3 DEF rest
  <1>5. Shaped(x) /\ x.todo = todo
    BY <1>4, NewShaped
  <1>6. Replaces(over, calls, c, x)
    BY <1>1 DEF AllShaped, Replaces
  <1> HIDE DEF x, over
  <1>7. calls[c].todo # << >> /\ (x.todo \in Wide => calls[c].todo \in Wide) /\ Room(calls, 0)
    BY <1>1, <1>4, <1>5 DEF rest, ShapeInv
  <1>8. /\ AllShaped(over) /\ Room(over, 0)
        /\ x.todo = << >> \/ (calls[c].todo \in Wide /\ x.todo \notin Wide) => Room(over, 1)
    BY <1>1, <1>5, <1>6, <1>7, LessKeepsRoom
  <1> QED
    BY <1>4, <1>5, <1>8 DEF rest, Runs, over, x

LEMMA ErrorShape ==
    ASSUME ShapeInv, NEW c \in Places, Busy(c), EndsInError(c)
    PROVE  ShapeInv'
  <1> DEFINE todo == IF Runs(c) \in Handlers THEN << >> ELSE Tail(calls[c].todo)
             over == [calls EXCEPT ![c] = Call(todo, Nothing, FALSE)]
  <1>1. calls' = WithOverlaps(over)
    BY DEF EndsInError
  <1>2. todo = << >> \/ todo = Tail(calls[c].todo)
    OBVIOUS
  <1> HIDE DEF todo
  <1>3. AllShaped(over) /\ Room(over, 0)
    BY <1>2, OverShape
  <1> QED
    BY <1>1, <1>3, OverlapsKeepShape

\* The calls once the function that c runs is over.
Over(c) == [calls EXCEPT ![c] = Call(Tail(calls[c].todo), Nothing, FALSE)]

\* What a function leaves behind gets an idle place.
LEMMA GoesOnShape ==
    ASSUME ShapeInv, NEW c \in Places, Busy(c), NEW last
    PROVE  LET details  == Call(<< "details" >>, last, calls[c].overlaps)
               activity == Call(<< "activity" >>, Nothing, FALSE)
           IN  /\ AllShaped(Over(c))
               /\ AllShaped(GoesOn(c, last)) /\ Room(GoesOn(c, last), 0)
               /\ Runs(c) = "zones" => \E f \in Places :
                    Over(c)[f] = Idle /\ Replaces(GoesOn(c, last), Over(c), f, details)
               /\ Runs(c) = "dashboard" => \E f \in Places :
                    Over(c)[f] = Idle /\ Replaces(GoesOn(c, last), Over(c), f, activity)
               /\ Runs(c) \notin {"zones", "dashboard"} => GoesOn(c, last) = Over(c)
  <1> DEFINE over == Over(c)
             details  == Call(<< "details" >>, last, calls[c].overlaps)
             activity == Call(<< "activity" >>, Nothing, FALSE)
  <1>1. /\ Runs(c) = "zones" => GoesOn(c, last) = With(over, details)
        /\ Runs(c) = "dashboard" => GoesOn(c, last) = With(over, activity)
        /\ Runs(c) \notin {"zones", "dashboard"} => GoesOn(c, last) = over
    BY DEF GoesOn, ListForDetails, Over
  <1>2. /\ AllShaped(over) /\ Room(over, 0)
        /\ Runs(c) \in {"zones", "dashboard"} => Room(over, 1)
    BY OverShape DEF Over
  <1>3. /\ Shaped(details) /\ details.todo # << >> /\ details.todo \notin Wide
        /\ Shaped(activity) /\ activity.todo # << >> /\ activity.todo \notin Wide
    BY FirstShapes, Zenon
  <1> HIDE DEF over, details, activity
  <1>4. ASSUME NEW call \in {details, activity}, Room(over, 1)
        PROVE  /\ AllShaped(With(over, call)) /\ Room(With(over, call), 0)
               /\ \E f \in Places : over[f] = Idle /\ Replaces(With(over, call), over, f, call)
    <2>1. Shaped(call) /\ call.todo # << >> /\ call.todo \notin Wide
      BY <1>3
    <2>2. PICK more \in {1, 2} : more = 1
      OBVIOUS
    <2>3. Room(over, more) /\ (call.todo \in Wide => more = 2)
      BY <1>4, <2>1, <2>2
    <2>4. /\ AllShaped(With(over, call)) /\ Room(With(over, call), 0)
          /\ \E f \in Places : over[f] = Idle /\ With(over, call) = [over EXCEPT ![f] = call]
      BY <1>2, <2>1, <2>3, AddedKeepsRoom
    <2> QED
      BY <1>2, <2>4 DEF AllShaped, Replaces
  <1>5. CASE Runs(c) = "zones"
    BY <1>1, <1>2, <1>4, <1>5 DEF over, details, activity
  <1>6. CASE Runs(c) = "dashboard"
    BY <1>1, <1>2, <1>4, <1>6 DEF over, details, activity
  <1>7. CASE Runs(c) \notin {"zones", "dashboard"}
    BY <1>1, <1>2, <1>7 DEF over, details, activity
  <1> QED
    BY <1>5, <1>6, <1>7

LEMMA EndShape ==
    ASSUME ShapeInv, NEW c \in Places, Busy(c), NEW list, NEW last, Ends(c, list, last)
    PROVE  ShapeInv'
  <1>1. AllShaped(GoesOn(c, last)) /\ Room(GoesOn(c, last), 0)
    BY GoesOnShape
  <1> QED
    BY <1>1, OverlapsKeepShape DEF Ends

\* A call that waits for another fetch of the function it runs.
LEMMA WaitsShape ==
    ASSUME ShapeInv, NEW c \in Places, NEW x, Shaped(x), x.todo = calls[c].todo,
           calls' = [calls EXCEPT ![c] = x]
    PROVE  ShapeInv'
  <1>1. DOMAIN calls = Places /\ AllShaped(calls')
    BY DEF ShapeInv, AllShaped
  <1>2. BusyIn(calls') = BusyIn(calls) /\ WideIn(calls') = WideIn(calls)
    BY <1>1 DEF BusyIn, WideIn
  <1> QED
    BY <1>1, <1>2 DEF ShapeInv, Room

LEMMA ServeShape ==
    ASSUME ShapeInv, NEW c \in Places, Serve(c)
    PROVE  ShapeInv'
  <1> DEFINE x     == calls[c]
             fetch == Fetches(Head(x.todo))[x.at]
             state == IF fetch = "allocateRequest" THEN "refused" ELSE "served"
             seen  == IF Remembered(Head(x.todo)) THEN server' ELSE Nothing
             y     == [x EXCEPT !.state = state, !.answer = seen]
  <1>1. calls' = [calls EXCEPT ![c] = y] /\ Shaped(x) /\ x.todo # << >>
    BY DEF Serve, Runs, IdOfAnswer, Busy, ShapeInv, AllShaped
  <1> HIDE DEF x, state, seen
  <1>2. DOMAIN y = CallFields /\ y.todo = x.todo /\ y.at = x.at
    BY <1>1 DEF Shaped, CallFields
  <1> HIDE DEF y
  <1>3. Shaped(y)
    BY <1>1, <1>2 DEF Shaped
  <1> QED
    BY <1>1, <1>2, <1>3, WaitsShape DEF x

LEMMA SettleShape ==
    ASSUME ShapeInv, NEW c \in Places, Settle(c)
    PROVE  ShapeInv'
  <1> DEFINE x == calls[c]
  <1>1. Shaped(x) /\ x.todo # << >> /\ Busy(c)
    BY DEF Settle, Busy, ShapeInv, AllShaped
  <1>2. CASE /\ ~IsLast(c)
             /\ calls' = [calls EXCEPT ![c].at = @ + 1, ![c].state = "sent",
                                       ![c].answer = Nothing, ![c].list = x.answer]
    <2> DEFINE at == x.at + 1
               y  == [x EXCEPT !.at = at, !.state = "sent", !.answer = Nothing, !.list = x.answer]
    <2>1. calls' = [calls EXCEPT ![c] = y]
      BY <1>2 DEF ShapeInv, AllShaped
    <2>2. at \in 1 .. Len(Fetches(Head(x.todo)))
      <3>1. Len(Fetches(Head(x.todo))) \in {1, 2} /\ x.at # Len(Fetches(Head(x.todo)))
        BY <1>2 DEF Fetches, IsLast
      <3> QED
        BY <1>1, <3>1 DEF Shaped
    <2> HIDE DEF at, x
    <2>3. DOMAIN y = CallFields /\ y.todo = x.todo /\ y.at = at
      BY <1>1 DEF Shaped, CallFields
    <2> HIDE DEF y
    <2>4. Shaped(y)
      BY <1>1, <2>2, <2>3 DEF Shaped
    <2> QED
      BY <2>1, <2>3, <2>4, WaitsShape DEF x
  <1>3. CASE EndsInError(c) \/ Ends(c, x.list, x.answer)
    BY <1>1, <1>3, ErrorShape, EndShape
  <1> QED
    BY <1>2, <1>3 DEF Settle

LEMMA NextShape == ShapeInv /\ [Next]_vars => ShapeInv'
  <1> SUFFICES ASSUME ShapeInv, [Next]_vars PROVE ShapeInv'
    OBVIOUS
  <1>1. CASE HideEarly \/ UNCHANGED vars
    BY <1>1 DEF HideEarly, vars, ShapeInv, Room
  <1>2. ASSUME NEW c \in Places, Fails(c) PROVE ShapeInv'
    BY <1>2, ErrorShape, EndShape DEF Fails
  <1> QED
    BY <1>1, <1>2, ClickShape, ServeShape, SettleShape DEF Next

LEMMA SpecShape == Spec => []ShapeInv
  BY ShapeInit, NextShape, PTL DEF Spec

-----------------------------------------------------------------------------
(* The overlay *)

\* Among the calls cs one is at work that hides the overlay.
Owned(cs) == \E c \in Places : cs[c].todo # << >> /\ ShowsLoading(Head(cs[c].todo))

LEMMA OwnerIs == OverlayHasOwner <=> (overlay => Owned(calls))
  BY DEF OverlayHasOwner, Owned, Busy, Runs

LEMMA OverlapsKeepOwner ==
    ASSUME NEW cs, AllShaped(cs), Owned(cs)
    PROVE  Owned(WithOverlaps(cs))
  <1>1. \A c \in Places : WithOverlaps(cs)[c].todo = cs[c].todo
    BY OverlapsShaped
  <1> QED
    BY <1>1 DEF Owned

\* A new call takes no place of another.
LEMMA AddingKeepsOwner ==
    ASSUME NEW cs, NEW f \in Places, cs[f] = Idle, NEW call, NEW new, Replaces(new, cs, f, call),
           Owned(cs) \/ (call.todo # << >> /\ ShowsLoading(Head(call.todo)))
    PROVE  Owned(new)
  <1>1. Idle.todo = << >>
    BY FirstShapes
  <1>2. CASE Owned(cs)
    <2>1. PICK c \in Places : cs[c].todo # << >> /\ ShowsLoading(Head(cs[c].todo))
      BY <1>2 DEF Owned
    <2>2. c # f
      BY <1>1, <2>1
    <2> QED
      BY <2>1, <2>2 DEF Owned, Replaces
  <1>3. CASE call.todo # << >> /\ ShowsLoading(Head(call.todo))
    BY <1>3 DEF Owned, Replaces
  <1> QED
    BY <1>2, <1>3

\* The overlay that stays shown when a function is over has its owner.
LEMMA OverHasOwner ==
    ASSUME ShapeInv, OverlayHasOwner, NEW c \in Places, Busy(c), HiddenAtEnd(c)
    PROVE  Owned(Over(c))
  <1> DEFINE rest == Tail(calls[c].todo)
             x    == Call(rest, Nothing, FALSE)
             over == Over(c)
  <1>1. x.todo = rest
    BY DEF Call
  <1> HIDE DEF x
  <1>2. DOMAIN calls = Places /\ over[c] = x /\ \A d \in Places \ {c} : over[d] = calls[d]
    BY DEF ShapeInv, AllShaped, Over, x
  <1> HIDE DEF over, rest
  <1>3. CASE ShowsLoading(Runs(c))
    <2>1. Len(calls[c].todo) > 1
      BY <1>3 DEF HiddenAtEnd
    <2>2. calls[c].todo \in Scripts /\ calls[c].todo # << >>
      BY DEF ShapeInv, AllShaped, Shaped, Busy
    <2>3. rest # << >> /\ ShowsLoading(Head(rest))
      BY <2>1, <2>2, ScriptSteps DEF rest
    <2> QED
      BY <1>1, <1>2, <2>3 DEF Owned, over
  <1>4. CASE ~ShowsLoading(Runs(c))
    <2>1. PICK d \in Places : calls[d].todo # << >> /\ ShowsLoading(Head(calls[d].todo))
      BY <1>4 DEF HiddenAtEnd, OverlayHasOwner, Busy, Runs
    <2>2. d # c
      BY <1>4, <2>1 DEF Runs
    <2> QED
      BY <1>2, <2>1, <2>2 DEF Owned, over
  <1> QED
    BY <1>3, <1>4 DEF over

LEMMA ClickOwner ==
    ASSUME ShapeInv, OverlayHasOwner, NEW function \in Clicks, Click(function)
    PROVE  OverlayHasOwner'
  <1> DEFINE todo == << function >> \o FollowedBy(function)
             x    == Call(todo, Nothing, FALSE)
  <1>1. todo \in Scripts /\ todo # << >> /\ Head(todo) = function
    BY ClickScripts
  <1> HIDE DEF todo
  <1>2. Shaped(x) /\ x.todo = todo
    BY <1>1, NewShaped
  <1>3. calls' = WithOverlaps(With(calls, x)) /\ (overlay' => overlay \/ ShowsLoading(function))
    BY DEF Click, todo
  <1>4. PICK more \in {1, 2} : Room(calls, more) /\ (x.todo \in Wide => more = 2)
    BY ClickRoom
  <1> HIDE DEF x
  <1>5. PICK f \in Places : calls[f] = Idle /\ With(calls, x) = [calls EXCEPT ![f] = x]
    BY <1>1, <1>2, <1>4, AddedKeepsRoom DEF ShapeInv
  <1>6. AllShaped(With(calls, x)) /\ Replaces(With(calls, x), calls, f, x)
    <2>1. AllShaped(With(calls, x))
      BY <1>1, <1>2, <1>4, AddedKeepsRoom DEF ShapeInv
    <2> QED
      BY <1>5, <2>1 DEF AllShaped, Replaces, ShapeInv
  <1>7. ASSUME overlay' PROVE Owned(With(calls, x))
    <2>1. Owned(calls) \/ (x.todo # << >> /\ ShowsLoading(Head(x.todo)))
      BY <1>1, <1>2, <1>3, <1>7, OwnerIs
    <2> QED
      BY <1>5, <1>6, <2>1, AddingKeepsOwner
  <1>8. overlay' => Owned(calls')
    BY <1>3, <1>6, <1>7, OverlapsKeepOwner
  <1> QED
    BY <1>8 DEF OverlayHasOwner, Owned, Busy, Runs

LEMMA ErrorOwner ==
    ASSUME ShapeInv, OverlayHasOwner, NEW c \in Places, Busy(c), EndsInError(c)
    PROVE  OverlayHasOwner'
  <1> DEFINE over == Over(c)
  <1>1. CASE Runs(c) \in Handlers
    BY <1>1 DEF EndsInError, OverlayHasOwner
  <1>2. CASE Runs(c) \notin Handlers
    <2>1. calls' = WithOverlaps(over) /\ overlay' = HiddenAtEnd(c)
      BY <1>2 DEF EndsInError, Over
    <2>2. AllShaped(over)
      BY OverShape DEF Over
    <2>3. HiddenAtEnd(c) => Owned(over)
      BY OverHasOwner
    <2> HIDE DEF over
    <2>4. overlay' => Owned(calls')
      BY <2>1, <2>2, <2>3, OverlapsKeepOwner
    <2> QED
      BY <2>4 DEF OverlayHasOwner, Owned, Busy, Runs
  <1> QED
    BY <1>1, <1>2

LEMMA EndOwner ==
    ASSUME ShapeInv, OverlayHasOwner, NEW c \in Places, Busy(c), NEW list, NEW last,
           Ends(c, list, last)
    PROVE  OverlayHasOwner'
  <1>1. calls' = WithOverlaps(GoesOn(c, last)) /\ overlay' = HiddenAtEnd(c)
    BY DEF Ends
  <1>2. ASSUME HiddenAtEnd(c) PROVE Owned(GoesOn(c, last))
    <2>1. PICK over : /\ Owned(over) /\ AllShaped(over)
                      /\ \/ GoesOn(c, last) = over
                         \/ \E f \in Places : \E call : over[f] = Idle
                              /\ Replaces(GoesOn(c, last), over, f, call)
      BY <1>2, GoesOnShape, OverHasOwner
    <2> QED
      BY <2>1, AddingKeepsOwner
  <1>3. AllShaped(GoesOn(c, last))
    BY GoesOnShape
  <1>4. overlay' => Owned(calls')
    BY <1>1, <1>2, <1>3, OverlapsKeepOwner
  <1> QED
    BY <1>4 DEF OverlayHasOwner, Owned, Busy, Runs

\* The functions that calls run are the same.
LEMMA SameOwner ==
    ASSUME OverlayHasOwner, overlay' = overlay, \A c \in Places : calls'[c].todo = calls[c].todo
    PROVE  OverlayHasOwner'
  BY DEF OverlayHasOwner, Busy, Runs

LEMMA NextOwner == ShapeInv /\ OverlayHasOwner /\ [Next]_vars => OverlayHasOwner'
  <1> SUFFICES ASSUME ShapeInv, OverlayHasOwner, [Next]_vars PROVE OverlayHasOwner'
    OBVIOUS
  <1>1. CASE HideEarly
    BY <1>1 DEF HideEarly, OverlayHasOwner
  <1>2. CASE UNCHANGED vars
    BY <1>2 DEF vars, OverlayHasOwner, Busy, Runs
  <1>3. /\ DOMAIN calls = Places
        /\ \A c \in Places : CallFields = DOMAIN calls[c]
    BY DEF ShapeInv, AllShaped, Shaped
  <1>4. ASSUME NEW c \in Places, Serve(c) PROVE OverlayHasOwner'
    <2>1. PICK state, seen : calls' = [calls EXCEPT ![c].state = state, ![c].answer = seen]
      BY <1>4 DEF Serve
    <2>2. \A d \in Places : calls'[d].todo = calls[d].todo
      BY <1>3, <2>1 DEF CallFields
    <2> QED
      BY <1>4, <2>2, SameOwner DEF Serve
  <1>5. ASSUME NEW c \in Places, Settle(c) PROVE OverlayHasOwner'
    <2>1. CASE calls' = [calls EXCEPT ![c].at = @ + 1, ![c].state = "sent",
                                      ![c].answer = Nothing, ![c].list = calls[c].answer]
               /\ UNCHANGED overlay
      <3>1. \A d \in Places : calls'[d].todo = calls[d].todo
        BY <1>3, <2>1 DEF CallFields
      <3> QED
        BY <2>1, <3>1, SameOwner
    <2>2. CASE EndsInError(c) \/ Ends(c, calls[c].list, calls[c].answer)
      BY <1>5, <2>2, ErrorOwner, EndOwner DEF Settle
    <2> QED
      BY <1>5, <2>1, <2>2 DEF Settle
  <1>6. ASSUME NEW c \in Places, Fails(c) PROVE OverlayHasOwner'
    BY <1>6, ErrorOwner, EndOwner DEF Fails
  <1> QED
    BY <1>1, <1>2, <1>4, <1>5, <1>6, ClickOwner DEF Next

\* While the overlay is shown a call is at work that hides it in the end: it is
\* never left over, however the calls that share it begin, fail and overlap
\* (app.js:180-233, 354-366, 453-487, 716-748).
THEOREM OverlayIsOwned == Spec => []OverlayHasOwner
  <1>1. Init => OverlayHasOwner
    <2> SUFFICES ASSUME Init PROVE OverlayHasOwner
      OBVIOUS
    <2>1. 1 \in Places
      BY ClicksAssumption DEF Places
    <2>2. calls[1].todo = << "dashboard" >>
      BY <2>1 DEF Init, Call
    <2>3. Busy(1) /\ ShowsLoading(Runs(1))
      BY <2>2 DEF Busy, Runs, ShowsLoading
    <2> QED
      BY <2>1, <2>3 DEF OverlayHasOwner
  <1> QED
    BY <1>1, SpecShape, NextOwner, PTL DEF Spec

-----------------------------------------------------------------------------
(* The zones shown *)

Leq(a, b) == a.zones <= b.zones /\ a.requests <= b.requests

\* a is what the server had, now that it is s, or nothing.
Seen(a, s) == a \in Snapshots /\ Leq(Nothing, a) /\ Leq(a, s)

\* A load of zones that overlaps no other, while z is shown: what it was served
\* is no older than z.  Details are never older than the list they were for.
LoadOK(x, s, z) ==
    LoadsZones(x) =>
      /\ Head(x.todo) = "zones" /\ x.state = "served" =>
           Seen(x.answer, s) /\ (~x.overlaps => Leq(z, x.answer))
      /\ Head(x.todo) = "details" =>
           /\ Seen(x.list, s) /\ (~x.overlaps => Leq(z, x.list))
           /\ x.state = "served" => Seen(x.answer, s) /\ Leq(x.list, x.answer)

LoadsOK(cs, s, z) == \A c \in Places : LoadOK(cs[c], s, z)

\* Of two loads each overlaps another.
Apart(cs) ==
    \A c \in Places : \A d \in Places \ {c} :
      LoadsZones(cs[c]) /\ LoadsZones(cs[d]) => cs[c].overlaps

ZonesInv ==
    /\ server \in Snapshots /\ Seen(shown.zones, server)
    /\ DOMAIN shown = {"zones", "stats"}
    /\ LoadsOK(calls, server, shown.zones)
    /\ Apart(calls)

LEMMA LeqTransitive ==
    ASSUME NEW a \in Snapshots, NEW b \in Snapshots, NEW c \in Snapshots, Leq(a, b), Leq(b, c)
    PROVE  Leq(a, c)
  BY DEF Leq, Snapshots

\* Remembering overlaps makes all loads overlap that do.
LEMMA OverlapsApart ==
    ASSUME NEW cs, AllShaped(cs), NEW s, NEW z, LoadsOK(cs, s, z)
    PROVE  LoadsOK(WithOverlaps(cs), s, z) /\ Apart(WithOverlaps(cs))
  <1> DEFINE overlaps(c) == LoadsZones(cs[c])
                /\ (cs[c].overlaps \/ \E d \in Places \ {c} : LoadsZones(cs[d]))
             os == WithOverlaps(cs)
  <1>1. os = [c \in Places |-> [cs[c] EXCEPT !.overlaps = overlaps(c)]]
    BY DEF WithOverlaps
  <1> HIDE DEF overlaps, os
  <1>2. ASSUME NEW c \in Places
        PROVE  /\ os[c].todo = cs[c].todo /\ os[c].state = cs[c].state
               /\ os[c].answer = cs[c].answer /\ os[c].list = cs[c].list
               /\ os[c].overlaps = overlaps(c)
    BY <1>1 DEF AllShaped, Shaped, CallFields
  <1>3. \A c \in Places : LoadsZones(os[c]) <=> LoadsZones(cs[c])
    BY <1>2 DEF LoadsZones
  <1>4. ASSUME NEW c \in Places, LoadsZones(cs[c])
        PROVE  ~os[c].overlaps => ~cs[c].overlaps
    BY <1>2, <1>4 DEF overlaps
  <1>5. LoadsOK(os, s, z)
    BY <1>2, <1>3, <1>4 DEF LoadsOK, LoadOK
  <1>6. Apart(os)
    BY <1>2, <1>3 DEF Apart, overlaps
  <1> QED
    BY <1>5, <1>6 DEF os

\* A call that is put in a place.
LEMMA ReplacedLoads ==
    ASSUME NEW cs, NEW c \in Places, NEW x, NEW new, Replaces(new, cs, c, x),
           NEW s, NEW z, \A d \in Places \ {c} : LoadOK(cs[d], s, z), LoadOK(x, s, z)
    PROVE  LoadsOK(new, s, z)
  BY DEF LoadsOK, Replaces

\* A new call loads nothing yet, unless it fetches details.
LEMMA NewLoadOK ==
    ASSUME NEW todo, NEW list, NEW overlaps, NEW s, NEW z, todo # << >> => Head(todo) # "details"
    PROVE  LoadOK(Call(todo, list, overlaps), s, z)
  BY DEF LoadOK, Call, LoadsZones

LEMMA NothingSeen ==
    ASSUME NEW s \in Snapshots, NEW a, Seen(a, s)
    PROVE  Seen(Nothing, s) /\ Leq(Nothing, a)
  BY LeqTransitive DEF Seen, Nothing, Snapshots, Leq

LEMMA ZonesInit == Init => ZonesInv
  <1> SUFFICES ASSUME Init PROVE ZonesInv
    OBVIOUS
  <1>1. server \in Snapshots /\ Seen(shown.zones, server) /\ DOMAIN shown = {"zones", "stats"}
    BY DEF Init, Snapshots, Seen, Leq, Nothing
  <1>2. \A c \in Places : ~LoadsZones(calls[c])
    BY DEF Init, LoadsZones, Idle, Call
  <1> QED
    BY <1>1, <1>2 DEF ZonesInv, LoadsOK, LoadOK, Apart

\* What the server has only grows.
LEMMA SeenKeeps ==
    ASSUME NEW s \in Snapshots, NEW t \in Snapshots, Leq(s, t), NEW a, Seen(a, s)
    PROVE  Seen(a, t)
  BY LeqTransitive DEF Seen

LEMMA ClickZones ==
    ASSUME ShapeInv, ZonesInv, NEW function \in Clicks, Click(function)
    PROVE  ZonesInv'
  <1> DEFINE todo == << function >> \o FollowedBy(function)
             x    == Call(todo, Nothing, FALSE)
             new  == With(calls, x)
             z    == shown.zones
  <1>1. todo \in Scripts /\ todo # << >> /\ Head(todo) = function /\ function # "details"
    BY ClickScripts, ClicksAssumption
  <1> HIDE DEF todo
  <1>2. Shaped(x) /\ x.todo = todo
    BY <1>1, NewShaped
  <1>3. calls' = WithOverlaps(new) /\ server' = server /\ shown' = shown
    BY DEF Click, todo
  <1>4. LoadOK(x, server, z)
    BY <1>1, NewLoadOK
  <1>5. PICK more \in {1, 2} : Room(calls, more) /\ (x.todo \in Wide => more = 2)
    BY ClickRoom
  <1> HIDE DEF x
  <1>6. PICK f \in Places : calls[f] = Idle /\ new = [calls EXCEPT ![f] = x]
    BY <1>1, <1>2, <1>5, AddedKeepsRoom DEF ShapeInv
  <1>7. AllShaped(new)
    BY <1>1, <1>2, <1>5, AddedKeepsRoom DEF ShapeInv
  <1>8. Replaces(new, calls, f, x)
    BY <1>6, <1>7 DEF AllShaped, Replaces, ShapeInv
  <1> HIDE DEF new, z
  <1>9. LoadsOK(new, server, z)
    BY <1>4, <1>8, ReplacedLoads DEF ZonesInv, LoadsOK, z
  <1>10. LoadsOK(calls', server, z) /\ Apart(calls')
    BY <1>3, <1>7, <1>9, OverlapsApart
  <1> QED
    BY <1>3, <1>10 DEF ZonesInv, z

LEMMA ServeZones ==
    ASSUME ShapeInv, ZonesInv, NEW c \in Places, Serve(c)
    PROVE  ZonesInv'
  <1> DEFINE x     == calls[c]
             fetch == Fetches(Head(x.todo))[x.at]
             state == IF fetch = "allocateRequest" THEN "refused" ELSE "served"
             seen  == IF Remembered(Head(x.todo)) THEN server' ELSE Nothing
             y     == [x EXCEPT !.state = state, !.answer = seen]
             z     == shown.zones
  <1>1. calls' = [calls EXCEPT ![c] = y] /\ Shaped(x) /\ DOMAIN calls = Places
        /\ shown' = shown
    BY DEF Serve, Runs, IdOfAnswer, Busy, ShapeInv, AllShaped
  <1>2. server' \in Snapshots /\ Leq(server, server')
    <2>1. \/ server' = server \/ server' = [server EXCEPT !.requests = @ + 1]
          \/ server' = [server EXCEPT !.zones = @ + 1]
      BY DEF Serve, Runs
    <2> QED
      BY <2>1 DEF Snapshots, Leq, ZonesInv
  <1>3. Seen(z, server') /\ Seen(server', server')
    <2>1. Seen(z, server')
      BY <1>2, SeenKeeps DEF ZonesInv
    <2>2. Leq(Nothing, server')
      BY <1>2, <2>1, LeqTransitive DEF Seen, Snapshots, Nothing
    <2> QED
      BY <1>2, <2>1, <2>2 DEF Seen, Leq, Snapshots
  <1>4. \A d \in Places : LoadOK(calls[d], server', z)
    <2> SUFFICES ASSUME NEW d \in Places PROVE LoadOK(calls[d], server', z)
      OBVIOUS
    <2>1. LoadOK(calls[d], server, z) /\ server \in Snapshots
      BY DEF ZonesInv, LoadsOK
    <2>2. \A a : Seen(a, server) => Seen(a, server')
      BY <1>2, <2>1, SeenKeeps
    <2> QED
      BY <2>1, <2>2 DEF LoadOK
  <1>5. Head(x.todo) \in {"zones", "details"} => seen = server'
    BY DEF Remembered
  <1> HIDE DEF state, seen, x
  <1>6. /\ y.todo = x.todo /\ y.list = x.list /\ y.overlaps = x.overlaps
        /\ y.state = state /\ y.answer = seen
    BY <1>1 DEF Shaped, CallFields
  <1> HIDE DEF y, z
  <1>7. LoadOK(y, server', z)
    <2>1. LoadOK(x, server', z)
      BY <1>4 DEF x
    <2>2. \A a : Seen(a, server') => Leq(a, server')
      BY DEF Seen
    <2> QED
      BY <1>3, <1>5, <1>6, <2>1, <2>2 DEF LoadOK, LoadsZones
  <1>8. LoadsOK(calls', server', z)
    BY <1>1, <1>4, <1>7 DEF LoadsOK
  <1>9. Apart(calls')
    <2>1. \A d \in Places : calls'[d].todo = calls[d].todo /\ calls'[d].overlaps = calls[d].overlaps
      BY <1>1, <1>6 DEF x
    <2> QED
      BY <2>1 DEF Apart, LoadsZones, ZonesInv
  <1> QED
    BY <1>1, <1>2, <1>3, <1>8, <1>9 DEF ZonesInv, z

\* The zones shown go back to an older state only by a load that overlapped.
BackOnlyByOverlap ==
    /\ shown'.zones # Nothing
    /\ \/ shown'.zones.requests < shown.zones.requests
       \/ shown'.zones.zones < shown.zones.zones
    => \E c \in Places : calls[c].overlaps /\ calls'[c] # calls[c]

LEMMA ForwardIsFine ==
    ASSUME ZonesInv, Seen(shown'.zones, server'), Leq(shown.zones, shown'.zones)
    PROVE  BackOnlyByOverlap
  BY DEF BackOnlyByOverlap, Leq, ZonesInv, Seen, Snapshots

\* A function is over, and none of the calls fetches more zones than before.
LEMMA OverLoads ==
    ASSUME ShapeInv, NEW c \in Places, Busy(c), NEW z,
           \A d \in Places \ {c} : LoadOK(calls[d], server, z),
           NEW todo, todo = << >> \/ todo = Tail(calls[c].todo)
    PROVE  LoadsOK([calls EXCEPT ![c] = Call(todo, Nothing, FALSE)], server, z)
  <1> DEFINE x    == Call(todo, Nothing, FALSE)
             over == [calls EXCEPT ![c] = x]
             rest == calls[c].todo
  <1>1. rest \in Scripts /\ rest # << >> /\ DOMAIN calls = Places
    BY DEF ShapeInv, AllShaped, Shaped, Busy
  <1>2. Tail(rest) # << >> => Head(Tail(rest)) # "details"
    BY <1>1, ScriptSteps
  <1>3. LoadOK(x, server, z)
    BY <1>2, NewLoadOK
  <1> HIDE DEF x
  <1>4. Replaces(over, calls, c, x)
    BY <1>1 DEF Replaces
  <1> HIDE DEF over
  <1>5. LoadsOK(over, server, z)
    BY <1>3, <1>4, ReplacedLoads
  <1> QED
    BY <1>5 DEF over, x

LEMMA ErrorZones ==
    ASSUME ShapeInv, ZonesInv, NEW c \in Places, Busy(c), EndsInError(c), server' = server
    PROVE  ZonesInv' /\ BackOnlyByOverlap
  <1> DEFINE todo == IF Runs(c) \in Handlers THEN << >> ELSE Tail(calls[c].todo)
             over == [calls EXCEPT ![c] = Call(todo, Nothing, FALSE)]
             z    == shown'.zones
  <1>1. calls' = WithOverlaps(over)
    BY DEF EndsInError
  <1>2. (z = shown.zones \/ z = Nothing) /\ DOMAIN shown' = {"zones", "stats"}
    <2>1. shown' = shown \/ shown' = [shown EXCEPT !.zones = Nothing]
      BY DEF EndsInError
    <2> QED
      BY <2>1 DEF ZonesInv
  <1>3. Seen(z, server') /\ (\A a : Seen(a, server) => Leq(Nothing, a))
    BY <1>2, NothingSeen DEF ZonesInv
  <1> HIDE DEF z
  <1>4. \A d \in Places : LoadOK(calls[d], server, z)
    BY <1>2, <1>3 DEF ZonesInv, LoadsOK, LoadOK
  <1>5. todo = << >> \/ todo = Tail(calls[c].todo)
    OBVIOUS
  <1> HIDE DEF todo
  <1>6. AllShaped(over) /\ LoadsOK(over, server, z)
    BY <1>4, <1>5, OverShape, OverLoads
  <1> HIDE DEF over
  <1>7. LoadsOK(calls', server, z) /\ Apart(calls')
    BY <1>1, <1>6, OverlapsApart
  <1>8. ZonesInv'
    BY <1>2, <1>3, <1>7 DEF ZonesInv, z
  <1>9. BackOnlyByOverlap
    <2>1. CASE z = shown.zones
      BY <2>1 DEF BackOnlyByOverlap, z, ZonesInv, Seen, Snapshots
    <2>2. CASE z = Nothing
      BY <2>2 DEF BackOnlyByOverlap, z
    <2> QED
      BY <1>2, <2>1, <2>2
  <1> QED
    BY <1>8, <1>9

LEMMA EndZones ==
    ASSUME ShapeInv, ZonesInv, NEW c \in Places, Busy(c), NEW list, NEW last,
           Ends(c, list, last), server' = server,
           Runs(c) \in {"zones", "details"} =>
             Seen(last, server) /\ (~calls[c].overlaps => Leq(shown.zones, last))
    PROVE  ZonesInv' /\ BackOnlyByOverlap
  <1> DEFINE z        == shown'.zones
             x        == calls[c]
             details  == Call(<< "details" >>, last, x.overlaps)
             activity == Call(<< "activity" >>, Nothing, FALSE)
             new      == GoesOn(c, last)
  <1>1. /\ Runs(c) = "details" => z = last
        /\ Runs(c) # "details" => z = shown.zones
        /\ DOMAIN shown' = {"zones", "stats"}
    <2>1. /\ Runs(c) = "details" => shown' = [shown EXCEPT !.zones = last]
          /\ Runs(c) # "details" => shown' = shown \/ \E stats : shown' = [shown EXCEPT !.stats = stats]
      BY DEF Ends
    <2> QED
      BY <2>1 DEF ZonesInv
  <1>2. Seen(z, server')
    BY <1>1 DEF ZonesInv
  <1> HIDE DEF z
  <1>3. \A d \in Places \ {c} : LoadOK(calls[d], server, z)
    <2>1. CASE Runs(c) = "details"
      <3>1. LoadsZones(calls[c])
        BY <2>1 DEF LoadsZones, Busy, Runs
      <3>2. \A d \in Places \ {c} : LoadsZones(calls[d]) => calls[d].overlaps
        BY <3>1 DEF ZonesInv, Apart
      <3> QED
        BY <3>2 DEF ZonesInv, LoadsOK, LoadOK
    <2>2. CASE Runs(c) # "details"
      BY <1>1, <2>2 DEF ZonesInv, LoadsOK
    <2> QED
      BY <2>1, <2>2
  <1>4. LoadsOK(Over(c), server, z)
    BY <1>3, OverLoads DEF Over
  <1>5. LoadOK(activity, server, z)
    <2>1. Head(<< "activity" >>) # "details"
      OBVIOUS
    <2> QED
      BY <2>1, NewLoadOK, Zenon
  <1>6. Runs(c) = "zones" => LoadOK(details, server, z)
    BY <1>1 DEF LoadOK, Call, LoadsZones
  <1>7. /\ AllShaped(new)
        /\ \/ new = Over(c)
           \/ \E f \in Places : Replaces(new, Over(c), f, activity)
           \/ Runs(c) = "zones" /\ \E f \in Places : Replaces(new, Over(c), f, details)
    BY GoesOnShape
  <1> HIDE DEF details, activity, new
  <1>8. LoadsOK(new, server, z)
    BY <1>4, <1>5, <1>6, <1>7, ReplacedLoads DEF LoadsOK
  <1>9. LoadsOK(calls', server, z) /\ Apart(calls')
    BY <1>7, <1>8, OverlapsApart DEF Ends, new
  <1>10. ZonesInv'
    BY <1>1, <1>2, <1>9 DEF ZonesInv, z
  <1>11. BackOnlyByOverlap
    <2>1. CASE Runs(c) # "details"
      BY <1>1, <2>1 DEF BackOnlyByOverlap, z, ZonesInv, Seen, Snapshots
    <2>2. CASE Runs(c) = "details" /\ ~x.overlaps
      BY <1>1, <1>2, <2>2, ForwardIsFine DEF z
    <2>3. CASE Runs(c) = "details" /\ x.overlaps
      <3>1. x.todo \in Scripts /\ x.todo # << >> /\ DOMAIN calls = Places
        BY DEF ShapeInv, AllShaped, Shaped, Busy
      <3>2. Tail(x.todo) = << >>
        BY <2>3, <3>1, ScriptSteps DEF Runs
      <3>3. new = Over(c) /\ Over(c)[c].todo = << >>
        BY <2>3, <3>1, <3>2, GoesOnShape DEF new, Over, Call
      <3>4. calls'[c].todo = << >>
        BY <1>7, <3>3, OverlapsShaped DEF Ends, new
      <3> QED
        BY <2>3, <3>1, <3>4 DEF BackOnlyByOverlap
    <2> QED
      BY <2>1, <2>2, <2>3
  <1> QED
    BY <1>10, <1>11

\* The zones and the details are served by one fetch each.
LEMMA OneFetch ==
    ASSUME ShapeInv, NEW c \in Places, Busy(c), Runs(c) \in {"zones", "details"}
    PROVE  IsLast(c) /\ LoadsZones(calls[c])
  <1>1. Len(Fetches(Runs(c))) = 1
    BY DEF Fetches
  <1>2. calls[c].at \in 1 .. Len(Fetches(Runs(c)))
    BY DEF ShapeInv, AllShaped, Shaped, Busy, Runs
  <1> QED
    BY <1>1, <1>2 DEF IsLast, LoadsZones, Busy, Runs

LEMMA SettleZones ==
    ASSUME ShapeInv, ZonesInv, NEW c \in Places, Settle(c)
    PROVE  ZonesInv' /\ BackOnlyByOverlap
  <1> DEFINE x == calls[c]
  <1>1. /\ server' = server /\ Busy(c) /\ x.todo # << >> /\ x.state = "served"
        /\ LoadOK(x, server, shown.zones)
    BY DEF Settle, Busy, ZonesInv, LoadsOK
  <1>2. CASE /\ ~IsLast(c) /\ UNCHANGED shown
             /\ calls' = [calls EXCEPT ![c].at = @ + 1, ![c].state = "sent",
                                       ![c].answer = Nothing, ![c].list = x.answer]
    <2>1. ~LoadsZones(calls[c])
      BY <1>1, <1>2, OneFetch DEF LoadsZones, Runs
    <2>2. \A d \in Places : /\ d # c => calls'[d] = calls[d]
                            /\ calls'[d].todo = calls[d].todo
                            /\ calls'[d].overlaps = calls[d].overlaps
      BY <1>2 DEF ShapeInv, AllShaped, Shaped, CallFields
    <2>3. \A d \in Places : LoadsZones(calls'[d]) => LoadsZones(calls[d]) /\ d # c
      BY <2>1, <2>2 DEF LoadsZones
    <2>4. LoadsOK(calls', server, shown.zones)
      BY <2>2, <2>3 DEF LoadsOK, LoadOK, ZonesInv
    <2>5. Apart(calls')
      BY <2>2, <2>3 DEF Apart, ZonesInv
    <2> QED
      BY <1>1, <1>2, <2>4, <2>5 DEF ZonesInv, BackOnlyByOverlap, Seen, Snapshots
  <1>3. CASE EndsInError(c)
    BY <1>1, <1>3, ErrorZones
  <1>4. CASE Ends(c, x.list, x.answer)
    <2>1. Runs(c) \in {"zones", "details"} =>
            Seen(x.answer, server) /\ (~x.overlaps => Leq(shown.zones, x.answer))
      <3>1. CASE Runs(c) = "zones"
        BY <1>1, <3>1 DEF LoadOK, LoadsZones, Runs
      <3>2. CASE Runs(c) = "details"
        <4>1. /\ Seen(x.list, server) /\ Seen(x.answer, server) /\ Leq(x.list, x.answer)
              /\ ~x.overlaps => Leq(shown.zones, x.list)
          BY <1>1, <3>2 DEF LoadOK, LoadsZones, Runs
        <4>2. shown.zones \in Snapshots /\ x.list \in Snapshots /\ x.answer \in Snapshots
          BY <4>1 DEF Seen, ZonesInv
        <4> QED
          BY <4>1, <4>2, LeqTransitive
      <3> QED
        BY <3>1, <3>2
    <2> QED
      BY <1>1, <1>4, <2>1, EndZones
  <1> QED
    BY <1>2, <1>3, <1>4 DEF Settle

LEMMA FailsZones ==
    ASSUME ShapeInv, ZonesInv, NEW c \in Places, Fails(c)
    PROVE  ZonesInv' /\ BackOnlyByOverlap
  <1> DEFINE x    == calls[c]
             last == IF Runs(c) = "details" THEN x.list ELSE Nothing
  <1>1. server' = server /\ Busy(c) /\ x.todo # << >> /\ LoadOK(x, server, shown.zones)
    BY DEF Fails, Busy, ZonesInv, LoadsOK
  <1>2. CASE IsOptional(Runs(c), x.at)
    <2>1. Ends(c, x.list, last) /\ Runs(c) # "zones"
      BY <1>2 DEF Fails, IsOptional
    <2>2. Runs(c) = "details" =>
            Seen(x.list, server) /\ (~x.overlaps => Leq(shown.zones, x.list))
      BY <1>1 DEF LoadOK, LoadsZones, Runs
    <2>3. Runs(c) \in {"zones", "details"} =>
            Seen(last, server) /\ (~calls[c].overlaps => Leq(shown.zones, last))
      BY <2>1, <2>2
    <2> HIDE DEF last
    <2> QED
      BY <1>1, <2>1, <2>3, EndZones
  <1>3. CASE ~IsOptional(Runs(c), x.at)
    BY <1>1, <1>3, ErrorZones DEF Fails
  <1> QED
    BY <1>2, <1>3

LEMMA NextZones == ShapeInv /\ ZonesInv /\ [Next]_vars => ZonesInv' /\ [BackOnlyByOverlap]_vars
  <1> SUFFICES ASSUME ShapeInv, ZonesInv, [Next]_vars PROVE ZonesInv' /\ [BackOnlyByOverlap]_vars
    OBVIOUS
  <1>1. CASE UNCHANGED vars
    BY <1>1 DEF vars, ZonesInv, LoadsOK, Apart
  <1>2. shown' = shown => BackOnlyByOverlap
    BY DEF BackOnlyByOverlap, ZonesInv, Seen, Snapshots
  <1>3. CASE HideEarly
    BY <1>2, <1>3 DEF HideEarly, ZonesInv, LoadsOK, Apart
  <1>4. ASSUME NEW function \in Clicks, Click(function) PROVE ZonesInv' /\ BackOnlyByOverlap
    BY <1>2, <1>4, ClickZones DEF Click
  <1>5. ASSUME NEW c \in Places, Serve(c) PROVE ZonesInv' /\ BackOnlyByOverlap
    BY <1>2, <1>5, ServeZones DEF Serve
  <1> QED
    BY <1>1, <1>3, <1>4, <1>5, SettleZones, FailsZones DEF Next

LEMMA SpecZones == Spec => []ZonesInv /\ [][BackOnlyByOverlap]_vars
  BY SpecShape, ZonesInit, NextZones, PTL DEF Spec

\* The zones shown go back to an older state only by a load that overlapped
\* another, or the details another left behind: a load that was alone never
\* takes away what the page showed (app.js:350-382).
THEOREM ZonesGoForward == Spec => ZonesGoBackOnlyByOverlap
  BY SpecZones, PTL DEF ZonesGoBackOnlyByOverlap, BackOnlyByOverlap

-----------------------------------------------------------------------------
(* The types *)

\* What the dashboard counted, and the clicks.
CountInv ==
    /\ shown.stats.taken \in Int /\ shown.stats.taken <= server.requests
    /\ clicks \in 0 .. MaxClicks

LEMMA EndCount ==
    ASSUME IInv, CountInv, NEW c \in Places, NEW list, NEW last, Ends(c, list, last),
           UNCHANGED << server, clicks >>,
           Runs(c) = "dashboard" => list.requests \in Int /\ list.requests <= server.requests
    PROVE  CountInv'
  <1>1. CASE Runs(c) = "dashboard"
    <2> DEFINE stats == [ taken  |-> AnswerTo("zones", list, last).requests,
                          active |-> AnswerTo("requests", list, last).requests,
                          known  |-> last # Nothing ]
    <2>1. shown' = [shown EXCEPT !.stats = stats]
      BY <1>1 DEF Ends
    <2>2. AnswerTo("zones", list, last) = list
      BY DEF AnswerTo, Fetches
    <2>3. stats.taken = list.requests
      BY <2>2
    <2> HIDE DEF stats
    <2>4. shown'.stats.taken = list.requests
      BY <2>1, <2>3 DEF IInv
    <2> QED
      BY <1>1, <2>4 DEF CountInv
  <1>2. CASE Runs(c) # "dashboard"
    <2>1. shown' = shown \/ shown' = [shown EXCEPT !.zones = last]
      BY <1>2 DEF Ends
    <2>2. shown'.stats = shown.stats
      BY <2>1 DEF IInv
    <2> QED
      BY <2>2 DEF CountInv
  <1> QED
    BY <1>1, <1>2

LEMMA ErrorCount ==
    ASSUME IInv, CountInv, NEW c \in Places, EndsInError(c), UNCHANGED << server, clicks >>
    PROVE  CountInv'
  <1>1. shown' = shown \/ shown' = [shown EXCEPT !.zones = Nothing]
    BY DEF EndsInError
  <1>2. shown'.stats = shown.stats
    BY <1>1 DEF IInv
  <1> QED
    BY <1>2 DEF CountInv

LEMMA NextCount == IInv /\ CountInv /\ [Next]_vars => CountInv'
  <1> SUFFICES ASSUME IInv, CountInv, [Next]_vars PROVE CountInv'
    OBVIOUS
  <1>1. CASE HideEarly \/ UNCHANGED vars
    BY <1>1 DEF HideEarly, vars, CountInv
  <1>2. ASSUME NEW function \in Clicks, Click(function) PROVE CountInv'
    BY <1>2, ClicksAssumption DEF Click, CountInv
  <1>3. ASSUME NEW c \in Places, Serve(c) PROVE CountInv'
    <2>1. \/ server' = server \/ server' = [server EXCEPT !.requests = @ + 1]
          \/ server' = [server EXCEPT !.zones = @ + 1]
      BY <1>3 DEF Serve, Runs
    <2>2. server'.requests \in Int /\ server.requests \in Int /\ server.requests <= server'.requests
      BY <2>1 DEF IInv, Snapshots
    <2> QED
      BY <1>3, <2>2 DEF Serve, CountInv
  <1>4. ASSUME NEW c \in Places, Busy(c), calls[c].at = 2
        PROVE  Runs(c) = "dashboard" =>
                 calls[c].list.requests \in Int /\ calls[c].list.requests <= server.requests
    BY <1>4 DEF IInv, CallsOK, CallOK, Busy, Runs
  <1>5. ASSUME NEW c \in Places, Settle(c) PROVE CountInv'
    <2>1. CASE IsLast(c) /\ Ends(c, calls[c].list, calls[c].answer)
      <3>1. Runs(c) = "dashboard" => calls[c].at = 2
        BY <2>1 DEF IsLast, Runs, Fetches
      <3> QED
        BY <1>4, <1>5, <2>1, <3>1, EndCount DEF Settle
    <2>2. CASE EndsInError(c)
      BY <1>5, <2>2, ErrorCount DEF Settle
    <2>3. CASE UNCHANGED shown
      BY <1>5, <2>3 DEF Settle, CountInv
    <2> QED
      BY <1>5, <2>1, <2>2, <2>3 DEF Settle
  <1>6. ASSUME NEW c \in Places, Fails(c) PROVE CountInv'
    <2> DEFINE last == IF Runs(c) = "details" THEN calls[c].list ELSE Nothing
    <2>1. CASE IsOptional(Runs(c), calls[c].at)
      <3>1. Ends(c, calls[c].list, last)
        BY <1>6, <2>1 DEF Fails
      <3>2. Runs(c) = "dashboard" => calls[c].at = 2
        BY <2>1 DEF IsOptional
      <3> HIDE DEF last
      <3> QED
        BY <1>4, <1>6, <3>1, <3>2, EndCount DEF Fails
    <2>2. CASE ~IsOptional(Runs(c), calls[c].at)
      BY <1>6, <2>2, ErrorCount DEF Fails
    <2> QED
      BY <2>1, <2>2
  <1> QED
    BY <1>1, <1>2, <1>3, <1>5, <1>6 DEF Next

\* The types: a call waits for a fetch that its function has, and nothing is
\* shown that the server has not had.
THEOREM PageTypes == Spec => []TypeOK
  <1>1. Init => CountInv
    BY ClicksAssumption DEF Init, CountInv
  <1>2. Spec => []CountInv
    BY <1>1, SpecInv, NextCount, PTL DEF Spec
  <1>3. ShapeInv /\ ZonesInv /\ CountInv => TypeOK
    <2> SUFFICES ASSUME ShapeInv, ZonesInv, CountInv PROVE TypeOK
      OBVIOUS
    <2>1. server \in Snapshots /\ shown.zones \in Snapshots /\ shown.zones.requests <= server.requests
      BY DEF ZonesInv, Seen, Leq
    <2>2. \A c \in Places : Busy(c) => calls[c].at \in 1 .. Len(Fetches(Runs(c)))
      BY DEF ShapeInv, AllShaped, Shaped, Busy, Runs
    <2> QED
      BY <2>1, <2>2 DEF TypeOK, CountInv
  <1> QED
    BY <1>2, <1>3, SpecShape, SpecZones, PTL

=============================================================================
