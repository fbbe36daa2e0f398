------------------------------ MODULE WebPage -------------------------------
(***************************************************************************)
(* The web page (frontend/app.js): its asynchronous functions run side by  *)
(* side, each waiting for one fetch at a time, and share one loading       *)
(* overlay and the containers they render into.                            *)
(*                                                                         *)
(* A call is the list of functions it still has to run, the head running.  *)
(* The server is the number of its zones and of its requests, which only   *)
(* grow; an answer is what they were when the server served the fetch.     *)
(***************************************************************************)
EXTENDS Integers, Sequences, FiniteSets

CONSTANTS
    Clicks,      \* the functions that users start
    MaxClicks,   \* bound: calls that users start, the first load included
    MaxAtOnce    \* bound: calls at work when users have started another

ASSUME ClicksAssumption ==
    /\ Clicks \subseteq { "dashboard", "zones", "requests", "analytics", "select",
                          "newRequest", "allocate", "createZone" }
    /\ MaxClicks \in Nat \ {0} /\ MaxAtOnce \in Nat \ {0}

VARIABLES
    server,      \* the number of zones and of requests at the server
    calls,       \* the calls at work, and places for those to come
    clicks,
    overlay,     \* whether the loading overlay is shown
    timer,       \* whether the timer of init has yet to hide the overlay
    shown,       \* what the containers show; Nothing for no zones
    succeeded    \* how many calls reported that a request was allocated

vars == << server, calls, clicks, overlay, timer, shown, succeeded >>

\* A call leaves behind at most one other that is at work together with it,
\* or two once it is over.
Places == 1 .. 2 * MaxAtOnce

Nothing == [zones |-> -1, requests |-> -1]

Call(todo, list, overlaps) ==
    [ todo |-> todo, at |-> 1, state |-> "sent", answer |-> Nothing, list |-> list,
      overlaps |-> overlaps ]

Idle == Call(<< >>, Nothing, FALSE)

\* The page has started: its first load of the dashboard waits for its first
\* fetch, and the timer that hides the overlay is set.
Init ==
    /\ server = [zones |-> 1, requests |-> 1]
    /\ calls = [c \in Places |-> IF c = 1 THEN Call(<< "dashboard" >>, Nothing, FALSE) ELSE Idle]
    /\ clicks = 1
    /\ overlay = TRUE
    /\ timer = TRUE
    /\ shown = [zones |-> Nothing, stats |-> [taken |-> -1, active |-> -1, known |-> TRUE]]
    /\ succeeded = 0

-----------------------------------------------------------------------------
(* The functions *)

\* A dashboard that counts the requests before it counts the slots.
RequestsFirst(function) ==
    CASE function \in {"dashboard", "activity", "requests"} -> << "requests", "zones" >>
      [] function \in {"newRequest", "allocate"} -> << "postRequest", "allocateRequest" >>
      [] OTHER -> << "zones" >>

\* The fetches of a function, in order.
Fetches(function) ==
    CASE function = "dashboard"                  -> << "zones", "requests" >>
      [] function = "analytics"                  -> << "utilization", "cancellations" >>
      [] function \in {"requests", "activity"}   -> << "requests" >>
      [] function \in {"newRequest", "allocate"} -> << "postRequest", "allocateRequest" >>
      [] function = "createZone"                 -> << "postZone" >>
      [] OTHER                                   -> << "zones" >>

\* The functions a handler awaits once its own fetches are done.
FollowedBy(function) ==
    CASE function = "newRequest" -> << "requests", "dashboard" >>
      [] function = "allocate"   -> << "zones" >>
      [] function = "createZone" -> << "zones", "dashboard" >>
      [] OTHER                   -> << >>

Handlers == {"newRequest", "allocate", "createZone"}

\* The functions that show the overlay and hide it in the end.
ShowsLoading(function) == function \notin {"details", "activity", "select"}

\* A fetch whose failure the function catches and goes on without.
IsOptional(function, at) ==
    \/ function \in {"dashboard", "analytics"} /\ at = 2
    \/ function = "details"

Busy(c) == calls[c].todo # << >>

\* A check that lets a function go on once more after its last fetch.
NeverLast(c) == FALSE

\* The fetch that the call waits for is the last of the function it runs.
IsLast(c) == calls[c].at = Len(Fetches(Head(calls[c].todo)))

Runs(c) == Head(calls[c].todo)

\* The calls that will render the zones: a load, and the details it leaves behind.
LoadsZones(call) == call.todo # << >> /\ Head(call.todo) \in {"zones", "details"}

\* History: the calls that loaded zones at the same time as another.
WithOverlaps(cs) ==
    [ c \in Places |->
        [cs[c] EXCEPT !.overlaps =
            LoadsZones(cs[c]) /\ (@ \/ \E d \in Places \ {c} : LoadsZones(cs[d]))] ]

\* The calls with another one, in the first place that is free.
With(cs, call) ==
    LET free == CHOOSE c \in Places : /\ cs[c] = Idle
                                      /\ \A d \in 1 .. c - 1 : cs[d] # Idle
    IN  [cs EXCEPT ![free] = call]

-----------------------------------------------------------------------------

\* A click starts a function, which runs up to its first fetch.
Click(function) ==
    /\ clicks < MaxClicks
    /\ Cardinality({ c \in Places : Busy(c) }) < MaxAtOnce
    /\ clicks' = clicks + 1
    /\ calls' = WithOverlaps(With(calls, Call(<< function >> \o FollowedBy(function), Nothing, FALSE)))
    /\ overlay' = (overlay \/ ShowsLoading(function))
    /\ UNCHANGED << server, timer, shown, succeeded >>

\* 500 ms after it began, init hides the overlay, whoever shows it.
HideEarly ==
    /\ timer
    /\ timer' = FALSE
    /\ overlay' = FALSE
    /\ UNCHANGED << server, calls, clicks, shown, succeeded >>

\* An id that reaches the page.
IdOfTyped == "id"

\* request.id || request.requestId: the answer to the POST has no JSON content
\* type, so that apiFetch returns its text, which has neither.
IdOfAnswer == "undefined"

\* The functions whose answers the properties look at.
Remembered(function) == function \in {"dashboard", "zones", "details"}

\* The server serves the fetch a call waits for.  Whether a request gets a
\* slot or not, the server answers the same; no route has the id "undefined".
Serve(c) ==
    /\ Busy(c) /\ calls[c].state = "sent"
    /\ LET fetch == Fetches(Runs(c))[calls[c].at]
       IN  /\ server' \in CASE fetch = "postRequest" -> { server, [server EXCEPT !.requests = @ + 1] }
                            [] fetch = "postZone"    -> { [server EXCEPT !.zones = @ + 1] }
                            [] OTHER                 -> { server }
           /\ calls' = [calls EXCEPT
                ![c].state = IF fetch = "allocateRequest" /\ IdOfAnswer = "undefined"
                             THEN "refused" ELSE "served",
                ![c].answer = IF Remembered(Runs(c)) THEN server' ELSE Nothing]
    /\ UNCHANGED << clicks, overlay, timer, shown, succeeded >>

\* A function that does not hide the overlay in the end.
StaysShown(c) == overlay

\* finally: the overlay is hidden, unless the call goes on to a function that
\* shows it again.
HiddenAtEnd(c) == IF ShowsLoading(Runs(c)) THEN Len(calls[c].todo) > 1 ELSE overlay

\* The function a call runs ends with an error: a handler skips what follows,
\* the functions it awaits catch their own errors.
EndsInError(c) ==
    /\ calls' = WithOverlaps([calls EXCEPT ![c] =
                  Call(IF Runs(c) \in Handlers THEN << >> ELSE Tail(@.todo), Nothing, FALSE)])
    /\ overlay' = IF Runs(c) \in Handlers THEN FALSE ELSE HiddenAtEnd(c)
    /\ shown' = IF Runs(c) = "zones" THEN [shown EXCEPT !.zones = Nothing] ELSE shown
    /\ UNCHANGED succeeded

\* Details fetched for the list of zones the page began with.
KeptList(loaded) == [zones |-> 1, requests |-> 1]

\* What the details of the zones are fetched for: the zones just loaded.
ListForDetails(loaded) == loaded

\* A function ends and leaves running what it does not await.
GoesOn(c, last) ==
    LET over == [calls EXCEPT ![c] = Call(Tail(@.todo), Nothing, FALSE)]
    IN  CASE Runs(c) = "zones" ->
               With(over, Call(<< "details" >>, ListForDetails(last), calls[c].overlaps))
          [] Runs(c) = "dashboard" -> With(over, Call(<< "activity" >>, Nothing, FALSE))
          [] OTHER -> over

\* Which of its two answers the dashboard counts slots in, and which requests.
AnswerTo(fetch, list, last) == IF Fetches("dashboard")[1] = fetch THEN list ELSE last

\* The function a call runs has what it fetched, list and last, and renders it.
Ends(c, list, last) ==
    /\ calls' = WithOverlaps(GoesOn(c, last))
    /\ overlay' = HiddenAtEnd(c)
    /\ shown' = CASE Runs(c) = "details" -> [shown EXCEPT !.zones = last]
                  [] Runs(c) = "dashboard" ->
                       [shown EXCEPT !.stats = [ taken  |-> AnswerTo("zones", list, last).requests,
                                                 active |-> AnswerTo("requests", list, last).requests,
                                                 known  |-> last # Nothing ]]
                  [] OTHER -> shown
    /\ succeeded' = succeeded + IF Runs(c) \in {"newRequest", "allocate"} THEN 1 ELSE 0

\* An answer arrives and the function goes on: the check for a missing id ends
\* the function that has it, the other asks for the next thing.
Settle(c) ==
    /\ Busy(c) /\ calls[c].state = "served"
    /\ LET call == calls[c]
           hasNoId == Runs(c) = "allocate" /\ call.at = 1 /\ IdOfAnswer = "undefined"
       IN  \/ /\ ~IsLast(c) /\ ~hasNoId
              /\ calls' = [calls EXCEPT ![c].at = @ + 1, ![c].state = "sent",
                                        ![c].answer = Nothing, ![c].list = call.answer]
              /\ UNCHANGED << overlay, shown, succeeded >>
           \/ hasNoId /\ EndsInError(c)
           \/ IsLast(c) /\ Ends(c, call.list, call.answer)
    /\ UNCHANGED << server, clicks, timer >>

\* A fetch fails: refused by the server, or lost before or after the server
\* served it.
Fails(c) ==
    /\ Busy(c)
    /\ IF IsOptional(Runs(c), calls[c].at)
       THEN Ends(c, calls[c].list, IF Runs(c) = "details" THEN calls[c].list ELSE Nothing)
       ELSE EndsInError(c)
    /\ UNCHANGED << server, clicks, timer >>

Next ==
    \/ \E function \in Clicks : Click(function)
    \/ HideEarly
    \/ \E c \in Places : Serve(c) \/ Settle(c) \/ Fails(c)

Spec == Init /\ [][Next]_vars

\* A fetch is settled in the end: it is served, or fails.
FairSpec == Spec /\ \A c \in Places : WF_vars(Serve(c) \/ Settle(c) \/ Fails(c))

-----------------------------------------------------------------------------

Snapshots == [zones : Int, requests : Int]

\* The types, and nothing is shown that the server has not had.
TypeOK ==
    /\ server \in Snapshots
    /\ \A c \in Places : Busy(c) => calls[c].at \in 1 .. Len(Fetches(Runs(c)))
    /\ shown.zones \in Snapshots /\ shown.zones.requests <= server.requests
    /\ shown.stats.taken <= server.requests
    /\ clicks \in 0 .. MaxClicks

\* The overlay is never left over: while it is shown a call is at work that
\* hides it (app.js:180-233, 354-366, 453-487, 716-748).
OverlayHasOwner ==
    overlay => \E c \in Places : Busy(c) /\ ShowsLoading(Runs(c))

\* The overlay is hidden in the end, however the fetches of overlapping calls
\* end (app.js:230-232, 363-365, 484-486, 745-747).
OverlayGoesAway == overlay ~> ~overlay

\* The dashboard shows no more taken slots than active requests, unless the
\* requests could not be fetched: it asks for the slots first (app.js:185-212).
StatsAgree == shown.stats.known => shown.stats.taken <= shown.stats.active

\* The zones shown go back to an older state only by a load that overlapped
\* another, or the details another left behind (app.js:350-382).
ZonesGoBackOnlyByOverlap ==
    [][ /\ shown'.zones # Nothing
        /\ \/ shown'.zones.requests < shown.zones.requests
           \/ shown'.zones.zones < shown.zones.zones
        => \E c \in Places : calls[c].overlaps /\ calls'[c] # calls[c] ]_vars

\* A request is never reported as allocated although the server has made it:
\* its id does not reach the page (app.js:88-92, 470-474, 726-731,
\* Server.cpp:299).
NoRequestIsConfirmed == succeeded = 0

=============================================================================
