----------------------------- MODULE CrowWorker -----------------------------
(***************************************************************************)
(* One worker thread of the vendored Crow server: the connections it was   *)
(* handed (http_connection.h), their request parser (parser.h), the router *)
(* (routing.h), the CORS middleware of Server.cpp and the worker's timer   *)
(* (task_timer.h).  Each action is one callback of the worker's io_context,*)
(* which runs them one at a time, in any order in which they become ready. *)
(*                                                                         *)
(* A request reaches the parser whole, or its URL is split over two reads. *)
(* A body is present or not; of the headers, only those of CORS are kept.  *)
(***************************************************************************)
EXTENDS Integers, FiniteSets

CONSTANTS
    Connections,   \* connections ever accepted
    Routes,        \* the methods that have a rule, for each URL
    Prefixes,      \* the URLs the first fragment of a URL may look like
    Requests,      \* the requests the client of each connection may send
    MaxRequests    \* bound: requests on each connection

Request == [ method : {"GET", "POST", "PUT", "HEAD", "OPTIONS"}, url : DOMAIN Routes,
             host : BOOLEAN, expect : BOOLEAN, close : BOOLEAN ]

ASSUME ClientAssumption ==
    /\ \A u \in DOMAIN Routes : Prefixes[u] \subseteq DOMAIN Routes
    /\ \A c \in Connections : Requests[c] \subseteq Request
    /\ MaxRequests \in [Connections -> Nat]

VARIABLES
    conn,        \* the Connection objects
    tasks,       \* task_timer::tasks_: the owner of each scheduled deadline
    highestId,   \* task_timer::highest_id_
    robbed       \* history variable: connections whose deadline another cancelled

vars == << conn, tasks, highestId, robbed >>

NoAnswer == [number |-> 0]

\* A Connection before it is accepted: res, task_id_, the parser's request.
\* begun, bad and answer are history variables: the requests that began,
\* whether one was a HEAD without Host, and the last answer sent.
NewConnection ==
    [ at |-> "new", open |-> FALSE, taskId |-> 0, part |-> << >>,
      res |-> [ code |-> 200, body |-> FALSE, completed |-> FALSE,
                skipBody |-> FALSE, cors |-> FALSE ],
      begun |-> 0, bad |-> FALSE, answers |-> 0, answer |-> NoAnswer ]

Init ==
    /\ conn = [ c \in Connections |-> NewConnection ]
    /\ tasks = << >>
    /\ highestId = 0
    /\ robbed = {}

-----------------------------------------------------------------------------
(* crow::response *)

\* response::clear that leaves completed_ as it is.
ClearButCompleted(res) == [res EXCEPT !.code = 200, !.body = FALSE, !.cors = FALSE]

\* response::clear: skip_body is not touched.
Clear(res) == [res EXCEPT !.code = 200, !.body = FALSE, !.completed = FALSE, !.cors = FALSE]

\* res = response(code, body): skip_body is not touched.
Assign(res, code, body) == [Clear(res) EXCEPT !.code = code, !.body = body]

\* response::end without a completion handler.
End(res) ==
    IF res.completed THEN res
    ELSE [res EXCEPT !.completed = TRUE, !.body = @ /\ ~res.skipBody]

\* A response that goes on skipping bodies.
StillSkips(res) == res

\* The rest of end, once the completion handler has sent the answer.
Sent(res) == [res EXCEPT !.skipBody = FALSE]

\* CorsMiddleware::after_handle
AfterHandle(res, method) == IF method = "OPTIONS" THEN res ELSE [res EXCEPT !.cors = TRUE]

\* CorsMiddleware::before_handle
BeforeHandle(res, method) ==
    IF method = "OPTIONS"
    THEN End([res EXCEPT !.code = 200, !.body = TRUE, !.cors = TRUE]) ELSE res

\* What write_header_into_buffer sends: an error without a body gets one.
Answer(number, request, res) ==
    [ number |-> number, request |-> request, code |-> res.code,
      body |-> res.body \/ res.code >= 400, cors |-> res.cors ]

-----------------------------------------------------------------------------
(* Router *)

Matches(method, url) == method \in Routes[url]

\* A router that does not look for the URL under other methods.
AnyMethodUnknown(url) == FALSE

KnownUrl(url) == Routes[url] # {}

\* handle_initial: what was found, and the response as it is then.
HandleInitial(res, method, url) ==
    CASE method = "HEAD" ->
           IF Matches("HEAD", url) \/ Matches("GET", url)
           THEN [found |-> "rule", res |-> [res EXCEPT !.skipBody = TRUE]]
           ELSE [found |-> "none", res |-> End(Assign(res, 404, FALSE))]
      [] method = "OPTIONS" ->
           [found |-> "none", res |-> End(Assign(res, IF KnownUrl(url) THEN 204 ELSE 404, FALSE))]
      [] OTHER ->
           IF Matches(method, url) THEN [found |-> "rule", res |-> res]
           ELSE [ found |-> "catch_all",
                  res |-> [res EXCEPT !.code = IF KnownUrl(url) THEN 405 ELSE 404] ]

\* Router::handle, after which the response is completed.
RouterHandle(res, found) ==
    IF found = "rule" THEN End(Assign(res, 200, TRUE)) ELSE End(res)

-----------------------------------------------------------------------------
(* Parser and connection: x is a Connection, request the one it reads *)

\* The answer is written to the socket, which is open, and res is cleared.
Write(x, request, res) ==
    [x EXCEPT !.res = Clear(res), !.answers = @ + 1, !.answer = Answer(x.begun, request, res)]

\* handle_url, on the part of the URL read so far: what the router finds none
\* for is answered at once.
HandleUrl(x, request, url) ==
    LET initial == HandleInitial(x.res, request.method, url)
    IN  IF initial.found = "none"
        THEN Write(x, request, AfterHandle(initial.res, request.method))
        ELSE [x EXCEPT !.res = initial.res]

Found(x, request, url) == HandleInitial(x.res, request.method, url).found

\* A parser that goes on after the response was completed early.
GoesOn(found) == TRUE

\* parser_.done() in the middle of a request is a parse error: the rest of
\* the read is not parsed and the connection is closed.
Parses(found) == found # "none"

\* handle_header: the interim answer is written, which clears res.
HandleHeader(x, request) ==
    IF request.expect THEN [x EXCEPT !.res = Clear(@)] ELSE x

\* handle, up to complete_request.
Handle(x, request, found) ==
    LET before == BeforeHandle(x.res, request.method)
        after  == AfterHandle(RouterHandle(before, found), request.method)
        sent   == Write(x, request, after)
    IN  IF ~request.host THEN Write(x, request, Assign(x.res, 400, FALSE))
        ELSE IF before.completed THEN Write(x, request, before)
        ELSE [sent EXCEPT !.res = Sent(@)]

\* The message is complete: on_url, on_headers_complete, on_message_complete.
Complete(x, request) ==
    LET found == Found(x, request, request.url)
        url   == HandleUrl(x, request, request.url)
    IN  IF Parses(found)
        THEN [ Handle(HandleHeader(url, request), request, found) EXCEPT
                 !.part = << >>,
                 !.bad = @ \/ (request.method = "HEAD" /\ ~request.host) ]
        ELSE url

-----------------------------------------------------------------------------
(* Deadlines *)

\* The tasks without the one that has the id connection c remembers, and the
\* connections that lose theirs because c remembers an id given out again.
Cancelled(c) == [ i \in DOMAIN tasks \ { conn[c].taskId } |-> tasks[i] ]
Robbed(c) ==
    robbed \cup ({ tasks[i] : i \in DOMAIN tasks \cap { conn[c].taskId } } \ {c})

\* The connection is over: its deadline is cancelled, its socket closed.
CloseConnection(c, x) ==
    /\ conn' = [conn EXCEPT ![c] = [x EXCEPT !.at = "done", !.open = FALSE]]
    /\ tasks' = Cancelled(c)
    /\ robbed' = Robbed(c)
    /\ UNCHANGED highestId

\* A task left where it was.
NoDeadline(c) == Cancelled(c)

\* start_deadline: the old deadline is cancelled, a new one scheduled.
StartDeadline(c) ==
    [ i \in DOMAIN Cancelled(c) \cup {highestId + 1} |->
        IF i = highestId + 1 THEN c ELSE tasks[i] ]

\* start_deadline and do_read.
ReadOn(c, x) ==
    /\ conn' = [conn EXCEPT ![c] = [x EXCEPT !.at = "reading", !.taskId = highestId + 1]]
    /\ tasks' = StartDeadline(c)
    /\ highestId' = highestId + 1
    /\ robbed' = Robbed(c) \ {c}

-----------------------------------------------------------------------------
(* The callbacks *)

\* do_accept: the connection is posted to the worker.
Accept(c) ==
    /\ conn[c].at = "new"
    /\ conn' = [conn EXCEPT ![c].at = "accepted", ![c].open = TRUE]
    /\ UNCHANGED << tasks, highestId, robbed >>

\* start
Start(c) ==
    /\ conn[c].at = "accepted"
    /\ ReadOn(c, conn[c])

Reads(c) == conn[c].at = "reading" /\ conn[c].open

\* The part of a read that completes a request, and what follows.
ReadUntilEnd(c, x, request) ==
    LET y == Complete(x, request)
    IN  IF Parses(Found(x, request, request.url)) /\ ~request.close
        THEN ReadOn(c, y) ELSE CloseConnection(c, y)

\* A read returns a request.
ReadRequest(c, request) ==
    /\ Reads(c)
    /\ conn[c].part = << >>
    /\ conn[c].begun < MaxRequests[c]
    /\ ReadUntilEnd(c, [conn[c] EXCEPT !.begun = @ + 1], request)

\* A read returns the beginning of a request, whose URL is not complete.
ReadBeginning(c, request, prefix) ==
    /\ Reads(c)
    /\ conn[c].part = << >>
    /\ conn[c].begun < MaxRequests[c]
    /\ LET x     == [conn[c] EXCEPT !.begun = @ + 1, !.part = << request >>]
           begun == HandleUrl(x, request, prefix)
       IN  IF Parses(Found(x, request, prefix)) THEN ReadOn(c, begun) ELSE CloseConnection(c, begun)

\* A read returns the rest of a request.
ReadRest(c) ==
    /\ Reads(c)
    /\ conn[c].part # << >>
    /\ ReadUntilEnd(c, conn[c], conn[c].part[1])

\* A read fails: the client closed, or what it sent is no request.
ReadFails(c) ==
    /\ Reads(c)
    /\ CloseConnection(c, conn[c])

\* The read that was pending when the deadline closed the socket: it was
\* aborted, or has data, of which nothing comes: the first use of the socket
\* fails, and handle throws before it calls the router.
ReadAborted(c) ==
    /\ conn[c].at = "reading" /\ ~conn[c].open
    /\ CloseConnection(c, conn[c])

\* A deadline that passes without effect.
LeaveOpen(x) == x

\* The task of start_deadline.
CloseSocket(x) == [x EXCEPT !.open = FALSE]

\* Ids that start again although tasks are scheduled.
ResetId(rest) == 0

\* Ids start again when no task is scheduled.
NextId(rest) == IF DOMAIN rest = {} THEN 0 ELSE highestId

\* process_tasks, the deadlines up to id having passed: a deadline scheduled
\* earlier passes earlier.
Tick(id) ==
    LET fired == { i \in DOMAIN tasks : i <= id }
        rest  == [ i \in DOMAIN tasks \ fired |-> tasks[i] ]
    IN  /\ fired # {} \/ (DOMAIN tasks = {} /\ highestId > 0)
        /\ conn' = [ c \in Connections |->
                       IF \E i \in fired : tasks[i] = c THEN CloseSocket(conn[c]) ELSE conn[c] ]
        /\ tasks' = rest
        /\ highestId' = NextId(rest)
        /\ UNCHANGED robbed

Next ==
    \/ \E c \in Connections :
         \/ Accept(c) \/ Start(c)
         \/ \E request \in Requests[c] :
              \/ ReadRequest(c, request)
              \/ \E prefix \in Prefixes[request.url] : ReadBeginning(c, request, prefix)
         \/ ReadRest(c) \/ ReadFails(c) \/ ReadAborted(c)
    \/ \E id \in {0} \cup DOMAIN tasks : Tick(id)

\* The deadline of connection c passes.
DeadlinePasses(c) ==
    \E id \in DOMAIN tasks : Tick(id) /\ (\E i \in DOMAIN tasks : tasks[i] = c /\ i <= id)

Spec == Init /\ [][Next]_vars

\* The worker runs what is ready, and time passes.
FairSpec ==
    /\ Spec
    /\ \A c \in Connections :
         WF_vars(Start(c)) /\ WF_vars(ReadAborted(c)) /\ WF_vars(DeadlinePasses(c))

-----------------------------------------------------------------------------

\* The types: only a connection at work has an open socket, and no deadline
\* has an id that was not given out.
TypeOK ==
    /\ \A c \in Connections :
         /\ conn[c].at \in {"new", "accepted", "reading", "done"}
         /\ conn[c].open => conn[c].at \in {"accepted", "reading"}
         /\ conn[c].begun \in 0 .. MaxRequests[c]
         /\ conn[c].taskId \in Nat
    /\ highestId \in Nat
    /\ \A i \in DOMAIN tasks : i \in 1 .. highestId /\ tasks[i] \in Connections
    /\ robbed \subseteq Connections

\* The n-th answer on a connection is to the n-th request, and a connection
\* that waits for a request has answered all the others: whatever is answered
\* early, split or refused, no request is answered twice or left out
\* (http_connection.h:112-122, 210-218, 385-426).
AnswersInStep ==
    \A c \in Connections :
        /\ conn[c].answer.number = conn[c].answers
        /\ conn[c].part = << >> => conn[c].answers = conn[c].begun
        /\ conn[c].part # << >> /\ Reads(c) => conn[c].answers + 1 = conn[c].begun

\* What the routes say of a request for a URL.
RoutedCode(request, url) ==
    LET methods == Routes[url]
        served  == request.method \in methods \/ (request.method = "HEAD" /\ "GET" \in methods)
    IN  IF request.method = "OPTIONS" THEN IF methods # {} THEN 204 ELSE 404
        ELSE IF request.method = "HEAD" /\ ~served THEN 404
        ELSE IF ~request.host THEN 400
        ELSE IF served THEN 200
        ELSE IF methods # {} THEN 405 ELSE 404

\* A request is answered as the routes say, whatever was answered on the
\* connection before, except that a HEAD or OPTIONS whose URL is split may be
\* answered for the beginning of its URL, and that an error of the router is
\* lost when the client asks for 100-continue (routing.h:1569-1697,
\* http_connection.h:112-139).
AnsweredAsRouted ==
    \A c \in Connections : conn[c].answers > 0 =>
        LET a == conn[c].answer
        IN  \/ a.code = RoutedCode(a.request, a.request.url)
            \/ /\ a.request.method \in {"HEAD", "OPTIONS"} /\ conn[c].part # << >>
               /\ \E prefix \in Prefixes[a.request.url] : a.code = RoutedCode(a.request, prefix)
            \/ a.code = 200 /\ a.request.expect /\ ~a.body

\* A page of another origin can read every answer but two: to a preflight, which
\* the router answers before the middleware runs, and to a request without
\* Host (Server.cpp:31-58, http_connection.h:112-122, 157-162).
CorsUnlessEarly ==
    \A c \in Connections : conn[c].answers > 0 =>
        LET a == conn[c].answer
        IN  a.cors <=> a.request.method # "OPTIONS" /\ a.code # 400

\* A request that is handled is answered with a body exactly if it is no HEAD,
\* unless an earlier HEAD without Host left skip_body set
\* (http_response.h:191-198, 246-264, routing.h:1601).
BodyUnlessLeaked ==
    \A c \in Connections :
        LET a == conn[c].answer
        IN  /\ conn[c].answers > 0 /\ ~conn[c].bad
            /\ a.code = 200 /\ ~a.request.expect
            => (a.body <=> a.request.method # "HEAD")

\* A connection that waits for its client has a deadline of its own, unless
\* another cancelled it (http_connection.h:485-505, task_timer.h:62-98).
DeadlineUnlessRobbed ==
    \A c \in Connections :
        Reads(c) => c \in robbed \/ \E i \in DOMAIN tasks : tasks[i] = c /\ i = conn[c].taskId

\* A connection loses its deadline only to one that was itself closed by its
\* deadline, or that lost its own: a remembered id is given out again only
\* after its task is gone (task_timer.h:143).
RobbedByTheTimedOut ==
    [][ \A c \in robbed' \ robbed :
          \E d \in Connections \ {c} :
              /\ conn'[d] # conn[d]
              /\ d \in robbed \/ (conn[d].at = "reading" /\ ~conn[d].open) ]_vars

\* A connection that was accepted ends, however silent its client, unless it
\* is left without a deadline (app.h:336, http_connection.h:492-505).
SilentClientsAreClosed ==
    \A c \in Connections :
        conn[c].at # "new" ~> (conn[c].at = "done" \/ c \in robbed)

\* "OPTIONS preflight: Returns 204 with all CORS headers"
\* (CORS_FIX_SUMMARY.md:21).
PreflightCarriesCors ==
    \A c \in Connections :
        conn[c].answers > 0 /\ conn[c].answer.request.method = "OPTIONS"
        => conn[c].answer.cors

=============================================================================
