---------------------------- MODULE HttpServer ----------------------------
(***************************************************************************)
(* The backend's HTTP server (http_api.LocalServer and Handler, over        *)
(* http_io.DeadlineInput), the clients it meets (worker_client.LocalClient  *)
(* or any other program on the loopback), and how it stops (__main__        *)
(* serve).  One main thread accepts; a bounded number of handler threads    *)
(* each read one request, dispatch it and answer; a client may stop         *)
(* anywhere, send a piece at a time, or go away.                            *)
(*                                                                         *)
(* A request is a line, its headers and `size` pieces of body; a reply is   *)
(* a head and a body.  The main thread is interrupted once at most.         *)
(***************************************************************************)
EXTENDS Naturals, FiniteSets

CONSTANTS
  Conns,           \* the connections that may exist at a time, each used again and again
  MaxConnections,  \* slots of the server
  IoSeconds,       \* seconds a whole request may take
  MaxBody,         \* bound: pieces in a body
  Requests         \* the requests clients make

\* What a request asks for, what the server will refuse in it, if anything,
\* and the pieces of its body; a GET has none.
Request == {r \in [target : {"static", "operation"},
                   fault : {"none", "framing", "credential", "body"}, size : 0..MaxBody] :
              r.fault = "body" => r.size > 0}

ASSUME ServerAssumption ==
  /\ IsFiniteSet(Conns)
  /\ MaxConnections \in Nat \ {0}
  /\ IoSeconds \in Nat \ {0}
  /\ MaxBody \in Nat
  /\ Requests \subseteq Request

VARIABLES
  main,     \* the main thread
  taken,    \* the connection it is starting a thread for, as a set
  free,     \* the count of the semaphore
  \* the handler's side of a connection
  phase,    \* where its handling is; "none" without a handler
  read,     \* pieces of the request read so far
  left,     \* seconds left to read it
  done,     \* what the dispatched operation gave; "no" if none was dispatched
  status,   \* of the reply; 0 before there is one
  wire,     \* how much of the reply was written
  \* the client's side
  request,  \* what the client would send
  sent,     \* pieces sent so far
  late,     \* a piece was sent when no second was left
  link,     \* "open", "hungup" by the client, "cut" by the main thread: no more replies
  verdict   \* what the call returned; "calling" until then

reading == <<read, left, sent, late>>
reply == <<done, status, wire>>
client == <<request, link, verdict>>
vars == <<main, taken, free, phase, reading, reply, client>>

-----------------------------------------------------------------------------
Pieces(r) == 2 + r.size

Reading == {"line", "headers", "body", "received"}
Holding == Reading \cup {"starting", "checked", "dispatch", "respond", "closing"}
Running == {"serving", "starting", "started"}
Phases == Holding \cup {"none", "backlog"}
Closed(c) == phase[c] = "none"

TypeOK ==
  /\ main \in Running \cup {"closing", "closed"}
  /\ taken \in SUBSET Conns
  /\ free \in 0..MaxConnections
  /\ phase \in [Conns -> Phases]
  /\ read \in [Conns -> 0..(2 + MaxBody)]
  /\ left \in [Conns -> 0..IoSeconds]
  /\ done \in [Conns -> {"no", "success", "problem"}]
  /\ status \in [Conns -> {0, 200, 400, 408, 500}]
  /\ wire \in [Conns -> {"none", "head", "whole"}]
  /\ request \in [Conns -> Requests]
  /\ sent \in [Conns -> 0..(2 + MaxBody)]
  /\ late \in [Conns -> BOOLEAN]
  /\ link \in [Conns -> {"open", "hungup", "cut"}]
  /\ verdict \in [Conns -> {"none", "calling", "ok", "refused", "unavailable"}]

Init ==
  /\ main = "serving" /\ taken = {} /\ free = MaxConnections
  /\ phase = [c \in Conns |-> "none"]
  /\ read = [c \in Conns |-> 0] /\ left = [c \in Conns |-> IoSeconds]
  /\ done = [c \in Conns |-> "no"] /\ status = [c \in Conns |-> 0] /\ wire = [c \in Conns |-> "none"]
  /\ request \in [Conns -> {r \in Requests : r.target = "static"}]
  /\ sent = [c \in Conns |-> 0] /\ late = [c \in Conns |-> FALSE]
  /\ link = [c \in Conns |-> "hungup"] /\ verdict = [c \in Conns |-> "none"]

-----------------------------------------------------------------------------
(* The client.                                                             *)

\* The kernel takes the connection for the listening socket.
Connect(c) ==
  /\ main \in Running /\ c \notin taken
  /\ phase[c] = "none" /\ verdict[c] # "calling"
  /\ \E r \in Requests : request' = [request EXCEPT ![c] = r]
  /\ phase' = [phase EXCEPT ![c] = "backlog"]
  /\ done' = [done EXCEPT ![c] = "no"] /\ status' = [status EXCEPT ![c] = 0]
  /\ wire' = [wire EXCEPT ![c] = "none"]
  /\ link' = [link EXCEPT ![c] = "open"] /\ verdict' = [verdict EXCEPT ![c] = "calling"]
  /\ UNCHANGED <<main, taken, free, reading>>

\* What is sent once the server has stopped reading is not looked at.
Send(c) ==
  /\ verdict[c] = "calling" /\ link[c] # "hungup"
  /\ phase[c] \in {"backlog", "starting"} \cup Reading
  /\ sent[c] < Pieces(request[c])
  /\ sent' = [sent EXCEPT ![c] = @ + 1]
  /\ late' = [late EXCEPT ![c] = @ \/ left[c] = 0]
  /\ UNCHANGED <<main, taken, free, phase, read, left, reply, client>>

Ends(c, v) ==
  /\ verdict[c] = "calling"
  /\ verdict' = [verdict EXCEPT ![c] = v]
  /\ link' = [link EXCEPT ![c] = IF @ = "open" THEN "hungup" ELSE @]
  /\ UNCHANGED <<main, taken, free, phase, reading, reply, request>>

\* LocalClient.call: only a 200 whose body is as long as announced is a result.
GetReply(c) ==
  \/ status[c] = 200 /\ wire[c] = "whole" /\ Ends(c, "ok")
  \/ status[c] # 200 /\ wire[c] # "none" /\ Ends(c, "refused")
  \/ status[c] = 200 /\ wire[c] = "head" /\ Closed(c) /\ Ends(c, "refused")
  \/ wire[c] = "none" /\ Closed(c) /\ Ends(c, "unavailable")

\* The client's own deadline, a reset, or a client that goes away.
GiveUp(c) == Ends(c, "unavailable")

-----------------------------------------------------------------------------
(* The main thread: serve_forever, process_request.                        *)

Goto(c, p) == phase' = [phase EXCEPT ![c] = p]

\* The reader is dropped: whatever it had, and what comes later, is lost.
StopReading(c) ==
  /\ read' = [read EXCEPT ![c] = 0] /\ left' = [left EXCEPT ![c] = IoSeconds]
  /\ sent' = [sent EXCEPT ![c] = 0] /\ late' = [late EXCEPT ![c] = FALSE]

Least(m, n) == IF m < n THEN m ELSE n
\* A BoundedSemaphore does not count beyond what it was made with.
Returned == Least(free + 1, MaxConnections)

\* A connection is accepted; without a slot it is shut down at once.
ProcessRequest(c) ==
  /\ main = "serving" /\ phase[c] = "backlog"
  /\ \/ /\ free = 0
        /\ Goto(c, "none") /\ StopReading(c)
        /\ UNCHANGED <<main, taken, free>>
     \/ /\ free > 0
        /\ free' = free - 1
        /\ Goto(c, "starting")
        /\ main' = "starting" /\ taken' = {c}
        /\ UNCHANGED reading
  /\ UNCHANGED <<reply, client>>

StartThread(c) ==
  /\ main = "starting" /\ taken = {c}
  /\ Goto(c, "line")
  /\ main' = "started"
  /\ UNCHANGED <<taken, free, reading, reply, client>>

\* Mutant: a thread that did not start keeps its slot.
StartFailsHolding(c) ==
  /\ main = "starting" /\ taken = {c}
  /\ Goto(c, "none") /\ StopReading(c)
  /\ main' = "serving" /\ taken' = {}
  /\ UNCHANGED <<free, reply, client>>

\* No thread: the slot is given back, the connection closed, the error swallowed.
StartFails(c) ==
  /\ main = "starting" /\ taken = {c}
  /\ Goto(c, "none") /\ StopReading(c)
  /\ free' = Returned
  /\ main' = "serving" /\ taken' = {}
  /\ UNCHANGED <<reply, client>>

ServeOn ==
  /\ main = "started"
  /\ main' = "serving" /\ taken' = {}
  /\ UNCHANGED <<free, phase, reading, reply, client>>

-----------------------------------------------------------------------------
(* One handler thread: process_request_thread, handle_one_request, _handle.*)

Answer(c, s) ==
  /\ Goto(c, "respond") /\ StopReading(c)
  /\ status' = [status EXCEPT ![c] = s]
  /\ UNCHANGED <<main, taken, free, done, wire, client>>

Continue(c, p) ==
  /\ Goto(c, p)
  /\ UNCHANGED <<main, taken, free, reading, reply, client>>

\* Where a handler is once the piece it waits for has come.
After(c) == CASE phase[c] = "line" -> "headers"
              [] phase[c] = "headers" -> "checked"
              [] phase[c] = "body" -> IF read[c] + 1 = Pieces(request[c]) THEN "received" ELSE "body"

\* Mutant: the deadline is looked at before a piece is waited for, not after.
ReceiveLate(c) ==
  /\ phase[c] \in {"line", "headers", "body"}
  /\ read[c] < sent[c]
  /\ read' = [read EXCEPT ![c] = @ + 1]
  /\ Goto(c, After(c))
  /\ UNCHANGED <<main, taken, free, left, sent, late, reply, client>>

\* A piece arrives before the deadline of the whole request.
Receive(c) ==
  /\ phase[c] \in {"line", "headers", "body"}
  /\ read[c] < sent[c]
  /\ left[c] > 0
  /\ read' = [read EXCEPT ![c] = @ + 1]
  /\ Goto(c, After(c))
  /\ UNCHANGED <<main, taken, free, left, sent, late, reply, client>>

\* Mutant: only the line and the headers have a deadline.
TimesOutBeforeBody(c) ==
  /\ phase[c] \in {"line", "headers"} /\ left[c] = 0
  /\ Answer(c, 408)

TimesOut(c) ==
  /\ phase[c] \in Reading /\ left[c] = 0
  /\ Answer(c, 408)

\* The input ends, or the socket fails, in the middle of the request; an
\* empty connection gets no reply.
EndOfInput(c) ==
  /\ phase[c] \in {"line", "headers", "body"}
  /\ \/ link[c] = "hungup" /\ read[c] = sent[c]
     \/ link[c] = "cut"
  /\ left[c] > 0
  /\ \/ Answer(c, 400)
     \/ /\ phase[c] = "line"
        /\ Goto(c, "closing") /\ StopReading(c)
        /\ UNCHANGED <<main, taken, free, reply, client>>

\* The line, a header, the host, the origin or the path is refused.
RefuseFraming(c) ==
  /\ phase[c] \in {"headers", "checked"} /\ request[c].fault = "framing"
  /\ Answer(c, 400)

\* _handle: a static file needs no credential; an operation needs one before
\* its body is read.
Handle(c) ==
  /\ phase[c] = "checked" /\ request[c].fault # "framing"
  /\ \/ request[c].target = "static" /\ Answer(c, 200)
     \/ request[c].target = "operation" /\ request[c].fault = "credential" /\ Answer(c, 400)
     \/ /\ request[c].target = "operation" /\ request[c].fault # "credential"
        /\ Continue(c, IF request[c].size = 0 THEN "dispatch" ELSE "body")

\* The clock is read once more after the last piece, then the body is decoded.
Decode(c) ==
  /\ phase[c] = "received" /\ left[c] > 0
  /\ IF request[c].fault = "body"
       THEN Answer(c, 400)
       ELSE Continue(c, "dispatch")

\* A TimeoutError of the operation itself is answered like one of the input:
\* 408 does not say that nothing was done.
Statuses(d) == IF d = "success" THEN {200} ELSE {408, 500}

\* The operation runs whole, in one call to the service; a Problem (its own
\* status, 500 here) or any other exception becomes the reply.
Dispatch(c) ==
  /\ phase[c] = "dispatch"
  /\ \E d \in {"success", "problem"} :
       /\ done' = [done EXCEPT ![c] = d]
       /\ \E s \in Statuses(d) : status' = [status EXCEPT ![c] = s]
  /\ Goto(c, "respond") /\ StopReading(c)
  /\ UNCHANGED <<main, taken, free, wire, client>>

\* The head, then the body; a write that fails or takes too long is the end.
Respond(c) ==
  /\ phase[c] = "respond"
  /\ \/ /\ wire[c] = "none" /\ link[c] # "cut"
        /\ wire' = [wire EXCEPT ![c] = "head"] /\ UNCHANGED phase
     \/ /\ wire[c] = "head" /\ link[c] # "cut"
        /\ wire' = [wire EXCEPT ![c] = "whole"] /\ Goto(c, "closing")
     \/ Goto(c, "closing") /\ UNCHANGED wire
  /\ UNCHANGED <<main, taken, free, reading, done, status, client>>

\* The last thing a handler thread does: the connection is shut down, the
\* slot comes back.
Release(c) ==
  /\ phase[c] = "closing"
  /\ Goto(c, "none")
  /\ free' = Returned
  /\ UNCHANGED <<main, taken, reading, reply, client>>

Thread(c) ==
  \/ Receive(c) \/ TimesOut(c) \/ EndOfInput(c) \/ RefuseFraming(c) \/ Handle(c) \/ Decode(c)
  \/ Dispatch(c) \/ Respond(c) \/ Release(c)

-----------------------------------------------------------------------------
(* The end: an interruption, then server_close, then service.close.        *)

\* The listening socket closes with what waits on it.  A connection whose
\* thread is being started is shut down, and its slot given back, though the
\* thread may already run.
Interrupt ==
  /\ main \in Running
  /\ main' = "closing" /\ taken' = {}
  /\ LET shut == {c \in Conns : phase[c] = "backlog" \/ (main = "starting" /\ c \in taken)} IN
       /\ phase' = [c \in Conns |-> IF c \in shut THEN "none" ELSE phase[c]]
       /\ read' = [c \in Conns |-> IF c \in shut THEN 0 ELSE read[c]]
       /\ left' = [c \in Conns |-> IF c \in shut THEN IoSeconds ELSE left[c]]
       /\ sent' = [c \in Conns |-> IF c \in shut THEN 0 ELSE sent[c]]
       /\ late' = [c \in Conns |-> IF c \in shut THEN FALSE ELSE late[c]]
  /\ link' = [c \in Conns |-> IF main = "started" /\ c \in taken THEN "cut" ELSE link[c]]
  /\ free' \in (CASE main = "serving" -> {free}
                [] main = "starting" -> {free, Returned}
                [] main = "started" -> {Returned})
  /\ UNCHANGED <<reply, request, verdict>>

\* Mutant: daemon threads, which server_close does not wait for.
CloseAtOnce ==
  /\ main = "closing"
  /\ main' = "closed"
  /\ UNCHANGED <<taken, free, phase, reading, reply, client>>

\* server_close waits for every handler thread; only then is the lock of the
\* installation given back.
CloseService ==
  /\ main = "closing"
  /\ \A c \in Conns : phase[c] \notin Holding
  /\ main' = "closed"
  /\ UNCHANGED <<taken, free, phase, reading, reply, client>>

\* A second passes for every request being read.
Tick ==
  /\ \E c \in Conns : phase[c] \in Reading /\ left[c] > 0
  /\ left' = [c \in Conns |-> IF phase[c] \in Reading /\ left[c] > 0 THEN left[c] - 1 ELSE left[c]]
  /\ UNCHANGED <<main, taken, free, phase, read, sent, late, reply, client>>

Next ==
  \/ \E c \in Conns :
       \/ Connect(c) \/ Send(c) \/ GetReply(c) \/ GiveUp(c)
       \/ ProcessRequest(c) \/ StartThread(c) \/ StartFails(c)
       \/ Thread(c)
  \/ ServeOn \/ Interrupt \/ CloseService \/ Tick

Spec == Init /\ [][Next]_vars

\* Threads are scheduled and the clock moves; nothing is asked of a client.
FairSpec ==
  /\ Spec
  /\ \A c \in Conns : WF_vars(Thread(c))
  /\ \A c \in Conns : WF_vars(StartThread(c) \/ StartFails(c))
  /\ WF_vars(CloseService) /\ WF_vars(Tick)

-----------------------------------------------------------------------------
(* Properties.                                                             *)

Holders == {c \in Conns : phase[c] \in Holding}

\* Every slot that is not free is held by one handler that still lives: a
\* slot lost on some path (process_request and process_request_thread give it
\* back in different threads) would end in a server that refuses everybody, one
\* given back twice in more threads than the limit.
SlotsConserved == main \in Running => free + Cardinality(Holders) = MaxConnections

\* An operation runs only for a request that arrived whole before its
\* deadline, from a known client.
DispatchIsWhole ==
  [][\A c \in Conns : done[c] = "no" /\ done'[c] # "no" =>
       /\ request[c].target = "operation" /\ request[c].fault = "none"
       /\ read[c] = Pieces(request[c])
       /\ ~late[c]]_vars

\* The installation's lock outlives every handler that may still write.
ServiceOutlivesHandlers == main = "closed" => \A c \in Conns : phase[c] \notin Holding

\* A slot comes back whatever the client does or leaves undone.
SlotsComeBack == \A c \in Conns : phase[c] \in Holding ~> phase[c] = "none"
=============================================================================
