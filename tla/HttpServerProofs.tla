-------------------------- MODULE HttpServerProofs --------------------------
(***************************************************************************)
(* Proofs about HttpServer, for any connections, slots, seconds and bodies: *)
(* no slot is lost or given back twice while the server runs, only whole    *)
(* requests are dispatched, and the service outlives its handlers.          *)
(***************************************************************************)
EXTENDS HttpServer, FiniteSetTheorems, TLAPS

-----------------------------------------------------------------------------
(* The inductive invariant.                                                *)

\* Whom the main thread is starting a thread for.
Turn ==
  /\ main = "starting" => \E c \in Conns : taken = {c} /\ phase[c] = "starting"
  /\ \A c \in Conns : phase[c] = "starting" => main = "starting" /\ taken = {c}
  /\ main # "closed" \/ \A c \in Conns : phase[c] \notin Holding
  /\ main \notin Running => \A c \in Conns : phase[c] # "backlog"

\* How far the request of a connection was read.
Progress(c) ==
  /\ phase[c] \in {"none", "backlog", "starting", "line", "respond", "closing"} => read[c] = 0
  /\ phase[c] = "headers" => read[c] = 1
  /\ phase[c] = "checked" => read[c] = 2
  /\ phase[c] = "body" => read[c] >= 2 /\ read[c] < Pieces(request[c])
  /\ phase[c] \in {"body", "received"} => request[c].target = "operation" /\ request[c].fault \in {"none", "body"}
  /\ phase[c] \in {"received", "dispatch"} => read[c] = Pieces(request[c])
  /\ phase[c] = "dispatch" => request[c].target = "operation" /\ request[c].fault = "none"

\* A late piece is there only when no second is left, so that nothing more is read.
Punctual(c) ==
  /\ late[c] => left[c] = 0
  /\ phase[c] \in {"checked", "dispatch"} => ~late[c]

\* What is known of one connection.
Known(c) == Progress(c) /\ Punctual(c)

Told == \A c \in Conns : Known(c)
IInv == TypeOK /\ Turn /\ Told /\ SlotsConserved

-----------------------------------------------------------------------------
LEMMA InitHolds ==
  ASSUME Init
  PROVE  IInv
<1> USE ServerAssumption DEF Init
<1>1. TypeOK
  BY DEF TypeOK, Running, Phases, Holding, Reading
<1>2. Turn
  BY DEF Turn, Running, Holding, Reading
<1>3. Told
  BY DEF Told, Known, Progress, Punctual, Holding, Reading
<1>4. SlotsConserved
  <2>1. Holders = {}
    BY DEF Holders, Holding, Reading
  <2> QED
    BY <2>1, FS_EmptySet DEF SlotsConserved
<1> QED
  BY <1>1, <1>2, <1>3, <1>4 DEF IInv

\* The types of what a dropped reader leaves.
Unread ==
  /\ read \in [Conns -> 0..(2 + MaxBody)] /\ left \in [Conns -> 0..IoSeconds]
  /\ sent \in [Conns -> 0..(2 + MaxBody)] /\ late \in [Conns -> BOOLEAN]

LEMMA StopReadingTypes ==
  ASSUME TypeOK, NEW c \in Conns, StopReading(c)
  PROVE  Unread'
BY ServerAssumption DEF TypeOK, StopReading, Unread

LEMMA AnswerTypes ==
  ASSUME TypeOK, NEW c \in Conns, NEW s \in {200, 400, 408}, Answer(c, s)
  PROVE  TypeOK'
<1>1. Unread'
  BY StopReadingTypes DEF Answer
<1>2. phase' \in [Conns -> Phases] /\ status' \in [Conns -> {0, 200, 400, 408, 500}]
  BY DEF TypeOK, Answer, Goto, Phases, Holding
<1> QED
  BY <1>1, <1>2 DEF TypeOK, Answer, Unread, client

LEMMA ContinueTypes ==
  ASSUME TypeOK, NEW c \in Conns, NEW p \in Phases, Continue(c, p)
  PROVE  TypeOK'
BY DEF TypeOK, Continue, Goto, reading, reply, client

LEMMA TypeStep ==
  ASSUME TypeOK, [Next]_vars
  PROVE  TypeOK'
<1> USE ServerAssumption DEF TypeOK, Running, Phases, Holding, Reading, Goto, reading, reply, client
<1>a. Returned \in 0..MaxConnections
  BY DEF Returned, Least
<1>1. ASSUME NEW c \in Conns, Connect(c)
      PROVE  TypeOK'
  BY <1>1 DEF Connect
<1>2. ASSUME NEW c \in Conns, Send(c)
      PROVE  TypeOK'
  <2>1. Pieces(request[c]) \in 0..(2 + MaxBody)
    BY DEF Pieces, Request
  <2> QED
    BY <1>2, <2>1 DEF Send
<1>3. ASSUME NEW c \in Conns, GetReply(c) \/ GiveUp(c)
      PROVE  TypeOK'
  BY <1>3 DEF GetReply, GiveUp, Ends
<1>4. ASSUME NEW c \in Conns, ProcessRequest(c)
      PROVE  TypeOK'
  <2>1. CASE free = 0
    <3>1. Unread'
      BY <1>4, <2>1, StopReadingTypes DEF ProcessRequest
    <3>2. Goto(c, "none") /\ UNCHANGED <<main, taken, free, reply, client>>
      BY <1>4, <2>1 DEF ProcessRequest
    <3> QED
      BY <3>1, <3>2 DEF Unread
  <2>2. CASE free > 0
    BY <1>4, <2>2 DEF ProcessRequest
  <2> QED
    BY <2>1, <2>2
<1>5. ASSUME NEW c \in Conns, StartThread(c) \/ StartFails(c)
      PROVE  TypeOK'
  <2>1. CASE StartThread(c)
    BY <2>1 DEF StartThread
  <2>2. CASE StartFails(c)
    <3>1. Unread'
      BY <2>2, StopReadingTypes DEF StartFails
    <3> QED
      BY <1>a, <2>2, <3>1 DEF StartFails, Unread
  <2> QED
    BY <1>5, <2>1, <2>2
<1>6. ASSUME NEW c \in Conns, Receive(c)
      PROVE  TypeOK'
  <2>0. After(c) \in Phases
    BY <1>6 DEF Receive, After
  <2>1. read[c] + 1 \in 0..(2 + MaxBody)
    BY <1>6 DEF Receive
  <2> QED
    BY <1>6, <2>0, <2>1 DEF Receive
<1>7. ASSUME NEW c \in Conns, TimesOut(c) \/ EndOfInput(c) \/ RefuseFraming(c)
      PROVE  TypeOK'
  <2>1. CASE \E s \in {200, 400, 408} : Answer(c, s)
    BY <2>1, AnswerTypes
  <2>2. CASE StopReading(c) /\ Goto(c, "closing") /\ UNCHANGED <<main, taken, free, reply, client>>
    <3>1. Unread'
      BY <2>2, StopReadingTypes
    <3> QED
      BY <2>2, <3>1 DEF Unread
  <2> QED
    BY <1>7, <2>1, <2>2 DEF TimesOut, EndOfInput, RefuseFraming
<1>8. ASSUME NEW c \in Conns, Handle(c) \/ Decode(c)
      PROVE  TypeOK'
  <2>1. CASE \E s \in {200, 400, 408} : Answer(c, s)
    BY <2>1, AnswerTypes
  <2>2. CASE \E p \in Phases : Continue(c, p)
    BY <2>2, ContinueTypes
  <2> QED
    BY <1>8, <2>1, <2>2 DEF Handle, Decode
<1>9. ASSUME NEW c \in Conns, Dispatch(c)
      PROVE  TypeOK'
  <2>1. Unread'
    BY <1>9, StopReadingTypes DEF Dispatch
  <2>2. done' \in [Conns -> {"no", "success", "problem"}] /\ status' \in [Conns -> {0, 200, 400, 408, 500}]
    BY <1>9 DEF Dispatch, Statuses
  <2> QED
    BY <1>9, <2>1, <2>2 DEF Dispatch, Unread
<1>10. ASSUME NEW c \in Conns, Respond(c) \/ Release(c)
       PROVE  TypeOK'
  BY <1>a, <1>10 DEF Respond, Release
<1>11. CASE ServeOn \/ CloseService
  BY <1>11 DEF ServeOn, CloseService
<1>12. CASE Interrupt
  <2>1. phase' \in [Conns -> Phases]
    BY <1>12 DEF Interrupt
  <2>2. Unread'
    <3>1. read' \in [Conns -> 0..(2 + MaxBody)]
      BY <1>12 DEF Interrupt
    <3>2. left' \in [Conns -> 0..IoSeconds]
      BY <1>12 DEF Interrupt
    <3>3. sent' \in [Conns -> 0..(2 + MaxBody)]
      BY <1>12 DEF Interrupt
    <3>4. late' \in [Conns -> BOOLEAN]
      <4>1. PICK shut \in SUBSET Conns : late' = [d \in Conns |-> IF d \in shut THEN FALSE ELSE late[d]]
        BY <1>12 DEF Interrupt
      <4>2. ASSUME NEW d \in Conns
            PROVE  (IF d \in shut THEN FALSE ELSE late[d]) \in BOOLEAN
        BY Zenon
      <4> QED
        BY <4>1, <4>2, Zenon
    <3> QED
      BY <3>1, <3>2, <3>3, <3>4 DEF Unread
  <2>3. free' \in 0..MaxConnections
    BY <1>a, <1>12 DEF Interrupt
  <2>4. link' \in [Conns -> {"open", "hungup", "cut"}]
    BY <1>12 DEF Interrupt
  <2> QED
    BY <1>12, <2>1, <2>2, <2>3, <2>4 DEF Interrupt, Unread
<1>13. CASE Tick
  BY <1>13 DEF Tick
<1>14. CASE UNCHANGED vars
  BY <1>14 DEF vars
<1> QED
  BY <1>1, <1>2, <1>3, <1>4, <1>5, <1>6, <1>7, <1>8, <1>9, <1>10, <1>11, <1>12, <1>13, <1>14 DEF Next, Thread

-----------------------------------------------------------------------------
(* Turns: whom the main thread serves, and what is over when it has stopped. *)

LEMMA TurnStep ==
  ASSUME TypeOK, Turn, [Next]_vars
  PROVE  Turn'
<1> USE DEF TypeOK, Turn, Running, Holding, Reading, Goto
<1>1. ASSUME NEW c \in Conns, Connect(c)
      PROVE  Turn'
  BY <1>1 DEF Connect
<1>2. ASSUME NEW c \in Conns, Send(c) \/ GetReply(c) \/ GiveUp(c)
      PROVE  Turn'
  BY <1>2 DEF Send, GetReply, GiveUp, Ends
<1>3. ASSUME NEW c \in Conns, ProcessRequest(c)
      PROVE  Turn'
  BY <1>3 DEF ProcessRequest
<1>4. ASSUME NEW c \in Conns, StartThread(c) \/ StartFails(c)
      PROVE  Turn'
  BY <1>4 DEF StartThread, StartFails
<1>5. ASSUME NEW c \in Conns, Thread(c)
      PROVE  Turn'
  <2>1. main' = main /\ taken' = taken /\ phase[c] \in Holding \ {"starting"}
    BY <1>5 DEF Thread, Receive, TimesOut, EndOfInput, RefuseFraming, Handle, Decode, Dispatch, Respond,
                Release, Answer, Continue
  <2>2. \E p \in Phases \ {"starting", "backlog"} : phase' = [phase EXCEPT ![c] = p]
    BY <1>5 DEF Thread, Receive, TimesOut, EndOfInput, RefuseFraming, Handle, Decode, Dispatch, Respond,
                Release, Answer, Continue, After, Phases
  <2> QED
    BY <2>1, <2>2
<1>6. CASE ServeOn \/ CloseService
  BY <1>6 DEF ServeOn, CloseService
<1>7. CASE Interrupt
  BY <1>7 DEF Interrupt
<1>8. CASE Tick \/ UNCHANGED vars
  BY <1>8 DEF Tick, vars
<1> QED
  BY <1>1, <1>2, <1>3, <1>4, <1>5, <1>6, <1>7, <1>8 DEF Next

-----------------------------------------------------------------------------
(* Slots.                                                                  *)

LEMMA HoldersFinite == IsFiniteSet(Holders) /\ Cardinality(Holders) \in Nat
<1>1. Holders \subseteq Conns
  BY DEF Holders
<1> QED
  BY <1>1, ServerAssumption, FS_Subset, FS_CardinalityType

LEMMA SameHolders ==
  ASSUME SlotsConserved, free' = free, main' \in Running => main \in Running,
         \A c \in Conns : phase'[c] \in Holding <=> phase[c] \in Holding
  PROVE  SlotsConserved'
<1>1. Holders' = Holders
  BY DEF Holders
<1> QED
  BY <1>1 DEF SlotsConserved

\* One handler less, one slot more.
LEMMA SlotReturned ==
  ASSUME TypeOK, SlotsConserved, NEW c \in Conns, main \in Running,
         phase[c] \in Holding, Goto(c, "none"), free' = Returned
  PROVE  SlotsConserved'
<1>1. Holders' = Holders \ {c} /\ c \in Holders
  BY DEF TypeOK, Holders, Goto, Holding, Reading
<1>2. Cardinality(Holders \ {c}) = Cardinality(Holders) - 1
  BY <1>1, HoldersFinite, FS_RemoveElement
<1>3. Cardinality(Holders) # 0
  BY <1>1, HoldersFinite, FS_EmptySet
<1>4. free' = free + 1
  BY <1>3, HoldersFinite, ServerAssumption DEF TypeOK, SlotsConserved, Returned, Least
<1> QED
  BY <1>1, <1>2, <1>4, HoldersFinite, ServerAssumption DEF TypeOK, SlotsConserved

LEMMA SlotsStep ==
  ASSUME TypeOK, Turn, SlotsConserved, [Next]_vars
  PROVE  SlotsConserved'
<1> USE DEF TypeOK, Running, Goto
<1>1. ASSUME NEW c \in Conns, Connect(c)
      PROVE  SlotsConserved'
  BY <1>1, SameHolders DEF Connect, Holding, Reading
<1>2. ASSUME NEW c \in Conns, Send(c) \/ GetReply(c) \/ GiveUp(c)
      PROVE  SlotsConserved'
  BY <1>2, SameHolders DEF Send, GetReply, GiveUp, Ends
<1>3. ASSUME NEW c \in Conns, ProcessRequest(c)
      PROVE  SlotsConserved'
  <2>1. CASE free = 0
    BY <1>3, <2>1, SameHolders DEF ProcessRequest, Holding, Reading
  <2>2. CASE free > 0
    <3>1. Holders' = Holders \cup {c} /\ c \notin Holders
      BY <1>3, <2>2 DEF ProcessRequest, Holders, Holding, Reading
    <3>2. Cardinality(Holders \cup {c}) = Cardinality(Holders) + 1
      BY <3>1, HoldersFinite, FS_AddElement
    <3>3. free' = free - 1 /\ main = "serving"
      BY <1>3, <2>2 DEF ProcessRequest
    <3> QED
      BY <3>1, <3>2, <3>3, HoldersFinite, ServerAssumption DEF SlotsConserved
  <2> QED
    BY <2>1, <2>2
<1>4. ASSUME NEW c \in Conns, StartThread(c)
      PROVE  SlotsConserved'
  BY <1>4, SameHolders DEF StartThread, Turn, Holding, Reading
<1>5. ASSUME NEW c \in Conns, StartFails(c)
      PROVE  SlotsConserved'
  <2>1. main \in Running /\ phase[c] \in Holding
    BY <1>5 DEF StartFails, Turn, Holding
  <2> QED
    BY <1>5, <2>1, SlotReturned DEF StartFails
<1>6. ASSUME NEW c \in Conns, Release(c)
      PROVE  SlotsConserved'
  <2>1. CASE main \in Running
    BY <1>6, <2>1, SlotReturned DEF Release, Holding
  <2>2. CASE main \notin Running
    BY <1>6, <2>2 DEF Release, SlotsConserved
  <2> QED
    BY <2>1, <2>2
<1>7. ASSUME NEW c \in Conns,
             Receive(c) \/ TimesOut(c) \/ EndOfInput(c) \/ RefuseFraming(c) \/ Handle(c) \/ Decode(c)
               \/ Dispatch(c) \/ Respond(c)
      PROVE  SlotsConserved'
  <2>1. main' = main /\ free' = free /\ phase[c] \in Holding
    BY <1>7 DEF Receive, TimesOut, EndOfInput, RefuseFraming, Handle, Decode, Dispatch, Respond,
                Answer, Continue, After, Holding, Reading
  <2>2. \E p \in Holding : phase' = [phase EXCEPT ![c] = p]
    BY <1>7 DEF Receive, TimesOut, EndOfInput, RefuseFraming, Handle, Decode, Dispatch, Respond,
                Answer, Continue, After, Holding, Reading
  <2> QED
    BY <2>1, <2>2, SameHolders
<1>8. CASE Interrupt \/ CloseService
  BY <1>8 DEF Interrupt, CloseService, SlotsConserved
<1>9. CASE ServeOn
  BY <1>9, SameHolders DEF ServeOn
<1>10. CASE Tick \/ UNCHANGED vars
  BY <1>10, SameHolders DEF Tick, vars
<1> QED
  BY <1>1, <1>2, <1>3, <1>4, <1>5, <1>6, <1>7, <1>8, <1>9, <1>10 DEF Next, Thread

-----------------------------------------------------------------------------
(* What is known of one connection.                                        *)

\* It is known after the step.
KnownNext(c) == Known(c)'

\* Nothing of connection d changed but, perhaps, its link or the time left.
LEMMA KnownKept ==
  ASSUME TypeOK, NEW d \in Conns, Known(d),
         phase'[d] = phase[d], read'[d] = read[d], late'[d] = late[d],
         left'[d] = left[d] \/ (left'[d] = left[d] - 1 /\ left[d] > 0),
         request'[d] = request[d]
  PROVE  KnownNext(d)
BY DEF TypeOK, KnownNext, Known, Progress, Punctual

\* The same, with the reader dropped, at the end of a connection.
LEMMA KnownAtEnd ==
  ASSUME TypeOK, NEW d \in Conns, Known(d),
         phase'[d] \in {"none", "respond", "closing"}, read'[d] = 0, late'[d] = FALSE
  PROVE  KnownNext(d)
BY DEF TypeOK, KnownNext, Known, Progress, Punctual

LEMMA ToldStep ==
  ASSUME TypeOK, Turn, \A c \in Conns : Known(c), [Next]_vars, NEW d \in Conns
  PROVE  KnownNext(d)
<1> USE DEF TypeOK, Goto, reading, reply, client
<1>1. ASSUME NEW c \in Conns, Connect(c)
      PROVE  KnownNext(d)
  <2>1. CASE c = d
    BY <1>1, <2>1 DEF Connect, KnownNext, Known, Progress, Punctual, Reading
  <2>2. CASE c # d
    BY <1>1, <2>2, KnownKept DEF Connect
  <2> QED
    BY <2>1, <2>2
<1>2. ASSUME NEW c \in Conns, Send(c)
      PROVE  KnownNext(d)
  <2>1. CASE c = d
    BY <1>2, <2>1 DEF Send, KnownNext, Known, Progress, Punctual, Reading
  <2>2. CASE c # d
    BY <1>2, <2>2, KnownKept DEF Send
  <2> QED
    BY <2>1, <2>2
<1>3. ASSUME NEW c \in Conns, GetReply(c) \/ GiveUp(c)
      PROVE  KnownNext(d)
  BY <1>3 DEF GetReply, GiveUp, Ends, KnownNext, Known, Progress, Punctual
<1>4. ASSUME NEW c \in Conns, ProcessRequest(c) \/ StartFails(c)
      PROVE  KnownNext(d)
  <2>1. CASE phase'[d] = "none" /\ c = d /\ StopReading(c)
    <3>1. read'[d] = 0 /\ late'[d] = FALSE
      BY <2>1 DEF StopReading
    <3>2. UNCHANGED request
      BY <1>4 DEF ProcessRequest, StartFails
    <3> QED
      BY <2>1, <3>1, <3>2, KnownAtEnd
  <2>2. CASE phase'[d] = "starting" /\ c = d
    BY <1>4, <2>2 DEF ProcessRequest, StartFails, KnownNext, Known, Progress, Punctual, Reading
  <2>3. CASE c # d
    BY <1>4, <2>3, KnownKept DEF ProcessRequest, StartFails, StopReading
  <2> QED
    BY <1>4, <2>1, <2>2, <2>3 DEF ProcessRequest, StartFails
<1>5. ASSUME NEW c \in Conns, StartThread(c)
      PROVE  KnownNext(d)
  <2>1. CASE c = d
    BY <1>5, <2>1 DEF StartThread, Turn, KnownNext, Known, Progress, Punctual
  <2>2. CASE c # d
    BY <1>5, <2>2, KnownKept DEF StartThread
  <2> QED
    BY <2>1, <2>2
<1>6. ASSUME NEW c \in Conns, Receive(c)
      PROVE  KnownNext(d)
  <2>1. CASE c = d
    <3>1. read'[c] = read[c] + 1 /\ ~late[c] /\ late' = late
      BY <1>6, <2>1 DEF Receive, Known, Punctual
    <3>0. UNCHANGED <<request, left>>
      BY <1>6 DEF Receive
    <3>2. CASE phase[c] \in {"line", "headers"}
      <4>1. phase'[c] = IF phase[c] = "line" THEN "headers" ELSE "checked"
        BY <1>6, <3>2 DEF Receive, After
      <4> QED
        BY <2>1, <3>0, <3>1, <3>2, <4>1 DEF KnownNext, Known, Progress, Punctual, Reading
    <3>3. CASE phase[c] = "body"
      <4>1. phase'[c] = IF read'[c] = Pieces(request[c]) THEN "received" ELSE "body"
        BY <1>6, <3>1, <3>3 DEF Receive, After
      <4>2. Pieces(request[c]) \in Nat
        BY ServerAssumption DEF Pieces, Request
      <4> QED
        BY <1>6, <2>1, <3>1, <3>3, <4>1, <4>2 DEF Receive, KnownNext, Known, Progress, Punctual, Reading
    <3> QED
      BY <1>6, <3>2, <3>3 DEF Receive
  <2>2. CASE c # d
    BY <1>6, <2>2, KnownKept DEF Receive
  <2> QED
    BY <2>1, <2>2
<1>7. ASSUME NEW c \in Conns, TimesOut(c) \/ EndOfInput(c) \/ RefuseFraming(c)
      PROVE  KnownNext(d)
  <2>1. CASE c = d
    <3>1. StopReading(c) /\ phase'[c] \in {"respond", "closing"} /\ request' = request
      BY <1>7 DEF TimesOut, EndOfInput, RefuseFraming, Answer
    <3> QED
      BY <2>1, <3>1, KnownAtEnd DEF StopReading
  <2>2. CASE c # d
    BY <1>7, <2>2, KnownKept DEF TimesOut, EndOfInput, RefuseFraming, Answer, StopReading
  <2> QED
    BY <2>1, <2>2
<1>8. ASSUME NEW c \in Conns, Handle(c)
      PROVE  KnownNext(d)
  <2>1. CASE c = d /\ \E s \in {200, 400} : Answer(c, s)
    <3>1. StopReading(c) /\ phase'[c] = "respond" /\ request' = request
      BY <1>8, <2>1 DEF Answer
    <3>2. phase'[d] = "respond" /\ request'[d] = request[d] /\ read'[d] = 0 /\ late'[d] = FALSE
      BY <2>1, <3>1 DEF StopReading
    <3> QED
      BY <3>2, KnownAtEnd
  <2>2. CASE c = d /\ ~\E s \in {200, 400} : Answer(c, s)
    <3>0. request[c] \in Request
      BY ServerAssumption
    <3>1. request[c].target = "operation" /\ request[c].fault \in {"none", "body"} /\ request[c].size \in Nat
      BY <1>8, <2>2, <3>0, ServerAssumption DEF Handle, Request
    <3>2. Continue(c, IF request[c].size = 0 THEN "dispatch" ELSE "body") /\ phase[c] = "checked"
      BY <1>8, <2>2 DEF Handle
    <3>3. request[c].size = 0 => request[c].fault = "none"
      BY <3>0, <3>1 DEF Request
    <3> QED
      BY <2>2, <3>1, <3>2, <3>3 DEF Continue, KnownNext, Known, Progress, Punctual, Reading, Pieces
  <2>3. CASE c # d
    BY <1>8, <2>3, KnownKept DEF Handle, Answer, Continue, StopReading
  <2> QED
    BY <2>1, <2>2, <2>3
<1>9. ASSUME NEW c \in Conns, Decode(c)
      PROVE  KnownNext(d)
  <2>1. CASE c = d /\ request[c].fault = "body"
    <3>1. StopReading(c) /\ phase'[c] = "respond" /\ request' = request
      BY <1>9, <2>1 DEF Decode, Answer
    <3> QED
      BY <2>1, <3>1, KnownAtEnd DEF StopReading
  <2>2. CASE c = d /\ request[c].fault # "body"
    BY <1>9, <2>2 DEF Decode, Continue, KnownNext, Known, Progress, Punctual, Reading
  <2>3. CASE c # d
    BY <1>9, <2>3, KnownKept DEF Decode, Answer, Continue, StopReading
  <2> QED
    BY <2>1, <2>2, <2>3
<1>10. ASSUME NEW c \in Conns, Dispatch(c)
       PROVE  KnownNext(d)
  <2>1. CASE c = d
    BY <1>10, <2>1, KnownAtEnd DEF Dispatch, StopReading
  <2>2. CASE c # d
    BY <1>10, <2>2, KnownKept DEF Dispatch, StopReading
  <2> QED
    BY <2>1, <2>2
<1>11. ASSUME NEW c \in Conns, Respond(c) \/ Release(c)
       PROVE  KnownNext(d)
  BY <1>11 DEF Respond, Release, KnownNext, Known, Progress, Punctual, Reading
<1>12. CASE ServeOn \/ CloseService \/ UNCHANGED vars
  BY <1>12, KnownKept DEF ServeOn, CloseService, vars
<1>13. CASE Interrupt
  <2>1. CASE phase'[d] = "none" /\ read'[d] = 0 /\ late'[d] = FALSE
    BY <1>13, <2>1, KnownAtEnd DEF Interrupt
  <2>2. CASE phase'[d] = phase[d] /\ read'[d] = read[d] /\ late'[d] = late[d] /\ left'[d] = left[d]
    BY <1>13, <2>2, KnownKept DEF Interrupt
  <2> QED
    BY <1>13, <2>1, <2>2 DEF Interrupt
<1>14. CASE Tick
  BY <1>14, KnownKept DEF Tick
<1> QED
  BY <1>1, <1>2, <1>3, <1>4, <1>5, <1>6, <1>7, <1>8, <1>9, <1>10, <1>11, <1>12, <1>13, <1>14 DEF Next, Thread

-----------------------------------------------------------------------------
(* The theorems.                                                           *)

LEMMA IInvStep ==
  ASSUME IInv, [Next]_vars
  PROVE  IInv'
<1>1. TypeOK' /\ Turn' /\ SlotsConserved'
  BY TypeStep, TurnStep, SlotsStep DEF IInv
<1>2. Told'
  BY ToldStep DEF IInv, Told, KnownNext
<1> QED
  BY <1>1, <1>2 DEF IInv

LEMMA IInvHolds == Spec => []IInv
BY InitHolds, IInvStep, PTL DEF Spec

\* Every variable of the server and of its clients keeps its type.
THEOREM TypeCorrect == Spec => []TypeOK
<1>1. IInv => TypeOK
  BY DEF IInv
<1> QED
  BY <1>1, IInvHolds, PTL

\* The semaphore of http_api.LocalServer: while the server runs, the free slots
\* and the handlers that live are the configured number.
THEOREM SlotsAreConserved == Spec => []SlotsConserved
<1>1. IInv => SlotsConserved
  BY DEF IInv
<1> QED
  BY <1>1, IInvHolds, PTL

\* Handler and DeadlineInput: only a request read whole before its deadline,
\* from a client with a credential, reaches API.dispatch.
THEOREM OnlyWholeRequests == Spec => DispatchIsWhole
<1>1. ASSUME IInv, [Next]_vars
      PROVE  [\A c \in Conns : done[c] = "no" /\ done'[c] # "no" =>
                /\ request[c].target = "operation" /\ request[c].fault = "none"
                /\ read[c] = Pieces(request[c])
                /\ ~late[c]]_vars
  <2>1. ASSUME NEW c \in Conns, done[c] = "no", done'[c] # "no"
        PROVE  phase[c] = "dispatch"
    <3>1. \A e \in Conns : Dispatch(e) => e = c \/ done'[c] = done[c]
      BY DEF Dispatch, IInv, TypeOK
    <3>2. \A e \in Conns : Connect(e) => done'[c] = done[c] \/ done'[c] = "no"
      BY DEF Connect, IInv, TypeOK
    <3>3. \/ UNCHANGED done \/ \E e \in Conns : Dispatch(e) \/ Connect(e)
      BY <1>1 DEF Next, Thread, Send, GetReply, GiveUp, Ends, ProcessRequest, StartThread, StartFails, ServeOn,
                  Receive, TimesOut, EndOfInput, RefuseFraming, Handle, Decode, Respond, Release, Answer, Continue,
                  Interrupt, CloseService, Tick, reply, vars
    <3> QED
      BY <2>1, <3>1, <3>2, <3>3 DEF Dispatch
  <2> QED
    BY <1>1, <2>1 DEF IInv, Told, Known, Progress, Punctual
<1> QED
  BY <1>1, IInvHolds, PTL DEF Spec, DispatchIsWhole

\* serve: the lock of the installation is given back after the last handler.
THEOREM ServiceLasts == Spec => []ServiceOutlivesHandlers
<1>1. IInv => ServiceOutlivesHandlers
  BY DEF IInv, Turn, ServiceOutlivesHandlers
<1> QED
  BY <1>1, IInvHolds, PTL
=============================================================================
