-------------------------- MODULE HttpHandlerProofs ------------------------
(* Theorems about HttpHandler: how long the timer of a connection runs, for   *)
(* any request, cut in any way, any handler and any behaviour of the client.  *)
EXTENDS HttpHandler, SelectionProofs, TLAPS

\* TimerGuardsRequest is inductive together with what a timer that fires needs
\* to know: a registered socket is open, a registered reader is reading and has
\* outlived its timer only when the client is gone, and a response is registered
\* or suspended.
TimerInv ==
    /\ TimerGuardsRequest
    /\ reg # "none" => open
    /\ reg = "reader" => pc \in Reading
    /\ reg = "reader" /\ timer = "stale" => peer = "gone"
    /\ pc \in Responding => reg # "none"

\* The parts of a callback of the reader that has restarted the timer leave it
\* pending with the reader, or remove it, or go without the reader.
AfterRecv ==
    /\ pc' \in Responding => timer' = "none" /\ reg' # "none"
    /\ reg' # "none" => open'
    /\ reg' = "reader" => timer' = "pending" /\ pc' \in Reading

\* An exception drops the reader.
LEMMA DroppedLeaves ==
    ASSUME NEW said, Dropped(said)
    PROVE  AfterRecv
BY DEF Dropped, AfterRecv, Responding

\* Finalize removes the timer or drops the reader.
LEMMA FinalizeLeaves ==
    ASSUME TimerInv, reg = "reader", NEW made, NEW requestBody, NEW said,
           Finalize(made, requestBody, said)
    PROVE  AfterRecv
BY DroppedLeaves DEF Finalize, Raises, AfterRecv, TimerInv

\* The same, whichever handler it is.
LEMMA FinalizeRequestLeaves ==
    ASSUME TimerInv, reg = "reader", NEW requestBody, NEW said,
           FinalizeRequest(requestBody, said)
    PROVE  AfterRecv
BY FinalizeLeaves DEF FinalizeRequest

\* Reading on leaves the reader as it is, with a fresh timer.
LEMMA ReadOnLeaves ==
    ASSUME TimerInv, reg = "reader", NEW state \in Reading, NEW data, NEW said,
           ReadOn(state, data, said)
    PROVE  AfterRecv
BY DEF ReadOn, AfterRecv, TimerInv, Reading, Responding

\* A 400 closes the connection, or the exception of its send drops the reader.
LEMMA BadRequestLeaves ==
    ASSUME NEW said, BadRequest(said)
    PROVE  AfterRecv
BY DroppedLeaves DEF BadRequest, AfterRecv, Responding

\* A form is read on, or ends the reading.
LEMMA ReadMultiFormLeaves ==
    ASSUME TimerInv, reg = "reader", NEW data, ReadMultiForm(data)
    PROVE  AfterRecv
<1>1. CASE data = <<>> \/ Last(data) # "boundary"
  BY <1>1, ReadOnLeaves DEF ReadMultiForm, Reading
<1>2. CASE ~(data = <<>> \/ Last(data) # "boundary")
  BY <1>2, DroppedLeaves, FinalizeRequestLeaves DEF ReadMultiForm, Raises
<1>. QED
  BY <1>1, <1>2

\* A body is read on, or ends the reading.
LEMMA ReadBodyLeaves ==
    ASSUME TimerInv, reg = "reader", NEW data, NEW said, ReadBody(data, said)
    PROVE  AfterRecv
<1>1. CASE request.unknown /\ timer' = "pending" /\ BadRequest(said)
  BY <1>1, BadRequestLeaves
<1>2. CASE ReadChunks(data, said)
  BY <1>2, ReadOnLeaves, DroppedLeaves, FinalizeRequestLeaves
  DEF ReadChunks, Raises, Reading
<1>3. CASE FinalizeRequest(<<>>, said)
  BY <1>3, FinalizeRequestLeaves
<1>4. CASE ReadLength(data, said)
  BY <1>4, ReadOnLeaves, DroppedLeaves, FinalizeRequestLeaves
  DEF ReadLength, Raises, Reading
<1>. QED
  BY <1>1, <1>2, <1>3, <1>4 DEF ReadBody

\* In each of its states the reader reads on or ends the reading.
LEMMA DealLeaves ==
    ASSUME TimerInv, reg = "reader", NEW data, Deal(data)
    PROVE  AfterRecv
<1>1. ASSUME ReadHeaders(data) PROVE AfterRecv
  BY <1>1, ReadOnLeaves, DroppedLeaves, FinalizeLeaves, FinalizeRequestLeaves,
     ReadMultiFormLeaves, ReadBodyLeaves
  DEF ReadHeaders, Raises, Reading
<1>. QED
  BY <1>1, ReadMultiFormLeaves, ReadBodyLeaves DEF Deal

----------------------------------------------------------------------------
\* Data is dealt with while the timer runs; when it has fired, the client is
\* gone, and the data drops the reader.
LEMMA TimerRecv ==
    ASSUME TimerInv, NEW k \in 1..Len(unread), Recv(k)
    PROVE  TimerInv'
<1>1. AfterRecv
  <2>1. CASE timer = "stale"
    BY <2>1, DroppedLeaves DEF Recv
  <2>2. CASE timer # "stale"
    BY <2>2, DealLeaves DEF Recv
  <2>. QED
    BY <2>1, <2>2
<1>. QED
  BY <1>1 DEF AfterRecv, TimerInv, TimerGuardsRequest

\* A close ends the reading, whether its 400 can be sent or not.
LEMMA TimerRecvClosed ==
    ASSUME TimerInv, RecvClosed
    PROVE  TimerInv'
<1>1. AfterRecv
  BY BadRequestLeaves DEF RecvClosed
<1>2. reg' # "reader"
  BY DEF RecvClosed, BadRequest, Dropped
<1>. QED
  BY <1>1, <1>2 DEF AfterRecv, TimerInv, TimerGuardsRequest

\* The timer fires in no response; the reader survives it only when the 400
\* cannot be sent.
LEMMA TimerTimedOut ==
    ASSUME TimerInv, TimedOut
    PROVE  TimerInv'
<1>1. pc \notin Responding /\ pc' \notin Responding
  BY DEF TimedOut, TimerInv, TimerGuardsRequest, Responding
<1>. QED
  BY <1>1 DEF TimedOut, TimerInv, TimerGuardsRequest

\* A response does not touch the timer, and never has a reader.
LEMMA TimerWrite ==
    ASSUME TimerInv, Write
    PROVE  TimerInv'
<1>. USE DEF TimerInv, TimerGuardsRequest, Responding, Reading, input, connection,
             output, encoder
<1>1. CASE WriteRest
  BY <1>1 DEF WriteRest, CloseConnection, SendFails
<1>2. CASE HandlerRaises
  BY <1>2 DEF HandlerRaises, Ends, Asks, Start500, CloseConnection
<1>3. CASE HandlerStops
  BY <1>3 DEF HandlerStops, Ends, Asks, Start500, CloseConnection
<1>4. CASE RespondLater
  BY <1>4 DEF RespondLater, Ask, Asks
<1>5. CASE RespondSuspended
  BY <1>5 DEF RespondSuspended, Ask, Asks
<1>6. CASE Resumed
  BY <1>6 DEF Resumed
<1>7. ASSUME NEW item, Respond(item) PROVE TimerInv'
  <2>1. /\ reg = "writer" /\ pc = "turn"
        /\ UNCHANGED input
    BY <1>7 DEF Respond, Ask, Asks
  <2>2. UNCHANGED connection \/ CloseConnection
    BY <1>7 DEF Respond, Out, CompressItem, SendFails
  <2>. QED
    BY <2>1, <2>2 DEF CloseConnection
<1>. QED
  BY <1>1, <1>2, <1>3, <1>4, <1>5, <1>6, <1>7 DEF Write

\* A client that is gone stays gone.
LEMMA TimerPeer ==
    ASSUME TimerInv, Peer
    PROVE  TimerInv'
BY DEF Peer, PeerCloses, PeerResets, TimerInv, TimerGuardsRequest, given, output

\* The timer guards every request from its first data on, and no response, for
\* any request, any handler and any client.
THEOREM TimerGuards == Spec => []TimerGuardsRequest
<1>1. Init => TimerInv
  BY DEF Init, TimerInv, TimerGuardsRequest, Reading, Responding
<1>2. TimerInv /\ [Next]_vars => TimerInv'
  <2>1. CASE UNCHANGED vars
    BY <2>1 DEF vars, TimerInv, TimerGuardsRequest
  <2>. QED
    BY <2>1, TimerRecv, TimerRecvClosed, TimerTimedOut, TimerWrite, TimerPeer DEF Next
<1>3. TimerInv => TimerGuardsRequest
  BY DEF TimerInv
<1>. QED
  BY <1>1, <1>2, <1>3, PTL DEF Spec

----------------------------------------------------------------------------
(* No connection is closed without an answer.                                 *)

Given == WireTokens \ {"100"}

\* A response that has started has said something, and what waits to be sent
\* is a part of an answer; a loop that sends the last of it has something left.
AnswerInv ==
    /\ wire \in Seq(WireTokens) /\ rest \in Seq(Given) /\ held \in Seq(Given)
    /\ AnsweredBeforeClosed
    /\ responseStarted => Answered(wire) \/ peer = "gone"
    /\ pc \in {"flush", "fail"} => rest # <<>>

\* What was answered stays answered.
LEMMA AnsweredStays ==
    ASSUME NEW w \in Seq(WireTokens), Answered(w), NEW said \in Seq(WireTokens)
    PROVE  Answered(w \o said)
<1>1. PICK i \in DOMAIN w : w[i] # "100"
  BY DEF Answered
<1>2. i \in DOMAIN (w \o said) /\ (w \o said)[i] = w[i]
  OBVIOUS
<1>. QED
  BY <1>1, <1>2 DEF Answered

\* The first byte that is sent of an answer is an answer.
LEMMA SendAnswers ==
    ASSUME wire \in Seq(WireTokens), NEW data \in Seq(Given), data # <<>>, Send(data)
    PROVE  wire' \in Seq(WireTokens) /\ rest' \in Seq(Given) /\ Answered(wire')
<1>1. PICK k \in 1..Len(data) : /\ wire' = wire \o SubSeq(data, 1, k)
                                /\ rest' = SubSeq(data, k + 1, Len(data))
  BY DEF Send
<1>2. SubSeq(data, 1, k) \in Seq(Given) /\ Len(SubSeq(data, 1, k)) = k
  OBVIOUS
<1>3. rest' \in Seq(Given)
  BY <1>1
<1>4. wire' \in Seq(WireTokens)
  BY <1>1, <1>2 DEF Given
<1>5. LET i == Len(wire) + 1 IN i \in DOMAIN wire' /\ wire'[i] = data[1]
  BY <1>1, <1>2
<1>6. data[1] # "100"
  BY DEF Given
<1>. QED
  BY <1>3, <1>4, <1>5, <1>6 DEF Answered

\* A callback of the reader sends no response; when it leaves the connection
\* closed, a client that is there has its answer.
ReadsOrAnswers ==
    /\ wire' \in Seq(WireTokens)
    /\ Answered(wire) => Answered(wire')
    /\ open' \/ peer = "gone" \/ Answered(wire')
    /\ pc' \notin {"flush", "fail"}

\* What a callback of the reader says is appended to what was sent.
LEMMA SaidAnswers ==
    ASSUME AnswerInv, NEW said \in Seq(WireTokens), wire' = wire \o said
    PROVE  /\ wire' \in Seq(WireTokens)
           /\ Answered(wire) => Answered(wire')
<1>1. wire \in Seq(WireTokens)
  BY DEF AnswerInv
<1>2. wire \o said \in Seq(WireTokens)
  BY <1>1
<1>3. ASSUME Answered(wire) PROVE Answered(wire \o said)
  BY <1>1, <1>3, AnsweredStays
<1>. QED
  BY <1>2, <1>3

\* An exception leaves the socket to the timer that is pending.
LEMMA RaisesAnswers ==
    ASSUME AnswerInv, NEW said \in Seq(WireTokens), Raises(said)
    PROVE  ReadsOrAnswers
<1>1. wire' = wire \o said /\ pc' = "over" /\ open'
  BY DEF Raises, Dropped
<1>. QED
  BY <1>1, SaidAnswers DEF ReadsOrAnswers

\* A handler that is called leaves the connection open.
LEMMA FinalizeAnswers ==
    ASSUME AnswerInv, TimerInv, reg = "reader", NEW made, NEW requestBody,
           NEW said \in Seq(WireTokens), Finalize(made, requestBody, said)
    PROVE  ReadsOrAnswers
<1>1. CASE Raises(said)
  BY <1>1, RaisesAnswers
<1>2. CASE wire' = wire \o said /\ pc' = "turn" /\ open'
  BY <1>2, SaidAnswers DEF ReadsOrAnswers
<1>3. open
  BY DEF TimerInv
<1>. QED
  BY <1>1, <1>2, <1>3 DEF Finalize

\* The same, whichever handler it is.
LEMMA FinalizeRequestAnswers ==
    ASSUME AnswerInv, TimerInv, reg = "reader", NEW requestBody,
           NEW said \in Seq(WireTokens), FinalizeRequest(requestBody, said)
    PROVE  ReadsOrAnswers
BY FinalizeAnswers DEF FinalizeRequest

\* A callback that reads on leaves the connection open.
LEMMA ReadOnAnswers ==
    ASSUME AnswerInv, TimerInv, reg = "reader", NEW state \in Reading, NEW data,
           NEW said \in Seq(WireTokens), ReadOn(state, data, said)
    PROVE  ReadsOrAnswers
<1>1. wire' = wire \o said /\ pc' \in Reading /\ open' = open
  BY DEF ReadOn
<1>2. open
  BY DEF TimerInv
<1>. QED
  BY <1>1, <1>2, SaidAnswers DEF ReadsOrAnswers, Reading

\* A 400 is an answer, and is sent unless the client is gone.
LEMMA BadRequestAnswers ==
    ASSUME AnswerInv, NEW said \in Seq(WireTokens), BadRequest(said)
    PROVE  ReadsOrAnswers
<1>1. CASE peer = "gone"
  <2>1. wire' = wire \o said /\ pc' = "over"
    BY <1>1 DEF BadRequest, Dropped
  <2>. QED
    BY <1>1, <2>1, SaidAnswers DEF ReadsOrAnswers
<1>2. CASE peer # "gone"
  <2>1. wire' = (wire \o said) \o <<"400">> /\ pc' = "over"
    BY <1>2 DEF BadRequest
  <2>2. wire \o said \in Seq(WireTokens) /\ "400" \in WireTokens
    BY DEF AnswerInv, WireTokens
  <2>3. wire' \in Seq(WireTokens)
    BY <2>1, <2>2
  <2>4. LET i == Len(wire \o said) + 1 IN i \in DOMAIN wire' /\ wire'[i] = "400"
    BY <2>1, <2>2
  <2>. QED
    BY <2>1, <2>3, <2>4 DEF Answered, ReadsOrAnswers
<1>. QED
  BY <1>1, <1>2

\* A body that is read closes no connection without its 400.
LEMMA ReadBodyAnswers ==
    ASSUME AnswerInv, TimerInv, reg = "reader", NEW data,
           NEW said \in Seq(WireTokens), ReadBody(data, said)
    PROVE  ReadsOrAnswers
<1>. USE ReadOnAnswers, RaisesAnswers, FinalizeRequestAnswers
<1>1. CASE request.unknown /\ timer' = "pending" /\ BadRequest(said)
  BY <1>1, BadRequestAnswers
<1>2. CASE ReadChunks(data, said)
  BY <1>2 DEF ReadChunks, Reading
<1>3. CASE FinalizeRequest(<<>>, said)
  BY <1>3
<1>4. CASE ReadLength(data, said)
  BY <1>4 DEF ReadLength, Reading
<1>. QED
  BY <1>1, <1>2, <1>3, <1>4 DEF ReadBody

\* Nor does any state of the reader.
LEMMA DealAnswers ==
    ASSUME AnswerInv, TimerInv, reg = "reader", NEW data, Deal(data)
    PROVE  ReadsOrAnswers
<1>. USE ReadOnAnswers, RaisesAnswers, FinalizeRequestAnswers
<1>1. <<>> \in Seq(WireTokens) /\ <<"100">> \in Seq(WireTokens)
  BY DEF WireTokens
<1>2. ASSUME NEW d, ReadMultiForm(d) PROVE ReadsOrAnswers
  BY <1>1, <1>2 DEF ReadMultiForm, Reading
<1>3. ASSUME ReadHeaders(data) PROVE ReadsOrAnswers
  BY <1>1, <1>2, <1>3, FinalizeAnswers, ReadBodyAnswers DEF ReadHeaders, Reading
<1>. QED
  BY <1>1, <1>2, <1>3, ReadBodyAnswers DEF Deal

\* Data does not close a connection that is not answered.
LEMMA AnswerRecv ==
    ASSUME AnswerInv, TimerInv, NEW k \in 1..Len(unread), Recv(k)
    PROVE  AnswerInv'
<1>0. <<>> \in Seq(WireTokens)
  OBVIOUS
<1>1. ReadsOrAnswers
  <2>1. CASE timer = "stale"
    <3>1. peer = "gone" /\ Dropped(<<>>)
      BY <2>1 DEF Recv, TimerInv
    <3>2. wire' = wire \o <<>> /\ pc' = "over"
      BY <3>1 DEF Dropped
    <3>. QED
      BY <3>1, <3>2, <1>0, SaidAnswers DEF ReadsOrAnswers
  <2>2. CASE timer # "stale"
    BY <2>2, DealAnswers DEF Recv
  <2>. QED
    BY <2>1, <2>2
<1>2. UNCHANGED <<peer, rest, held, responseStarted>>
  BY DEF Recv, output, encoder
<1>. QED
  BY <1>1, <1>2 DEF ReadsOrAnswers, AnswerInv, AnsweredBeforeClosed

\* A close of the client is answered with a 400.
LEMMA AnswerRecvClosed ==
    ASSUME AnswerInv, TimerInv, RecvClosed
    PROVE  AnswerInv'
<1>1. <<>> \in Seq(WireTokens)
  OBVIOUS
<1>2. ReadsOrAnswers
  BY <1>1, BadRequestAnswers DEF RecvClosed
<1>3. UNCHANGED <<peer, rest, held, responseStarted>>
  BY DEF RecvClosed, output, encoder
<1>. QED
  BY <1>2, <1>3 DEF ReadsOrAnswers, AnswerInv, AnsweredBeforeClosed

\* The timer closes a connection with a 400, unless the client is gone; a
\* socket that it finds closed is closed already.
LEMMA AnswerTimedOut ==
    ASSUME AnswerInv, TimerInv, TimedOut
    PROVE  AnswerInv'
<1>1. UNCHANGED <<peer, rest, held, responseStarted>>
  BY DEF TimedOut, output, encoder
<1>2. CASE peer = "gone" \/ ~open
  <2>1. UNCHANGED <<wire, pc>> /\ (~open => ~open')
    BY <1>2 DEF TimedOut
  <2>. QED
    BY <1>1, <1>2, <2>1 DEF AnswerInv, AnsweredBeforeClosed
<1>3. CASE ~(peer = "gone" \/ ~open)
  <2>1. wire' = Append(wire, "400") /\ pc' = "over"
    BY <1>3 DEF TimedOut
  <2>2. wire \in Seq(WireTokens) /\ "400" \in WireTokens
    BY DEF AnswerInv, WireTokens
  <2>3. wire' \in Seq(WireTokens)
    BY <2>1, <2>2
  <2>4. LET i == Len(wire) + 1 IN i \in DOMAIN wire' /\ wire'[i] = "400"
    BY <2>1, <2>2
  <2>5. Answered(wire')
    BY <2>4 DEF Answered
  <2>. QED
    BY <1>1, <2>1, <2>3, <2>5 DEF AnswerInv, AnsweredBeforeClosed
<1>. QED
  BY <1>2, <1>3

\* A loop that has started sends something before it closes.
LEMMA AnswerWriteRest ==
    ASSUME AnswerInv, WriteRest
    PROVE  AnswerInv'
<1>1. UNCHANGED <<peer, held>> /\ rest # <<>> /\ wire \in Seq(WireTokens)
  BY DEF AnswerInv, WriteRest, input, encoder
<1>2. CASE Send(rest) /\ (IF rest' = <<>> /\ pc # "turn" THEN CloseConnection
                          ELSE UNCHANGED connection)
  <2>1. wire' \in Seq(WireTokens) /\ rest' \in Seq(Given) /\ Answered(wire')
    BY <1>1, <1>2, SendAnswers DEF AnswerInv
  <2>2. pc' \in {"flush", "fail"} => rest' # <<>>
    BY <1>2 DEF CloseConnection, connection
  <2>. QED
    BY <1>1, <2>1, <2>2 DEF AnswerInv, AnsweredBeforeClosed
<1>3. CASE SendFails
  BY <1>1, <1>3 DEF AnswerInv, AnsweredBeforeClosed, SendFails, CloseConnection
<1>. QED
  BY <1>2, <1>3 DEF WriteRest

\* What the socket takes of an item answers; the rest of it waits.
LEMMA OutAnswers ==
    ASSUME AnswerInv, reg = "writer", pc = "turn", UNCHANGED peer, open,
           NEW data \in Seq(Given), Out(data), held' \in Seq(Given)
    PROVE  AnswerInv'
<1>1. CASE data = <<>>
  BY <1>1 DEF Out, AnswerInv, AnsweredBeforeClosed, connection
<1>2. CASE data # <<>> /\ Send(data) /\ UNCHANGED connection
  <2>1. wire' \in Seq(WireTokens) /\ rest' \in Seq(Given) /\ Answered(wire')
    BY <1>2, SendAnswers DEF AnswerInv
  <2>2. pc' = "turn"
    BY <1>2 DEF connection
  <2>. QED
    BY <2>1, <2>2 DEF AnswerInv, AnsweredBeforeClosed
<1>3. CASE SendFails
  BY <1>3 DEF AnswerInv, AnsweredBeforeClosed, SendFails, CloseConnection
<1>. QED
  BY <1>1, <1>2, <1>3 DEF Out

\* An item, compressed or not, is a part of the answer.
LEMMA AnswerRespond ==
    ASSUME AnswerInv, TimerInv, NEW item \in {"head", "part", "data"}, Respond(item)
    PROVE  AnswerInv'
<1>1. reg = "writer" /\ pc = "turn" /\ UNCHANGED peer /\ open
  BY DEF Respond, Ask, Asks, input, TimerInv
<1>2. Bytes(item) \in Seq(Given) /\ <<>> \in Seq(Given) /\ held \in Seq(Given)
  BY DEF Bytes, Given, WireTokens, AnswerInv
<1>3. held \o Bytes(item) \in Seq(Given)
  BY <1>2
<1>4. PICK data \in {<<>>, Bytes(item), held \o Bytes(item)} :
          Out(data) /\ held' \in {<<>>, held, held \o Bytes(item)}
  BY DEF Respond, CompressItem, encoder
<1>5. data \in Seq(Given) /\ held' \in Seq(Given)
  BY <1>2, <1>3, <1>4
<1>. QED
  BY <1>1, <1>4, <1>5, OutAnswers

\* A handler that has answered nothing is answered for, with a 500.
LEMMA Start500Answers ==
    ASSUME AnswerInv, Start500,
           UNCHANGED <<peer, responseStarted, wire>>
    PROVE  AnswerInv'
<1>1. rest' \in Seq(Given) /\ held' \in Seq(Given) /\ rest' # <<>>
  BY DEF Start500, Given, WireTokens
<1>. QED
  BY <1>1 DEF Start500, AnswerInv, AnsweredBeforeClosed

\* A response that has started may be closed.
LEMMA CloseAnswers ==
    ASSUME AnswerInv, responseStarted, CloseConnection,
           UNCHANGED <<peer, responseStarted, wire, rest, held>>
    PROVE  AnswerInv'
BY DEF CloseConnection, AnswerInv, AnsweredBeforeClosed

\* The writer closes no connection without an answer.
LEMMA AnswerWrite ==
    ASSUME AnswerInv, TimerInv, Write
    PROVE  AnswerInv'
<1>1. CASE HandlerRaises
  <2>1. UNCHANGED <<peer, responseStarted, wire>>
    BY <1>1 DEF HandlerRaises, Ends, input
  <2>. QED
    BY <1>1, <2>1, Start500Answers, CloseAnswers DEF HandlerRaises
<1>2. CASE HandlerStops
  <2>1. UNCHANGED <<peer, responseStarted, wire>>
    BY <1>2 DEF HandlerStops, Ends, input
  <2>2. CASE encoding
    <3>1. /\ pc' = "flush" /\ held' = <<>> /\ UNCHANGED <<reg, open>>
          /\ rest' = (IF endHeader THEN held ELSE <<>>) \o <<"trailer">>
      BY <1>2, <2>2 DEF HandlerStops
    <3>2. <<"trailer">> \in Seq(Given) /\ held \in Seq(Given)
      BY DEF Given, WireTokens, AnswerInv
    <3>3. rest' \in Seq(Given) /\ rest' # <<>>
      BY <3>1, <3>2
    <3>. QED
      BY <2>1, <3>1, <3>3 DEF AnswerInv, AnsweredBeforeClosed
  <2>3. CASE ~encoding
    BY <1>2, <2>1, <2>3, Start500Answers, CloseAnswers DEF HandlerStops
  <2>. QED
    BY <2>2, <2>3
<1>3. CASE RespondLater \/ RespondSuspended \/ Resumed
  <2>1. UNCHANGED <<peer, open, output, wire>> /\ pc' \in {"turn", "suspended"}
    BY <1>3 DEF RespondLater, RespondSuspended, Resumed, Ask, Asks, input, connection
  <2>. QED
    BY <2>1 DEF AnswerInv, AnsweredBeforeClosed, output, encoder
<1>. QED
  BY <1>1, <1>2, <1>3, AnswerWriteRest, AnswerRespond DEF Write

\* What a client does closes nothing at this end.
LEMMA AnswerPeer ==
    ASSUME AnswerInv, Peer
    PROVE  AnswerInv'
BY DEF Peer, PeerCloses, PeerResets, AnswerInv, AnsweredBeforeClosed, output, encoder

\* No client that stays sees its connection closed without an answer, for any
\* request, any handler and any amount that the socket takes.
THEOREM AnswersBeforeClose == Spec => []AnsweredBeforeClosed
<1>1. Init => TimerInv /\ AnswerInv
  BY DEF Init, TimerInv, TimerGuardsRequest, Reading, Responding, AnswerInv,
         AnsweredBeforeClosed
<1>2. TimerInv /\ AnswerInv /\ [Next]_vars => TimerInv' /\ AnswerInv'
  <2>1. CASE UNCHANGED vars
    BY <2>1 DEF vars, input, TimerInv, TimerGuardsRequest, AnswerInv,
                AnsweredBeforeClosed, output, encoder, connection
  <2>2. ASSUME TimerInv, AnswerInv, Next PROVE TimerInv'
    BY <2>2, TimerRecv, TimerRecvClosed, TimerTimedOut, TimerWrite, TimerPeer DEF Next
  <2>3. ASSUME TimerInv, AnswerInv, Next PROVE AnswerInv'
    BY <2>3, AnswerRecv, AnswerRecvClosed, AnswerTimedOut, AnswerWrite, AnswerPeer
    DEF Next
  <2>. QED
    BY <2>1, <2>2, <2>3
<1>3. AnswerInv => AnsweredBeforeClosed
  BY DEF AnswerInv
<1>. QED
  BY <1>1, <1>2, <1>3, PTL DEF Spec

----------------------------------------------------------------------------
(* Types.                                                                     *)

\* The tokens of a request, and of what is given for it.
DataTypes ==
    /\ request \in Requests /\ unread \in Seq(RequestTokens)
    /\ buffer \in Seq(RequestTokens) /\ body \in Seq(RequestTokens)
    /\ script \in Scripts /\ produced \in Seq(Given)

\* The types of all that is not data.
StateTypes ==
    /\ peer \in {"up", "closed", "gone"}
    /\ pc \in Reading \cup Responding \cup {"over"}
    /\ reg \in {"none", "reader", "writer", "suspended"}
    /\ timer \in {"none", "pending", "stale"}
    /\ handler \in {"none", "running", "ended"}
    /\ {open, encoding, endHeader, responseStarted} \subseteq BOOLEAN

\* With what was proved of the output, that is all there is.
LEMMA TypesAreAll ==
    ASSUME DataTypes, StateTypes, AnswerInv, TimerInv
    PROVE  TypeOK
<1>1. Given \subseteq WireTokens
  BY DEF Given
<1>2. \A s \in {held, rest, wire, produced} : s \in Seq(WireTokens)
  BY <1>1 DEF DataTypes, AnswerInv
<1>. QED
  BY <1>2 DEF TypeOK, DataTypes, StateTypes, TimerInv

\* A part of a sequence of tokens is one, and so is the body in it.
LEMMA PartOfRequest ==
    ASSUME NEW s \in Seq(RequestTokens)
    PROVE  /\ OnlyData(s) \in Seq(RequestTokens)
           /\ \A m, n \in Nat : m >= 1 /\ n <= Len(s) =>
                 SubSeq(s, m, n) \in Seq(RequestTokens)
<1>1. OnlyData(s) \in Seq(RequestTokens)
  <2>1. {i \in 1..Len(s) : s[i] = "data"} \in SUBSET (1..Len(s))
    OBVIOUS
  <2>. QED
    BY <2>1, SelectionIsList DEF OnlyData
<1>2. ASSUME NEW m \in Nat, NEW n \in Nat, m >= 1, n <= Len(s)
      PROVE  SubSeq(s, m, n) \in Seq(RequestTokens)
  BY <1>2, SubSeqProperties, LenProperties, ElementOfSeq
<1>. QED
  BY <1>1, <1>2

\* Where the headers end is a place of what was read.
LEMMA MatchEndIsPlace ==
    ASSUME NEW data \in Seq(RequestTokens)
    PROVE  /\ MatchEnd(data) \in 0..Len(data)
           /\ SubSeq(data, MatchEnd(data) + 1, Len(data)) \in Seq(RequestTokens)
<1>. DEFINE ends == {i \in 1..Len(data) : data[i] = "end"}
<1>1. MatchEnd(data) = IF ends # {} THEN Min(ends) ELSE 0
  BY DEF MatchEnd, SelectInSeq
<1>2. ends \in SUBSET Nat /\ Len(data) \in Nat /\ ends \subseteq 1..Len(data)
  BY LenProperties
<1>. HIDE DEF ends
<1>3. ends # {} => Min(ends) \in ends
  BY <1>2, FirstOfSome DEF Min
<1>4. MatchEnd(data) \in 0..Len(data)
  <2>1. CASE ends = {}
    BY <1>1, <1>2, <2>1
  <2>2. CASE ends # {}
    <3>1. MatchEnd(data) \in 1..Len(data)
      BY <1>1, <1>2, <1>3, <2>2
    <3>. QED
      BY <1>2, <3>1
  <2>. QED
    BY <2>1, <2>2
<1>. QED
  BY <1>2, <1>4, PartOfRequest

\* The stream of a request consists of its tokens.
LEMMA StreamIsTokens ==
    ASSUME NEW q \in Requests
    PROVE  Stream(q) \in Seq(RequestTokens)
<1>. DEFINE header == <<"part", "end">>
            last == CASE q.kind = "chunked" -> <<"zero">>
                      [] q.kind = "multi" -> <<"boundary">>
                      [] OTHER -> <<>>
            excess == IF q.excess THEN <<"excess">> ELSE <<>>
<1>1. /\ "part" \in RequestTokens /\ "end" \in RequestTokens
      /\ "data" \in RequestTokens /\ "size" \in RequestTokens
      /\ "zero" \in RequestTokens /\ "boundary" \in RequestTokens
      /\ "excess" \in RequestTokens
  BY DEF RequestTokens
<1>2. header \in Seq(RequestTokens)
  BY <1>1
<1>3. BodyTokens(q) \in Seq(RequestTokens)
  <2>1. q.size \in Nat /\ q.kind \in Kinds
    BY HttpHandlerAssumption
  <2>2. CASE q.kind = "chunked"
    <3>1. BodyTokens(q) = [i \in 1..2 * q.size |-> IF i % 2 = 1 THEN "size" ELSE "data"]
      BY <2>2 DEF BodyTokens
    <3>2. BodyTokens(q) \in [1..2 * q.size -> RequestTokens] /\ 2 * q.size \in Nat
      BY <1>1, <2>1, <3>1
    <3>. QED
      BY <3>2, SeqDef
  <2>3. CASE q.kind \in {"length", "multi"}
    <3>1. BodyTokens(q) = [i \in 1..q.size |-> "data"]
      BY <2>3 DEF BodyTokens
    <3>2. BodyTokens(q) \in [1..q.size -> RequestTokens]
      BY <1>1, <3>1
    <3>. QED
      BY <2>1, <3>2, SeqDef
  <2>4. CASE q.kind \in {"get", "bare"}
    <3>1. BodyTokens(q) = <<>>
      BY <2>4 DEF BodyTokens
    <3>. QED
      BY <3>1, EmptySeq, Zenon
  <2>. QED
    BY <2>1, <2>2, <2>3, <2>4 DEF Kinds
<1>4. last \in Seq(RequestTokens)
  <2>1. CASE q.kind = "chunked"
    BY <1>1, <2>1
  <2>2. CASE q.kind = "multi"
    BY <1>1, <2>2
  <2>3. CASE q.kind \notin {"chunked", "multi"}
    <3>1. last = <<>>
      BY <2>3
    <3>. QED
      BY <3>1, EmptySeq, Zenon
  <2>. QED
    BY <2>1, <2>2, <2>3
<1>5. excess \in Seq(RequestTokens)
  BY <1>1, EmptySeq
<1>6. Stream(q) = ((header \o BodyTokens(q)) \o last) \o excess
  BY DEF Stream
<1>. HIDE DEF header, last, excess
<1>. QED
  BY <1>2, <1>3, <1>4, <1>5, <1>6, ConcatProperties

\* A callback of the reader leaves its data and the rest of its state typed.
ReadTyped ==
    /\ buffer' \in Seq(RequestTokens) /\ body' \in Seq(RequestTokens)
    /\ script' \in Scripts
    /\ pc' \in Reading \cup {"turn", "over"}
    /\ reg' \in {"none", "reader", "writer", "suspended"}
    /\ timer' \in {"none", "pending", "stale"}
    /\ handler' \in {"none", "running"} \cup {handler}
    /\ open' \in BOOLEAN

\* An exception changes no data.
LEMMA DroppedTyped ==
    ASSUME DataTypes, NEW said, Dropped(said), timer' \in {"none", "pending", "stale"}
    PROVE  ReadTyped
BY DEF Dropped, ReadTyped, DataTypes, given

\* A handler is made, and called with a body.
LEMMA FinalizeTyped ==
    ASSUME DataTypes, open \in BOOLEAN, NEW made \in Scripts,
           NEW requestBody \in Seq(RequestTokens), NEW said,
           Finalize(made, requestBody, said)
    PROVE  ReadTyped
<1>1. CASE Raises(said)
  BY <1>1, DroppedTyped DEF Raises
<1>2. CASE /\ handler' = "running" /\ script' = made /\ body' = requestBody
           /\ timer' = "none" /\ reg' = "writer" /\ pc' = "turn"
           /\ UNCHANGED <<buffer, open>>
  BY <1>2 DEF ReadTyped, DataTypes
<1>. QED
  BY <1>1, <1>2 DEF Finalize

\* So it is with any handler of the factory.
LEMMA FinalizeRequestTyped ==
    ASSUME DataTypes, open \in BOOLEAN, NEW requestBody \in Seq(RequestTokens), NEW said,
           FinalizeRequest(requestBody, said)
    PROVE  ReadTyped
<1>1. PICK made \in Handlers : Finalize(made, requestBody, said)
  BY DEF FinalizeRequest
<1>2. made \in Scripts
  BY HttpHandlerAssumption
<1>. QED
  BY <1>1, <1>2, FinalizeTyped

\* What was read is kept.
LEMMA ReadOnTyped ==
    ASSUME DataTypes, StateTypes, NEW state \in Reading, NEW data \in Seq(RequestTokens),
           NEW said, ReadOn(state, data, said)
    PROVE  ReadTyped
BY DEF ReadOn, ReadTyped, DataTypes, StateTypes, given

\* A 400 ends the reading.
LEMMA BadRequestTyped ==
    ASSUME DataTypes, NEW said, BadRequest(said), timer' \in {"none", "pending", "stale"}
    PROVE  ReadTyped
<1>1. CASE Dropped(said)
  BY <1>1, DroppedTyped
<1>2. CASE /\ pc' = "over" /\ reg' = "none" /\ open' = FALSE
           /\ UNCHANGED <<buffer, given>>
  BY <1>2 DEF ReadTyped, DataTypes, given
<1>. QED
  BY <1>1, <1>2 DEF BadRequest

\* A body is typed, read in whatever state.
LEMMA ReadBodyTyped ==
    ASSUME DataTypes, StateTypes, NEW data \in Seq(RequestTokens), NEW said,
           ReadBody(data, said)
    PROVE  ReadTyped
<1>1. OnlyData(data) \in Seq(RequestTokens) /\ open \in BOOLEAN
  BY PartOfRequest DEF StateTypes
<1>2. CASE request.unknown /\ timer' = "pending" /\ BadRequest(said)
  BY <1>2, BadRequestTyped
<1>3. ASSUME Raises(said) PROVE ReadTyped
  BY <1>3, DroppedTyped DEF Raises
<1>4. CASE ReadChunks(data, said)
  BY <1>1, <1>3, <1>4, ReadOnTyped, FinalizeRequestTyped DEF ReadChunks, Reading
<1>5. CASE FinalizeRequest(<<>>, said)
  <2>1. <<>> \in Seq(RequestTokens)
    BY EmptySeq, Zenon
  <2>. QED
    BY <1>1, <1>5, <2>1, FinalizeRequestTyped
<1>6. CASE ReadLength(data, said)
  BY <1>1, <1>3, <1>6, ReadOnTyped, FinalizeRequestTyped DEF ReadLength, Reading
<1>. QED
  BY <1>2, <1>4, <1>5, <1>6 DEF ReadBody

\* And so is a form.
LEMMA ReadMultiFormTyped ==
    ASSUME DataTypes, StateTypes, NEW data \in Seq(RequestTokens), ReadMultiForm(data)
    PROVE  ReadTyped
<1>1. OnlyData(data) \in Seq(RequestTokens) /\ open \in BOOLEAN
  BY PartOfRequest DEF StateTypes
<1>2. CASE ReadOn("multi", data, <<>>)
  BY <1>2, ReadOnTyped DEF Reading
<1>3. CASE Raises(<<>>)
  BY <1>3, DroppedTyped DEF Raises
<1>4. CASE FinalizeRequest(OnlyData(data), <<>>)
  BY <1>1, <1>4, FinalizeRequestTyped
<1>. QED
  BY <1>2, <1>3, <1>4 DEF ReadMultiForm

\* The header is kept until it is complete.
LEMMA ReadHeadersTyped ==
    ASSUME DataTypes, StateTypes, NEW data \in Seq(RequestTokens), ReadHeaders(data)
    PROVE  ReadTyped
<1>. DEFINE after == SubSeq(data, MatchEnd(data) + 1, Len(data))
            said == IF request.expect THEN <<"100">> ELSE <<>>
<1>1. after \in Seq(RequestTokens) /\ open \in BOOLEAN
  BY MatchEndIsPlace DEF StateTypes
<1>2. <<>> \in Seq(RequestTokens)
  BY EmptySeq, Zenon
<1>3. Refused \in Scripts
  BY DEF Refused, Scripts, Items
<1>. HIDE DEF after, said
<1>4. \/ ReadOn("headers", data, <<>>) \/ ReadMultiForm(after) \/ Raises(<<>>)
      \/ Finalize(Refused, <<>>, said) \/ FinalizeRequest(<<>>, said)
      \/ ReadBody(after, said)
  BY DEF ReadHeaders, after, said
<1>5. CASE ReadOn("headers", data, <<>>)
  BY <1>5, ReadOnTyped DEF Reading
<1>6. CASE Raises(<<>>)
  BY <1>6, DroppedTyped DEF Raises
<1>. QED
  BY <1>1, <1>2, <1>3, <1>4, <1>5, <1>6, ReadMultiFormTyped, FinalizeTyped,
     FinalizeRequestTyped, ReadBodyTyped

\* Every state of the reader keeps the types.
LEMMA DealTyped ==
    ASSUME DataTypes, StateTypes, NEW data \in Seq(RequestTokens), Deal(data)
    PROVE  ReadTyped
BY ReadHeadersTyped, ReadMultiFormTyped, ReadBodyTyped DEF Deal

\* So do all steps.
LEMMA TypesStep ==
    ASSUME DataTypes, StateTypes, AnswerInv, TimerInv, Next
    PROVE  DataTypes' /\ StateTypes'
<1>1. ASSUME ReadTyped, UNCHANGED <<request, peer, output>>,
             unread' \in Seq(RequestTokens)
      PROVE  DataTypes' /\ StateTypes'
  <2>1. UNCHANGED <<encoding, endHeader, responseStarted, produced>>
    BY <1>1 DEF output, encoder
  <2>2. DataTypes'
    BY <1>1, <2>1 DEF ReadTyped, DataTypes
  <2>3. StateTypes'
    BY <1>1, <2>1 DEF ReadTyped, StateTypes, Responding
  <2>. QED
    BY <2>2, <2>3
<1>2. ASSUME NEW k \in 1..Len(unread), Recv(k) PROVE DataTypes' /\ StateTypes'
  <2>1. /\ SubSeq(unread, 1, k) \in Seq(RequestTokens)
        /\ SubSeq(unread, k + 1, Len(unread)) \in Seq(RequestTokens)
        /\ buffer \in Seq(RequestTokens)
    BY SMTT(30), PartOfRequest, LenProperties DEF DataTypes
  <2>2. buffer \o SubSeq(unread, 1, k) \in Seq(RequestTokens)
    BY <2>1, ConcatProperties
  <2>3. CASE timer = "stale"
    BY <1>1, <1>2, <2>1, <2>3, DroppedTyped DEF Recv, StateTypes
  <2>4. CASE timer # "stale"
    BY <1>1, <1>2, <2>1, <2>2, <2>4, DealTyped DEF Recv
  <2>. QED
    BY <2>3, <2>4
<1>3. CASE RecvClosed
  BY <1>1, <1>3, BadRequestTyped DEF RecvClosed, StateTypes, DataTypes
<1>4. CASE TimedOut
  <2>1. UNCHANGED <<request, unread, peer, buffer, given, output>>
    BY <1>4 DEF TimedOut
  <2>2. open' \in BOOLEAN /\ pc' \in {pc, "over"} /\ reg' \in {reg, "none"}
        /\ timer' = "stale"
    BY <1>4 DEF TimedOut
  <2>. QED
    BY <2>1, <2>2 DEF DataTypes, StateTypes, given, output, encoder
<1>5. CASE Peer
  BY <1>5 DEF Peer, PeerCloses, PeerResets, DataTypes, StateTypes, given, output, encoder
<1>6. ASSUME UNCHANGED <<input, script, produced>>, UNCHANGED connection \/ CloseConnection,
             {encoding', endHeader', responseStarted'} \subseteq BOOLEAN
      PROVE  DataTypes' /\ StateTypes'
  BY <1>6 DEF DataTypes, StateTypes, input, connection, CloseConnection, Responding
<1>7. CASE WriteRest
  <2>1. /\ UNCHANGED <<input, script, encoder, produced>>
        /\ UNCHANGED connection \/ CloseConnection
    BY <1>7 DEF WriteRest, SendFails
  <2>2. responseStarted' \in BOOLEAN
    BY <1>7 DEF WriteRest
  <2>. QED
    BY <1>6, <2>1, <2>2 DEF encoder, StateTypes
<1>8. ASSUME Start500, UNCHANGED <<input, script, encoding, endHeader, responseStarted,
                                   produced>>
      PROVE  DataTypes' /\ StateTypes'
  BY <1>8 DEF Start500, DataTypes, StateTypes, input, Responding
<1>9. CASE HandlerRaises
  <2>1. UNCHANGED <<input, script, encoding, endHeader, responseStarted, produced>>
    BY <1>9 DEF HandlerRaises, Ends
  <2>. QED
    BY <1>6, <1>8, <1>9, <2>1 DEF HandlerRaises, StateTypes
<1>10. CASE HandlerStops
  <2>1. UNCHANGED <<input, script, encoding, endHeader, responseStarted, produced>>
    BY <1>10 DEF HandlerStops, Ends
  <2>2. CASE encoding
    BY <1>10, <2>1, <2>2 DEF HandlerStops, DataTypes, StateTypes, input, Responding
  <2>. QED
    BY <1>6, <1>8, <1>10, <2>1, <2>2 DEF HandlerStops, StateTypes
<1>11. ASSUME NEW item, Ask(item)
       PROVE  script' \in Scripts /\ UNCHANGED input
  <2>1. script \in Scripts /\ script.yields # <<>>
    BY <1>11 DEF Ask, DataTypes
  <2>2. Tail(script.yields) \in Seq(Items)
    BY <2>1, HeadTailProperties DEF Scripts
  <2>. QED
    BY <1>11, <2>1, <2>2 DEF Ask, Scripts
<1>12. CASE RespondLater
  BY <1>11, <1>12 DEF RespondLater, DataTypes, StateTypes, input, connection, output, encoder
<1>13. CASE RespondSuspended
  BY <1>11, <1>13
  DEF RespondSuspended, DataTypes, StateTypes, input, output, encoder, Responding
<1>14. CASE Resumed
  BY <1>14 DEF Resumed, DataTypes, StateTypes, input, output, encoder, Responding
<1>15. ASSUME NEW item \in {"head", "part", "data"}, Respond(item)
       PROVE  DataTypes' /\ StateTypes'
  <2>1. script' \in Scripts /\ UNCHANGED input
    BY <1>11, <1>15 DEF Respond
  <2>2. produced' \in Seq(Given)
    <3>1. Bytes(item) \in Seq(Given)
      BY DEF Bytes, Given, WireTokens
    <3>. QED
      BY <1>15, <3>1, ConcatProperties DEF Respond, DataTypes
  <2>3. PICK data : Out(data)
    BY <1>15 DEF Respond, CompressItem
  <2>4. (UNCHANGED connection \/ CloseConnection) /\ responseStarted' \in BOOLEAN
    BY <2>3 DEF Out, SendFails, StateTypes
  <2>5. encoding' \in BOOLEAN /\ endHeader' \in BOOLEAN
    BY <1>15 DEF Respond, encoder, StateTypes
  <2>. QED
    BY <2>1, <2>2, <2>4, <2>5
    DEF DataTypes, StateTypes, input, connection, CloseConnection, Responding
<1>. QED
  BY <1>2, <1>3, <1>4, <1>5, <1>7, <1>9, <1>10, <1>12, <1>13, <1>14, <1>15 DEF Next, Write

----------------------------------------------------------------------------
(* What is sent.                                                              *)

\* The bytes of a response, and what can be sent before an answer.
Content == {"head", "part", "data", "trailer"}
Befores == IF request.expect THEN {<<>>, <<"100">>} ELSE {<<>>}

\* The answer is `said', by the place of the connection: nothing while it reads,
\* then, with what waits, what the handler has yielded; then a 500 or the end of
\* the compressed data; a 400 only where no handler was called.
SaidInv(before, said) ==
    /\ wire = before \o said
    /\ said \in Seq(Content) \cup Seq({"500"}) \cup {<<"400">>}
    /\ pc \in Reading \/ (open /\ pc = "over") => said = <<>>
    /\ pc = "headers" => before = <<>>
    /\ pc \in {"turn", "suspended"} =>
          /\ said \in Seq(Content) /\ rest \in Seq(Content) /\ held \in Seq(Content)
          /\ said \o rest \o held = produced
          /\ ~responseStarted => said = <<>>
          /\ ~encoding => held = <<>>
          /\ pc = "suspended" => rest = <<>>
    /\ pc = "flush" =>
          /\ said \in Seq(Content) /\ rest \in Seq(Content) /\ encoding
          /\ endHeader => said \o rest = produced \o <<"trailer">>
    /\ pc = "fail" =>
          /\ said \in Seq({"500"}) /\ rest \in Seq({"500"})
          /\ script.end = "stop" =>
                said \o rest = <<"500", "500">> /\ produced = <<>>
    /\ pc = "over" /\ handler = "ended" =>
          /\ peer # "gone" /\ script.end = "stop" /\ ~(encoding /\ ~endHeader) =>
             \E after \in {<<>>, <<"trailer">>, <<"500", "500">>} :
                /\ said = produced \o after
                /\ after = <<"500", "500">> => produced = <<>>

\* The handler runs while its response is given, and has given nothing before.
HandlerInv ==
    /\ pc \in Reading => handler = "none"
    /\ handler = "running" <=> pc \in {"turn", "suspended"}
    /\ pc \in {"flush", "fail"} => handler = "ended"
    /\ handler = "none" => /\ produced = <<>> /\ held = <<>> /\ rest = <<>>
                           /\ ~responseStarted /\ ~endHeader
    /\ pc = "over" /\ handler = "ended" => ~open
    /\ pc = "over" => reg = "none"
    /\ reg = "writer" => pc \in Responding

OutputInv ==
    HandlerInv /\ \E before \in Befores : \E said \in Seq(WireTokens) :
                     SaidInv(before, said)

\* What can be said before an answer.
LEMMA BeforesTyped ==
    /\ <<>> \in Seq(WireTokens) /\ <<"100">> \in Seq(WireTokens)
    /\ \A now \in Befores : now \in Seq(WireTokens)
<1>1. <<>> \in Seq(WireTokens)
  BY EmptySeq
<1>2. <<"100">> \in Seq(WireTokens)
  BY DEF WireTokens
<1>3. \A now \in Befores : now = <<>> \/ now = <<"100">>
  BY DEF Befores
<1>. QED
  BY <1>1, <1>2, <1>3, Zenon

\* While the request is read, nothing but a 100 Continue was said, and nothing
\* at all before its headers are there.
LEMMA ReadingIsSilent ==
    ASSUME OutputInv, pc \in Reading
    PROVE  wire \in Befores /\ (pc = "headers" => wire = <<>>)
<1>1. PICK before \in Befores : \E said \in Seq(WireTokens) : SaidInv(before, said)
  BY DEF OutputInv
<1>2. PICK said \in Seq(WireTokens) : SaidInv(before, said)
  BY <1>1
<1>3. wire = before \o <<>> /\ (pc = "headers" => before = <<>>)
  BY <1>2 DEF SaidInv
<1>4. before \in Seq(WireTokens)
  BY BeforesTyped
<1>5. wire = before
  BY <1>3, <1>4, ConcatEmptySeq
<1>. QED
  BY <1>3, <1>5

\* A callback of the reader reads on, drops the reader or calls a handler, with
\* nothing but a 100 Continue before, or gives a 400 and closes.
DealtWith ==
    \E now \in Befores :
        \/ /\ wire' = now /\ pc' \in Reading \cup {"over"}
           /\ handler' = handler /\ reg' \in {"none", "reader"}
           /\ pc' = "headers" => now = <<>>
           /\ pc' = "over" => reg' = "none"
        \/ wire' = now /\ pc' = "turn" /\ handler' = "running"
        \/ /\ wire' = now \o <<"400">>
           /\ pc' = "over" /\ ~open' /\ handler' = handler /\ reg' = "none"

\* An exception says no more.
LEMMA DroppedDeals ==
    ASSUME NEW said, wire \o said \in Befores, Dropped(said)
    PROVE  DealtWith
BY DEF Dropped, DealtWith, given, Reading

\* A handler is called, or an exception goes up.
LEMMA FinalizeDeals ==
    ASSUME NEW made, NEW requestBody, NEW said, wire \o said \in Befores,
           Finalize(made, requestBody, said)
    PROVE  DealtWith
BY DroppedDeals DEF Finalize, Raises, DealtWith

\* The same, whichever handler it is.
LEMMA FinalizeRequestDeals ==
    ASSUME NEW requestBody, NEW said, wire \o said \in Befores,
           FinalizeRequest(requestBody, said)
    PROVE  DealtWith
BY FinalizeDeals DEF FinalizeRequest

\* Reading on says nothing more.
LEMMA ReadOnDeals ==
    ASSUME reg = "reader", NEW state \in Reading, NEW data, NEW said,
           wire \o said \in Befores, state = "headers" => wire \o said = <<>>,
           ReadOn(state, data, said)
    PROVE  DealtWith
BY DEF ReadOn, DealtWith, given, Reading

\* One 400, when it can be sent.
LEMMA BadRequestDeals ==
    ASSUME NEW said, wire \o said \in Befores, BadRequest(said),
           wire \in Seq(WireTokens), said \in Seq(WireTokens)
    PROVE  DealtWith
<1>1. CASE peer = "gone"
  BY <1>1, DroppedDeals DEF BadRequest
<1>2. CASE peer # "gone"
  <2>1. /\ wire' = (wire \o said) \o <<"400">>
        /\ pc' = "over" /\ reg' = "none" /\ ~open' /\ handler' = handler
    BY <1>2 DEF BadRequest, given
  <2>. QED
    BY <2>1 DEF DealtWith
<1>. QED
  BY <1>1, <1>2

\* A form is read without a word.
LEMMA ReadMultiFormDeals ==
    ASSUME reg = "reader", NEW data, wire \o <<>> \in Befores, ReadMultiForm(data)
    PROVE  DealtWith
<1>1. CASE ReadOn("multi", data, <<>>)
  BY <1>1, ReadOnDeals DEF Reading
<1>2. CASE Raises(<<>>)
  BY <1>2, DroppedDeals DEF Raises
<1>3. CASE FinalizeRequest(OnlyData(data), <<>>)
  BY <1>3, FinalizeRequestDeals
<1>. QED
  BY <1>1, <1>2, <1>3 DEF ReadMultiForm

\* Nothing but a 400 is said of a body.
LEMMA ReadBodyDeals ==
    ASSUME reg = "reader", NEW data, NEW said, wire \o said \in Befores,
           wire \in Seq(WireTokens), said \in Seq(WireTokens), ReadBody(data, said)
    PROVE  DealtWith
<1>1. CASE request.unknown /\ timer' = "pending" /\ BadRequest(said)
  BY <1>1, BadRequestDeals
<1>2. CASE ReadChunks(data, said)
  BY <1>2, ReadOnDeals, DroppedDeals, FinalizeRequestDeals
  DEF ReadChunks, Raises, Reading
<1>3. CASE FinalizeRequest(<<>>, said)
  BY <1>3, FinalizeRequestDeals
<1>4. CASE ReadLength(data, said)
  BY <1>4, ReadOnDeals, DroppedDeals, FinalizeRequestDeals
  DEF ReadLength, Raises, Reading
<1>. QED
  BY <1>1, <1>2, <1>3, <1>4 DEF ReadBody

\* A 100 Continue is said once the headers are there, and before anything else.
LEMMA DealDeals ==
    ASSUME OutputInv, pc \in Reading, reg = "reader", wire \in Seq(WireTokens),
           NEW data, Deal(data)
    PROVE  DealtWith
<1>1. wire \in Befores /\ (pc = "headers" => wire = <<>>)
  BY ReadingIsSilent
<1>2. wire \o <<>> \in Befores /\ <<>> \in Seq(WireTokens)
  BY <1>1, ConcatEmptySeq, EmptySeq
<1>3. CASE pc = "headers" /\ ReadHeaders(data)
  <2>. DEFINE said == IF request.expect THEN <<"100">> ELSE <<>>
              after == SubSeq(data, MatchEnd(data) + 1, Len(data))
  <2>1. said \in Seq(WireTokens)
    BY BeforesTyped
  <2>2. wire \o said \in Befores
    <3>1. wire \o said = said
      BY <1>1, <1>3, <2>1, ConcatEmptySeq
    <3>. QED
      BY <3>1 DEF Befores
  <2>. HIDE DEF said, after
  <2>3. CASE ReadOn("headers", data, <<>>)
    BY <1>1, <1>2, <1>3, <2>3, ReadOnDeals, ConcatEmptySeq DEF Reading
  <2>4. CASE ReadMultiForm(after)
    BY <1>2, <2>4, ReadMultiFormDeals
  <2>5. CASE Raises(<<>>)
    BY <1>2, <2>5, DroppedDeals DEF Raises
  <2>6. CASE Finalize(Refused, <<>>, said)
    BY <2>2, <2>6, FinalizeDeals
  <2>7. CASE FinalizeRequest(<<>>, said)
    BY <2>2, <2>7, FinalizeRequestDeals
  <2>8. CASE ReadBody(after, said)
    BY <2>1, <2>2, <2>8, ReadBodyDeals
  <2>9. \/ ReadOn("headers", data, <<>>) \/ ReadMultiForm(after) \/ Raises(<<>>)
        \/ Finalize(Refused, <<>>, said) \/ FinalizeRequest(<<>>, said)
        \/ ReadBody(after, said)
    BY <1>3 DEF ReadHeaders, said, after
  <2>. QED
    BY <2>3, <2>4, <2>5, <2>6, <2>7, <2>8, <2>9
<1>4. CASE pc = "multi" /\ ReadMultiForm(data)
  BY <1>2, <1>4, ReadMultiFormDeals
<1>5. CASE ReadBody(data, <<>>)
  BY <1>2, <1>5, ReadBodyDeals
<1>. QED
  BY <1>3, <1>4, <1>5 DEF Deal

\* So nothing but one 400 follows what was said while the request was read.
LEMMA OutputRead ==
    ASSUME OutputInv, pc \in Reading, DealtWith, UNCHANGED <<request, output>>
    PROVE  OutputInv'
<1>1. /\ handler = "none"
      /\ produced' = <<>> /\ held' = <<>> /\ rest' = <<>>
      /\ ~responseStarted' /\ ~endHeader'
  BY DEF OutputInv, HandlerInv, output, encoder
<1>2. PICK now \in Befores :
        \/ /\ wire' = now /\ pc' \in Reading \cup {"over"}
           /\ handler' = handler /\ reg' \in {"none", "reader"}
           /\ pc' = "headers" => now = <<>>
           /\ pc' = "over" => reg' = "none"
        \/ wire' = now /\ pc' = "turn" /\ handler' = "running"
        \/ /\ wire' = now \o <<"400">>
           /\ pc' = "over" /\ ~open' /\ handler' = handler /\ reg' = "none"
  BY DEF DealtWith
<1>3. HandlerInv'
  BY <1>1, <1>2 DEF HandlerInv, Reading, Responding
<1>4. Befores' = Befores
  BY DEF Befores
<1>5. now \in Seq(WireTokens)
  BY BeforesTyped
<1>6. now \o <<>> = now /\ \A S : <<>> \in Seq(S)
  BY <1>5, ConcatEmptySeq, EmptySeq
<1>7. <<>> \o <<>> = <<>>
  BY <1>6, ConcatEmptySeq
<1>8. CASE wire' = now /\ pc' \in Reading \cup {"over"} /\ handler' = handler
           /\ (pc' = "headers" => now = <<>>)
  <2>1. SaidInv(now, <<>>)'
    BY <1>1, <1>6, <1>8 DEF SaidInv, Reading
  <2>. QED
    BY <1>3, <1>4, <1>6, <2>1 DEF OutputInv
<1>9. CASE wire' = now /\ pc' = "turn" /\ handler' = "running"
  <2>1. SaidInv(now, <<>>)'
    BY <1>1, <1>6, <1>7, <1>9 DEF SaidInv, Reading
  <2>. QED
    BY <1>3, <1>4, <1>6, <2>1 DEF OutputInv
<1>10. CASE wire' = now \o <<"400">> /\ pc' = "over" /\ ~open' /\ handler' = handler
  <2>1. SaidInv(now, <<"400">>)'
    BY <1>1, <1>10 DEF SaidInv, Reading
  <2>2. <<"400">> \in Seq(WireTokens)
    BY DEF WireTokens
  <2>. QED
    BY <1>3, <1>4, <2>1, <2>2 DEF OutputInv
<1>. QED
  BY <1>2, <1>8, <1>9, <1>10

\* Data is dealt with; when the timer has fired at a client that is gone, the
\* exception of its removal says nothing.
LEMMA OutputRecv ==
    ASSUME OutputInv, TimerInv, AnswerInv, NEW k \in 1..Len(unread), Recv(k)
    PROVE  OutputInv'
<1>1. pc \in Reading /\ wire \in Seq(WireTokens) /\ reg = "reader"
  BY DEF TimerInv, AnswerInv, Recv
<1>2. wire \o <<>> \in Befores
  BY <1>1, ReadingIsSilent, ConcatEmptySeq
<1>3. DealtWith
  BY <1>1, <1>2, DroppedDeals, DealDeals DEF Recv
<1>. QED
  BY <1>1, <1>3, OutputRead DEF Recv

\* A close while the request is read is answered with one 400.
LEMMA OutputRecvClosed ==
    ASSUME OutputInv, TimerInv, AnswerInv, RecvClosed
    PROVE  OutputInv'
<1>1. pc \in Reading /\ wire \in Seq(WireTokens) /\ <<>> \in Seq(WireTokens)
  BY EmptySeq DEF TimerInv, AnswerInv, RecvClosed
<1>2. wire \o <<>> \in Befores
  BY <1>1, ReadingIsSilent, ConcatEmptySeq
<1>3. DealtWith
  BY <1>1, <1>2, BadRequestDeals DEF RecvClosed
<1>. QED
  BY <1>1, <1>3, OutputRead DEF RecvClosed

\* The timer fires at no response, and its 400 is the answer of a connection
\* that had none.
LEMMA OutputTimedOut ==
    ASSUME OutputInv, TimerInv, AnswerInv, StateTypes, TimedOut
    PROVE  OutputInv'
<1>1. /\ pc \in Reading \cup {"over"}
      /\ UNCHANGED <<request, handler, script, produced, rest, held, responseStarted,
                     encoding, endHeader>>
      /\ peer' = peer
  BY DEF TimedOut, TimerInv, TimerGuardsRequest, StateTypes, given, output, encoder
<1>2. PICK before \in Befores : \E said \in Seq(WireTokens) : SaidInv(before, said)
  BY DEF OutputInv
<1>3. PICK said \in Seq(WireTokens) : SaidInv(before, said)
  BY <1>2
<1>4. Befores' = Befores
  BY <1>1 DEF Befores
<1>5. CASE peer = "gone" \/ ~open
  <2>1. UNCHANGED <<wire, pc, reg>> /\ (open' => open)
    BY <1>5 DEF TimedOut
  <2>2. HandlerInv'
    BY <1>1, <2>1 DEF OutputInv, HandlerInv, Reading, Responding
  <2>3. SaidInv(before, said)'
    BY <1>1, <1>3, <2>1 DEF SaidInv, Reading, Responding
  <2>. QED
    BY <1>4, <2>2, <2>3 DEF OutputInv
<1>6. CASE ~(peer = "gone" \/ ~open)
  <2>1. wire' = Append(wire, "400") /\ pc' = "over" /\ reg' = "none" /\ open' = FALSE
    BY <1>6 DEF TimedOut
  <2>2. HandlerInv'
    BY <1>1, <2>1 DEF OutputInv, HandlerInv, Reading, Responding
  <2>3. wire = before
    <3>1. wire = before \o <<>>
      BY <1>1, <1>3, <1>6 DEF SaidInv
    <3>. QED
      BY <3>1, BeforesTyped, ConcatEmptySeq
  <2>4. wire' = before \o <<"400">>
    BY <2>1, <2>3, BeforesTyped, AppendIsConcat DEF WireTokens
  <2>5. handler' # "ended"
    BY <1>1, <1>6 DEF OutputInv, HandlerInv
  <2>6. SaidInv(before, <<"400">>)'
    BY <2>1, <2>4, <2>5 DEF SaidInv, Reading
  <2>7. <<"400">> \in Seq(WireTokens)
    BY DEF WireTokens
  <2>. QED
    BY <1>4, <2>2, <2>6, <2>7 DEF OutputInv
<1>. QED
  BY <1>5, <1>6

\* A client that goes away says nothing.
LEMMA OutputPeer ==
    ASSUME OutputInv, Peer
    PROVE  OutputInv'
<1>1. /\ UNCHANGED <<request, pc, reg, open, wire, handler, script, produced, rest, held,
                     responseStarted, encoding, endHeader>>
      /\ peer' # "gone" => peer # "gone"
  BY DEF Peer, PeerCloses, PeerResets, given, output, encoder
<1>2. PICK before \in Befores : \E said \in Seq(WireTokens) : SaidInv(before, said)
  BY DEF OutputInv
<1>3. PICK said \in Seq(WireTokens) : SaidInv(before, said)
  BY <1>2
<1>4. Befores' = Befores /\ HandlerInv'
  BY <1>1 DEF Befores, OutputInv, HandlerInv
<1>5. SaidInv(before, said)'
  BY <1>1, <1>3 DEF SaidInv
<1>. QED
  BY <1>4, <1>5 DEF OutputInv

\* The socket has taken a first part of the data behind what was said.
Moved(S, before, said, data) ==
    \E now \in Seq(S) : /\ wire' = before \o now /\ rest' \in Seq(S)
                        /\ now \o rest' = said \o data

\* However little of it the socket takes, what was said and what waits make
\* together what was there before.
LEMMA SendMoves ==
    ASSUME NEW S \in SUBSET WireTokens, NEW before \in Seq(WireTokens),
           NEW said \in Seq(S), wire = before \o said,
           NEW data \in Seq(S), Send(data)
    PROVE  Moved(S, before, said, data)
<1>1. PICK k \in 1..Len(data) : /\ wire' = wire \o SubSeq(data, 1, k)
                                /\ rest' = SubSeq(data, k + 1, Len(data))
  BY DEF Send
<1>2. /\ Len(data) \in Nat /\ k \in Nat /\ 1 <= k /\ k <= Len(data)
      /\ k + 1 \in Nat /\ k + 1 <= Len(data) + 1
  BY <1>1, LenProperties
<1>. DEFINE sent == SubSeq(data, 1, k)
            left == SubSeq(data, k + 1, Len(data))
<1>3. sent \in Seq(S) /\ left \in Seq(S)
  BY <1>2, SubSeqProperties, ElementOfSeq
<1>4. sent \o left = data
  <2>1. SubSeq(data, 1, k) \o SubSeq(data, k + 1, Len(data)) = SubSeq(data, 1, Len(data))
    BY <1>2, ConcatAdjacentSubSeq
  <2>2. SubSeq(data, 1, Len(data)) = data
    BY SubSeqFull
  <2>. QED
    BY <2>1, <2>2
<1>5. said \in Seq(WireTokens) /\ sent \in Seq(WireTokens)
  BY <1>3, SeqMonotonic
<1>. HIDE DEF sent, left
<1>6. before \o (said \o sent) = wire \o sent
  <2>1. (before \o said) \o sent = before \o (said \o sent)
    BY SMTT(30), <1>5
  <2>. QED
    BY <2>1
<1>7. (said \o sent) \o left = said \o data
  <2>1. (said \o sent) \o left = said \o (sent \o left)
    BY SMTT(30), <1>3
  <2>. QED
    BY <1>4, <2>1
<1>8. said \o sent \in Seq(S)
  BY <1>3, ConcatProperties
<1>9. wire' = wire \o sent /\ rest' = left
  BY <1>1 DEF sent, left
<1>. QED
  BY <1>3, <1>6, <1>7, <1>8, <1>9 DEF Moved

\* When a send fails the client is gone, and nothing more is said.
LEMMA OutputSendFails ==
    ASSUME OutputInv, reg = "writer", SendFails, UNCHANGED <<request, peer>>
    PROVE  OutputInv'
<1>1. PICK before \in Befores : \E said \in Seq(WireTokens) : SaidInv(before, said)
  BY DEF OutputInv
<1>2. PICK said \in Seq(WireTokens) : SaidInv(before, said)
  BY <1>1
<1>3. /\ peer' = "gone" /\ wire' = wire /\ pc' = "over" /\ handler' = "ended"
      /\ open' = FALSE /\ reg' = "none"
  BY DEF SendFails, CloseConnection
<1>4. Befores' = Befores /\ HandlerInv'
  BY <1>3 DEF Befores, HandlerInv, Reading
<1>5. SaidInv(before, said)'
  BY <1>2, <1>3 DEF SaidInv, Reading
<1>. QED
  BY <1>4, <1>5 DEF OutputInv

\* What waits is sent in its order; a loop that has sent the last of it closes.
LEMMA OutputWriteRest ==
    ASSUME OutputInv, StateTypes, WriteRest
    PROVE  OutputInv'
<1>1. /\ UNCHANGED <<input, script, encoder, produced>> /\ reg = "writer"
      /\ rest # <<>> /\ responseStarted' = (responseStarted \/ pc # "fail")
  BY DEF WriteRest
<1>2. CASE SendFails
  BY <1>1, <1>2, OutputSendFails DEF input
<1>3. CASE /\ Send(rest)
           /\ IF rest' = <<>> /\ pc # "turn" THEN CloseConnection
              ELSE UNCHANGED connection
  <2>1. PICK before \in Befores : \E said \in Seq(WireTokens) : SaidInv(before, said)
    BY DEF OutputInv
  <2>2. PICK said \in Seq(WireTokens) : SaidInv(before, said)
    BY <2>1
  <2>3. /\ before \in Seq(WireTokens) /\ Befores' = Befores /\ peer # "gone"
        /\ wire = before \o said /\ pc \in {"turn", "flush", "fail"}
        /\ peer' = peer
    BY <1>1, <1>3, <2>2, BeforesTyped
    DEF Befores, input, Send, SaidInv, OutputInv, HandlerInv, Responding
  <2>4. HandlerInv'
    BY <1>1, <1>3, <2>3
    DEF OutputInv, HandlerInv, CloseConnection, connection, Reading, Responding
  <2>5. ASSUME NEW S \in SUBSET WireTokens, said \in Seq(S), rest \in Seq(S)
        PROVE  \E now \in Seq(S) : /\ wire' = before \o now /\ rest' \in Seq(S)
                                   /\ now \o rest' = said \o rest
    <3>1. Send(rest) /\ wire = before \o said /\ before \in Seq(WireTokens)
      BY <1>3, <2>3
    <3>2. Moved(S, before, said, rest)
      BY <2>5, <3>1, SendMoves
    <3>. QED
      BY <3>2 DEF Moved
  <2>6. CASE pc = "turn"
    <3>1. /\ said \in Seq(Content) /\ rest \in Seq(Content) /\ held \in Seq(Content)
          /\ said \o rest \o held = produced /\ (~encoding => held = <<>>)
      BY <2>2, <2>6 DEF SaidInv
    <3>2. PICK now \in Seq(Content) : /\ wire' = before \o now
                                      /\ rest' \in Seq(Content)
                                      /\ now \o rest' = said \o rest
      BY <2>5, <3>1 DEF Content, WireTokens
    <3>3. now \o rest' \o held' = produced' /\ held' = held
      BY <1>1, <3>1, <3>2 DEF encoder
    <3>4. pc' = "turn" /\ responseStarted' /\ (~encoding' => held' = <<>>)
      BY <1>1, <1>3, <2>6, <3>1 DEF connection, encoder
    <3>5. SaidInv(before, now)'
      BY <3>1, <3>2, <3>3, <3>4 DEF SaidInv, Reading
    <3>6. now \in Seq(WireTokens)
      BY <3>2 DEF Content, WireTokens
    <3>. QED
      BY <2>3, <2>4, <3>5, <3>6 DEF OutputInv
  <2>7. CASE pc = "flush"
    <3>1. /\ said \in Seq(Content) /\ rest \in Seq(Content) /\ encoding
          /\ endHeader => said \o rest = produced \o <<"trailer">>
      BY <2>2, <2>7 DEF SaidInv
    <3>2. PICK now \in Seq(Content) : /\ wire' = before \o now
                                      /\ rest' \in Seq(Content)
                                      /\ now \o rest' = said \o rest
      BY <2>5, <3>1 DEF Content, WireTokens
    <3>3. now \in Seq(WireTokens)
      BY <3>2 DEF Content, WireTokens
    <3>4. produced' = produced /\ endHeader' = endHeader /\ encoding' = encoding
      BY <1>1 DEF encoder
    <3>5. CASE rest' = <<>>
      <4>1. pc' = "over" /\ handler' = "ended" /\ open' = FALSE
        BY <1>3, <2>7, <3>5 DEF CloseConnection
      <4>2. now \o rest' = now
        BY <3>2, <3>5, ConcatEmptySeq
      <4>3. endHeader => now = produced \o <<"trailer">>
        BY <3>1, <3>2, <4>2
      <4>4. SaidInv(before, now)'
        BY <3>1, <3>2, <3>4, <4>1, <4>3 DEF SaidInv, Reading
      <4>. QED
        BY <2>3, <2>4, <3>3, <4>4 DEF OutputInv
    <3>6. CASE rest' # <<>>
      <4>1. pc' = "flush"
        BY <1>3, <2>7, <3>6 DEF connection
      <4>2. SaidInv(before, now)'
        BY <3>1, <3>2, <3>4, <4>1 DEF SaidInv, Reading
      <4>. QED
        BY <2>3, <2>4, <3>3, <4>2 DEF OutputInv
    <3>. QED
      BY <3>5, <3>6
  <2>8. CASE pc = "fail"
    <3>1. /\ said \in Seq({"500"}) /\ rest \in Seq({"500"})
          /\ script.end = "stop" => said \o rest = <<"500", "500">> /\ produced = <<>>
      BY <2>2, <2>8 DEF SaidInv
    <3>2. PICK now \in Seq({"500"}) : /\ wire' = before \o now
                                      /\ rest' \in Seq({"500"})
                                      /\ now \o rest' = said \o rest
      BY <2>5, <3>1 DEF Content, WireTokens
    <3>3. now \in Seq(WireTokens)
      BY <3>2 DEF WireTokens
    <3>4. produced' = produced /\ script' = script
      BY <1>1
    <3>5. CASE rest' = <<>>
      <4>1. pc' = "over" /\ handler' = "ended" /\ open' = FALSE
        BY <1>3, <2>8, <3>5 DEF CloseConnection
      <4>2. now \o rest' = now
        BY <3>2, <3>5, ConcatEmptySeq
      <4>3. script.end = "stop" => now = produced \o <<"500", "500">> /\ produced = <<>>
        BY <3>1, <3>2, <4>2
      <4>4. SaidInv(before, now)'
        BY <3>2, <3>4, <4>1, <4>3 DEF SaidInv, Reading
      <4>. QED
        BY <2>3, <2>4, <3>3, <4>4 DEF OutputInv
    <3>6. CASE rest' # <<>>
      <4>1. pc' = "fail"
        BY <1>3, <2>8, <3>6 DEF connection
      <4>2. SaidInv(before, now)'
        BY <3>1, <3>2, <3>4, <4>1 DEF SaidInv, Reading
      <4>. QED
        BY <2>3, <2>4, <3>3, <4>2 DEF OutputInv
    <3>. QED
      BY <3>5, <3>6
  <2>. QED
    BY <2>3, <2>6, <2>7, <2>8
<1>. QED
  BY <1>2, <1>3 DEF WriteRest

\* Bytes can be regrouped.
LEMMA Regroup ==
    \A s, t, u \in Seq(Content) : (s \o t) \o u = s \o (t \o u)
OBVIOUS

\* A handler that ends is asked while nothing waits to be sent.
LEMMA EndsAt ==
    ASSUME OutputInv, NEW end, Ends(end)
    PROVE  /\ reg = "writer" /\ pc = "turn" /\ rest = <<>> /\ script.end = end
           /\ UNCHANGED <<request, peer, script, encoding, endHeader, responseStarted,
                          wire, produced>>
           /\ \E before \in Befores, said \in Seq(Content) :
                 /\ before \in Seq(WireTokens) /\ wire = before \o said
                 /\ held \in Seq(Content) /\ said \o held = produced
                 /\ ~responseStarted => said = <<>>
                 /\ ~encoding => held = <<>>
<1>1. /\ reg = "writer" /\ pc = "turn" /\ rest = <<>> /\ script.end = end
      /\ UNCHANGED <<request, peer, script, encoding, endHeader, responseStarted,
                     wire, produced>>
  BY DEF Ends, Asks, input
<1>2. PICK before \in Befores : \E said \in Seq(WireTokens) : SaidInv(before, said)
  BY DEF OutputInv
<1>3. PICK said \in Seq(WireTokens) : SaidInv(before, said)
  BY <1>2
<1>4. /\ wire = before \o said /\ said \in Seq(Content) /\ held \in Seq(Content)
      /\ said \o rest \o held = produced
      /\ ~responseStarted => said = <<>>
      /\ ~encoding => held = <<>>
  BY <1>1, <1>3 DEF SaidInv
<1>5. said \o rest = said
  BY <1>1, <1>4, ConcatEmptySeq
<1>. QED
  BY <1>1, <1>4, <1>5, BeforesTyped

\* A 500 follows no byte of a response, and a handler that has stopped has
\* given none.
LEMMA OutputStart500 ==
    ASSUME OutputInv, NEW end, Ends(end), Start500, ~responseStarted,
           end = "stop" => ~encoding
    PROVE  OutputInv'
<1>1. /\ reg = "writer" /\ pc = "turn" /\ rest = <<>> /\ script.end = end
      /\ UNCHANGED <<request, peer, script, encoding, endHeader, responseStarted,
                     wire, produced>>
  BY EndsAt
<1>2. PICK before \in Befores, said \in Seq(Content) :
        /\ before \in Seq(WireTokens) /\ wire = before \o said
        /\ held \in Seq(Content) /\ said \o held = produced
        /\ ~responseStarted => said = <<>>
        /\ ~encoding => held = <<>>
  BY EndsAt
<1>3. /\ pc' = "fail" /\ rest' = <<"500", "500">> /\ handler' = "ended"
      /\ held' = <<>> /\ reg' = reg
  BY DEF Start500
<1>4. Befores' = Befores /\ HandlerInv'
  BY <1>1, <1>3 DEF Befores, HandlerInv, Reading, Responding
<1>5. \A S : <<>> \in Seq(S)
  BY EmptySeq
<1>6. rest' \in Seq({"500"}) /\ said \o rest' = rest'
  BY <1>2, <1>3, ConcatEmptySeq
<1>7. end = "stop" => produced = <<>>
  <2>1. <<>> \o <<>> = <<>>
    BY <1>5, ConcatEmptySeq
  <2>. QED
    BY <1>2, <2>1
<1>8. SaidInv(before, said)'
  BY <1>1, <1>2, <1>3, <1>5, <1>6, <1>7 DEF SaidInv, Reading
<1>. QED
  BY <1>2, <1>4, <1>5, <1>8 DEF OutputInv

\* A handler that raises ends a response that has begun, or gives a 500.
LEMMA OutputHandlerRaises ==
    ASSUME OutputInv, HandlerRaises
    PROVE  OutputInv'
<1>1. /\ script.end = "raise"
      /\ UNCHANGED <<request, peer, script, encoding, endHeader, responseStarted,
                     wire, produced>>
      /\ Ends("raise")
  BY EndsAt DEF HandlerRaises
<1>2. CASE CloseConnection
  <2>1. PICK before \in Befores, said \in Seq(Content) : wire = before \o said
    BY <1>1, EndsAt
  <2>2. /\ pc' = "over" /\ handler' = "ended" /\ open' = FALSE /\ reg' = "none"
    BY <1>2 DEF CloseConnection
  <2>3. Befores' = Befores /\ HandlerInv'
    BY <1>1, <2>2 DEF Befores, HandlerInv, Reading
  <2>4. SaidInv(before, said)'
    BY <1>1, <2>1, <2>2 DEF SaidInv, Reading
  <2>5. said \in Seq(WireTokens)
    BY <2>1 DEF Content, WireTokens
  <2>. QED
    BY <2>3, <2>4, <2>5 DEF OutputInv
<1>3. CASE ~responseStarted /\ Start500
  BY <1>1, <1>3, OutputStart500
<1>. QED
  BY <1>2, <1>3 DEF HandlerRaises

\* A handler that stops leaves the compressor to be flushed, has given its whole
\* response, or gives a 500 for want of one.
LEMMA OutputHandlerStops ==
    ASSUME OutputInv, HandlerStops
    PROVE  OutputInv'
<1>1. /\ reg = "writer" /\ pc = "turn" /\ rest = <<>> /\ Ends("stop")
      /\ UNCHANGED <<request, peer, script, encoding, endHeader, responseStarted,
                     wire, produced>>
  BY EndsAt DEF HandlerStops
<1>2. PICK before \in Befores, said \in Seq(Content) :
        /\ before \in Seq(WireTokens) /\ wire = before \o said
        /\ held \in Seq(Content) /\ said \o held = produced
        /\ ~responseStarted => said = <<>>
        /\ ~encoding => held = <<>>
  BY <1>1, EndsAt
<1>3. Befores' = Befores /\ said \in Seq(WireTokens)
  BY <1>1, <1>2 DEF Befores, Content, WireTokens
<1>4. CASE encoding /\ pc' = "flush"
  <2>1. /\ handler' = "ended" /\ held' = <<>> /\ reg' = reg
        /\ rest' = (IF endHeader THEN held ELSE <<>>) \o <<"trailer">>
    BY <1>1, <1>4 DEF HandlerStops, CloseConnection, Start500
  <2>2. HandlerInv'
    BY <1>1, <1>4, <2>1 DEF HandlerInv, Reading, Responding
  <2>3. <<"trailer">> \in Seq(Content) /\ <<>> \in Seq(Content)
    BY DEF Content
  <2>4. rest' \in Seq(Content)
    BY <1>2, <2>1, <2>3, ConcatProperties
  <2>5. endHeader => said \o rest' = produced \o <<"trailer">>
    <3>1. (said \o held) \o <<"trailer">> = said \o (held \o <<"trailer">>)
      BY <1>2, <2>3, Regroup, Zenon
    <3>. QED
      BY <1>2, <2>1, <3>1
  <2>6. SaidInv(before, said)'
    BY <1>1, <1>2, <1>4, <2>1, <2>4, <2>5 DEF SaidInv, Reading
  <2>. QED
    BY <1>3, <2>2, <2>6 DEF OutputInv
<1>5. CASE ~encoding /\ CloseConnection
  <2>1. /\ pc' = "over" /\ handler' = "ended" /\ open' = FALSE /\ reg' = "none"
    BY <1>5 DEF CloseConnection
  <2>2. HandlerInv'
    BY <2>1 DEF HandlerInv, Reading
  <2>3. said \o held = said
    BY <1>2, <1>5, ConcatEmptySeq
  <2>4. said = produced' \o <<>>
    BY <1>1, <1>2, <2>3, ConcatEmptySeq
  <2>5. SaidInv(before, said)'
    BY <1>1, <1>2, <2>1, <2>4 DEF SaidInv, Reading
  <2>. QED
    BY <1>3, <2>2, <2>5 DEF OutputInv
<1>6. CASE ~encoding /\ ~responseStarted /\ Start500
  BY <1>1, <1>6, OutputStart500
<1>. QED
  BY <1>4, <1>5, <1>6 DEF HandlerStops

\* A Yield and a Suspend say nothing.
LEMMA OutputWaits ==
    ASSUME OutputInv, DataTypes, RespondLater \/ RespondSuspended \/ Resumed
    PROVE  OutputInv'
<1>1. PICK before \in Befores : \E said \in Seq(WireTokens) : SaidInv(before, said)
  BY DEF OutputInv
<1>2. PICK said \in Seq(WireTokens) : SaidInv(before, said)
  BY <1>1
<1>3. /\ UNCHANGED <<request, handler, encoding, endHeader, responseStarted, held, rest,
                     produced, wire>>
      /\ pc \in {"turn", "suspended"} /\ pc' \in {"turn", "suspended"}
      /\ pc' = "suspended" => rest = <<>>
  BY DEF RespondLater, RespondSuspended, Resumed, Ask, Asks, input, connection, output,
         encoder
<1>4. Befores' = Befores /\ HandlerInv'
  BY <1>3 DEF Befores, OutputInv, HandlerInv, Reading, Responding
<1>5. SaidInv(before, said)'
  BY <1>2, <1>3 DEF SaidInv, Reading
<1>. QED
  BY <1>4, <1>5 DEF OutputInv

\* What is given out of the compressor and what stays in it make together what
\* was in it and the item.
LEMMA OutputOut ==
    ASSUME OutputInv, DataTypes, reg = "writer", pc = "turn", rest = <<>>,
           NEW item \in {"head", "part", "data"}, NEW data \in Seq(Content), Out(data),
           held' \in Seq(Content), data \o held' = held \o Bytes(item),
           produced' = produced \o Bytes(item), ~encoding' => held' = <<>>,
           UNCHANGED <<request, peer>>
    PROVE  OutputInv'
<1>1. PICK before \in Befores : \E said \in Seq(WireTokens) : SaidInv(before, said)
  BY DEF OutputInv
<1>2. PICK said \in Seq(WireTokens) : SaidInv(before, said)
  BY <1>1
<1>3. /\ wire = before \o said /\ said \in Seq(Content) /\ held \in Seq(Content)
      /\ said \o rest \o held = produced
      /\ ~responseStarted => said = <<>>
  BY <1>2 DEF SaidInv
<1>4. Befores' = Befores /\ before \in Seq(WireTokens)
  BY BeforesTyped DEF Befores
<1>5. (said \o data) \o held' = produced'
  <2>1. Bytes(item) \in Seq(Content)
    BY DEF Bytes, Content
  <2>2. said \o rest = said
    BY <1>3, ConcatEmptySeq
  <2>. DEFINE bytes == Bytes(item)
  <2>3. bytes \in Seq(Content) /\ data \o held' = held \o bytes
    BY <2>1
  <2>. HIDE DEF bytes
  <2>4. (said \o held) \o bytes = said \o (held \o bytes)
    BY <1>3, <2>3, Regroup, ZenonT(40)
  <2>5. (said \o data) \o held' = said \o (data \o held')
    BY <1>3, Regroup, ZenonT(40)
  <2>. QED
    BY <1>3, <2>2, <2>3, <2>4, <2>5 DEF bytes
<1>6. CASE data = <<>> /\ UNCHANGED <<wire, rest, responseStarted, connection>>
  <2>1. HandlerInv'
    BY <1>6 DEF OutputInv, HandlerInv, connection, Reading, Responding
  <2>2. said \o data = said /\ said \o rest' = said
    BY <1>3, <1>6, ConcatEmptySeq
  <2>3. SaidInv(before, said)'
    BY <1>3, <1>5, <1>6, <2>2 DEF SaidInv, connection, Reading
  <2>. QED
    BY <1>4, <2>1, <2>3 DEF OutputInv
<1>7. CASE responseStarted' /\ Send(data) /\ UNCHANGED connection
  <2>1. HandlerInv'
    BY <1>7 DEF OutputInv, HandlerInv, connection, Reading, Responding
  <2>2. Content \in SUBSET WireTokens
    BY DEF Content, WireTokens
  <2>3. PICK now \in Seq(Content) : /\ wire' = before \o now /\ rest' \in Seq(Content)
                                    /\ now \o rest' = said \o data
    <3>1. said \in Seq(Content) /\ wire = before \o said
      BY <1>3
    <3>2. before \in Seq(WireTokens)
      BY <1>4
    <3>3. Send(data)
      BY <1>7
    <3>4. Moved(Content, before, said, data)
      BY <2>2, <3>1, <3>2, <3>3, SendMoves
    <3>. QED
      BY <3>4 DEF Moved
  <2>4. pc' = "turn"
    BY <1>7 DEF connection
  <2>5. now \o rest' \o held' = produced'
    BY <1>5, <2>3
  <2>6. SaidInv(before, now)'
    BY <1>7, <2>3, <2>4, <2>5 DEF SaidInv, Reading
  <2>7. now \in Seq(WireTokens)
    BY <2>2, <2>3
  <2>. QED
    BY <1>4, <2>1, <2>6, <2>7 DEF OutputInv
<1>8. CASE SendFails
  BY <1>8, OutputSendFails
<1>. QED
  BY <1>6, <1>7, <1>8 DEF Out

\* So it is with every item, whether it is sent as it is, collected as a header
\* or compressed.
LEMMA OutputRespond ==
    ASSUME OutputInv, DataTypes, NEW item \in {"head", "part", "data"}, Respond(item)
    PROVE  OutputInv'
<1>1. /\ reg = "writer" /\ pc = "turn" /\ rest = <<>> /\ UNCHANGED <<request, peer>>
      /\ produced' = produced \o Bytes(item)
  BY DEF Respond, Ask, Asks, input
<1>2. held \in Seq(Content) /\ (~encoding => held = <<>>)
  BY <1>1 DEF OutputInv, SaidInv
<1>. DEFINE bytes == Bytes(item)
<1>3. bytes \in Seq(Content)
  BY DEF Bytes, Content
<1>4. /\ held \o bytes \in Seq(Content) /\ <<>> \in Seq(Content)
      /\ <<>> \o (held \o bytes) = held \o bytes
      /\ (held \o bytes) \o <<>> = held \o bytes
      /\ bytes \o <<>> = bytes /\ <<>> \o bytes = bytes
  <2>. HIDE DEF bytes
  <2>1. <<>> \in Seq(Content) /\ held \o bytes \in Seq(Content)
    BY <1>2, <1>3, EmptySeq, ConcatProperties
  <2>. QED
    BY <1>3, <2>1, ConcatEmptySeq
<1>5. CASE ~encoding /\ Out(Bytes(item)) /\ UNCHANGED encoder
  <2>1. held = <<>> /\ held' = <<>>
    BY <1>2, <1>5 DEF encoder
  <2>2. bytes \o held' = held \o bytes
    BY <1>4, <2>1
  <2>. QED
    BY <1>1, <1>3, <1>4, <1>5, <2>1, <2>2, OutputOut
<1>6. CASE held' = <<>> /\ Out(held \o Bytes(item))
  BY <1>1, <1>4, <1>6, OutputOut
<1>7. CASE encoding' /\ held' = held \o Bytes(item) /\ Out(<<>>)
  BY <1>1, <1>4, <1>7, OutputOut
<1>. QED
  BY <1>5, <1>6, <1>7 DEF Respond, CompressItem

\* Where what was said is one answer, no second answer follows it.
LEMMA OutputIsOneAnswer ==
    ASSUME OutputInv
    PROVE  OneAnswer
<1>1. PICK before \in Befores : \E said \in Seq(WireTokens) : SaidInv(before, said)
  BY DEF OutputInv
<1>2. PICK said \in Seq(WireTokens) : SaidInv(before, said)
  BY <1>1
<1>3. /\ wire = before \o said
      /\ said \in Seq(Content) \cup Seq({"500"}) \cup {<<"400">>}
  BY <1>2 DEF SaidInv
<1>4. /\ before \in Seq(WireTokens) /\ Len(before) \in 0..1
      /\ \A i \in 1..Len(before) : i = 1 /\ before[i] = "100" /\ request.expect
  <2>1. before = <<>> \/ (before = <<"100">> /\ request.expect)
    BY DEF Befores
  <2>2. CASE before = <<>>
    BY <2>2, BeforesTyped
  <2>3. CASE before = <<"100">> /\ request.expect
    BY <2>3, BeforesTyped
  <2>. QED
    BY <2>1, <2>2, <2>3
<1>5. \A i \in DOMAIN wire :
         \/ i = 1 /\ wire[i] = "100" /\ request.expect
         \/ \E n \in 1..Len(said) : i = n + Len(before) /\ wire[i] = said[n]
  <2>1. DOMAIN wire = 1..Len(before) + Len(said) /\ Len(said) \in Nat /\ Len(before) \in Nat
    BY <1>3, <1>4, LenProperties, ConcatProperties
  <2>2. \A i \in 1..Len(before) : wire[i] = before[i]
    BY <1>3, <1>4
  <2>3. \A n \in 1..Len(said) : wire[n + Len(before)] = said[n]
    BY <1>3, <1>4
  <2>4. SUFFICES ASSUME NEW i \in DOMAIN wire
                 PROVE  \/ i = 1 /\ wire[i] = "100" /\ request.expect
                        \/ \E n \in 1..Len(said) : i = n + Len(before) /\ wire[i] = said[n]
    OBVIOUS
  <2>5. CASE i <= Len(before)
    <3>1. i \in 1..Len(before)
      BY <2>1, <2>5
    <3>. QED
      BY <1>4, <2>2, <3>1
  <2>6. CASE i > Len(before)
    <3>. DEFINE n == i - Len(before)
    <3>1. n \in 1..Len(said) /\ i = n + Len(before)
      BY <2>1, <2>6
    <3>. HIDE DEF n
    <3>. QED
      BY <2>3, <3>1
  <2>. QED
    BY <2>1, <2>5, <2>6
<1>6. CASE said \in Seq(Content)
  <2>1. \A n \in 1..Len(said) : said[n] \in Content
    BY <1>6, ElementOfSeq
  <2>2. \A i \in DOMAIN wire : \/ i = 1 /\ wire[i] = "100" /\ request.expect
                               \/ wire[i] \in Content
    BY <1>5, <2>1
  <2>. QED
    BY <2>2 DEF OneAnswer, Answer, Content
<1>7. CASE said \in Seq({"500"})
  <2>1. \A n \in 1..Len(said) : said[n] = "500"
    BY <1>7, ElementOfSeq
  <2>2. \A i \in DOMAIN wire : \/ i = 1 /\ wire[i] = "100" /\ request.expect
                               \/ wire[i] = "500"
    BY <1>5, <2>1
  <2>. QED
    BY <2>2 DEF OneAnswer, Answer
<1>8. CASE said = <<"400">>
  <2>1. \A n \in 1..Len(said) : said[n] = "400" /\ n = 1
    BY <1>8
  <2>2. \A i \in DOMAIN wire : \/ i = 1 /\ wire[i] = "100" /\ request.expect
                               \/ i = 1 + Len(before) /\ wire[i] = "400"
    <3>1. \A n \in 1..Len(said) : n + Len(before) = 1 + Len(before)
      BY <1>4, <2>1
    <3>2. SUFFICES ASSUME NEW i \in DOMAIN wire,
                          ~(i = 1 /\ wire[i] = "100" /\ request.expect)
                   PROVE  i = 1 + Len(before) /\ wire[i] = "400"
      OBVIOUS
    <3>3. PICK n \in 1..Len(said) : i = n + Len(before) /\ wire[i] = said[n]
      BY <1>5, <3>2
    <3>. QED
      BY <2>1, <3>1, <3>3, Zenon
  <2>. QED
    BY <2>2 DEF OneAnswer, Answer
<1>. QED
  BY <1>3, <1>6, <1>7, <1>8

\* Nothing that the handler has yielded is lost on its way.
LEMMA OutputIsWhole ==
    ASSUME OutputInv, DataTypes, AnswerInv
    PROVE  NothingLost
<1>1. PICK before \in Befores : \E said \in Seq(WireTokens) : SaidInv(before, said)
  BY DEF OutputInv
<1>2. PICK said \in Seq(WireTokens) : SaidInv(before, said)
  BY <1>1
<1>3. before \in {<<>>, <<"100">>} /\ before \in Seq(WireTokens)
  BY BeforesTyped DEF Befores
<1>4. wire = before \o said
  BY <1>2 DEF SaidInv
<1>5. /\ rest \in Seq(WireTokens) /\ held \in Seq(WireTokens)
      /\ produced \in Seq(WireTokens)
  BY DEF AnswerInv, DataTypes, Given
<1>6. \A s, t, u \in Seq(WireTokens) : (s \o t) \o u = s \o (t \o u)
  OBVIOUS
<1>7. ASSUME pc \in {"turn", "suspended"} PROVE wire \o rest \o held = before \o produced
  <2>1. (said \o rest) \o held = produced
    BY <1>2, <1>7 DEF SaidInv
  <2>2. ((before \o said) \o rest) \o held = (before \o (said \o rest)) \o held
    BY <1>3, <1>5, <1>6, Zenon
  <2>3. said \o rest \in Seq(WireTokens)
    BY <1>5, ConcatProperties
  <2>4. (before \o (said \o rest)) \o held = before \o ((said \o rest) \o held)
    <3>1. /\ before \in Seq(WireTokens) /\ said \o rest \in Seq(WireTokens)
          /\ held \in Seq(WireTokens)
      BY <1>3, <1>5, <2>3
    <3>. QED
      BY <1>6, <3>1, ZenonT(40)
  <2>. QED
    BY <1>4, <2>1, <2>2, <2>4
<1>8. ASSUME pc = "over", handler = "ended", peer # "gone", script.end = "stop",
             ~(encoding /\ ~endHeader)
      PROVE  \E after \in {<<>>, <<"trailer">>, <<"500", "500">>} :
                /\ wire = before \o produced \o after
                /\ after = <<"500", "500">> => produced = <<>>
  <2>1. PICK after \in {<<>>, <<"trailer">>, <<"500", "500">>} :
          said = produced \o after /\ (after = <<"500", "500">> => produced = <<>>)
    BY <1>2, <1>8 DEF SaidInv
  <2>2. \A s \in {<<>>, <<"trailer">>, <<"500", "500">>} : s \in Seq(WireTokens)
    <3>1. <<>> \in Seq(WireTokens)
      BY EmptySeq
    <3>2. <<"trailer">> \in Seq(WireTokens)
      BY DEF WireTokens
    <3>3. <<"500", "500">> \in Seq(WireTokens)
      BY DEF WireTokens
    <3>. QED
      BY <3>1, <3>2, <3>3, Zenon
  <2>3. after \in Seq(WireTokens)
    BY <2>1, <2>2, Zenon
  <2>4. (before \o produced) \o after = before \o (produced \o after)
    <3>1. before \in Seq(WireTokens) /\ produced \in Seq(WireTokens)
      BY <1>3, <1>5
    <3>. QED
      BY <1>6, <2>3, <3>1, ZenonT(40)
  <2>. QED
    BY <1>4, <2>1, <2>4
<1>. QED
  BY <1>3, <1>7, <1>8 DEF NothingLost

----------------------------------------------------------------------------
(* The theorems of the whole connection.                                      *)

\* All that was found to be inductive, together.
ConnectionInv == TimerInv /\ AnswerInv /\ DataTypes /\ StateTypes /\ OutputInv

\* A connection that was accepted has said nothing.
LEMMA ConnectionInit ==
    ASSUME Init
    PROVE  ConnectionInv
<1>1. TimerInv /\ AnswerInv
  BY DEF Init, TimerInv, TimerGuardsRequest, Reading, Responding, AnswerInv,
         AnsweredBeforeClosed
<1>2. \A S : <<>> \in Seq(S)
  BY EmptySeq
<1>3. DataTypes
  <2>1. Stream(request) \in Seq(RequestTokens)
    BY StreamIsTokens DEF Init
  <2>2. NoHandler \in Scripts
    BY <1>2 DEF NoHandler, Scripts
  <2>. QED
    BY <1>2, <2>1, <2>2 DEF Init, DataTypes
<1>4. StateTypes
  BY HttpHandlerAssumption DEF Init, StateTypes, Reading
<1>5. HandlerInv
  BY DEF Init, HandlerInv, Reading, Responding
<1>6. <<>> \o <<>> = <<>>
  BY <1>2, ConcatEmptySeq
<1>7. SaidInv(<<>>, <<>>)
  BY <1>2, <1>6 DEF Init, SaidInv, Reading
<1>8. <<>> \in Befores
  BY DEF Befores
<1>. QED
  BY <1>1, <1>2, <1>3, <1>4, <1>5, <1>7, <1>8 DEF ConnectionInv, OutputInv

\* Every step keeps them.
LEMMA ConnectionStep ==
    ASSUME ConnectionInv, [Next]_vars
    PROVE  ConnectionInv'
<1>1. CASE UNCHANGED vars
  <2>1. UNCHANGED <<request, unread, peer, pc, buffer, reg, timer, open, handler,
                    script, body, encoding, endHeader, responseStarted, held, rest,
                    wire, produced>>
    BY <1>1 DEF vars
  <2>2. TimerInv' /\ AnswerInv' /\ DataTypes' /\ StateTypes'
    BY <2>1 DEF ConnectionInv, TimerInv, TimerGuardsRequest, AnswerInv,
                AnsweredBeforeClosed, DataTypes, StateTypes
  <2>3. OutputInv'
    <3>1. PICK before \in Befores : \E said \in Seq(WireTokens) : SaidInv(before, said)
      BY DEF ConnectionInv, OutputInv
    <3>2. PICK said \in Seq(WireTokens) : SaidInv(before, said)
      BY <3>1
    <3>3. Befores' = Befores /\ HandlerInv'
      BY <2>1 DEF ConnectionInv, OutputInv, HandlerInv, Befores
    <3>4. SaidInv(before, said)'
      BY <2>1, <3>2 DEF SaidInv
    <3>. QED
      BY <3>3, <3>4 DEF OutputInv
  <2>. QED
    BY <2>2, <2>3 DEF ConnectionInv
<1>2. CASE Next
  <2>. USE <1>2 DEF ConnectionInv
  <2>1. TimerInv'
    BY TimerRecv, TimerRecvClosed, TimerTimedOut, TimerWrite, TimerPeer DEF Next
  <2>2. AnswerInv'
    BY AnswerRecv, AnswerRecvClosed, AnswerTimedOut, AnswerWrite, AnswerPeer DEF Next
  <2>3. DataTypes' /\ StateTypes'
    BY TypesStep
  <2>4. OutputInv'
    BY OutputRecv, OutputRecvClosed, OutputTimedOut, OutputPeer, OutputWriteRest,
       OutputHandlerRaises, OutputHandlerStops, OutputWaits, OutputRespond
    DEF Next, Write
  <2>. QED
    BY <2>1, <2>2, <2>3, <2>4
<1>. QED
  BY <1>1, <1>2

\* So they always hold.
LEMMA ConnectionAlways == Spec => []ConnectionInv
<1>1. Init => ConnectionInv
  BY ConnectionInit
<1>2. ConnectionInv /\ [Next]_vars => ConnectionInv'
  BY ConnectionStep
<1>. QED
  BY <1>1, <1>2, PTL DEF Spec

\* What the client gets is one answer, for any request that comes in any parts,
\* any handlers, and a compressor that keeps what it wants.
THEOREM OneAnswerIsSent == Spec => []IInv
<1>1. ConnectionInv => IInv
  BY TypesAreAll, OutputIsOneAnswer DEF ConnectionInv, IInv
<1>. QED
  BY <1>1, ConnectionAlways, PTL

\* All that a handler gives is sent once and in its order, for any handler and
\* however little the socket takes.
THEOREM NothingIsLost == Spec => []NothingLost
<1>1. ConnectionInv => NothingLost
  BY OutputIsWhole DEF ConnectionInv
<1>. QED
  BY <1>1, ConnectionAlways, PTL

----------------------------------------------------------------------------
(* The handler is called with the whole body.                                 *)

\* What is at which place of the stream of a request.
Ending(q) == IF q.kind \in {"chunked", "multi"} THEN 1 ELSE 0
Places(q) ==
    /\ Len(BodyTokens(q)) \in Nat
    /\ Len(Stream(q)) = 2 + Len(BodyTokens(q)) + Ending(q) + (IF q.excess THEN 1 ELSE 0)
    /\ Stream(q)[1] = "part" /\ Stream(q)[2] = "end"
    /\ \A i \in 1..Len(BodyTokens(q)) : Stream(q)[2 + i] \in {"size", "data"}
    /\ \A i \in (3 + Len(BodyTokens(q)))..Len(Stream(q)) :
          Stream(q)[i] \in {"zero", "boundary", "excess"}
    /\ q.kind \in {"get", "bare"} => Len(BodyTokens(q)) = 0
    /\ q.kind = "length" =>
          /\ Len(BodyTokens(q)) = q.size
          /\ \A i \in 1..Len(BodyTokens(q)) : Stream(q)[2 + i] = "data"

\* The body of a request consists of its data and the sizes of its chunks.
LEMMA BodyIsTokens ==
    ASSUME NEW q \in Requests
    PROVE  /\ BodyTokens(q) \in Seq({"size", "data"}) /\ Len(BodyTokens(q)) \in Nat
           /\ \A i \in 1..Len(BodyTokens(q)) : BodyTokens(q)[i] \in {"size", "data"}
           /\ q.kind \in {"get", "bare"} => Len(BodyTokens(q)) = 0
           /\ q.kind = "length" =>
                 /\ Len(BodyTokens(q)) = q.size
                 /\ \A i \in 1..Len(BodyTokens(q)) : BodyTokens(q)[i] = "data"
<1>1. q.size \in Nat /\ q.kind \in Kinds
  BY HttpHandlerAssumption
<1>2. CASE q.kind = "chunked"
  <2>1. BodyTokens(q) = [i \in 1..2 * q.size |-> IF i % 2 = 1 THEN "size" ELSE "data"]
    BY <1>2 DEF BodyTokens
  <2>2. BodyTokens(q) \in [1..2 * q.size -> {"size", "data"}] /\ 2 * q.size \in Nat
    BY <1>1, <2>1
  <2>3. BodyTokens(q) \in Seq({"size", "data"})
    BY <2>2, SeqDef
  <2>. QED
    BY <1>2, <2>3, LenProperties, ElementOfSeq
<1>3. CASE q.kind \in {"length", "multi"}
  <2>1. BodyTokens(q) = [i \in 1..q.size |-> "data"]
    BY <1>3 DEF BodyTokens
  <2>2. BodyTokens(q) \in [1..q.size -> {"size", "data"}]
    BY <2>1
  <2>3. BodyTokens(q) \in Seq({"size", "data"})
    BY <1>1, <2>2, SeqDef
  <2>4. DOMAIN BodyTokens(q) = 1..q.size
    BY <2>1
  <2>5. Len(BodyTokens(q)) = q.size
    BY <1>1, <2>3, <2>4, LenProperties
  <2>6. \A i \in 1..Len(BodyTokens(q)) : BodyTokens(q)[i] = "data"
    BY <2>1, <2>5
  <2>. QED
    BY <1>1, <1>3, <2>3, <2>5, <2>6
<1>4. CASE q.kind \in {"get", "bare"}
  <2>1. BodyTokens(q) = <<>>
    BY <1>4 DEF BodyTokens
  <2>2. BodyTokens(q) \in Seq({"size", "data"}) /\ Len(BodyTokens(q)) = 0
    BY <2>1, EmptySeq
  <2>. QED
    BY <1>4, <2>2
<1>. QED
  BY <1>1, <1>2, <1>3, <1>4 DEF Kinds

\* So the stream is a header, the body and what ends it.
LEMMA StreamPlaces ==
    ASSUME NEW q \in Requests
    PROVE  Places(q)
<1>. DEFINE header == <<"part", "end">>
            bodyOf == BodyTokens(q)
            last == CASE q.kind = "chunked" -> <<"zero">>
                      [] q.kind = "multi" -> <<"boundary">>
                      [] OTHER -> <<>>
            excess == IF q.excess THEN <<"excess">> ELSE <<>>
            n == Len(BodyTokens(q))
            EndTokens == {"zero", "boundary", "excess"}
            T == RequestTokens
<1>1. /\ bodyOf \in Seq({"size", "data"}) /\ n \in Nat /\ Len(bodyOf) = n
      /\ \A i \in 1..n : bodyOf[i] \in {"size", "data"}
  BY BodyIsTokens
<1>2. /\ header \in Seq({"part", "end"}) /\ Len(header) = 2
      /\ header[1] = "part" /\ header[2] = "end"
  OBVIOUS
<1>3. last \in Seq(EndTokens) /\ Len(last) = Ending(q)
  <2>1. CASE q.kind = "chunked"
    BY <2>1 DEF Ending
  <2>2. CASE q.kind = "multi"
    BY <2>2 DEF Ending
  <2>3. CASE q.kind \notin {"chunked", "multi"}
    <3>1. last = <<>>
      BY <2>3
    <3>. QED
      BY <2>3, <3>1, EmptySeq DEF Ending
  <2>. QED
    BY <2>1, <2>2, <2>3
<1>4. excess \in Seq(EndTokens) /\ Len(excess) = IF q.excess THEN 1 ELSE 0
  <2>1. CASE q.excess
    <3>1. excess = <<"excess">>
      BY <2>1
    <3>. QED
      BY <2>1, <3>1
  <2>2. CASE ~q.excess
    <3>1. excess = <<>>
      BY <2>2
    <3>. QED
      BY <2>2, <3>1, EmptySeq
  <2>. QED
    BY <2>1, <2>2
<1>5. Stream(q) = ((header \o bodyOf) \o last) \o excess
  BY DEF Stream
<1>6. Ending(q) \in {0, 1}
  BY DEF Ending
<1>. DEFINE e == Ending(q)
            x == IF q.excess THEN 1 ELSE 0
            all == ((header \o bodyOf) \o last) \o excess
<1>7. x \in {0, 1} /\ Len(excess) = x /\ Len(last) = e /\ e \in {0, 1}
  BY <1>3, <1>4, <1>6
<1>8. EndTokens \subseteq T /\ {"part", "end"} \subseteq T /\ {"size", "data"} \subseteq T
  BY DEF RequestTokens
<1>9. header \in Seq(T) /\ bodyOf \in Seq(T) /\ last \in Seq(T) /\ excess \in Seq(T)
  BY <1>1, <1>2, <1>3, <1>4, <1>8
<1>10. \A i \in 1..e : last[i] \in EndTokens
  BY <1>3, <1>7, ElementOfSeq
<1>11. \A i \in 1..x : excess[i] \in EndTokens
  BY <1>4, <1>7, ElementOfSeq
<1>. HIDE DEF header, bodyOf, last, excess, n, e, x, T, EndTokens
<1>12. /\ header \o bodyOf \in Seq(T) /\ Len(header \o bodyOf) = 2 + n
       /\ (header \o bodyOf)[1] = "part" /\ (header \o bodyOf)[2] = "end"
       /\ \A i \in 1..n : (header \o bodyOf)[2 + i] = bodyOf[i]
  <2>1. /\ header \o bodyOf \in Seq(T)
        /\ Len(header \o bodyOf) = Len(header) + Len(bodyOf)
        /\ \A i \in 1..(Len(header) + Len(bodyOf)) : (header \o bodyOf)[i] =
               IF i <= Len(header) THEN header[i] ELSE bodyOf[i - Len(header)]
    BY <1>9, ConcatProperties
  <2>2. \A i \in 1..(2 + n) : (header \o bodyOf)[i] =
               IF i <= 2 THEN header[i] ELSE bodyOf[i - 2]
    BY <1>1, <1>2, <2>1
  <2>3. ASSUME NEW i \in 1..n PROVE (header \o bodyOf)[2 + i] = bodyOf[i]
    <3>. DEFINE j == 2 + i
    <3>1. j \in 1..(2 + n) /\ ~(j <= 2) /\ j - 2 = i
      BY <1>1
    <3>. HIDE DEF j
    <3>2. (header \o bodyOf)[j] = bodyOf[j - 2]
      BY <2>2, <3>1
    <3>3. (header \o bodyOf)[j] = bodyOf[i]
      BY <3>1, <3>2
    <3>. QED
      BY <3>3 DEF j
  <2>4. 1 \in 1..(2 + n) /\ 2 \in 1..(2 + n)
    BY <1>1
  <2>5. (header \o bodyOf)[1] = "part" /\ (header \o bodyOf)[2] = "end"
    BY SMTT(30), <1>2, <2>2, <2>4
  <2>. QED
    BY <1>1, <1>2, <2>1, <2>3, <2>5
<1>13. /\ (header \o bodyOf) \o last \in Seq(T)
       /\ Len((header \o bodyOf) \o last) = 2 + n + e
       /\ \A i \in 1..(2 + n) : ((header \o bodyOf) \o last)[i] = (header \o bodyOf)[i]
       /\ \A i \in (3 + n)..(2 + n + e) : ((header \o bodyOf) \o last)[i] \in EndTokens
  <2>. DEFINE front == header \o bodyOf
  <2>1. front \in Seq(T) /\ Len(front) = 2 + n
    BY <1>12
  <2>. HIDE DEF front
  <2>2. /\ front \o last \in Seq(T) /\ Len(front \o last) = Len(front) + Len(last)
        /\ \A i \in 1..(Len(front) + Len(last)) : (front \o last)[i] =
               IF i <= Len(front) THEN front[i] ELSE last[i - Len(front)]
    BY <1>9, <2>1, ConcatProperties
  <2>3. \A i \in 1..(2 + n + e) : (front \o last)[i] =
               IF i <= 2 + n THEN front[i] ELSE last[i - (2 + n)]
    BY <1>1, <1>7, <2>1, <2>2
  <2>4. \A i \in (3 + n)..(2 + n + e) : i - (2 + n) \in 1..e /\ i \in 1..(2 + n + e)
                                        /\ ~(i <= 2 + n)
    BY <1>1, <1>7
  <2>5. ASSUME NEW i \in (3 + n)..(2 + n + e) PROVE (front \o last)[i] \in EndTokens
    <3>1. (front \o last)[i] = last[i - (2 + n)]
      BY <2>3, <2>4, Zenon
    <3>. QED
      BY <1>10, <2>4, <3>1, Zenon
  <2>6. ASSUME NEW i \in 1..(2 + n) PROVE (front \o last)[i] = front[i]
    <3>1. i \in 1..(2 + n + e) /\ i <= 2 + n
      BY <1>1, <1>7
    <3>. QED
      BY <2>3, <3>1
  <2>. QED
    BY <1>7, <2>1, <2>2, <2>5, <2>6 DEF front
<1>14. /\ Len(all) = 2 + n + e + x
       /\ \A i \in 1..(2 + n) : all[i] = (header \o bodyOf)[i]
       /\ \A i \in (3 + n)..(2 + n + e + x) : all[i] \in EndTokens
  <2>. DEFINE front == (header \o bodyOf) \o last
  <2>1. /\ front \in Seq(T) /\ Len(front) = 2 + n + e
        /\ \A i \in 1..(2 + n) : front[i] = (header \o bodyOf)[i]
        /\ \A i \in (3 + n)..(2 + n + e) : front[i] \in EndTokens
    BY <1>13
  <2>. HIDE DEF front
  <2>2. /\ Len(front \o excess) = Len(front) + Len(excess)
        /\ \A i \in 1..(Len(front) + Len(excess)) : (front \o excess)[i] =
               IF i <= Len(front) THEN front[i] ELSE excess[i - Len(front)]
    BY <1>9, <2>1, ConcatProperties
  <2>3. \A i \in 1..(2 + n + e + x) : (front \o excess)[i] =
               IF i <= 2 + n + e THEN front[i] ELSE excess[i - (2 + n + e)]
    BY <1>1, <1>7, <2>1, <2>2
  <2>4. ASSUME NEW i \in (3 + n)..(2 + n + e + x) PROVE (front \o excess)[i] \in EndTokens
    <3>1. i \in 1..(2 + n + e + x)
      BY <1>1, <1>7
    <3>2. CASE i <= 2 + n + e
      <4>1. i \in (3 + n)..(2 + n + e)
        BY <1>1, <1>7, <3>2
      <4>. QED
        BY <2>1, <2>3, <3>1, <3>2, <4>1
    <3>3. CASE ~(i <= 2 + n + e)
      <4>1. i - (2 + n + e) \in 1..x
        BY <1>1, <1>7, <3>3
      <4>. QED
        BY <1>11, <2>3, <3>1, <3>3, <4>1
    <3>. QED
      BY <3>2, <3>3
  <2>5. ASSUME NEW i \in 1..(2 + n) PROVE (front \o excess)[i] = (header \o bodyOf)[i]
    <3>1. i \in 1..(2 + n + e + x) /\ i <= 2 + n + e
      BY <1>1, <1>7
    <3>. QED
      BY <2>1, <2>3, <3>1
  <2>6. all = front \o excess
    BY DEF front
  <2>. QED
    BY <1>7, <2>1, <2>2, <2>4, <2>5, <2>6
<1>15. /\ all[1] = "part" /\ all[2] = "end"
       /\ \A i \in 1..n : all[2 + i] = bodyOf[i]
  <2>1. 1 \in 1..(2 + n) /\ 2 \in 1..(2 + n) /\ \A i \in 1..n : 2 + i \in 1..(2 + n)
    BY <1>1
  <2>. QED
    BY <1>12, <1>14, <2>1
<1>. HIDE DEF all
<1>16. /\ Len(BodyTokens(q)) \in Nat /\ Len(BodyTokens(q)) = n
       /\ Len(Stream(q)) = 2 + n + Ending(q) + (IF q.excess THEN 1 ELSE 0)
       /\ Stream(q)[1] = "part" /\ Stream(q)[2] = "end"
       /\ \A i \in 1..n : Stream(q)[2 + i] = bodyOf[i]
       /\ \A i \in (3 + n)..Len(Stream(q)) : Stream(q)[i] \in {"zero", "boundary", "excess"}
  <2>1. Stream(q) = all
    BY <1>5 DEF all
  <2>. QED
    BY <1>1, <1>14, <1>15, <2>1 DEF n, e, x, EndTokens
<1>17. /\ q.kind \in {"get", "bare"} => Len(BodyTokens(q)) = 0
       /\ q.kind = "length" => /\ Len(BodyTokens(q)) = q.size
                               /\ \A i \in 1..n : bodyOf[i] = "data"
  BY BodyIsTokens DEF n, bodyOf
<1>. QED
  <2>1. \A i \in 1..n : Stream(q)[2 + i] \in {"size", "data"}
    BY <1>1, <1>16
  <2>2. q.kind = "length" => \A i \in 1..n : Stream(q)[2 + i] = "data"
    BY <1>16, <1>17
  <2>. QED
    BY <1>16, <1>17, <2>1, <2>2 DEF Places, n

\* The tokens of the request from one place to another.
Part(s, from, to) ==
    /\ s \in Seq(RequestTokens) /\ Len(s) = to - from + 1
    /\ \A i \in 1..Len(s) : s[i] = Stream(request)[from + i - 1]

\* What was read and is dealt with, and what was not, is all of the request: its
\* header too, as long as that is not complete.
ReadInv ==
    \E read \in 0..Len(Stream(request)) :
        /\ Part(unread, read + 1, Len(Stream(request)))
        /\ pc = "headers" => Part(buffer, 1, read)
        /\ pc \in Reading \ {"headers"} => read >= 2 /\ Part(buffer, 3, read)

\* A recv moves tokens from what was not read to what was.
LEMMA PartGrows ==
    ASSUME NEW from \in Nat \ {0}, NEW read \in Nat, from <= read + 1, NEW to \in Nat,
           Part(buffer, from, read), Part(unread, read + 1, to), NEW k \in 1..Len(unread)
    PROVE  /\ read + k \in Nat /\ read + k <= to
           /\ Part(buffer \o SubSeq(unread, 1, k), from, read + k)
           /\ Part(SubSeq(unread, k + 1, Len(unread)), read + k + 1, to)
<1>. DEFINE T == RequestTokens
            new == SubSeq(unread, 1, k)
            others == SubSeq(unread, k + 1, Len(unread))
            u == Len(unread)
            b == Len(buffer)
<1>0. from \in Nat /\ read \in Nat /\ to \in Nat
  OBVIOUS
<1>1. /\ unread \in Seq(T) /\ u \in Nat /\ u = to - read /\ k \in 1..u
      /\ \A i \in 1..u : unread[i] = Stream(request)[read + i]
      /\ \A i \in 1..u : unread[i] \in T
  <2>1. unread \in Seq(T) /\ u \in Nat /\ u = to - (read + 1) + 1
    BY LenProperties DEF Part
  <2>2. \A i \in 1..u : unread[i] = Stream(request)[read + 1 + i - 1]
    BY DEF Part
  <2>3. \A i \in 1..u : read + 1 + i - 1 = read + i
    BY <2>1
  <2>. QED
    BY <2>1, <2>2, <2>3, ElementOfSeq
<1>2. /\ buffer \in Seq(T) /\ b \in Nat /\ b = read - from + 1
      /\ \A i \in 1..b : buffer[i] = Stream(request)[from + i - 1]
  BY LenProperties DEF Part
<1>. HIDE DEF T, u, b
<1>3. /\ new \in Seq(T) /\ Len(new) = k
      /\ \A i \in 1..k : new[i] = unread[i]
  <2>1. \A i \in 1..k : unread[i] \in T
    BY <1>1
  <2>. QED
    BY <1>1, <2>1, SubSeqProperties
<1>4. /\ others \in Seq(T) /\ Len(others) = u - k
      /\ \A i \in 1..(u - k) : others[i] = unread[k + i]
  <2>1. \A i \in (k + 1)..u : unread[i] \in T
    BY <1>1
  <2>2. /\ SubSeq(unread, k + 1, u) \in Seq(T)
        /\ Len(SubSeq(unread, k + 1, u)) = IF k + 1 <= u THEN u - (k + 1) + 1 ELSE 0
        /\ \A i \in 1..(u - (k + 1) + 1) :
               SubSeq(unread, k + 1, u)[i] = unread[k + 1 + i - 1]
    BY <1>1, <2>1, SubSeqProperties
  <2>3. \A i \in 1..(u - k) : k + 1 + i - 1 = k + i /\ i \in 1..(u - (k + 1) + 1)
    BY <1>1
  <2>4. others = SubSeq(unread, k + 1, u)
    BY DEF u
  <2>. HIDE DEF others
  <2>a. (IF k + 1 <= u THEN u - (k + 1) + 1 ELSE 0) = u - k
    BY <1>1
  <2>5. Len(others) = u - k
    BY <2>2, <2>4, <2>a, Zenon
  <2>6. ASSUME NEW i \in 1..(u - k) PROVE others[i] = unread[k + i]
    <3>1. others[i] = unread[k + 1 + i - 1]
      BY <2>2, <2>3, <2>4, Zenon
    <3>. QED
      BY <2>3, <3>1
  <2>. QED
    BY <2>2, <2>4, <2>5, <2>6
<1>. HIDE DEF new, others
<1>5. /\ buffer \o new \in Seq(T) /\ Len(buffer \o new) = b + k
      /\ \A i \in 1..(b + k) : (buffer \o new)[i] =
             IF i <= b THEN buffer[i] ELSE new[i - b]
  <2>1. /\ buffer \o new \in Seq(T) /\ Len(buffer \o new) = Len(buffer) + Len(new)
        /\ \A i \in 1..(Len(buffer) + Len(new)) : (buffer \o new)[i] =
               IF i <= Len(buffer) THEN buffer[i] ELSE new[i - Len(buffer)]
    BY <1>2, <1>3, ConcatProperties
  <2>. QED
    BY <1>3, <2>1 DEF b
<1>6. ASSUME NEW i \in 1..(b + k)
      PROVE  (buffer \o new)[i] = Stream(request)[from + i - 1]
  <2>1. CASE i <= b
    BY <1>2, <1>5, <2>1
  <2>2. CASE ~(i <= b)
    <3>. DEFINE j == i - b
    <3>1. j \in 1..k /\ j \in 1..u /\ read + j = from + i - 1
      BY <1>0, <1>1, <1>2, <2>2
    <3>2. (buffer \o new)[i] = new[j]
      BY <1>5, <2>2
    <3>. HIDE DEF j
    <3>. QED
      BY <1>1, <1>3, <3>1, <3>2
  <2>. QED
    BY <2>1, <2>2
<1>7. b + k = (read + k) - from + 1
  BY <1>0, <1>1, <1>2
<1>8. Part(buffer \o new, from, read + k)
  BY <1>5, <1>6, <1>7 DEF Part, T
<1>9. ASSUME NEW i \in 1..(u - k)
      PROVE  others[i] = Stream(request)[read + k + 1 + i - 1]
  <2>1. k + i \in 1..u /\ read + (k + i) = read + k + 1 + i - 1
    BY <1>0, <1>1
  <2>. QED
    BY <1>1, <1>4, <2>1
<1>10. u - k = to - (read + k + 1) + 1
  BY <1>0, <1>1
<1>11. Part(others, read + k + 1, to)
  BY <1>4, <1>9, <1>10 DEF Part, T
<1>. QED
  BY <1>0, <1>1, <1>8, <1>11 DEF new, others

\* Where the headers end, in a request of which the first tokens are read.
LEMMA MatchEndIs ==
    ASSUME request \in Requests, NEW read \in 0..Len(Stream(request)), NEW data,
           Part(data, 1, read)
    PROVE  /\ read < 2 => MatchEnd(data) = 0
           /\ read >= 2 => /\ MatchEnd(data) = 2
                           /\ Part(SubSeq(data, 2 + 1, Len(data)), 3, read)
<1>. DEFINE ends == {i \in 1..Len(data) : data[i] = "end"}
            all == Stream(request)
            n == Len(BodyTokens(request))
<1>1. /\ n \in Nat /\ all[1] = "part" /\ all[2] = "end"
      /\ \A i \in 1..n : all[2 + i] \in {"size", "data"}
      /\ \A i \in (3 + n)..Len(all) : all[i] \in {"zero", "boundary", "excess"}
      /\ Len(all) \in Nat
  BY StreamPlaces, StreamIsTokens, LenProperties DEF Places
<1>2. /\ data \in Seq(RequestTokens) /\ Len(data) = read /\ read \in 0..Len(all)
      /\ \A i \in 1..read : data[i] = all[i]
  <2>1. data \in Seq(RequestTokens) /\ Len(data) = read
    BY <1>1 DEF Part
  <2>2. \A i \in 1..read : data[i] = all[1 + i - 1]
    BY <2>1 DEF Part
  <2>3. \A i \in 1..read : 1 + i - 1 = i
    BY <1>1
  <2>. QED
    BY <2>1, <2>2, <2>3
<1>3. MatchEnd(data) = IF ends # {} THEN Min(ends) ELSE 0
  BY DEF MatchEnd, SelectInSeq
<1>. HIDE DEF all, n
<1>4. \A i \in 1..Len(all) : all[i] = "end" => i = 2
  <2>1. SUFFICES ASSUME NEW i \in 1..Len(all), i # 2 PROVE all[i] # "end"
    OBVIOUS
  <2>2. CASE i = 1
    BY <1>1, <2>2
  <2>3. CASE i - 2 \in 1..n
    <3>1. 2 + (i - 2) = i
      BY <1>1
    <3>2. all[2 + (i - 2)] \in {"size", "data"}
      BY <1>1, <2>3, Zenon
    <3>. QED
      BY <3>1, <3>2
  <2>4. CASE i \in (3 + n)..Len(all)
    BY <1>1, <2>4
  <2>. QED
    BY <1>1, <2>1, <2>2, <2>3, <2>4
<1>5. ends = IF read < 2 THEN {} ELSE {2}
  <2>1. \A i \in ends : i = 2 /\ i <= read
    BY <1>1, <1>2, <1>4
  <2>2. read >= 2 => 2 \in ends
    BY <1>1, <1>2
  <2>. HIDE DEF ends
  <2>. QED
    BY <1>1, <1>2, <2>1, <2>2
<1>. HIDE DEF ends
<1>6. Min({2}) = 2
  BY DEF Min
<1>7. /\ read < 2 => MatchEnd(data) = 0
      /\ read >= 2 => MatchEnd(data) = 2
  BY <1>1, <1>2, <1>3, <1>5, <1>6
<1>8. ASSUME read >= 2 PROVE Part(SubSeq(data, 2 + 1, Len(data)), 3, read)
  <2>. DEFINE after == SubSeq(data, 3, read)
  <2>1. \A i \in 3..read : data[i] \in RequestTokens
    BY <1>1, <1>2, ElementOfSeq
  <2>2. /\ after \in Seq(RequestTokens)
        /\ Len(after) = IF 3 <= read THEN read - 3 + 1 ELSE 0
        /\ \A i \in 1..(read - 3 + 1) : after[i] = data[3 + i - 1]
    BY <1>1, <1>2, <2>1, SubSeqProperties
  <2>3. Len(after) = read - 3 + 1
    BY <1>1, <1>2, <1>8, <2>2
  <2>. HIDE DEF after
  <2>4. ASSUME NEW i \in 1..Len(after) PROVE after[i] = all[3 + i - 1]
    <3>1. 3 + i - 1 \in 1..read
      BY <1>1, <1>2, <1>8, <2>3
    <3>. QED
      BY <1>2, <2>2, <2>3, <3>1
  <2>5. Part(after, 3, read)
    BY <2>2, <2>3, <2>4 DEF Part, all
  <2>. QED
    BY <1>2, <2>5 DEF after
<1>. QED
  BY <1>7, <1>8

\* What a handler must be called with.
WholeBody(bytes) ==
    LET sent == OnlyData(Stream(request)) IN
    /\ IsPrefix(sent, bytes)
    /\ ~request.excess => bytes = sent

\* The data of a request, as a list.
LEMMA DataIs ==
    ASSUME request \in Requests
    PROVE  /\ OnlyData(Stream(request)) \in Seq(RequestTokens)
           /\ Len(OnlyData(Stream(request))) =
                 Cardinality({i \in 1..Len(Stream(request)) : Stream(request)[i] = "data"})
           /\ \A i \in 1..Len(OnlyData(Stream(request))) :
                 OnlyData(Stream(request))[i] = "data"
           /\ WholeBody(OnlyData(Stream(request)))
<1>. DEFINE all == Stream(request)
            I == {i \in 1..Len(all) : all[i] = "data"}
            sent == AtPositions(all, I)
<1>1. all \in Seq(RequestTokens) /\ I \in SUBSET (1..Len(all))
  BY StreamIsTokens
<1>2. OnlyData(Stream(request)) = sent
  BY DEF OnlyData
<1>. HIDE DEF all, sent
<1>3. /\ sent \in Seq(RequestTokens) /\ Len(sent) = Cardinality(I)
      /\ Picks(sent, all, I)
  BY <1>1, SelectionIsList DEF sent
<1>4. ASSUME NEW i \in 1..Len(sent) PROVE sent[i] = "data"
  <2>1. PICK at \in [DOMAIN sent -> I] : \A n \in DOMAIN sent : sent[n] = all[at[n]]
    BY <1>3 DEF Picks
  <2>2. i \in DOMAIN sent
    BY <1>3, LenProperties
  <2>3. at[i] \in I /\ sent[i] = all[at[i]]
    BY <2>1, <2>2
  <2>. QED
    BY <2>3
<1>5. IsPrefix(sent, sent)
  BY <1>3, LenProperties DEF IsPrefix
<1>. QED
  BY <1>2, <1>3, <1>4, <1>5 DEF WholeBody, all

\* The data of what was read are those of the request once its body is read.
LEMMA DataIsRead ==
    ASSUME request \in Requests, NEW read \in 0..Len(Stream(request)), NEW data,
           Part(data, 3, read), read >= 2 + Len(BodyTokens(request))
    PROVE  OnlyData(data) = OnlyData(Stream(request))
<1>. DEFINE all == Stream(request)
            n == Len(BodyTokens(request))
            I == {i \in 1..Len(data) : data[i] = "data"}
            J == {i \in 1..Len(all) : all[i] = "data"}
<1>1. /\ n \in Nat /\ all[1] = "part" /\ all[2] = "end"
      /\ \A i \in (3 + n)..Len(all) : all[i] \in {"zero", "boundary", "excess"}
      /\ Len(all) \in Nat /\ read \in 0..Len(all)
  BY StreamPlaces, StreamIsTokens, LenProperties DEF Places
<1>2. /\ Len(data) = read - 2
      /\ \A i \in 1..Len(data) : data[i] = all[i + 2]
  <2>1. Len(data) = read - 3 + 1
    BY DEF Part
  <2>2. ASSUME NEW i \in 1..Len(data) PROVE data[i] = all[i + 2]
    <3>1. data[i] = all[3 + i - 1] /\ 3 + i - 1 = i + 2
      BY DEF Part
    <3>. QED
      BY <3>1
  <2>. QED
    BY <1>1, <2>1, <2>2
<1>3. I \in SUBSET Int /\ IsFiniteSet(I)
  <2>1. Len(data) \in Int
    BY <1>1, <1>2
  <2>2. IsFiniteSet(1..Len(data))
    BY <2>1, 1 \in Int, FS_Interval, Zenon
  <2>3. I \subseteq 1..Len(data) /\ I \subseteq Int
    OBVIOUS
  <2>. HIDE DEF I
  <2>. QED
    BY <2>2, <2>3, FS_Subset
<1>4. /\ \A j \in J : j - 2 \in I
      /\ \A i \in I : i + 2 \in J
  <2>. HIDE DEF all, n
  <2>1. ASSUME NEW j \in J PROVE j - 2 \in I
    <3>1. j \in 1..Len(all) /\ all[j] = "data"
      OBVIOUS
    <3>2. j # 1 /\ j # 2 /\ j \notin (3 + n)..Len(all)
      BY <1>1, <3>1
    <3>3. j - 2 \in 1..Len(data) /\ j - 2 + 2 = j
      BY <1>1, <1>2, <3>1, <3>2 DEF n
    <3>4. data[j - 2] = all[j - 2 + 2]
      BY <1>2, <3>3, Zenon
    <3>5. data[j - 2] = "data"
      BY <3>1, <3>3, <3>4
    <3>. QED
      BY <3>3, <3>5
  <2>2. ASSUME NEW i \in I PROVE i + 2 \in J
    <3>1. i \in 1..Len(data) /\ data[i] = "data"
      OBVIOUS
    <3>2. i + 2 \in 1..Len(all)
      BY <1>1, <1>2, <3>1
    <3>3. all[i + 2] = "data"
      BY <1>2, <3>1
    <3>. QED
      BY <3>2, <3>3
  <2>. HIDE DEF I, J
  <2>. QED
    BY <2>1, <2>2
<1>5. J \in SUBSET Int /\ \A i \in I : data[i] = all[i + 2]
  BY <1>2
<1>6. AtPositions(data, I) = AtPositions(all, J)
  <2>. HIDE DEF I, J, all
  <2>. QED
    BY SMTT(30), <1>3, <1>4, <1>5, ShiftedSelection
<1>. QED
  BY <1>6 DEF OnlyData

\* A body with a Content-Length is there when as much was read; what was read
\* after it is given with it.
LEMMA LengthIsRead ==
    ASSUME request \in Requests, NEW read \in 0..Len(Stream(request)), NEW data,
           request.kind = "length", Part(data, 3, read), Len(data) >= request.size
    PROVE  WholeBody(data)
<1>. DEFINE all == Stream(request)
            sent == OnlyData(Stream(request))
            n == Len(BodyTokens(request))
<1>1. /\ n \in Nat /\ n = request.size /\ Len(all) \in Nat
      /\ Len(all) = 2 + n + (IF request.excess THEN 1 ELSE 0)
      /\ \A i \in 1..n : all[2 + i] = "data"
  BY StreamPlaces, StreamIsTokens, LenProperties DEF Places, Ending
<1>2. /\ data \in Seq(RequestTokens) /\ Len(data) = read - 3 + 1
      /\ \A i \in 1..Len(data) : data[i] = all[3 + i - 1]
  BY DEF Part
<1>3. read >= 2 + n /\ read \in Nat /\ read <= Len(all) /\ Len(data) \in Nat
      /\ Len(data) = read - 2 /\ n <= Len(data)
  BY <1>1, <1>2, LenProperties
<1>4. OnlyData(data) = sent
  BY <1>3, DataIsRead
<1>5. sent \in Seq(RequestTokens) /\ \A i \in 1..Len(sent) : sent[i] = "data"
  BY DataIs
<1>. DEFINE I == {i \in 1..Len(data) : data[i] = "data"}
<1>6. I = 1..n
  <2>1. ASSUME NEW i \in 1..n PROVE i \in I
    <3>1. i \in 1..Len(data) /\ 3 + i - 1 = 2 + i
      BY <1>1, <1>3
    <3>2. data[i] = all[3 + i - 1] /\ all[2 + i] = "data"
      BY <1>1, <1>2, <3>1, Zenon
    <3>. QED
      BY <3>1, <3>2
  <2>2. ASSUME NEW i \in I PROVE i \in 1..n
    <3>1. i \in 1..Len(data) /\ data[i] = "data"
      OBVIOUS
    <3>2. CASE i > n
      <4>1. 3 + i - 1 \in (3 + n)..Len(all)
        BY <1>1, <1>3, <3>1, <3>2
      <4>2. all[3 + i - 1] \in {"zero", "boundary", "excess"}
        BY <4>1, StreamPlaces, Zenon DEF Places
      <4>. QED
        BY <1>2, <3>1, <4>2
    <3>. QED
      BY <1>1, <1>3, <3>1, <3>2
  <2>. HIDE DEF I, n
  <2>. QED
    BY <2>1, <2>2
<1>7. Len(sent) = n
  <2>1. sent = AtPositions(data, I)
    BY <1>4 DEF OnlyData
  <2>2. Len(AtPositions(data, I)) = Cardinality(I)
    <3>1. I \in SUBSET (1..Len(data))
      OBVIOUS
    <3>. HIDE DEF I
    <3>. QED
      BY <1>2, <3>1, SelectionIsList
  <2>3. Cardinality(1..n) = n
    <3>1. n \in Int /\ 1 \in Int
      BY <1>1
    <3>2. Cardinality(1..n) = IF 1 > n THEN 0 ELSE n - 1 + 1
      BY <3>1, FS_Interval, Zenon
    <3>. QED
      BY <1>1, <3>2
  <2>. QED
    BY <1>6, <2>1, <2>2, <2>3
<1>. HIDE DEF sent, n, all, I
<1>8. \A i \in 1..n : data[i] = "data" /\ sent[i] = "data"
  BY <1>5, <1>6, <1>7 DEF I
<1>9. IsPrefix(sent, data)
  <2>. DEFINE s == SubSeq(sent, 1, n)
              d == SubSeq(data, 1, n)
  <2>1. s \in Seq(RequestTokens) /\ Len(s) = n /\ \A i \in 1..n : s[i] = sent[i]
    <3>1. \A i \in 1..n : sent[i] \in RequestTokens
      BY <1>5, <1>7, ElementOfSeq
    <3>. QED
      BY <1>1, <1>5, <1>7, <3>1, SubSeqProperties
  <2>2. d \in Seq(RequestTokens) /\ Len(d) = n /\ \A i \in 1..n : d[i] = data[i]
    <3>1. \A i \in 1..n : data[i] \in RequestTokens
      BY <1>2, <1>3, <1>1, ElementOfSeq
    <3>. QED
      BY <1>1, <1>2, <1>3, <3>1, SubSeqProperties
  <2>. HIDE DEF s, d
  <2>3. s = d
    BY <1>8, <2>1, <2>2, SeqEqual
  <2>. QED
    BY <1>3, <1>7, <2>3 DEF IsPrefix, s, d
<1>10. ASSUME ~request.excess PROVE data = sent
  <2>1. Len(data) = n
    BY <1>1, <1>3, <1>10
  <2>2. \A i \in 1..Len(data) : data[i] = sent[i]
    BY <1>8, <2>1
  <2>. QED
    BY <1>2, <1>5, <1>7, <2>1, <2>2, SeqEqual
<1>. QED
  BY <1>9, <1>10 DEF WholeBody, sent

\* What a callback does with what it has read: the handler is called with the
\* whole body, or what was read is kept.
DealsWith(data) ==
    /\ handler' = "running" /\ script' # Refused => WholeBody(body')
    /\ pc' \in Reading => pc' # "headers" /\ buffer' = data

\* An exception, and a 400, call no handler.
LEMMA DroppedCallsNone ==
    ASSUME handler = "none", NEW data, NEW said, Dropped(said) \/ BadRequest(said)
    PROVE  DealsWith(data)
BY DEF Dropped, BadRequest, DealsWith, given, Reading

\* The handler is called.
LEMMA FinalizeCallsWhole ==
    ASSUME handler = "none", NEW data, NEW made, NEW bytes, NEW said,
           made # Refused => WholeBody(bytes), Finalize(made, bytes, said)
    PROVE  DealsWith(data)
<1>1. CASE Raises(said)
  BY <1>1, DroppedCallsNone DEF Raises
<1>2. CASE script' = made /\ body' = bytes /\ pc' = "turn"
  BY <1>2 DEF DealsWith, Reading
<1>. QED
  BY <1>1, <1>2 DEF Finalize

\* The same, whichever handler it is.
LEMMA FinalizeRequestCallsWhole ==
    ASSUME handler = "none", NEW data, NEW bytes, NEW said, WholeBody(bytes),
           FinalizeRequest(bytes, said)
    PROVE  DealsWith(data)
BY FinalizeCallsWhole DEF FinalizeRequest

\* What is read on is kept.
LEMMA ReadOnKeeps ==
    ASSUME handler = "none", NEW data, NEW said,
           NEW state \in {"multi", "body", "chunk", "chunkBody"},
           ReadOn(state, data, said)
    PROVE  DealsWith(data)
BY DEF ReadOn, DealsWith, given

\* Nothing but the end of a body is at its end.
LEMMA EndIsAtEnd ==
    ASSUME request \in Requests, NEW read \in 0..Len(Stream(request)), NEW data,
           Part(data, 3, read), NEW i \in 1..Len(data), data[i] \in {"zero", "boundary"}
    PROVE  read >= 2 + Len(BodyTokens(request))
<1>. DEFINE all == Stream(request)
            n == Len(BodyTokens(request))
<1>1. /\ n \in Nat /\ Len(all) \in Nat /\ read \in Nat
      /\ \A j \in 1..n : all[2 + j] \in {"size", "data"}
  BY StreamPlaces, StreamIsTokens, LenProperties DEF Places
<1>2. /\ Len(data) = read - 3 + 1 /\ data[i] = all[3 + i - 1]
  BY DEF Part
<1>. HIDE DEF all, n
<1>3. 3 + i - 1 = 2 + i
  BY <1>1, <1>2
<1>4. i \notin 1..n
  <2>1. SUFFICES ASSUME i \in 1..n PROVE FALSE
    OBVIOUS
  <2>2. all[2 + i] \in {"size", "data"}
    BY <1>1, <2>1, Zenon
  <2>. QED
    BY <1>2, <1>3, <2>2
<1>5. read >= 2 + n
  BY <1>1, <1>2, <1>4
<1>. QED
  BY <1>5 DEF n

\* A request without a body has none.
LEMMA NothingIsWhole ==
    ASSUME request \in Requests, request.kind \in {"get", "bare"}
    PROVE  WholeBody(<<>>)
<1>. DEFINE sent == OnlyData(Stream(request))
            J == {i \in 1..Len(Stream(request)) : Stream(request)[i] = "data"}
<1>1. /\ Len(BodyTokens(request)) = 0
      /\ Stream(request)[1] = "part" /\ Stream(request)[2] = "end"
      /\ \A i \in 3..Len(Stream(request)) :
            Stream(request)[i] \in {"zero", "boundary", "excess"}
  <2>1. Len(BodyTokens(request)) = 0
    BY StreamPlaces DEF Places
  <2>2. \A i \in (3 + Len(BodyTokens(request)))..Len(Stream(request)) :
            Stream(request)[i] \in {"zero", "boundary", "excess"}
    BY StreamPlaces DEF Places
  <2>3. 3 + Len(BodyTokens(request)) = 3
    BY <2>1
  <2>. QED
    BY <2>1, <2>2, <2>3, StreamPlaces DEF Places
<1>2. J = {}
  <2>1. SUFFICES ASSUME NEW i \in J PROVE FALSE
    OBVIOUS
  <2>2. i \in 1..Len(Stream(request)) /\ Stream(request)[i] = "data"
    OBVIOUS
  <2>3. Len(Stream(request)) \in Nat
    BY StreamIsTokens, LenProperties
  <2>4. i = 1 \/ i = 2 \/ i \in 3..Len(Stream(request))
    BY <2>2, <2>3
  <2>. QED
    BY <1>1, <2>2, <2>4
<1>3. Len(sent) = 0 /\ sent \in Seq(RequestTokens)
  BY <1>2, DataIs, FS_EmptySet
<1>4. sent = <<>>
  BY <1>3, EmptySeq
<1>. QED
  BY <1>4, DataIs DEF WholeBody

\* A form that is read to its boundary is whole.
LEMMA ReadMultiFormDealsWith ==
    ASSUME request \in Requests, handler = "none", NEW read \in 0..Len(Stream(request)),
           NEW data, Part(data, 3, read), ReadMultiForm(data)
    PROVE  DealsWith(data)
<1>1. CASE ReadOn("multi", data, <<>>)
  BY <1>1, ReadOnKeeps
<1>2. CASE Raises(<<>>)
  BY <1>2, DroppedCallsNone DEF Raises
<1>3. CASE data # <<>> /\ Last(data) = "boundary" /\ FinalizeRequest(OnlyData(data), <<>>)
  <2>1. data \in Seq(RequestTokens) /\ data # <<>>
    BY <1>3 DEF Part
  <2>2. Len(data) \in 1..Len(data) /\ data[Len(data)] = "boundary"
    BY <1>3, <2>1 DEF Last
  <2>3. OnlyData(data) = OnlyData(Stream(request))
    BY <2>2, EndIsAtEnd, DataIsRead
  <2>. QED
    BY <1>3, <2>3, DataIs, FinalizeRequestCallsWhole
<1>. QED
  BY <1>1, <1>2, <1>3 DEF ReadMultiForm

\* A body is whole when its last chunk, or as much as was announced, is read.
LEMMA ReadBodyDealsWith ==
    ASSUME request \in Requests, handler = "none", NEW read \in 0..Len(Stream(request)),
           NEW data, NEW said, Part(data, 3, read), ReadBody(data, said)
    PROVE  DealsWith(data)
<1>1. CASE BadRequest(said) \/ Raises(said)
  BY <1>1, DroppedCallsNone DEF Raises
<1>2. CASE \E state \in {"body", "chunk", "chunkBody"} : ReadOn(state, data, said)
  BY <1>2, ReadOnKeeps
<1>3. CASE Contains(data, "zero") /\ FinalizeRequest(OnlyData(data), said)
  <2>1. PICK i \in 1..Len(data) : data[i] = "zero"
    BY <1>3 DEF Contains
  <2>2. OnlyData(data) = OnlyData(Stream(request))
    BY <2>1, EndIsAtEnd, DataIsRead
  <2>. QED
    BY <1>3, <2>2, DataIs, FinalizeRequestCallsWhole
<1>4. CASE request.kind = "bare" /\ FinalizeRequest(<<>>, said)
  BY <1>4, NothingIsWhole, FinalizeRequestCallsWhole
<1>5. CASE request.kind = "length" /\ ReadLength(data, said)
  <2>1. CASE Len(data) < request.size
    BY <1>2, <1>5, <2>1 DEF ReadLength
  <2>2. CASE ~(Len(data) < request.size)
    <3>1. Len(data) \in Nat /\ request.size \in Nat
      BY HttpHandlerAssumption, LenProperties DEF Part
    <3>2. WholeBody(data)
      BY <1>5, <2>2, <3>1, LengthIsRead
    <3>3. Raises(said) \/ FinalizeRequest(data, said)
      BY <1>5, <2>2 DEF ReadLength
    <3>. QED
      BY <1>1, <3>2, <3>3, FinalizeRequestCallsWhole
  <2>. QED
    BY <2>1, <2>2
<1>. QED
  BY <1>1, <1>2, <1>3, <1>4, <1>5 DEF ReadBody, ReadChunks

\* The headers are read, and what was read after them is dealt with.
LEMMA ReadHeadersDealsWith ==
    ASSUME request \in Requests, handler = "none", NEW read \in 0..Len(Stream(request)),
           NEW data, Part(data, 1, read), ReadHeaders(data)
    PROVE  /\ handler' = "running" /\ script' # Refused => WholeBody(body')
           /\ pc' = "headers" => buffer' = data
           /\ pc' \in Reading \ {"headers"} => read >= 2 /\ Part(buffer', 3, read)
<1>. DEFINE after == SubSeq(data, 2 + 1, Len(data))
            said == IF request.expect THEN <<"100">> ELSE <<>>
<1>1. CASE read < 2
  <2>1. MatchEnd(data) = 0
    BY <1>1, MatchEndIs
  <2>2. ReadOn("headers", data, <<>>)
    BY <2>1 DEF ReadHeaders
  <2>. QED
    BY <2>2 DEF ReadOn, given, Reading
<1>2. CASE read >= 2
  <2>1. MatchEnd(data) = 2 /\ Part(after, 3, read)
    BY <1>2, MatchEndIs
  <2>2. \/ request.kind = "multi" /\ ReadMultiForm(after)
        \/ Raises(<<>>)
        \/ Finalize(Refused, <<>>, said)
        \/ request.kind = "get" /\ FinalizeRequest(<<>>, said)
        \/ ReadBody(after, said)
    <3>. HIDE DEF said
    <3>. QED
      BY <2>1 DEF ReadHeaders, said
  <2>. HIDE DEF after, said
  <2>3. DealsWith(after)
    <3>1. CASE request.kind = "multi" /\ ReadMultiForm(after)
      BY <2>1, <3>1, ReadMultiFormDealsWith
    <3>2. CASE Raises(<<>>)
      BY <3>2, DroppedCallsNone DEF Raises
    <3>3. CASE Finalize(Refused, <<>>, said)
      BY <3>3, FinalizeCallsWhole
    <3>4. CASE request.kind = "get" /\ FinalizeRequest(<<>>, said)
      BY <3>4, NothingIsWhole, FinalizeRequestCallsWhole
    <3>5. CASE ReadBody(after, said)
      BY <2>1, <3>5, ReadBodyDealsWith
    <3>. QED
      BY <2>2, <3>1, <3>2, <3>3, <3>4, <3>5
  <2>4. "headers" \in Reading
    BY DEF Reading
  <2>5. /\ handler' = "running" /\ script' # Refused => WholeBody(body')
        /\ pc' \in Reading => pc' # "headers" /\ buffer' = after
    BY <2>3 DEF DealsWith
  <2>6. pc' \in Reading => Part(buffer', 3, read)
    BY <2>1, <2>5
  <2>. QED
    BY <1>2, <2>4, <2>5, <2>6
<1>3. read \in Nat
  BY StreamIsTokens, LenProperties
<1>. QED
  BY <1>1, <1>2, <1>3

\* A recv: what it returns is put to what was read before.
LEMMA RecvDealsWith ==
    ASSUME ReadInv, DataTypes, TimerInv, handler = "none", NEW k \in 1..Len(unread), Recv(k)
    PROVE  /\ handler' = "running" /\ script' # Refused => WholeBody(body')
           /\ ReadInv'
<1>. DEFINE L == Len(Stream(request))
<1>1. PICK read \in 0..L :
          /\ Part(unread, read + 1, L)
          /\ pc = "headers" => Part(buffer, 1, read)
          /\ pc \in Reading \ {"headers"} => read >= 2 /\ Part(buffer, 3, read)
  BY DEF ReadInv
<1>2. /\ request \in Requests /\ request' = request /\ pc \in Reading
      /\ unread' = SubSeq(unread, k + 1, Len(unread)) /\ L \in Nat
  BY StreamIsTokens, LenProperties DEF Recv, DataTypes, TimerInv
<1>3. read \in Nat /\ k \in Nat /\ k > 0
  <2>1. Len(unread) \in Nat
    BY LenProperties DEF DataTypes
  <2>. QED
    BY <1>2, <2>1
<1>. DEFINE from == IF pc = "headers" THEN 1 ELSE 3
            data == buffer \o SubSeq(unread, 1, k)
            now == read + k
<1>4. from \in Nat \ {0} /\ from <= read + 1 /\ Part(buffer, from, read)
  BY <1>1, <1>2, <1>3
<1>. HIDE DEF L
<1>5. /\ now \in Nat /\ now <= L /\ Part(data, from, now)
      /\ Part(unread', now + 1, L)
  <2>. HIDE DEF from
  <2>. QED
    BY <1>1, <1>2, <1>3, <1>4, PartGrows
<1>6. now \in 0..L
  BY <1>2, <1>5
<1>. DEFINE Kept == /\ handler' = "running" /\ script' # Refused => WholeBody(body')
                    /\ pc' = "headers" => Part(buffer', 1, now)
                    /\ pc' \in Reading \ {"headers"} => now >= 2 /\ Part(buffer', 3, now)
<1>7. Kept
  <2>. DEFINE d == data
  <2>1. CASE timer = "stale"
    <3>1. Dropped(<<>>)
      BY <2>1 DEF Recv
    <3>. QED
      BY <3>1 DEF Dropped, given, Reading
  <2>2. CASE timer # "stale" /\ pc = "headers" /\ ReadHeaders(data)
    <3>1. Part(data, 1, now)
      BY <1>5, <2>2
    <3>. HIDE DEF data, now
    <3>2. /\ handler' = "running" /\ script' # Refused => WholeBody(body')
          /\ pc' = "headers" => buffer' = data
          /\ pc' \in Reading \ {"headers"} => now >= 2 /\ Part(buffer', 3, now)
      BY <1>2, <1>6, <2>2, <3>1, ReadHeadersDealsWith DEF L
    <3>3. pc' = "headers" => Part(buffer', 1, now)
      BY <3>1, <3>2
    <3>. QED
      BY <3>2, <3>3
  <2>3. CASE /\ timer # "stale" /\ pc # "headers"
             /\ ReadMultiForm(data) \/ ReadBody(data, <<>>)
    <3>1. Part(data, 3, now) /\ now >= 2
      BY <1>1, <1>2, <1>3, <1>5, <2>3
    <3>. HIDE DEF data, now
    <3>2. DealsWith(data)
      BY <1>2, <1>6, <2>3, <3>1, ReadMultiFormDealsWith, ReadBodyDealsWith DEF L
    <3>3. "headers" \in Reading
      BY DEF Reading
    <3>. QED
      BY <3>1, <3>2, <3>3 DEF DealsWith
  <2>4. timer = "stale" \/ Deal(data)
    BY DEF Recv
  <2>. HIDE DEF data, now, Kept
  <2>. QED
    BY <2>1, <2>2, <2>3, <2>4 DEF Deal
<1>8. ReadInv'
  <2>. HIDE DEF now
  <2>1. /\ now \in 0..Len(Stream(request'))
        /\ Part(unread, now + 1, Len(Stream(request)))'
    BY <1>2, <1>5, <1>6 DEF L, Part
  <2>2. /\ (pc = "headers" => Part(buffer, 1, now))'
        /\ (pc \in Reading \ {"headers"} => now >= 2 /\ Part(buffer, 3, now))'
    BY <1>2, <1>7 DEF Part
  <2>. QED
    BY <2>1, <2>2 DEF ReadInv
<1>. QED
  BY <1>7, <1>8

\* Nothing else reads, and nothing else calls a handler.
LEMMA OthersReadNothing ==
    ASSUME ConnectionInv, [Next]_vars, ~(\E k \in 1..Len(unread) : Recv(k))
    PROVE  /\ UNCHANGED <<request, unread, buffer>>
           /\ pc' \in Reading => pc' = pc
           /\ handler' = "running" => handler # "none"
<1>. USE DEF given, input, connection, output, encoder, Reading
<1>1. CASE UNCHANGED vars
  BY <1>1 DEF vars
<1>2. CASE RecvClosed
  <2>1. handler = "none"
    BY <1>2 DEF RecvClosed, ConnectionInv, OutputInv, HandlerInv, TimerInv
  <2>. QED
    BY <1>2, <2>1 DEF RecvClosed, BadRequest, Dropped
<1>3. CASE TimedOut
  BY <1>3 DEF TimedOut
<1>4. CASE Peer
  BY <1>4 DEF Peer
<1>5. CASE Write
  <2>1. CASE WriteRest
    BY <2>1 DEF WriteRest, SendFails, CloseConnection
  <2>2. CASE HandlerRaises
    BY <2>2 DEF HandlerRaises, Ends, Start500, CloseConnection
  <2>3. CASE HandlerStops
    BY <2>3 DEF HandlerStops, Ends, Start500, CloseConnection
  <2>4. CASE RespondLater
    BY <2>4 DEF RespondLater, Ask
  <2>5. CASE RespondSuspended \/ Resumed
    BY <2>5 DEF RespondSuspended, Resumed, Ask
  <2>6. CASE \E item \in {"head", "part", "data"} : Respond(item)
    BY <2>6 DEF Respond, Ask, Out, CompressItem, SendFails, CloseConnection
  <2>. QED
    BY <1>5, <2>1, <2>2, <2>3, <2>4, <2>5, <2>6 DEF Write
<1>. QED
  BY <1>1, <1>2, <1>3, <1>4, <1>5 DEF Next

\* A step keeps ReadInv, and calls a handler with nothing but the whole body.
LEMMA ReadStep ==
    ASSUME ConnectionInv, ReadInv, [Next]_vars
    PROVE  /\ ReadInv'
           /\ handler = "none" /\ handler' = "running" /\ script' # Refused =>
                 WholeBody(body')
<1>1. ASSUME NEW k \in 1..Len(unread), Recv(k)
      PROVE  /\ ReadInv'
             /\ handler = "none" /\ handler' = "running" /\ script' # Refused =>
                   WholeBody(body')
  <2>1. DataTypes /\ TimerInv /\ handler = "none"
    BY <1>1 DEF ConnectionInv, OutputInv, HandlerInv, TimerInv, Recv
  <2>. QED
    BY <1>1, <2>1, RecvDealsWith
<1>2. CASE ~(\E k \in 1..Len(unread) : Recv(k))
  <2>1. /\ UNCHANGED <<request, unread, buffer>>
        /\ pc' \in Reading => pc' = pc
        /\ handler' = "running" => handler # "none"
    BY <1>2, OthersReadNothing
  <2>2. PICK read \in 0..Len(Stream(request)) :
            /\ Part(unread, read + 1, Len(Stream(request)))
            /\ pc = "headers" => Part(buffer, 1, read)
            /\ pc \in Reading \ {"headers"} => read >= 2 /\ Part(buffer, 3, read)
    BY DEF ReadInv
  <2>3. "headers" \in Reading
    BY DEF Reading
  <2>4. /\ read \in 0..Len(Stream(request'))
        /\ Part(unread, read + 1, Len(Stream(request)))'
        /\ (pc = "headers" => Part(buffer, 1, read))'
        /\ (pc \in Reading \ {"headers"} => read >= 2 /\ Part(buffer, 3, read))'
    BY <2>1, <2>2, <2>3 DEF Part
  <2>5. ReadInv'
    BY <2>4 DEF ReadInv
  <2>. QED
    BY <2>1, <2>5
<1>. QED
  BY <1>1, <1>2

\* Nothing is read at first.
LEMMA ReadInit ==
    ASSUME Init
    PROVE  ReadInv
<1>1. /\ request \in Requests /\ unread = Stream(request) /\ buffer = <<>>
      /\ pc = "headers"
  BY DEF Init
<1>2. Stream(request) \in Seq(RequestTokens) /\ Len(Stream(request)) \in Nat
  BY <1>1, StreamIsTokens, LenProperties
<1>3. 0 \in 0..Len(Stream(request))
  BY <1>2
<1>4. Part(unread, 0 + 1, Len(Stream(request)))
  <2>1. \A i \in 1..Len(unread) : 0 + 1 + i - 1 = i
    BY <1>1, <1>2
  <2>2. \A i \in 1..Len(unread) : unread[i] = Stream(request)[0 + 1 + i - 1]
    BY <1>1, <2>1
  <2>3. Len(unread) = Len(Stream(request)) - (0 + 1) + 1
    BY <1>1, <1>2
  <2>. QED
    BY <1>1, <1>2, <2>2, <2>3 DEF Part
<1>5. Part(buffer, 1, 0)
  BY <1>1, EmptySeq DEF Part
<1>. QED
  BY <1>1, <1>3, <1>4, <1>5 DEF ReadInv

\* The handler is called with the whole body of the request, whatever its kind,
\* its size and the parts in which it comes.
THEOREM WholeRequestIsGiven == Spec => WholeRequest
<1>. DEFINE A == handler = "none" /\ handler' = "running" /\ script' # Refused =>
                    LET sent == OnlyData(Stream(request)) IN
                    /\ IsPrefix(sent, body')
                    /\ ~request.excess => body' = sent
            Both == ConnectionInv /\ ReadInv
<1>1. Init => Both
  BY ConnectionInit, ReadInit
<1>2. Both /\ [Next]_vars => Both'
  BY ConnectionStep, ReadStep
<1>3. Both /\ [Next]_vars => A
  <2>1. ASSUME Both, [Next]_vars, handler = "none", handler' = "running",
               script' # Refused
        PROVE  WholeBody(body')
    BY <2>1, ReadStep
  <2>. QED
    BY <2>1 DEF WholeBody
<1>4. Both /\ [Next]_vars => [A]_vars
  BY <1>3
<1>. HIDE DEF Both
<1>5. Spec => []Both
  BY <1>1, <1>2, PTL DEF Spec
<1>. QED
  BY <1>4, <1>5, PTL DEF Spec, WholeRequest
=============================================================================
