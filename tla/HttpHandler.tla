----------------------------- MODULE HttpHandler ---------------------------
(* One connection of the HTTP server, weightless/http/_httpserver.py: an      *)
(* HttpHandler is the reader of its socket while it collects a request, with  *)
(* a timer that its data restarts; then a generator, _writeResponse, is the   *)
(* writer of the socket, until the handler that the generatorFactory made has *)
(* given its whole response.                                                  *)
(*                                                                            *)
(* The bytes of a request are tokens: one recv returns any first part of      *)
(* those the client has not sent before, and a client may send no more.  An   *)
(* exception that leaves a callback makes the reactor forget it; a socket     *)
(* that no callback and no timer refers to is closed by the interpreter.      *)
EXTENDS Integers, Sequences, FiniteSets, SequencesExt, Selection

CONSTANTS
    Requests,  \* [kind, size, expect, unknown, raises, excess], see the assumption
    Handlers,  \* what a handler yields: sequences of Items, then its end
    Compress   \* the values of compressResponse with an encoding that fits

Kinds == {"get", "bare", "length", "chunked", "multi"}
Items == {"head", "part", "data", "yield", "suspend"}
Scripts == [yields : Seq(Items), end : {"stop", "raise"}]

ASSUME HttpHandlerAssumption ==
    /\ \A q \in Requests :
          /\ q.kind \in Kinds        \* bare: POST without Content-Length
          /\ q.size \in Nat          \* chunks, or units of the body
          /\ {q.expect,              \* Expect: 100-continue
              q.unknown,             \* a Content-Encoding that is not supported
              q.raises,              \* the body cannot be parsed or decoded
              q.excess} \subseteq BOOLEAN
    /\ Handlers \subseteq Scripts
    /\ Compress \subseteq BOOLEAN

VARIABLES
    request, unread,  \* what the client sends, the tokens it has not sent yet
    peer,      \* the other end: "up", "closed" by it, "gone": reset
    pc,        \* _dealWithCall, then the yield of _writeResponse
    buffer,    \* _dataBuffer
    reg,       \* what the reactor has of the socket
    timer,     \* _timer: none, pending, or stale: it has fired
    open,      \* the socket is not closed at this end
    handler,   \* the generator: not made, running or ended
    script,    \* what it has still to yield, and its end
    body,      \* the request's Body (or Form) that it was called with
    encoding,  \* encodeResponseBody is not None
    endHeader, responseStarted,
    held,      \* in `headers` or in the compressor
    rest,      \* _rest
    wire,      \* history: all that was sent
    produced   \* history: all bytes that the handler has yielded

vars == <<request, unread, peer, pc, buffer, reg, timer, open, handler, script,
          body, encoding, endHeader, responseStarted, held, rest, wire, produced>>
input == <<request, unread, peer, buffer, timer, body>>
connection == <<pc, reg, open, handler>>
encoder == <<encoding, endHeader, held>>
output == <<encoder, responseStarted, rest, produced>>
given == <<handler, script, body>>

Reading == {"headers", "multi", "body", "chunk", "chunkBody"}
Responding == {"turn", "suspended", "flush", "fail"}

\* The tokens of a request: a header in two parts, a body, what follows it.
BodyTokens(q) ==
    CASE q.kind = "chunked" ->
            [i \in 1..2 * q.size |-> IF i % 2 = 1 THEN "size" ELSE "data"]
      [] q.kind \in {"length", "multi"} -> [i \in 1..q.size |-> "data"]
      [] OTHER -> <<>>
Stream(q) ==
    <<"part", "end">> \o BodyTokens(q)
    \o (CASE q.kind = "chunked" -> <<"zero">>
          [] q.kind = "multi" -> <<"boundary">>
          [] OTHER -> <<>>)
    \o (IF q.excess THEN <<"excess">> ELSE <<>>)

\* The body among the tokens of a request.
OnlyData(tokens) ==
    AtPositions(tokens, {i \in 1..Len(tokens) : tokens[i] = "data"})
RequestTokens == {"part", "end", "data", "size", "zero", "boundary", "excess"}
WireTokens == {"100", "400", "500", "head", "part", "data", "trailer"}

TypeOK ==
    /\ request \in Requests /\ unread \in Seq(RequestTokens)
    /\ peer \in {"up", "closed", "gone"}
    /\ pc \in Reading \cup Responding \cup {"over"}
    /\ buffer \in Seq(RequestTokens) /\ body \in Seq(RequestTokens)
    /\ reg \in {"none", "reader", "writer", "suspended"}
    /\ timer \in {"none", "pending", "stale"}
    /\ handler \in {"none", "running", "ended"}
    /\ script \in Scripts
    /\ {open, encoding, endHeader, responseStarted} \subseteq BOOLEAN
    /\ \A s \in {held, rest, wire, produced} : s \in Seq(WireTokens)
    /\ reg # "none" => open

NoHandler == [yields |-> <<>>, end |-> "stop"]

\* Acceptor._accept: a reader, and no timer.
Init ==
    /\ request \in Requests /\ unread = Stream(request)
    /\ peer = "up" /\ open = TRUE /\ reg = "reader" /\ timer = "none"
    /\ pc = "headers" /\ buffer = <<>>
    /\ handler = "none" /\ script = NoHandler /\ body = <<>>
    /\ encoding \in Compress
    /\ endHeader = FALSE /\ responseStarted = FALSE
    /\ held = <<>> /\ rest = <<>> /\ wire = <<>> /\ produced = <<>>

----------------------------------------------------------------------------
(* The parts of a callback.  `said' is what the callback has sent before.     *)

\* An exception leaves the callback: the reactor forgets it, and a pending
\* timer keeps the socket until it fires.
Dropped(said) ==
    /\ wire' = wire \o said
    /\ pc' = "over" /\ reg' = "none" /\ open' = (timer' = "pending")
    /\ UNCHANGED <<buffer, given>>

\* While a request is dealt with, the timer was restarted before.
Raises(said) == timer' = "pending" /\ Dropped(said)

\* send, removeReader, shutdown and close
BadRequest(said) ==
    IF peer = "gone" THEN Dropped(said)
    ELSE /\ wire' = wire \o said \o <<"400">>
         /\ pc' = "over" /\ reg' = "none" /\ open' = FALSE
         /\ UNCHANGED <<buffer, given>>

\* Fault: the timer is not removed.
FinalizeKeepsTimer(made, requestBody, said) ==
    /\ handler' = "running" /\ script' = made /\ body' = requestBody
    /\ timer' = "pending" /\ reg' = "writer" /\ pc' = "turn"
    /\ wire' = wire \o said /\ UNCHANGED <<buffer, open>>

\* getpeername raises when the client is gone, finalizeMethod may raise;
\* else removeTimer, removeReader, addWriter.
Finalize(made, requestBody, said) ==
    \/ Raises(said)
    \/ /\ peer # "gone"
       /\ handler' = "running" /\ script' = made /\ body' = requestBody
       /\ timer' = "none" /\ reg' = "writer" /\ pc' = "turn"
       /\ wire' = wire \o said /\ UNCHANGED <<buffer, open>>

\* self.finalize: the generatorFactory makes one of the handlers.
FinalizeRequest(requestBody, said) ==
    \E made \in Handlers : Finalize(made, requestBody, said)

\* Return, and wait for more data.
ReadOn(state, data, said) ==
    /\ pc' = state /\ buffer' = data /\ wire' = wire \o said
    /\ timer' = "pending" /\ UNCHANGED <<reg, open, given>>

\* Complete when what was read last ends with the closing boundary.  The buffer
\* of the model is the code's temporary file.
ReadMultiForm(data) ==
    IF data = <<>> \/ Last(data) # "boundary" THEN ReadOn("multi", data, <<>>)
    ELSE IF request.raises THEN Raises(<<>>)
    ELSE FinalizeRequest(OnlyData(data), <<>>)

\* Fault: a chunk size line that is read ends the body.
ReadChunksUntilSize(data, said) ==
    IF Contains(data, "zero") \/ Contains(data, "size")
    THEN FinalizeRequest(OnlyData(data), said)
    ELSE ReadOn("chunk", data, said)

\* _readChunk and _readChunkBody in turns.  The buffer of the model keeps the
\* chunks, which the code moves to the request's Body.
ReadChunks(data, said) ==
    IF Contains(data, "zero")
    THEN IF request.raises THEN Raises(said)
         ELSE FinalizeRequest(OnlyData(data), said)
    ELSE \/ request.raises /\ Contains(data, "data") /\ Raises(said)
         \/ LET sizeRead == data # <<>> /\ Last(data) = "size" IN
            ReadOn(IF sizeRead THEN "chunkBody" ELSE "chunk", data, said)

\* The Body is the whole buffer, with what follows the announced length.
ReadLength(data, said) ==
    IF Len(data) < request.size THEN ReadOn("body", data, said)
    ELSE IF request.raises THEN Raises(said)
    ELSE FinalizeRequest(data, said)

ReadBody(data, said) ==
    \/ request.unknown /\ timer' = "pending" /\ BadRequest(said)
    \/ /\ ~request.unknown
       /\ \/ request.kind = "chunked" /\ ReadChunks(data, said)
          \/ request.kind = "bare" /\ FinalizeRequest(<<>>, said)
          \/ request.kind = "length" /\ ReadLength(data, said)

\* More than maxConnections: the errorHandler's response.
Refused == [yields |-> <<"head">>, end |-> "stop"]

\* Where the headers end; 0 when they do not yet.
MatchEnd(data) == SelectInSeq(data, LAMBDA t : t = "end")

ReadHeaders(data) ==
    LET matchEnd == MatchEnd(data)
        after == SubSeq(data, matchEnd + 1, Len(data))
        said == IF request.expect THEN <<"100">> ELSE <<>>
    IN
    IF matchEnd = 0 THEN ReadOn("headers", data, <<>>)
    ELSE IF request.kind = "multi" THEN ReadMultiForm(after)
    ELSE IF request.expect /\ peer = "gone" THEN Raises(<<>>)
    ELSE \/ Finalize(Refused, <<>>, said)
         \/ IF request.kind = "get" THEN FinalizeRequest(<<>>, said)
            ELSE ReadBody(after, said)

Deal(data) ==
    \/ pc = "headers" /\ ReadHeaders(data)
    \/ pc = "multi" /\ ReadMultiForm(data)
    \/ pc \in {"body", "chunk", "chunkBody"} /\ ReadBody(data, <<>>)

----------------------------------------------------------------------------
(* Reading: __call__ and the timer.                                           *)

\* recv returns k tokens; _resetTimer, then _dealWithCall.  The removal of a
\* timer that has fired raises ValueError.
Recv(k) ==
    /\ reg = "reader"
    /\ unread' = SubSeq(unread, k + 1, Len(unread))
    /\ IF timer = "stale" THEN UNCHANGED timer /\ Dropped(<<>>)
       ELSE Deal(buffer \o SubSeq(unread, 1, k))
    /\ UNCHANGED <<request, peer, output>>

\* recv returns nothing; that it raises when the client is gone comes to the same.
RecvClosed ==
    /\ reg = "reader" /\ peer # "up"
    /\ UNCHANGED timer
    /\ BadRequest(<<>>)
    /\ UNCHANGED <<request, unread, peer, output>>

\* Fault: the connection is not closed.
TimedOutKeepsReader ==
    /\ timer = "pending" /\ timer' = "stale"
    /\ wire' = IF open /\ peer # "gone" THEN Append(wire, "400") ELSE wire
    /\ UNCHANGED <<request, unread, peer, pc, buffer, reg, open, given, output>>

\* _badRequest in a timer callback.  When send raises, a reader stays; without
\* one the socket goes with the timer.
TimedOut ==
    /\ timer = "pending" /\ timer' = "stale"
    /\ IF peer = "gone" \/ ~open
       THEN open' = (open /\ reg # "none") /\ UNCHANGED <<wire, pc, reg>>
       ELSE /\ wire' = Append(wire, "400")
            /\ pc' = "over" /\ reg' = "none" /\ open' = FALSE
    /\ UNCHANGED <<request, unread, peer, buffer, given, output>>

----------------------------------------------------------------------------
(* Responding: _writeResponse, called when the socket takes data.             *)

\* handler.close, cleanup, shutdown, close
CloseConnection ==
    /\ handler' = "ended" /\ pc' = "over" /\ reg' = "none" /\ open' = FALSE

\* Fault: what the socket did not take is forgotten.
SendForgetsRest(data) ==
    /\ peer # "gone"
    /\ \E k \in 1..Len(data) : wire' = wire \o SubSeq(data, 1, k)
    /\ rest' = <<>>

Send(data) ==
    /\ peer # "gone"
    /\ \E k \in 1..Len(data) : /\ wire' = wire \o SubSeq(data, 1, k)
                               /\ rest' = SubSeq(data, k + 1, Len(data))

\* send raises, and its exception is thrown into the handler: that raises it
\* again, or the connection is closed first; nothing is left in either case.
SendFails ==
    /\ peer = "gone" /\ CloseConnection /\ UNCHANGED <<wire, rest>>

\* What the socket did not take before.  In the loops for a flushed compressor
\* and for a 500 the connection is closed after it.
WriteRest ==
    /\ reg = "writer" /\ rest # <<>>
    /\ responseStarted' = (responseStarted \/ pc # "fail")
    /\ \/ /\ Send(rest)
          /\ IF rest' = <<>> /\ pc # "turn" THEN CloseConnection
             ELSE UNCHANGED connection
       \/ SendFails
    /\ UNCHANGED <<input, script, encoder, produced>>

\* What an item is in bytes: two, so that a send may take a part.
Bytes(item) == <<item, item>>
Asks == reg = "writer" /\ pc = "turn" /\ rest = <<>>
Ask(item) ==
    /\ Asks /\ script.yields # <<>> /\ Head(script.yields) = item
    /\ script' = [script EXCEPT !.yields = Tail(@)]
    /\ UNCHANGED input

\* Send what there is to send after an item.
Out(data) ==
    \/ /\ data = <<>>
       /\ UNCHANGED <<wire, rest, responseStarted, connection>>
    \/ /\ data # <<>> /\ responseStarted' = TRUE
       /\ \/ Send(data) /\ UNCHANGED connection
          \/ SendFails

\* The compressor gives nothing or all that it has.
CompressItem(item) ==
    \/ held' = held \o Bytes(item) /\ Out(<<>>)
    \/ held' = <<>> /\ Out(held \o Bytes(item))

\* A part of the response.  With an encoding its header is collected first; a
\* Content-Encoding among the handler's headers turns it off.
Respond(item) ==
    /\ Ask(item)
    /\ produced' = produced \o Bytes(item)
    /\ \/ ~encoding /\ Out(Bytes(item)) /\ UNCHANGED encoder
       \/ /\ encoding /\ ~endHeader /\ item = "head"
          /\ endHeader' = TRUE /\ encoding' \in BOOLEAN
          /\ held' = <<>> /\ Out(held \o Bytes(item))
       \/ /\ encoding /\ ~endHeader /\ item # "head"
          /\ held' = held \o Bytes(item) /\ Out(<<>>)
          /\ UNCHANGED <<encoding, endHeader>>
       \/ /\ encoding /\ endHeader
          /\ CompressItem(item) /\ UNCHANGED <<encoding, endHeader>>

\* Yield: the next writable event.
RespondLater ==
    /\ Ask("yield")
    /\ UNCHANGED <<connection, output, wire>>

\* A Suspend: its doNext may raise, and the writer stays.
RespondSuspended ==
    /\ Ask("suspend")
    /\ pc' = "suspended" /\ reg' \in {"writer", "suspended"}
    /\ UNCHANGED <<open, handler, output, wire>>

\* Suspend.resume or throw by another callback, or the event after a doNext
\* that has raised: the writer is there (again).
Resumed ==
    /\ pc = "suspended"
    /\ pc' = "turn" /\ reg' = "writer"
    /\ UNCHANGED <<input, open, handler, script, output, wire>>

Ends(end) ==
    /\ Asks /\ script.yields = <<>> /\ script.end = end
    /\ UNCHANGED <<input, script, encoding, endHeader, responseStarted, wire, produced>>

Start500 ==
    /\ pc' = "fail" /\ rest' = <<"500", "500">> /\ handler' = "ended"
    /\ held' = <<>> /\ UNCHANGED <<reg, open>>

\* Fault: a 500 whatever was sent.
HandlerRaisesAlways500 == Ends("raise") /\ Start500

HandlerRaises ==
    /\ Ends("raise")
    /\ \/ responseStarted /\ CloseConnection /\ UNCHANGED <<held, rest>>
       \/ ~responseStarted /\ Start500

\* Fault: no 500 for a handler that gives nothing.
HandlerStopsSilently ==
    /\ Ends("stop") /\ ~encoding
    /\ CloseConnection /\ UNCHANGED <<held, rest>>

\* StopIteration: the compressor is flushed; a header that is not complete is
\* not in it, and is lost.
HandlerStops ==
    /\ Ends("stop")
    /\ \/ /\ encoding
          /\ pc' = "flush" /\ handler' = "ended" /\ held' = <<>>
          /\ rest' = (IF endHeader THEN held ELSE <<>>) \o <<"trailer">>
          /\ UNCHANGED <<reg, open>>
       \/ ~encoding /\ responseStarted /\ CloseConnection /\ UNCHANGED <<held, rest>>
       \/ ~encoding /\ ~responseStarted /\ Start500

----------------------------------------------------------------------------
PeerCloses == peer = "up" /\ peer' = "closed"
PeerResets == peer # "gone" /\ peer' = "gone"
Peer ==
    /\ PeerCloses \/ PeerResets
    /\ UNCHANGED <<request, unread, pc, buffer, reg, timer, open, given, output, wire>>

Write ==
    \/ WriteRest \/ HandlerRaises \/ HandlerStops
    \/ RespondLater \/ RespondSuspended \/ Resumed
    \/ \E item \in {"head", "part", "data"} : Respond(item)

Next ==
    \/ \E k \in 1..Len(unread) : Recv(k)
    \/ RecvClosed \/ TimedOut \/ Write \/ Peer

\* The reactor reports a closed connection, calls due timers and, as long as
\* the client takes what is sent, the writer; whoever has a Suspend settles it.
Spec ==
    /\ Init /\ [][Next]_vars
    /\ WF_vars(RecvClosed) /\ WF_vars(TimedOut) /\ WF_vars(Write)

----------------------------------------------------------------------------
\* What the client gets is one answer: the bytes of a response, one 400 or one
\* 500, and no second one after it; a 100 Continue comes before it.
Answer(token) == IF token \in {"100", "400", "500"} THEN token ELSE "response"
OneAnswer ==
    \A i \in DOMAIN wire :
        /\ wire[i] = "100" => i = 1 /\ request.expect
        /\ \A j \in DOMAIN wire :
              /\ "100" \notin {wire[i], wire[j]} => Answer(wire[i]) = Answer(wire[j])
              /\ wire[i] = "400" /\ wire[j] = "400" => i = j

\* Types, and one answer.
IInv == TypeOK /\ OneAnswer

\* From the first data on the timer guards the reading of a request, unless it
\* has fired at a client that was gone; no timer guards (or cuts off) a response.
TimerGuardsRequest ==
    /\ reg = "reader" /\ unread # Stream(request) =>
          timer = "pending" \/ (timer = "stale" /\ peer = "gone")
    /\ pc \in Responding => timer = "none"

\* The handler is called with the whole body of the request; it gets more when
\* bytes that follow a Content-Length were read with it.
WholeRequest ==
    [][handler = "none" /\ handler' = "running" /\ script' # Refused =>
          LET sent == OnlyData(Stream(request)) IN
          /\ IsPrefix(sent, body')
          /\ ~request.excess => body' = sent]_vars

\* All that the handler gives is sent, once and in its order, however little
\* the socket takes and the compressor keeps; a response that comes to its end
\* leaves nothing behind, but a header that the compression waits for in vain.
NothingLost ==
    \E before \in {<<>>, <<"100">>} :
        /\ pc \in {"turn", "suspended"} => wire \o rest \o held = before \o produced
        /\ pc = "over" /\ handler = "ended" /\ peer # "gone"
              /\ script.end = "stop" /\ ~(encoding /\ ~endHeader) =>
           \E after \in {<<>>, <<"trailer">>, <<"500", "500">>} :
              /\ wire = before \o produced \o after
              /\ after = <<"500", "500">> => produced = <<>>

\* Something but a 100 Continue was sent.
Answered(w) == \E i \in DOMAIN w : w[i] # "100"

\* A client that stays does not see its connection closed without an answer.
AnsweredBeforeClosed == ~open /\ peer = "up" => Answered(wire)

\* A connection ends once its client has begun to send a request.
ConnectionEnds == unread # Stream(request) ~> ~open
=============================================================================
