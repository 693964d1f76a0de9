----------------------------- MODULE HttpReader ----------------------------
(* The callback client, weightless/http/_httpreader.py: its handler is sent   *)
(* the response and then the body, by fragment or by chunk, and is told of    *)
(* the end, by close(), or of a timeout, by throw().                          *)
EXTENDS Descriptors, Sequences, SequencesExt

CONSTANTS Me,        \* the client
          Responses  \* what servers send, by token

\* A response is "part" of its header, "header", and its body: units of "data",
\* or chunks of three tokens, "size", "fill", with which its data is complete,
\* and "crlf"; "last" is the chunk of size 0.  "end" is the server's close and
\* "reset" its reset; without them it falls silent.
Body == {"data", "size", "fill", "crlf", "last"}
Tokens == {"part", "header", "end", "reset"} \cup Body

BodyOf(r) == IF r.chunked THEN Body \ {"data"} ELSE {"data"}

\* Data is followed by its CRLF, and the last chunk by nothing, but for an end.
Framed(tokens) ==
    \A i, j \in DOMAIN tokens : j = i + 1 =>
        /\ tokens[i] = "fill" => tokens[j] \in {"crlf", "end", "reset"}
        /\ tokens[i] = "last" => tokens[j] \in {"end", "reset"}

\* Behind the header comes the body.
HttpReaderAssumption ==
    /\ Me \in Client
    /\ Responses \subseteq [chunked : BOOLEAN, tokens : Seq(Tokens)]
    /\ \A r \in Responses : ClosedLast(r.tokens) /\ Framed(r.tokens)
    /\ \A r \in Responses : \A i, j \in DOMAIN r.tokens :
          i < j /\ r.tokens[i] = "header" => r.tokens[j] \in BodyOf(r) \cup {"end", "reset"}

VARIABLES response,  \* what the server sends
          state,     \* whose turn it is: the registered callback
          unread,    \* tokens not read
          buffer,    \* _buffer: tokens of chunks not handed on
          timer,     \* _timer is pending
          told,      \* history: what the handler got, in order
          failed     \* history: a callback raised

vars == <<response, state, unread, buffer, timer, told, failed, num, fds>>

\* Also "new" and "refused", when there is none yet; "lost", when a callback
\* raised, and "broken", when it did by a reset; "over"; and "kept", when that is
\* so but for the socket.
Reading == {"request", "header", "body"}
Raised == {"lost", "broken"}

Init ==
    /\ response \in Responses
    /\ state = "new" /\ unread = response.tokens /\ buffer = <<>>
    /\ timer = FALSE /\ told = <<>> /\ failed = FALSE
-----------------------------------------------------------------------------
\* The constructor: addWriter, then the timer.  Connector has connected.
Construct ==
    /\ state = "new"
    /\ Opens(Me, "writer")
    /\ state' = "request" /\ timer' = TRUE
    /\ UNCHANGED <<response, unread, buffer, told, failed>>

\* addWriter raises, and the socket is dropped.
ConstructRaises ==
    /\ state = "new" /\ Available # {} /\ fds[Lowest] # None
    /\ state' = "refused"
    /\ UNCHANGED <<response, unread, buffer, timer, told, failed, num, fds>>

\* Fault: the reader is added before the writer is removed.
SendRequestSwapped ==
    /\ state = "request"
    /\ Unregisters(Me) /\ state' = "header"
    /\ UNCHANGED <<response, unread, buffer, timer, told, failed>>

\* _sendGetRequest and _sendPostRequest send all in one callback.
SendRequest ==
    /\ state = "request"
    /\ Waits(Me, "reader") /\ state' = "header"
    /\ UNCHANGED <<response, unread, buffer, timer, told, failed>>

\* A callback raises: the reactor removes its registration.
Raises(becomes) ==
    /\ Unregisters(Me)
    /\ state' = becomes /\ failed' = TRUE

Next1(token) == unread # <<>> /\ Head(unread) = token

SendRaises ==
    /\ state = "request"
    /\ Raises("lost")
    /\ UNCHANGED <<response, unread, buffer, timer, told>>

\* recv in the header raises; the timer goes on.
HeaderRaises ==
    /\ state = "header" /\ Next1("reset")
    /\ Raises("broken")
    /\ UNCHANGED <<response, unread, buffer, timer, told>>

\* _headerFragment finds no header; nor does it, time after time, when the
\* server has closed, which changes nothing.
HeaderPart ==
    /\ state = "header" /\ Next1("part")
    /\ unread' = Tail(unread)
    /\ UNCHANGED <<response, state, buffer, timer, told, failed, num, fds>>

\* _sendFragment hands a fragment on as it is, or one chunk of the buffer at
\* most: the first, once its data is complete, and with it the place of a CRLF
\* that may not have arrived.
Chunked(b) == Len(b) >= 2 /\ b[1] = "size" /\ b[2] = "fill"
Handed(b) ==
    IF ~response.chunked THEN b ELSE IF Chunked(b) THEN <<"data">> ELSE <<>>
Kept(b) ==
    IF ~response.chunked THEN <<>>
    ELSE IF Chunked(b) THEN SubSeq(b, 4, Len(b)) ELSE b

\* Fault: the last chunk is found behind others.
LastAnywhere(b) == response.chunked /\ "last" \in ToSet(b)

\* The last chunk is next.
Last1(b) == response.chunked /\ b # <<>> /\ Head(b) = "last"

\* What one recv of k tokens leaves in the buffer.
Fragment(k) ==
    /\ unread' = SubSeq(unread, k + 1, Len(unread))
    /\ \A i \in 1..k : unread[i] \notin {"end", "reset"}

\* _stop: the socket and then the handler are closed, which may raise.
Stops(heard) ==
    /\ Leaves(Me) /\ state' = "over" /\ told' = heard \o <<"close">>

\* The header, and what came in the same recv.  With the last chunk in it, the
\* closed socket is registered again and the timer started: the last callback
\* that this makes, before anything else, stops the timer and raises.
Header ==
    /\ state = "header" /\ Next1("header")
    /\ \E k \in 1..Len(unread) :
        LET b == SubSeq(unread, 2, k) IN
        /\ Fragment(k)
        /\ IF Last1(b)
           THEN Stops(<<"header">>) /\ timer' = FALSE /\ buffer' = b /\ failed' = TRUE
           ELSE /\ Waits(Me, "reader") /\ state' = "body" /\ timer' = TRUE
                /\ told' = <<"header">> \o Handed(b) /\ buffer' = Kept(b)
                /\ UNCHANGED failed
    /\ UNCHANGED response

\* _bodyFragment: with the last chunk, the timer is started after the stop, unless
\* that raised.
BodyFragment ==
    /\ state = "body"
    /\ \E k \in 1..Len(unread) :
        LET b == buffer \o SubSeq(unread, 1, k) IN
        /\ Fragment(k)
        /\ \/ /\ Last1(b) /\ Stops(told) /\ buffer' = b
              /\ \/ timer' = TRUE /\ UNCHANGED failed
                 \/ timer' = FALSE /\ failed' = TRUE
           \/ /\ ~Last1(b) /\ told' = told \o Handed(b) /\ buffer' = Kept(b)
              /\ timer' = TRUE /\ UNCHANGED <<state, failed, num, fds>>
    /\ UNCHANGED response

\* The server closed; what the buffer still has is not handed on.
BodyEnd ==
    /\ state = "body" /\ Next1("end")
    /\ Stops(told) /\ timer' = FALSE /\ failed' \in {failed, TRUE}
    /\ UNCHANGED <<response, unread, buffer>>

\* recv in the body, or the handler, raises: the timer was stopped before.
BodyRaises ==
    /\ \/ state = "body" /\ unread # <<>> /\ Head(unread) # "end"
       \/ state = "header" /\ Next1("header")
    /\ Raises("lost") /\ timer' = FALSE
    /\ UNCHANGED <<response, unread, buffer, told>>

\* Whether the connection may be one the server has reset.
MayBeReset == state \in Raised \/ "reset" \in ToSet(unread)

\* _timeOut tells the handler, whatever it was told before, takes the registration
\* away, and closes the socket; but shutdown raises when the socket was reset (or
\* is closed), and then nothing closes it.
TimeOut ==
    /\ timer
    /\ told' = Append(told, "timeout")
    /\ timer' = FALSE
    /\ \/ num[Me] = None /\ state' = "over" /\ UNCHANGED <<num, fds>>
       \/ num[Me] # None /\ state # "broken" /\ Leaves(Me) /\ state' = "over"
       \/ num[Me] # None /\ MayBeReset /\ Unregisters(Me) /\ state' = "kept"
    /\ UNCHANGED <<response, unread, buffer, failed>>

\* Who called HttpReaderFacade drops the reader it returned.  No callback and no
\* timer refers to it any more: its socket is closed.
Dropped ==
    /\ state = "kept" \/ (state = "lost" /\ ~timer)
    /\ num' = [num EXCEPT ![Me] = None]
    /\ state' = "over"
    /\ UNCHANGED <<response, unread, buffer, timer, told, failed, fds>>

Event ==
    \/ SendRequest \/ SendRaises \/ HeaderRaises \/ HeaderPart \/ Header
    \/ BodyFragment \/ BodyEnd \/ BodyRaises

Next == Construct \/ ConstructRaises \/ Event \/ TimeOut \/ Dropped

\* The reactor fires timers; a reader needs no other fairness to get to an end.
Fairness == WF_vars(TimeOut)
-----------------------------------------------------------------------------
TypeOK ==
    /\ DescriptorsTypeOK
    /\ response \in Responses
    /\ state \in Reading \cup Raised \cup {"new", "refused", "over", "kept"}
    /\ unread \in Seq(Tokens) /\ buffer \in Seq(Body)
    /\ {timer, failed} \subseteq BOOLEAN
    /\ told \in Seq({"header", "data", "close", "timeout"})

\* A reader that waits is registered for what it waits for, and its timer runs.
Watched ==
    state \in Reading =>
        /\ timer
        /\ WaitsAs(Me, IF state = "request" THEN {"writer"} ELSE {"reader"})

\* A reader that is over has no socket, and none that has ended a registration.
\* A timeout leaves the socket to the reader's owner when shutdown raised, which
\* takes a reset or a callback that raised before (_httpreader.py:208).
CleanedUp ==
    /\ state \in {"new", "refused", "over"} => num[Me] = None
    /\ state \notin Reading => \A k \in Kinds, n \in Numbers : fds[n] # <<Me, k>>
    /\ state = "kept" => failed \/ "reset" \in ToSet(response.tokens)

\* The handler gets the header, data, and one end: the close, with all of the
\* body when its end was seen, or the timeout.  After the last chunk, and only
\* then, a timeout may follow the close.
HandlerHears ==
    LET all == Count(response.tokens, {"data", "fill"})
        ends == {i \in DOMAIN told : told[i] \in {"close", "timeout"}}
    IN /\ \A i \in DOMAIN told : told[i] = "header" => i = 1
       /\ Count(told, {"data"}) <= all
       /\ \A i \in ends : i = Len(told) \/ (i = Len(told) - 1
              /\ told[i] = "close" /\ Last(told) = "timeout" /\ Last1(buffer))
       /\ (\E i \in ends : told[i] = "close") /\ (~response.chunked \/ Last1(buffer))
              => Count(told, {"data"}) = all

\* A reader with a timer gets to its end, unless a callback raises once the
\* timer is stopped.
ReaderEnds == timer ~> (state \in {"over", "kept"} \/ (failed /\ ~timer))
=============================================================================
