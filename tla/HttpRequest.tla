----------------------------- MODULE HttpRequest ---------------------------
(* One request of the HTTP/1.1 client, weightless/http/_httprequest1_1.py: a  *)
(* generator that runs in callbacks of the reactor, connects or takes a       *)
(* socket from the pool, sends, reads the response, retries once on a fresh   *)
(* socket, and settles the Suspend its client waits for, unless the timeout   *)
(* does so first.                                                             *)
(*                                                                            *)
(* A response is a sequence of tokens: what one recv returns is any initial   *)
(* part of the tokens that have not been read.  The reactor's tables are      *)
(* reduced to the registrations of this generator, and a callback to the      *)
(* action that is enabled while the registration is there.                    *)
EXTENDS Naturals, Sequences, FiniteSets, SequencesExt

CONSTANTS
    Requests,      \* [secure, timeout, close : BOOLEAN, maxSize : Nat \ {0} or None]
    Responses,     \* [continue, old, close, excess : BOOLEAN, framing, size]
    MaxHandshakes, \* 254 in the code
    None

Framings == {"none", "length", "chunked", "close"}
Socks == {"pooled", "fresh"}  \* the one from the pool, the one connected

ASSUME HttpRequestAssumption ==
    /\ \A q \in Requests : /\ {q.secure, q.timeout, q.close} \subseteq BOOLEAN
                           /\ q.maxSize \in (Nat \ {0}) \cup {None}
    /\ \A r \in Responses :
          /\ {r.continue, r.old, r.close, r.excess} \subseteq BOOLEAN
          /\ r.framing \in Framings /\ r.size \in Nat
          /\ r.framing = "none" => r.size = 0
    /\ MaxHandshakes \in Nat \ {0}

VARIABLES
    request, response,  \* what is asked, and what any server answers to it
    pc,          \* the yield at which the generator waits
    regs,        \* its registrations in the reactor: <<kind, socket>>
    sok, retryOnce, recievedData,
    count,       \* of the handshakes
    sent,        \* the last byte of the request is sent
    got,         \* header bytes read and not matched
    left,        \* body units read so far
    unread,      \* tokens of the answer on sok that were not read
    open,        \* sockets that are not closed at our end
    pool,        \* sockets in the pool
    result,      \* how the Suspend was settled
    timer,       \* its timer is pending
    dead,        \* an AssertionError has left the loop
    asked        \* history: sockets on which the request was (partly) sent

vars == <<request, response, pc, regs, sok, retryOnce, recievedData, count,
          sent, got, left, unread, open, pool, result, timer, dead, asked>>
conn == <<retryOnce, recievedData, count, sent, got, left, unread>>

Rest == {"data", "chunk", "lastchunk", "excess"}
Tokens == {"part", "continue", "final"} \cup Rest

\* The bytes of an answer: the header comes in two parts.
Script(r) ==
    (IF r.continue THEN <<"part", "continue">> ELSE <<>>) \o <<"part", "final">>
    \o [i \in 1..r.size |-> IF r.framing = "chunked" THEN "chunk" ELSE "data"]
    \o (IF r.framing = "chunked" THEN <<"lastchunk">> ELSE <<>>)
    \o (IF r.excess THEN <<"excess">> ELSE <<>>)

TypeOK ==
    /\ request \in Requests /\ response \in Responses
    /\ pc \in {"idle", "start", "connect", "shake", "send", "head", "body",
               "done", "ended"}
    /\ regs \subseteq {"process", "reader", "writer"} \X (Socks \cup {None})
    /\ sok \in Socks \cup {None}
    /\ {retryOnce, recievedData, sent, timer, dead} \subseteq BOOLEAN
    /\ count \in 0..MaxHandshakes
    /\ got \in Seq(Tokens) /\ left \in Nat /\ unread \in Seq(Tokens)
    /\ open \subseteq Socks /\ pool \subseteq open
    /\ result \in {"none", "response", "error", "timeout"}
    /\ asked \subseteq Socks

Init ==
    /\ request \in Requests /\ response \in Responses
    /\ pc = "idle" /\ regs = {} /\ sok = None
    /\ retryOnce = FALSE /\ recievedData = FALSE /\ count = 0 /\ sent = FALSE
    /\ got = <<>> /\ left = 0 /\ unread = <<>>
    /\ pool \in {{}, {"pooled"}} /\ open = pool
    /\ result = "none" /\ timer = FALSE /\ dead = FALSE /\ asked = {}

----------------------------------------------------------------------------
(* Suspend, the reactor and the pool, as the generator uses them.             *)

\* Fault: the timer stays.
SettleKeepsTimer(outcome) ==
    /\ result' = IF result = "none" THEN outcome ELSE result
    /\ dead' = (result # "none")
    /\ UNCHANGED timer

\* suspend.resume and suspend.throw; AssertionError when settled already.  The
\* client's __next__ only resumes the client's own callback.
Settle(outcome) ==
    /\ result' = IF result = "none" THEN outcome ELSE result
    /\ dead' = (result # "none")
    /\ timer' = FALSE

\* shutAndCloseOnce, and throw to the client
Fails == /\ pc' = "done" /\ regs' = {} /\ Settle("error")

\* Where sok is used: no try of _createSocket closes it at a timeout.
InUse == pc \in {"send", "head", "body"}

\* The client yields the Suspend: its doNext adds the generator as a process.
Begin ==
    /\ pc = "idle"
    /\ pc' = "start" /\ regs' = {<<"process", None>>}
    /\ timer' = request.timeout
    /\ UNCHANGED <<request, response, sok, conn, open, pool, result, dead, asked>>

----------------------------------------------------------------------------
(* Connecting.  The same steps serve the first attempt and the retry.         *)

\* socket.connect raises: the socket is closed.
ConnectRaises ==
    /\ Fails
    /\ sok' = None
    /\ UNCHANGED <<count, sent, got, left, unread>>

\* EINPROGRESS
Connecting ==
    /\ sok' = "fresh" /\ pc' = "connect"
    /\ regs' = {<<"writer", "fresh">>}
    /\ count' = 0 /\ sent' = FALSE /\ got' = <<>> /\ left' = 0 /\ unread' = <<>>
    /\ UNCHANGED <<result, timer, dead>>

\* _createSocket up to its first yield; kept: the sockets that stay open
CreateSocket(kept) ==
    /\ retryOnce' = FALSE /\ recievedData' = FALSE
    /\ \/ ConnectRaises /\ open' = kept
       \/ Connecting /\ open' = kept \cup {"fresh"}

StartFresh ==
    /\ pc = "start" /\ pool = {}
    /\ CreateSocket(open)
    /\ UNCHANGED <<request, response, pool, asked>>

\* addWriter and the yield before the headers are sent
ToSend(s) ==
    /\ pc' = "send" /\ regs' = {<<"writer", s>>}
    /\ sok' = s /\ sent' = FALSE /\ recievedData' = FALSE
    /\ got' = <<>> /\ left' = 0 /\ unread' = Script(response)

StartPooled ==
    /\ pc = "start" /\ pool # {}
    /\ pool' = {} /\ retryOnce' = TRUE
    /\ ToSend("pooled")
    /\ UNCHANGED <<request, response, count, open, result, timer, dead, asked>>

\* The socket object of a failed handshake is dropped, and closed by that.
HandshakeFails ==
    /\ Fails
    /\ open' = open \ {"fresh"}
    /\ UNCHANGED <<sok, recievedData, sent, got, left, unread>>

\* Fault: no limit.
HandshakeUnlimited ==
    \/ HandshakeFails /\ UNCHANGED count
    \/ /\ \E kind \in {"reader", "writer"} : regs' = {<<kind, "fresh">>}
       /\ pc' = "shake"
       /\ UNCHANGED <<sok, recievedData, count, sent, got, left, unread, open,
                      result, timer, dead>>
    \/ ToSend("fresh") /\ UNCHANGED <<count, open, result, timer, dead>>

\* One turn of _sslHandshake's loop; a success at the last turn fails as well.
Handshake ==
    \/ count = MaxHandshakes /\ HandshakeFails /\ UNCHANGED count
    \/ /\ count < MaxHandshakes /\ count' = count + 1
       /\ \/ HandshakeFails
          \/ /\ \E kind \in {"reader", "writer"} : regs' = {<<kind, "fresh">>}
             /\ pc' = "shake"
             /\ UNCHANGED <<sok, recievedData, sent, got, left, unread, open,
                            result, timer, dead>>
          \/ /\ count' < MaxHandshakes
             /\ ToSend("fresh")
             /\ UNCHANGED <<open, result, timer, dead>>

Connected ==
    /\ pc = "connect"
    /\ IF request.secure THEN Handshake
       ELSE ToSend("fresh") /\ UNCHANGED <<count, open, result, timer, dead>>
    /\ UNCHANGED <<request, response, retryOnce, pool, asked>>

\* SO_ERROR
ConnectFails ==
    /\ pc = "connect"
    /\ Fails
    /\ open' = open \ {"fresh"}
    /\ UNCHANGED <<request, response, sok, conn, pool, asked>>

ShakeAgain ==
    /\ pc = "shake"
    /\ Handshake
    /\ UNCHANGED <<request, response, retryOnce, pool, asked>>

----------------------------------------------------------------------------
(* An IOError, ValueError or KeyError while the request is sent or the        *)
(* response is read: the registration is removed, the socket closed.          *)

\* Fault: every failure on a pooled socket is retried.
RetriesAfterData == retryOnce

\* A pooled socket that gave no data is replaced by a fresh one.
Retries == retryOnce /\ ~recievedData

\* shutAndCloseOnce: a second call does nothing.
ShutAndClose == open' = open \ {sok}

\* Fault: the socket is not closed before the retry.
AttemptFailsOpen ==
    IF Retries THEN CreateSocket(open)
    ELSE Fails /\ ShutAndClose /\ UNCHANGED <<sok, conn>>

AttemptFails ==
    IF Retries THEN CreateSocket(open \ {sok})
    ELSE Fails /\ ShutAndClose /\ UNCHANGED <<sok, conn>>

\* sok.send, once or more; each is followed by a yield.
Send ==
    /\ pc = "send" /\ ~sent
    /\ asked' = asked \cup {sok}
    /\ \/ sent' \in BOOLEAN /\ UNCHANGED <<pc, regs, sok, retryOnce, recievedData,
                         count, got, left, unread, open, result, timer, dead>>
       \/ AttemptFails
    /\ UNCHANGED <<request, response, pool>>

\* The event after the last send: removeWriter, addReader.
SendDone ==
    /\ pc = "send" /\ sent
    /\ pc' = "head" /\ regs' = {<<"reader", sok>>}
    /\ UNCHANGED <<request, response, sok, conn, open, pool, result, timer, dead,
                   asked>>

----------------------------------------------------------------------------
(* Reading.  bodyMaxSize and the framing decide where the body ends.          *)

\* Fault: a limited body does not close the connection.
DoCloseIgnoresMaxSize ==
    \/ request.close \/ response.old \/ response.framing = "close"

\* _determineBodyReadStrategy.  The header names of a response are bytes, and
\* the 'Connection' looked for is not: response.close has no influence.
DoClose ==
    \/ request.close \/ response.old \/ response.framing = "close"
    \/ request.maxSize # None

\* What the read strategy makes of body tokens: more to read, complete or bad.
Enough(n) == request.maxSize # None /\ n >= request.maxSize

\* _deChunk gives a chunk at a time up to the last, behind which nothing may come.
LastChunk(rest) == SelectInSeq(rest, LAMBDA t : t = "lastchunk")

DeChunk(rest, before) ==
    LET end == LastChunk(rest)
        chunks == before + IF end = 0 THEN Len(rest) ELSE end - 1
    IN
    IF Enough(chunks) THEN "complete"
    ELSE IF end = 0 THEN "more"
    ELSE IF end < Len(rest) THEN "bad" ELSE "complete"

Body(rest, before) ==
    LET total == before + Len(rest) IN
    CASE response.framing = "none" -> IF rest = <<>> THEN "complete" ELSE "bad"
      [] response.framing = "length" ->
            IF total > response.size THEN "bad"
            ELSE IF total = response.size \/ (rest # <<>> /\ Enough(total))
                 THEN "complete" ELSE "more"
      [] response.framing = "chunked" -> DeChunk(rest, before)
      [] response.framing = "close" -> IF Enough(total) THEN "complete" ELSE "more"

\* The response is read: removeReader; close the socket or put it in the pool.
\* shutdown may raise (ENOTCONN): the socket is closed, the response is lost.
Complete ==
    /\ pc' = "done" /\ regs' = {}
    /\ IF DoClose
       THEN /\ ShutAndClose /\ UNCHANGED pool
            /\ Settle("response") \/ Settle("error")
       ELSE /\ pool' = pool \cup {sok} /\ UNCHANGED open
            /\ Settle("response")
    /\ UNCHANGED <<sok, retryOnce, count, sent>>

\* After the tokens in rest; the generator reads on when there must be more.
ReadBody(rest) ==
    LET verdict == Body(rest, left) IN
    /\ recievedData' = TRUE
    /\ \/ /\ verdict = "complete"
          /\ left' = left + Len(rest) /\ got' = <<>>
          /\ Complete
       \/ /\ verdict = "bad"
          /\ Fails /\ ShutAndClose
          /\ UNCHANGED <<sok, retryOnce, count, sent, got, left, pool>>
       \/ /\ verdict = "more"
          /\ pc' = "body" /\ left' = left + Len(rest) /\ got' = <<>>
          /\ UNCHANGED <<regs, sok, retryOnce, count, sent, open, pool, result,
                         timer, dead>>

\* Where a header ends; 0 when there is none yet.
HeaderEnd(all) == SelectInSeq(all, LAMBDA t : t \in {"continue", "final"})

\* One recv of k tokens while the header is read.  A matched 100 Continue is
\* eaten; what follows it is matched after the next recv only.
RecvHead(k) ==
    /\ pc = "head"
    /\ LET all == got \o SubSeq(unread, 1, k)
           end == HeaderEnd(all)
           rest == SubSeq(all, end + 1, Len(all))
       IN  IF end # 0 /\ all[end] = "final" THEN ReadBody(rest)
           ELSE /\ recievedData' = TRUE
                /\ got' = rest
                /\ UNCHANGED <<pc, regs, sok, retryOnce, count, sent, left, open,
                               pool, result, timer, dead>>
    /\ unread' = SubSeq(unread, k + 1, Len(unread))
    /\ UNCHANGED <<request, response, asked>>

RecvBody(k) ==
    /\ pc = "body"
    /\ ReadBody(SubSeq(unread, 1, k))
    /\ unread' = SubSeq(unread, k + 1, Len(unread))
    /\ UNCHANGED <<request, response, asked>>

\* The server has closed: the end of a close-delimited body, or premature.
RecvClosed ==
    /\ pc \in {"head", "body"}
    /\ IF pc = "body" /\ response.framing = "close"
       THEN Complete /\ UNCHANGED <<recievedData, got, left, unread>>
       ELSE AttemptFails /\ UNCHANGED pool
    /\ UNCHANGED <<request, response, asked>>

\* recv raises
RecvFails ==
    /\ pc \in {"head", "body"}
    /\ AttemptFails
    /\ UNCHANGED <<request, response, pool, asked>>

----------------------------------------------------------------------------
\* Suspend._timedOut: the exception is thrown into the generator, then to the
\* client.  In _createSocket nothing removes the registration or closes.
TimedOut ==
    /\ timer
    /\ pc' = "done"
    /\ regs' = IF pc \in {"connect", "shake"} THEN regs ELSE {}
    /\ open' = IF InUse THEN open \ {sok} ELSE open
    /\ Settle("timeout")
    /\ UNCHANGED <<request, response, sok, conn, pool, asked>>

\* A callback of the generator after its last yield: the reactor drops the
\* registration with the StopIteration, and the socket goes with it.
StrayCallback ==
    /\ pc = "done" /\ regs # {}
    /\ pc' = "ended" /\ regs' = {} /\ ShutAndClose
    /\ UNCHANGED <<request, response, sok, conn, pool, result, timer, dead, asked>>

\* What the other end does not need to help with, and what it does.
Progress ==
    \/ Begin \/ StartFresh \/ StartPooled \/ Connected \/ ConnectFails
    \/ ShakeAgain \/ Send \/ SendDone
    \/ \E k \in 1..Len(unread) : RecvHead(k) \/ RecvBody(k)

Next ==
    \/ Progress \/ RecvClosed \/ RecvFails \/ TimedOut \/ StrayCallback

\* The server answers, and closes after a body that only that delimits.
Spec ==
    /\ Init /\ [][Next]_vars
    /\ WF_vars(Progress) /\ WF_vars(TimedOut)
    /\ WF_vars(RecvClosed /\ unread = <<>> /\ response.framing = "close")

----------------------------------------------------------------------------
\* The generator is driven by one registration only, of the socket it uses,
\* from its start until it has settled its Suspend: it is never called for two
\* things at once, and never forgotten.  It settles the Suspend once: response,
\* error and timeout exclude each other, for a second one would end the loop.
OneDriver ==
    /\ pc \notin {"idle", "done", "ended"} => Cardinality(regs) = 1
    /\ InUse => \A reg \in regs : reg[2] = sok /\ sok \in open
    /\ result = "none" /\ pc # "idle" => regs # {}
    /\ ~dead

\* Types, and one driver.
IInv == TypeOK /\ OneDriver

\* A settled request leaves no socket open but in the pool, and no registration,
\* except for what is being connected when the timeout comes: that stays until
\* its next event.
NothingLeftBehind ==
    result # "none" =>
        /\ open = pool \cup {reg[2] : reg \in regs}
        /\ regs # {} => result = "timeout" /\ regs \subseteq
                           {"reader", "writer"} \X {"fresh"}

\* A socket goes back to the pool at the end of a response and nowhere else:
\* what the next request reads from it begins with its own answer, unless the
\* server sends more than it announced.
PooledAtBoundary ==
    result = "response" /\ sok \in pool =>
        response.framing # "close" /\ unread \in {<<>>, <<"excess">>}

\* A response without a limit has its whole body and no byte more, however the
\* server's data is cut in pieces; a close-delimited body tells no length.
WholeBody ==
    result = "response" /\ request.maxSize = None /\ response.framing # "close" =>
        left = (IF response.framing = "chunked" THEN 1 ELSE 0)
               + (IF response.framing = "none" THEN 0 ELSE response.size)

\* What is read ends where the response ends: for the client and for the pool.
ReadToItsEnd == PooledAtBoundary /\ WholeBody

\* A request is sent a second time only after a pooled socket that gave no
\* byte of an answer, and never a third time.
RetriedUnanswered ==
    [][pc' = "connect" /\ pc # "connect" =>
          \/ pc = "start"
          \/ sok = "pooled" /\ unread = Script(response)]_vars

\* A request ends when the server answers it, however long it takes to shake
\* hands; without a timeout a 100 Continue can make it wait for ever.
RequestEnds ==
    pc = "start" ~> result # "none" \/ (response.continue /\ ~request.timeout)
=============================================================================
