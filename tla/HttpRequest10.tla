--------------------------- MODULE HttpRequest10 --------------------------
(* The HTTP/1.0 client, weightless/http/_httprequest.py: one request after    *)
(* the other, each a generator (_do) that waits for its socket in the reactor *)
(* and settles the Suspend of its client, unless the timeout does so first.   *)
(* The callbacks are those of Descriptors' registrations.                     *)
EXTENDS Descriptors, Sequences, SequencesExt

CONSTANTS Me,             \* the client
          Options,        \* requests: [proxy, ssl, timeout : BOOLEAN, maxSize,
                          \* answer: what the other side sends, by token]
          MaxHandshakes,  \* 254 in the code
          MaxRequests     \* bound

\* A proxy answers in two parts, "ok" or "bad" and "blank"; "data" is a unit of
\* the response, "end" the server's close and "reset" its reset.  An answer
\* without one of these ends in silence.
Tokens == {"ok", "bad", "blank", "data", "end", "reset"}

HttpRequest10Assumption ==
    /\ Me \in Client
    /\ \A o \in Options : /\ {o.proxy, o.ssl, o.timeout} \subseteq BOOLEAN
                          /\ o.maxSize \in Nat \cup {None}
                          /\ o.answer \in Seq(Tokens) /\ ClosedLast(o.answer)
    /\ MaxHandshakes \in Nat \ {0} /\ MaxRequests \in Nat

VARIABLES option,          \* of the request that runs
          pc,              \* the yield at which _do waits
          unread,          \* tokens not read: a recv takes one, and several
                           \* recvs in a row stand for a longer one
          status,          \* the proxy's status line, None when not read
          size,            \* units of the response read
          count,           \* of the handshakes
          sent,            \* the last byte of the request is sent
          result,          \* how the Suspend was settled
          timer,           \* its timer is pending
          requests, timeouts  \* history: begun, timed out

state == <<pc, unread, status, size, count, sent, result, timer>>
history == <<option, requests, timeouts>>
vars == <<state, history, num, fds>>

Waiting == {"connect", "proxy", "shake", "ready", "send", "read"}

Init ==
    /\ option = None
    /\ pc = "idle" /\ unread = <<>> /\ status = None /\ size = 0 /\ count = 0
    /\ sent = FALSE /\ result = "none" /\ timer = FALSE
    /\ requests = 0 /\ timeouts = 0
-----------------------------------------------------------------------------
\* suspend.resume or suspend.throw, and the generator's last yield.
Settles(outcome) == pc' = "over" /\ result' = outcome /\ timer' = FALSE

\* Fault: the registration is not removed.
EndsRegistered(outcome) ==
    LeavesClosed(Me) /\ Settles(outcome) /\ UNCHANGED <<count, sent, history>>

\* The registration goes in a finally, then the socket.
Ends(outcome) ==
    Leaves(Me) /\ Settles(outcome) /\ UNCHANGED <<count, sent, history>>

\* A registration and the yield that waits for it.
At(yield, kind) ==
    pc' = yield /\ Waits(Me, kind) /\ UNCHANGED <<result, timer, history>>

\* The client yields its Suspend, which runs _do to its first yield.  When
\* connect or addWriter raises, the socket is closed and nothing is suspended.
Begin ==
    /\ pc \in {"idle", "over"} /\ requests < MaxRequests
    /\ option' \in Options
    /\ requests' = requests + 1
    /\ unread' = option'.answer /\ status' = None /\ size' = 0 /\ count' = 0
    /\ sent' = FALSE
    /\ \/ /\ Opens(Me, "writer")
          /\ pc' = "connect" /\ result' = "none" /\ timer' = option'.timeout
       \/ Settles("error") /\ UNCHANGED <<num, fds>>
    /\ UNCHANGED timeouts

\* SO_ERROR
ConnectFails ==
    pc = "connect" /\ Ends("error") /\ UNCHANGED <<unread, status, size>>

\* addWriter and the yield before anything is sent: outside every try that
\* removes it.
Ready == At("ready", "writer") /\ UNCHANGED sent

\* Fault: no limit.
HandshakeUnlimited ==
    \/ Ready /\ UNCHANGED count
    \/ \E kind \in Kinds : At("shake", kind) /\ UNCHANGED <<count, sent>>
    \/ Ends("error")

\* _sslHandshake: one turn of its loop; a success at the last turn fails.  The
\* socket of a failed handshake is dropped, and closed by that.
Handshake ==
    \/ /\ count + 1 < MaxHandshakes /\ count' = count + 1
       /\ Ready
    \/ /\ count < MaxHandshakes /\ count' = count + 1
       /\ \E kind \in Kinds : At("shake", kind)
       /\ UNCHANGED sent
    \/ Ends("error")

Prepared == IF option.ssl THEN Handshake ELSE Ready /\ UNCHANGED count

Connected ==
    /\ pc = "connect"
    /\ \/ option.proxy /\ At("proxy", "reader") /\ UNCHANGED <<count, sent>>
       \/ option.proxy /\ Ends("error")  \* sendall raises
       \/ ~option.proxy /\ Prepared
    /\ UNCHANGED <<unread, status, size>>

Next1(token) == unread # <<>> /\ Head(unread) = token

ProxyReads ==
    /\ pc = "proxy"
    /\ \E token \in {"ok", "bad"} : Next1(token) /\ status' = token
    /\ unread' = Tail(unread)
    /\ At("proxy", "reader") /\ UNCHANGED <<size, count, sent>>

\* With the blank line the proxy's answer is complete, and with its close as
\* well: after a good status the code goes on.
ProxyAnswers ==
    /\ pc = "proxy"
    /\ \/ Next1("blank") /\ unread' = Tail(unread)
       \/ Next1("end") /\ UNCHANGED unread
    /\ IF status = "ok" THEN Prepared ELSE Ends("error")
    /\ UNCHANGED <<status, size>>

ShakeAgain ==
    pc = "shake" /\ Handshake /\ UNCHANGED <<unread, status, size>>

\* _sendHttpHeaders and _asyncSend: they wait once more after the last byte.
Send ==
    /\ pc \in {"ready", "send"} /\ ~sent
    /\ sent' \in BOOLEAN
    /\ At("send", "writer") /\ UNCHANGED <<unread, status, size, count>>

SendRaises ==
    /\ pc \in {"ready", "send"} /\ ~sent
    /\ Ends("error")
    /\ UNCHANGED <<unread, status, size>>

SendOver ==
    /\ pc = "send" /\ sent
    /\ At("read", "reader") /\ UNCHANGED <<unread, status, size, count, sent>>

\* recv: data, or SSL_ERROR_WANT_READ,
TooBig == option.maxSize # None /\ size' > option.maxSize

Recv ==
    /\ pc = "read" /\ Next1("data")
    /\ size' = size + 1 /\ unread' = Tail(unread)
    /\ ~TooBig /\ At("read", "reader") /\ UNCHANGED <<count, sent>>
    /\ UNCHANGED status

\* too much of it, or handlePartialResponse raises,
RecvRefused ==
    /\ pc = "read" /\ Next1("data")
    /\ size' = size + 1 /\ unread' = Tail(unread)
    /\ Ends("error")
    /\ UNCHANGED status

\* the end, or an error of the socket.  A shutdown of a socket the other side
\* closed is no error here.
Complete ==
    /\ pc = "read" /\ Next1("end")
    /\ Ends("response")
    /\ UNCHANGED <<unread, status, size>>

RecvRaises ==
    /\ pc \in {"proxy", "read"} /\ Next1("reset")
    /\ Ends("error")
    /\ UNCHANGED <<unread, status, size>>

\* onTimeout throws a TimeoutException at the yield: a finally removes the
\* registration,
TimesOut ==
    /\ timer
    /\ Settles("timeout") /\ timeouts' = timeouts + 1
    /\ UNCHANGED <<unread, status, size, count, sent, option, requests>>

Timeout == pc \in Waiting \ {"ready", "shake"} /\ TimesOut /\ Leaves(Me)

\* or not: the socket is closed, and its registration stays,
TimeoutReady == pc = "ready" /\ TimesOut /\ LeavesClosed(Me)

\* or `sok` is the object that wrap_socket emptied, and only the registration
\* still has the socket,
TimeoutShake == pc = "shake" /\ TimesOut /\ LeavesHeld(Me)

\* until an event resumes the generator, which ends: the reactor removes the
\* registration that raised.
LateEvent ==
    /\ \E n \in Numbers : fds[n] = Held /\ fds' = [fds EXCEPT ![n] = None]
    /\ UNCHANGED <<num, state, history>>

Event ==
    \/ ConnectFails \/ Connected \/ ProxyReads \/ ProxyAnswers \/ ShakeAgain
    \/ Send \/ SendRaises \/ SendOver
    \/ Recv \/ RecvRefused \/ Complete \/ RecvRaises

TimerFires == Timeout \/ TimeoutReady \/ TimeoutShake

Next == Begin \/ Event \/ TimerFires \/ LateEvent

\* The reactor delivers events and fires timers.  Nothing makes the other side
\* take bytes for ever in small parts.
Fairness == WF_vars(Event) /\ WF_vars(TimerFires) /\ SF_vars(Send /\ sent')
-----------------------------------------------------------------------------
TypeOK ==
    /\ DescriptorsTypeOK
    /\ option \in Options \cup {None} /\ unread \in Seq(Tokens)
    /\ pc \in Waiting \cup {"idle", "over"}
    /\ status \in {"ok", "bad", None} /\ size \in Nat
    /\ count \in 0..MaxHandshakes /\ {sent, timer} \subseteq BOOLEAN
    /\ result \in {"none", "response", "error", "timeout"}
    /\ requests \in 0..MaxRequests /\ timeouts \in 0..requests

\* A generator that waits is registered for what it waits for.
Watched ==
    pc \in Waiting => WaitsAs(Me,
        CASE pc \in {"connect", "ready", "send"} -> {"writer"}
          [] pc \in {"proxy", "read"} -> {"reader"}
          [] pc = "shake" -> Kinds)

\* A request that is over has no socket and no registration; what stays behind
\* in the table are at most as many registrations as timeouts.
CleanedUp ==
    /\ pc \notin Waiting => num[Me] = None /\ \A k \in Kinds, n \in Numbers : fds[n] # <<Me, k>>
    /\ Cardinality(LeftBehind) <= timeouts

\* A response is all that the server sent up to its close, and not too big;
\* behind a proxy that gave its status.
Whole ==
    result = "response" =>
        /\ unread = <<"end">>
        /\ size = Count(option.answer, {"data"})
        /\ option.maxSize # None => size <= option.maxSize
        /\ option.proxy => status = "ok"

\* A request ends when it has a timeout, or the other side goes on to its end.
RequestEnds ==
    (pc \in Waiting /\ (option.timeout \/ Last(option.answer) \in {"end", "reset"}))
        ~> pc \notin Waiting
=============================================================================
