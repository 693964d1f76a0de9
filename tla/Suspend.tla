------------------------------ MODULE Suspend ------------------------------
(* Suspend objects of weightless/io/_suspend.py between the generator that    *)
(* yields them, the reactor that parks its callback, and whoever settles them *)
(* (resume, throw) or the timeout that does.                                  *)
(*                                                                            *)
(* The client is a generator run by a reactor callback, as in asProcess and   *)
(* HttpHandler._writeResponse: it hands this.__next__ as whenDone to the      *)
(* Suspend, waits at a yield, resumes its callback and takes the result.      *)
EXTENDS Integers, FiniteSets

CONSTANTS
    Suspends,     \* the Suspend objects the client yields, once each
    WithTimeout,  \* those with a timeout and an onTimeout
    NoSuspend

ASSUME SuspendAssumption ==
    WithTimeout \subseteq Suspends /\ NoSuspend \notin Suspends

VARIABLES
    \* fields of the Suspend objects
    settled,      \* _settled
    timer,        \* _timer is not NoSuspend
    whenDone,     \* _whenDone is set
    handle,       \* _handle is set
    result,       \* what getResult would give; "raised" is the exception of doNext
    \* the reactor
    pending,      \* timers in the reactor's list
    context,      \* the client's callback: registered, suspended or gone
    dead,         \* an exception has left the loop
    \* the client and the others
    client,       \* ready, waiting at its yield, or finished
    current,      \* the Suspend it yielded last
    given,        \* Suspends a doNext has handed to somebody who may settle it
    taken         \* history: what getResult gave the client when it went on

fields == <<settled, timer, whenDone, handle, result>>
suspendVars == <<settled, timer, whenDone, handle, result, pending, context,
                 dead, client, current, given, taken>>

Results == {"none", "response", "raised", "exception", "timeout"}

SuspendTypeOK ==
    /\ settled \subseteq Suspends /\ timer \subseteq WithTimeout
    /\ whenDone \subseteq Suspends /\ handle \subseteq Suspends
    /\ result \in [Suspends -> Results]
    /\ pending \subseteq WithTimeout
    /\ context \in {"registered", "suspended", "gone"}
    /\ dead \in BOOLEAN
    /\ client \in {"ready", "waiting", "finished"}
    /\ current \in Suspends \cup {NoSuspend}
    /\ given \subseteq Suspends
    /\ taken \in [Suspends -> Results]

SuspendInit ==
    /\ settled = {} /\ timer = {} /\ whenDone = {} /\ handle = {}
    /\ result = [s \in Suspends |-> "none"]
    /\ pending = {} /\ context = "registered" /\ dead = FALSE
    /\ client = "ready" /\ current = NoSuspend /\ given = {}
    /\ taken = result

----------------------------------------------------------------------------
(* __call__(reactor, whenDone), by the client in its own callback.            *)

Yields(s) ==
    /\ ~dead /\ client = "ready" /\ context = "registered"
    /\ s # current /\ s \notin given /\ result[s] = "none"
    /\ current' = s

\* Fault: the timer is not set.
CallSuspendsUntimed(s) ==
    /\ Yields(s)
    /\ given' = given \cup {s} /\ whenDone' = whenDone \cup {s}
    /\ handle' = handle \cup {s}
    /\ context' = "suspended" /\ client' = "waiting"
    /\ UNCHANGED <<settled, timer, pending, result, dead, taken>>

\* doNext returns; the timer is set and the reactor suspends the callback.
CallSuspends(s) ==
    /\ Yields(s)
    /\ given' = given \cup {s}
    /\ whenDone' = whenDone \cup {s}
    /\ timer' = timer \cup ({s} \cap WithTimeout)
    /\ pending' = pending \cup ({s} \cap WithTimeout)
    /\ handle' = handle \cup {s}
    /\ context' = "suspended"
    /\ client' = "waiting"
    /\ UNCHANGED <<settled, result, dead, taken>>

\* As above, but reactor.suspend() raises RuntimeError: the client's callback
\* was removed in the same callback, or is a last callback.  The exception
\* finishes the client.
CallNotSuspended(s) ==
    /\ Yields(s)
    /\ given' = given \cup {s}
    /\ whenDone' = whenDone \cup {s}
    /\ timer' = timer \cup ({s} \cap WithTimeout)
    /\ pending' = pending \cup ({s} \cap WithTimeout)
    /\ context' = "gone"
    /\ client' = "finished"
    /\ UNCHANGED <<settled, handle, result, dead, taken>>

\* Fault: _whenDone is set before doNext is called.
CallRaisesWhenDoneSet(s) ==
    /\ Yields(s)
    /\ given' \in {given, given \cup {s}}
    /\ whenDone' = whenDone \cup {s}
    /\ result' = [result EXCEPT ![s] = "raised"]
    /\ client' = "waiting"
    /\ UNCHANGED <<settled, timer, handle, pending, context, dead, taken>>

\* doNext raises, before or after it handed the Suspend to somebody: the client
\* is not suspended, its next callback gets the exception.
CallRaises(s) ==
    /\ Yields(s)
    /\ given' \in {given, given \cup {s}}
    /\ result' = [result EXCEPT ![s] = "raised"]
    /\ client' = "waiting"
    /\ UNCHANGED <<settled, timer, whenDone, handle, pending, context, dead, taken>>

\* doNext settles the Suspend itself: there is no _whenDone yet, and the
\* AttributeError is taken for an exception of doNext.
CallSettlesItself(s) ==
    /\ Yields(s)
    /\ settled' = settled \cup {s}
    /\ given' = given \cup {s}
    /\ result' = [result EXCEPT ![s] = "raised"]
    /\ client' = "waiting"
    /\ UNCHANGED <<timer, whenDone, handle, pending, context, dead, taken>>

\* The callback of a client that was not suspended: the next turn of the loop.
\* The client takes the exception of doNext, or that of a throw since.
NextCallback ==
    /\ ~dead /\ client = "waiting" /\ context = "registered"
    /\ client' = "ready"
    /\ taken' = [taken EXCEPT ![current] = result[current]]
    /\ UNCHANGED <<fields, pending, context, dead, current, given>>

\* The client ends and is cleaned up, by itself or by who closes it.
FinishClient ==
    /\ ~dead /\ client # "finished"
    /\ client' = "finished" /\ context' = "gone"
    /\ UNCHANGED <<fields, pending, dead, current, given, taken>>

----------------------------------------------------------------------------
(* resume, throw and _timedOut.                                               *)

\* self._whenDone(): the client goes on, resumes its callback and takes the
\* result of the Suspend it waits for.  Without _whenDone, or with a client that
\* is finished, an exception goes to who settles.
CallWhenDone(s) ==
    IF s \in whenDone /\ client = "waiting" /\ context = "suspended"
    THEN /\ client' = "ready" /\ context' = "registered"
         /\ taken' = [taken EXCEPT ![current] = result'[current]]
    ELSE UNCHANGED <<client, context, taken>>

\* Fault: the timer is not removed.
SettleKeepsTimer(s, outcome) ==
    /\ settled' = settled \cup {s}
    /\ result' = [result EXCEPT ![s] = outcome]
    /\ CallWhenDone(s)
    /\ UNCHANGED pending

\* Fault: _whenDone is not called.
SettleSilently(s, outcome) ==
    /\ pending' = pending \ {s}
    /\ settled' = settled \cup {s}
    /\ result' = [result EXCEPT ![s] = outcome]
    /\ UNCHANGED <<client, context, taken>>

\* resume(response) and throw(...), after the test of _settled.  getResult looks
\* at the exception first, so that a response does not replace that of doNext.
Settle(s, outcome) ==
    /\ pending' = pending \ {s}
    /\ settled' = settled \cup {s}
    /\ result' = [result EXCEPT ![s] =
                     IF outcome = "response" /\ @ = "raised" THEN @
                     ELSE outcome]
    /\ CallWhenDone(s)

\* Fault: _settled is not tested.
SettledAgain(s, outcome) ==
    /\ ~dead /\ s \in given
    /\ Settle(s, outcome)
    /\ UNCHANGED <<timer, whenDone, handle, dead, current, given>>

\* resume or throw from another callback; 'already settled' changes nothing.
SettledByOther(s, outcome) ==
    /\ ~dead /\ s \in given
    /\ s \notin settled
    /\ Settle(s, outcome)
    /\ UNCHANGED <<timer, whenDone, handle, dead, current, given>>

\* onTimeout returns, or raises an exception that is printed; then throw.
TimedOut(s) ==
    /\ ~dead /\ s \in pending
    /\ timer' = timer \ {s}
    /\ Settle(s, "timeout")
    /\ UNCHANGED <<whenDone, handle, dead, current, given>>

\* onTimeout settles the Suspend itself.  The AssertionError of the throw that
\* follows leaves the timer callback and the loop.
TimedOutSettled(s) ==
    /\ ~dead /\ s \in pending
    /\ timer' = timer \ {s}
    /\ Settle(s, "response")
    /\ dead' = TRUE
    /\ UNCHANGED <<whenDone, handle, current, given>>

\* onTimeout raises AssertionError, KeyboardInterrupt or SystemExit.
TimedOutFatal(s) ==
    /\ ~dead /\ s \in pending
    /\ timer' = timer \ {s}
    /\ pending' = pending \ {s}
    /\ dead' = TRUE
    /\ UNCHANGED <<settled, whenDone, handle, result, context, client, current,
                   given, taken>>

SuspendNext ==
    \/ \E s \in Suspends :
          \/ CallSuspends(s) \/ CallNotSuspended(s) \/ CallRaises(s)
          \/ CallSettlesItself(s)
          \/ \E outcome \in {"response", "exception"} : SettledByOther(s, outcome)
          \/ TimedOut(s) \/ TimedOutSettled(s) \/ TimedOutFatal(s)
    \/ NextCallback \/ FinishClient

\* The reactor calls due timers and the callbacks of those not suspended.
SuspendSpec ==
    /\ SuspendInit /\ [][SuspendNext]_suspendVars
    /\ WF_suspendVars(NextCallback)
    /\ \A s \in Suspends :
          WF_suspendVars(TimedOut(s) \/ TimedOutSettled(s) \/ TimedOutFatal(s))

----------------------------------------------------------------------------
\* The token resume and throw give to removeTimer is in the reactor's list, so
\* that they cannot raise ValueError; a settled Suspend has no timer left.
TimerTokens ==
    /\ \A s \in Suspends : s \notin settled /\ s \in timer => s \in pending
    /\ settled \cap pending = {}

\* Types, and the tokens.
SuspendOK == SuspendTypeOK /\ TimerTokens

\* A parked callback always has a Suspend that can still wake it up: not
\* settled, with a whenDone, and known to somebody.
NoOrphan ==
    context = "suspended" =>
        /\ client = "waiting"
        /\ current \in (whenDone \cap handle \cap given) \ settled

\* A late answer, an early timeout or a second settling never wakes the client
\* out of a later Suspend: only the one it waits for does, and only once.
WokenByCurrent ==
    [][\A s \in Suspends :
          settled' # settled /\ s \in settled' \ settled
             /\ client = "waiting" /\ client' = "ready" => s = current]_suspendVars

\* A client that goes on from a Suspend has a result to take, and what it took
\* is what getResult keeps giving, whatever comes later.  One thing may change:
\* the exception of doNext becomes that of a throw by somebody doNext had already
\* given the Suspend to (_suspend.py:51, 77).  An error stays an error.
TakenIsKept ==
    /\ client = "ready" /\ current # NoSuspend => taken[current] # "none"
    /\ \A s \in Suspends : taken[s] # "none" =>
          \/ result[s] = taken[s]
          \/ taken[s] = "raised" /\ result[s] = "exception"

\* Whoever waits for a Suspend with a timeout does not wait for ever.
EndsInTime ==
    \A s \in WithTimeout :
        client = "waiting" /\ current = s
            ~> ~(client = "waiting" /\ current = s) \/ dead
=============================================================================
