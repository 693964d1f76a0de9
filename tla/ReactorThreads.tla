--------------------------- MODULE ReactorThreads --------------------------
(* Other threads hand work to the reactor of weightless/io/_reactor.py: the   *)
(* part of addProcess, addTimer, _wake_up and step() that makes a sleeping    *)
(* poll return.  Steps are the operations CPython does without giving up the  *)
(* interpreter lock.  list.sort with a key function is not one of them: while *)
(* it runs the list looks empty to everybody else, and whatever is put in it  *)
(* meanwhile is thrown away when the sort ends.                               *)
EXTENDS Integers, Sequences, FiniteSets, SequencesExt

CONSTANTS
    ProcessThreads, \* threads that call addProcess, once each
    TimerThreads,   \* threads that call addTimer, once each
    OwnTimers,      \* timers the reactor's own program added before the loop
    Due,            \* time of each timer
    Infinity        \* the deadline of a poll without a timeout

Threads == ProcessThreads \cup TimerThreads
TimerNames == TimerThreads \cup OwnTimers   \* a timer is named by its thread
Times == {Due[t] : t \in TimerNames}

ASSUME ThreadsAssumption ==
    /\ Due \in [TimerNames -> Nat] /\ Infinity \in Nat
    /\ \A t \in TimerNames : Due[t] < Infinity
    /\ ProcessThreads \cap TimerThreads = {} /\ OwnTimers \cap Threads = {}
    /\ IsFiniteSet(OwnTimers)

VARIABLES
    pc,        \* where each thread is in addProcess or addTimer
    saved,     \* per thread: the items its sort has taken out of the list
    running,   \* _running: processes, named by the thread that added them
    timers,    \* _timers, as other threads see it
    listening, \* _listening.locked()
    pipe,      \* bytes in the control pipe
    now,
    loop,      \* where the reactor's thread is
    deadline,  \* when its poll times out
    snapshot,  \* timers[:], the part still to visit
    currentTime,
    called     \* history: processes and timers that have been called

callers == <<pc, saved>>
looper == <<listening, loop, deadline, snapshot, currentTime, called>>
threadsVars == <<pc, saved, running, timers, listening, pipe, now, loop,
                 deadline, snapshot, currentTime, called>>

\* list.sort(key=time) is stable: an item comes after all that are due earlier,
\* and after those due at the same time that were in front of it.
Place(s, i) ==
    Cardinality({j \in DOMAIN s :
        Due[s[j]] < Due[s[i]] \/ (Due[s[j]] = Due[s[i]] /\ j <= i)})
SortedByDue(s) ==
    [n \in DOMAIN s |-> s[CHOOSE i \in DOMAIN s : Place(s, i) = n]]

ThreadsInit ==
    /\ pc = [t \in Threads |-> "start"]
    /\ saved = [t \in TimerThreads |-> <<>>]
    /\ running = {}
    /\ timers = SortedByDue(SetToSeq(OwnTimers))
    /\ listening = FALSE /\ pipe = 0 /\ now = 0
    /\ loop = "lock" /\ deadline = 0 /\ snapshot = <<>> /\ currentTime = 0
    /\ called = {}

----------------------------------------------------------------------------
(* The other threads.                                                         *)

Goto(t, label) == pc' = [pc EXCEPT ![t] = label]

\* Fault: addProcess does not call _wake_up.
InsertProcessOnly(t) ==
    /\ t \in ProcessThreads /\ pc[t] = "start"
    /\ running' = running \cup {t}
    /\ Goto(t, "done")
    /\ UNCHANGED <<saved, timers, pipe, now, looper>>

\* self._running[process] = ...
InsertProcess(t) ==
    /\ t \in ProcessThreads /\ pc[t] = "start"
    /\ running' = running \cup {t}
    /\ Goto(t, "check")
    /\ UNCHANGED <<saved, timers, pipe, now, looper>>

\* self._timers.append(timer)
AppendTimer(t) ==
    /\ t \in TimerThreads /\ pc[t] = "start"
    /\ timers' = Append(timers, t)
    /\ Goto(t, "sort")
    /\ UNCHANGED <<saved, running, pipe, now, looper>>

SortBegins(t) ==
    /\ pc[t] = "sort"
    /\ saved' = [saved EXCEPT ![t] = timers]
    /\ timers' = <<>>
    /\ Goto(t, "sorting")
    /\ UNCHANGED <<running, pipe, now, looper>>

\* The sorted items replace the list; ValueError if it had been modified.
SortEnds(t) ==
    /\ pc[t] = "sorting"
    /\ timers' = SortedByDue(saved[t])
    /\ saved' = [saved EXCEPT ![t] = <<>>]
    /\ Goto(t, IF timers = <<>> THEN "check" ELSE "ValueError")
    /\ UNCHANGED <<running, pipe, now, looper>>

\* if self._listening.locked()
CheckListening(t) ==
    /\ pc[t] = "check"
    /\ Goto(t, IF listening THEN "write" ELSE "done")
    /\ UNCHANGED <<saved, running, timers, pipe, now, looper>>

WriteByte(t) ==
    /\ pc[t] = "write"
    /\ pipe' = pipe + 1
    /\ Goto(t, "done")
    /\ UNCHANGED <<saved, running, timers, now, looper>>

----------------------------------------------------------------------------
(* The reactor's thread.                                                      *)

\* Fault: step() polls without taking the lock.
AcquireNothing ==
    /\ loop = "lock"
    /\ loop' = "timeout"
    /\ UNCHANGED <<callers, running, timers, listening, pipe, now, deadline,
                   snapshot, currentTime, called>>

AcquireLock ==
    /\ loop = "lock"
    /\ listening' = TRUE
    /\ loop' = "timeout"
    /\ UNCHANGED <<callers, running, timers, pipe, now, deadline, snapshot,
                   currentTime, called>>

PollUntil(time) == loop' = "poll" /\ deadline' = time

\* if self._running: 0, elif self._timers: the first one, else -1
ComputeTimeout ==
    /\ loop = "timeout"
    /\ \/ running # {} /\ PollUntil(now)
       \/ running = {} /\ timers # <<>> /\ loop' = "first" /\ UNCHANGED deadline
       \/ running = {} /\ timers = <<>> /\ PollUntil(Infinity)
    /\ UNCHANGED <<callers, running, timers, listening, pipe, now, snapshot,
                   currentTime, called>>

\* self._timers[0].time
FirstTimer ==
    /\ loop = "first" /\ timers # <<>>
    /\ PollUntil(Due[Head(timers)])
    /\ UNCHANGED <<callers, running, timers, listening, pipe, now, snapshot,
                   currentTime, called>>

\* IndexError: the list has begun to be sorted since it was tested.
FirstTimerGone ==
    /\ loop = "first" /\ timers = <<>>
    /\ loop' = "crashed" /\ listening' = FALSE
    /\ UNCHANGED <<callers, running, timers, pipe, now, deadline, snapshot,
                   currentTime, called>>

PollReturns ==
    /\ loop = "poll"
    /\ pipe > 0 \/ now >= deadline
    /\ listening' = FALSE
    /\ deadline' = 0
    /\ loop' = IF pipe > 0 THEN "clear" ELSE "timers"
    /\ currentTime' = IF pipe > 0 THEN currentTime ELSE now
    /\ snapshot' = IF pipe > 0 THEN snapshot ELSE timers
    /\ UNCHANGED <<callers, running, timers, pipe, now, called>>

\* _clear_epoll_ctrl reads one byte; then _timerCallbacks begins.
ClearByte ==
    /\ loop = "clear"
    /\ pipe' = pipe - 1
    /\ currentTime' = now
    /\ snapshot' = timers
    /\ loop' = "timers"
    /\ UNCHANGED <<callers, running, timers, listening, now, deadline,
                   called>>

TimerDue == snapshot # <<>> /\ Due[Head(snapshot)] <= currentTime

\* if timer not in timers: continue
SkipTimer ==
    /\ loop = "timers" /\ TimerDue
    /\ ~Contains(timers, Head(snapshot))
    /\ snapshot' = Tail(snapshot)
    /\ UNCHANGED <<callers, running, timers, listening, pipe, now, loop,
                   deadline, currentTime, called>>

FoundTimer ==
    /\ loop = "timers" /\ TimerDue
    /\ Contains(timers, Head(snapshot))
    /\ loop' = "remove"
    /\ UNCHANGED <<callers, running, timers, listening, pipe, now, deadline,
                   snapshot, currentTime, called>>

\* removeTimer, outside the try of _timerCallbacks, and the callback
RemoveAndCall ==
    /\ loop = "remove"
    /\ \E i \in DOMAIN timers :
          /\ timers[i] = Head(snapshot)
          /\ \A j \in 1..(i - 1) : timers[j] # Head(snapshot)
          /\ timers' = RemoveAt(timers, i)
    /\ called' = called \cup {Head(snapshot)}
    /\ snapshot' = Tail(snapshot)
    /\ loop' = "timers"
    /\ UNCHANGED <<callers, running, listening, pipe, now, deadline,
                   currentTime>>

\* list.remove(x): x not in list.  The exception leaves step() and the loop.
RemoveFails ==
    /\ loop = "remove"
    /\ ~Contains(timers, Head(snapshot))
    /\ loop' = "crashed"
    /\ UNCHANGED <<callers, running, timers, listening, pipe, now, deadline,
                   snapshot, currentTime, called>>

EndTimers ==
    /\ loop = "timers" /\ ~TimerDue
    /\ snapshot' = <<>>
    /\ loop' = "processes"
    /\ UNCHANGED <<callers, running, timers, listening, pipe, now, deadline,
                   currentTime, called>>

\* Each process is called, and removes itself.
CallProcesses ==
    /\ loop = "processes"
    /\ called' = called \cup running
    /\ running' = {}
    /\ loop' = "lock"
    /\ UNCHANGED <<callers, timers, listening, pipe, now, deadline,
                   snapshot, currentTime>>

Tick ==
    /\ now < Infinity - 1
    /\ now' = now + 1
    /\ UNCHANGED <<callers, running, timers, pipe, looper>>

----------------------------------------------------------------------------
ThreadStep(t) ==
    \/ InsertProcess(t) \/ AppendTimer(t) \/ SortBegins(t) \/ SortEnds(t)
    \/ CheckListening(t) \/ WriteByte(t)

LoopStep ==
    \/ AcquireLock \/ ComputeTimeout \/ FirstTimer \/ FirstTimerGone
    \/ PollReturns \/ ClearByte
    \/ SkipTimer \/ FoundTimer \/ RemoveAndCall \/ RemoveFails \/ EndTimers
    \/ CallProcesses

ThreadsNext == (\E t \in Threads : ThreadStep(t)) \/ LoopStep \/ Tick

\* A thread inside a call is scheduled again; whether it calls at all is free.
Fairness ==
    /\ \A t \in Threads : WF_threadsVars(pc[t] # "start" /\ ThreadStep(t))
    /\ WF_threadsVars(LoopStep) /\ WF_threadsVars(Tick)

ThreadsSpec == ThreadsInit /\ [][ThreadsNext]_threadsVars /\ Fairness

----------------------------------------------------------------------------
\* A thread that has put work in a table and has yet to wake the reactor up.
WillWake(t) == pc[t] \in {"sort", "sorting", "check", "write"}

\* The reactor never sleeps past the work it has: when its poll outlasts a
\* process or an earlier timer, a byte is in the pipe or is still to be written
\* (insert first, then locked() in _wake_up; lock first, then timeout in step).
NoLostWakeUp ==
    loop = "poll" =>
        \/ deadline <= now \/ pipe > 0 \/ \E t \in Threads : WillWake(t)
        \/ /\ running = {}
           /\ \A t \in ToSet(timers) : deadline <= Due[t]

\* A process added from any thread is called.
ProcessGetsCalled ==
    \A t \in ProcessThreads :
        pc[t] # "start" ~> t \in called \/ loop = "crashed"

\* A timer added from another thread fires.
TimerGetsCalled ==
    \A t \in TimerThreads :
        pc[t] = "done" ~> t \in called \/ loop = "crashed"

\* Whatever is added from any thread, at any point of a step, is called; only a
\* sort that the loop runs into prevents it (see AddTimerIsSafe).
AdditionsGetCalled == ProcessGetsCalled /\ TimerGetsCalled

\* addTimer may be called from another thread: the loop goes on, and a timer
\* whose addTimer returned stays in the list until it is called.
AddTimerIsSafe ==
    /\ loop # "crashed"
    /\ \A t \in TimerThreads :
          pc[t] = "done" =>
              \/ t \in called \/ Contains(timers, t)
              \/ \E u \in TimerThreads : Contains(saved[u], t)
=============================================================================
