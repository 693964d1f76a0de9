------------------------------ MODULE Reactor ------------------------------
(* The event loop of weightless/io/_reactor.py: the tables of the Reactor     *)
(* object, the kernel's view of its file descriptors, and step() as the       *)
(* sequence of phases in which it runs callbacks.                             *)
(*                                                                            *)
(* A callback is arbitrary program code: between the step that calls it and   *)
(* the one that ends it, any number of operations of the reactor's interface  *)
(* may happen, and files may be opened and closed.  An operation that raises  *)
(* without changing the reactor is no step of its own: the program may handle *)
(* the exception, or let it end the callback (RaiseHandled, RaiseFatal).      *)
EXTENDS Integers, Sequences, FiniteSets, SequencesExt

CONSTANTS
    Files,     \* file objects (sockets)
    Fds,       \* file descriptor numbers the kernel hands out
    Procs,     \* callables added as processes
    TimerIds,  \* identities of Timer objects
    Prios,     \* the priorities in use
    MAXPRIO,
    MaxDelay,  \* bound: the longest delay asked of addTimer, in ticks
    MaxLate,   \* bound: ticks a pending timer can be overdue
    MaxBad,    \* bound: length of _badFdsLastCallback
    None

NoFd == -1     \* fileno() of a closed socket object
READ == "READ_INTENT"
WRITE == "WRITE_INTENT"
Intents == {READ, WRITE}

FdContext == [fileOrFd : Files, intent : Intents, prio : Prios]
ProcessContext == [prio : Prios]

ASSUME ReactorAssumption ==
    /\ Fds \subseteq Nat
    /\ MAXPRIO \in Nat \ {0}
    /\ Prios \subseteq 0..(MAXPRIO - 1)
    /\ MaxDelay \in Nat /\ MaxLate \in Nat /\ MaxBad \in Nat
    /\ None \notin FdContext \cup ProcessContext \cup Intents
    /\ None \notin Fds \cup Procs
    /\ Fds \cap Procs = {}

VARIABLES
    \* the operating system
    fileno,        \* the descriptor of each file object, NoFd when closed
    epoll,         \* interest list of the epoll instance: fd -> intent
    \* the tables of the Reactor object
    fds,           \* _fds: fd -> context
    suspended,     \* _suspended: fd or process -> context
    running,       \* _running: process -> context
    timers,        \* _timers: sorted list; left = ticks until Timer.time
    bad,           \* _badFdsLastCallback
    curPrio,       \* _prio
    removed,       \* _removeFdsInCurrentStep
    loopOn,        \* _loop
    \* the step in progress
    phase,         \* where step() is
    events,        \* fdEvents, the result of the step's poll
    todo,          \* the part of fdEvents this phase has not visited yet
    dueTimers,     \* the part of timers[:] still to visit, up to the break
    snapshot,      \* the part of list(processes.items()) still to visit
    calling,       \* the kind of callback that is running
    currenthandle,
    currentcontext,
    \* history
    fresh          \* fds whose registration was made after the step's poll

osVars == <<fileno, epoll>>
fdVars == <<epoll, fds, removed, fresh>>
stepVars == <<phase, events, todo, dueTimers, snapshot>>
callVars == <<calling, currenthandle, currentcontext>>
vars == <<fileno, epoll, fds, suspended, running, timers, bad, curPrio,
          removed, loopOn, phase, events, todo, dueTimers, snapshot,
          calling, currenthandle, currentcontext, fresh>>

Handles == Fds \cup Procs
Timer == [id : TimerIds, left : (-MaxLate)..MaxDelay]
CallKinds == {"none", "last", "timer", "fd", "process"}
Phases == {"setup", "idle", "last", "timers", READ, WRITE, "processes",
           "failed", "stopped"}

TypeOK ==
    /\ fileno \in [Files -> Fds \cup {NoFd}]
    /\ epoll \in [Fds -> Intents \cup {None}]
    /\ fds \in [Fds -> FdContext \cup {None}]
    /\ suspended \in [Handles -> FdContext \cup ProcessContext \cup {None}]
    /\ running \in [Procs -> ProcessContext \cup {None}]
    /\ timers \in Seq(Timer)
    /\ bad \in Seq(FdContext)
    /\ curPrio \in -1..(MAXPRIO - 1)
    /\ removed \subseteq Fds
    /\ loopOn \in BOOLEAN
    /\ phase \in Phases
    /\ events \subseteq Fds /\ todo \subseteq events
    /\ dueTimers \in Seq(TimerIds)
    /\ snapshot \in [Procs -> ProcessContext \cup {None}]
    /\ calling \in CallKinds
    /\ currenthandle \in Handles \cup {None}
    /\ currentcontext \in FdContext \cup ProcessContext \cup {None}
    /\ fresh \subseteq Fds
    /\ \A n \in Fds : suspended[n] \in FdContext \cup {None}
    /\ \A p \in Procs : suspended[p] \in ProcessContext \cup {None}
    /\ calling = "last" => currentcontext \in FdContext
    /\ calling = "fd" => currenthandle \in Fds /\ currentcontext \in FdContext
    /\ calling = "process" => /\ currenthandle \in Procs
                             /\ currentcontext \in ProcessContext

Init ==
    /\ fileno = [f \in Files |-> NoFd]
    /\ epoll = [n \in Fds |-> None]
    /\ fds = [n \in Fds |-> None]
    /\ suspended = [h \in Handles |-> None]
    /\ running = [p \in Procs |-> None]
    /\ timers = <<>>
    /\ bad = <<>>
    /\ curPrio = -1
    /\ removed = {}
    /\ loopOn = TRUE
    /\ phase = "setup"
    /\ events = {} /\ todo = {}
    /\ dueTimers = <<>>
    /\ snapshot = [p \in Procs |-> None]
    /\ calling = "none" /\ currenthandle = None /\ currentcontext = None
    /\ fresh = {}

----------------------------------------------------------------------------
(* The program's files.  Descriptor numbers are reused: the kernel hands out  *)
(* the lowest free one, and closing a file drops it from the interest list of *)
(* the epoll instance without telling the reactor.                            *)

\* The program runs: before loop(), or in a callback.
InProgram == phase = "setup" \/ calling # "none"

InUse(n) == \E f \in Files : fileno[f] = n

\* A file object the reactor still refers to is not recycled as a new one.
HeldByReactor(f) ==
    \/ \E n \in Fds : \/ fds[n] # None /\ fds[n].fileOrFd = f
                      \/ suspended[n] # None /\ suspended[n].fileOrFd = f
    \/ \E i \in DOMAIN bad : bad[i].fileOrFd = f
    \/ calling \in {"fd", "last"} /\ currentcontext.fileOrFd = f

OpenFile(f) ==
    /\ InProgram
    /\ fileno[f] = NoFd /\ ~HeldByReactor(f)
    /\ \E n \in Fds : /\ ~InUse(n)
                      /\ \A m \in Fds : m < n => InUse(m)
                      /\ fileno' = [fileno EXCEPT ![f] = n]
    /\ UNCHANGED <<epoll, fds, suspended, running, timers, bad, curPrio,
                   removed, loopOn, stepVars, callVars, fresh>>

CloseFile(f) ==
    /\ InProgram
    /\ fileno[f] # NoFd
    /\ fileno' = [fileno EXCEPT ![f] = NoFd]
    /\ epoll' = [epoll EXCEPT ![fileno[f]] = None]
    /\ UNCHANGED <<fds, suspended, running, timers, bad, curPrio, removed,
                   loopOn, stepVars, callVars, fresh>>

----------------------------------------------------------------------------
(* Readers and writers.                                                       *)

\* Fault: the numbers are not added to _removeFdsInCurrentStep.
UnregisterForgetsStep(F, U) ==
    /\ fds' = [n \in Fds |-> IF n \in F THEN None ELSE fds[n]]
    /\ epoll' = [n \in Fds |-> IF n \in U THEN None ELSE epoll[n]]
    /\ fresh' = fresh \ F
    /\ UNCHANGED removed

\* Deletes the registrations in F and unregisters the numbers in U.
Unregister(F, U) ==
    /\ fds' = [n \in Fds |-> IF n \in F THEN None ELSE fds[n]]
    /\ epoll' = [n \in Fds |-> IF n \in U THEN None ELSE epoll[n]]
    /\ removed' = removed \cup U
    /\ fresh' = fresh \ F

\* Handles under which table t still holds the file object f.
ByFileObj(t, f) == {n \in Fds : t[n] # None /\ t[n].fileOrFd = f}

\* Fault: a closed file is refused instead of getting its last callback.
AddOutcomeRefusesClosed(f, susp) ==
    LET n == fileno[f] IN
    IF n = NoFd \/ fds[n] # None \/ susp[n] # None THEN "ValueError"
    ELSE "added"

\* How _addFD ends for the file object f, with susp the suspended contexts.
AddOutcome(f, susp) ==
    LET n == fileno[f] IN
    IF n = NoFd
    THEN IF ByFileObj(susp, f) # {} THEN "ValueError" ELSE "bad"
    ELSE IF fds[n] # None \/ susp[n] # None THEN "ValueError" ELSE "added"

_addFD(context, intent, susp) ==
    LET f == context.fileOrFd
        n == fileno[f]
        outcome == AddOutcome(f, susp)
    IN  IF outcome = "added"
        THEN /\ epoll' = [epoll EXCEPT ![n] = intent]
             /\ fds' = [fds EXCEPT ![n] = context]
             /\ fresh' = fresh \cup {n}
             /\ UNCHANGED bad
        ELSE /\ bad' = IF outcome = "bad" THEN Append(bad, context) ELSE bad
             /\ UNCHANGED <<epoll, fds, fresh>>

\* Bound on the list of closed files.
RoomForBad(f, susp) == AddOutcome(f, susp) = "bad" => Len(bad) < MaxBad

\* addReader and addWriter
AddFD(f, intent, prio) ==
    /\ InProgram
    /\ AddOutcome(f, suspended) # "ValueError"
    /\ RoomForBad(f, suspended)
    /\ _addFD([fileOrFd |-> f, intent |-> intent, prio |-> prio], intent,
              suspended)
    /\ UNCHANGED <<fileno, suspended, running, timers, curPrio, removed,
                   loopOn, stepVars, callVars>>

\* removeReader and removeWriter of the file object f
RemoveFD(f) ==
    /\ InProgram
    /\ LET n == fileno[f]
           F == IF n = NoFd THEN ByFileObj(fds, f)
                ELSE {m \in {n} : fds[m] # None}
       IN  Unregister(F, F)
    /\ UNCHANGED <<fileno, suspended, running, timers, bad, curPrio, loopOn,
                   stepVars, callVars>>

\* Fault: _epollUnregisterSafe does not add to _removeFdsInCurrentStep.
CleanupForgetsStep(f) ==
    /\ InProgram
    /\ LET n == fileno[f]
           F == IF n = NoFd THEN ByFileObj(fds, f) ELSE {n}
           S == IF n = NoFd THEN ByFileObj(suspended, f) ELSE {n}
       IN  /\ fds' = [m \in Fds |-> IF m \in F THEN None ELSE fds[m]]
           /\ epoll' = [m \in Fds |-> IF m \in F THEN None ELSE epoll[m]]
           /\ suspended' = [h \in Handles |->
                               IF h \in S THEN None ELSE suspended[h]]
           /\ fresh' = fresh \ F
    /\ UNCHANGED <<fileno, running, timers, bad, curPrio, removed, loopOn,
                   stepVars, callVars>>

Cleanup(f) ==
    /\ InProgram
    /\ LET n == fileno[f]
           F == IF n = NoFd THEN ByFileObj(fds, f) ELSE {n}
           S == IF n = NoFd THEN ByFileObj(suspended, f) ELSE {n}
       IN  /\ Unregister(F, F)
           /\ suspended' = [h \in Handles |->
                               IF h \in S THEN None ELSE suspended[h]]
    /\ UNCHANGED <<fileno, running, timers, bad, curPrio, loopOn, stepVars,
                   callVars>>

----------------------------------------------------------------------------
(* suspend() and the three resumes.                                           *)

\* suspend() when the current callback is that of a file
SuspendFD ==
    /\ calling = "fd"
    /\ fds[currenthandle] # None      \* otherwise RuntimeError
    /\ Unregister({currenthandle}, {currenthandle})
    /\ suspended' = [suspended EXCEPT ![currenthandle] = currentcontext]
    /\ UNCHANGED <<fileno, running, timers, bad, curPrio, loopOn, stepVars,
                   callVars>>

\* suspend() when the current callback is a process
SuspendProcess ==
    /\ calling = "process"
    /\ running[currenthandle] # None  \* otherwise RuntimeError
    /\ running' = [running EXCEPT ![currenthandle] = None]
    /\ suspended' = [suspended EXCEPT ![currenthandle] = currentcontext]
    /\ UNCHANGED <<osVars, fds, timers, bad, curPrio, removed, loopOn,
                   stepVars, callVars, fresh>>

\* resumeReader and resumeWriter: the context keeps its own intent
ResumeFD(h, intent) ==
    /\ InProgram
    /\ suspended[h] # None            \* otherwise KeyError
    /\ LET susp == [suspended EXCEPT ![h] = None] IN
       /\ RoomForBad(suspended[h].fileOrFd, susp)
       /\ suspended' = susp
       /\ _addFD(suspended[h], intent, susp)
    /\ UNCHANGED <<fileno, running, timers, curPrio, removed, loopOn,
                   stepVars, callVars>>

ResumeProcess(p) ==
    /\ InProgram
    /\ suspended[p] # None            \* otherwise KeyError
    /\ running' = [running EXCEPT ![p] = suspended[p]]
    /\ suspended' = [suspended EXCEPT ![p] = None]
    /\ UNCHANGED <<osVars, fds, timers, bad, curPrio, removed, loopOn,
                   stepVars, callVars, fresh>>

----------------------------------------------------------------------------
(* Processes and timers.                                                      *)

AddProcess(p, prio) ==
    /\ InProgram
    /\ suspended[p] = None /\ running[p] = None    \* otherwise ValueError
    /\ running' = [running EXCEPT ![p] = [prio |-> prio]]
    /\ UNCHANGED <<osVars, fds, suspended, timers, bad, curPrio, removed,
                   loopOn, stepVars, callVars, fresh>>

RemoveProcess(p) ==
    /\ InProgram
    /\ running[p] # None
    /\ running' = [running EXCEPT ![p] = None]
    /\ UNCHANGED <<osVars, fds, suspended, timers, bad, curPrio, removed,
                   loopOn, stepVars, callVars, fresh>>

\* Fault: addTimer does not sort.
UnsortedInsert(s, timer) == Append(s, timer)

\* The stable sort by time puts a new timer behind those due no later.
SortedInsert(s, timer) ==
    InsertAt(s, Cardinality({i \in DOMAIN s : s[i].left <= timer.left}) + 1,
             timer)

\* Timer objects are compared by identity: one still referred to is not reused.
Pending(id) == \E i \in DOMAIN timers : timers[i].id = id
Visiting(id) == \E i \in DOMAIN dueTimers : dueTimers[i] = id

AddTimer(id, delay) ==
    /\ InProgram
    /\ ~Pending(id) /\ ~Visiting(id)
    /\ timers' = SortedInsert(timers, [id |-> id, left |-> delay])
    /\ UNCHANGED <<osVars, fds, suspended, running, bad, curPrio, removed,
                   loopOn, stepVars, callVars, fresh>>

RemoveTimer(i) ==
    /\ InProgram
    /\ timers' = RemoveAt(timers, i)
    /\ UNCHANGED <<osVars, fds, suspended, running, bad, curPrio, removed,
                   loopOn, stepVars, callVars, fresh>>

\* Time passes at any moment; MaxLate bounds how long callbacks delay timers.
Tick ==
    /\ phase # "stopped" /\ timers # <<>>
    /\ \A i \in DOMAIN timers : timers[i].left > -MaxLate
    /\ timers' = [i \in DOMAIN timers |->
                     [id |-> timers[i].id, left |-> timers[i].left - 1]]
    /\ UNCHANGED <<osVars, fds, suspended, running, bad, curPrio, removed,
                   loopOn, stepVars, callVars, fresh>>

request_shutdown ==
    /\ InProgram
    /\ loopOn /\ loopOn' = FALSE
    /\ UNCHANGED <<osVars, fds, suspended, running, timers, bad, curPrio,
                   removed, stepVars, callVars, fresh>>

----------------------------------------------------------------------------
(* step(): last callbacks for bad files, or poll and the four phases.         *)

Call(kind, handle, context) ==
    /\ calling = "none"
    /\ calling' = kind /\ currenthandle' = handle /\ currentcontext' = context

StartLoop ==
    /\ phase = "setup"
    /\ phase' = "idle"
    /\ UNCHANGED <<osVars, fds, suspended, running, timers, bad, curPrio,
                   removed, loopOn, events, todo, dueTimers, snapshot,
                   callVars, fresh>>

StartLastCallbacks ==
    /\ phase = "idle" /\ loopOn
    /\ bad # <<>>
    /\ phase' = "last"
    /\ UNCHANGED <<osVars, fds, suspended, running, timers, bad, curPrio,
                   removed, loopOn, events, todo, dueTimers, snapshot,
                   callVars, fresh>>

LastCallback ==
    /\ phase = "last" /\ bad # <<>>
    /\ bad' = SubSeq(bad, 1, Len(bad) - 1)
    /\ Call("last", None, bad[Len(bad)])
    /\ UNCHANGED <<osVars, fds, suspended, running, timers, curPrio, removed,
                   loopOn, stepVars, fresh>>

EndLastCallbacks ==
    /\ phase = "last" /\ calling = "none" /\ bad = <<>>
    /\ phase' = "idle"
    /\ UNCHANGED <<osVars, fds, suspended, running, timers, bad, curPrio,
                   removed, loopOn, events, todo, dueTimers, snapshot,
                   callVars, fresh>>

\* Fault: the turn wraps one too early.
NextPrioShort == (curPrio + 1) % (MAXPRIO - 1)

NextPrio == (curPrio + 1) % MAXPRIO

\* The poll's timeout is over: a process runs, or the first timer is due.
TimeoutOver ==
    \/ \E p \in Procs : running[p] # None
    \/ timers # <<>> /\ Head(timers).left <= 0

\* timers[:] up to the first one that is not due
DuePrefix ==
    LET due == {i \in DOMAIN timers : \A j \in 1..i : timers[j].left <= 0}
    IN  [i \in 1..Cardinality(due) |-> timers[i].id]

Poll(E) ==
    /\ phase = "idle" /\ loopOn
    /\ bad = <<>>
    /\ \A n \in E : epoll[n] # None
    /\ E # {} \/ TimeoutOver
    /\ curPrio' = NextPrio
    /\ removed' = {} /\ fresh' = {}
    /\ events' = E /\ todo' = E
    /\ dueTimers' = DuePrefix
    /\ phase' = "timers"
    /\ UNCHANGED <<osVars, fds, suspended, running, timers, bad, loopOn,
                   snapshot, callVars>>

\* EINTR: step() returns without running a callback.
PollInterrupted ==
    /\ phase = "idle" /\ loopOn
    /\ bad = <<>>
    /\ curPrio' = NextPrio
    /\ UNCHANGED <<osVars, fds, suspended, running, timers, bad, removed,
                   loopOn, stepVars, callVars, fresh>>

\* KeyboardInterrupt while polling
PollKilled ==
    /\ phase = "idle" /\ loopOn
    /\ bad = <<>>
    /\ curPrio' = NextPrio
    /\ phase' = "failed"
    /\ UNCHANGED <<osVars, fds, suspended, running, timers, bad, removed,
                   loopOn, events, todo, dueTimers, snapshot, callVars, fresh>>

FireTimer ==
    /\ phase = "timers" /\ dueTimers # <<>>
    /\ \E i \in DOMAIN timers :
          /\ timers[i].id = Head(dueTimers)
          /\ timers' = RemoveAt(timers, i)
    /\ dueTimers' = Tail(dueTimers)
    /\ Call("timer", None, None)
    /\ UNCHANGED <<osVars, fds, suspended, running, bad, curPrio, removed,
                   loopOn, phase, events, todo, snapshot, fresh>>

SkipTimer ==
    /\ phase = "timers" /\ calling = "none" /\ dueTimers # <<>>
    /\ ~Pending(Head(dueTimers))
    /\ dueTimers' = Tail(dueTimers)
    /\ UNCHANGED <<osVars, fds, suspended, running, timers, bad, curPrio,
                   removed, loopOn, phase, events, todo, snapshot, callVars,
                   fresh>>

EndTimers ==
    /\ phase = "timers" /\ calling = "none" /\ dueTimers = <<>>
    /\ phase' = READ
    /\ UNCHANGED <<osVars, fds, suspended, running, timers, bad, curPrio,
                   removed, loopOn, events, todo, dueTimers, snapshot,
                   callVars, fresh>>

\* The tests _callbacks(fdEvents, fds, intent) makes before it calls.
Callable(n) ==
    /\ n \notin removed
    /\ fds[n] # None
    /\ fds[n].intent = phase
    /\ fds[n].prio <= curPrio

CallFD(n) ==
    /\ phase \in Intents /\ n \in todo
    /\ Callable(n)
    /\ todo' = todo \ {n}
    /\ Call("fd", n, fds[n])
    /\ UNCHANGED <<osVars, fds, suspended, running, timers, bad, curPrio,
                   removed, loopOn, phase, events, dueTimers, snapshot, fresh>>

SkipFD(n) ==
    /\ phase \in Intents /\ calling = "none" /\ n \in todo
    /\ ~Callable(n)
    /\ removed' = IF fds[n] = None THEN removed \cup {n} ELSE removed
    /\ todo' = todo \ {n}
    /\ UNCHANGED <<osVars, fds, suspended, running, timers, bad, curPrio,
                   loopOn, phase, events, dueTimers, snapshot, callVars, fresh>>

EndRead ==
    /\ phase = READ /\ calling = "none" /\ todo = {}
    /\ phase' = WRITE
    /\ todo' = events
    /\ UNCHANGED <<osVars, fds, suspended, running, timers, bad, curPrio,
                   removed, loopOn, events, dueTimers, snapshot, callVars,
                   fresh>>

EndWrite ==
    /\ phase = WRITE /\ calling = "none" /\ todo = {}
    /\ phase' = "processes"
    /\ events' = {}                  \* a local of step(), not used any more
    /\ snapshot' = running
    /\ UNCHANGED <<osVars, fds, suspended, running, timers, bad, curPrio,
                   removed, loopOn, todo, dueTimers, callVars, fresh>>

CallProcess(p) ==
    /\ phase = "processes" /\ snapshot[p] # None
    /\ running[p] # None /\ snapshot[p].prio <= curPrio
    /\ snapshot' = [snapshot EXCEPT ![p] = None]
    /\ Call("process", p, snapshot[p])
    /\ UNCHANGED <<osVars, fds, suspended, running, timers, bad, curPrio,
                   removed, loopOn, phase, events, todo, dueTimers, fresh>>

SkipProcess(p) ==
    /\ phase = "processes" /\ calling = "none" /\ snapshot[p] # None
    /\ ~(running[p] # None /\ snapshot[p].prio <= curPrio)
    /\ snapshot' = [snapshot EXCEPT ![p] = None]
    /\ UNCHANGED <<osVars, fds, suspended, running, timers, bad, curPrio,
                   removed, loopOn, phase, events, todo, dueTimers, callVars,
                   fresh>>

EndStep ==
    /\ phase = "processes" /\ calling = "none"
    /\ \A p \in Procs : snapshot[p] = None
    /\ phase' = "idle"
    /\ UNCHANGED <<osVars, fds, suspended, running, timers, bad, curPrio,
                   removed, loopOn, events, todo, dueTimers, snapshot,
                   callVars, fresh>>

----------------------------------------------------------------------------
(* How a callback ends.  currenthandle and currentcontext keep their values   *)
(* in the code; nothing reads them before the next callback sets them, so     *)
(* they are reset here.                                                       *)

EndCall == calling' = "none" /\ currenthandle' = None /\ currentcontext' = None

Return ==
    /\ calling # "none"
    /\ EndCall
    /\ UNCHANGED <<osVars, fds, suspended, running, timers, bad, curPrio,
                   removed, loopOn, stepVars, fresh>>

\* if self.currenthandle in fds: del fds[...]; self._epollUnregisterSafe(...)
DropCurrentFD ==
    LET F == {n \in Fds : calling = "fd" /\ n = currenthandle /\ fds[n] # None}
    IN  Unregister(F, F)

\* An exception that the reactor prints and ignores; not from a process.
RaiseHandled ==
    /\ calling \in {"last", "timer", "fd"}
    /\ DropCurrentFD
    /\ EndCall
    /\ UNCHANGED <<fileno, suspended, running, timers, bad, curPrio, loopOn,
                   stepVars>>

\* AssertionError, SystemExit, KeyboardInterrupt; from a process any exception.
RaiseFatal ==
    /\ calling # "none"
    /\ DropCurrentFD
    /\ running' = [p \in Procs |->
                      IF calling = "process" /\ p = currenthandle
                      THEN None ELSE running[p]]
    /\ EndCall
    /\ phase' = "failed"
    /\ UNCHANGED <<fileno, suspended, timers, bad, curPrio, loopOn, events,
                   todo, dueTimers, snapshot>>

\* The files that shutdown() closes: those of registered and suspended contexts.
ReactorFiles ==
    {f \in Files : ByFileObj(fds, f) # {} \/ ByFileObj(suspended, f) # {}}

\* loop()'s finally
Shutdown ==
    /\ phase = "failed" \/ (phase = "idle" /\ ~loopOn)
    /\ phase' = "stopped"
    /\ fileno' = [f \in Files |-> IF f \in ReactorFiles THEN NoFd
                                  ELSE fileno[f]]
    /\ epoll' = [n \in Fds |-> None]
    /\ fds' = [n \in Fds |-> None]
    /\ suspended' = [h \in Handles |-> None]
    /\ running' = [p \in Procs |-> None]
    /\ bad' = <<>>
    /\ fresh' = {}
    /\ UNCHANGED <<timers, curPrio, removed, loopOn, events, todo, dueTimers,
                   snapshot, callVars>>

Stopped == phase = "stopped" /\ UNCHANGED vars

----------------------------------------------------------------------------
ProgramFD ==
    \/ \E f \in Files : OpenFile(f) \/ CloseFile(f) \/ RemoveFD(f) \/ Cleanup(f)
    \/ \E f \in Files, i \in Intents, pr \in Prios : AddFD(f, i, pr)
    \/ SuspendFD
    \/ \E n \in Fds, i \in Intents : ResumeFD(n, i)

ProgramOther ==
    \/ \E p \in Procs : RemoveProcess(p) \/ ResumeProcess(p)
    \/ \E p \in Procs, pr \in Prios : AddProcess(p, pr)
    \/ SuspendProcess
    \/ \E id \in TimerIds, d \in 0..MaxDelay : AddTimer(id, d)
    \/ \E i \in DOMAIN timers : RemoveTimer(i)
    \/ request_shutdown

\* What the reactor does by itself, and the end of a callback.
StepProgress ==
    \/ StartLoop \/ StartLastCallbacks \/ LastCallback \/ EndLastCallbacks
    \/ FireTimer \/ SkipTimer \/ EndTimers
    \/ \E n \in Fds : CallFD(n) \/ SkipFD(n)
    \/ EndRead \/ EndWrite
    \/ \E p \in Procs : CallProcess(p) \/ SkipProcess(p)
    \/ EndStep \/ Return \/ Shutdown

Failure == PollInterrupted \/ PollKilled \/ RaiseHandled \/ RaiseFatal

Next ==
    \/ ProgramFD \/ ProgramOther
    \/ StepProgress \/ \E E \in SUBSET Fds : Poll(E)
    \/ Failure \/ Tick \/ Stopped

Spec == Init /\ [][Next]_vars

\* One thread runs the loop: it goes on whenever it can, callbacks end, time
\* passes, and a poll whose timeout is over returns.  A poll without a timeout
\* may block for ever: no file need become ready.  Signals interrupt only
\* finitely many polls: an interrupted step uses up its turn of _prio, so
\* interruptions in step with MAXPRIO would starve a priority.
Fairness ==
    /\ WF_vars(StepProgress)
    /\ WF_vars(TimeoutOver /\ \E E \in SUBSET Fds : Poll(E))
    /\ WF_vars(Tick)
    /\ <>[][~PollInterrupted]_vars

FairSpec == Spec /\ Fairness

----------------------------------------------------------------------------
(* Safety.                                                                    *)

\* The kernel watches exactly the registrations whose file still has the
\* number it was registered under: an event never reaches the context of
\* another file, and no open registered file goes deaf, however files are
\* closed and numbers reused behind the reactor's back (_addFD, _removeFD,
\* cleanup, the _clean*ByFileObj helpers).
EpollMatchesTable ==
    \A n \in Fds :
        epoll[n] # None <=> fds[n] # None /\ fileno[fds[n].fileOrFd] = n

\* A handle is never both active and suspended (_addFD, addProcess, suspend,
\* resume*, cleanup), so that a resume cannot overwrite a live registration.
ActiveXorSuspended ==
    /\ \A n \in Fds : fds[n] = None \/ suspended[n] = None
    /\ \A p \in Procs : running[p] = None \/ suspended[p] = None

\* A callback is called only for an event that was polled for its own
\* registration: never for one made since the poll under a number that was
\* removed or closed meanwhile (_removeFdsInCurrentStep).
NoStaleCall ==
    [][\A n \in Fds : CallFD(n) => n \in events /\ n \notin fresh]_vars

\* resumeReader and resumeWriter pop the suspended context before _addFD can
\* raise; the context is nevertheless never lost: it is registered again, or
\* gets its last callback when its file was closed meanwhile.
ResumeKeepsContext ==
    [][\A n \in Fds, i \in Intents :
          ResumeFD(n, i) => \/ fds'[n] = suspended[n]
                           \/ bad' = Append(bad, suspended[n])]_vars

\* Two open files never share a number, and the contexts that hold a file object
\* are all kept under one number, that of the file while it is open.
FilenoInjective ==
    \A f, g \in Files : fileno[f] = fileno[g] /\ fileno[f] # NoFd => f = g

Holds(n, f) ==
    \/ fds[n] # None /\ fds[n].fileOrFd = f
    \/ suspended[n] # None /\ suspended[n].fileOrFd = f
    \/ calling = "fd" /\ currenthandle = n /\ currentcontext.fileOrFd = f

OneNumber ==
    \A f \in Files, n \in Fds :
        Holds(n, f) => /\ \A m \in Fds : Holds(m, f) => m = n
                       /\ fileno[f] \in {n, NoFd}

\* An event of the step in progress belongs to a removed number, which is
\* skipped, or to the registration that was polled: the branch of _callbacks
\* for an unexpected descriptor is never taken, as the tests expect ("Should
\* *not* happen anymore").
EventsGuarded ==
    phase \in {"timers", READ, WRITE} =>
        \A n \in events : n \in removed \/ (fds[n] # None /\ n \notin fresh)

\* The conjunction that every step of the reactor and of the program keeps, behind
\* NoStaleCall and ResumeKeepsContext: the kernel watches what the tables say.
IInv == /\ TypeOK /\ FilenoInjective /\ EpollMatchesTable
        /\ ActiveXorSuspended /\ OneNumber /\ EventsGuarded

\* A timer fires only when it is due, and before every timer due later
\* (the sorted list and the break of _timerCallbacks).
TimersInOrder ==
    [][FireTimer => \E t \in ToSet(timers) :
          /\ t.id = Head(dueTimers) /\ t.left <= 0
          /\ \A u \in ToSet(timers) : t.left <= u.left]_vars

----------------------------------------------------------------------------
(* Liveness.  The first disjunct is about _lastCallbacks: it goes on while    *)
(* last callbacks add files that are closed.                                  *)

LastCallbacksGoOn == <>[](phase = "last")

\* A registration that every poll reports is called again and again, whatever
\* its priority and whatever timers, processes and other files do, unless it
\* is removed or suspended, or the poll blocks for ever, with nothing ready.
FdServed ==
    \/ LastCallbacksGoOn \/ <>[](phase = "idle")
    \/ \A n \in Fds :
          []<>(\/ fds[n] = None
               \/ calling = "fd" /\ currenthandle = n
               \/ phase = "timers" /\ n \notin events
               \/ phase = "stopped")

\* A process is called again and again until it is removed or suspended.
ProcessServed ==
    \/ LastCallbacksGoOn
    \/ \A p \in Procs :
          []<>(\/ running[p] = None
               \/ calling = "process" /\ currenthandle = p
               \/ phase = "stopped")

\* A timer fires unless it is removed first: the poll does not oversleep.
TimerServed ==
    \/ LastCallbacksGoOn
    \/ \A id \in TimerIds : []<>(~Pending(id) \/ phase = "stopped")

\* Nobody starves: turns of _prio, the timeout of the poll, the break of
\* _timerCallbacks and the copies that a step goes over serve every kind of
\* work, whatever the callbacks of the others do.
Served == FdServed /\ ProcessServed /\ TimerServed
=============================================================================
