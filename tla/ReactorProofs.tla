--------------------------- MODULE ReactorProofs ---------------------------
(* Proofs about Reactor: its type correctness, the inductive invariant behind *)
(* the handling of reused descriptor numbers, and what follows from it.       *)
EXTENDS Reactor, SelectionProofs, TLAPS

USE DEF READ, WRITE, NoFd, Intents

----------------------------------------------------------------------------
(* The operators on sequences keep the type of the elements.                  *)

\* An initial part of an interval of indices is an interval (for DuePrefix).
LEMMA IntervalSubset ==
    ASSUME NEW n \in Nat, NEW D \in SUBSET (1..n)
    PROVE  Cardinality(D) \in 0..n
<1>1. IsFiniteSet(1..n) /\ Cardinality(1..n) = n
  BY FS_Interval
<1>2. IsFiniteSet(D) /\ Cardinality(D) <= n
  BY <1>1, FS_Subset
<1>. QED
  BY <1>2, FS_CardinalityType

\* The sort of addTimer keeps a list of timers a list of timers.
LEMMA SortedInsertType ==
    ASSUME NEW S, NEW s \in Seq(S), NEW t \in S
    PROVE  SortedInsert(s, t) \in Seq(S)
<1> DEFINE D == {i \in DOMAIN s : s[i].left <= t.left}
<1>1. D \subseteq 1..Len(s) /\ Len(s) \in Nat
  OBVIOUS
<1>. HIDE DEF D
<1>2. Cardinality(D) \in 0..Len(s)
  BY <1>1, IntervalSubset
<1>3. Cardinality(D) + 1 \in 1..(Len(s) + 1)
  BY <1>1, <1>2
<1>4. \A k \in 1..(Len(s) + 1) : InsertAt(s, k, t) \in Seq(S)
  BY DEF InsertAt
<1>. QED
  BY <1>3, <1>4 DEF SortedInsert, D

\* Removing a timer leaves a list of timers.
LEMMA RemoveAtType ==
    ASSUME NEW S, NEW s \in Seq(S), NEW i \in DOMAIN s
    PROVE  RemoveAt(s, i) \in Seq(S)
BY DEF RemoveAt

\* The timers a step visits are identities of timers.
LEMMA DuePrefixType ==
    ASSUME timers \in Seq(Timer)
    PROVE  DuePrefix \in Seq(TimerIds)
<1> DEFINE D == {i \in DOMAIN timers : \A j \in 1..i : timers[j].left <= 0}
<1>1. D \subseteq 1..Len(timers) /\ Len(timers) \in Nat
  OBVIOUS
<1>. HIDE DEF D
<1>2. Cardinality(D) \in 0..Len(timers)
  BY <1>1, IntervalSubset
<1>3. \A k \in 0..Len(timers) :
          [i \in 1..k |-> timers[i].id] \in Seq(TimerIds)
  <2>1. \A i \in 1..Len(timers) : timers[i] \in Timer
    OBVIOUS
  <2>2. \A i \in 1..Len(timers) : timers[i].id \in TimerIds
    BY <2>1 DEF Timer
  <2>. QED
    BY <1>1, <2>2
<1>. QED
  BY <1>2, <1>3 DEF DuePrefix, D

----------------------------------------------------------------------------
(* Type correctness.                                                          *)

\* The constructor leaves every table empty and of its type.
LEMMA TypeInit == Init => TypeOK
BY ReactorAssumption DEF Init, TypeOK, Handles, CallKinds, Phases

\* _addFD puts a context in the table or in the list of closed files.
LEMMA AddFDType ==
    ASSUME TypeOK, NEW c \in FdContext, c.fileOrFd \in Files,
           NEW intent \in Intents, NEW susp, _addFD(c, intent, susp)
    PROVE  /\ epoll' \in [Fds -> Intents \cup {None}]
           /\ fds' \in [Fds -> FdContext \cup {None}]
           /\ bad' \in Seq(FdContext)
           /\ fresh' \subseteq Fds
<1>1. CASE AddOutcome(c.fileOrFd, susp) = "added"
  <2>1. fileno[c.fileOrFd] \in Fds
    BY <1>1 DEF AddOutcome, TypeOK
  <2>. QED
    BY SMTT(30), <1>1, <2>1 DEF _addFD, TypeOK
<1>2. CASE AddOutcome(c.fileOrFd, susp) # "added"
  <2>1. Append(bad, c) \in Seq(FdContext)
    BY DEF TypeOK
  <2>2. bad' \in {bad, Append(bad, c)} /\ UNCHANGED <<epoll, fds, fresh>>
    BY <1>2 DEF _addFD
  <2>. QED
    BY <2>1, <2>2 DEF TypeOK
<1>. QED
  BY <1>1, <1>2

\* The operations of the program's files, readers and writers.
LEMMA TypeProgramFD ==
    ASSUME TypeOK, ProgramFD
    PROVE  TypeOK'
<1>. USE ReactorAssumption DEF TypeOK, Handles, stepVars, callVars
<1>1. ASSUME NEW f \in Files, OpenFile(f) PROVE TypeOK'
  BY <1>1 DEF OpenFile
<1>2. ASSUME NEW f \in Files, CloseFile(f) PROVE TypeOK'
  BY <1>2 DEF CloseFile
<1>3. ASSUME NEW f \in Files, RemoveFD(f) PROVE TypeOK'
  <2>1. PICK F : /\ F = IF fileno[f] = NoFd THEN ByFileObj(fds, f)
                       ELSE {m \in {fileno[f]} : fds[m] # None}
                 /\ Unregister(F, F)
    BY <1>3 DEF RemoveFD
  <2>2. F \subseteq Fds
    BY <2>1 DEF ByFileObj
  <2>3. /\ fds' \in [Fds -> FdContext \cup {None}]
        /\ epoll' \in [Fds -> Intents \cup {None}]
        /\ removed' \subseteq Fds /\ fresh' \subseteq Fds
    BY <2>1, <2>2 DEF Unregister
  <2>. QED
    BY <1>3, <2>3 DEF RemoveFD
<1>4. ASSUME NEW f \in Files, Cleanup(f) PROVE TypeOK'
  BY <1>4 DEF Cleanup, Unregister, ByFileObj
<1>5. ASSUME NEW f \in Files, NEW i \in Intents, NEW pr \in Prios,
             AddFD(f, i, pr)
      PROVE  TypeOK'
  <2> DEFINE c == [fileOrFd |-> f, intent |-> i, prio |-> pr]
  <2>1. c \in FdContext
    BY DEF FdContext
  <2>2. c.fileOrFd = f
    OBVIOUS
  <2>3. _addFD(c, i, suspended)
    BY <1>5 DEF AddFD
  <2>. HIDE DEF c
  <2>4. /\ epoll' \in [Fds -> Intents \cup {None}]
        /\ fds' \in [Fds -> FdContext \cup {None}]
        /\ bad' \in Seq(FdContext)
        /\ fresh' \subseteq Fds
    BY <2>1, <2>2, <2>3, AddFDType
  <2>. QED
    BY <1>5, <2>4 DEF AddFD
<1>6. CASE SuspendFD
  BY <1>6 DEF SuspendFD, Unregister
<1>7. ASSUME NEW n \in Fds, NEW i \in Intents, ResumeFD(n, i) PROVE TypeOK'
  <2>1. suspended[n] \in FdContext /\ suspended[n].fileOrFd \in Files
    BY <1>7 DEF ResumeFD, FdContext
  <2> DEFINE susp == [suspended EXCEPT ![n] = None]
  <2>2. _addFD(suspended[n], i, susp) /\ suspended' = susp
    BY <1>7 DEF ResumeFD
  <2>. HIDE DEF susp
  <2>3. /\ epoll' \in [Fds -> Intents \cup {None}]
        /\ fds' \in [Fds -> FdContext \cup {None}]
        /\ bad' \in Seq(FdContext)
        /\ fresh' \subseteq Fds
    BY SMTT(30), <2>1, <2>2, AddFDType
  <2>. QED
    BY <1>7, <2>2, <2>3 DEF ResumeFD, susp
<1>. HIDE DEF TypeOK, Handles, stepVars, callVars
<1>. QED
  BY <1>1, <1>2, <1>3, <1>4, <1>5, <1>6, <1>7 DEF ProgramFD

\* The operations on processes and timers.
LEMMA TypeProgramOther ==
    ASSUME TypeOK, ProgramOther
    PROVE  TypeOK'
<1>. USE ReactorAssumption
     DEF TypeOK, Handles, osVars, stepVars, callVars
<1>1. ASSUME NEW p \in Procs, RemoveProcess(p) PROVE TypeOK'
  BY <1>1 DEF RemoveProcess
<1>2. ASSUME NEW p \in Procs, ResumeProcess(p) PROVE TypeOK'
  BY <1>2 DEF ResumeProcess
<1>3. ASSUME NEW p \in Procs, NEW pr \in Prios, AddProcess(p, pr) PROVE TypeOK'
  BY <1>3 DEF AddProcess, ProcessContext
<1>4. CASE SuspendProcess
  BY <1>4 DEF SuspendProcess
<1>5. ASSUME NEW id \in TimerIds, NEW d \in 0..MaxDelay, AddTimer(id, d)
      PROVE  TypeOK'
  <2>1. [id |-> id, left |-> d] \in Timer
    BY DEF Timer
  <2>2. timers' \in Seq(Timer)
    BY <1>5, <2>1, SortedInsertType DEF AddTimer
  <2>. QED
    BY <1>5, <2>2 DEF AddTimer
<1>6. ASSUME NEW i \in DOMAIN timers, RemoveTimer(i) PROVE TypeOK'
  <2>1. timers' \in Seq(Timer)
    BY <1>6, RemoveAtType DEF RemoveTimer
  <2>. QED
    BY <1>6, <2>1 DEF RemoveTimer
<1>7. CASE request_shutdown
  BY <1>7 DEF request_shutdown
<1>. QED
  BY <1>1, <1>2, <1>3, <1>4, <1>5, <1>6, <1>7 DEF ProgramOther

\* The steps of the loop itself.
LEMMA TypeStepProgress ==
    ASSUME TypeOK, StepProgress
    PROVE  TypeOK'
<1>. USE ReactorAssumption
     DEF TypeOK, Handles, osVars, stepVars, callVars, CallKinds, Phases, Call,
         EndCall
<1>1. CASE StartLoop
  BY <1>1 DEF StartLoop
<1>2. CASE StartLastCallbacks
  BY <1>2 DEF StartLastCallbacks
<1>3. CASE LastCallback
  BY <1>3 DEF LastCallback
<1>4. CASE EndLastCallbacks
  BY <1>4 DEF EndLastCallbacks
<1>5. CASE FireTimer
  <2>1. timers' \in Seq(Timer)
    BY <1>5, RemoveAtType DEF FireTimer
  <2>2. dueTimers' \in Seq(TimerIds)
    BY <1>5 DEF FireTimer
  <2>. QED
    BY <1>5, <2>1, <2>2 DEF FireTimer
<1>6. CASE SkipTimer
  BY <1>6 DEF SkipTimer
<1>7. CASE EndTimers
  BY <1>7 DEF EndTimers
<1>8. ASSUME NEW n \in Fds, CallFD(n) PROVE TypeOK'
  BY <1>8 DEF CallFD, Callable
<1>9. ASSUME NEW n \in Fds, SkipFD(n) PROVE TypeOK'
  BY <1>9 DEF SkipFD
<1>10. CASE EndRead
  BY <1>10 DEF EndRead
<1>11. CASE EndWrite
  BY <1>11 DEF EndWrite
<1>12. ASSUME NEW p \in Procs, CallProcess(p) PROVE TypeOK'
  BY <1>12 DEF CallProcess
<1>13. ASSUME NEW p \in Procs, SkipProcess(p) PROVE TypeOK'
  BY <1>13 DEF SkipProcess
<1>14. CASE EndStep
  BY <1>14 DEF EndStep
<1>15. CASE Return
  BY <1>15 DEF Return
<1>16. CASE Shutdown
  BY <1>16 DEF Shutdown
<1>. QED
  BY <1>1, <1>2, <1>3, <1>4, <1>5, <1>6, <1>7, <1>8, <1>9, <1>10, <1>11,
     <1>12, <1>13, <1>14, <1>15, <1>16
  DEF StepProgress

\* The poll, its failures, exceptions and the clock.
LEMMA TypeRest ==
    ASSUME TypeOK, \/ \E E \in SUBSET Fds : Poll(E)
                   \/ Failure \/ Tick \/ Stopped
    PROVE  TypeOK'
<1>. USE ReactorAssumption
     DEF TypeOK, Handles, osVars, stepVars, callVars, CallKinds, Phases,
         EndCall
<1>0. NextPrio \in 0..(MAXPRIO - 1)
  BY DEF NextPrio
<1>1. ASSUME NEW E \in SUBSET Fds, Poll(E) PROVE TypeOK'
  BY <1>0, <1>1, DuePrefixType DEF Poll
<1>2. CASE PollInterrupted
  BY <1>0, <1>2 DEF PollInterrupted
<1>3. CASE PollKilled
  BY <1>0, <1>3 DEF PollKilled
<1>4. CASE RaiseHandled
  BY <1>4 DEF RaiseHandled, DropCurrentFD, Unregister
<1>5. CASE RaiseFatal
  BY <1>5 DEF RaiseFatal, DropCurrentFD, Unregister
<1>6. CASE Tick
  <2>1. \A i \in DOMAIN timers : timers[i] \in Timer
    OBVIOUS
  <2>0. DOMAIN timers = 1..Len(timers) /\ Len(timers) \in Nat
    OBVIOUS
  <2>2. \A i \in DOMAIN timers :
            [id |-> timers[i].id, left |-> timers[i].left - 1] \in Timer
    BY <1>6, <2>1 DEF Tick, Timer
  <2>3. timers' \in Seq(Timer)
    BY <1>6, <2>0, <2>2 DEF Tick
  <2>. QED
    BY <1>6, <2>3 DEF Tick
<1>7. CASE Stopped
  BY <1>7 DEF Stopped, vars
<1>. QED
  BY <1>1, <1>2, <1>3, <1>4, <1>5, <1>6, <1>7 DEF Failure

\* No step of the program or of the reactor breaks the types.
LEMMA TypeNext == TypeOK /\ [Next]_vars => TypeOK'
<1>1. CASE UNCHANGED vars
  BY <1>1 DEF vars, TypeOK, stepVars, callVars
<1>. QED
  BY <1>1, TypeProgramFD, TypeProgramOther, TypeStepProgress, TypeRest DEF Next

\* Every table of the reactor keeps to its type, whatever the program does.
THEOREM TypeCorrect == Spec => []TypeOK
BY TypeInit, TypeNext, PTL DEF Spec

----------------------------------------------------------------------------
(* The inductive invariant.                                                   *)

\* Before the program has opened a file there is nothing to get wrong.
LEMMA IInvInit == Init => IInv
<1>1. ASSUME Init PROVE /\ FilenoInjective /\ EpollMatchesTable
                        /\ ActiveXorSuspended /\ OneNumber /\ EventsGuarded
  BY <1>1, ReactorAssumption
  DEF Init, FilenoInjective, EpollMatchesTable, ActiveXorSuspended, OneNumber,
      Holds, EventsGuarded, Handles
<1>. QED
  BY <1>1, TypeInit DEF IInv

\* The invariant depends on these variables only.
LEMMA CoreUnchanged ==
    ASSUME IInv,
           UNCHANGED <<fileno, epoll, fds, fresh, suspended, running, removed,
                       stepVars, callVars>>
    PROVE  /\ FilenoInjective' /\ EpollMatchesTable'
           /\ ActiveXorSuspended' /\ OneNumber' /\ EventsGuarded'
BY DEF IInv, FilenoInjective, EpollMatchesTable, ActiveXorSuspended,
       OneNumber, Holds, EventsGuarded, stepVars, callVars

\* The operations on files, readers and writers.
LEMMA IInvProgramFD ==
    ASSUME IInv, ProgramFD
    PROVE  /\ FilenoInjective' /\ EpollMatchesTable'
           /\ ActiveXorSuspended' /\ OneNumber' /\ EventsGuarded'
<1> DEFINE Core == /\ FilenoInjective /\ EpollMatchesTable
                   /\ ActiveXorSuspended /\ OneNumber /\ EventsGuarded
<1>. USE ReactorAssumption
     DEF IInv, TypeOK, Handles, stepVars, callVars, FilenoInjective,
         EpollMatchesTable, ActiveXorSuspended, OneNumber, Holds,
         EventsGuarded
<1>1. ASSUME NEW f \in Files, OpenFile(f) PROVE Core'
  BY <1>1 DEF OpenFile, HeldByReactor, InUse
<1>2. ASSUME NEW f \in Files, CloseFile(f) PROVE Core'
  <2>1. FilenoInjective' /\ ActiveXorSuspended'
    BY <1>2 DEF CloseFile
  <2>2. EpollMatchesTable'
    <3> SUFFICES ASSUME NEW n \in Fds
                 PROVE  (epoll[n] # None
                         <=> fds[n] # None /\ fileno[fds[n].fileOrFd] = n)'
      OBVIOUS
    <3>1. CASE fileno[f] = n
      BY <1>2, <3>1 DEF CloseFile, FdContext
    <3>2. CASE fileno[f] # n
      BY <1>2, <3>2 DEF CloseFile, FdContext
    <3>. QED
      BY <3>1, <3>2
  <2>3. OneNumber'
    BY <1>2 DEF CloseFile
  <2>4. EventsGuarded'
    BY <1>2 DEF CloseFile
  <2>. QED
    BY <2>1, <2>2, <2>3, <2>4
<1>3. ASSUME NEW f \in Files, RemoveFD(f) PROVE Core'
  BY <1>3 DEF RemoveFD, Unregister, ByFileObj
<1>4. ASSUME NEW f \in Files, Cleanup(f) PROVE Core'
  BY <1>4 DEF Cleanup, Unregister, ByFileObj
<1>5. ASSUME NEW f \in Files, NEW i \in Intents, NEW pr \in Prios,
             AddFD(f, i, pr)
      PROVE  Core'
  <2> DEFINE c == [fileOrFd |-> f, intent |-> i, prio |-> pr]
             n == fileno[f]
  <2>0. c \in FdContext /\ c.fileOrFd = f
    BY DEF FdContext
  <2>1. CASE AddOutcome(f, suspended) = "added"
    <3>1. /\ n \in Fds /\ fds[n] = None /\ suspended[n] = None
          /\ \A m \in Fds : Holds(m, f) => m = n
      BY <2>1 DEF AddOutcome
    <3>2. /\ epoll' = [epoll EXCEPT ![n] = i]
          /\ fds' = [fds EXCEPT ![n] = c]
          /\ fresh' = fresh \cup {n}
          /\ UNCHANGED <<fileno, suspended, running, removed, stepVars,
                         callVars>>
      BY <1>5, <2>0, <2>1 DEF AddFD, _addFD
    <3>. HIDE DEF c
    <3>. QED
      BY <2>0, <3>1, <3>2
  <2>2. CASE AddOutcome(f, suspended) # "added"
    <3>1. UNCHANGED <<fileno, epoll, fds, fresh, suspended, running, removed,
                      stepVars, callVars>>
      BY <1>5, <2>2 DEF AddFD, _addFD
    <3>. QED
      BY <3>1, CoreUnchanged
  <2>. QED
    BY <2>1, <2>2
<1>6. CASE SuspendFD
  BY <1>6 DEF SuspendFD, Unregister
<1>7. ASSUME NEW n \in Fds, NEW i \in Intents, ResumeFD(n, i) PROVE Core'
  <2> DEFINE c == suspended[n]
             f == c.fileOrFd
             susp == [suspended EXCEPT ![n] = None]
  <2>0. c \in FdContext /\ f \in Files /\ fds[n] = None
    BY <1>7 DEF ResumeFD, FdContext
  <2>1. CASE AddOutcome(f, susp) = "added"
    <3>1. fileno[f] = n
      BY <1>7, <2>0, <2>1 DEF ResumeFD, AddOutcome
    <3>2. /\ epoll' = [epoll EXCEPT ![n] = i]
          /\ fds' = [fds EXCEPT ![n] = c]
          /\ fresh' = fresh \cup {n}
          /\ suspended' = susp
          /\ UNCHANGED <<fileno, running, removed, stepVars, callVars>>
      BY <1>7, <2>1, <3>1 DEF ResumeFD, _addFD
    <3>. QED
      BY <1>7, <2>0, <3>1, <3>2 DEF ResumeFD
  <2>2. CASE AddOutcome(f, susp) # "added"
    <3>1. /\ suspended' = susp
          /\ UNCHANGED <<fileno, epoll, fds, fresh, running, removed,
                         stepVars, callVars>>
      BY <1>7, <2>2 DEF ResumeFD, _addFD
    <3>. QED
      BY <2>0, <3>1
  <2>. QED
    BY <2>1, <2>2
<1>. HIDE DEF IInv, TypeOK, Handles, stepVars, callVars, FilenoInjective,
         EpollMatchesTable, ActiveXorSuspended, OneNumber, Holds,
         EventsGuarded
<1>. QED
  BY <1>1, <1>2, <1>3, <1>4, <1>5, <1>6, <1>7 DEF ProgramFD

\* The operations on processes and timers touch the process tables only.
LEMMA IInvProgramOther ==
    ASSUME IInv, ProgramOther
    PROVE  /\ FilenoInjective' /\ EpollMatchesTable'
           /\ ActiveXorSuspended' /\ OneNumber' /\ EventsGuarded'
<1> DEFINE Core == /\ FilenoInjective /\ EpollMatchesTable
                   /\ ActiveXorSuspended /\ OneNumber /\ EventsGuarded
<1>. USE ReactorAssumption
     DEF IInv, TypeOK, Handles, osVars, stepVars, callVars, FilenoInjective,
         EpollMatchesTable, ActiveXorSuspended, OneNumber, Holds,
         EventsGuarded
<1>1. ASSUME NEW p \in Procs, RemoveProcess(p) PROVE Core'
  BY <1>1 DEF RemoveProcess
<1>2. ASSUME NEW p \in Procs, ResumeProcess(p) PROVE Core'
  BY <1>2 DEF ResumeProcess
<1>3. ASSUME NEW p \in Procs, NEW pr \in Prios, AddProcess(p, pr) PROVE Core'
  BY <1>3 DEF AddProcess
<1>4. CASE SuspendProcess
  BY <1>4 DEF SuspendProcess
<1>5. ASSUME NEW id \in TimerIds, NEW d \in 0..MaxDelay, AddTimer(id, d)
      PROVE  Core'
  BY <1>5 DEF AddTimer
<1>6. ASSUME NEW i \in DOMAIN timers, RemoveTimer(i) PROVE Core'
  BY <1>6 DEF RemoveTimer
<1>7. CASE request_shutdown
  BY <1>7 DEF request_shutdown
<1>. HIDE DEF IInv, TypeOK, Handles, osVars, stepVars, callVars,
         FilenoInjective, EpollMatchesTable, ActiveXorSuspended, OneNumber,
         Holds, EventsGuarded
<1>. QED
  BY <1>1, <1>2, <1>3, <1>4, <1>5, <1>6, <1>7 DEF ProgramOther

\* The steps of the loop: CallFD makes a registration the current context.
LEMMA IInvStepProgress ==
    ASSUME IInv, StepProgress
    PROVE  /\ FilenoInjective' /\ EpollMatchesTable'
           /\ ActiveXorSuspended' /\ OneNumber' /\ EventsGuarded'
<1> DEFINE Core == /\ FilenoInjective /\ EpollMatchesTable
                   /\ ActiveXorSuspended /\ OneNumber /\ EventsGuarded
<1>. USE ReactorAssumption
     DEF IInv, TypeOK, Handles, osVars, stepVars, callVars, FilenoInjective,
         EpollMatchesTable, ActiveXorSuspended, OneNumber, Holds,
         EventsGuarded, Call, EndCall
<1>1. CASE StartLoop
  BY <1>1 DEF StartLoop
<1>2. CASE StartLastCallbacks
  BY <1>2 DEF StartLastCallbacks
<1>3. CASE LastCallback
  BY <1>3 DEF LastCallback
<1>4. CASE EndLastCallbacks
  BY <1>4 DEF EndLastCallbacks
<1>5. CASE FireTimer
  BY <1>5 DEF FireTimer
<1>6. CASE SkipTimer
  BY <1>6 DEF SkipTimer
<1>7. CASE EndTimers
  BY <1>7 DEF EndTimers
<1>8. ASSUME NEW n \in Fds, CallFD(n) PROVE Core'
  BY <1>8 DEF CallFD, Callable
<1>9. ASSUME NEW n \in Fds, SkipFD(n) PROVE Core'
  BY <1>9 DEF SkipFD
<1>10. CASE EndRead
  BY <1>10 DEF EndRead
<1>11. CASE EndWrite
  BY <1>11 DEF EndWrite
<1>12. ASSUME NEW p \in Procs, CallProcess(p) PROVE Core'
  BY <1>12 DEF CallProcess
<1>13. ASSUME NEW p \in Procs, SkipProcess(p) PROVE Core'
  BY <1>13 DEF SkipProcess
<1>14. CASE EndStep
  BY <1>14 DEF EndStep
<1>15. CASE Return
  BY <1>15 DEF Return
<1>16. CASE Shutdown
  BY <1>16 DEF Shutdown
<1>. HIDE DEF IInv, TypeOK, Handles, osVars, stepVars, callVars,
         FilenoInjective, EpollMatchesTable, ActiveXorSuspended, OneNumber,
         Holds, EventsGuarded, Call, EndCall
<1>. QED
  BY <1>1, <1>2, <1>3, <1>4, <1>5, <1>6, <1>7, <1>8, <1>9, <1>10, <1>11,
     <1>12, <1>13, <1>14, <1>15, <1>16
  DEF StepProgress

\* A poll reports registrations only, and nothing is fresh right after it.
LEMMA IInvRest ==
    ASSUME IInv, \/ \E E \in SUBSET Fds : Poll(E)
                 \/ Failure \/ Tick \/ Stopped
    PROVE  /\ FilenoInjective' /\ EpollMatchesTable'
           /\ ActiveXorSuspended' /\ OneNumber' /\ EventsGuarded'
<1> DEFINE Core == /\ FilenoInjective /\ EpollMatchesTable
                   /\ ActiveXorSuspended /\ OneNumber /\ EventsGuarded
<1>. USE ReactorAssumption
     DEF IInv, TypeOK, Handles, osVars, stepVars, callVars, FilenoInjective,
         EpollMatchesTable, ActiveXorSuspended, OneNumber, Holds,
         EventsGuarded, EndCall
<1>1. ASSUME NEW E \in SUBSET Fds, Poll(E) PROVE Core'
  BY <1>1 DEF Poll
<1>2. CASE PollInterrupted
  BY <1>2, CoreUnchanged DEF PollInterrupted
<1>3. CASE PollKilled
  <2>1. /\ UNCHANGED <<fileno, epoll, fds, suspended, running, callVars>>
        /\ phase' = "failed"
    BY <1>3 DEF PollKilled
  <2>2. /\ FilenoInjective' /\ EpollMatchesTable'
        /\ ActiveXorSuspended' /\ OneNumber'
    BY <2>1
  <2>3. EventsGuarded'
    BY <2>1
  <2>. QED
    BY <2>2, <2>3
<1>4. CASE RaiseHandled
  BY <1>4 DEF RaiseHandled, DropCurrentFD, Unregister
<1>5. CASE RaiseFatal
  BY <1>5 DEF RaiseFatal, DropCurrentFD, Unregister
<1>6. CASE Tick
  BY <1>6 DEF Tick
<1>7. CASE Stopped
  BY <1>7 DEF Stopped, vars
<1>. HIDE DEF IInv, TypeOK, Handles, osVars, stepVars, callVars,
         FilenoInjective, EpollMatchesTable, ActiveXorSuspended, OneNumber,
         Holds, EventsGuarded, EndCall
<1>. QED
  BY <1>1, <1>2, <1>3, <1>4, <1>5, <1>6, <1>7 DEF Failure

\* The invariant is inductive.
LEMMA IInvNext == IInv /\ [Next]_vars => IInv'
<1>1. ASSUME IInv, UNCHANGED vars PROVE IInv'
  BY <1>1
  DEF vars, IInv, TypeOK, FilenoInjective, EpollMatchesTable,
      ActiveXorSuspended, OneNumber, Holds, EventsGuarded
<1>2. ASSUME IInv, Next PROVE IInv'
  <2>1. TypeOK'
    BY <1>2, TypeNext DEF IInv
  <2>2. /\ FilenoInjective' /\ EpollMatchesTable'
        /\ ActiveXorSuspended' /\ OneNumber' /\ EventsGuarded'
    BY <1>2, IInvProgramFD, IInvProgramOther, IInvStepProgress, IInvRest
    DEF Next
  <2>. QED
    BY <2>1, <2>2 DEF IInv
<1>. QED
  BY <1>1, <1>2

\* The inductive invariant holds of every behaviour of the event loop.
THEOREM InductiveInvariant == Spec => []IInv
BY IInvInit, IInvNext, PTL DEF Spec

----------------------------------------------------------------------------
(* What follows from it.                                                      *)

\* No handle is active and suspended at once.
THEOREM NeverActiveAndSuspended == Spec => []ActiveXorSuspended
<1>1. IInv => ActiveXorSuspended
  BY DEF IInv
<1>. QED
  BY <1>1, InductiveInvariant, PTL

\* A callback only ever gets an event that was polled for its registration.
THEOREM NoCallIsStale == Spec => NoStaleCall
<1> DEFINE A == \A n \in Fds : CallFD(n) => n \in events /\ n \notin fresh
<1>1. IInv => A
  BY DEF IInv, TypeOK, EventsGuarded, CallFD, Callable
<1>. QED
  BY <1>1, InductiveInvariant, PTL DEF NoStaleCall

\* A resumed context is registered again or gets its last callback.
THEOREM ResumeNeverLoses == Spec => ResumeKeepsContext
<1> DEFINE A == \A n \in Fds, i \in Intents :
                   ResumeFD(n, i) => \/ fds'[n] = suspended[n]
                                    \/ bad' = Append(bad, suspended[n])
<1>1. IInv => A
  <2> SUFFICES ASSUME IInv, NEW n \in Fds, NEW i \in Intents, ResumeFD(n, i)
               PROVE  \/ fds'[n] = suspended[n]
                      \/ bad' = Append(bad, suspended[n])
    OBVIOUS
  <2> DEFINE f == suspended[n].fileOrFd
             susp == [suspended EXCEPT ![n] = None]
  <2>1. f \in Files /\ fds[n] = None /\ fileno[f] \in {n, NoFd}
    BY DEF ResumeFD, FdContext, IInv, TypeOK, ActiveXorSuspended, OneNumber,
           Holds
  <2>2. susp[n] = None
    BY DEF IInv, TypeOK, Handles
  <2>3. ByFileObj(susp, f) = {}
    <3>1. Holds(n, f)
      BY DEF ResumeFD, Holds
    <3>2. \A m \in Fds : m # n => susp[m] = suspended[m]
      BY DEF IInv, TypeOK, Handles
    <3>3. \A m \in Fds : Holds(m, f) => m = n
      BY <2>1, <3>1 DEF IInv, OneNumber
    <3>. HIDE DEF susp, f
    <3>. QED
      BY <2>2, <3>2, <3>3 DEF ByFileObj, Holds
  <2>4. n # NoFd
    <3>1. Fds \subseteq Nat
      BY ReactorAssumption
    <3>. QED
      BY <3>1
  <2>5. CASE fileno[f] = NoFd
    BY <2>3, <2>5 DEF ResumeFD, _addFD, AddOutcome
  <2>6. CASE fileno[f] = n
    <3>1. AddOutcome(f, susp) = "added"
      BY <2>1, <2>2, <2>4, <2>6 DEF AddOutcome
    <3>. QED
      BY <2>6, <3>1 DEF ResumeFD, _addFD, IInv, TypeOK
  <2>. QED
    BY <2>1, <2>5, <2>6
<1>. QED
  BY <1>1, InductiveInvariant, PTL DEF ResumeKeepsContext

----------------------------------------------------------------------------
(* Timers fire in the order in which they are due.                            *)

\* The list is sorted and has a timer once,
TimersSorted ==
    /\ \A i, j \in DOMAIN timers : i < j => timers[i].left <= timers[j].left
    /\ \A i, j \in DOMAIN timers : timers[i].id = timers[j].id => i = j

\* and a timer that the step is going to visit is due and comes, in the list,
\* after none but those that the step visits before it.
DueFirst ==
    \A i \in DOMAIN timers, k \in DOMAIN dueTimers :
        timers[i].id = dueTimers[k] =>
            /\ timers[i].left <= 0
            /\ \A j \in 1..(i - 1) :
                  \E l \in 1..(k - 1) : timers[j].id = dueTimers[l]

TimersInv == TypeOK /\ TimersSorted /\ DueFirst

\* What has nothing missing at the front is the front.
LEMMA FrontOfInterval ==
    ASSUME NEW n \in Nat, NEW D \in SUBSET (1..n),
           \A i \in D : \A j \in 1..i : j \in D
    PROVE  D = 1..Cardinality(D) /\ Cardinality(D) \in 0..n
<1>1. PICK m \in 0..n : D = 1..m
  <2>1. CASE D = 1..n
    BY <2>1
  <2>2. CASE D # 1..n
    <3>. DEFINE I == (1..n) \ D
    <3>1. I \in SUBSET Nat /\ I # {}
      <4>1. I = {} => 1..n \subseteq D
        OBVIOUS
      <4>2. I \subseteq Nat
        OBVIOUS
      <4>. QED
        BY <2>2, <4>1, <4>2
    <3>2. PICK m \in I : \A i \in I : m <= i
      BY <3>1, FirstOfSome
    <3>3. m \in 1..n /\ m \notin D
      OBVIOUS
    <3>4. \A i \in 1..n : i < m => i \in D
      BY <3>2, <3>3
    <3>5. \A i \in D : i < m
      <4>1. SUFFICES ASSUME NEW i \in D, ~(i < m) PROVE FALSE
        OBVIOUS
      <4>2. m \in 1..i
        BY <3>3, <4>1
      <4>. QED
        BY <3>3, <4>2
    <3>6. D = 1..(m - 1)
      <4>1. \A i \in D : i \in 1..n /\ i < m
        BY <3>5
      <4>2. D \subseteq 1..(m - 1)
        BY <3>3, <4>1
      <4>3. 1..(m - 1) \subseteq D
        BY <3>3, <3>4
      <4>. QED
        BY <4>2, <4>3
    <3>. QED
      BY <3>3, <3>6
  <2>. QED
    BY <2>1, <2>2
<1>2. Cardinality(1..m) = m
  BY FS_Interval
<1>. QED
  BY <1>1, <1>2

\* What the sort of addTimer makes of a list that is sorted: the new timer is
\* behind those due no later and before the others.
LEMMA SortedInsertIs ==
    ASSUME NEW s \in Seq(Timer), NEW t \in Timer,
           \A i, j \in DOMAIN s : i < j => s[i].left <= s[j].left
    PROVE  \E p \in 1..(Len(s) + 1) :
              LET new == SortedInsert(s, t) IN
              /\ new \in Seq(Timer) /\ Len(new) = Len(s) + 1 /\ new[p] = t
              /\ \A i \in 1..(p - 1) : new[i] = s[i] /\ s[i].left <= t.left
              /\ \A i \in (p + 1)..(Len(s) + 1) :
                    new[i] = s[i - 1] /\ t.left < s[i - 1].left
<1>. DEFINE D == {i \in DOMAIN s : s[i].left <= t.left}
            p == Cardinality(D) + 1
            new == SortedInsert(s, t)
<1>1. Len(s) \in Nat /\ DOMAIN s = 1..Len(s) /\ \A i \in 1..Len(s) : s[i] \in Timer
  BY LenProperties, ElementOfSeq
<1>2. t.left \in Int /\ \A i \in 1..Len(s) : s[i].left \in Int
  BY <1>1, ReactorAssumption DEF Timer
<1>3. D \in SUBSET (1..Len(s)) /\ \A i \in D : \A j \in 1..i : j \in D
  <2>1. SUFFICES ASSUME NEW i \in D, NEW j \in 1..i PROVE j \in D
    BY <1>1
  <2>2. i \in 1..Len(s) /\ j \in 1..Len(s) /\ s[i].left <= t.left
    BY <1>1
  <2>3. s[j].left <= s[i].left
    BY <1>1, <1>2, <2>2
  <2>. QED
    BY <1>1, <1>2, <2>2, <2>3
<1>4. D = 1..Cardinality(D) /\ Cardinality(D) \in 0..Len(s)
  BY <1>1, <1>3, FrontOfInterval
<1>5. /\ \A i \in 1..(p - 1) : s[i].left <= t.left
      /\ \A i \in p..Len(s) : t.left < s[i].left
  <2>. DEFINE c == Cardinality(D)
  <2>1. /\ \A i \in 1..c : s[i].left <= t.left
        /\ \A i \in 1..Len(s) : i \notin 1..c => ~(s[i].left <= t.left)
    BY <1>1, <1>4
  <2>2. c \in 0..Len(s) /\ p = c + 1
    BY <1>4
  <2>. HIDE DEF c, p, D
  <2>3. \A i \in 1..(p - 1) : i \in 1..c
    BY <2>2
  <2>4. \A i \in p..Len(s) : i \in 1..Len(s) /\ i \notin 1..c
    BY <2>2
  <2>. QED
    BY <1>2, <2>1, <2>3, <2>4
<1>6. new = InsertAt(s, p, t) /\ p \in 1..(Len(s) + 1)
  BY <1>4 DEF SortedInsert
<1>. HIDE DEF p, new, D
<1>7. /\ InsertAt(s, p, t) \in Seq(Timer) /\ Len(InsertAt(s, p, t)) = Len(s) + 1
      /\ InsertAt(s, p, t)[p] = t
      /\ \A i \in 1..(p - 1) : InsertAt(s, p, t)[i] = s[i]
      /\ \A i \in (p + 1)..(Len(s) + 1) : InsertAt(s, p, t)[i] = s[i - 1]
  <2>. DEFINE front == SubSeq(s, 1, p - 1)
              one == <<t>>
              back == SubSeq(s, p, Len(s))
              n == Len(s)
  <2>1. n \in Nat /\ p \in 1..(n + 1) /\ \A i \in 1..n : s[i] \in Timer
    BY <1>1, <1>6
  <2>2. /\ front \in Seq(Timer) /\ Len(front) = p - 1
        /\ \A i \in 1..(p - 1) : front[i] = s[i]
    <3>1. \A i \in 1..(p - 1) : s[i] \in Timer
      BY <2>1
    <3>. QED
      BY <2>1, <3>1, SubSeqProperties
  <2>3. /\ back \in Seq(Timer) /\ Len(back) = n + 1 - p
        /\ \A i \in 1..(n + 1 - p) : back[i] = s[p + i - 1]
    <3>1. \A i \in p..n : s[i] \in Timer
      BY <2>1
    <3>. QED
      BY <2>1, <3>1, SubSeqProperties
  <2>4. one \in Seq(Timer) /\ Len(one) = 1 /\ one[1] = t
    OBVIOUS
  <2>5. InsertAt(s, p, t) = front \o one \o back
    BY DEF InsertAt
  <2>. HIDE DEF front, one, back, n
  <2>6. /\ front \o one \in Seq(Timer) /\ Len(front \o one) = p
        /\ \A i \in 1..(p - 1) : (front \o one)[i] = s[i]
        /\ (front \o one)[p] = t
    <3>1. /\ front \o one \in Seq(Timer)
          /\ Len(front \o one) = Len(front) + Len(one)
          /\ \A i \in 1..(Len(front) + Len(one)) : (front \o one)[i] =
                 IF i <= Len(front) THEN front[i] ELSE one[i - Len(front)]
      BY <2>2, <2>4, ConcatProperties
    <3>2. Len(front) + Len(one) = p /\ p - Len(front) = 1 /\ ~(p <= Len(front))
      BY <2>1, <2>2, <2>4
    <3>3. (front \o one)[p] = one[1]
      BY <2>1, <3>1, <3>2
    <3>. QED
      BY <2>1, <2>2, <2>4, <3>1, <3>2, <3>3
  <2>7. /\ front \o one \o back \in Seq(Timer) /\ Len(front \o one \o back) = n + 1
        /\ \A i \in 1..p : (front \o one \o back)[i] = (front \o one)[i]
        /\ \A i \in (p + 1)..(n + 1) : (front \o one \o back)[i] = back[i - p]
    BY SMTT(30), <2>1, <2>3, <2>6, ConcatProperties
  <2>8. \A i \in (p + 1)..(n + 1) : back[i - p] = s[i - 1]
    BY <2>1, <2>3
  <2>9. \A i \in (p + 1)..(n + 1) : (front \o one \o back)[i] = s[i - 1]
    BY <2>7, <2>8
  <2>10. \A i \in 1..(p - 1) : (front \o one \o back)[i] = s[i]
    BY <2>1, <2>6, <2>7
  <2>11. (front \o one \o back)[p] = t
    BY <2>1, <2>6, <2>7
  <2>. QED
    BY <2>5, <2>7, <2>9, <2>10, <2>11 DEF n
<1>8. \A i \in (p + 1)..(Len(s) + 1) : t.left < s[i - 1].left
  BY <1>1, <1>5, <1>6
<1>. QED
  BY <1>5, <1>6, <1>7, <1>8 DEF new

\* A timer is taken out of the list.
LEMMA RemoveAtIs ==
    ASSUME NEW s \in Seq(Timer), NEW p \in DOMAIN s
    PROVE  /\ RemoveAt(s, p) \in Seq(Timer) /\ Len(RemoveAt(s, p)) = Len(s) - 1
           /\ \A i \in 1..(p - 1) : RemoveAt(s, p)[i] = s[i]
           /\ \A i \in p..(Len(s) - 1) : RemoveAt(s, p)[i] = s[i + 1]
<1>. DEFINE front == SubSeq(s, 1, p - 1)
            back == SubSeq(s, p + 1, Len(s))
            n == Len(s)
<1>1. n \in Nat /\ p \in 1..n /\ \A i \in 1..n : s[i] \in Timer
  BY LenProperties, ElementOfSeq
<1>2. /\ front \in Seq(Timer) /\ Len(front) = p - 1
      /\ \A i \in 1..(p - 1) : front[i] = s[i]
  <2>1. \A i \in 1..(p - 1) : s[i] \in Timer
    BY <1>1
  <2>. QED
    BY <1>1, <2>1, SubSeqProperties
<1>3. /\ back \in Seq(Timer) /\ Len(back) = n - p
      /\ \A i \in 1..(n - p) : back[i] = s[p + i]
  <2>1. \A i \in (p + 1)..n : s[i] \in Timer
    BY <1>1
  <2>. QED
    BY <1>1, <2>1, SubSeqProperties
<1>4. RemoveAt(s, p) = front \o back
  BY DEF RemoveAt
<1>. HIDE DEF front, back, n
<1>5. /\ front \o back \in Seq(Timer) /\ Len(front \o back) = n - 1
      /\ \A i \in 1..(p - 1) : (front \o back)[i] = s[i]
      /\ \A i \in p..(n - 1) : (front \o back)[i] = back[i - (p - 1)]
  <2>1. /\ front \o back \in Seq(Timer)
        /\ Len(front \o back) = Len(front) + Len(back)
        /\ \A i \in 1..(Len(front) + Len(back)) : (front \o back)[i] =
               IF i <= Len(front) THEN front[i] ELSE back[i - Len(front)]
    BY <1>2, <1>3, ConcatProperties
  <2>2. Len(front) + Len(back) = n - 1
    BY <1>1, <1>2, <1>3
  <2>3. \A i \in 1..(p - 1) : (front \o back)[i] = front[i]
    BY <1>1, <1>2, <2>1, <2>2
  <2>4. \A i \in p..(n - 1) : (front \o back)[i] = back[i - (p - 1)]
    BY SMTT(30), <1>1, <1>2, <2>1, <2>2
  <2>. QED
    BY <1>2, <2>1, <2>2, <2>3, <2>4
<1>6. \A i \in p..(n - 1) : back[i - (p - 1)] = s[i + 1]
  BY <1>1, <1>3
<1>. QED
  BY <1>4, <1>5, <1>6 DEF n

\* What is known of the timers, by position.
LEMMA TimersTyped ==
    ASSUME TypeOK
    PROVE  /\ timers \in Seq(Timer) /\ Len(timers) \in Nat
           /\ DOMAIN timers = 1..Len(timers)
           /\ \A i \in 1..Len(timers) :
                 /\ timers[i] \in Timer /\ timers[i].id \in TimerIds
                 /\ timers[i].left \in Int
           /\ dueTimers \in Seq(TimerIds) /\ Len(dueTimers) \in Nat
           /\ DOMAIN dueTimers = 1..Len(dueTimers)
<1>1. timers \in Seq(Timer) /\ dueTimers \in Seq(TimerIds)
  BY DEF TypeOK
<1>2. \A i \in 1..Len(timers) : timers[i] \in Timer
  BY <1>1, ElementOfSeq
<1>3. \A t \in Timer : t.id \in TimerIds /\ t.left \in Int
  BY ReactorAssumption DEF Timer
<1>. QED
  BY <1>1, <1>2, <1>3, LenProperties

\* A timer is added: it is due after those it is put behind.
LEMMA AddTimerKeeps ==
    ASSUME TimersInv, NEW id \in TimerIds, NEW d \in 0..MaxDelay, AddTimer(id, d)
    PROVE  TimersSorted' /\ DueFirst'
<1>. DEFINE t == [id |-> id, left |-> d]
            n == Len(timers)
<1>1. /\ t \in Timer /\ t.id = id /\ t.left = d /\ d \in Nat
  BY ReactorAssumption DEF Timer
<1>2. /\ n \in Nat /\ DOMAIN timers = 1..n /\ timers \in Seq(Timer)
      /\ \A i \in 1..n : timers[i].left \in Int
      /\ DOMAIN dueTimers = 1..Len(dueTimers)
  BY TimersTyped DEF TimersInv
<1>3. /\ timers' = SortedInsert(timers, t) /\ dueTimers' = dueTimers
      /\ \A i \in 1..n : timers[i].id # id
      /\ \A k \in DOMAIN dueTimers : dueTimers[k] # id
  BY <1>2 DEF AddTimer, Pending, Visiting, stepVars
<1>. HIDE DEF t
<1>4. PICK p \in 1..(n + 1) :
          /\ timers' \in Seq(Timer) /\ Len(timers') = n + 1 /\ timers'[p] = t
          /\ \A i \in 1..(p - 1) : timers'[i] = timers[i] /\ timers[i].left <= d
          /\ \A i \in (p + 1)..(n + 1) : timers'[i] = timers[i - 1] /\ d < timers[i - 1].left
  <2>1. \A i, j \in DOMAIN timers : i < j => timers[i].left <= timers[j].left
    BY DEF TimersInv, TimersSorted
  <2>2. \E p \in 1..(Len(timers) + 1) :
              LET new == SortedInsert(timers, t) IN
              /\ new \in Seq(Timer) /\ Len(new) = Len(timers) + 1 /\ new[p] = t
              /\ \A i \in 1..(p - 1) : new[i] = timers[i] /\ timers[i].left <= t.left
              /\ \A i \in (p + 1)..(Len(timers) + 1) :
                    new[i] = timers[i - 1] /\ t.left < timers[i - 1].left
    BY <1>1, <1>2, <2>1, SortedInsertIs
  <2>. QED
    BY <1>1, <1>3, <2>2
<1>5. DOMAIN timers' = 1..(n + 1)
  BY <1>4, LenProperties
<1>. HIDE DEF n
\* Where a timer was before: the new one is at p.
<1>6. \A i \in 1..(n + 1) :
          \/ i = p
          \/ i < p /\ i \in 1..n /\ timers'[i] = timers[i] /\ timers[i].left <= d
          \/ i > p /\ i - 1 \in 1..n /\ timers'[i] = timers[i - 1] /\ d < timers[i - 1].left
  BY <1>2, <1>4
<1>7. TimersSorted'
  <2>1. ASSUME NEW i \in 1..(n + 1), NEW j \in 1..(n + 1), i < j
        PROVE  timers'[i].left <= timers'[j].left
    <3>1. \A k, l \in 1..n : k < l => timers[k].left <= timers[l].left
      BY <1>2 DEF TimersInv, TimersSorted
    <3>2. CASE i = p
      BY <1>1, <1>2, <1>4, <1>6, <2>1, <3>2
    <3>3. CASE i < p /\ j = p
      BY <1>1, <1>4, <1>6, <3>3
    <3>4. CASE i < p /\ j # p
      <4>1. \/ j \in 1..n /\ timers'[j] = timers[j]
            \/ j - 1 \in 1..n /\ timers'[j] = timers[j - 1] /\ d < timers[j - 1].left
        BY <1>6, <3>4
      <4>2. i \in 1..n /\ timers'[i] = timers[i] /\ timers[i].left <= d
        BY <1>6, <3>4
      <4>. QED
        BY <1>1, <1>2, <2>1, <3>1, <4>1, <4>2
    <3>5. CASE i > p
      <4>1. i - 1 \in 1..n /\ timers'[i] = timers[i - 1]
        BY <1>4, <1>6, <3>5
      <4>2. j - 1 \in 1..n /\ timers'[j] = timers[j - 1] /\ i - 1 < j - 1
        BY <1>4, <1>6, <2>1, <3>5
      <4>. QED
        BY <3>1, <4>1, <4>2
    <3>. QED
      BY <1>4, <3>2, <3>3, <3>4, <3>5
  <2>2. ASSUME NEW i \in 1..(n + 1), NEW j \in 1..(n + 1), timers'[i].id = timers'[j].id
        PROVE  i = j
    <3>1. \A k, l \in 1..n : timers[k].id = timers[l].id => k = l
      BY <1>2 DEF TimersInv, TimersSorted
    <3>2. CASE i = p \/ j = p
      BY <1>1, <1>3, <1>4, <1>6, <2>2, <3>2
    <3>3. CASE i # p /\ j # p
      <4>1. \/ i < p /\ i \in 1..n /\ timers'[i] = timers[i]
            \/ i > p /\ i - 1 \in 1..n /\ timers'[i] = timers[i - 1]
        BY <1>6, <3>3
      <4>2. \/ j < p /\ j \in 1..n /\ timers'[j] = timers[j]
            \/ j > p /\ j - 1 \in 1..n /\ timers'[j] = timers[j - 1]
        BY <1>6, <3>3
      <4>3. \/ i = j \/ i - 1 = j - 1 \/ i = j - 1 \/ i - 1 = j
        BY <2>2, <3>1, <4>1, <4>2
      <4>. QED
        BY <1>4, <2>2, <3>1, <4>1, <4>2, <4>3
    <3>. QED
      BY <3>2, <3>3
  <2>. QED
    BY <1>5, <2>1, <2>2 DEF TimersSorted
<1>8. DueFirst'
  <2>1. SUFFICES ASSUME NEW i \in 1..(n + 1), NEW k \in DOMAIN dueTimers,
                        timers'[i].id = dueTimers[k]
        PROVE  /\ timers'[i].left <= 0
               /\ \A j \in 1..(i - 1) :
                     \E l \in 1..(k - 1) : timers'[j].id = dueTimers[l]
    BY <1>3, <1>5 DEF DueFirst
  <2>2. i # p
    BY <1>1, <1>3, <1>4, <2>1
  <2>3. \A m \in 1..n : timers[m].id = dueTimers[k] =>
            /\ timers[m].left <= 0
            /\ \A j \in 1..(m - 1) :
                  \E l \in 1..(k - 1) : timers[j].id = dueTimers[l]
    <3>1. DueFirst
      BY DEF TimersInv
    <3>2. \A m \in DOMAIN timers : timers[m].id = dueTimers[k] =>
              /\ timers[m].left <= 0
              /\ \A j \in 1..(m - 1) :
                    \E l \in 1..(k - 1) : timers[j].id = dueTimers[l]
      BY <1>3, <3>1 DEF DueFirst
    <3>. QED
      BY <1>2, <3>2
  <2>4. i < p
    <3>1. CASE i > p
      <4>1. i - 1 \in 1..n /\ timers'[i] = timers[i - 1] /\ d < timers[i - 1].left
        BY <1>6, <3>1
      <4>2. timers[i - 1].left <= 0
        BY <2>1, <2>3, <4>1
      <4>. QED
        BY <1>1, <1>2, <4>1, <4>2
    <3>. QED
      BY <1>4, <2>2, <3>1
  <2>5. /\ i \in 1..n /\ timers'[i] = timers[i]
        /\ \A j \in 1..(i - 1) : timers'[j] = timers[j]
    BY <1>4, <1>6, <2>4
  <2>. QED
    BY <2>1, <2>3, <2>5
<1>. QED
  BY <1>7, <1>8

\* A timer is taken out: those that were behind it move up.
LEMMA RemovalKeeps ==
    ASSUME TimersInv, NEW p \in DOMAIN timers, timers' = RemoveAt(timers, p)
    PROVE  /\ TimersSorted'
           /\ dueTimers' = dueTimers => DueFirst'
           /\ \A i \in DOMAIN timers' :
                  \E j \in DOMAIN timers : j # p /\ timers'[i] = timers[j]
           /\ dueTimers # <<>> /\ timers[p].id = Head(dueTimers)
                  /\ dueTimers' = Tail(dueTimers) => DueFirst'
<1>. DEFINE n == Len(timers)
            At(i) == IF i < p THEN i ELSE i + 1
<1>1. /\ n \in Nat /\ DOMAIN timers = 1..n /\ timers \in Seq(Timer) /\ p \in 1..n
      /\ dueTimers \in Seq(TimerIds) /\ Len(dueTimers) \in Nat
      /\ DOMAIN dueTimers = 1..Len(dueTimers)
  BY TimersTyped DEF TimersInv
<1>2. /\ timers' \in Seq(Timer) /\ Len(timers') = n - 1
      /\ \A i \in 1..(p - 1) : timers'[i] = timers[i]
      /\ \A i \in p..(n - 1) : timers'[i] = timers[i + 1]
  BY <1>1, RemoveAtIs
<1>3. DOMAIN timers' = 1..(n - 1)
  BY <1>2, LenProperties
<1>. HIDE DEF n
<1>4. \A i \in 1..(n - 1) : /\ At(i) \in 1..n /\ At(i) # p
                            /\ timers'[i] = timers[At(i)]
  BY <1>1, <1>2
<1>5. \A i, j \in 1..(n - 1) : /\ i < j => At(i) < At(j)
                               /\ At(i) = At(j) => i = j
                               /\ At(i) < At(j) => i < j
  BY <1>1
<1>6. /\ \A i, j \in 1..n : i < j => timers[i].left <= timers[j].left
      /\ \A i, j \in 1..n : timers[i].id = timers[j].id => i = j
      /\ \A i \in 1..n, k \in 1..Len(dueTimers) : timers[i].id = dueTimers[k] =>
             /\ timers[i].left <= 0
             /\ \A j \in 1..(i - 1) : \E l \in 1..(k - 1) : timers[j].id = dueTimers[l]
  <2>1. TimersSorted /\ DueFirst
    BY DEF TimersInv
  <2>2. \A i, j \in 1..n : i < j => timers[i].left <= timers[j].left
    BY <1>1, <2>1 DEF TimersSorted
  <2>3. \A i, j \in 1..n : timers[i].id = timers[j].id => i = j
    BY <1>1, <2>1 DEF TimersSorted
  <2>4. ASSUME NEW i \in 1..n, NEW k \in 1..Len(dueTimers), timers[i].id = dueTimers[k]
        PROVE  /\ timers[i].left <= 0
               /\ \A j \in 1..(i - 1) : \E l \in 1..(k - 1) : timers[j].id = dueTimers[l]
    <3>1. i \in DOMAIN timers /\ k \in DOMAIN dueTimers
      BY <1>1
    <3>. QED
      BY <2>1, <2>4, <3>1, Zenon DEF DueFirst
  <2>5. \A i \in 1..n, k \in 1..Len(dueTimers) : timers[i].id = dueTimers[k] =>
            /\ timers[i].left <= 0
            /\ \A j \in 1..(i - 1) : \E l \in 1..(k - 1) : timers[j].id = dueTimers[l]
    BY <2>4
  <2>. QED
    BY <2>2, <2>3, <2>5
<1>. HIDE DEF At
<1>7. TimersSorted'
  <2>1. \A i, j \in 1..(n - 1) : i < j => timers'[i].left <= timers'[j].left
    BY <1>4, <1>5, <1>6
  <2>2. \A i, j \in 1..(n - 1) : timers'[i].id = timers'[j].id => i = j
    BY <1>4, <1>5, <1>6
  <2>. QED
    BY <1>3, <2>1, <2>2 DEF TimersSorted
<1>8. ASSUME NEW i \in 1..(n - 1), NEW k \in 1..Len(dueTimers),
             timers'[i].id = dueTimers[k]
      PROVE  /\ timers'[i].left <= 0
             /\ \A j \in 1..(i - 1) : /\ timers'[j].id # timers[p].id
                    /\ \E l \in 1..(k - 1) : timers'[j].id = dueTimers[l]
  <2>1. /\ timers[At(i)].left <= 0
        /\ \A j \in 1..(At(i) - 1) : \E l \in 1..(k - 1) : timers[j].id = dueTimers[l]
    BY <1>4, <1>6, <1>8
  <2>2. ASSUME NEW j \in 1..(i - 1)
        PROVE  At(j) \in 1..(At(i) - 1) /\ At(j) # p /\ At(j) \in 1..n
                   /\ timers'[j] = timers[At(j)]
    <3>1. j \in 1..(n - 1) /\ j < i
      BY <1>1
    <3>2. At(j) < At(i) /\ At(j) \in 1..n /\ At(i) \in 1..n
      BY <1>4, <1>5, <3>1
    <3>. QED
      BY <1>1, <1>4, <3>1, <3>2
  <2>3. timers'[i].left <= 0
    BY <1>4, <2>1
  <2>4. ASSUME NEW j \in 1..(i - 1)
        PROVE  /\ timers'[j].id # timers[p].id
               /\ \E l \in 1..(k - 1) : timers'[j].id = dueTimers[l]
    <3>1. timers'[j].id # timers[p].id
      BY <1>1, <1>6, <2>2
    <3>2. \E l \in 1..(k - 1) : timers[At(j)].id = dueTimers[l]
      BY <2>1, <2>2
    <3>. QED
      BY <2>2, <3>1, <3>2
  <2>. QED
    BY <2>3, <2>4
<1>9. ASSUME dueTimers' = dueTimers PROVE DueFirst'
  BY SMTT(30), <1>1, <1>3, <1>8, <1>9 DEF DueFirst
<1>10. ASSUME dueTimers # <<>>, timers[p].id = Head(dueTimers),
              dueTimers' = Tail(dueTimers)
       PROVE  DueFirst'
  <2>1. /\ DOMAIN dueTimers' = 1..(Len(dueTimers) - 1)
        /\ \A k \in 1..(Len(dueTimers) - 1) : dueTimers'[k] = dueTimers[k + 1]
        /\ timers[p].id = dueTimers[1]
    BY <1>1, <1>10
  <2>. DEFINE m == Len(dueTimers) - 1
  <2>a. DOMAIN dueTimers' = 1..m
    BY <2>1
  <2>. HIDE DEF m
  <2>2. SUFFICES ASSUME NEW i \in 1..(n - 1), NEW k \in 1..m, timers'[i].id = dueTimers'[k]
        PROVE  /\ timers'[i].left <= 0
               /\ \A j \in 1..(i - 1) : \E l \in 1..(k - 1) : timers'[j].id = dueTimers'[l]
    BY <1>3, <2>a DEF DueFirst
  <2>3. k + 1 \in 1..Len(dueTimers) /\ timers'[i].id = dueTimers[k + 1]
    BY <1>1, <2>1, <2>2 DEF m
  <2>4. /\ timers'[i].left <= 0
        /\ \A j \in 1..(i - 1) : /\ timers'[j].id # timers[p].id
               /\ \E l \in 1..(k + 1 - 1) : timers'[j].id = dueTimers[l]
    BY <1>8, <2>3
  <2>5. ASSUME NEW j \in 1..(i - 1)
        PROVE  \E l \in 1..(k - 1) : timers'[j].id = dueTimers'[l]
    <3>1. PICK l \in 1..k : timers'[j].id = dueTimers[l]
      BY <2>4
    <3>2. l # 1
      BY <2>1, <2>4, <3>1
    <3>3. l - 1 \in 1..(k - 1) /\ l - 1 \in 1..(Len(dueTimers) - 1) /\ l - 1 + 1 = l
      BY <1>1, <3>2 DEF m
    <3>. QED
      BY <2>1, <3>1, <3>3
  <2>. QED
    BY <2>4, <2>5
<1>11. \A i \in DOMAIN timers' :
           \E j \in DOMAIN timers : j # p /\ timers'[i] = timers[j]
  BY <1>1, <1>3, <1>4
<1>. QED
  BY <1>7, <1>9, <1>10, <1>11

\* The poll: the timers that are due are the front of the list.
LEMMA PollKeeps ==
    ASSUME TimersInv, timers' = timers, dueTimers' = DuePrefix
    PROVE  TimersSorted' /\ DueFirst'
<1>. DEFINE n == Len(timers)
            due == {i \in DOMAIN timers : \A j \in 1..i : timers[j].left <= 0}
            c == Cardinality(due)
<1>1. n \in Nat /\ DOMAIN timers = 1..n
  BY TimersTyped DEF TimersInv
<1>2. due = 1..c /\ c \in 0..n
  <2>1. \A i \in due : \A j \in 1..i : j \in due
    BY <1>1
  <2>2. due \in SUBSET (1..n)
    BY <1>1
  <2>. QED
    BY <1>1, <2>1, <2>2, FrontOfInterval
<1>3. dueTimers' = [i \in 1..c |-> timers[i].id]
  BY DEF DuePrefix
<1>4. \A i \in 1..c : i \in 1..n /\ timers[i].left <= 0
  <2>1. \A i \in due : i \in 1..n /\ timers[i].left <= 0
    BY <1>1
  <2>. QED
    BY <1>2, <2>1
<1>. HIDE DEF n, due, c
<1>5. TimersSorted /\ TimersSorted'
  BY DEF TimersInv, TimersSorted
<1>6. ASSUME NEW i \in 1..n, NEW k \in 1..c, timers[i].id = timers[k].id
      PROVE  /\ timers[i].left <= 0
             /\ \A j \in 1..(i - 1) :
                    \E l \in 1..(k - 1) : timers[j].id = dueTimers'[l]
  <2>1. i = k
    BY <1>1, <1>4, <1>5, <1>6 DEF TimersSorted
  <2>2. timers[i].left <= 0
    BY <1>4, <2>1
  <2>3. ASSUME NEW j \in 1..(i - 1)
        PROVE  \E l \in 1..(k - 1) : timers[j].id = dueTimers'[l]
    <3>1. j \in 1..(k - 1) /\ j \in 1..c
      BY <1>1, <1>2, <2>1
    <3>2. dueTimers'[j] = timers[j].id
      BY <1>3, <3>1
    <3>. QED
      BY <3>1, <3>2
  <2>. QED
    BY <2>2, <2>3
<1>7. DueFirst'
  <2>1. DOMAIN dueTimers' = 1..c /\ \A k \in 1..c : dueTimers'[k] = timers[k].id
    BY <1>3
  <2>. QED
    BY <1>1, <1>6, <2>1 DEF DueFirst
<1>. QED
  BY <1>5, <1>7

\* Time passes for all timers alike.
LEMMA TickKeeps ==
    ASSUME TimersInv, Tick
    PROVE  TimersSorted' /\ DueFirst'
<1>. DEFINE n == Len(timers)
<1>1. /\ n \in Nat /\ DOMAIN timers = 1..n
      /\ \A i \in 1..n : timers[i].left \in Int
  BY TimersTyped DEF TimersInv
<1>2. /\ DOMAIN timers' = 1..n /\ dueTimers' = dueTimers
      /\ \A i \in 1..n : /\ timers'[i].id = timers[i].id
                         /\ timers'[i].left = timers[i].left - 1
  BY <1>1 DEF Tick, stepVars
<1>. HIDE DEF n
<1>3. TimersSorted'
  <2>1. TimersSorted
    BY DEF TimersInv
  <2>2. ASSUME NEW i \in 1..n, NEW j \in 1..n, i < j
        PROVE  timers'[i].left <= timers'[j].left
    <3>1. timers[i].left <= timers[j].left
      BY <1>1, <2>1, <2>2 DEF TimersSorted
    <3>. QED
      BY <1>1, <1>2, <3>1
  <2>3. \A i, j \in 1..n : timers'[i].id = timers'[j].id => i = j
    BY <1>1, <1>2, <2>1 DEF TimersSorted
  <2>. QED
    BY <1>2, <2>2, <2>3 DEF TimersSorted
<1>4. DueFirst'
  <2>1. SUFFICES ASSUME NEW i \in 1..n, NEW k \in DOMAIN dueTimers,
                        timers'[i].id = dueTimers[k]
        PROVE  /\ timers'[i].left <= 0
               /\ \A j \in 1..(i - 1) :
                      \E l \in 1..(k - 1) : timers'[j].id = dueTimers[l]
    BY SMTT(30), <1>2 DEF DueFirst
  <2>2. timers[i].id = dueTimers[k] /\ i \in DOMAIN timers
    BY <1>1, <1>2, <2>1
  <2>3. /\ timers[i].left <= 0
        /\ \A j \in 1..(i - 1) :
               \E l \in 1..(k - 1) : timers[j].id = dueTimers[l]
    BY <2>2, Zenon DEF TimersInv, DueFirst
  <2>4. timers'[i].left <= 0
    BY <1>1, <1>2, <2>3
  <2>5. \A j \in 1..(i - 1) : timers'[j].id = timers[j].id
    BY <1>1, <1>2
  <2>. QED
    BY <2>3, <2>4, <2>5
<1>. QED
  BY <1>3, <1>4

\* A timer of the copy that is not in the list any more: no timer waits for it.
LEMMA SkipTimerKeeps ==
    ASSUME TimersInv, SkipTimer
    PROVE  TimersSorted' /\ DueFirst'
<1>. DEFINE m == Len(dueTimers) - 1
<1>1. /\ dueTimers \in Seq(TimerIds) /\ dueTimers # <<>>
      /\ Len(dueTimers) \in Nat /\ Len(dueTimers) # 0
      /\ DOMAIN dueTimers = 1..Len(dueTimers)
      /\ Len(timers) \in Nat /\ DOMAIN timers = 1..Len(timers)
  <2>1. dueTimers \in Seq(TimerIds) /\ dueTimers # <<>>
    BY DEF TimersInv, TypeOK, SkipTimer
  <2>. QED
    BY <2>1, TimersTyped DEF TimersInv
<1>2. timers' = timers /\ dueTimers' = Tail(dueTimers)
  BY DEF SkipTimer
<1>3. /\ m \in Nat /\ DOMAIN dueTimers' = 1..m
      /\ \A k \in 1..m : dueTimers'[k] = dueTimers[k + 1]
      /\ \A k \in 1..m : k + 1 \in DOMAIN dueTimers
      /\ Head(dueTimers) = dueTimers[1]
  BY <1>1, <1>2
<1>4. \A i \in DOMAIN timers : timers[i].id # dueTimers[1]
  BY <1>3 DEF SkipTimer, Pending
<1>. HIDE DEF m
<1>5. TimersSorted'
  BY <1>2 DEF TimersInv, TimersSorted
<1>6. DueFirst'
  <2>1. SUFFICES ASSUME NEW i \in DOMAIN timers', NEW k \in DOMAIN dueTimers',
                        timers'[i].id = dueTimers'[k]
        PROVE  /\ timers'[i].left <= 0
               /\ \A j \in 1..(i - 1) :
                      \E l \in 1..(k - 1) : timers'[j].id = dueTimers'[l]
    BY Zenon DEF DueFirst
  <2>a. i \in DOMAIN timers /\ k \in 1..m
    BY <1>2, <1>3
  <2>2. timers[i].id = dueTimers[k + 1] /\ k + 1 \in DOMAIN dueTimers
    BY <1>2, <1>3, <2>1, <2>a
  <2>3. /\ timers[i].left <= 0
        /\ \A j \in 1..(i - 1) :
               \E l \in 1..(k + 1 - 1) : timers[j].id = dueTimers[l]
    <3>1. \A q \in DOMAIN dueTimers : timers[i].id = dueTimers[q] =>
              /\ timers[i].left <= 0
              /\ \A j \in 1..(i - 1) :
                     \E l \in 1..(q - 1) : timers[j].id = dueTimers[l]
      BY <2>a, Zenon DEF TimersInv, DueFirst
    <3>. QED
      BY <2>2, <2>a, <3>1
  <2>4. ASSUME NEW j \in 1..(i - 1)
        PROVE  \E l \in 1..(k - 1) : timers[j].id = dueTimers'[l]
    <3>1. PICK l \in 1..k : timers[j].id = dueTimers[l]
      BY <1>3, <2>a, <2>3
    <3>2. l # 1
      BY <1>1, <1>4, <2>a, <3>1
    <3>3. l - 1 \in 1..(k - 1) /\ l - 1 \in 1..m /\ l - 1 + 1 = l
      BY <1>3, <2>a, <3>2
    <3>. QED
      BY <1>3, <3>1, <3>3
  <2>. QED
    BY <1>2, <2>3, <2>4
<1>. QED
  BY <1>5, <1>6

\* Nothing else touches the list or the copy that the step goes over.
LEMMA TimersUntouched ==
    ASSUME [Next]_vars,
           ~(\E id \in TimerIds, d \in 0..MaxDelay : AddTimer(id, d)),
           ~(\E i \in DOMAIN timers : RemoveTimer(i)),
           ~FireTimer, ~SkipTimer, ~Tick,
           ~(\E E \in SUBSET Fds : Poll(E))
    PROVE  timers' = timers /\ dueTimers' = dueTimers
<1>1. CASE ProgramFD
  BY <1>1 DEF ProgramFD, OpenFile, CloseFile, RemoveFD, Cleanup, AddFD,
     SuspendFD, ResumeFD, stepVars
<1>2. CASE ProgramOther
  BY <1>2 DEF ProgramOther, RemoveProcess, ResumeProcess, AddProcess,
     SuspendProcess, request_shutdown, stepVars
<1>3. CASE StepProgress
  BY <1>3 DEF StepProgress, StartLoop, StartLastCallbacks, LastCallback,
     EndLastCallbacks, EndTimers, CallFD, SkipFD, EndRead, EndWrite,
     CallProcess, SkipProcess, EndStep, Return, Shutdown, stepVars
<1>4. CASE Failure
  BY <1>4 DEF Failure, PollInterrupted, PollKilled, RaiseHandled, RaiseFatal,
     stepVars
<1>5. CASE Stopped \/ UNCHANGED vars
  BY <1>5 DEF Stopped, vars, stepVars
<1>. QED
  BY <1>1, <1>2, <1>3, <1>4, <1>5 DEF Next

\* Every step keeps the order of the timers.
LEMMA TimersNext == TimersInv /\ [Next]_vars => TimersInv'
<1>. SUFFICES ASSUME TimersInv, [Next]_vars PROVE TimersInv'
  OBVIOUS
<1>1. TypeOK'
  BY TypeNext DEF TimersInv
<1>2. TimersSorted' /\ DueFirst'
  <2>1. CASE \E id \in TimerIds, d \in 0..MaxDelay : AddTimer(id, d)
    BY <2>1, AddTimerKeeps
  <2>2. CASE \E i \in DOMAIN timers : RemoveTimer(i)
    <3>1. PICK i \in DOMAIN timers : RemoveTimer(i)
      BY <2>2
    <3>2. timers' = RemoveAt(timers, i) /\ dueTimers' = dueTimers
      BY <3>1 DEF RemoveTimer, stepVars
    <3>. QED
      BY <3>2, RemovalKeeps
  <2>3. CASE FireTimer
    <3>1. PICK i \in DOMAIN timers : /\ timers[i].id = Head(dueTimers)
                                     /\ timers' = RemoveAt(timers, i)
      BY <2>3 DEF FireTimer
    <3>2. dueTimers # <<>> /\ dueTimers' = Tail(dueTimers)
      BY <2>3 DEF FireTimer
    <3>. QED
      BY <3>1, <3>2, RemovalKeeps
  <2>4. CASE SkipTimer
    BY <2>4, SkipTimerKeeps
  <2>5. CASE Tick
    BY <2>5, TickKeeps
  <2>6. CASE \E E \in SUBSET Fds : Poll(E)
    <3>1. timers' = timers /\ dueTimers' = DuePrefix
      BY <2>6 DEF Poll
    <3>. QED
      BY <3>1, PollKeeps
  <2>7. CASE timers' = timers /\ dueTimers' = dueTimers
    BY <2>7 DEF TimersInv, TimersSorted, DueFirst
  <2>. QED
    BY <2>1, <2>2, <2>3, <2>4, <2>5, <2>6, <2>7, TimersUntouched
<1>. QED
  BY <1>1, <1>2 DEF TimersInv

\* A timer fires only when it is due and before every timer that is due later,
\* whatever timers the callbacks of the same step add and remove.
THEOREM TimersFireInOrder == Spec => TimersInOrder
<1>. DEFINE A == FireTimer => \E t \in ToSet(timers) :
                    /\ t.id = Head(dueTimers) /\ t.left <= 0
                    /\ \A u \in ToSet(timers) : t.left <= u.left
<1>1. TimersInv => A
  <2>. SUFFICES ASSUME TimersInv, FireTimer
                PROVE  \E t \in ToSet(timers) :
                          /\ t.id = Head(dueTimers) /\ t.left <= 0
                          /\ \A u \in ToSet(timers) : t.left <= u.left
    OBVIOUS
  <2>1. PICK i \in DOMAIN timers : timers[i].id = Head(dueTimers)
    BY DEF FireTimer
  <2>2. /\ DOMAIN timers = 1..Len(timers) /\ Len(timers) \in Nat
        /\ \A j \in 1..Len(timers) : timers[j].left \in Int
    BY TimersTyped DEF TimersInv
  <2>3. 1 \in DOMAIN dueTimers /\ Head(dueTimers) = dueTimers[1]
    <3>1. dueTimers \in Seq(TimerIds) /\ dueTimers # <<>>
      BY DEF TimersInv, TypeOK, FireTimer
    <3>. QED
      BY <3>1
  <2>4. /\ timers[i].left <= 0
        /\ \A j \in 1..(i - 1) : \E l \in 1..(1 - 1) : timers[j].id = dueTimers[l]
    BY <2>1, <2>3, Zenon DEF TimersInv, DueFirst
  <2>5. i = 1
    <3>1. \A j \in 1..(i - 1) : FALSE
      BY <2>4
    <3>2. i - 1 < 1
      BY <2>2, <3>1
    <3>. QED
      BY <2>2, <3>2
  <2>6. \A j \in DOMAIN timers : timers[i].left <= timers[j].left
    BY <2>2, <2>5 DEF TimersInv, TimersSorted
  <2>7. ToSet(timers) = {timers[j] : j \in DOMAIN timers}
    BY DEF ToSet
  <2>. QED
    BY <2>1, <2>4, <2>6, <2>7
<1>2. Init => TimersInv
  <2>1. ASSUME Init PROVE TimersSorted /\ DueFirst
    BY <2>1 DEF Init, TimersSorted, DueFirst
  <2>. QED
    BY <2>1, TypeInit DEF TimersInv
<1>3. Spec => []TimersInv
  BY <1>2, TimersNext, PTL DEF Spec
<1>. QED
  BY <1>1, <1>3, PTL DEF TimersInOrder
=============================================================================
