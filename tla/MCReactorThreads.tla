-------------------------- MODULE MCReactorThreads -------------------------
(* Instances of ReactorThreads for TLC.                                       *)
EXTENDS ReactorThreads

\* The timers of other threads are due before those the loop started with, so
\* that a poll has to be cut short for them.
EarlyDue == [t \in TimerNames |-> IF t \in OwnTimers THEN 2 ELSE 1]
=============================================================================
