----------------------------- MODULE MCReactor -----------------------------
(* Instances of Reactor for TLC.                                              *)
EXTENDS Reactor

\* File objects, processes and timers are interchangeable: no operation of the
\* reactor compares them but for equality.
Symmetry == Permutations(Files) \cup Permutations(Procs)
            \cup Permutations(TimerIds)
=============================================================================
