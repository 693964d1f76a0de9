---------------------------- MODULE MCSocketPool ---------------------------
(* Instances of SocketPool for TLC.                                           *)
EXTENDS SocketPool, TLC

\* Sockets and destinations are interchangeable.
Symmetry == Permutations(Sockets) \cup Permutations(Dests)
=============================================================================
