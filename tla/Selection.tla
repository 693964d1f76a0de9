----------------------------- MODULE Selection ----------------------------
(* What is left of a list when Python's remove or a list comprehension has    *)
(* picked some of its positions: the entries there, in the order they had.    *)
(* It is given by the rank of a position, and not by recursion over the list, *)
(* so that it can be reasoned about.                                          *)
EXTENDS Integers, Sequences, FiniteSets

\* The place of position i among the positions I.
Rank(I, i) == Cardinality({j \in I : j <= i})

\* The entries of a list at the positions I.
AtPositions(list, I) ==
    [n \in 1..Cardinality(I) |-> list[CHOOSE i \in I : Rank(I, i) = n]]
=============================================================================
