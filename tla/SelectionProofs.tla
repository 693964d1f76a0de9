-------------------------- MODULE SelectionProofs -------------------------
(* What the other proofs use of a selection from a list: for any list and any *)
(* of its positions.                                                          *)
EXTENDS Selection, SequenceTheorems, FiniteSetTheorems, TLAPS

\* The entries of list l are those of list k at the positions I, each once and
\* in their order.
Picks(l, k, I) ==
    \E at \in [DOMAIN l -> I] :
        /\ \A n \in DOMAIN l : l[n] = k[at[n]]
        /\ \A m, n \in DOMAIN l : at[m] = at[n] => m = n
        /\ \A m, n \in DOMAIN l : m < n => at[m] < at[n]
        /\ \A i \in I : \E n \in DOMAIN l : at[n] = i

----------------------------------------------------------------------------
\* Positions have different places, in the order of the list.
LEMMA RankGrows ==
    ASSUME NEW I \in SUBSET Int, IsFiniteSet(I), NEW i \in I, NEW j \in I, i < j
    PROVE  Rank(I, i) < Rank(I, j)
<1>. DEFINE A == {k \in I : k <= i}
            B == {k \in I : k <= j}
<1>1. IsFiniteSet(B)
  BY FS_Subset
<1>2. A \subseteq B /\ A # B
  <2>1. \A k \in I : k <= i => k <= j
    OBVIOUS
  <2>2. j \in B /\ j \notin A
    OBVIOUS
  <2>. QED
    BY <2>1, <2>2
<1>3. /\ Cardinality(A) <= Cardinality(B) /\ Cardinality(A) # Cardinality(B)
      /\ IsFiniteSet(A)
  BY <1>1, <1>2, FS_Subset
<1>4. Cardinality(A) \in Nat /\ Cardinality(B) \in Nat
  BY <1>1, <1>3, FS_CardinalityType
<1>. QED
  BY <1>3, <1>4 DEF Rank

\* A place is one of as many as there are positions.
LEMMA RankInRange ==
    ASSUME NEW I \in SUBSET Int, IsFiniteSet(I), NEW i \in I
    PROVE  Rank(I, i) \in 1..Cardinality(I)
<1>. DEFINE A == {k \in I : k <= i}
<1>1. IsFiniteSet(A) /\ Cardinality(A) <= Cardinality(I)
  BY FS_Subset
<1>2. Cardinality(A) \in Nat /\ Cardinality(I) \in Nat
  BY <1>1, FS_CardinalityType
<1>3. Cardinality(A) # 0
  BY <1>1, FS_EmptySet
<1>. QED
  BY <1>1, <1>2, <1>3 DEF Rank

\* So a place tells the position.
LEMMA RankReflects ==
    ASSUME NEW I \in SUBSET Int, IsFiniteSet(I), NEW i \in I, NEW j \in I
    PROVE  /\ Rank(I, i) < Rank(I, j) => i < j
           /\ Rank(I, i) = Rank(I, j) => i = j
<1>1. Rank(I, i) \in Int /\ Rank(I, j) \in Int
  BY RankInRange
<1>2. CASE i < j
  BY <1>1, <1>2, RankGrows
<1>3. CASE j < i
  BY <1>1, <1>3, RankGrows
<1>4. CASE i = j
  BY <1>1, <1>4
<1>. QED
  BY <1>2, <1>3, <1>4

\* Every place is taken: there are as many places as positions.
LEMMA RankOnto ==
    ASSUME NEW I \in SUBSET Int, IsFiniteSet(I), NEW n \in 1..Cardinality(I)
    PROVE  \E i \in I : Rank(I, i) = n
<1>. DEFINE places == 1..Cardinality(I)
            rank == [i \in I |-> Rank(I, i)]
<1>1. Cardinality(I) \in Nat
  BY FS_CardinalityType
<1>2. IsFiniteSet(places) /\ Cardinality(places) = Cardinality(I)
  BY <1>1, FS_Interval
<1>3. rank \in [I -> places]
  BY RankInRange
<1>4. ASSUME NEW i \in I, NEW j \in I, i # j PROVE rank[i] # rank[j]
  <2>1. CASE i < j
    BY <1>1, <1>3, <2>1, RankGrows
  <2>2. CASE j < i
    BY <1>1, <1>3, <2>2, RankGrows
  <2>. QED
    BY <1>4, <2>1, <2>2
<1>5. rank \in Injection(I, places)
  BY <1>3, <1>4 DEF Injection, IsInjective
<1>6. rank \in Surjection(I, places)
  BY <1>2, <1>5, FS_Injection
<1>. QED
  BY <1>6 DEF Surjection

\* A selection is a list of as many entries as there are positions, each the
\* entry at one of them, none twice, none left out, in their order.
LEMMA SelectionIsList ==
    ASSUME NEW S, NEW list \in Seq(S), NEW I \in SUBSET (1..Len(list))
    PROVE  /\ AtPositions(list, I) \in Seq(S)
           /\ Len(AtPositions(list, I)) = Cardinality(I)
           /\ Cardinality(I) \in Nat /\ Cardinality(I) <= Len(list)
           /\ Picks(AtPositions(list, I), list, I)
<1>. DEFINE all == 1..Len(list)
            at == [n \in 1..Cardinality(I) |-> CHOOSE i \in I : Rank(I, i) = n]
<1>1. Len(list) \in Nat /\ \A i \in all : list[i] \in S
  BY LenProperties, ElementOfSeq
<1>2. IsFiniteSet(all) /\ Cardinality(all) = Len(list)
  <2>1. /\ IsFiniteSet(1..Len(list))
        /\ Cardinality(1..Len(list)) =
              IF 1 > Len(list) THEN 0 ELSE Len(list) - 1 + 1
    BY <1>1, FS_Interval
  <2>. QED
    BY <1>1, <2>1
<1>3. IsFiniteSet(I) /\ Cardinality(I) <= Len(list) /\ Cardinality(I) \in Nat
  BY <1>2, FS_Subset, FS_CardinalityType
<1>4. I \in SUBSET Int
  BY <1>1
<1>5. ASSUME NEW n \in 1..Cardinality(I)
      PROVE  at[n] \in I /\ Rank(I, at[n]) = n
  BY <1>3, <1>4, RankOnto
<1>6. at \in [1..Cardinality(I) -> I]
  BY <1>5
<1>7. \A n \in 1..Cardinality(I) : AtPositions(list, I)[n] = list[at[n]]
  BY DEF AtPositions
<1>8. AtPositions(list, I) \in [1..Cardinality(I) -> S]
  BY <1>1, <1>5, <1>7 DEF AtPositions
<1>9. /\ AtPositions(list, I) \in Seq(S)
      /\ Len(AtPositions(list, I)) = Cardinality(I)
  BY <1>3, <1>8, LenProperties, SeqDef
<1>. HIDE DEF at
<1>10. ASSUME NEW m \in 1..Cardinality(I), NEW n \in 1..Cardinality(I), m < n
       PROVE  at[m] < at[n]
  <2>1. /\ at[m] \in I /\ Rank(I, at[m]) = m
        /\ at[n] \in I /\ Rank(I, at[n]) = n
    BY <1>5
  <2>2. Rank(I, at[m]) < Rank(I, at[n])
    BY <1>10, <2>1
  <2>. QED
    BY <1>3, <1>4, <2>1, <2>2, RankReflects
<1>11. ASSUME NEW i \in I PROVE \E n \in 1..Cardinality(I) : at[n] = i
  <2>1. Rank(I, i) \in 1..Cardinality(I)
    BY <1>3, <1>4, RankInRange
  <2>2. at[Rank(I, i)] \in I /\ Rank(I, at[Rank(I, i)]) = Rank(I, i)
    BY <1>5, <2>1
  <2>3. at[Rank(I, i)] = i
    BY <1>3, <1>4, <2>2, RankReflects
  <2>. QED
    BY <2>1, <2>3
<1>12. DOMAIN AtPositions(list, I) = 1..Cardinality(I)
  BY DEF AtPositions
<1>13. \A m, n \in 1..Cardinality(I) : at[m] = at[n] => m = n
  BY <1>5
<1>14. Picks(AtPositions(list, I), list, I)
  <2>. DEFINE l == AtPositions(list, I)
  <2>1. at \in [DOMAIN l -> I]
    BY <1>6, <1>12
  <2>2. \A n \in DOMAIN l : l[n] = list[at[n]]
    BY <1>7, <1>12
  <2>3. \A m, n \in DOMAIN l : at[m] = at[n] => m = n
    BY <1>12, <1>13
  <2>4. \A m, n \in DOMAIN l : m < n => at[m] < at[n]
    BY <1>10, <1>12
  <2>5. \A i \in I : \E n \in DOMAIN l : at[n] = i
    BY <1>11, <1>12
  <2>. HIDE DEF l
  <2>6. Picks(l, list, I)
    BY <2>1, <2>2, <2>3, <2>4, <2>5 DEF Picks
  <2>. QED
    BY <2>6 DEF l
<1>. QED
  BY <1>3, <1>9, <1>14

\* A set of positions that is not empty has a first one.
LEMMA FirstOfSome ==
    ASSUME NEW I \in SUBSET Nat, I # {}
    PROVE  \E m \in I : \A i \in I : m <= i
<1>1. PICK m \in I : \A i \in I : <<i, m>> \notin OpToRel(<, Nat)
  BY WFMin, NatLessThanWellFounded, Zenon
<1>2. \A i \in I : m <= i
  <2>1. OpToRel(<, Nat) = {ss \in Nat \X Nat : ss[1] < ss[2]}
    BY Zenon DEF OpToRel
  <2>2. \A i \in I : ~(i < m)
    BY <1>1, <2>1
  <2>. QED
    BY <2>2
<1>. QED
  BY <1>2

\* Positions that are moved are as many.
LEMMA ShiftedAreAsMany ==
    ASSUME NEW I \in SUBSET Int, IsFiniteSet(I), NEW d \in Int
    PROVE  /\ IsFiniteSet({i + d : i \in I})
           /\ Cardinality({i + d : i \in I}) = Cardinality(I)
<1>. DEFINE J == {i + d : i \in I}
            move == [i \in I |-> i + d]
<1>1. move \in Bijection(I, J)
  <2>1. move \in [I -> J]
    OBVIOUS
  <2>2. \A i, j \in I : move[i] = move[j] => i = j
    OBVIOUS
  <2>3. \A j \in J : \E i \in I : move[i] = j
    OBVIOUS
  <2>. QED
    BY <2>1, <2>2, <2>3 DEF Bijection, Injection, Surjection, IsInjective
<1>. HIDE DEF J, move
<1>2. ExistsBijection(I, J)
  BY <1>1 DEF ExistsBijection
<1>3. IsFiniteSet(J) /\ Cardinality(J) = Cardinality(I)
  BY <1>2, FS_Bijection
<1>. QED
  BY <1>3 DEF J

\* What is selected does not depend on where in a list it is.
LEMMA ShiftedSelection ==
    ASSUME NEW s, NEW t, NEW d \in Int,
           NEW I \in SUBSET Int, NEW J \in SUBSET Int, IsFiniteSet(I),
           \A i \in I : i + d \in J /\ s[i] = t[i + d],
           \A j \in J : j - d \in I
    PROVE  AtPositions(s, I) = AtPositions(t, J)
<1>0. J = {i + d : i \in I}
  <2>1. ASSUME NEW j \in J PROVE \E i \in I : j = i + d
    <3>1. j - d \in I /\ j = j - d + d
      OBVIOUS
    <3>. QED
      BY <3>1
  <2>. QED
    BY <2>1
<1>1. J \in SUBSET Int /\ IsFiniteSet(J) /\ Cardinality(J) = Cardinality(I)
  BY <1>0, ShiftedAreAsMany, Zenon
<1>2. ASSUME NEW i \in I PROVE Rank(J, i + d) = Rank(I, i)
  <2>. DEFINE A == {k \in I : k <= i}
  <2>1. IsFiniteSet(A) /\ A \in SUBSET Int
    BY FS_Subset
  <2>2. {k \in J : k <= i + d} = {k + d : k \in A}
    <3>1. ASSUME NEW j \in J, j <= i + d PROVE j \in {k + d : k \in A}
      <4>1. PICK k \in I : j = k + d
        BY <1>0
      <4>2. k \in A
        BY <3>1, <4>1
      <4>. QED
        BY <4>1, <4>2
    <3>2. ASSUME NEW k \in A PROVE k + d \in J /\ k + d <= i + d
      OBVIOUS
    <3>. QED
      BY <3>1, <3>2
  <2>. HIDE DEF A
  <2>3. Cardinality({k + d : k \in A}) = Cardinality(A)
    BY <2>1, ShiftedAreAsMany
  <2>. QED
    BY <2>2, <2>3 DEF Rank, A
<1>3. ASSUME NEW n \in 1..Cardinality(I)
      PROVE  s[CHOOSE i \in I : Rank(I, i) = n] = t[CHOOSE j \in J : Rank(J, j) = n]
  <2>. DEFINE i == CHOOSE k \in I : Rank(I, k) = n
              j == CHOOSE k \in J : Rank(J, k) = n
  <2>1. i \in I /\ Rank(I, i) = n
    BY RankOnto
  <2>2. i + d \in J /\ Rank(J, i + d) = n
    BY <1>2, <2>1
  <2>3. j \in J /\ Rank(J, j) = n
    BY <2>2
  <2>4. j = i + d
    BY <1>1, <2>2, <2>3, RankReflects
  <2>. QED
    BY <2>1, <2>4
<1>4. AtPositions(s, I) = AtPositions(t, J)
  <2>. DEFINE c == Cardinality(I)
  <2>1. AtPositions(t, J) = [n \in 1..c |-> t[CHOOSE j \in J : Rank(J, j) = n]]
    BY <1>1, Zenon DEF AtPositions
  <2>2. AtPositions(s, I) = [n \in 1..c |-> s[CHOOSE i \in I : Rank(I, i) = n]]
    BY Zenon DEF AtPositions
  <2>. QED
    BY <1>3, <2>1, <2>2, Zenon
<1>. QED
  BY <1>4
=============================================================================
