-------------------------- MODULE ComposeExtProofs -------------------------
(* Theorems about ComposeExt, for any size of the ring and of the stack: what *)
(* compose in C keeps is sound, and until a limit is hit it does what Compose *)
(* does.                                                                      *)
EXTENDS ComposeExt, SequenceTheorems, TLAPS

----------------------------------------------------------------------------
(* The ring as a queue.                                                       *)

\* What a place of the ring may hold when it holds a message.
Messages == Data \cup {None, Result}

Rings == [slots : [Places -> Messages \cup {NULL}], start : Places, end : Places]

\* The places from the start up to the end hold messages, the others nothing.
RingSound(r) ==
    /\ r \in Rings
    /\ \A p \in Places : r.slots[p] # NULL <=> Minus(p, r.start) < Size(r)

\* Places are those of a ring of two or more.
LEMMA PlacesAre ==
    /\ QUEUE_SIZE \in Nat /\ QUEUE_SIZE >= 2
    /\ \A p : p \in Places <=> p \in Nat /\ p < QUEUE_SIZE
BY ComposeExtAssumption DEF Places

\* Going on and back around the ring stays in it, and one undoes the other.
LEMMA Around ==
    ASSUME NEW p \in Places, NEW n \in 0..(QUEUE_SIZE - 1)
    PROVE  /\ Plus(p, n) \in Places /\ Minus(p, n) \in Places
           /\ Minus(Plus(p, n), p) = n
           /\ Plus(Minus(p, n), n) = p
           /\ Minus(p, Minus(p, n)) = n
BY PlacesAre DEF Plus, Minus

\* The distance of two places.
LEMMA Distance ==
    ASSUME NEW p \in Places, NEW q \in Places
    PROVE  Minus(q, p) \in 0..(QUEUE_SIZE - 1) /\ Plus(p, Minus(q, p)) = q
BY PlacesAre DEF Plus, Minus

\* Going back makes a distance longer, as long as it is not all around.
LEMMA DistanceFromBack ==
    ASSUME NEW p \in Places, NEW q \in Places, NEW n \in Nat,
           Minus(q, p) + n <= QUEUE_SIZE - 1
    PROVE  Minus(q, Minus(p, n)) = Minus(q, p) + n
BY PlacesAre DEF Minus

\* Going back and then further on is going on by the difference.
LEMMA OnFromBack ==
    ASSUME NEW p \in Places, NEW n \in Nat, NEW k \in Nat,
           n <= k, k <= QUEUE_SIZE - 1
    PROVE  Plus(Minus(p, n), k) = Plus(p, k - n)
BY PlacesAre DEF Plus, Minus

\* What is not among the places gone back is as much further from there.
LEMMA BeyondBack ==
    ASSUME NEW p \in Places, NEW q \in Places, NEW n \in 0..(QUEUE_SIZE - 1),
           ~(Minus(p, Minus(q, n)) < n)
    PROVE  Minus(p, Minus(q, n)) = Minus(p, q) + n
<1>1. /\ QUEUE_SIZE \in Nat /\ p \in Nat /\ q \in Nat /\ n \in Nat
      /\ p < QUEUE_SIZE /\ q < QUEUE_SIZE /\ n < QUEUE_SIZE
  BY PlacesAre
<1>2. CASE n <= q
  BY <1>1, <1>2 DEF Minus
<1>3. CASE q < n
  BY <1>1, <1>3 DEF Minus
<1>. QED
  BY <1>1, <1>2, <1>3

\* A message is not the empty place.
LEMMA NullIsNone ==
    /\ NULL \notin Messages /\ None \in Messages /\ Result \in Messages
    /\ None \notin Data /\ Result \notin Data /\ None # Result
BY ComposeExtAssumption DEF Messages, Data

\* A ring has at least no room, and at most room for all but one place.
LEMMA SizeIs ==
    ASSUME NEW r \in Rings
    PROVE  /\ Size(r) \in 0..(QUEUE_SIZE - 1) /\ Free(r) \in 0..(QUEUE_SIZE - 1)
           /\ Size(r) + Free(r) = QUEUE_SIZE - 1
           /\ Size(r) = 0 <=> r.start = r.end
<1>1. r.start \in Places /\ r.end \in Places
  BY DEF Rings
<1>2. Size(r) \in 0..(QUEUE_SIZE - 1)
  BY <1>1, Distance DEF Size
<1>3. Size(r) = 0 <=> r.start = r.end
  BY <1>1, PlacesAre DEF Size, Minus
<1>. QED
  BY <1>2, <1>3, PlacesAre DEF Free

\* The messages of a ring are a sequence of messages.
LEMMA OrderIs ==
    ASSUME NEW r, RingSound(r)
    PROVE  /\ Order(r) \in Seq(Messages) /\ Len(Order(r)) = Size(r)
           /\ \A i \in 1..Size(r) : Order(r)[i] = r.slots[Plus(r.start, i - 1)]
<1>1. r \in Rings /\ r.start \in Places
  BY DEF RingSound, Rings
<1>2. Size(r) \in Nat /\ Size(r) <= QUEUE_SIZE - 1
  BY <1>1, SizeIs, PlacesAre
<1>3. ASSUME NEW i \in 1..Size(r)
      PROVE  r.slots[Plus(r.start, i - 1)] \in Messages
  <2>1. i - 1 \in 0..(QUEUE_SIZE - 1) /\ i - 1 < Size(r)
    BY <1>2, PlacesAre
  <2>2. Plus(r.start, i - 1) \in Places /\ Minus(Plus(r.start, i - 1), r.start) = i - 1
    BY <1>1, <2>1, Around
  <2>3. r.slots[Plus(r.start, i - 1)] # NULL
    BY <2>1, <2>2 DEF RingSound
  <2>4. r.slots[Plus(r.start, i - 1)] \in Messages \cup {NULL}
    BY <1>1, <2>2 DEF Rings
  <2>. QED
    BY <2>3, <2>4
<1>4. Order(r) = [i \in 1..Size(r) |-> r.slots[Plus(r.start, i - 1)]]
  BY DEF Order
<1>5. Order(r) \in [1..Size(r) -> Messages]
  BY <1>3, <1>4
<1>6. Order(r) \in Seq(Messages)
  BY <1>2, <1>5, IsASeq
<1>7. Len(Order(r)) = Size(r)
  BY <1>2, <1>5, <1>6, LenProperties
<1>. QED
  BY <1>4, <1>6, <1>7

\* Popping takes the first message.
LEMMA PopIs ==
    ASSUME NEW r, RingSound(r), r.start # r.end
    PROVE  /\ RingSound(Pop(r)) /\ Size(Pop(r)) = Size(r) - 1
           /\ Order(r) # <<>> /\ Head(Order(r)) = r.slots[r.start]
           /\ r.slots[r.start] \in Messages
           /\ Order(Pop(r)) = Tail(Order(r))
<1>. DEFINE q == Pop(r)
<1>1. r \in Rings /\ r.start \in Places /\ r.end \in Places
  BY DEF RingSound, Rings
<1>2. Size(r) \in Nat /\ 1 <= Size(r) /\ Size(r) <= QUEUE_SIZE - 1
  BY <1>1, SizeIs, PlacesAre
<1>3. /\ q.start = Plus(r.start, 1) /\ q.end = r.end
      /\ q.slots = [r.slots EXCEPT ![r.start] = NULL]
      /\ q \in Rings
  <2>1. Plus(r.start, 1) \in Places
    <3>1. 1 \in 0..(QUEUE_SIZE - 1)
      BY PlacesAre
    <3>. QED
      BY <1>1, <3>1, Around
  <2>2. q.start = Plus(r.start, 1) /\ q.end = r.end
    BY <1>1 DEF Pop, Rings
  <2>3. q.slots = [r.slots EXCEPT ![r.start] = NULL]
    BY <1>1 DEF Pop, Rings
  <2>4. q \in Rings
    BY <1>1, <2>1 DEF Pop, Rings
  <2>. QED
    BY <2>2, <2>3, <2>4
<1>4. Size(q) = Size(r) - 1
  BY <1>1, <1>2, <1>3, PlacesAre DEF Size, Plus, Minus
<1>5. ASSUME NEW p \in Places
      PROVE  q.slots[p] # NULL <=> Minus(p, q.start) < Size(q)
  <2>1. CASE p = r.start
    <3>1. Minus(p, q.start) = QUEUE_SIZE - 1
      BY <1>1, <1>3, <2>1, PlacesAre DEF Plus, Minus
    <3>2. q.slots[p] = NULL
      BY <1>1, <1>3, <2>1 DEF Rings
    <3>. QED
      BY <1>2, <1>4, <3>1, <3>2, PlacesAre
  <2>2. CASE p # r.start
    <3>1. Minus(p, q.start) = Minus(p, r.start) - 1
      BY <1>1, <1>3, <2>2, PlacesAre DEF Plus, Minus
    <3>2. q.slots[p] = r.slots[p]
      BY <1>1, <1>3, <2>2 DEF Rings
    <3>3. Minus(p, r.start) \in Nat
      BY <1>1, Distance, PlacesAre
    <3>4. r.slots[p] # NULL <=> Minus(p, r.start) < Size(r)
      BY DEF RingSound
    <3>. QED
      BY <1>2, <1>4, <3>1, <3>2, <3>3, <3>4
  <2>. QED
    BY <2>1, <2>2
<1>6. RingSound(q)
  BY <1>3, <1>5 DEF RingSound
<1>. HIDE DEF q
<1>7. /\ Order(r) \in Seq(Messages) /\ Len(Order(r)) = Size(r)
      /\ \A i \in 1..Size(r) : Order(r)[i] = r.slots[Plus(r.start, i - 1)]
  BY OrderIs
<1>8. Plus(r.start, 0) = r.start
  BY <1>1, PlacesAre DEF Plus
<1>9. /\ Order(r) # <<>> /\ Head(Order(r)) = Order(r)[1]
      /\ Order(r)[1] = r.slots[r.start] /\ Order(r)[1] \in Messages
  BY <1>2, <1>7, <1>8
<1>10. /\ Order(q) \in Seq(Messages) /\ Len(Order(q)) = Size(r) - 1
       /\ \A i \in 1..(Size(r) - 1) : Order(q)[i] = q.slots[Plus(q.start, i - 1)]
  BY <1>4, <1>6, OrderIs
<1>11. ASSUME NEW i \in 1..(Size(r) - 1)
       PROVE  Order(q)[i] = Order(r)[i + 1]
  <2>1. i \in 0..(QUEUE_SIZE - 1) /\ i + 1 \in 1..Size(r)
    BY <1>2, PlacesAre
  <2>2. Plus(q.start, i - 1) = Plus(r.start, i) /\ Plus(r.start, i) # r.start
    BY <1>1, <1>2, <1>3, <2>1, PlacesAre DEF Plus
  <2>3. Plus(r.start, i) \in Places
    BY <1>1, <2>1, Around
  <2>4. q.slots[Plus(r.start, i)] = r.slots[Plus(r.start, i)]
    BY <1>1, <1>3, <2>2, <2>3 DEF Rings
  <2>5. Order(r)[i + 1] = r.slots[Plus(r.start, (i + 1) - 1)] /\ (i + 1) - 1 = i
    BY <1>7, <2>1
  <2>. QED
    BY <1>10, <2>2, <2>4, <2>5
<1>12. /\ Tail(Order(r)) \in Seq(Messages) /\ Len(Tail(Order(r))) = Size(r) - 1
       /\ \A i \in 1..(Size(r) - 1) : Tail(Order(r))[i] = Order(r)[i + 1]
  BY <1>2, <1>7, <1>9
<1>13. Order(q) = Tail(Order(r))
  BY <1>10, <1>11, <1>12, SeqEqual
<1>. QED
  BY <1>4, <1>6, <1>9, <1>13 DEF q

\* An inserted message is the first.
LEMMA InsertIs ==
    ASSUME NEW r, RingSound(r), ~Full(r), NEW m \in Messages
    PROVE  /\ RingSound(Insert(r, m)) /\ Size(Insert(r, m)) = Size(r) + 1
           /\ Order(Insert(r, m)) = <<m>> \o Order(r)
<1>. DEFINE q == Insert(r, m)
<1>1. r \in Rings /\ r.start \in Places /\ r.end \in Places
  BY DEF RingSound, Rings
<1>2. Size(r) \in Nat /\ Size(r) + 1 <= QUEUE_SIZE - 1
  BY <1>1, SizeIs, PlacesAre DEF Full
<1>3. /\ q.start = Minus(r.start, 1) /\ q.end = r.end
      /\ q.slots = [r.slots EXCEPT ![Minus(r.start, 1)] = m]
      /\ q \in Rings /\ q.start \in Places
  <2>1. Minus(r.start, 1) \in Places
    <3>1. 1 \in 0..(QUEUE_SIZE - 1)
      BY PlacesAre
    <3>. QED
      BY <1>1, <3>1, Around
  <2>2. q.start = Minus(r.start, 1) /\ q.end = r.end
    BY <1>1 DEF Insert, Rings
  <2>3. q.slots = [r.slots EXCEPT ![Minus(r.start, 1)] = m]
    BY <1>1 DEF Insert, Rings
  <2>4. q \in Rings
    BY <1>1, <2>1 DEF Insert, Rings
  <2>. QED
    BY <2>1, <2>2, <2>3, <2>4
<1>4. Size(q) = Size(r) + 1
  BY <1>1, <1>2, <1>3, PlacesAre DEF Size, Minus
<1>5. ASSUME NEW p \in Places
      PROVE  q.slots[p] # NULL <=> Minus(p, q.start) < Size(q)
  <2>1. CASE p = q.start
    <3>1. Minus(p, q.start) = 0
      BY <1>3, <2>1, PlacesAre DEF Minus
    <3>2. q.slots[p] = m
      BY <1>1, <1>3, <2>1 DEF Rings
    <3>. QED
      BY <1>2, <1>4, <3>1, <3>2, NullIsNone
  <2>2. CASE p # q.start
    <3>1. Minus(p, q.start) = Minus(p, r.start) + 1
      BY <1>1, <1>3, <2>2, PlacesAre DEF Minus
    <3>2. q.slots[p] = r.slots[p]
      BY <1>1, <1>3, <2>2 DEF Rings
    <3>3. Minus(p, r.start) \in Nat
      BY <1>1, Distance, PlacesAre
    <3>4. r.slots[p] # NULL <=> Minus(p, r.start) < Size(r)
      BY DEF RingSound
    <3>. QED
      BY <1>2, <1>4, <3>1, <3>2, <3>3, <3>4
  <2>. QED
    BY <2>1, <2>2
<1>6. RingSound(q)
  BY <1>3, <1>5 DEF RingSound
<1>. HIDE DEF q
<1>7. /\ Order(r) \in Seq(Messages) /\ Len(Order(r)) = Size(r)
      /\ \A i \in 1..Size(r) : Order(r)[i] = r.slots[Plus(r.start, i - 1)]
  BY OrderIs
<1>8. /\ Order(q) \in Seq(Messages) /\ Len(Order(q)) = Size(r) + 1
      /\ \A i \in 1..(Size(r) + 1) : Order(q)[i] = q.slots[Plus(q.start, i - 1)]
  BY <1>4, <1>6, OrderIs
<1>9. Order(q)[1] = m
  <2>1. Plus(q.start, 0) = q.start
    BY <1>3, PlacesAre DEF Plus
  <2>2. q.slots[q.start] = m
    BY <1>1, <1>3 DEF Rings
  <2>. QED
    BY <1>2, <1>8, <2>1, <2>2
<1>10. ASSUME NEW i \in 2..(Size(r) + 1)
       PROVE  Order(q)[i] = Order(r)[i - 1]
  <2>1. i \in 1..(Size(r) + 1) /\ i - 1 \in 1..Size(r) /\ i - 2 \in 0..(QUEUE_SIZE - 1)
    BY <1>2, PlacesAre
  <2>2. Plus(q.start, i - 1) = Plus(r.start, i - 2) /\ Plus(r.start, i - 2) # q.start
    BY <1>1, <1>2, <1>3, <2>1, PlacesAre DEF Plus, Minus
  <2>3. Plus(r.start, i - 2) \in Places
    BY <1>1, <2>1, Around
  <2>4. q.slots[Plus(r.start, i - 2)] = r.slots[Plus(r.start, i - 2)]
    BY <1>1, <1>3, <2>2, <2>3 DEF Rings
  <2>5. Order(r)[i - 1] = r.slots[Plus(r.start, (i - 1) - 1)] /\ (i - 1) - 1 = i - 2
    BY <1>7, <2>1
  <2>. QED
    BY <1>8, <2>1, <2>2, <2>4, <2>5
<1>11. /\ <<m>> \o Order(r) \in Seq(Messages) /\ Len(<<m>> \o Order(r)) = Size(r) + 1
       /\ (<<m>> \o Order(r))[1] = m
       /\ \A i \in 2..(Size(r) + 1) : (<<m>> \o Order(r))[i] = Order(r)[i - 1]
  BY <1>2, <1>7
<1>12. \A i \in 1..(Size(r) + 1) : i = 1 \/ i \in 2..(Size(r) + 1)
  BY <1>2
<1>13. Order(q) = <<m>> \o Order(r)
  BY <1>8, <1>9, <1>10, <1>11, <1>12, SeqEqual
<1>. QED
  BY <1>4, <1>6, <1>13 DEF q

\* Return values are inserted in their order, in front of what is in the queue,
\* as far as there is room for them.
LEMMA InsertAllIs ==
    ASSUME NEW r, RingSound(r), NEW args \in Seq(Messages)
    PROVE  /\ RingSound(InsertAll(r, args))
           /\ Len(args) <= Free(r) =>
                 /\ Size(InsertAll(r, args)) = Size(r) + Len(args)
                 /\ Order(InsertAll(r, args)) = args \o Order(r)
<1>. DEFINE q == InsertAll(r, args)
            n == IF Len(args) <= Free(r) THEN Len(args) ELSE Free(r)
            first == Minus(r.start, n)
<1>1. r \in Rings /\ r.start \in Places /\ r.end \in Places
  BY DEF RingSound, Rings
<1>2. /\ Size(r) \in Nat /\ Free(r) \in Nat /\ Size(r) + Free(r) = QUEUE_SIZE - 1
      /\ Len(args) \in Nat /\ \A i \in 1..Len(args) : args[i] \in Messages
  BY <1>1, SizeIs, PlacesAre, LenProperties, ElementOfSeq
<1>3. n \in 0..(QUEUE_SIZE - 1) /\ n <= Len(args) /\ Size(r) + n <= QUEUE_SIZE - 1
  BY <1>2, PlacesAre
<1>. HIDE DEF n
<1>4. first \in Places /\ Minus(r.start, first) = n /\ Plus(first, n) = r.start
  BY <1>1, <1>3, Around
<1>5. /\ q.start = first /\ q.end = r.end /\ q \in Rings
      /\ \A p \in Places :
            q.slots[p] = IF Minus(p, first) < n
                         THEN args[(Len(args) - n) + Minus(p, first) + 1]
                         ELSE r.slots[p]
  <2>. DEFINE new == [p \in Places |->
                        IF Minus(p, first) < n
                        THEN args[(Len(args) - n) + Minus(p, first) + 1]
                        ELSE r.slots[p]]
  <2>1. q = [r EXCEPT !.start = first, !.slots = new]
    BY <1>1 DEF InsertAll, n, Rings
  <2>2. ASSUME NEW p \in Places
        PROVE  new[p] \in Messages \cup {NULL}
    <3>1. Minus(p, first) \in Nat
      BY <1>4, Distance, PlacesAre
    <3>2. CASE Minus(p, first) < n
      <4>1. (Len(args) - n) + Minus(p, first) + 1 \in 1..Len(args)
        BY <1>2, <1>3, <3>1, <3>2
      <4>. QED
        BY <1>2, <3>2, <4>1
    <3>3. CASE ~(Minus(p, first) < n)
      BY <1>1, <3>3 DEF Rings
    <3>. QED
      BY <3>2, <3>3
  <2>3. new \in [Places -> Messages \cup {NULL}]
    BY <2>2
  <2>4. \A p \in Places :
            new[p] = IF Minus(p, first) < n
                     THEN args[(Len(args) - n) + Minus(p, first) + 1]
                     ELSE r.slots[p]
    OBVIOUS
  <2>. HIDE DEF new, q, first
  <2>. QED
    BY <1>1, <1>4, <2>1, <2>3, <2>4 DEF Rings
<1>. HIDE DEF q
<1>6. Size(q) = Size(r) + n
  <2>1. Size(q) = Minus(r.end, first) /\ Size(r) = Minus(r.end, r.start)
    BY <1>5 DEF Size
  <2>2. n \in Nat /\ Minus(r.end, r.start) + n <= QUEUE_SIZE - 1
    BY <1>3, <2>1, PlacesAre
  <2>. QED
    BY <1>1, <2>1, <2>2, DistanceFromBack
<1>7. ASSUME NEW p \in Places
      PROVE  q.slots[p] # NULL <=> Minus(p, q.start) < Size(q)
  <2>1. Minus(p, first) \in Nat /\ Minus(p, r.start) \in Nat
    <3>. HIDE DEF first
    <3>1. Minus(p, first) \in 0..(QUEUE_SIZE - 1) /\ Minus(p, r.start) \in 0..(QUEUE_SIZE - 1)
      BY <1>1, <1>4, <1>7, Distance
    <3>. QED
      BY <3>1, PlacesAre
  <2>2. CASE Minus(p, first) < n
    <3>1. (Len(args) - n) + Minus(p, first) + 1 \in 1..Len(args)
      BY <1>2, <1>3, <2>1, <2>2
    <3>2. q.slots[p] \in Messages
      BY <1>2, <1>5, <2>2, <3>1
    <3>3. Minus(p, first) < Size(q)
      <4>1. n \in Nat /\ Size(r) \in Nat
        BY <1>2, <1>3
      <4>. HIDE DEF first
      <4>. QED
        BY <1>6, <2>1, <2>2, <4>1
    <3>. QED
      BY <1>5, <3>2, <3>3, NullIsNone
  <2>3. CASE ~(Minus(p, first) < n)
    <3>1. Minus(p, first) = Minus(p, r.start) + n
      BY <1>1, <1>3, <2>3, BeyondBack DEF first
    <3>2. q.slots[p] = r.slots[p]
      BY <1>5, <2>3
    <3>3. r.slots[p] # NULL <=> Minus(p, r.start) < Size(r)
      BY DEF RingSound
    <3>4. Minus(p, first) < Size(q) <=> Minus(p, r.start) < Size(r)
      BY <1>2, <1>3, <1>6, <2>1, <3>1
    <3>. QED
      BY <1>5, <3>2, <3>3, <3>4
  <2>. QED
    BY <2>2, <2>3
<1>8. RingSound(q)
  BY <1>5, <1>7 DEF RingSound
<1>9. ASSUME Len(args) <= Free(r)
      PROVE  Order(q) = args \o Order(r)
  <2>1. n = Len(args)
    BY <1>9 DEF n
  <2>2. /\ Order(r) \in Seq(Messages) /\ Len(Order(r)) = Size(r)
        /\ \A i \in 1..Size(r) : Order(r)[i] = r.slots[Plus(r.start, i - 1)]
    BY OrderIs
  <2>3. /\ Order(q) \in Seq(Messages) /\ Len(Order(q)) = Size(r) + n
        /\ \A i \in 1..(Size(r) + n) : Order(q)[i] = q.slots[Plus(first, i - 1)]
    BY <1>5, <1>6, <1>8, OrderIs
  <2>4. ASSUME NEW i \in 1..(Size(r) + n)
        PROVE  Order(q)[i] = IF i <= n THEN args[i] ELSE Order(r)[i - n]
    <3>1. i - 1 \in 0..(QUEUE_SIZE - 1) /\ i \in Nat
      BY <1>2, <1>3, PlacesAre
    <3>2. Plus(first, i - 1) \in Places /\ Minus(Plus(first, i - 1), first) = i - 1
      BY <1>4, <3>1, Around
    <3>3. Order(q)[i] = q.slots[Plus(first, i - 1)]
      BY <2>3
    <3>4. CASE i <= n
      <4>1. i - 1 < n /\ (Len(args) - n) + (i - 1) + 1 = i
        BY <1>2, <1>3, <2>1, <3>1, <3>4
      <4>2. q.slots[Plus(first, i - 1)] = args[i]
        BY <1>5, <3>2, <4>1
      <4>. QED
        BY <3>3, <3>4, <4>2
    <3>5. CASE n < i
      <4>1. ~(i - 1 < n) /\ i - n \in 1..Size(r)
        BY <1>2, <1>3, <3>1, <3>5
      <4>2. q.slots[Plus(first, i - 1)] = r.slots[Plus(first, i - 1)]
        BY <1>5, <3>2, <4>1
      <4>3. Plus(first, i - 1) = Plus(r.start, (i - n) - 1)
        <5>1. n \in Nat /\ i - 1 \in Nat /\ n <= i - 1 /\ i - 1 <= QUEUE_SIZE - 1
          BY <1>3, <3>1, <3>5, PlacesAre
        <5>2. Plus(first, i - 1) = Plus(r.start, (i - 1) - n)
          BY <1>1, <5>1, OnFromBack
        <5>3. (i - 1) - n = (i - n) - 1
          BY <5>1, <3>1
        <5>. QED
          BY <5>2, <5>3
      <4>4. Order(r)[i - n] = r.slots[Plus(r.start, (i - n) - 1)]
        BY <2>2, <4>1
      <4>5. ~(i <= n)
        BY <1>3, <3>1, <3>5
      <4>. QED
        BY <3>3, <4>2, <4>3, <4>4, <4>5
    <3>. QED
      BY <1>3, <3>1, <3>4, <3>5
  <2>5. /\ args \o Order(r) \in Seq(Messages) /\ Len(args \o Order(r)) = Size(r) + n
        /\ \A i \in 1..(Size(r) + n) :
              (args \o Order(r))[i] = IF i <= n THEN args[i] ELSE Order(r)[i - n]
    <3>1. /\ args \o Order(r) \in Seq(Messages)
          /\ Len(args \o Order(r)) = Len(args) + Len(Order(r))
          /\ \A i \in 1..(Len(args) + Len(Order(r))) :
                (args \o Order(r))[i] = IF i <= Len(args) THEN args[i]
                                        ELSE Order(r)[i - Len(args)]
      BY <2>2, ConcatProperties
    <3>2. Len(args) + Len(Order(r)) = Size(r) + n
      BY <1>2, <2>1, <2>2
    <3>. QED
      BY <2>1, <3>1, <3>2
  <2>. HIDE DEF first
  <2>. QED
    BY <2>3, <2>4, <2>5, SeqEqual
<1>10. Len(args) <= Free(r) => Size(q) = Size(r) + Len(args)
  BY <1>6 DEF n
<1>. QED
  BY <1>8, <1>9, <1>10 DEF q
----------------------------------------------------------------------------
(* The stack.                                                                 *)

\* What a generator awaits, and the data it has got.
Frames == [awaits : {"start", "value", "data", "call"}, got : Seq(Data)]

\* Every generator but the last is in a call, and one that has not started has
\* got nothing.
StackSound(stack) ==
    /\ stack \in Seq(Frames)
    /\ \A i \in 1..(Len(stack) - 1) : stack[i].awaits = "call"
    /\ \A i \in 1..Len(stack) : stack[i].awaits = "start" => stack[i] = Fresh

\* All but the last of a sequence.
LEMMA FrontIs ==
    ASSUME NEW S, NEW s \in Seq(S), s # <<>>
    PROVE  /\ Len(s) \in Nat \ {0} /\ Front(s) \in Seq(S)
           /\ Len(Front(s)) = Len(s) - 1
           /\ \A i \in 1..(Len(s) - 1) : Front(s)[i] = s[i]
<1>. DEFINE n == Len(s) - 1
<1>1. Len(s) \in Nat \ {0} /\ n \in Nat
  OBVIOUS
<1>2. \A i \in 1..n : s[i] \in S
  BY <1>1
<1>3. \A i \in 1..n : i \in Int /\ 1 + i - 1 = i
  BY <1>1
<1>. HIDE DEF n
<1>4. n \in Int /\ 1 \in Int /\ (IF 1 <= n THEN n - 1 + 1 ELSE 0) = n /\ n - 1 + 1 = n
  BY <1>1
<1>5. /\ SubSeq(s, 1, n) \in Seq(S)
      /\ Len(SubSeq(s, 1, n)) = IF 1 <= n THEN n - 1 + 1 ELSE 0
      /\ \A i \in 1..(n - 1 + 1) : SubSeq(s, 1, n)[i] = s[1 + i - 1]
  BY <1>2, <1>4, SubSeqProperties
<1>. QED
  BY <1>1, <1>3, <1>4, <1>5 DEF Front, n

\* A generator that has ended leaves one that is in a call.
LEMMA FrontSound ==
    ASSUME NEW s, StackSound(s), s # <<>>
    PROVE  /\ StackSound(Front(s)) /\ Len(Front(s)) = Len(s) - 1
           /\ Front(s) # <<>> => Last(Front(s)).awaits = "call"
<1>1. s \in Seq(Frames)
  BY DEF StackSound
<1>2. /\ Len(s) \in Nat \ {0} /\ Front(s) \in Seq(Frames)
      /\ Len(Front(s)) = Len(s) - 1
      /\ \A i \in 1..(Len(s) - 1) : Front(s)[i] = s[i]
  BY <1>1, FrontIs
<1>3. \A i \in 1..(Len(s) - 1) : Front(s)[i].awaits = "call"
  BY <1>2 DEF StackSound
<1>4. StackSound(Front(s))
  BY <1>2, <1>3 DEF StackSound
<1>5. Front(s) # <<>> => Len(s) - 1 \in 1..(Len(s) - 1)
  BY <1>2
<1>. QED
  BY <1>2, <1>3, <1>4, <1>5 DEF Last

\* The last generator of a stack.
LEMMA LastIs ==
    ASSUME NEW s, StackSound(s), s # <<>>
    PROVE  /\ Last(s) \in Frames
           /\ Last(s).awaits = "start" <=> Last(s) = Fresh
<1>1. s \in Seq(Frames) /\ Len(s) \in 1..Len(s)
  BY DEF StackSound
<1>2. s[Len(s)] \in Frames
  BY <1>1, ElementOfSeq
<1>. QED
  BY <1>1, <1>2 DEF StackSound, Last, Fresh

\* A generator that goes on has its place on the stack.
LEMMA BecameSound ==
    ASSUME StackSound(generators), generators # <<>>, NEW gen \in Frames,
           NEW awaits \in {"value", "data", "call"}
    PROVE  /\ StackSound(Became(gen, awaits)) /\ Became(gen, awaits) # <<>>
           /\ Len(Became(gen, awaits)) = Len(generators)
           /\ Last(Became(gen, awaits)).awaits = awaits
           /\ Last(Became(gen, awaits)) # Fresh
<1>. DEFINE frame == [gen EXCEPT !.awaits = awaits]
            top == Front(generators) \o <<frame>>
<1>1. frame \in Frames /\ frame.awaits = awaits
  BY DEF Frames
<1>2. generators \in Seq(Frames)
  BY DEF StackSound
<1>3. /\ Len(generators) \in Nat \ {0} /\ Front(generators) \in Seq(Frames)
      /\ Len(Front(generators)) = Len(generators) - 1
      /\ \A i \in 1..(Len(generators) - 1) : Front(generators)[i] = generators[i]
  BY <1>2, FrontIs
<1>. HIDE DEF frame
<1>4. /\ top \in Seq(Frames) /\ Len(top) = Len(generators) /\ top # <<>>
      /\ top[Len(generators)] = frame
      /\ \A i \in 1..(Len(generators) - 1) : top[i] = Front(generators)[i]
  BY <1>1, <1>3
<1>5. \A i \in 1..(Len(generators) - 1) : top[i].awaits = "call"
  BY <1>3, <1>4 DEF StackSound
<1>6. \A i \in 1..Len(generators) : i = Len(generators) \/ i \in 1..(Len(generators) - 1)
  BY <1>3
<1>7. \A i \in 1..Len(generators) : top[i].awaits # "start"
  BY <1>1, <1>4, <1>5, <1>6
<1>8. StackSound(top)
  BY <1>4, <1>5, <1>7 DEF StackSound
<1>9. Last(top).awaits = awaits
  BY <1>1, <1>4 DEF Last
<1>10. Last(top) # Fresh
  BY <1>9 DEF Fresh
<1>11. Became(gen, awaits) = top
  BY DEF Became, frame
<1>. HIDE DEF top
<1>. QED
  BY <1>4, <1>8, <1>9, <1>10, <1>11

\* A called generator is fresh, on top of one that is in a call.
LEMMA CalledSound ==
    ASSUME StackSound(generators), generators # <<>>, NEW gen \in Frames
    PROVE  LET called == Became(gen, "call") \o <<Fresh>> IN
           /\ StackSound(called) /\ called # <<>> /\ Len(called) = Len(generators) + 1
           /\ Last(called) = Fresh
<1>. DEFINE top == Became(gen, "call")
            called == top \o <<Fresh>>
<1>1. /\ StackSound(top) /\ top # <<>> /\ Len(top) = Len(generators)
      /\ Last(top).awaits = "call"
  BY BecameSound
<1>. HIDE DEF top
<1>2. top \in Seq(Frames) /\ Len(generators) \in Nat \ {0}
  BY <1>1 DEF StackSound
<1>3. Fresh \in Frames
  BY DEF Fresh, Frames
<1>4. /\ called \in Seq(Frames) /\ Len(called) = Len(generators) + 1 /\ called # <<>>
      /\ called[Len(generators) + 1] = Fresh
      /\ \A i \in 1..Len(generators) : called[i] = top[i]
  BY <1>1, <1>2, <1>3
<1>5. \A i \in 1..Len(generators) : top[i].awaits = "call"
  <2>1. \A i \in 1..Len(generators) : i = Len(top) \/ i \in 1..(Len(top) - 1)
    BY <1>1, <1>2
  <2>. QED
    BY <1>1, <2>1 DEF StackSound, Last
<1>6. \A i \in 1..(Len(generators) + 1) :
          i = Len(generators) + 1 \/ i \in 1..Len(generators)
  BY <1>2
<1>7. (Len(generators) + 1) - 1 = Len(generators)
  BY <1>2
<1>8. StackSound(called)
  BY <1>4, <1>5, <1>6, <1>7 DEF StackSound
<1>. QED
  BY <1>4, <1>8 DEF Last, top
----------------------------------------------------------------------------
(* What is kept, whatever the generators and the caller do.                   *)

\* The stack fits, and the ring is sound.
Kept ==
    /\ StackSound(generators) /\ Len(generators) <= allocated /\ sent \in Nat
    /\ allocated \in Nat \ {0} /\ allocated <= MAX_STACK_SIZE
    /\ highest \in Nat /\ highest <= allocated
    /\ RingSound(Ring)

\* There is a message for the generator that runs next; compose has started when
\* it runs, and the exception is raised or thrown before it stops.
Turn ==
    /\ exception \in {"none", "error", "exit"}
    /\ running \in BOOLEAN /\ started \in BOOLEAN /\ stepping \in BOOLEAN
    /\ expect_data \in BOOLEAN /\ paused_on_step \in BOOLEAN
    /\ running => started /\ ~paused_on_step
    /\ ~running => exception = "none"
    /\ running /\ exception = "none" /\ generators # <<>> => start # end
    /\ ~started =>
          generators = <<Fresh>> /\ start = end /\ ~expect_data /\ ~paused_on_step

\* As long as no limit was hit the flags tell what the last generator awaits,
\* and one that has not started is given None.
Straight ==
    /\ ~indicator
    /\ ~running /\ started /\ generators # <<>> =>
          IF paused_on_step THEN Last(generators) = Fresh
          ELSE Last(generators).awaits = IF expect_data THEN "data" ELSE "value"
    /\ running /\ exception = "none" /\ generators # <<>>
          /\ Last(generators).awaits = "start" => slots[start] = None

ExtInv == Kept /\ Turn /\ (strayed \/ Straight)

\* The ring that is set is the ring.
LEMMA RingIsSet ==
    ASSUME NEW r \in Rings, SetRing(r)
    PROVE  Ring' = r /\ start' = r.start /\ end' = r.end /\ slots' = r.slots
BY DEF SetRing, Ring, Rings

\* A write to the top of the stack is at most one place behind the allocation, as
\* the generators are in it.
LEMMA TopIsClose ==
    ASSUME Kept, WritesTop
    PROVE  highest' \in Nat /\ highest' <= allocated
BY DEF Kept, WritesTop, StackSound

\* An insertion that nobody checks: unless there is no room the message is in
\* front, and there is a message in any case.
LEMMA UncheckedIs ==
    ASSUME NEW r, RingSound(r), NEW m \in Messages, InsertUnchecked(r, m)
    PROVE  /\ RingSound(Ring') /\ start' # end' /\ (strayed => strayed')
           /\ ~strayed' => /\ ~indicator' /\ slots'[start'] = m
                           /\ Order(Ring') = <<m>> \o Order(r)
<1>1. r \in Rings
  BY DEF RingSound
<1>2. CASE Full(r)
  <2>1. SetRing(r) /\ strayed'
    BY <1>2 DEF InsertUnchecked
  <2>2. Ring' = r /\ start' = r.start /\ end' = r.end
    BY <1>1, <2>1, RingIsSet
  <2>3. r.start # r.end
    BY <1>1, <1>2, SizeIs, PlacesAre DEF Full
  <2>. QED
    BY <2>1, <2>2, <2>3
<1>3. CASE ~Full(r)
  <2>. DEFINE q == Insert(r, m)
  <2>1. SetRing(q) /\ (strayed' <=> strayed) /\ ~indicator'
    BY <1>3 DEF InsertUnchecked
  <2>2. RingSound(q) /\ Size(q) = Size(r) + 1 /\ Order(q) = <<m>> \o Order(r)
    BY <1>3, InsertIs
  <2>3. q \in Rings
    BY <2>2 DEF RingSound
  <2>4. q.slots[q.start] = m
    <3>1. Minus(r.start, 1) \in Places
      BY <1>1, PlacesAre, Around DEF Rings
    <3>. QED
      BY <1>1, <3>1 DEF Insert, Rings
  <2>. HIDE DEF q
  <2>5. Ring' = q /\ start' = q.start /\ end' = q.end /\ slots' = q.slots
    BY <2>1, <2>3, RingIsSet
  <2>6. q.start # q.end
    BY <1>1, <2>2, <2>3, SizeIs, PlacesAre
  <2>. QED
    BY <2>1, <2>2, <2>4, <2>5, <2>6
<1>. QED
  BY <1>2, <1>3

\* A generator that yields an item goes on, or compose returns it.
LEMMA YieldsItemKeeps ==
    ASSUME ExtInv, running, generators # <<>>, NEW gen \in Frames,
           NEW r, RingSound(r), UNCHANGED <<started, stepping, sent>>,
           NEW isNone \in BOOLEAN, YieldsItem(gen, r, isNone)
    PROVE  ExtInv'
<1>1. StackSound(generators) /\ r \in Rings /\ Kept /\ Turn
  BY DEF ExtInv, Kept, RingSound
<1>2. Ring' = r /\ start' = r.start /\ end' = r.end
  BY <1>1, RingIsSet DEF YieldsItem
<1>3. /\ StackSound(generators') /\ generators' # <<>>
      /\ Len(generators') = Len(generators)
      /\ Last(generators').awaits = IF isNone THEN "data" ELSE "value"
  <2>1. (IF isNone THEN "data" ELSE "value") \in {"value", "data", "call"}
    OBVIOUS
  <2>. QED
    BY <1>1, <2>1, BecameSound DEF YieldsItem
<1>4. Kept'
  BY <1>1, <1>2, <1>3 DEF Kept, YieldsItem
<1>5. ~isNone \/ Size(r) = 0 =>
          running' = FALSE /\ expect_data' = isNone
  BY DEF YieldsItem
<1>6. ~(~isNone \/ Size(r) = 0) =>
          running' = running /\ expect_data' = expect_data /\ start' # end'
  BY <1>1, <1>2, SizeIs DEF YieldsItem
<1>7. /\ exception' = "none" /\ paused_on_step' = paused_on_step
      /\ started' = started /\ stepping' = stepping
      /\ strayed' = strayed /\ indicator' = indicator
  BY DEF YieldsItem, UncheckedNone
<1>8. Turn' /\ (Straight => Straight')
  <2>1. CASE ~isNone \/ Size(r) = 0
    <3>1. running' = FALSE /\ expect_data' = isNone
      BY <1>5, <2>1
    <3>2. expect_data' \in BOOLEAN /\ running' \in BOOLEAN
      BY <3>1, Zenon
    <3>3. Turn'
      BY <1>1, <1>7, <3>1, <3>2 DEF Turn
    <3>4. Straight => Straight'
      BY <1>1, <1>3, <1>7, <3>1 DEF Straight, Turn
    <3>. QED
      BY <3>3, <3>4
  <2>2. CASE ~(~isNone \/ Size(r) = 0)
    <3>1. running' = running /\ expect_data' = expect_data /\ start' # end'
      BY <1>6, <2>2
    <3>2. Turn'
      BY <1>1, <1>3, <1>7, <3>1 DEF Turn
    <3>3. Straight => Straight'
      BY <1>1, <1>3, <1>7, <2>2, <3>1 DEF Straight, Turn
    <3>. QED
      BY <3>2, <3>3
  <2>. QED
    BY <2>1, <2>2
<1>. QED
  BY <1>4, <1>7, <1>8 DEF ExtInv

\* A generator that calls one: there is room for it on the stack.
LEMMA CallsKeeps ==
    ASSUME ExtInv, running, generators # <<>>, NEW gen \in Frames,
           NEW r, RingSound(r), UNCHANGED <<started, stepping, sent>>, Calls(gen, r)
    PROVE  ExtInv'
<1>1. StackSound(generators) /\ r \in Rings /\ Kept /\ Turn
  BY DEF ExtInv, Kept, RingSound
<1>2. /\ StackSound(generators') /\ generators' # <<>>
      /\ Len(generators') = Len(generators) + 1 /\ Last(generators') = Fresh
  BY <1>1, CalledSound DEF Calls
<1>3. allocated' \in Nat \ {0} /\ Len(generators') <= allocated' /\ allocated' <= MAX_STACK_SIZE
  <2>1. Len(generators) \in Nat /\ MAX_STACK_SIZE \in Nat
    BY <1>1, ComposeExtAssumption DEF StackSound
  <2>2. allocated' = Grown /\ Room
    BY DEF Calls
  <2>3. allocated \in Nat \ {0} /\ Len(generators) <= allocated /\ allocated <= MAX_STACK_SIZE
    BY <1>1 DEF Kept
  <2>. QED
    BY <1>2, <2>1, <2>2, <2>3 DEF Grown, Room
<1>6. highest' \in Nat /\ highest' <= allocated'
  <2>1. Len(generators) \in Nat /\ MAX_STACK_SIZE \in Nat
    BY <1>1, ComposeExtAssumption DEF StackSound
  <2>2. allocated' = Grown /\ Room /\ WritesTop
    BY DEF Calls
  <2>3. allocated \in Nat \ {0} /\ allocated <= MAX_STACK_SIZE
    BY <1>1 DEF Kept
  <2>4. allocated <= allocated'
    BY <2>1, <2>2, <2>3 DEF Grown, Room
  <2>5. highest' \in Nat /\ highest' <= allocated
    BY <1>1, <2>2, TopIsClose
  <2>. QED
    BY <1>3, <2>3, <2>4, <2>5
<1>4. CASE stepping
  <2>1. SetRing(r) /\ running' = FALSE /\ paused_on_step' = TRUE
    BY <1>4 DEF Calls
  <2>2. Ring' = r
    BY <1>1, <2>1, RingIsSet
  <2>3. /\ exception' = "none" /\ expect_data' = expect_data
        /\ strayed' = strayed /\ indicator' = indicator
    BY <1>4 DEF Calls, UncheckedNone
  <2>4. Kept'
    BY <1>1, <1>2, <1>3, <1>6, <2>2 DEF Kept
  <2>5. Turn'
    BY <1>1, <2>1, <2>3 DEF Turn
  <2>6. Straight => Straight'
    BY <1>2, <2>1, <2>3 DEF Straight
  <2>. QED
    BY <2>3, <2>4, <2>5, <2>6 DEF ExtInv
<1>5. CASE ~stepping
  <2>1. /\ InsertUnchecked(r, None) /\ running' = running /\ paused_on_step' = paused_on_step
        /\ exception' = "none" /\ expect_data' = expect_data
    BY <1>5 DEF Calls
  <2>2. /\ RingSound(Ring') /\ start' # end' /\ (strayed => strayed')
        /\ ~strayed' => ~indicator' /\ slots'[start'] = None
    BY <2>1, NullIsNone, UncheckedIs
  <2>3. Kept'
    BY <1>1, <1>2, <1>3, <1>6, <2>2 DEF Kept
  <2>4. Turn'
    BY <1>1, <2>1, <2>2 DEF Turn
  <2>5. ~strayed' => Straight'
    BY <1>1, <1>2, <2>1, <2>2 DEF Straight
  <2>. QED
    BY <2>3, <2>4, <2>5 DEF ExtInv
<1>. QED
  BY <1>4, <1>5

\* A call that is refused: the stack stays, and the generator that called has an
\* exception, or the caller of compose has.
LEMMA RefusedKeeps ==
    ASSUME ExtInv, running, generators # <<>>, NEW gen \in Frames,
           NEW r, RingSound(r), UNCHANGED <<started, stepping, sent>>,
           CallsTooDeep(gen, r) \/ CallsUsed(gen, r)
    PROVE  ExtInv'
<1>1. StackSound(generators) /\ r \in Rings /\ Kept /\ Turn
  BY DEF ExtInv, Kept, RingSound
<1>2. /\ generators' = Became(gen, "call") /\ SetRing(r) /\ allocated' = allocated
      /\ highest' = highest
  BY DEF CallsTooDeep, CallsUsed
<1>3. /\ StackSound(generators') /\ generators' # <<>>
      /\ Len(generators') = Len(generators) /\ Last(generators').awaits = "call"
  BY <1>1, <1>2, BecameSound
<1>4. Ring' = r
  BY <1>1, <1>2, RingIsSet
<1>5. Kept'
  BY <1>1, <1>2, <1>3, <1>4 DEF Kept
<1>6. Turn'
  <2>1. CASE CallsTooDeep(gen, r)
    BY <1>1, <1>3, <2>1 DEF Turn, CallsTooDeep
  <2>2. CASE CallsUsed(gen, r)
    BY <1>1, <1>3, <2>2 DEF Turn, CallsUsed
  <2>. QED
    BY <2>1, <2>2
<1>7. strayed' \/ Straight'
  BY <1>1, <1>3 DEF ExtInv, Straight, CallsTooDeep, CallsUsed, UncheckedNone
<1>. QED
  BY <1>5, <1>6, <1>7 DEF ExtInv

\* What a generator returns is a sequence of messages, in front a result.
LEMMA ReturnedIs ==
    ASSUME NEW gen \in Frames, NEW i \in 1..(Len(gen.got) + 1)
    PROVE  LET args == <<Result>> \o SubSeq(gen.got, i, Len(gen.got)) IN
           args \in Seq(Messages) /\ Len(args) >= 1 /\ args # <<>>
<1>. DEFINE rest == SubSeq(gen.got, i, Len(gen.got))
<1>1. gen.got \in Seq(Data) /\ Len(gen.got) \in Nat
  BY DEF Frames
<1>2. \A k \in i..Len(gen.got) : gen.got[k] \in Data
  BY <1>1
<1>3. i \in Int /\ Len(gen.got) \in Int
  BY <1>1
<1>4. rest \in Seq(Data)
  BY <1>2, <1>3, SubSeqProperties
<1>5. rest \in Seq(Messages)
  BY <1>4 DEF Messages
<1>. HIDE DEF rest
<1>. QED
  BY <1>5, NullIsNone DEF rest

\* A generator that returns leaves a message for the one that called it.
LEMMA ReturnsKeeps ==
    ASSUME ExtInv, running, generators # <<>>, NEW gen \in Frames,
           NEW r, RingSound(r), UNCHANGED <<started, stepping, sent>>, Returns(gen, r)
    PROVE  ExtInv'
<1>1. StackSound(generators) /\ r \in Rings /\ Kept /\ Turn
  BY DEF ExtInv, Kept, RingSound
<1>2. /\ generators' = Front(generators) /\ allocated' = allocated /\ running' = running
      /\ expect_data' = expect_data /\ paused_on_step' = paused_on_step /\ WritesTop
  BY DEF Returns, Pops
<1>3. /\ StackSound(generators') /\ Len(generators') = Len(generators) - 1
      /\ generators' # <<>> => Last(generators').awaits = "call"
  BY <1>1, <1>2, FrontSound
<1>4. Len(generators) \in Nat \ {0} /\ (generators' # <<>> => Len(generators) > 1)
  BY <1>1, <1>3 DEF StackSound
<1>5. /\ RingSound(Ring') /\ exception' \in {"none", "error"} /\ (strayed => strayed')
      /\ exception' = "none" /\ generators' # <<>> => start' # end'
      /\ Straight => strayed' \/ ~indicator'
  <2>1. ASSUME exception' = "none",
               IF Len(generators) > 1 THEN InsertUnchecked(r, None)
               ELSE SetRing(r) /\ UncheckedNone
        PROVE  <1>5
    <3>1. CASE Len(generators) > 1
      BY <2>1, <3>1, NullIsNone, UncheckedIs
    <3>2. CASE ~(Len(generators) > 1)
      <4>1. Ring' = r /\ strayed' = strayed /\ indicator' = indicator
        BY <1>1, <2>1, <3>2, RingIsSet DEF UncheckedNone
      <4>. QED
        BY <1>4, <2>1, <3>2, <4>1 DEF Straight
    <3>. QED
      BY <3>1, <3>2
  <2>2. ASSUME NEW i \in 1..(Len(gen.got) + 1),
               LET args == <<Result>> \o SubSeq(gen.got, i, Len(gen.got))
                   all == Len(args) <= Free(r)
               IN  /\ SetRing(InsertAll(r, args))
                   /\ exception' = IF all THEN "none" ELSE "error"
                   /\ strayed' = (strayed \/ ~all)
                   /\ UNCHANGED indicator
        PROVE  <1>5
    <3>. DEFINE args == <<Result>> \o SubSeq(gen.got, i, Len(gen.got))
                q == InsertAll(r, args)
    <3>1. args \in Seq(Messages) /\ Len(args) >= 1
      BY ReturnedIs
    <3>2. /\ SetRing(q) /\ (strayed => strayed') /\ indicator' = indicator
          /\ exception' = IF Len(args) <= Free(r) THEN "none" ELSE "error"
      BY <2>2
    <3>. HIDE DEF args
    <3>3. RingSound(q) /\ (Len(args) <= Free(r) => Size(q) = Size(r) + Len(args))
      BY <3>1, InsertAllIs
    <3>4. q \in Rings
      BY <3>3 DEF RingSound
    <3>. HIDE DEF q
    <3>5. Ring' = q /\ start' = q.start /\ end' = q.end
      BY <3>2, <3>4, RingIsSet
    <3>6. Len(args) <= Free(r) => q.start # q.end
      <4>1. Len(args) \in Nat /\ Size(r) \in Nat /\ (Size(q) = 0 <=> q.start = q.end)
        BY <1>1, <3>1, <3>4, SizeIs, PlacesAre
      <4>. QED
        BY <3>1, <3>3, <4>1
    <3>. QED
      BY <3>2, <3>3, <3>5, <3>6 DEF Straight
  <2>. QED
    BY <2>1, <2>2 DEF Returns
<1>6. Kept'
  <2>1. Len(generators') <= allocated
    BY <1>1, <1>3, <1>4 DEF Kept
  <2>2. highest' \in Nat /\ highest' <= allocated
    BY <1>1, <1>2, TopIsClose
  <2>. QED
    BY <1>1, <1>2, <1>3, <1>5, <2>1, <2>2 DEF Kept
<1>7. Turn'
  BY <1>1, <1>2, <1>5 DEF Turn
<1>8. Straight => strayed' \/ Straight'
  BY <1>1, <1>2, <1>3, <1>5 DEF Straight
<1>. QED
  BY <1>5, <1>6, <1>7, <1>8 DEF ExtInv

\* A generator that raises leaves its exception to the next one.
LEMMA RaisesKeeps ==
    ASSUME ExtInv, running, generators # <<>>, NEW gen,
           NEW r, RingSound(r), UNCHANGED <<started, stepping, sent>>,
           NEW raised \in {"error", "exit"}, Raises(gen, r, raised)
    PROVE  ExtInv'
<1>1. StackSound(generators) /\ r \in Rings /\ Kept /\ Turn
  BY DEF ExtInv, Kept, RingSound
<1>2. /\ StackSound(generators') /\ Len(generators') = Len(generators) - 1
      /\ Len(generators) \in Nat
      /\ highest' \in Nat /\ highest' <= allocated
  BY <1>1, FrontSound, TopIsClose DEF Raises, Pops, StackSound
<1>3. Ring' = r
  BY <1>1, RingIsSet DEF Raises
<1>4. Kept'
  BY <1>1, <1>2, <1>3 DEF Kept, Raises
<1>5. Turn'
  BY <1>1 DEF Turn, Raises
<1>6. strayed' \/ Straight'
  BY <1>1, <1>5 DEF ExtInv, Straight, Raises
<1>. QED
  BY <1>4, <1>5, <1>6 DEF ExtInv
----------------------------------------------------------------------------
(* The steps.                                                                 *)

\* Whatever a generator does when it runs.
LEMMA RunsKeeps ==
    ASSUME ExtInv, running, generators # <<>>, NEW gen \in Frames,
           NEW r, RingSound(r), UNCHANGED <<started, stepping, sent>>, Runs(gen, r)
    PROVE  ExtInv'
<1>1. CASE \E isNone \in BOOLEAN : YieldsItem(gen, r, isNone)
  BY <1>1, YieldsItemKeeps
<1>2. CASE Calls(gen, r)
  BY <1>2, CallsKeeps
<1>3. CASE CallsTooDeep(gen, r) \/ CallsUsed(gen, r)
  BY <1>3, RefusedKeeps
<1>4. CASE Returns(gen, r)
  BY <1>4, ReturnsKeeps
<1>5. CASE \E raised \in {"error", "exit"} : Raises(gen, r, raised)
  BY <1>5, RaisesKeeps
<1>. QED
  BY <1>1, <1>2, <1>3, <1>4, <1>5 DEF Runs

\* The message that a generator gets, and what it has then.
LEMMA MessageIs ==
    ASSUME ExtInv, running, exception = "none", generators # <<>>
    PROVE  /\ RingSound(Pop(Ring)) /\ Order(Ring) # <<>>
           /\ slots[start] \in Messages /\ Head(Order(Ring)) = slots[start]
           /\ Order(Pop(Ring)) = Tail(Order(Ring))
           /\ Last(generators) \in Frames
           /\ slots[start] \in Data =>
                 [Last(generators) EXCEPT !.got = Append(@, slots[start])] \in Frames
<1>1. RingSound(Ring) /\ Ring.start # Ring.end /\ StackSound(generators)
  BY DEF ExtInv, Kept, Turn, Ring
<1>2. Ring.slots[Ring.start] = slots[start]
  BY DEF Ring
<1>3. Last(generators) \in Frames
  BY <1>1, LastIs
<1>4. slots[start] \in Data =>
          [Last(generators) EXCEPT !.got = Append(@, slots[start])] \in Frames
  BY <1>3 DEF Frames
<1>. QED
  BY <1>1, <1>2, <1>3, <1>4, PopIs

\* The loop.
LEMMA LoopKeeps ==
    ASSUME ExtInv, Send \/ Throw \/ Close \/ Finish
    PROVE  ExtInv'
<1>1. CASE Send
  <2>1. running /\ generators # <<>> /\ exception = "none" /\ UNCHANGED <<started, stepping, sent>>
    BY <1>1 DEF Send, Running
  <2>. DEFINE gen == IF slots[start] \in Data
                     THEN [Last(generators) EXCEPT !.got = Append(@, slots[start])]
                     ELSE Last(generators)
  <2>2. RingSound(Pop(Ring)) /\ gen \in Frames
    BY <2>1, MessageIs
  <2>3. \/ \E raised \in {"error", "exit"} : Raises(gen, Pop(Ring), raised)
        \/ Runs(gen, Pop(Ring))
    BY <1>1 DEF Send
  <2>. HIDE DEF gen
  <2>. QED
    BY <2>1, <2>2, <2>3, RunsKeeps, RaisesKeeps
<1>2. CASE Throw
  <2>1. running /\ generators # <<>> /\ UNCHANGED <<started, stepping, sent>>
    BY <1>2 DEF Throw, Running
  <2>2. RingSound(Ring) /\ Last(generators) \in Frames
    BY <2>1, LastIs DEF ExtInv, Kept
  <2>3. Raises(Last(generators), Ring, "error") \/ Runs(Last(generators), Ring)
    BY <1>2 DEF Throw
  <2>. QED
    BY <2>1, <2>2, <2>3, RunsKeeps, RaisesKeeps
<1>3. CASE Close
  <2>1. running /\ generators # <<>> /\ UNCHANGED <<started, stepping, sent>>
    BY <1>3 DEF Close, Running
  <2>2. RingSound(Ring)
    BY DEF ExtInv, Kept
  <2>3. \E raised \in {"error", "exit"} : Raises(Last(generators), Ring, raised)
    BY <1>3 DEF Close
  <2>. QED
    BY <2>1, <2>2, <2>3, RaisesKeeps
<1>4. CASE Finish
  <2>1. /\ running /\ generators = <<>> /\ generators' = generators
        /\ running' = FALSE /\ exception' = "none"
        /\ UNCHANGED <<allocated, flags, indicator, strayed, highest, sent>>
    BY <1>4 DEF Finish
  <2>2. RingSound(Ring) /\ Ring \in Rings
    BY DEF ExtInv, Kept, RingSound
  <2>3. RingSound(Ring')
    <3>1. CASE exception = "none"
      <4>1. slots' = [p \in Places |-> NULL] /\ start' = end /\ end' = end
        BY <1>4, <3>1 DEF Finish
      <4>2. end \in Places
        BY <2>2 DEF Rings, Ring
      <4>3. Ring' \in Rings
        BY <4>1, <4>2 DEF Rings, Ring
      <4>4. Size(Ring') = 0
        BY <4>1, <4>2, PlacesAre DEF Size, Minus, Ring
      <4>5. \A p \in Places : Minus(p, Ring'.start) \in Nat
        BY <4>1, <4>2, Distance, PlacesAre DEF Ring
      <4>6. \A p \in Places : Ring'.slots[p] = NULL
        BY <4>1 DEF Ring
      <4>. QED
        BY <4>3, <4>4, <4>5, <4>6 DEF RingSound
    <3>2. CASE exception # "none"
      <4>1. Ring' = Ring
        BY <1>4, <3>2 DEF Finish, ring, Ring
      <4>. QED
        BY <2>2, <4>1
    <3>. QED
      BY <3>1, <3>2
  <2>4. Kept'
    BY <2>1, <2>3 DEF ExtInv, Kept
  <2>5. Turn'
    <3>1. running' \in BOOLEAN
      BY <2>1, Zenon
    <3>. QED
      BY <2>1, <3>1 DEF ExtInv, Turn, flags
  <2>6. strayed' \/ Straight'
    BY <2>1 DEF ExtInv, Straight, flags
  <2>. QED
    BY <2>4, <2>5, <2>6 DEF ExtInv
<1>. QED
  BY <1>1, <1>2, <1>3, <1>4

\* The caller of compose.
LEMMA CallerKeeps ==
    ASSUME ExtInv, SendNone \/ SendData \/ ThrowIn
    PROVE  ExtInv'
<1>1. /\ ~running /\ generators # <<>> /\ running' = TRUE /\ started' = TRUE
      /\ paused_on_step' = FALSE /\ expect_data' = expect_data /\ stepping' = stepping
      /\ generators' = generators /\ allocated' = allocated /\ highest' = highest
  BY DEF SendNone, SendData, ThrowIn, Entered
<1>2. running' \in BOOLEAN /\ started' \in BOOLEAN /\ paused_on_step' \in BOOLEAN
  BY <1>1, Zenon
<1>3. Kept /\ Turn /\ RingSound(Ring) /\ exception = "none"
  BY <1>1 DEF ExtInv, Kept, Turn
<1>4. ASSUME NEW m \in Messages, InsertUnchecked(Ring, m), UNCHANGED exception,
             sent' \in Nat,
             strayed \/ Last(generators).awaits # "start" \/ m = None
      PROVE  ExtInv'
  <2>1. /\ RingSound(Ring') /\ start' # end' /\ (strayed => strayed')
        /\ ~strayed' => ~indicator' /\ slots'[start'] = m
    BY <1>3, <1>4, UncheckedIs
  <2>2. Kept'
    BY <1>1, <1>3, <1>4, <2>1 DEF Kept
  <2>3. Turn'
    BY <1>1, <1>2, <1>3, <1>4, <2>1 DEF Turn
  <2>4. strayed' \/ Straight'
    BY <1>1, <1>4, <2>1 DEF Straight
  <2>. QED
    BY <2>2, <2>3, <2>4 DEF ExtInv
<1>5. ASSUME exception' \in {"error", "exit"}, UNCHANGED <<ring, indicator, sent>>,
             strayed => strayed'
      PROVE  ExtInv'
  <2>1. Ring' = Ring /\ indicator' = indicator
    BY <1>5 DEF Ring, ring
  <2>2. Kept'
    BY <1>1, <1>3, <1>5, <2>1 DEF Kept
  <2>3. Turn'
    BY <1>1, <1>2, <1>3, <1>5 DEF Turn
  <2>4. strayed' \/ Straight'
    BY <1>1, <1>5, <2>1 DEF ExtInv, Straight
  <2>. QED
    BY <2>2, <2>3, <2>4 DEF ExtInv
<1>6. CASE SendNone
  BY <1>3, <1>4, <1>6, NullIsNone DEF SendNone, Kept
<1>7. CASE SendData
  <2>1. CASE /\ ~paused_on_step /\ expect_data /\ InsertUnchecked(Ring, sent + 1)
             /\ UNCHANGED exception /\ sent' = sent + 1
    <3>1. strayed \/ Last(generators).awaits # "start"
      BY <1>1, <1>3, <2>1 DEF ExtInv, Straight, Turn
    <3>2. sent + 1 \in Messages /\ sent' \in Nat
      BY <1>3, <2>1 DEF Kept, Messages, Data
    <3>. QED
      BY <1>4, <2>1, <3>1, <3>2
  <2>2. CASE /\ exception' = "error" /\ strayed' = (strayed \/ ~started)
             /\ UNCHANGED <<ring, indicator, sent>>
    BY <1>5, <2>2
  <2>. QED
    BY <1>7, <2>1, <2>2 DEF SendData
<1>8. CASE ThrowIn
  BY <1>5, <1>8 DEF ThrowIn
<1>. QED
  BY <1>6, <1>7, <1>8
\* A compose that has not started.
LEMMA ExtStart == Init => ExtInv
<1>. SUFFICES ASSUME Init PROVE ExtInv
  OBVIOUS
<1>1. /\ generators = <<Fresh>> /\ allocated = INITIAL_STACK_SIZE
      /\ slots = [p \in Places |-> NULL] /\ start = 0 /\ end = 0
      /\ exception = "none" /\ running = FALSE /\ started = FALSE
      /\ expect_data = FALSE /\ paused_on_step = FALSE /\ stepping \in BOOLEAN
      /\ indicator = FALSE /\ sent = 0 /\ highest = 0
  BY DEF Init
<1>2. StackSound(generators) /\ Len(generators) = 1
  <2>1. Fresh \in Frames
    BY DEF Fresh, Frames
  <2>2. generators \in Seq(Frames) /\ Len(generators) = 1 /\ generators[1] = Fresh
    BY <1>1, <2>1
  <2>. QED
    BY <2>2 DEF StackSound
<1>3. RingSound(Ring)
  <2>1. 0 \in Places
    BY PlacesAre
  <2>2. Ring \in Rings
    BY <1>1, <2>1 DEF Ring, Rings
  <2>3. Size(Ring) = 0
    BY <1>1 DEF Ring, Size, Minus
  <2>4. \A p \in Places : Minus(p, Ring.start) \in Nat /\ Ring.slots[p] = NULL
    BY <1>1, <2>1, Distance, PlacesAre DEF Ring
  <2>. QED
    BY <2>2, <2>3, <2>4 DEF RingSound
<1>4. Kept
  BY <1>1, <1>2, <1>3, ComposeExtAssumption DEF Kept
<1>5. running \in BOOLEAN /\ started \in BOOLEAN /\ expect_data \in BOOLEAN
      /\ paused_on_step \in BOOLEAN
  BY <1>1, Zenon
<1>6. Turn
  BY <1>1, <1>5 DEF Turn
<1>7. Straight
  BY <1>1 DEF Straight
<1>. QED
  BY <1>4, <1>6, <1>7 DEF ExtInv

\* All that is said of the ring, the stack and the flags always holds.
LEMMA ExtStep == ExtInv /\ [Next]_vars => ExtInv'
<1>. SUFFICES ASSUME ExtInv, [Next]_vars PROVE ExtInv'
  OBVIOUS
<1>1. CASE Send \/ Throw \/ Close \/ Finish
  BY <1>1, LoopKeeps
<1>2. CASE SendNone \/ SendData \/ ThrowIn
  BY <1>2, CallerKeeps
<1>3. CASE UNCHANGED vars
  BY <1>3 DEF vars, ring, flags, ExtInv, Kept, Turn, Straight, Ring
<1>. QED
  BY <1>1, <1>2, <1>3 DEF Next

\* What is kept, in every state.
LEMMA ExtAlways == Spec => []ExtInv
BY ExtStart, ExtStep, PTL DEF Spec

\* For any size of the ring and any limit of the stack: the places of the ring
\* from the start to the end hold messages and the others nothing, one is always
\* free, nothing is popped from an empty queue, and the stack fits in what is
\* allocated for it: also when a limit is hit and an insertion ignored.
THEOREM StorageInBounds == Spec => []StorageBounds
<1>1. ExtInv => StorageBounds
  <2>. SUFFICES ASSUME ExtInv PROVE StorageBounds
    OBVIOUS
  <2>1. RingSound(Ring) /\ Ring \in Rings
    BY DEF ExtInv, Kept, RingSound
  <2>2. start \in Places /\ end \in Places
    BY <2>1 DEF Rings, Ring
  <2>3. ASSUME NEW p \in Places
        PROVE  slots[p] # NULL <=>
                  IF start <= end THEN start <= p /\ p < end ELSE start <= p \/ p < end
    <3>1. slots[p] # NULL <=> Minus(p, start) < Minus(end, start)
      BY <2>1 DEF RingSound, Ring, Size
    <3>2. Minus(p, start) < Minus(end, start) <=>
              IF start <= end THEN start <= p /\ p < end ELSE start <= p \/ p < end
      BY <2>2, PlacesAre DEF Minus
    <3>. QED
      BY <3>1, <3>2
  <2>. QED
    BY <2>2, <2>3 DEF ExtInv, Kept, Turn, StorageBounds
<1>. QED
  BY <1>1, ExtAlways, PTL
----------------------------------------------------------------------------
(* What compose in C does is what Compose does: its generators, messages and  *)
(* control, seen as those of Compose.                                         *)

SeenGenerators == IF Unwound THEN Front(generators) ELSE generators
SeenMessages == IF ~started THEN <<None>> ELSE IF Ended THEN <<>> ELSE Queue
SeenControl ==
    IF ~started THEN "new" ELSE IF running THEN "run" ELSE IF Ended THEN "ended"
    ELSE IF paused_on_step THEN "step" ELSE IF expect_data THEN "data" ELSE "value"

\* A compose that has started, and whose last generator can be run.
LEMMA SeenAsItIs ==
    ASSUME started, running \/ generators # <<>>, ~Unwound
    PROVE  /\ SeenGenerators = generators /\ SeenMessages = Order(Ring)
           /\ SeenControl = IF running THEN "run" ELSE IF paused_on_step THEN "step"
                            ELSE IF expect_data THEN "data" ELSE "value"
BY DEF SeenGenerators, SeenMessages, SeenControl, Ended, Queue

\* And one that has started after a step.
LEMMA SeenThen ==
    ASSUME started', running' \/ generators' # <<>>, ~Unwound'
    PROVE  /\ SeenGenerators' = generators' /\ SeenMessages' = Order(Ring')
           /\ SeenControl' = IF running' THEN "run" ELSE IF paused_on_step' THEN "step"
                             ELSE IF expect_data' THEN "data" ELSE "value"
BY DEF SeenGenerators, SeenMessages, SeenControl, Ended, Queue

\* A yield of an item.
LEMMA YieldsItemAsPy ==
    ASSUME ExtInv, ExtInv', running, generators # <<>>, ~Unwound, NEW gen \in Frames,
           NEW r, RingSound(r), UNCHANGED <<started, stepping, sent>>,
           NEW isNone \in BOOLEAN, YieldsItem(gen, r, isNone)
    PROVE  Py!Runs(gen, Order(r))
<1>1. /\ r \in Rings /\ StackSound(generators) /\ started /\ started' = started
      /\ ~paused_on_step /\ exception' = "none" /\ dropped' = dropped
      /\ generators' = Became(gen, IF isNone THEN "data" ELSE "value")
      /\ paused_on_step' = paused_on_step
  BY DEF ExtInv, Kept, Turn, RingSound, YieldsItem
<1>2. Ring' = r
  BY <1>1, RingIsSet DEF YieldsItem
<1>3. generators' # <<>>
  <2>1. (IF isNone THEN "data" ELSE "value") \in {"value", "data", "call"}
    OBVIOUS
  <2>. QED
    BY <1>1, <2>1, BecameSound
<1>4. ~Unwound'
  BY <1>1 DEF Unwound
<1>5. SeenGenerators = generators /\ SeenMessages = Order(Ring)
  BY <1>1, SeenAsItIs
<1>6. /\ SeenGenerators' = generators' /\ SeenMessages' = Order(r)
      /\ SeenControl' = IF running' THEN "run" ELSE IF paused_on_step' THEN "step"
                        ELSE IF expect_data' THEN "data" ELSE "value"
  BY <1>1, <1>2, <1>3, <1>4, SeenThen
<1>7. CASE ~isNone
  <2>1. SeenControl' = "value"
    BY <1>1, <1>6, <1>7 DEF YieldsItem
  <2>2. Py!YieldsValue(gen, Order(r))
    BY <1>1, <1>5, <1>6, <1>7, <2>1
    DEF Py!YieldsValue, Py!Became, Py!Front, Became, Front,
        SeenGenerators, SeenMessages, SeenControl
  <2>. QED
    BY <2>2 DEF Py!Runs
<1>8. CASE isNone
  <2>1. Order(r) = <<>> <=> Size(r) = 0
    BY OrderIs
  <2>2. SeenControl' = IF Order(r) = <<>> THEN "data" ELSE "run"
    <3>1. CASE Size(r) = 0
      <4>1. ~running' /\ expect_data'
        BY <1>8, <3>1 DEF YieldsItem
      <4>. QED
        BY <1>1, <1>6, <2>1, <3>1, <4>1
    <3>2. CASE Size(r) # 0
      <4>1. running'
        BY <1>8, <3>2 DEF YieldsItem
      <4>. QED
        BY <1>6, <2>1, <3>2, <4>1
    <3>. QED
      BY <3>1, <3>2
  <2>3. Py!YieldsNone(gen, Order(r))
    BY <1>1, <1>5, <1>6, <1>8, <2>2
    DEF Py!YieldsNone, Py!Became, Py!Front, Became, Front,
        SeenGenerators, SeenMessages, SeenControl
  <2>. QED
    BY <2>3 DEF Py!Runs
<1>. QED
  BY <1>7, <1>8

\* A call: the called generator is on the stack, and waits for the caller of
\* compose or has its None.
LEMMA CallsAsPy ==
    ASSUME ExtInv, ExtInv', running, generators # <<>>, ~Unwound, NEW gen \in Frames,
           NEW r, RingSound(r), UNCHANGED <<started, stepping, sent>>, ~strayed',
           Calls(gen, r)
    PROVE  Py!Runs(gen, Order(r))
<1>1. /\ r \in Rings /\ StackSound(generators) /\ started /\ started' = started
      /\ ~paused_on_step /\ exception' = "none" /\ dropped' = dropped
      /\ generators' = Became(gen, "call") \o <<Fresh>>
      /\ Len(generators) < MaxDepth
  BY DEF ExtInv, Kept, Turn, RingSound, Calls
<1>2. generators' # <<>>
  BY <1>1, CalledSound
<1>3. ~Unwound'
  BY <1>1 DEF Unwound
<1>4. SeenGenerators = generators
  BY <1>1, SeenAsItIs
<1>5. /\ SeenGenerators' = generators' /\ SeenMessages' = Order(Ring')
      /\ SeenControl' = IF running' THEN "run" ELSE IF paused_on_step' THEN "step"
                        ELSE IF expect_data' THEN "data" ELSE "value"
  BY <1>1, <1>2, <1>3, SeenThen
<1>6. IF stepping THEN SeenControl' = "step" /\ SeenMessages' = Order(r)
      ELSE SeenControl' = "run" /\ SeenMessages' = <<None>> \o Order(r)
  <2>1. CASE stepping
    <3>1. Ring' = r
      BY <1>1, <2>1, RingIsSet DEF Calls
    <3>2. ~running' /\ paused_on_step'
      BY <2>1 DEF Calls
    <3>. QED
      BY <1>5, <2>1, <3>1, <3>2
  <2>2. CASE ~stepping
    <3>1. InsertUnchecked(r, None) /\ running'
      BY <2>2 DEF Calls
    <3>2. Order(Ring') = <<None>> \o Order(r)
      BY <3>1, NullIsNone, UncheckedIs
    <3>. QED
      BY <1>5, <2>2, <3>1, <3>2
  <2>. QED
    BY <2>1, <2>2
<1>7. Py!Calls(gen, Order(r))
  BY <1>1, <1>4, <1>5, <1>6
  DEF Py!Calls, Py!Became, Py!Front, Became, Front, Py!Fresh, Fresh,
      SeenGenerators, SeenMessages, SeenControl
<1>. QED
  BY <1>7 DEF Py!Runs

\* A call of a generator that was used.
LEMMA CallsUsedAsPy ==
    ASSUME ExtInv, ExtInv', running, generators # <<>>, ~Unwound, NEW gen \in Frames,
           NEW r, RingSound(r), UNCHANGED <<started, stepping, sent>>,
           CallsUsed(gen, r)
    PROVE  Py!Runs(gen, Order(r))
<1>1. /\ r \in Rings /\ StackSound(generators) /\ started /\ started' = started
      /\ exception' = "error" /\ dropped' = dropped /\ running' = running
      /\ generators' = Became(gen, "call")
  BY DEF ExtInv, Kept, Turn, RingSound, CallsUsed
<1>2. Ring' = r
  BY <1>1, RingIsSet DEF CallsUsed
<1>3. generators' # <<>> /\ ~Unwound'
  BY <1>1, BecameSound DEF Unwound
<1>4. SeenGenerators = generators
  BY <1>1, SeenAsItIs
<1>5. SeenGenerators' = generators' /\ SeenMessages' = Order(r) /\ SeenControl' = "run"
  BY <1>1, <1>2, <1>3, SeenThen
<1>6. Py!CallsUsed(gen, Order(r))
  BY <1>1, <1>4, <1>5
  DEF Py!CallsUsed, Py!Became, Py!Front, Became, Front,
      SeenGenerators, SeenMessages, SeenControl
<1>. QED
  BY <1>6 DEF Py!Runs
\* A return: what is returned is in front of what waits.
LEMMA ReturnsAsPy ==
    ASSUME ExtInv, ExtInv', running, generators # <<>>, ~Unwound, NEW gen \in Frames,
           NEW r, RingSound(r), UNCHANGED <<started, stepping, sent>>, ~strayed',
           Returns(gen, r)
    PROVE  Py!Runs(gen, Order(r))
<1>1. /\ r \in Rings /\ StackSound(generators) /\ started /\ started' = started
      /\ running' = running /\ generators' = Front(generators)
  BY DEF ExtInv, Kept, Turn, RingSound, Returns, Pops
<1>2. Order(r) \in Seq(Messages)
  BY OrderIs
<1>3. SeenGenerators = generators
  BY <1>1, SeenAsItIs
<1>4. ASSUME NEW retval \in Py!Returned(gen), exception' = "none",
             dropped' = dropped \cup (Range(gen.got) \ Range(retval)),
             Order(Ring') = (IF retval = <<>> /\ Len(generators) > 1 THEN <<None>>
                             ELSE retval) \o Order(r)
      PROVE  Py!Runs(gen, Order(r))
  <2>1. ~Unwound'
    BY <1>4 DEF Unwound
  <2>2. /\ SeenGenerators' = generators' /\ SeenMessages' = Order(Ring')
        /\ SeenControl' = "run"
    BY <1>1, <2>1, SeenThen
  <2>3. Py!Returns(gen, Order(r))
    BY <1>1, <1>3, <1>4, <2>2
    DEF Py!Returns, Py!Front, Front, Py!Range, Range,
        SeenGenerators, SeenMessages, SeenControl
  <2>. QED
    BY <2>3 DEF Py!Runs
<1>5. ASSUME dropped' = dropped \cup Range(gen.got), exception' = "none",
             IF Len(generators) > 1 THEN InsertUnchecked(r, None)
             ELSE SetRing(r) /\ UncheckedNone
      PROVE  Py!Runs(gen, Order(r))
  <2>1. <<>> \in Py!Returned(gen)
    BY DEF Py!Returned
  <2>2. Range(gen.got) \ Range(<<>>) = Range(gen.got)
    BY DEF Range
  <2>3. Order(Ring') = (IF <<>> = <<>> /\ Len(generators) > 1 THEN <<None>>
                        ELSE <<>>) \o Order(r)
    <3>1. CASE Len(generators) > 1
      BY <1>5, <3>1, NullIsNone, UncheckedIs
    <3>2. CASE ~(Len(generators) > 1)
      <4>1. Ring' = r
        BY <1>1, <1>5, <3>2, RingIsSet
      <4>2. <<>> \o Order(r) = Order(r)
        BY <1>2
      <4>. QED
        BY <3>2, <4>1, <4>2
    <3>. QED
      BY <3>1, <3>2
  <2>. QED
    BY <1>4, <1>5, <2>1, <2>2, <2>3
<1>6. ASSUME NEW i \in 1..(Len(gen.got) + 1),
             LET args == <<Result>> \o SubSeq(gen.got, i, Len(gen.got))
                 all == Len(args) <= Free(r)
             IN  /\ SetRing(InsertAll(r, args))
                 /\ exception' = IF all THEN "none" ELSE "error"
                 /\ strayed' = (strayed \/ ~all)
                 /\ dropped' = dropped \cup (Range(gen.got) \ Range(args))
      PROVE  Py!Runs(gen, Order(r))
  <2>. DEFINE args == <<Result>> \o SubSeq(gen.got, i, Len(gen.got))
  <2>1. args \in Py!Returned(gen)
    BY DEF Py!Returned
  <2>2. args \in Seq(Messages) /\ args # <<>>
    BY ReturnedIs
  <2>3. /\ Len(args) <= Free(r) /\ SetRing(InsertAll(r, args)) /\ exception' = "none"
        /\ dropped' = dropped \cup (Range(gen.got) \ Range(args))
    BY <1>6
  <2>. HIDE DEF args
  <2>4. /\ InsertAll(r, args) \in Rings
        /\ Order(InsertAll(r, args)) = args \o Order(r)
    BY <2>2, <2>3, InsertAllIs DEF RingSound
  <2>5. Order(Ring') = args \o Order(r)
    BY <2>3, <2>4, RingIsSet
  <2>. QED
    BY <1>4, <2>1, <2>2, <2>3, <2>5
<1>. QED
  BY <1>5, <1>6 DEF Returns

\* Another exception.
LEMMA RaisesAsPy ==
    ASSUME ExtInv, ExtInv', running, generators # <<>>, ~Unwound, NEW gen,
           NEW r, RingSound(r), UNCHANGED <<started, stepping, sent>>,
           NEW raised, Raises(gen, r, raised)
    PROVE  Py!Raises(gen, Order(r), raised)
<1>1. /\ r \in Rings /\ StackSound(generators) /\ started /\ started' = started
      /\ running' = running /\ generators' = Front(generators)
      /\ exception' = raised /\ dropped' = dropped \cup Range(gen.got)
  BY DEF ExtInv, Kept, Turn, RingSound, Raises, Pops
<1>2. Ring' = r
  BY <1>1, RingIsSet DEF Raises
<1>3. ~Unwound'
  <2>1. generators' # <<>> => Last(generators').awaits = "call"
    BY <1>1, FrontSound
  <2>. QED
    BY <2>1 DEF Unwound, Fresh
<1>4. SeenGenerators = generators
  BY <1>1, SeenAsItIs
<1>5. SeenGenerators' = generators' /\ SeenMessages' = Order(r) /\ SeenControl' = "run"
  BY <1>1, <1>2, <1>3, SeenThen
<1>. QED
  BY <1>1, <1>4, <1>5
  DEF Py!Raises, Py!Front, Front, Py!Range, Range,
      SeenGenerators, SeenMessages, SeenControl

\* Whatever a generator does when it runs, as long as no limit is hit.
LEMMA RunsAsPy ==
    ASSUME ExtInv, ExtInv', running, generators # <<>>, ~Unwound, NEW gen \in Frames,
           NEW r, RingSound(r), UNCHANGED <<started, stepping, sent>>, ~strayed',
           Runs(gen, r)
    PROVE  Py!Runs(gen, Order(r))
<1>1. CASE \E isNone \in BOOLEAN : YieldsItem(gen, r, isNone)
  BY <1>1, YieldsItemAsPy
<1>2. CASE Calls(gen, r)
  BY <1>2, CallsAsPy
<1>3. CASE CallsTooDeep(gen, r)
  BY <1>3 DEF CallsTooDeep
<1>4. CASE CallsUsed(gen, r)
  BY <1>4, CallsUsedAsPy
<1>5. CASE Returns(gen, r)
  BY <1>5, ReturnsAsPy
<1>6. CASE \E raised \in {"error", "exit"} : Raises(gen, r, raised)
  <2>1. PICK raised \in {"error", "exit"} : Raises(gen, r, raised)
    BY <1>6
  <2>2. Py!Raises(gen, Order(r), raised)
    BY <2>1, RaisesAsPy
  <2>. QED
    BY <2>2 DEF Py!Runs
<1>. QED
  BY <1>1, <1>2, <1>3, <1>4, <1>5, <1>6 DEF Runs

\* A generator that has not started ends by the exception: Compose has ended it
\* when the exception came.
LEMMA FreshEnds ==
    ASSUME ExtInv, ExtInv', running, generators # <<>>, exception # "none",
           Last(generators) = Fresh, UNCHANGED <<started, stepping, sent>>,
           Raises(Last(generators), Ring, exception)
    PROVE  UNCHANGED Py!vars
<1>1. /\ Ring \in Rings /\ StackSound(generators) /\ started /\ started' = started
      /\ running' = running /\ generators' = Front(generators)
      /\ exception' = exception /\ dropped' = dropped \cup Range(Fresh.got)
  BY DEF ExtInv, Kept, Turn, RingSound, Raises, Pops
<1>2. Ring' = Ring
  BY <1>1, RingIsSet DEF Raises
<1>3. ~Unwound'
  <2>1. generators' # <<>> => Last(generators').awaits = "call"
    BY <1>1, FrontSound
  <2>. QED
    BY <2>1 DEF Unwound, Fresh
<1>4. dropped' = dropped
  BY <1>1 DEF Fresh, Range
<1>5. SeenGenerators = Front(generators) /\ SeenMessages = Order(Ring) /\ SeenControl = "run"
  BY <1>1 DEF SeenGenerators, SeenMessages, SeenControl, Unwound, Ended, Queue
<1>6. SeenGenerators' = generators' /\ SeenMessages' = Order(Ring') /\ SeenControl' = "run"
  BY <1>1, <1>3, SeenThen
<1>7. /\ SeenGenerators' = SeenGenerators /\ SeenMessages' = SeenMessages
      /\ SeenControl' = SeenControl
  BY <1>1, <1>2, <1>5, <1>6
<1>. QED
  BY <1>1, <1>4, <1>7 DEF Py!vars, SeenGenerators, SeenMessages, SeenControl
\* A limit that was hit is not forgotten.
LEMMA StrayedStays ==
    ASSUME strayed, [Next]_vars
    PROVE  strayed'
<1>1. CASE Send
  BY <1>1 DEF Send, Runs, YieldsItem, Calls, CallsTooDeep, CallsUsed, Returns, Raises,
              InsertUnchecked, UncheckedNone
<1>2. CASE Throw
  BY <1>2 DEF Throw, Runs, YieldsItem, Calls, CallsTooDeep, CallsUsed, Returns, Raises,
              InsertUnchecked, UncheckedNone
<1>3. CASE Close
  BY <1>3 DEF Close, Raises
<1>4. CASE Finish
  BY <1>4 DEF Finish
<1>5. CASE SendNone \/ SendData \/ ThrowIn
  BY <1>5 DEF SendNone, SendData, ThrowIn, InsertUnchecked
<1>6. CASE UNCHANGED vars
  BY <1>6 DEF vars
<1>. QED
  BY <1>1, <1>2, <1>3, <1>4, <1>5, <1>6 DEF Next

\* A message is given to the generator that Compose gives it to.
LEMMA SendAsPy ==
    ASSUME ExtInv, ExtInv', ~strayed, ~strayed', Send
    PROVE  Py!Send
<1>. DEFINE gen == IF slots[start] \in Data
                   THEN [Last(generators) EXCEPT !.got = Append(@, slots[start])]
                   ELSE Last(generators)
<1>1. /\ running /\ generators # <<>> /\ exception = "none"
      /\ UNCHANGED <<started, stepping, sent>>
  BY DEF Send, Running
<1>2. /\ RingSound(Pop(Ring)) /\ Order(Ring) # <<>>
      /\ Head(Order(Ring)) = slots[start] /\ Order(Pop(Ring)) = Tail(Order(Ring))
      /\ Last(generators) \in Frames /\ gen \in Frames
  BY <1>1, MessageIs
<1>3. gen.awaits = Last(generators).awaits
  BY <1>2 DEF Frames
<1>4. ~(gen.awaits = "start" /\ slots[start] # None) /\ ~indicator
  BY <1>1, <1>3 DEF ExtInv, Straight
<1>5. Runs(gen, Pop(Ring))
  BY <1>4 DEF Send
<1>6. ~Unwound /\ started
  BY <1>1 DEF Unwound, ExtInv, Turn
<1>7. Py!Runs(gen, Order(Pop(Ring)))
  <2>. HIDE DEF gen
  <2>. QED
    BY <1>1, <1>2, <1>5, <1>6, RunsAsPy
<1>8. SeenGenerators = generators /\ SeenMessages = Order(Ring) /\ SeenControl = "run"
  BY <1>1, <1>6, SeenAsItIs
<1>9. Py!Running("none")
  BY <1>1, <1>8 DEF Py!Running, SeenGenerators, SeenControl
<1>10. gen = IF Head(SeenMessages) \in Data
             THEN [Last(SeenGenerators) EXCEPT !.got = Append(@, Head(SeenMessages))]
             ELSE Last(SeenGenerators)
  BY <1>2, <1>8
<1>11. Order(Pop(Ring)) = Tail(SeenMessages)
  BY <1>2, <1>8
<1>. HIDE DEF gen
<1>. QED
  BY <1>7, <1>9, <1>10, <1>11
  DEF Py!Send, Py!Data, Data, Py!Last, Last, SeenGenerators, SeenMessages

\* An exception is thrown into the generator that Compose throws it into.
LEMMA ThrowAsPy ==
    ASSUME ExtInv, ExtInv', ~strayed', Throw
    PROVE  [Py!Throw]_(Py!vars)
<1>1. /\ running /\ generators # <<>> /\ exception = "error"
      /\ UNCHANGED <<started, stepping, sent>>
  BY DEF Throw, Running
<1>2. /\ RingSound(Ring) /\ StackSound(generators) /\ started
      /\ Last(generators) \in Frames
      /\ Last(generators).awaits = "start" <=> Last(generators) = Fresh
  BY <1>1, LastIs DEF ExtInv, Kept, Turn
<1>3. CASE Last(generators) = Fresh
  <2>1. Raises(Last(generators), Ring, "error")
    BY <1>2, <1>3 DEF Throw
  <2>. QED
    BY <1>1, <1>3, <2>1, FreshEnds
<1>4. CASE Last(generators) # Fresh
  <2>1. Runs(Last(generators), Ring) /\ ~Unwound
    BY <1>2, <1>4 DEF Throw, Unwound
  <2>2. Py!Runs(Last(generators), Order(Ring))
    BY <1>1, <1>2, <2>1, RunsAsPy
  <2>3. SeenGenerators = generators /\ SeenMessages = Order(Ring) /\ SeenControl = "run"
    BY <1>1, <1>2, <2>1, SeenAsItIs
  <2>4. Py!Running("error")
    BY <1>1, <2>3 DEF Py!Running, SeenGenerators, SeenControl
  <2>5. Last(generators) = Last(SeenGenerators) /\ Order(Ring) = SeenMessages
    BY <2>3
  <2>6. Py!Throw
    BY <2>2, <2>4, <2>5
    DEF Py!Throw, Py!Last, Last, SeenGenerators, SeenMessages
  <2>. QED
    BY <2>6
<1>. QED
  BY <1>3, <1>4

\* A generator is closed that Compose closes.
LEMMA CloseAsPy ==
    ASSUME ExtInv, ExtInv', ~strayed', Close
    PROVE  [Py!Close]_(Py!vars)
<1>1. /\ running /\ generators # <<>> /\ exception = "exit"
      /\ UNCHANGED <<started, stepping, sent>>
  BY DEF Close, Running
<1>2. /\ RingSound(Ring) /\ StackSound(generators) /\ started
      /\ Last(generators).awaits = "start" <=> Last(generators) = Fresh
  BY <1>1, LastIs DEF ExtInv, Kept, Turn
<1>3. CASE Last(generators) = Fresh
  <2>1. Raises(Last(generators), Ring, "exit")
    BY <1>2, <1>3 DEF Close
  <2>. QED
    BY <1>1, <1>3, <2>1, FreshEnds
<1>4. CASE Last(generators) # Fresh
  <2>1. PICK raised \in {"exit", "error"} : Raises(Last(generators), Ring, raised)
    BY DEF Close
  <2>2. ~Unwound
    BY <1>4 DEF Unwound
  <2>3. Py!Raises(Last(generators), Order(Ring), raised)
    BY <1>1, <1>2, <2>1, <2>2, RaisesAsPy
  <2>4. SeenGenerators = generators /\ SeenMessages = Order(Ring) /\ SeenControl = "run"
    BY <1>1, <1>2, <2>2, SeenAsItIs
  <2>5. Py!Running("exit")
    BY <1>1, <2>4 DEF Py!Running, SeenGenerators, SeenControl
  <2>6. Last(generators) = Last(SeenGenerators) /\ Order(Ring) = SeenMessages
    BY <2>4
  <2>7. Py!Close
    BY <2>3, <2>5, <2>6
    DEF Py!Close, Py!Last, Last, SeenGenerators, SeenMessages
  <2>. QED
    BY <2>7
<1>. QED
  BY <1>3, <1>4

\* The end of compose is the end of Compose.
LEMMA FinishAsPy ==
    ASSUME ExtInv, Finish
    PROVE  Py!Finish
<1>1. /\ running /\ generators = <<>> /\ generators' = generators
      /\ ~running' /\ exception' = "none" /\ started /\ started' = started
      /\ UNCHANGED <<stepping, sent, dropped>>
  BY DEF Finish, flags, ExtInv, Turn
<1>2. ~Unwound /\ ~Unwound'
  BY <1>1 DEF Unwound
<1>3. SeenGenerators = generators /\ SeenControl = "run"
  BY <1>1, <1>2 DEF SeenGenerators, SeenControl
<1>4. SeenGenerators' = generators' /\ SeenMessages' = <<>> /\ SeenControl' = "ended"
  BY <1>1, <1>2 DEF SeenGenerators, SeenMessages, SeenControl, Ended
<1>. QED
  BY <1>1, <1>3, <1>4
  DEF Py!Finish, SeenGenerators, SeenMessages, SeenControl
\* The caller of compose, before its turn.
LEMMA CallerSees ==
    ASSUME ExtInv, ~running, generators # <<>>
    PROVE  /\ SeenGenerators = generators /\ exception = "none"
           /\ ~started => /\ SeenControl = "new" /\ SeenMessages = <<None>>
                         /\ Order(Ring) = <<>> /\ Last(generators) = Fresh
           /\ started => /\ SeenMessages = Order(Ring)
                        /\ SeenControl = IF paused_on_step THEN "step"
                                         ELSE IF expect_data THEN "data" ELSE "value"
<1>1. ~Unwound /\ ~Ended /\ Turn /\ RingSound(Ring)
  BY DEF Unwound, Ended, ExtInv, Kept
<1>2. SeenGenerators = generators /\ exception = "none"
  BY <1>1 DEF SeenGenerators, Turn
<1>3. ASSUME ~started
      PROVE  /\ SeenControl = "new" /\ SeenMessages = <<None>>
             /\ Order(Ring) = <<>> /\ Last(generators) = Fresh
  <2>1. start = end /\ generators = <<Fresh>>
    BY <1>1, <1>3 DEF Turn
  <2>2. Size(Ring) = 0
    BY <1>1, <2>1, SizeIs DEF RingSound, Ring
  <2>3. Order(Ring) = <<>>
    BY <1>1, <2>2, OrderIs
  <2>4. Last(generators) = Fresh
    BY <2>1 DEF Last
  <2>. QED
    BY <1>3, <2>3, <2>4 DEF SeenControl, SeenMessages
<1>4. ASSUME started
      PROVE  /\ SeenMessages = Order(Ring)
             /\ SeenControl = IF paused_on_step THEN "step"
                              ELSE IF expect_data THEN "data" ELSE "value"
  BY <1>1, <1>4 DEF SeenControl, SeenMessages, Queue
<1>. QED
  BY <1>2, <1>3, <1>4

\* next, or send(None)
LEMMA SendNoneAsPy ==
    ASSUME ExtInv, ~strayed', SendNone
    PROVE  Py!SendNone
<1>1. /\ ~running /\ generators # <<>> /\ running' /\ started' /\ generators' = generators
      /\ InsertUnchecked(Ring, None) /\ RingSound(Ring) /\ exception' = exception
      /\ UNCHANGED <<stepping, sent, dropped>>
  BY DEF SendNone, Entered, ExtInv, Kept
<1>2. Order(Ring') = <<None>> \o Order(Ring)
  BY <1>1, NullIsNone, UncheckedIs
<1>3. ~Unwound'
  BY <1>1, CallerSees DEF Unwound
<1>4. SeenGenerators' = generators' /\ SeenMessages' = Order(Ring') /\ SeenControl' = "run"
  BY <1>1, <1>3, SeenThen
<1>5. CASE ~started
  <2>1. <<None>> \o <<>> = <<None>>
    OBVIOUS
  <2>2. SeenMessages' = SeenMessages
    BY <1>1, <1>2, <1>4, <1>5, <2>1, CallerSees
  <2>3. SeenGenerators = generators /\ SeenControl = "new"
    BY <1>1, <1>5, CallerSees
  <2>. QED
    BY <1>1, <1>4, <2>2, <2>3
    DEF Py!SendNone, SeenGenerators, SeenMessages, SeenControl
<1>6. CASE started
  <2>1. /\ SeenGenerators = generators /\ SeenMessages = Order(Ring)
        /\ SeenControl \in {"step", "data", "value"}
    BY <1>1, <1>6, CallerSees
  <2>2. SeenControl # "new"
    BY <2>1
  <2>. QED
    BY <1>1, <1>2, <1>4, <2>1, <2>2
    DEF Py!SendNone, Py!Yielded, SeenGenerators, SeenMessages, SeenControl
<1>. QED
  BY <1>5, <1>6

\* Data, or the exception for data that nobody asked for.
LEMMA SendDataAsPy ==
    ASSUME ExtInv, ~strayed, ~strayed', SendData
    PROVE  Py!SendData
<1>1. /\ ~running /\ generators # <<>> /\ running' /\ started' /\ generators' = generators
      /\ RingSound(Ring) /\ Straight /\ UNCHANGED <<stepping, dropped>>
  BY DEF SendData, Entered, ExtInv, Kept
<1>2. ASSUME ~paused_on_step, expect_data, sent < MaxSend, sent' = sent + 1,
             InsertUnchecked(Ring, sent + 1), UNCHANGED exception
      PROVE  Py!SendData
  <2>1. started /\ sent + 1 \in Messages
    BY <1>2 DEF ExtInv, Turn, Kept, Messages, Data
  <2>2. Order(Ring') = <<sent + 1>> \o Order(Ring)
    BY <1>1, <1>2, <2>1, UncheckedIs
  <2>3. /\ SeenGenerators = generators /\ SeenMessages = Order(Ring)
        /\ SeenControl = "data" /\ exception = "none"
    BY <1>1, <1>2, <2>1, CallerSees
  <2>4. ~Unwound'
    BY <1>2, <2>3 DEF Unwound
  <2>5. SeenGenerators' = generators' /\ SeenMessages' = Order(Ring') /\ SeenControl' = "run"
    BY <1>1, <2>4, SeenThen
  <2>. QED
    BY <1>1, <1>2, <2>2, <2>3, <2>5
    DEF Py!SendData, Py!Yielded, SeenGenerators, SeenMessages, SeenControl
<1>3. ASSUME paused_on_step \/ ~expect_data, exception' = "error", started,
             UNCHANGED <<ring, sent>>
      PROVE  Py!SendData
  <2>1. Ring' = Ring
    BY <1>3 DEF Ring, ring
  <2>2. SeenMessages' = Order(Ring) /\ SeenControl' = "run"
    BY <1>1, <2>1 DEF SeenMessages, SeenControl, Ended, Queue
  <2>3. SeenGenerators = generators /\ SeenMessages = Order(Ring)
    BY <1>1, <1>3, CallerSees
  <2>4. CASE paused_on_step
    <3>1. SeenControl = "step" /\ Last(generators) = Fresh
      BY <1>1, <1>3, <2>4, CallerSees DEF Straight
    <3>2. Unwound'
      BY <1>1, <1>3, <3>1 DEF Unwound
    <3>3. SeenGenerators' = Front(generators)
      BY <1>1, <3>2 DEF SeenGenerators
    <3>. QED
      BY <1>1, <1>3, <2>2, <2>3, <3>1, <3>3
      DEF Py!SendData, Py!Yielded, Py!Front, Front, SeenGenerators, SeenMessages, SeenControl
  <2>5. CASE ~paused_on_step
    <3>1. SeenControl = "value" /\ Last(generators).awaits = "value"
      BY <1>1, <1>3, <2>5, CallerSees DEF Straight
    <3>2. ~Unwound'
      BY <1>1, <3>1 DEF Unwound, Fresh
    <3>3. SeenGenerators' = generators
      BY <1>1, <3>2 DEF SeenGenerators
    <3>. QED
      BY <1>1, <1>3, <2>2, <2>3, <3>1, <3>3
      DEF Py!SendData, Py!Yielded, SeenGenerators, SeenMessages, SeenControl
  <2>. QED
    BY <2>4, <2>5
<1>. QED
  BY <1>2, <1>3 DEF SendData

\* An exception of the caller.
LEMMA ThrowInAsPy ==
    ASSUME ExtInv, ~strayed, ThrowIn
    PROVE  Py!ThrowIn
<1>1. /\ ~running /\ generators # <<>> /\ running' /\ started' /\ generators' = generators
      /\ exception' \in {"error", "exit"} /\ Straight
      /\ UNCHANGED <<ring, stepping, sent, dropped>>
  BY DEF ThrowIn, Entered, ExtInv
<1>2. Ring' = Ring
  BY <1>1 DEF Ring, ring
<1>3. SeenMessages' = Order(Ring) /\ SeenControl' = "run"
  BY <1>1, <1>2 DEF SeenMessages, SeenControl, Ended, Queue
<1>4. SeenGenerators = generators
  BY <1>1, CallerSees
<1>5. CASE ~started \/ paused_on_step
  <2>1. Last(generators) = Fresh
    BY <1>1, <1>5, CallerSees DEF Straight
  <2>2. Unwound'
    BY <1>1, <2>1 DEF Unwound
  <2>3. SeenGenerators' = Front(generators)
    BY <1>1, <2>2 DEF SeenGenerators
  <2>4. IF started THEN SeenControl = "step" /\ SeenMessages = Order(Ring)
        ELSE SeenControl = "new" /\ Order(Ring) = <<>>
    BY <1>1, <1>5, CallerSees
  <2>5. SeenMessages' = IF SeenControl = "new" THEN <<>> ELSE SeenMessages
    BY <1>3, <2>4
  <2>6. SeenControl \in {"new", "step"}
    BY <2>4
  <2>. QED
    BY <1>1, <1>3, <1>4, <2>3, <2>5, <2>6
    DEF Py!ThrowIn, Py!Yielded, Py!Front, Front, SeenGenerators, SeenMessages, SeenControl
<1>6. CASE started /\ ~paused_on_step
  <2>1. /\ SeenControl \in {"data", "value"} /\ SeenMessages = Order(Ring)
        /\ Last(generators).awaits # "start"
    BY <1>1, <1>6, CallerSees DEF Straight
  <2>2. ~Unwound'
    BY <1>1, <2>1 DEF Unwound, Fresh
  <2>3. SeenGenerators' = generators
    BY <1>1, <2>2 DEF SeenGenerators
  <2>4. SeenControl # "new" /\ SeenControl # "step"
    BY <2>1
  <2>. QED
    BY <1>1, <1>3, <1>4, <2>1, <2>3, <2>4
    DEF Py!ThrowIn, Py!Yielded, SeenGenerators, SeenMessages, SeenControl
<1>. QED
  BY <1>5, <1>6

\* A step of compose in C is a step of Compose, or none, until a limit is hit.
LEMMA StepAsPy ==
    ASSUME ExtInv, ExtInv', [Next]_vars, ~strayed'
    PROVE  [Py!Next]_(Py!vars)
<1>1. ~strayed
  BY StrayedStays
<1>2. CASE Send
  BY <1>1, <1>2, SendAsPy DEF Py!Next
<1>3. CASE Throw
  BY <1>3, ThrowAsPy DEF Py!Next
<1>4. CASE Close
  BY <1>4, CloseAsPy DEF Py!Next
<1>5. CASE Finish
  BY <1>5, FinishAsPy DEF Py!Next
<1>6. CASE SendNone
  BY <1>6, SendNoneAsPy DEF Py!Next
<1>7. CASE SendData
  BY <1>1, <1>7, SendDataAsPy DEF Py!Next
<1>8. CASE ThrowIn
  BY <1>1, <1>8, ThrowInAsPy DEF Py!Next
<1>9. CASE UNCHANGED vars
  BY <1>9 DEF vars, ring, flags, Py!vars, Unwound, Ended, Queue, Ring
<1>. QED
  BY <1>2, <1>3, <1>4, <1>5, <1>6, <1>7, <1>8, <1>9 DEF Next

\* For any size of the ring and any limit of the stack: until a limit is hit, or
\* data is sent before anything else, compose in C does what compose in Python
\* does, step by step: its generators run with the same messages and exceptions,
\* and its caller gets the same.
THEOREM ExtIsCompose == Spec => ImplementsCompose
<1>1. Init => Py!Init
  BY DEF Init, Py!Init, Py!Fresh, Fresh, Unwound, Ended
<1>2. ExtInv /\ ExtInv' /\ [Next]_vars => [strayed' \/ [Py!Next]_(Py!vars)]_vars
  BY StepAsPy
<1>. QED
  BY <1>1, <1>2, ExtAlways, PTL DEF Spec, ImplementsCompose
=============================================================================
