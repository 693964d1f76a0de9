---------------------------- MODULE SocketProofs --------------------------
(* Theorems about sockets.  SocketPool: for any sockets and destinations, any *)
(* limits and any timeout.  Clients: for any clients, descriptor numbers,     *)
(* requests, responses, streams and bounds.                                   *)
EXTENDS SocketPool, Clients, SelectionProofs, TLAPS

(* A pool is any function from destinations to lists; the lemmas follow it    *)
(* through the methods, which may change it twice in a step.                  *)

SocketsOf(p) == UNION {SocketsIn(p[d]) : d \in Dests}

\* No socket is twice in the lists.
IsPool(p) ==
    /\ p \in [Dests -> Seq(Entry)]
    /\ \A d, e \in Dests : \A i \in DOMAIN p[d], j \in DOMAIN p[e] :
          p[d][i].sock = p[e][j].sock => d = e /\ i = j

KeysOK(p, ks) == \A d \in Dests \ ks : p[d] = <<>>

DestinationLimit == IF _limitDestinationSize = 0 THEN 1 ELSE _limitDestinationSize
LimitOK(p) ==
    _limitDestinationSize # NoLimit =>
        \A d \in Dests : Len(p[d]) <= DestinationLimit

\* There is room for one more in the list of d.
Room(p, d) ==
    _limitDestinationSize # NoLimit => Len(p[d]) + 1 <= DestinationLimit

\* However old an entry is, at the next purge it is no older than two timeouts.
AgeOK(p, t) ==
    _unusedTimeout # NoLimit =>
        \A d \in Dests : \A i \in DOMAIN p[d] :
            p[d][i].age + t <= 2 * _unusedTimeout

\* The timer is never set further ahead than the timeout.
TimerOK(t) ==
    IF _unusedTimeout = NoLimit THEN t = NoLimit ELSE t \in 0.._unusedTimeout

\* q is p without the sockets that are gone.
Thinned(q, p, gone) ==
    /\ IsPool(q)
    /\ \A e \in Dests :
          /\ SocketsIn(q[e]) = SocketsIn(p[e]) \ gone
          /\ Len(q[e]) <= Len(p[e])
          /\ \A i \in DOMAIN q[e] : \E j \in DOMAIN p[e] : q[e][i] = p[e][j]

----------------------------------------------------------------------------
\* What is known of the lists of a pool.
LEMMA PoolLists ==
    ASSUME NEW p, IsPool(p), NEW d \in Dests
    PROVE  /\ p[d] \in Seq(Entry) /\ Len(p[d]) \in Nat
           /\ DOMAIN p[d] = 1..Len(p[d])
           /\ \A i \in DOMAIN p[d] : /\ p[d][i] \in Entry
                                     /\ p[d][i].sock \in Sockets
                                     /\ p[d][i].age \in Nat
           /\ SocketsIn(p[d]) \subseteq Sockets
<1>1. p[d] \in Seq(Entry)
  BY DEF IsPool
<1>2. Len(p[d]) \in Nat /\ DOMAIN p[d] = 1..Len(p[d])
  BY <1>1, LenProperties
<1>3. \A i \in DOMAIN p[d] : p[d][i] \in Entry
  BY <1>1, <1>2, ElementOfSeq
<1>4. \A i \in DOMAIN p[d] : p[d][i].sock \in Sockets /\ p[d][i].age \in Nat
  BY <1>3 DEF Entry
<1>. QED
  BY <1>1, <1>2, <1>3, <1>4 DEF SocketsIn

\* The pool holds finitely many sockets.
LEMMA PoolFinite ==
    ASSUME NEW p, IsPool(p)
    PROVE  /\ SocketsOf(p) \subseteq Sockets /\ IsFiniteSet(SocketsOf(p))
           /\ Cardinality(SocketsOf(p)) \in Nat
<1>1. SocketsOf(p) \subseteq Sockets
  BY PoolLists DEF SocketsOf
<1>2. IsFiniteSet(SocketsOf(p))
  BY <1>1, SocketPoolAssumption, FS_Subset
<1>. QED
  BY <1>1, <1>2, FS_CardinalityType

\* A pool whose lists are picked from those of another is that one, thinned.
LEMMA PickedIsThinned ==
    ASSUME NEW p, IsPool(p), NEW q \in [Dests -> Seq(Entry)],
           NEW I \in [Dests -> SUBSET Nat], NEW gone,
           \A e \in Dests : I[e] \subseteq DOMAIN p[e],
           \A e \in Dests : Picks(q[e], p[e], I[e]) /\ Len(q[e]) <= Len(p[e]),
           gone = UNION {{p[e][i].sock : i \in DOMAIN p[e] \ I[e]} : e \in Dests}
    PROVE  Thinned(q, p, gone)
<1>1. ASSUME NEW e \in Dests, NEW n \in DOMAIN q[e]
      PROVE  \E i \in I[e] : q[e][n] = p[e][i]
  BY DEF Picks
<1>2. ASSUME NEW e \in Dests, NEW i \in I[e]
      PROVE  \E n \in DOMAIN q[e] : q[e][n] = p[e][i]
  BY DEF Picks
<1>3. ASSUME NEW e \in Dests, NEW m \in DOMAIN q[e], NEW n \in DOMAIN q[e],
             q[e][m].sock = q[e][n].sock
      PROVE  m = n
  <2>1. PICK from \in [DOMAIN q[e] -> I[e]] :
               /\ \A k \in DOMAIN q[e] : q[e][k] = p[e][from[k]]
               /\ \A k, l \in DOMAIN q[e] : from[k] = from[l] => k = l
    BY DEF Picks
  <2>2. from[m] \in DOMAIN p[e] /\ from[n] \in DOMAIN p[e]
    BY <2>1
  <2>3. p[e][from[m]].sock = p[e][from[n]].sock
    BY <1>3, <2>1
  <2>. QED
    BY <2>1, <2>2, <2>3 DEF IsPool
<1>4. ASSUME NEW d \in Dests, NEW e \in Dests, NEW m \in DOMAIN q[d],
             NEW n \in DOMAIN q[e], q[d][m].sock = q[e][n].sock
      PROVE  d = e
  <2>1. PICK i \in I[d], j \in I[e] : q[d][m] = p[d][i] /\ q[e][n] = p[e][j]
    BY <1>1
  <2>2. i \in DOMAIN p[d] /\ j \in DOMAIN p[e]
    BY <2>1
  <2>. QED
    BY <1>4, <2>1, <2>2 DEF IsPool
<1>5. IsPool(q)
  BY <1>3, <1>4 DEF IsPool
<1>6. ASSUME NEW e \in Dests, NEW i \in I[e]
      PROVE  p[e][i].sock \notin gone
  BY <1>6 DEF IsPool
<1>7. ASSUME NEW e \in Dests
      PROVE  SocketsIn(q[e]) = SocketsIn(p[e]) \ gone
  <2>1. SocketsIn(q[e]) \subseteq SocketsIn(p[e]) \ gone
    BY <1>1, <1>6 DEF SocketsIn
  <2>2. ASSUME NEW i \in DOMAIN p[e], p[e][i].sock \notin gone
        PROVE  \E n \in DOMAIN q[e] : p[e][i].sock = q[e][n].sock
    <3>1. i \in I[e]
      BY <2>2
    <3>. QED
      BY <1>2, <3>1
  <2>3. ASSUME NEW s \in SocketsIn(p[e]), s \notin gone
        PROVE  s \in SocketsIn(q[e])
    <3>1. PICK i \in DOMAIN p[e] : s = p[e][i].sock
      BY DEF SocketsIn
    <3>2. PICK n \in DOMAIN q[e] : p[e][i].sock = q[e][n].sock
      BY <2>2, <2>3, <3>1
    <3>. QED
      BY <3>1, <3>2 DEF SocketsIn
  <2>. QED
    BY <2>1, <2>3
<1>8. ASSUME NEW e \in Dests, NEW n \in DOMAIN q[e]
      PROVE  \E j \in DOMAIN p[e] : q[e][n] = p[e][j]
  BY <1>1
<1>. QED
  BY <1>5, <1>7, <1>8 DEF Thinned

\* A list that is left as it is.
LEMMA PicksAll ==
    ASSUME NEW l
    PROVE  Picks(l, l, DOMAIN l)
<1>. DEFINE from == [n \in DOMAIN l |-> n]
<1>1. from \in [DOMAIN l -> DOMAIN l]
  OBVIOUS
<1>. QED
  BY <1>1 DEF Picks

\* One list of a pool is replaced by what is picked from it.
LEMMA OneListThinned ==
    ASSUME NEW p, IsPool(p), NEW d \in Dests, NEW l \in Seq(Entry),
           NEW i \in DOMAIN p[d], Picks(l, p[d], DOMAIN p[d] \ {i}),
           Len(l) <= Len(p[d])
    PROVE  Thinned([p EXCEPT ![d] = l], p, {p[d][i].sock})
<1>. DEFINE q == [p EXCEPT ![d] = l]
            I == [e \in Dests |-> IF e = d THEN DOMAIN p[d] \ {i} ELSE DOMAIN p[e]]
            gone == UNION {{p[e][j].sock : j \in DOMAIN p[e] \ I[e]} : e \in Dests}
<1>1. q \in [Dests -> Seq(Entry)] /\ \A e \in Dests : q[e] = IF e = d THEN l ELSE p[e]
  BY DEF IsPool
<1>2. I \in [Dests -> SUBSET Nat]
  BY PoolLists
<1>3. \A e \in Dests : I[e] \subseteq DOMAIN p[e]
  OBVIOUS
<1>4. \A e \in Dests : Picks(q[e], p[e], I[e]) /\ Len(q[e]) <= Len(p[e])
  BY <1>1, PicksAll, PoolLists
<1>5. gone = {p[d][i].sock}
  OBVIOUS
<1>6. Thinned(q, p, gone)
  <2>. HIDE DEF q, I
  <2>. QED
    BY <1>1, <1>2, <1>3, <1>4, PickedIsThinned
<1>. QED
  BY <1>5, <1>6

\* pop(0) takes out the oldest entry.
LEMMA TailThins ==
    ASSUME NEW p, IsPool(p), NEW d \in Dests, p[d] # <<>>
    PROVE  /\ Thinned([p EXCEPT ![d] = Tail(@)], p, {p[d][1].sock})
           /\ p[d][1].sock \in SocketsIn(p[d])
           /\ Len(Tail(p[d])) = Len(p[d]) - 1
<1>. DEFINE l == Tail(p[d])
            from == [n \in DOMAIN l |-> n + 1]
<1>1. /\ l \in Seq(Entry) /\ Len(l) = Len(p[d]) - 1
      /\ \A n \in 1..Len(l) : l[n] = p[d][n + 1]
  BY PoolLists, HeadTailProperties
<1>2. Len(p[d]) \in Nat \ {0} /\ DOMAIN p[d] = 1..Len(p[d])
  BY PoolLists, EmptySeq
<1>3. DOMAIN l = 1..Len(l)
  BY <1>1, LenProperties
<1>4. from \in [DOMAIN l -> DOMAIN p[d] \ {1}]
  BY <1>1, <1>2, <1>3
<1>5. \A i \in DOMAIN p[d] \ {1} : \E n \in DOMAIN l : from[n] = i
  <2>1. ASSUME NEW i \in DOMAIN p[d] \ {1}
        PROVE  i - 1 \in DOMAIN l /\ from[i - 1] = i
    BY <1>1, <1>2, <1>3
  <2>. QED
    BY <2>1
<1>6. Picks(l, p[d], DOMAIN p[d] \ {1})
  <2>1. \A n \in DOMAIN l : l[n] = p[d][from[n]]
    BY <1>1, <1>3
  <2>2. \A m, n \in DOMAIN l : from[m] = from[n] => m = n
    BY <1>1, <1>2, <1>3
  <2>3. \A m, n \in DOMAIN l : m < n => from[m] < from[n]
    BY <1>1, <1>2, <1>3
  <2>. QED
    BY <1>4, <1>5, <2>1, <2>2, <2>3 DEF Picks
<1>7. 1 \in DOMAIN p[d] /\ Len(l) <= Len(p[d])
  BY <1>1, <1>2
<1>. HIDE DEF l
<1>8. Thinned([p EXCEPT ![d] = l], p, {p[d][1].sock})
  BY <1>1, <1>6, <1>7, OneListThinned
<1>. QED
  BY <1>1, <1>7, <1>8 DEF SocketsIn, l

\* pop() takes out the newest.
LEMMA PopThins ==
    ASSUME NEW p, IsPool(p), NEW d \in Dests, p[d] # <<>>
    PROVE  /\ Thinned([p EXCEPT ![d] = AllButNewest(@)], p, {Newest(p[d])})
           /\ Newest(p[d]) \in SocketsIn(p[d])
<1>. DEFINE l == AllButNewest(p[d])
            len == Len(p[d])
            from == [n \in DOMAIN l |-> n]
<1>1. len \in Nat \ {0} /\ DOMAIN p[d] = 1..len
  BY PoolLists, EmptySeq
<1>2. \A i \in 1..len - 1 : p[d][i] \in Entry
  BY <1>1, PoolLists
<1>3. /\ l \in Seq(Entry) /\ Len(l) = len - 1
      /\ \A n \in 1..Len(l) : l[n] = p[d][n]
  <2>1. /\ SubSeq(p[d], 1, len - 1) \in Seq(Entry)
        /\ Len(SubSeq(p[d], 1, len - 1)) =
              IF 1 <= len - 1 THEN (len - 1) - 1 + 1 ELSE 0
        /\ \A i \in 1..(len - 1) - 1 + 1 :
              SubSeq(p[d], 1, len - 1)[i] = p[d][1 + i - 1]
    BY <1>1, <1>2, SubSeqProperties
  <2>. QED
    BY <1>1, <2>1 DEF AllButNewest
<1>4. DOMAIN l = 1..Len(l)
  BY <1>3, LenProperties
<1>5. DOMAIN l = DOMAIN p[d] \ {len}
  BY <1>1, <1>3, <1>4
<1>6. Picks(l, p[d], DOMAIN p[d] \ {len})
  <2>1. from \in [DOMAIN l -> DOMAIN p[d] \ {len}]
    BY <1>5
  <2>. QED
    BY <1>3, <1>4, <1>5, <2>1 DEF Picks
<1>7. len \in DOMAIN p[d] /\ Len(l) <= Len(p[d])
  BY <1>1, <1>3
<1>. HIDE DEF l
<1>8. Thinned([p EXCEPT ![d] = l], p, {p[d][len].sock})
  BY <1>3, <1>6, <1>7, OneListThinned
<1>. QED
  BY <1>7, <1>8 DEF SocketsIn, Newest, l

\* The purge takes out what is unused for too long.
LEMMA KeptThins ==
    ASSUME NEW p, IsPool(p)
    PROVE  /\ Thinned([d \in Dests |-> Kept(p[d])], p,
                      UNION {Expired(p[d]) : d \in Dests})
           /\ \A d \in Dests : \A i \in DOMAIN Kept(p[d]) : ~Unused(Kept(p[d])[i])
<1>. DEFINE I == [d \in Dests |-> {i \in DOMAIN p[d] : ~Unused(p[d][i])}]
            q == [d \in Dests |-> Kept(p[d])]
            gone == UNION {Expired(p[d]) : d \in Dests}
<1>1. ASSUME NEW d \in Dests
      PROVE  /\ Kept(p[d]) \in Seq(Entry)
             /\ Picks(Kept(p[d]), p[d], I[d])
             /\ Len(Kept(p[d])) <= Len(p[d])
  <2>. DEFINE J == {i \in DOMAIN p[d] : ~Unused(p[d][i])}
  <2>1. J \in SUBSET (1..Len(p[d])) /\ p[d] \in Seq(Entry)
    BY PoolLists
  <2>2. Kept(p[d]) = AtPositions(p[d], J)
    BY DEF Kept
  <2>. HIDE DEF J
  <2>3. /\ Kept(p[d]) \in Seq(Entry) /\ Len(Kept(p[d])) = Cardinality(J)
        /\ Cardinality(J) \in Nat /\ Cardinality(J) <= Len(p[d])
    BY <2>1, <2>2, SelectionIsList
  <2>4. Picks(Kept(p[d]), p[d], J)
    BY <2>1, <2>2, SelectionIsList
  <2>. QED
    BY <2>3, <2>4 DEF J
<1>2. q \in [Dests -> Seq(Entry)]
  BY <1>1
<1>3. I \in [Dests -> SUBSET Nat] /\ \A e \in Dests : I[e] \subseteq DOMAIN p[e]
  BY PoolLists
<1>4. gone = UNION {{p[e][i].sock : i \in DOMAIN p[e] \ I[e]} : e \in Dests}
  <2>1. \A e \in Dests : Expired(p[e]) = {p[e][i].sock : i \in DOMAIN p[e] \ I[e]}
    BY DEF Expired
  <2>. QED
    BY SMTT(30), <2>1
<1>5. \A e \in Dests : Picks(q[e], p[e], I[e]) /\ Len(q[e]) <= Len(p[e])
  BY <1>1
<1>6. Thinned(q, p, gone)
  <2>. HIDE DEF q, I, gone
  <2>. QED
    BY <1>2, <1>3, <1>4, <1>5, PickedIsThinned
<1>7. ASSUME NEW d \in Dests, NEW n \in DOMAIN Kept(p[d])
      PROVE  ~Unused(Kept(p[d])[n])
  <2>1. Picks(Kept(p[d]), p[d], I[d])
    BY <1>1
  <2>. HIDE DEF I
  <2>2. PICK i \in I[d] : Kept(p[d])[n] = p[d][i]
    BY <2>1 DEF Picks
  <2>. QED
    BY <2>2 DEF I
<1>. QED
  BY <1>6, <1>7
----------------------------------------------------------------------------
(* What a thinner pool, and a pool with one socket more, is like.             *)

\* Thinning keeps the limits, the keys and the ages.
LEMMA ThinnedKeeps ==
    ASSUME NEW p, IsPool(p), NEW q, NEW gone, Thinned(q, p, gone)
    PROVE  /\ IsPool(q)
           /\ SocketsOf(q) = SocketsOf(p) \ gone
           /\ LimitOK(p) => LimitOK(q)
           /\ \A d \in Dests : Room(p, d) => Room(q, d)
           /\ \A ks : KeysOK(p, ks) => KeysOK(q, ks)
           /\ \A t : AgeOK(p, t) => AgeOK(q, t)
<1>1. IsPool(q)
  BY DEF Thinned
<1>2. SocketsOf(q) = SocketsOf(p) \ gone
  BY DEF Thinned, SocketsOf
<1>3. /\ LimitOK(p) => LimitOK(q)
      /\ \A d \in Dests : Room(p, d) => Room(q, d)
  <2>1. ASSUME _limitDestinationSize # NoLimit
        PROVE  DestinationLimit \in Nat
    BY <2>1, SocketPoolAssumption DEF DestinationLimit
  <2>2. ASSUME NEW d \in Dests
        PROVE  /\ Len(q[d]) \in Nat /\ Len(p[d]) \in Nat
               /\ Len(q[d]) <= Len(p[d])
    BY <1>1, PoolLists DEF Thinned
  <2>. QED
    BY <2>1, <2>2 DEF LimitOK, Room
<1>4. ASSUME NEW ks, KeysOK(p, ks) PROVE KeysOK(q, ks)
  <2>1. ASSUME NEW d \in Dests \ ks PROVE q[d] = <<>>
    <3>1. q[d] \in Seq(Entry) /\ Len(q[d]) \in Nat /\ Len(q[d]) <= Len(<<>>)
      BY <1>1, <1>4, PoolLists DEF Thinned, KeysOK
    <3>2. Len(<<>>) = 0
      BY EmptySeq
    <3>. QED
      BY <3>1, <3>2, EmptySeq
  <2>. QED
    BY <2>1 DEF KeysOK
<1>5. ASSUME NEW t, AgeOK(p, t) PROVE AgeOK(q, t)
  BY <1>5 DEF AgeOK, Thinned
<1>. QED
  BY <1>1, <1>2, <1>3, <1>4, <1>5

\* The pool in which a socket is put, behind the others of its destination.
With(p, d, s) == [p EXCEPT ![d] = Append(@, [sock |-> s, age |-> 0])]

LEMMA WithIsPool ==
    ASSUME NEW p, IsPool(p), NEW d \in Dests, NEW s \in Sockets,
           s \notin SocketsOf(p)
    PROVE  /\ IsPool(With(p, d, s))
           /\ \A e \in Dests : SocketsIn(With(p, d, s)[e]) =
                 SocketsIn(p[e]) \cup (IF e = d THEN {s} ELSE {})
           /\ SocketsOf(With(p, d, s)) = SocketsOf(p) \cup {s}
           /\ \A ks : KeysOK(p, ks) => KeysOK(With(p, d, s), ks \cup {d})
           /\ \A t : TimerOK(t) /\ AgeOK(p, t) => AgeOK(With(p, d, s), t)
           /\ LimitOK(p) /\ Room(p, d) => LimitOK(With(p, d, s))
<1>. DEFINE new == [sock |-> s, age |-> 0]
            l == Append(p[d], new)
            q == With(p, d, s)
            n == Len(p[d]) + 1
<1>1. new \in Entry /\ new.sock = s /\ new.age = 0
  BY DEF Entry
<1>2. p[d] \in Seq(Entry) /\ Len(p[d]) \in Nat /\ DOMAIN p[d] = 1..Len(p[d])
  BY PoolLists
<1>. HIDE DEF new
<1>3. /\ l \in Seq(Entry) /\ Len(l) = n
      /\ \A i \in 1..Len(p[d]) : l[i] = p[d][i]
      /\ l[n] = new
  BY <1>1, <1>2, AppendProperties
<1>4. DOMAIN l = 1..n
  BY <1>3, LenProperties
<1>5. /\ q \in [Dests -> Seq(Entry)]
      /\ \A e \in Dests : q[e] = IF e = d THEN l ELSE p[e]
  BY <1>3 DEF IsPool, With, new
<1>. HIDE DEF l, q
\* An entry of the new pool is the new one, or the old one at its place.
<1>6. ASSUME NEW e \in Dests, NEW i \in DOMAIN q[e]
      PROVE  \/ e = d /\ i = n /\ q[e][i] = new
             \/ i \in DOMAIN p[e] /\ q[e][i] = p[e][i]
  BY <1>2, <1>3, <1>4, <1>5
<1>7. ASSUME NEW e \in Dests, NEW i \in DOMAIN p[e]
      PROVE  i \in DOMAIN q[e] /\ q[e][i] = p[e][i]
  BY SMTT(30), <1>2, <1>3, <1>4, <1>5
<1>8. n \in DOMAIN q[d] /\ q[d][n] = new
  BY <1>2, <1>3, <1>4, <1>5
<1>9. ASSUME NEW e \in Dests, NEW i \in DOMAIN p[e] PROVE p[e][i].sock # s
  BY DEF SocketsOf, SocketsIn
<1>10. IsPool(q)
  <2>1. ASSUME NEW e \in Dests, NEW f \in Dests, NEW i \in DOMAIN q[e],
               NEW j \in DOMAIN q[f], q[e][i].sock = q[f][j].sock
        PROVE  e = f /\ i = j
    <3>1. CASE q[e][i] = new /\ e = d /\ i = n
      BY <1>1, <1>6, <1>9, <2>1, <3>1
    <3>2. CASE i \in DOMAIN p[e] /\ q[e][i] = p[e][i]
      BY SMTT(30), <1>1, <1>6, <1>9, <2>1, <3>2 DEF IsPool
    <3>. QED
      BY <1>6, <3>1, <3>2
  <2>. QED
    BY <1>5, <2>1 DEF IsPool
<1>11. ASSUME NEW e \in Dests
       PROVE  SocketsIn(q[e]) = SocketsIn(p[e]) \cup (IF e = d THEN {s} ELSE {})
  <2>1. SocketsIn(q[e]) \subseteq SocketsIn(p[e]) \cup (IF e = d THEN {s} ELSE {})
    BY <1>1, <1>6 DEF SocketsIn
  <2>2. SocketsIn(p[e]) \subseteq SocketsIn(q[e])
    BY <1>7 DEF SocketsIn
  <2>3. e = d => s \in SocketsIn(q[e])
    BY <1>1, <1>8 DEF SocketsIn
  <2>. QED
    BY <2>1, <2>2, <2>3
<1>12. SocketsOf(q) = SocketsOf(p) \cup {s}
  BY <1>11 DEF SocketsOf
<1>13. ASSUME NEW ks, KeysOK(p, ks) PROVE KeysOK(q, ks \cup {d})
  BY <1>5, <1>13 DEF KeysOK
<1>14. ASSUME NEW t, TimerOK(t), AgeOK(p, t) PROVE AgeOK(q, t)
  <2>1. ASSUME _unusedTimeout # NoLimit
        PROVE  _unusedTimeout \in Nat /\ t \in 0.._unusedTimeout
    BY <1>14, <2>1, SocketPoolAssumption DEF TimerOK
  <2>2. ASSUME _unusedTimeout # NoLimit PROVE new.age + t <= 2 * _unusedTimeout
    BY <1>1, <2>1, <2>2
  <2>. QED
    BY <1>6, <1>14, <2>2 DEF AgeOK
<1>15. ASSUME LimitOK(p), Room(p, d) PROVE LimitOK(q)
  BY <1>3, <1>5, <1>15 DEF LimitOK, Room
<1>. QED
  BY <1>10, <1>11, <1>12, <1>13, <1>14, <1>15 DEF q

\* A pool without entries.
LEMMA EmptyPool ==
    ASSUME NEW p, p = [d \in Dests |-> <<>>]
    PROVE  /\ IsPool(p) /\ SocketsOf(p) = {} /\ KeysOK(p, {}) /\ LimitOK(p)
           /\ \A t : AgeOK(p, t)
<1>1. /\ <<>> \in Seq(Entry) /\ Len(<<>>) = 0
      /\ DOMAIN <<>> = {}
  BY EmptySeq, LenProperties
<1>2. IsPool(p)
  BY <1>1 DEF IsPool
<1>3. SocketsOf(p) = {}
  BY <1>1 DEF SocketsOf, SocketsIn
<1>4. KeysOK(p, {}) /\ LimitOK(p)
  BY <1>1, SocketPoolAssumption DEF KeysOK, LimitOK, DestinationLimit
<1>5. ASSUME NEW t PROVE AgeOK(p, t)
  BY <1>1 DEF AgeOK
<1>. QED
  BY <1>2, <1>3, <1>4, <1>5
----------------------------------------------------------------------------
(* The invariant.                                                             *)

TotalOK(total) == _limitTotalSize # NoLimit => total <= _limitTotalSize

\* IInv and IdleIsBounded, of the pool as it is, with the ages and the timer
\* together: what they are at the next purge bounds what they are now.
SocketPoolInv ==
    /\ IsPool(_pool) /\ LimitOK(_pool)
    /\ keys \subseteq Dests /\ KeysOK(_pool, keys)
    /\ TimerOK(timer) /\ AgeOK(_pool, timer)
    /\ _poolSize = Cardinality(SocketsOf(_pool)) /\ TotalOK(_poolSize)
    /\ held \subseteq Sockets /\ SocketsOf(_pool) \cap held = {}
    /\ open = SocketsOf(_pool) \cup held

\* It says what the properties say.
LEMMA SocketPoolInvMeans ==
    ASSUME SocketPoolInv
    PROVE  IInv /\ IdleIsBounded
<1>. USE DEF SocketPoolInv
<1>1. Pooled = SocketsOf(_pool)
  BY DEF Pooled, SocketsOf
<1>2. timer \in Nat \cup {NoLimit} /\ (_unusedTimeout # NoLimit => timer \in Nat)
  BY SocketPoolAssumption DEF TimerOK
<1>3. TypeOK
  BY <1>2, PoolFinite DEF TypeOK, IsPool, KeysOK
<1>4. PoolSizeCounts /\ OneOwner
  BY <1>1 DEF PoolSizeCounts, OneOwner, IsPool
<1>5. WithinLimits
  BY <1>1 DEF WithinLimits, TotalOK, LimitOK, DestinationLimit
<1>6. ASSUME _unusedTimeout # NoLimit, NEW d \in Dests, NEW i \in DOMAIN _pool[d]
      PROVE  _pool[d][i].age <= 2 * _unusedTimeout
  <2>1. _pool[d][i].age \in Nat /\ timer \in Nat /\ _unusedTimeout \in Nat
    BY <1>2, <1>6, PoolLists, SocketPoolAssumption
  <2>2. _pool[d][i].age + timer <= 2 * _unusedTimeout
    BY <1>6 DEF AgeOK
  <2>. QED
    BY <2>1, <2>2
<1>. QED
  BY <1>3, <1>4, <1>5, <1>6 DEF IInv, IdleIsBounded

\* A new pool is empty, and has set its timer.
LEMMA SocketPoolStart ==
    ASSUME Init
    PROVE  SocketPoolInv
<1>1. Cardinality({}) = 0
  BY FS_EmptySet
<1>2. TimerOK(timer) /\ TotalOK(0)
  BY SocketPoolAssumption DEF Init, TimerOK, TotalOK
<1>. QED
  BY <1>1, <1>2, EmptyPool DEF Init, SocketPoolInv

\* A pool nothing is taken from.
LEMMA NothingThinned ==
    ASSUME NEW p, IsPool(p)
    PROVE  Thinned(p, p, {})
<1>1. \A e \in Dests : Len(p[e]) <= Len(p[e])
  BY PoolLists
<1>. QED
  BY <1>1 DEF Thinned

\* The size of a pool one socket is taken from, and put in.
LEMMA Sizes ==
    ASSUME NEW p, IsPool(p), NEW s
    PROVE  /\ s \in SocketsOf(p) =>
                 Cardinality(SocketsOf(p) \ {s}) = Cardinality(SocketsOf(p)) - 1
           /\ s \notin SocketsOf(p) =>
                 Cardinality(SocketsOf(p) \cup {s}) = Cardinality(SocketsOf(p)) + 1
BY PoolFinite, FS_AddElement, FS_RemoveElement

\* What the first half of _purgeSocksIfOversized takes out.
Oldest(d) == IF DestinationFull(d) THEN {_pool[d][1].sock} ELSE {}

\* It makes room, and counts.
LEMMA PurgeMakesRoom ==
    ASSUME SocketPoolInv, NEW d \in Dests
    PROVE  /\ Thinned(PurgedDestination(d), _pool, Oldest(d))
           /\ Oldest(d) \subseteq SocketsOf(_pool)
           /\ SizeAfterPurge(d) = Cardinality(SocketsOf(PurgedDestination(d)))
           /\ SizeAfterPurge(d) <= _poolSize
           /\ Room(PurgedDestination(d), d)
<1>. USE DEF SocketPoolInv
<1>. DEFINE q == PurgedDestination(d)
<1>1. _poolSize \in Nat
  BY PoolFinite
<1>2. _pool[d] \in Seq(Entry) /\ Len(_pool[d]) \in Nat
  BY PoolLists
<1>3. _limitDestinationSize # NoLimit => _limitDestinationSize \in Nat
  BY SocketPoolAssumption
<1>4. CASE DestinationFull(d)
  <2>1. /\ Thinned(q, _pool, Oldest(d))
        /\ _pool[d][1].sock \in SocketsOf(_pool)
        /\ Len(Tail(_pool[d])) = Len(_pool[d]) - 1
    BY <1>4, TailThins DEF DestinationFull, PurgedDestination, Oldest, SocketsOf
  <2>2. SocketsOf(q) = SocketsOf(_pool) \ {_pool[d][1].sock}
    BY <1>4, <2>1, ThinnedKeeps DEF Oldest
  <2>3. SizeAfterPurge(d) = Cardinality(SocketsOf(q))
    BY <1>4, <2>1, <2>2, Sizes DEF SizeAfterPurge
  <2>4. q[d] = Tail(_pool[d])
    BY <1>4 DEF PurgedDestination, IsPool
  <2>5. Room(q, d)
    BY <1>2, <1>3, <1>4, <2>1, <2>4
    DEF DestinationFull, Room, LimitOK, DestinationLimit
  <2>. QED
    BY <1>1, <1>4, <2>1, <2>3, <2>5 DEF Oldest, SizeAfterPurge
<1>5. CASE ~DestinationFull(d)
  <2>1. q = _pool /\ Oldest(d) = {} /\ SizeAfterPurge(d) = _poolSize
    BY <1>5 DEF PurgedDestination, Oldest, SizeAfterPurge
  <2>2. _pool[d] = <<>> => Len(_pool[d]) = 0
    BY EmptySeq
  <2>3. Room(q, d)
    BY <1>2, <1>3, <1>5, <2>1, <2>2 DEF DestinationFull, Room, DestinationLimit
  <2>. QED
    BY <1>1, <2>1, <2>3, NothingThinned
<1>. QED
  BY <1>4, <1>5
----------------------------------------------------------------------------
(* The steps: each keeps the invariant, and is a step of IdleConnections or   *)
(* none.                                                                      *)

IdleStep == [Idle!Next]_(Idle!vars)

\* What is idle for each destination.
IdleOf(p) == [d \in Dests |-> SocketsIn(p[d])]

\* The sockets in the pool are those that are idle.
LEMMA AllIdlePooled ==
    Idle!AllIdle = SocketsOf(_pool)
BY DEF Idle!AllIdle, SocketsOf

\* A client opens or closes a socket of its own.
LEMMA PoolClients ==
    ASSUME SocketPoolInv, NEW s \in Sockets, Connect(s) \/ ClientCloses(s)
    PROVE  SocketPoolInv' /\ IdleStep
<1>1. Pooled = SocketsOf(_pool)
  BY DEF Pooled, SocketsOf
<1>2. SocketPoolInv'
  BY <1>1 DEF Connect, ClientCloses, SocketPoolInv
<1>3. Idle!Connect(s) \/ Idle!Close(s)
  BY <1>1, AllIdlePooled DEF Connect, ClientCloses, Idle!Connect, Idle!Close
<1>. QED
  BY <1>2, <1>3 DEF IdleStep, Idle!Next

\* A client gets the newest socket for its destination.
LEMMA PoolGet ==
    ASSUME SocketPoolInv, NEW d \in Dests, GetPooledSocket(d)
    PROVE  SocketPoolInv' /\ IdleStep
<1>. DEFINE s == Newest(_pool[d])
<1>. USE DEF SocketPoolInv
<1>1. Thinned(_pool', _pool, {s}) /\ s \in SocketsIn(_pool[d])
  BY PopThins DEF GetPooledSocket
<1>2. s \in SocketsOf(_pool) /\ s \in Sockets
  BY <1>1, PoolLists DEF SocketsOf
<1>3. /\ IsPool(_pool') /\ LimitOK(_pool') /\ KeysOK(_pool', keys)
      /\ AgeOK(_pool', timer)
      /\ SocketsOf(_pool') = SocketsOf(_pool) \ {s}
  BY <1>1, ThinnedKeeps
<1>4. /\ Cardinality(SocketsOf(_pool')) = _poolSize - 1
      /\ _poolSize \in Nat
  BY <1>2, <1>3, Sizes, PoolFinite
<1>5. TotalOK(_poolSize - 1)
  BY <1>4, SocketPoolAssumption DEF TotalOK
<1>. HIDE DEF s
<1>6. SocketPoolInv'
  BY <1>1, <1>2, <1>3, <1>4, <1>5 DEF GetPooledSocket, s
<1>7. Idle!Get(d, s)
  <2>1. \A e \in Dests : e # d => s \notin SocketsIn(_pool[e])
    BY <1>1 DEF IsPool, SocketsIn
  <2>2. \A e \in Dests :
           SocketsIn(_pool'[e]) = IF e = d THEN SocketsIn(_pool[d]) \ {s}
                                  ELSE SocketsIn(_pool[e])
    <3>1. \A e \in Dests : SocketsIn(_pool'[e]) = SocketsIn(_pool[e]) \ {s}
      BY <1>1 DEF Thinned
    <3>2. \A e \in Dests : e # d => SocketsIn(_pool[e]) \ {s} = SocketsIn(_pool[e])
      BY <2>1
    <3>. QED
      BY <3>1, <3>2
  <2>3. IdleOf(_pool') = [IdleOf(_pool) EXCEPT ![d] = @ \ {s}]
    BY <2>2 DEF IdleOf
  <2>. QED
    BY <1>1, <2>3 DEF GetPooledSocket, Idle!Get, IdleOf, s
<1>. QED
  BY <1>2, <1>6, <1>7 DEF IdleStep, Idle!Next

\* The key of an empty list goes, and nothing else.
LEMMA PoolGetEmpty ==
    ASSUME SocketPoolInv, NEW d \in Dests, GetFromEmptyList(d)
    PROVE  SocketPoolInv' /\ IdleStep
<1>1. SocketPoolInv'
  BY DEF GetFromEmptyList, SocketPoolInv, SocketsOf, IsPool, LimitOK, KeysOK,
     TimerOK, AgeOK, TotalOK
<1>. QED
  BY <1>1 DEF GetFromEmptyList, IdleStep, Idle!vars

\* The abstract pool accepts a socket when what is dropped for it was idle, and
\* the limit is kept.
LEMMA PutIsPut ==
    ASSUME SocketPoolInv, SocketPoolInv', NEW d \in Dests, NEW s \in held,
           NEW gone, gone \subseteq SocketsOf(_pool), held' = held \ {s},
           \A e \in Dests : SocketsIn(_pool'[e]) =
              (SocketsIn(_pool[e]) \ gone) \cup (IF e = d THEN {s} ELSE {})
    PROVE  IdleStep
<1>. DEFINE limit == IF _limitTotalSize = NoLimit THEN Cardinality(Sockets)
                     ELSE _limitTotalSize
<1>1. Cardinality(SocketsOf(_pool')) <= limit
  <2>1. CASE _limitTotalSize = NoLimit
    BY <2>1, PoolFinite, FS_Subset, SocketPoolAssumption DEF SocketPoolInv
  <2>2. CASE _limitTotalSize # NoLimit
    BY <2>2 DEF SocketPoolInv, TotalOK
  <2>. QED
    BY <2>1, <2>2
<1>2. UNION {IdleOf(_pool')[e] : e \in Dests} = SocketsOf(_pool')
  BY DEF IdleOf, SocketsOf
<1>3. IdleOf(_pool') = [e \in Dests |-> (IdleOf(_pool)[e] \ gone) \cup
                                         (IF e = d THEN {s} ELSE {})]
  BY DEF IdleOf
<1>4. Idle!Put(d, s, gone)
  <2>1. \A S : Idle!Cardinality(S) = Cardinality(S)
    BY DEF Idle!Cardinality, Cardinality
  <2>. QED
    BY <1>1, <1>2, <1>3, <2>1 DEF Idle!Put, IdleOf
<1>5. s \in Sockets /\ gone \in SUBSET Idle!AllIdle
  BY AllIdlePooled DEF SocketPoolInv
<1>. QED
  BY <1>4, <1>5 DEF IdleStep, Idle!Next

\* A socket is put in the pool, in which there is room, or is made, in its list.
LEMMA PoolPut ==
    ASSUME SocketPoolInv, NEW d \in Dests, NEW s \in Sockets,
           PutSocketInPool(d, s)
    PROVE  SocketPoolInv' /\ IdleStep
<1>. DEFINE q == PurgedDestination(d)
<1>. USE DEF SocketPoolInv
<1>1. /\ Thinned(q, _pool, Oldest(d)) /\ Oldest(d) \subseteq SocketsOf(_pool)
      /\ SizeAfterPurge(d) = Cardinality(SocketsOf(q))
      /\ Room(q, d)
  BY PurgeMakesRoom
<1>. HIDE DEF q
<1>2. /\ IsPool(q) /\ LimitOK(q) /\ KeysOK(q, keys) /\ AgeOK(q, timer)
      /\ SocketsOf(q) = SocketsOf(_pool) \ Oldest(d)
  BY <1>1, ThinnedKeeps
<1>3. s \in held /\ s \notin SocketsOf(_pool)
  BY DEF PutSocketInPool
<1>4. _pool' = With(q, d, s)
  BY DEF PutSocketInPool, With, q
<1>5. /\ IsPool(_pool') /\ LimitOK(_pool') /\ KeysOK(_pool', keys \cup {d})
      /\ AgeOK(_pool', timer)
      /\ SocketsOf(_pool') = SocketsOf(q) \cup {s}
      /\ \A e \in Dests : SocketsIn(_pool'[e]) =
            SocketsIn(q[e]) \cup (IF e = d THEN {s} ELSE {})
  BY <1>1, <1>2, <1>3, <1>4, WithIsPool
<1>6. /\ Cardinality(SocketsOf(_pool')) = _poolSize'
      /\ SizeAfterPurge(d) \in Nat
  <2>1. s \notin SocketsOf(q)
    BY <1>2, <1>3
  <2>2. Cardinality(SocketsOf(q) \cup {s}) = Cardinality(SocketsOf(q)) + 1
    BY <1>2, <2>1, Sizes
  <2>3. Cardinality(SocketsOf(q)) \in Nat
    BY <1>2, PoolFinite
  <2>4. _poolSize' = SizeAfterPurge(d) + 1
    BY DEF PutSocketInPool
  <2>. QED
    BY <1>1, <1>5, <2>2, <2>3, <2>4
<1>7. TotalOK(_poolSize')
  BY <1>6, SocketPoolAssumption DEF PutSocketInPool, TotalFull, TotalOK
<1>8. open' = SocketsOf(_pool') \cup held'
  <2>1. open' = open \ Oldest(d)
    BY DEF PutSocketInPool, Oldest
  <2>. QED
    BY <1>1, <1>2, <1>3, <1>5, <2>1 DEF PutSocketInPool
<1>9. SocketPoolInv'
  BY <1>3, <1>5, <1>6, <1>7, <1>8, <1>2 DEF PutSocketInPool
<1>10. \A e \in Dests : SocketsIn(_pool'[e]) =
          (SocketsIn(_pool[e]) \ Oldest(d)) \cup (IF e = d THEN {s} ELSE {})
  BY <1>1, <1>5 DEF Thinned
<1>11. held' = held \ {s}
  BY DEF PutSocketInPool
<1>. HIDE DEF SocketPoolInv
<1>12. IdleStep
  BY <1>1, <1>3, <1>9, <1>10, <1>11, PutIsPut
<1>. QED
  BY <1>9, <1>12

\* A socket is put in a full pool, out of which the newest of a destination goes.
LEMMA PoolPutFull ==
    ASSUME SocketPoolInv, NEW d \in Dests, NEW victim \in Dests,
           NEW s \in Sockets, NEW tried \in SUBSET Dests,
           PutSocketInFullPool(d, s, victim, tried)
    PROVE  SocketPoolInv' /\ IdleStep
<1>. DEFINE q == PurgedDestination(d)
            r == [q EXCEPT ![victim] = AllButNewest(@)]
            v == Newest(q[victim])
            gone == Oldest(d) \cup {v}
<1>. USE DEF SocketPoolInv
<1>1. /\ Thinned(q, _pool, Oldest(d)) /\ Oldest(d) \subseteq SocketsOf(_pool)
      /\ SizeAfterPurge(d) = Cardinality(SocketsOf(q))
      /\ SizeAfterPurge(d) <= _poolSize
      /\ Room(q, d)
  BY PurgeMakesRoom
<1>2. q[victim] # <<>> /\ tried \subseteq {e \in keys : q[e] = <<>>}
  BY DEF PutSocketInFullPool
<1>. HIDE DEF q
<1>3. /\ IsPool(q) /\ LimitOK(q) /\ KeysOK(q, keys) /\ AgeOK(q, timer)
      /\ SocketsOf(q) = SocketsOf(_pool) \ Oldest(d)
  BY <1>1, ThinnedKeeps
<1>4. KeysOK(q, keys \ tried)
  BY <1>2, <1>3 DEF KeysOK
<1>5. Thinned(r, q, {v}) /\ v \in SocketsIn(q[victim])
  BY <1>2, <1>3, PopThins
<1>6. v \in SocketsOf(q)
  BY <1>5 DEF SocketsOf
<1>. HIDE DEF r, v
<1>7. /\ IsPool(r) /\ LimitOK(r) /\ KeysOK(r, keys \ tried) /\ AgeOK(r, timer)
      /\ SocketsOf(r) = SocketsOf(q) \ {v}
      /\ Room(r, d)
  BY <1>1, <1>3, <1>4, <1>5, ThinnedKeeps
<1>8. s \in held /\ s \notin SocketsOf(_pool)
  BY DEF PutSocketInFullPool
<1>9. _pool' = With(r, d, s)
  BY DEF PutSocketInFullPool, With, q, r
<1>10. /\ IsPool(_pool') /\ LimitOK(_pool')
       /\ KeysOK(_pool', (keys \ tried) \cup {d}) /\ AgeOK(_pool', timer)
       /\ SocketsOf(_pool') = SocketsOf(r) \cup {s}
       /\ \A e \in Dests : SocketsIn(_pool'[e]) =
             SocketsIn(r[e]) \cup (IF e = d THEN {s} ELSE {})
  <2>1. s \notin SocketsOf(r)
    BY <1>3, <1>7, <1>8
  <2>2. TimerOK(timer)
    OBVIOUS
  <2>. QED
    BY <1>7, <1>9, <2>1, <2>2, WithIsPool
<1>11. /\ Cardinality(SocketsOf(_pool')) = _poolSize'
       /\ _poolSize' \in Nat /\ _poolSize' <= _poolSize /\ _poolSize \in Nat
  <2>1. Cardinality(SocketsOf(r)) = Cardinality(SocketsOf(q)) - 1
    BY <1>3, <1>6, <1>7, Sizes
  <2>2. s \notin SocketsOf(r)
    BY <1>3, <1>7, <1>8
  <2>3. Cardinality(SocketsOf(_pool')) = Cardinality(SocketsOf(r)) + 1
    BY <1>7, <1>10, <2>2, Sizes
  <2>4. Cardinality(SocketsOf(r)) \in Nat /\ Cardinality(SocketsOf(q)) \in Nat
        /\ _poolSize \in Nat
    BY <1>3, <1>7, PoolFinite
  <2>5. _poolSize' = SizeAfterPurge(d)
    BY DEF PutSocketInFullPool
  <2>. QED
    BY <1>1, <2>1, <2>3, <2>4, <2>5
<1>12. TotalOK(_poolSize')
  BY <1>11, SocketPoolAssumption DEF TotalOK
<1>13. gone \subseteq SocketsOf(_pool)
  BY <1>1, <1>3, <1>6
<1>14. SocketsOf(_pool') = (SocketsOf(_pool) \ gone) \cup {s}
  BY <1>3, <1>7, <1>10
<1>15. open' = SocketsOf(_pool') \cup held' /\ held' = held \ {s}
  <2>1. open' = open \ gone /\ held' = held \ {s}
    BY DEF PutSocketInFullPool, Oldest, q, v
  <2>. QED
    BY <1>8, <1>13, <1>14, <2>1
<1>16. /\ keys' = (keys \ tried) \cup {d} /\ timer' = timer
  BY DEF PutSocketInFullPool
<1>17. SocketPoolInv'
  BY <1>8, <1>10, <1>11, <1>12, <1>14, <1>15, <1>16
<1>18. \A e \in Dests : SocketsIn(_pool'[e]) =
          (SocketsIn(_pool[e]) \ gone) \cup (IF e = d THEN {s} ELSE {})
  <2>1. \A e \in Dests : SocketsIn(r[e]) = SocketsIn(_pool[e]) \ gone
    BY <1>1, <1>5 DEF Thinned
  <2>. QED
    BY <1>10, <2>1
<1>. HIDE DEF SocketPoolInv, gone
<1>19. IdleStep
  BY <1>8, <1>13, <1>15, <1>17, <1>18, PutIsPut
<1>. QED
  BY <1>17, <1>19

\* What is dropped is no longer idle.
LEMMA DropIsDrop ==
    ASSUME SocketPoolInv, NEW gone, gone \subseteq SocketsOf(_pool),
           held' = held,
           \A e \in Dests : SocketsIn(_pool'[e]) = SocketsIn(_pool[e]) \ gone
    PROVE  IdleStep
<1>1. IdleOf(_pool') = [e \in Dests |-> IdleOf(_pool)[e] \ gone]
  BY DEF IdleOf
<1>2. Idle!Drop(gone)
  BY <1>1 DEF Idle!Drop, IdleOf
<1>3. gone \in SUBSET Idle!AllIdle
  BY AllIdlePooled
<1>. QED
  BY <1>2, <1>3 DEF IdleStep, Idle!Next

\* The purge leaves nothing that is older than a timeout, when the timer is set
\* to a timeout again.
LEMMA PoolUnused ==
    ASSUME SocketPoolInv, UnusedTimeout
    PROVE  SocketPoolInv' /\ IdleStep
<1>. DEFINE gone == UNION {Expired(_pool[d]) : d \in Dests}
<1>. USE DEF SocketPoolInv
<1>1. /\ _pool' = [d \in Dests |-> Kept(_pool[d])]
      /\ open' = open \ gone /\ _poolSize' = _poolSize - Cardinality(gone)
      /\ timer = 0 /\ timer' = _unusedTimeout
      /\ UNCHANGED <<keys, held>>
  BY DEF UnusedTimeout
<1>2. /\ Thinned(_pool', _pool, gone)
      /\ \A d \in Dests : \A i \in DOMAIN _pool'[d] : ~Unused(_pool'[d][i])
  BY <1>1, KeptThins
<1>3. /\ IsPool(_pool') /\ LimitOK(_pool') /\ KeysOK(_pool', keys)
      /\ SocketsOf(_pool') = SocketsOf(_pool) \ gone
  BY <1>2, ThinnedKeeps
<1>4. gone \subseteq SocketsOf(_pool)
  BY DEF Expired, SocketsOf, SocketsIn
<1>. HIDE DEF gone
<1>5. _unusedTimeout # NoLimit => _unusedTimeout \in Nat
  BY SocketPoolAssumption
<1>6. TimerOK(timer')
  BY <1>1, <1>5 DEF TimerOK
<1>7. AgeOK(_pool', timer')
  <2>1. ASSUME _unusedTimeout # NoLimit, NEW d \in Dests, NEW i \in DOMAIN _pool'[d]
        PROVE  _pool'[d][i].age + timer' <= 2 * _unusedTimeout
    <3>1. _pool'[d][i].age \in Nat
      BY <1>3, PoolLists
    <3>2. ~(_pool'[d][i].age > _unusedTimeout)
      BY <1>2 DEF Unused
    <3>. QED
      BY <1>1, <1>5, <2>1, <3>1, <3>2
  <2>. QED
    BY <2>1 DEF AgeOK
<1>8. /\ _poolSize' = Cardinality(SocketsOf(_pool'))
      /\ _poolSize \in Nat /\ _poolSize' <= _poolSize /\ _poolSize' \in Nat
  <2>1. IsFiniteSet(SocketsOf(_pool)) /\ IsFiniteSet(gone)
    BY <1>4, PoolFinite, FS_Subset
  <2>2. gone \cap SocketsOf(_pool) = gone
    BY <1>4
  <2>3. Cardinality(SocketsOf(_pool) \ gone) =
           Cardinality(SocketsOf(_pool)) - Cardinality(gone)
    BY <2>1, <2>2, FS_Difference
  <2>4. /\ Cardinality(gone) \in Nat /\ Cardinality(SocketsOf(_pool)) \in Nat
        /\ Cardinality(SocketsOf(_pool')) \in Nat
    BY <1>3, <2>1, FS_CardinalityType, PoolFinite
  <2>5. Cardinality(SocketsOf(_pool')) = _poolSize - Cardinality(gone)
    BY <1>3, <2>3
  <2>6. _poolSize' = Cardinality(SocketsOf(_pool'))
    BY <1>1, <2>5
  <2>. QED
    BY <1>1, <2>4, <2>6
<1>9. TotalOK(_poolSize')
  BY <1>8, SocketPoolAssumption DEF TotalOK
<1>10. SocketPoolInv'
  BY <1>1, <1>3, <1>4, <1>6, <1>7, <1>8, <1>9
<1>11. IdleStep
  BY <1>1, <1>2, <1>4, DropIsDrop DEF Thinned
<1>. QED
  BY <1>10, <1>11

\* The clock makes every entry older, and the purge nearer, by as much.
LEMMA PoolTick ==
    ASSUME SocketPoolInv, Tick
    PROVE  SocketPoolInv' /\ IdleStep
<1>. USE DEF SocketPoolInv
<1>1. /\ timer # NoLimit /\ timer > 0 /\ timer' = timer - 1
      /\ _pool' = [d \in Dests |-> [i \in DOMAIN _pool[d] |->
                      [_pool[d][i] EXCEPT !.age = @ + 1]]]
      /\ UNCHANGED <<keys, _poolSize, open, held>>
  BY DEF Tick
<1>2. ASSUME NEW d \in Dests
      PROVE  /\ _pool'[d] \in Seq(Entry) /\ DOMAIN _pool'[d] = DOMAIN _pool[d]
             /\ Len(_pool'[d]) = Len(_pool[d])
             /\ \A i \in DOMAIN _pool[d] :
                   /\ _pool'[d][i].sock = _pool[d][i].sock
                   /\ _pool'[d][i].age = _pool[d][i].age + 1
  <2>1. /\ Len(_pool[d]) \in Nat /\ DOMAIN _pool[d] = 1..Len(_pool[d])
        /\ \A i \in DOMAIN _pool[d] : _pool[d][i] \in Entry
    BY PoolLists
  <2>2. _pool'[d] = [i \in DOMAIN _pool[d] |-> [_pool[d][i] EXCEPT !.age = @ + 1]]
    BY <1>1
  <2>3. \A i \in DOMAIN _pool[d] :
           /\ _pool'[d][i] \in Entry
           /\ _pool'[d][i].sock = _pool[d][i].sock
           /\ _pool'[d][i].age = _pool[d][i].age + 1
    <3>1. ASSUME NEW e \in Entry
          PROVE  LET older == [e EXCEPT !.age = @ + 1]
                 IN older \in Entry /\ older.sock = e.sock /\ older.age = e.age + 1
      BY DEF Entry
    <3>2. \A i \in DOMAIN _pool[d] :
             _pool'[d][i] = [_pool[d][i] EXCEPT !.age = @ + 1]
      BY <2>2
    <3>. QED
      BY <2>1, <3>1, <3>2
  <2>4. _pool'[d] \in [1..Len(_pool[d]) -> Entry]
    BY <2>1, <2>2, <2>3
  <2>5. _pool'[d] \in Seq(Entry)
    BY <2>1, <2>4, SeqDef
  <2>6. DOMAIN _pool'[d] = 1..Len(_pool'[d]) /\ Len(_pool'[d]) \in Nat
    BY <2>5, LenProperties
  <2>7. DOMAIN _pool'[d] = 1..Len(_pool[d])
    BY <2>4
  <2>8. Len(_pool'[d]) = Len(_pool[d])
    BY <2>1, <2>6, <2>7
  <2>. QED
    BY <2>1, <2>3, <2>5, <2>7, <2>8
<1>3. IsPool(_pool')
  BY <1>1, <1>2 DEF IsPool
<1>4. \A e \in Dests : SocketsIn(_pool'[e]) = SocketsIn(_pool[e])
  BY <1>2 DEF SocketsIn
<1>5. SocketsOf(_pool') = SocketsOf(_pool)
  BY <1>4 DEF SocketsOf
<1>6. LimitOK(_pool')
  BY <1>2 DEF LimitOK
<1>7. KeysOK(_pool', keys)
  <2>1. ASSUME NEW d \in Dests \ keys PROVE _pool'[d] = <<>>
    <3>1. _pool'[d] \in Seq(Entry) /\ Len(_pool'[d]) = Len(<<>>)
      BY <1>2 DEF KeysOK
    <3>. QED
      BY <3>1, EmptySeq
  <2>. QED
    BY <2>1 DEF KeysOK
<1>8. TimerOK(timer')
  BY <1>1, SocketPoolAssumption DEF TimerOK
<1>9. AgeOK(_pool', timer')
  <2>1. ASSUME _unusedTimeout # NoLimit, NEW d \in Dests, NEW i \in DOMAIN _pool'[d]
        PROVE  _pool'[d][i].age + timer' <= 2 * _unusedTimeout
    <3>1. /\ i \in DOMAIN _pool[d] /\ _pool'[d][i].age = _pool[d][i].age + 1
          /\ _pool[d][i].age \in Nat
      BY <1>2, PoolLists
    <3>2. timer \in Nat
      BY <2>1, SocketPoolAssumption DEF TimerOK
    <3>3. _pool[d][i].age + timer <= 2 * _unusedTimeout
      BY <2>1, <3>1 DEF AgeOK
    <3>4. (_pool[d][i].age + 1) + (timer - 1) = _pool[d][i].age + timer
      BY <3>1, <3>2
    <3>. QED
      BY <1>1, <3>1, <3>3, <3>4
  <2>. QED
    BY <2>1 DEF AgeOK
<1>10. SocketPoolInv'
  BY <1>1, <1>3, <1>5, <1>6, <1>7, <1>8, <1>9
<1>11. IdleStep
  BY <1>1, <1>4 DEF IdleStep, Idle!vars
<1>. QED
  BY <1>10, <1>11

\* __del__ closes what is in the pool; the new one is empty.
LEMMA PoolDelete ==
    ASSUME SocketPoolInv, Delete
    PROVE  SocketPoolInv' /\ IdleStep
<1>. USE DEF SocketPoolInv
<1>1. /\ _pool' = [d \in Dests |-> <<>>] /\ keys' = {} /\ _poolSize' = 0
      /\ timer' = _unusedTimeout /\ open' = open \ SocketsOf(_pool)
      /\ held' = held
  BY DEF Delete, Pooled, SocketsOf
<1>2. /\ IsPool(_pool') /\ SocketsOf(_pool') = {} /\ KeysOK(_pool', {})
      /\ LimitOK(_pool') /\ AgeOK(_pool', timer')
  BY <1>1, EmptyPool
<1>3. TimerOK(timer') /\ TotalOK(0) /\ Cardinality({}) = 0
  BY <1>1, SocketPoolAssumption, FS_EmptySet DEF TimerOK, TotalOK
<1>4. SocketPoolInv'
  BY <1>1, <1>2, <1>3
<1>5. \A e \in Dests : SocketsIn(_pool'[e]) = SocketsIn(_pool[e]) \ SocketsOf(_pool)
  <2>1. \A e \in Dests : SocketsIn(_pool'[e]) = {}
    BY <1>2 DEF SocketsOf
  <2>. QED
    BY <2>1 DEF SocketsOf
<1>6. IdleStep
  BY <1>1, <1>5, DropIsDrop
<1>. QED
  BY <1>4, <1>6

\* Every step.
LEMMA SocketPoolStep ==
    ASSUME SocketPoolInv, [Next]_vars
    PROVE  SocketPoolInv' /\ IdleStep
<1>1. CASE UNCHANGED vars
  BY <1>1 DEF vars, SocketPoolInv, IdleStep, Idle!vars
<1>2. CASE Next
  BY <1>2, PoolClients, PoolGet, PoolGetEmpty, PoolPut, PoolPutFull, PoolUnused,
     PoolTick, PoolDelete
  DEF Next
<1>. QED
  BY <1>1, <1>2

\* The invariant holds in every state.
LEMMA SocketPoolAlways == Spec => []SocketPoolInv
BY SocketPoolStart, SocketPoolStep, PTL DEF Spec

----------------------------------------------------------------------------
\* _poolSize counts the sockets in the lists, no socket has two owners or none,
\* and the limits hold (putSocketInPool, getPooledSocket and the purge together).
THEOREM PoolIsSound == Spec => []IInv
BY SocketPoolAlways, SocketPoolInvMeans, PTL

\* No socket stays in the pool for more than two timeouts.
THEOREM IdleSocketsGo == Spec => []IdleIsBounded
BY SocketPoolAlways, SocketPoolInvMeans, PTL

\* The lists, the count and the purge are one way to have a pool of idle
\* connections: every step is one of IdleConnections, or changes nothing of it.
THEOREM PoolRefinesIdleConnections == Spec => ImplementsIdleConnections
<1>1. Init => Idle!Init
  <2>1. SocketsIn(<<>>) = {}
    BY DEF SocketsIn
  <2>. QED
    BY <2>1 DEF Init, Idle!Init
<1>2. SocketPoolInv /\ [Next]_vars => [Idle!Next]_(Idle!vars)
  BY SocketPoolStep DEF IdleStep
<1>. QED
  BY <1>1, <1>2, SocketPoolAlways, PTL
  DEF Spec, Idle!Spec, ImplementsIdleConnections

----------------------------------------------------------------------------
(* Clients: the table of descriptor numbers and registrations, which every    *)
(* client of the program changes, then each kind of client, and all of them.  *)

\* Numbers belong to one client each, a registration is at the number of its
\* client, and the number of a socket that a registration holds is taken.
Table ==
    /\ DescriptorsTypeOK
    /\ \A c, d \in Client : c # d /\ num[c] = num[d] => num[c] = None
    /\ \A n \in Numbers, c \in Client, k \in Kinds : fds[n] = <<c, k>> => num[c] = n
    /\ \A n \in Numbers, c \in Client : fds[n] = Held => num[c] # n

\* A step is of the clients C, and leaves the others alone.
Aside(C) ==
    \A d \in Client \ C :
        /\ num'[d] = num[d]
        /\ \A n \in Numbers, k \in Kinds : fds'[n] = <<d, k>> <=> fds[n] = <<d, k>>

\* The lowest number is one that is available.
LEMMA LowestIs ==
    ASSUME Available # {}
    PROVE  /\ Lowest \in Numbers /\ fds[Lowest] # Held
           /\ \A c \in Client : num[c] # Lowest
<1>1. Available \in SUBSET Nat
  BY DescriptorsAssumption DEF Available
<1>2. PICK m \in Available : \A n \in Available : m <= n
  BY <1>1, FirstOfSome
<1>3. Lowest \in Available
  BY <1>2 DEF Lowest, Min
<1>. QED
  BY <1>3 DEF Available

\* What is known of the table.
LEMMA TableTypes ==
    ASSUME Table
    PROVE  /\ num \in [Client -> Numbers \cup {None}]
           /\ fds \in [Numbers -> Registrations]
           /\ None \notin Numbers
           /\ \A c \in Client, k \in Kinds : None # <<c, k>>
           /\ \A c \in Client, k \in Kinds : <<c, k>> \notin {Closed, Held}
           /\ None \notin {Closed, Held} /\ Closed # Held
<1>1. \A c \in Client, k \in Kinds : None # <<c, k>>
  BY DescriptorsAssumption
<1>2. \A c \in Client, k \in Kinds : <<c, k>> \notin {Closed, Held}
  BY DEF Kinds, Closed, Held
<1>. QED
  BY <1>1, <1>2, DescriptorsAssumption DEF Table, DescriptorsTypeOK, Closed, Held

\* One client changes one entry: that of its number, or of one that it gets.
LEMMA EntryChanges ==
    ASSUME Table, NEW c \in Client, NEW n \in Numbers, NEW v \in {n, None},
           NEW r \in {Closed, Held, None} \cup {<<c, k>> : k \in Kinds},
           num[c] = n \/ (num[c] = None /\ fds[n] # Held /\ \A d \in Client : num[d] # n),
           r = Held => v = None, r \notin {Closed, Held, None} => v = n,
           num' = [num EXCEPT ![c] = v], fds' = [fds EXCEPT ![n] = r]
    PROVE  /\ Table' /\ Aside({c}) /\ num'[c] = v /\ fds'[n] = r
           /\ LeftBehind' \subseteq LeftBehind \cup {n}
           /\ r \notin {Closed, Held} => LeftBehind' \subseteq LeftBehind
<1>1. \A d \in Client : num'[d] = IF d = c THEN v ELSE num[d]
  BY TableTypes
<1>2. \A m \in Numbers : fds'[m] = IF m = n THEN r ELSE fds[m]
  BY TableTypes
<1>3. r \in Registrations
  BY DEF Registrations
<1>4. num' \in [Client -> Numbers \cup {None}] /\ fds' \in [Numbers -> Registrations]
  BY <1>3, TableTypes
<1>5. \A d \in Client, k \in Kinds : d # c => fds[n] # <<d, k>> /\ r # <<d, k>>
  <2>. SUFFICES ASSUME NEW d \in Client, NEW k \in Kinds, d # c
                PROVE  fds[n] # <<d, k>> /\ r # <<d, k>>
    OBVIOUS
  <2>1. r # <<d, k>>
    BY TableTypes
  <2>2. fds[n] = <<d, k>> => num[d] = n
    BY DEF Table
  <2>3. num[d] # n
    BY TableTypes DEF Table
  <2>. QED
    BY <2>1, <2>2, <2>3
<1>6. Aside({c})
  BY <1>1, <1>2, <1>5 DEF Aside
<1>7. \A d, e \in Client : d # e /\ num'[d] = num'[e] => num'[d] = None
  BY <1>1, TableTypes DEF Table
<1>8. \A m \in Numbers, d \in Client, k \in Kinds : fds'[m] = <<d, k>> => num'[d] = m
  <2>. SUFFICES ASSUME NEW m \in Numbers, NEW d \in Client, NEW k \in Kinds,
                       fds'[m] = <<d, k>>
                PROVE  num'[d] = m
    OBVIOUS
  <2>1. CASE m = n
    <3>1. d = c
      BY <1>2, <1>5, <2>1
    <3>2. r \notin {Closed, Held, None}
      BY <1>2, <2>1, TableTypes
    <3>. QED
      BY <1>1, <2>1, <3>1, <3>2
  <2>2. CASE m # n
    <3>1. num[d] = m
      BY <1>2, <2>2 DEF Table
    <3>2. d # c
      BY <2>2, <3>1, TableTypes
    <3>. QED
      BY <1>1, <3>1, <3>2
  <2>. QED
    BY <2>1, <2>2
<1>9. \A m \in Numbers, d \in Client : fds'[m] = Held => num'[d] # m
  <2>. SUFFICES ASSUME NEW m \in Numbers, NEW d \in Client, fds'[m] = Held
                PROVE  num'[d] # m
    OBVIOUS
  <2>1. CASE m = n
    <3>1. v = None
      BY <1>2, <2>1
    <3>2. d # c => num[d] # n
      BY TableTypes DEF Table
    <3>. QED
      BY <1>1, <2>1, <3>1, <3>2, TableTypes
  <2>2. CASE m # n
    <3>1. num[d] # m
      BY <1>2, <2>2 DEF Table
    <3>. QED
      BY <1>1, <2>2, <3>1, TableTypes
  <2>. QED
    BY <2>1, <2>2
<1>10. LeftBehind' \subseteq LeftBehind \cup {n}
  BY <1>2 DEF LeftBehind
<1>11. r \notin {Closed, Held} => LeftBehind' \subseteq LeftBehind
  BY <1>2 DEF LeftBehind
<1>. QED
  BY <1>1, <1>2, <1>4, <1>6, <1>7, <1>8, <1>9, <1>10, <1>11
     DEF Table, DescriptorsTypeOK

\* A new socket is registered.
LEMMA OpensTable ==
    ASSUME Table, NEW c \in Client, NEW k \in Kinds, num[c] = None, Opens(c, k)
    PROVE  /\ Table' /\ Aside({c}) /\ LeftBehind' \subseteq LeftBehind
           /\ num'[c] \in Numbers /\ fds'[num'[c]] = <<c, k>>
<1>1. PICK n \in Numbers : n = Lowest
  BY LowestIs DEF Opens
<1>2. fds[n] # Held /\ \A d \in Client : num[d] # n
  BY <1>1, LowestIs DEF Opens
<1>3. num' = [num EXCEPT ![c] = n] /\ fds' = [fds EXCEPT ![n] = <<c, k>>]
  BY <1>1 DEF Opens
<1>4. <<c, k>> \notin {Closed, Held, None}
  BY TableTypes
<1>5. <<c, k>> \in {Closed, Held, None} \cup {<<c, j>> : j \in Kinds}
  OBVIOUS
<1>6. /\ Table' /\ Aside({c}) /\ num'[c] = n /\ fds'[n] = <<c, k>>
      /\ LeftBehind' \subseteq LeftBehind
  BY <1>2, <1>3, <1>4, <1>5, EntryChanges
<1>. QED
  BY <1>6

\* Another registration is made, or none.
LEMMA RegistersTable ==
    ASSUME Table, NEW c \in Client, num[c] \in Numbers, UNCHANGED num,
           NEW r \in {None} \cup {<<c, k>> : k \in Kinds},
           fds' = [fds EXCEPT ![num[c]] = r]
    PROVE  /\ Table' /\ Aside({c}) /\ LeftBehind' \subseteq LeftBehind
           /\ fds'[num'[c]] = r
<1>1. num' = [num EXCEPT ![c] = num[c]]
  BY TableTypes
<1>2. r \notin {Closed, Held} /\ num[c] \in {num[c], None}
  BY TableTypes
<1>3. r \in {Closed, Held, None} \cup {<<c, k>> : k \in Kinds}
  OBVIOUS
<1>4. r \notin {Closed, Held, None} => num[c] = num[c]
  OBVIOUS
<1>5. r # Held
  BY <1>2
<1>. QED
  BY <1>1, <1>2, <1>3, <1>5, EntryChanges

\* The socket is closed, and with it goes its registration, or not.
LEMMA LeavesTable ==
    ASSUME Table, NEW c \in Client, num[c] \in Numbers,
           NEW r \in {Closed, Held, None},
           num' = [num EXCEPT ![c] = None], fds' = [fds EXCEPT ![num[c]] = r]
    PROVE  /\ Table' /\ Aside({c}) /\ num'[c] = None
           /\ LeftBehind' \subseteq LeftBehind \cup {num[c]}
           /\ r = None => LeftBehind' \subseteq LeftBehind
<1>1. r = None => r \notin {Closed, Held}
  BY TableTypes
<1>. QED
  BY <1>1, EntryChanges

\* A socket that only the registration kept is gone.
LEMMA LateTable ==
    ASSUME Table, NEW n \in Numbers, fds[n] = Held, UNCHANGED num,
           fds' = [fds EXCEPT ![n] = None]
    PROVE  /\ Table' /\ Aside({}) /\ LeftBehind' \subseteq LeftBehind
<1>1. \A m \in Numbers : fds'[m] = IF m = n THEN None ELSE fds[m]
  BY TableTypes
<1>2. \A m \in Numbers, d \in Client, k \in Kinds : fds'[m] = <<d, k>> <=> fds[m] = <<d, k>>
  BY <1>1, TableTypes
<1>3. \A m \in Numbers : fds'[m] \in {Closed, Held} => fds[m] = fds'[m]
  BY <1>1, TableTypes
<1>4. fds' \in [Numbers -> Registrations]
  BY TableTypes DEF Registrations
<1>. QED
  BY <1>2, <1>3, <1>4 DEF Table, DescriptorsTypeOK, Aside, LeftBehind

----------------------------------------------------------------------------
(* The requests.                                                              *)

\* The operators of HttpRequest10 on the table are those of Descriptors.
LEMMA RequesterTable ==
    /\ Q!DescriptorsTypeOK <=> DescriptorsTypeOK
    /\ \A k \in Kinds : Q!Opens(Requester, k) => Opens(Requester, k)
    /\ \A k \in Kinds : Q!Waits(Requester, k) =>
          UNCHANGED num /\ fds' = [fds EXCEPT ![num[Requester]] = <<Requester, k>>]
    /\ Q!Kinds = Kinds /\ Q!Closed = Closed /\ Q!Held = Held
<1>1. Q!Kinds = Kinds /\ Q!Closed = Closed /\ Q!Held = Held
  BY DEF Q!Kinds, Kinds, Q!Closed, Closed, Q!Held, Held
<1>2. Q!DescriptorsTypeOK <=> DescriptorsTypeOK
  BY <1>1 DEF Q!DescriptorsTypeOK, DescriptorsTypeOK, Q!Registrations, Registrations
<1>3. Q!Available = Available
  BY <1>1 DEF Q!Available, Available
<1>4. Q!Lowest = Lowest
  BY <1>3 DEF Q!Lowest, Lowest, Q!Min, Min
<1>. QED
  BY <1>1, <1>2, <1>3, <1>4 DEF Q!Opens, Opens, Q!Waits

\* What a yield waits for.
For(yield) ==
    CASE yield \in {"connect", "ready", "send"} -> {"writer"}
      [] yield \in {"proxy", "read"} -> {"reader"}
      [] yield = "shake" -> Kinds

\* A client that does not wait has no socket; a timer has not yet counted.
RequesterInv ==
    /\ Q!TypeOK /\ Q!Watched
    /\ pc \notin Q!Waiting => num[Requester] = None
    /\ requestTimer => pc \in Q!Waiting /\ timeouts < requests

LeftBehindInv ==
    Requester \in program =>
        IsFiniteSet(LeftBehind) /\ Cardinality(LeftBehind) <= timeouts

\* What is not of the table in TypeOK.
Progress ==
    /\ unread' \in Seq(Q!Tokens) /\ status' \in {"ok", "bad", None}
    /\ size' \in Nat /\ count' \in 0..MaxHandshakes /\ sent' \in BOOLEAN

\* An event leads to another yield or to the end.
LEMMA EventIs ==
    ASSUME Q!TypeOK, Q!Event
    PROVE  /\ pc \in Q!Waiting /\ Progress
           /\ \/ \E y \in Q!Waiting : \E k \in For(y) : Q!At(y, k)
              \/ \E o \in {"error", "response"} : Q!Ends(o)
<1>. DEFINE Goes == \/ \E y \in Q!Waiting : \E k \in For(y) : Q!At(y, k)
                    \/ \E o \in {"error", "response"} : Q!Ends(o)
<1>1. \A o : Q!Ends(o) => UNCHANGED <<count, sent>>
  BY DEF Q!Ends
<1>2. /\ For("connect") = {"writer"} /\ For("ready") = {"writer"}
      /\ For("send") = {"writer"} /\ For("proxy") = {"reader"}
      /\ For("read") = {"reader"} /\ For("shake") = Kinds
  BY DEF For
<1>3. {"connect", "proxy", "shake", "ready", "send", "read"} = Q!Waiting
  BY DEF Q!Waiting
<1>4. MaxHandshakes \in Nat
  BY ClientsAssumption DEF Q!HttpRequest10Assumption
<1>5. unread # <<>> => Tail(unread) \in Seq(Q!Tokens)
  BY HeadTailProperties DEF Q!TypeOK
<1>6. Q!Handshake => Goes /\ count' \in 0..MaxHandshakes /\ sent' \in BOOLEAN
  <2>1. CASE count + 1 < MaxHandshakes /\ count' = count + 1 /\ Q!Ready
    <3>1. Q!At("ready", "writer") /\ sent' = sent
      BY <2>1 DEF Q!Ready
    <3>. QED
      BY <1>2, <1>3, <1>4, <2>1, <3>1 DEF Q!TypeOK
  <2>2. CASE /\ count < MaxHandshakes /\ count' = count + 1
             /\ \E k \in Q!Kinds : Q!At("shake", k)
             /\ UNCHANGED sent
    <3>1. \E k \in For("shake") : Q!At("shake", k)
      BY <1>2, <2>2, RequesterTable
    <3>. QED
      BY <1>3, <1>4, <2>2, <3>1 DEF Q!TypeOK
  <2>3. CASE Q!Ends("error")
    BY <1>1, <2>3 DEF Q!TypeOK
  <2>. QED
    BY <2>1, <2>2, <2>3 DEF Q!Handshake
<1>7. Q!Ready => Goes /\ sent' = sent
  BY <1>2, <1>3 DEF Q!Ready
<1>8. Q!Prepared => Goes /\ count' \in 0..MaxHandshakes /\ sent' \in BOOLEAN
  BY <1>6, <1>7 DEF Q!Prepared, Q!TypeOK
<1>9. \A o \in {"error", "response"} :
         Q!Ends(o) => Goes /\ count' \in 0..MaxHandshakes /\ sent' \in BOOLEAN
  BY <1>1 DEF Q!TypeOK
<1>10. \A y \in Q!Waiting : \A k \in For(y) : Q!At(y, k) => Goes
  OBVIOUS
<1>. HIDE DEF Goes
<1>11. ASSUME Q!ConnectFails PROVE pc \in Q!Waiting /\ Progress /\ Goes
  BY <1>3, <1>9, <1>11 DEF Q!ConnectFails, Progress, Q!TypeOK
<1>12. ASSUME Q!Connected PROVE pc \in Q!Waiting /\ Progress /\ Goes
  <2>1. CASE Q!At("proxy", "reader") /\ UNCHANGED <<count, sent>>
    BY <1>2, <1>3, <1>10, <1>12, <2>1 DEF Q!Connected, Progress, Q!TypeOK
  <2>2. CASE Q!Ends("error")
    BY <1>3, <1>9, <1>12, <2>2 DEF Q!Connected, Progress, Q!TypeOK
  <2>3. CASE Q!Prepared
    BY <1>3, <1>8, <1>12, <2>3 DEF Q!Connected, Progress, Q!TypeOK
  <2>. QED
    BY <1>12, <2>1, <2>2, <2>3 DEF Q!Connected
<1>13. ASSUME Q!ProxyReads PROVE pc \in Q!Waiting /\ Progress /\ Goes
  BY <1>2, <1>3, <1>5, <1>10, <1>13 DEF Q!ProxyReads, Q!Next1, Progress, Q!TypeOK
<1>14. ASSUME Q!ProxyAnswers PROVE pc \in Q!Waiting /\ Progress /\ Goes
  <2>1. unread' \in Seq(Q!Tokens)
    BY <1>5, <1>14 DEF Q!ProxyAnswers, Q!Next1, Q!TypeOK
  <2>2. Goes /\ count' \in 0..MaxHandshakes /\ sent' \in BOOLEAN
    BY <1>8, <1>9, <1>14 DEF Q!ProxyAnswers
  <2>. QED
    BY <1>3, <1>14, <2>1, <2>2 DEF Q!ProxyAnswers, Progress, Q!TypeOK
<1>15. ASSUME Q!ShakeAgain PROVE pc \in Q!Waiting /\ Progress /\ Goes
  BY <1>3, <1>6, <1>15 DEF Q!ShakeAgain, Progress, Q!TypeOK, Goes
<1>16. ASSUME Q!Send PROVE pc \in Q!Waiting /\ Progress /\ Goes
  BY <1>2, <1>3, <1>10, <1>16 DEF Q!Send, Progress, Q!TypeOK
<1>17. ASSUME Q!SendRaises PROVE pc \in Q!Waiting /\ Progress /\ Goes
  BY <1>3, <1>9, <1>17 DEF Q!SendRaises, Progress, Q!TypeOK
<1>18. ASSUME Q!SendOver PROVE pc \in Q!Waiting /\ Progress /\ Goes
  BY <1>2, <1>3, <1>10, <1>18 DEF Q!SendOver, Progress, Q!TypeOK
<1>19. ASSUME Q!Recv PROVE pc \in Q!Waiting /\ Progress /\ Goes
  BY <1>2, <1>3, <1>5, <1>10, <1>19 DEF Q!Recv, Q!Next1, Progress, Q!TypeOK
<1>20. ASSUME Q!RecvRefused PROVE pc \in Q!Waiting /\ Progress /\ Goes
  BY <1>3, <1>5, <1>9, <1>20 DEF Q!RecvRefused, Q!Next1, Progress, Q!TypeOK
<1>21. ASSUME Q!Complete PROVE pc \in Q!Waiting /\ Progress /\ Goes
  BY <1>3, <1>9, <1>21 DEF Q!Complete, Progress, Q!TypeOK
<1>22. ASSUME Q!RecvRaises PROVE pc \in Q!Waiting /\ Progress /\ Goes
  BY <1>3, <1>9, <1>22 DEF Q!RecvRaises, Progress, Q!TypeOK
<1>. QED
  BY <1>11, <1>12, <1>13, <1>14, <1>15, <1>16, <1>17, <1>18, <1>19, <1>20,
     <1>21, <1>22 DEF Q!Event, Goes

\* A client that waits is watched.
LEMMA RequesterWaits ==
    ASSUME NEW y \in Q!Waiting, NEW k \in For(y), pc' = y,
           num'[Requester] \in Numbers, fds'[num'[Requester]] = <<Requester, k>>
    PROVE  Q!Watched'
<1>1. num'[Requester] # None
  BY DescriptorsAssumption
<1>2. fds'[num'[Requester]] \in {Requester} \X For(y)
  OBVIOUS
<1>. QED
  BY <1>1, <1>2 DEF Q!Watched, Q!WaitsAs, For, Q!Kinds, Kinds

LEMMA RequesterWaiting ==
    ASSUME RequesterInv, Table, pc \in Q!Waiting
    PROVE  /\ num[Requester] \in Numbers
           /\ \E k \in For(pc) : fds[num[Requester]] = <<Requester, k>>
<1>1. Requester \in Client
  BY ClientsAssumption DEF Q!HttpRequest10Assumption
<1>2. num[Requester] \in Numbers
  BY <1>1, TableTypes DEF RequesterInv, Q!Watched, Q!WaitsAs
<1>3. fds[num[Requester]] \in {Requester} \X For(pc)
  BY DEF RequesterInv, Q!Watched, Q!WaitsAs, For, Q!Kinds, Kinds
<1>. QED
  BY <1>2, <1>3

\* What a step of the requests leaves behind is counted.
Counted ==
    \/ LeftBehind' \subseteq LeftBehind /\ timeouts' = timeouts
    \/ \E n \in Numbers :
          LeftBehind' \subseteq LeftBehind \cup {n} /\ timeouts' = timeouts + 1

\* Steps of the requests
LEMMA RequesterStep ==
    ASSUME Table, RequesterInv, Q!Next
    PROVE  Table' /\ Aside({Requester}) /\ RequesterInv' /\ Counted
<1>. USE DEF RequesterInv
<1>1. Requester \in Client
  BY ClientsAssumption DEF Q!HttpRequest10Assumption
<1>2. Q!DescriptorsTypeOK' <=> DescriptorsTypeOK'
  BY RequesterTable DEF Q!DescriptorsTypeOK, DescriptorsTypeOK, Q!Registrations, Registrations
<1>3. Table' => Q!DescriptorsTypeOK'
  BY <1>2 DEF Table
<1>4. \A y \in Q!Waiting : For(y) \subseteq Kinds
  BY DEF For, Q!Waiting, Kinds
<1>5. "over" \notin Q!Waiting
  BY DEF Q!Waiting
<1>6. ASSUME Q!Event
      PROVE  Table' /\ Aside({Requester}) /\ RequesterInv' /\ Counted
  <2>1. /\ pc \in Q!Waiting /\ Progress
        /\ \/ \E y \in Q!Waiting : \E k \in For(y) : Q!At(y, k)
           \/ \E o \in {"error", "response"} : Q!Ends(o)
    BY <1>6, EventIs
  <2>2. num[Requester] \in Numbers
    BY <2>1, RequesterWaiting
  <2>3. ASSUME NEW y \in Q!Waiting, NEW k \in For(y), Q!At(y, k)
        PROVE  Table' /\ Aside({Requester}) /\ RequesterInv' /\ Counted
    <3>1. /\ pc' = y /\ Q!Waits(Requester, k)
          /\ UNCHANGED <<result, requestTimer, option, requests, timeouts>>
      BY <2>3 DEF Q!At, Q!history
    <3>2. UNCHANGED num /\ fds' = [fds EXCEPT ![num[Requester]] = <<Requester, k>>]
      BY <1>4, <3>1, RequesterTable
    <3>3. <<Requester, k>> \in {None} \cup {<<Requester, j>> : j \in Kinds}
      BY <1>4
    <3>4. /\ Table' /\ Aside({Requester}) /\ LeftBehind' \subseteq LeftBehind
          /\ fds'[num'[Requester]] = <<Requester, k>>
      BY <1>1, <2>2, <3>2, <3>3, RegistersTable
    <3>5. Q!Watched'
      BY <2>2, <3>1, <3>2, <3>4, RequesterWaits
    <3>6. Q!TypeOK'
      BY <1>3, <2>1, <3>1, <3>4 DEF Q!TypeOK, Progress
    <3>7. requestTimer' => pc' \in Q!Waiting /\ timeouts' < requests'
      BY <3>1
    <3>. QED
      BY <3>1, <3>4, <3>5, <3>6, <3>7 DEF Counted
  <2>4. ASSUME NEW o \in {"error", "response"}, Q!Ends(o)
        PROVE  Table' /\ Aside({Requester}) /\ RequesterInv' /\ Counted
    <3>1. /\ pc' = "over" /\ result' = o /\ requestTimer' = FALSE
          /\ UNCHANGED <<option, requests, timeouts>>
          /\ num' = [num EXCEPT ![Requester] = None]
          /\ fds' = [fds EXCEPT ![num[Requester]] = None]
      BY <2>4 DEF Q!Ends, Q!Settles, Q!Leaves, Q!history
    <3>2. /\ Table' /\ Aside({Requester}) /\ LeftBehind' \subseteq LeftBehind
          /\ num'[Requester] = None
      BY <1>1, <2>2, <3>1, LeavesTable
    <3>3. Q!Watched'
      BY <1>5, <3>1 DEF Q!Watched
    <3>4. Q!TypeOK'
      BY <1>3, <2>1, <3>1, <3>2 DEF Q!TypeOK, Progress
    <3>. QED
      BY <3>1, <3>2, <3>3, <3>4 DEF Counted
  <2>. QED
    BY <2>1, <2>3, <2>4
<1>7. ASSUME Q!Begin
      PROVE  Table' /\ Aside({Requester}) /\ RequesterInv' /\ Counted
  <2>1. /\ num[Requester] = None /\ pc \notin Q!Waiting
        /\ option' \in Options /\ requests < MaxRequests /\ requests' = requests + 1
        /\ unread' = option'.answer /\ status' = None /\ size' = 0 /\ count' = 0
        /\ sent' = FALSE /\ timeouts' = timeouts
    BY <1>7 DEF Q!Begin, Q!Waiting
  <2>2. /\ option'.answer \in Seq(Q!Tokens) /\ option'.timeout \in BOOLEAN
        /\ MaxHandshakes \in Nat /\ MaxRequests \in Nat
    BY <2>1, ClientsAssumption DEF Q!HttpRequest10Assumption
  <2>3. /\ option' \in Options \cup {None} /\ unread' \in Seq(Q!Tokens)
        /\ status' \in {"ok", "bad", None} /\ size' \in Nat
        /\ count' \in 0..MaxHandshakes
    BY <2>1, <2>2
  <2>4. sent' \in BOOLEAN
    BY <2>1, Zenon
  <2>5. requests \in 0..MaxRequests /\ timeouts \in 0..requests
    BY DEF Q!TypeOK
  <2>6. /\ requests' \in 0..MaxRequests /\ timeouts' \in 0..requests'
        /\ timeouts' < requests'
    BY <2>1, <2>2, <2>5
  <2>7. CASE /\ Q!Opens(Requester, "writer")
             /\ pc' = "connect" /\ result' = "none" /\ requestTimer' = option'.timeout
    <3>1. Opens(Requester, "writer") /\ "writer" \in Kinds
      BY <2>7, RequesterTable DEF Kinds
    <3>2. /\ Table' /\ Aside({Requester}) /\ LeftBehind' \subseteq LeftBehind
          /\ num'[Requester] \in Numbers
          /\ fds'[num'[Requester]] = <<Requester, "writer">>
      BY <1>1, <2>1, <3>1, OpensTable
    <3>3. "connect" \in Q!Waiting /\ "writer" \in For("connect")
      BY DEF Q!Waiting, For
    <3>4. Q!Watched'
      BY <2>7, <3>2, <3>3, RequesterWaits
    <3>5. Q!TypeOK'
      BY <1>3, <2>2, <2>3, <2>6, <2>4, <2>7, <3>2, <3>3 DEF Q!TypeOK
    <3>. QED
      BY <2>1, <2>3, <2>6, <2>7, <3>2, <3>3, <3>4, <3>5 DEF Counted
  <2>8. CASE Q!Settles("error") /\ UNCHANGED <<num, fds>>
    <3>1. pc' = "over" /\ result' = "error" /\ requestTimer' = FALSE
      BY <2>8 DEF Q!Settles
    <3>2. Table' /\ Aside({Requester}) /\ LeftBehind' = LeftBehind
      BY <2>8 DEF Table, DescriptorsTypeOK, Aside, LeftBehind
    <3>3. Q!TypeOK'
      BY <1>3, <2>3, <2>6, <2>4, <3>1, <3>2 DEF Q!TypeOK
    <3>4. Q!Watched'
      BY <1>5, <3>1 DEF Q!Watched
    <3>5. num'[Requester] = None
      BY <2>1, <2>8
    <3>. QED
      BY <2>1, <3>1, <3>2, <3>3, <3>4, <3>5 DEF Counted
  <2>. QED
    BY <1>7, <2>7, <2>8 DEF Q!Begin
<1>8. ASSUME Q!TimerFires
      PROVE  Table' /\ Aside({Requester}) /\ RequesterInv' /\ Counted
  <2>1. /\ requestTimer /\ pc' = "over" /\ result' = "timeout" /\ requestTimer' = FALSE
        /\ timeouts' = timeouts + 1
        /\ UNCHANGED <<unread, status, size, count, sent, option, requests>>
    BY <1>8 DEF Q!TimerFires, Q!Timeout, Q!TimeoutReady, Q!TimeoutShake, Q!TimesOut, Q!Settles
  <2>2. PICK r \in {Closed, Held, None} :
              /\ num' = [num EXCEPT ![Requester] = None]
              /\ fds' = [fds EXCEPT ![num[Requester]] = r]
    BY <1>8, RequesterTable
       DEF Q!TimerFires, Q!Timeout, Q!TimeoutReady, Q!TimeoutShake,
           Q!Leaves, Q!LeavesClosed, Q!LeavesHeld
  <2>3. num[Requester] \in Numbers
    BY <2>1, RequesterWaiting
  <2>4. /\ Table' /\ Aside({Requester}) /\ num'[Requester] = None
        /\ LeftBehind' \subseteq LeftBehind \cup {num[Requester]}
    BY <1>1, <2>2, <2>3, LeavesTable
  <2>5. timeouts' \in 0..requests'
    BY <2>1 DEF Q!TypeOK
  <2>6. Q!TypeOK'
    BY <1>3, <2>1, <2>4, <2>5 DEF Q!TypeOK
  <2>7. Q!Watched'
    BY <1>5, <2>1 DEF Q!Watched
  <2>. QED
    BY <2>1, <2>3, <2>4, <2>6, <2>7 DEF Counted
<1>9. ASSUME Q!LateEvent
      PROVE  Table' /\ Aside({Requester}) /\ RequesterInv' /\ Counted
  <2>1. PICK n \in Numbers : fds[n] = Held /\ fds' = [fds EXCEPT ![n] = None]
    BY <1>9, RequesterTable DEF Q!LateEvent
  <2>2. UNCHANGED <<num, pc, unread, status, size, count, sent, result,
                    requestTimer, option, requests, timeouts>>
    BY <1>9 DEF Q!LateEvent, Q!state, Q!history
  <2>3. Table' /\ Aside({}) /\ LeftBehind' \subseteq LeftBehind
    BY <2>1, <2>2, LateTable
  <2>4. Q!TypeOK'
    BY <1>3, <2>2, <2>3 DEF Q!TypeOK
  <2>5. pc' \in Q!Waiting => Q!Watched'
    <3>. SUFFICES ASSUME pc' \in Q!Waiting PROVE Q!Watched'
      OBVIOUS
    <3>1. PICK k \in For(pc) : fds[num[Requester]] = <<Requester, k>>
      BY <2>2, RequesterWaiting
    <3>2. num[Requester] \in Numbers
      BY <2>2, RequesterWaiting
    <3>3. fds'[num[Requester]] = <<Requester, k>>
      BY <1>1, <1>4, <2>2, <2>3, <3>1, <3>2 DEF Aside
    <3>. QED
      BY <2>2, <3>2, <3>3, RequesterWaits
  <2>6. Q!Watched'
    BY <2>5 DEF Q!Watched
  <2>7. Aside({Requester})
    BY <2>3 DEF Aside
  <2>. QED
    BY <2>2, <2>3, <2>4, <2>6, <2>7 DEF Counted
<1>. QED
  BY <1>6, <1>7, <1>8, <1>9 DEF Q!Next

\* Steps of the others
LEMMA RequesterIsLeft ==
    ASSUME Table, Table', RequesterInv, UNCHANGED requester,
           NEW C, Requester \notin C, Aside(C)
    PROVE  RequesterInv'
<1>. USE DEF RequesterInv
<1>1. Requester \in Client
  BY ClientsAssumption DEF Q!HttpRequest10Assumption
<1>2. Q!DescriptorsTypeOK' <=> DescriptorsTypeOK'
  BY RequesterTable DEF Q!DescriptorsTypeOK, DescriptorsTypeOK, Q!Registrations, Registrations
<1>3. UNCHANGED <<option, pc, unread, status, size, count, sent, result,
                  requestTimer, requests, timeouts>>
  BY DEF requester
<1>4. num'[Requester] = num[Requester]
  BY <1>1 DEF Aside
<1>5. Q!TypeOK'
  BY <1>2, <1>3 DEF Q!TypeOK, Table
<1>6. ASSUME pc \in Q!Waiting PROVE Q!Watched'
  <2>1. PICK k \in For(pc) : fds[num[Requester]] = <<Requester, k>>
    BY <1>6, RequesterWaiting
  <2>2. num[Requester] \in Numbers /\ k \in Kinds
    BY <1>6, RequesterWaiting DEF For, Q!Waiting, Kinds
  <2>3. fds'[num[Requester]] = <<Requester, k>>
    BY <1>1, <2>1, <2>2 DEF Aside
  <2>. QED
    BY <1>3, <1>4, <1>6, <2>2, <2>3, RequesterWaits
<1>7. Q!Watched'
  BY <1>3, <1>6 DEF Q!Watched
<1>. QED
  BY <1>3, <1>4, <1>5, <1>7

----------------------------------------------------------------------------
(* The reader.                                                                *)

\* The operators of HttpReader on the table are those of Descriptors.
LEMMA ReaderTable ==
    /\ H!DescriptorsTypeOK <=> DescriptorsTypeOK
    /\ \A k \in Kinds : H!Opens(Reader, k) => Opens(Reader, k)
    /\ \A k \in Kinds : H!Waits(Reader, k) =>
          UNCHANGED num /\ fds' = [fds EXCEPT ![num[Reader]] = <<Reader, k>>]
    /\ H!Kinds = Kinds
<1>1. H!Kinds = Kinds /\ H!Closed = Closed /\ H!Held = Held
  BY DEF H!Kinds, Kinds, H!Closed, Closed, H!Held, Held
<1>2. H!DescriptorsTypeOK <=> DescriptorsTypeOK
  BY <1>1 DEF H!DescriptorsTypeOK, DescriptorsTypeOK, H!Registrations, Registrations
<1>3. H!Available = Available
  BY <1>1 DEF H!Available, Available
<1>4. H!Lowest = Lowest
  BY <1>3 DEF H!Lowest, Lowest, H!Min, Min
<1>. QED
  BY <1>1, <1>2, <1>3, <1>4 DEF H!Opens, Opens, H!Waits

\* Behind the header comes the body.
Comes == H!BodyOf(response) \cup {"end", "reset"}
Behind(tokens) ==
    \A i, j \in DOMAIN tokens : i < j /\ tokens[i] = "header" => tokens[j] \in Comes

\* The reader without the table: what comes is what its state reads, and the
\* buffer has tokens of its kind of body.
ReaderData ==
    /\ response \in Responses
    /\ state \in H!Reading \cup H!Raised \cup {"new", "refused", "over", "kept"}
    /\ {readTimer, failed} \subseteq BOOLEAN
    /\ told \in Seq({"header", "data", "close", "timeout"})
    /\ coming \in Seq(H!Tokens)
    /\ state \in {"new", "request", "header"} => Behind(coming)
    /\ state = "body" => coming \in Seq(Comes)
    /\ buffer \in Seq(H!BodyOf(response))

\* A reset is one that the server sends, and a callback that raised did.
HasReset(tokens) == \E i \in DOMAIN tokens : tokens[i] = "reset"
ReaderFails ==
    /\ HasReset(coming) => HasReset(response.tokens)
    /\ state \in H!Raised => failed
    /\ state = "kept" => failed \/ HasReset(response.tokens)

\* The reader has no registration.
NoEntry == \A n \in Numbers, k \in Kinds : fds[n] # <<Reader, k>>

ReaderInv ==
    /\ ReaderData /\ ReaderFails /\ H!Watched
    /\ state \in {"new", "refused", "over"} => num[Reader] = None
    /\ state \notin H!Reading => NoEntry

\* What is handed on is data, what is kept is of the body.
LEMMA HandedIs ==
    ASSUME ReaderData, NEW b \in Seq(H!BodyOf(response))
    PROVE  H!Handed(b) \in Seq({"data"}) /\ H!Kept(b) \in Seq(H!BodyOf(response))
<1>1. CASE ~response.chunked
  BY <1>1 DEF H!Handed, H!Kept, H!BodyOf
<1>2. CASE response.chunked
  <2>1. SubSeq(b, 4, Len(b)) \in Seq(H!BodyOf(response))
    <3>1. Len(b) \in Nat /\ \A i \in 4..Len(b) : b[i] \in H!BodyOf(response)
      BY LenProperties, ElementOfSeq
    <3>. QED
      BY <3>1, SubSeqProperties
  <2>2. <<"data">> \in Seq({"data"}) /\ <<>> \in Seq({"data"})
    OBVIOUS
  <2>. QED
    BY <1>2, <2>1, <2>2 DEF H!Handed, H!Kept
<1>. QED
  BY <1>1, <1>2

\* Tokens of a recv are of the body, but for the header.
LEMMA FragmentIs ==
    ASSUME ReaderData, NEW m \in {1, 2}, NEW k \in 1..Len(coming), H!Fragment(k),
           \A i \in m..Len(coming) : coming[i] \in Comes
    PROVE  /\ SubSeq(coming, m, k) \in Seq(H!BodyOf(response))
           /\ coming' \in Seq(Comes) /\ coming' \in Seq(H!Tokens)
<1>1. /\ Len(coming) \in Nat /\ \A i \in 1..Len(coming) : coming[i] \in H!Tokens
  BY LenProperties, ElementOfSeq DEF ReaderData
<1>2. /\ coming' = SubSeq(coming, k + 1, Len(coming))
      /\ \A i \in 1..k : coming[i] \notin {"end", "reset"}
  BY DEF H!Fragment
<1>3. \A i \in m..k : coming[i] \in H!BodyOf(response)
  BY <1>1, <1>2 DEF Comes
<1>4. SubSeq(coming, m, k) \in Seq(H!BodyOf(response))
  BY <1>1, <1>3, SubSeqProperties
<1>5. /\ \A i \in k + 1..Len(coming) : coming[i] \in Comes
      /\ \A i \in k + 1..Len(coming) : coming[i] \in H!Tokens
  BY <1>1
<1>6. coming' \in Seq(Comes)
  BY <1>1, <1>2, <1>5, SubSeqProperties
<1>7. coming' \in Seq(H!Tokens)
  BY <1>1, <1>2, <1>5, SubSeqProperties
<1>. QED
  BY <1>4, <1>6, <1>7

\* What the handler hears
LEMMA HearsMore ==
    ASSUME NEW s \in Seq({"header", "data", "close", "timeout"}),
           NEW t \in Seq({"header", "data", "close", "timeout"})
    PROVE  s \o t \in Seq({"header", "data", "close", "timeout"})
BY ConcatProperties

LEMMA ReaderDataStep ==
    ASSUME ReaderData, H!Next
    PROVE  ReaderData'
<1>. DEFINE Heard == {"header", "data", "close", "timeout"}
<1>1. /\ <<"header">> \in Seq(Heard) /\ <<"close">> \in Seq(Heard)
      /\ \A s \in Seq({"data"}) : s \in Seq(Heard)
      /\ told \in Seq(Heard)
  BY SeqMonotonic DEF ReaderData
<1>2. \A s, t \in Seq(Heard) : s \o t \in Seq(Heard)
  BY HearsMore
<1>3. {readTimer, failed} \subseteq BOOLEAN
  BY DEF ReaderData
<1>. HIDE DEF Heard
<1>4. ASSUME H!Construct \/ H!ConstructRaises \/ H!SendRequest \/ H!SendRaises
             \/ H!HeaderRaises
      PROVE  ReaderData'
  <2>1. UNCHANGED <<response, coming, buffer, told>>
    BY <1>4 DEF H!Construct, H!ConstructRaises, H!SendRequest, H!SendRaises,
                H!HeaderRaises
  <2>2. \/ state = "new" /\ state' = "request"
        \/ state = "new" /\ state' = "refused"
        \/ state = "request" /\ state' = "header"
        \/ state' \in {"lost", "broken"}
    BY <1>4 DEF H!Construct, H!ConstructRaises, H!SendRequest, H!SendRaises,
                H!HeaderRaises, H!Raises
  <2>3. /\ readTimer' = TRUE \/ readTimer' = readTimer
        /\ failed' = TRUE \/ failed' = failed
    BY <1>4 DEF H!Construct, H!ConstructRaises, H!SendRequest, H!SendRaises,
                H!HeaderRaises, H!Raises
  <2>4. {readTimer', failed'} \subseteq BOOLEAN
    BY <1>3, <2>3, Zenon
  <2>5. Comes' = Comes /\ H!BodyOf(response)' = H!BodyOf(response)
    BY <2>1 DEF Comes, H!BodyOf
  <2>6. Behind(coming)' <=> Behind(coming)
    BY <2>1, <2>5 DEF Behind
  <2>. QED
    BY <2>1, <2>2, <2>4, <2>5, <2>6 DEF ReaderData, H!Reading, H!Raised
<1>5. ASSUME H!HeaderPart PROVE ReaderData'
  <2>1. /\ coming # <<>> /\ coming' = Tail(coming)
        /\ UNCHANGED <<response, state, buffer, readTimer, told, failed>>
    BY <1>5 DEF H!HeaderPart, H!Next1
  <2>2. state = "header"
    BY <1>5 DEF H!HeaderPart
  <2>3. /\ Len(coming) \in Nat /\ DOMAIN coming = 1..Len(coming)
        /\ coming' \in Seq(H!Tokens) /\ Len(coming') = Len(coming) - 1
        /\ \A i \in 1..Len(coming') : coming'[i] = coming[i + 1]
        /\ DOMAIN coming' = 1..Len(coming')
    BY <2>1, HeadTailProperties, LenProperties DEF ReaderData
  <2>4. Comes' = Comes /\ H!BodyOf(response)' = H!BodyOf(response)
    BY <2>1 DEF Comes, H!BodyOf
  <2>5. Behind(coming)'
    <3>1. SUFFICES ASSUME NEW i \in DOMAIN coming', NEW j \in DOMAIN coming',
                          i < j, coming'[i] = "header"
                   PROVE  coming'[j] \in Comes
      BY <2>4 DEF Behind
    <3>2. /\ i + 1 \in DOMAIN coming /\ j + 1 \in DOMAIN coming /\ i + 1 < j + 1
          /\ coming'[i] = coming[i + 1] /\ coming'[j] = coming[j + 1]
      BY <2>3, <3>1
    <3>. QED
      BY <2>2, <3>1, <3>2 DEF ReaderData, Behind
  <2>6. {readTimer', failed'} \subseteq BOOLEAN
    BY <1>3, <2>1
  <2>. QED
    BY <2>1, <2>2, <2>3, <2>4, <2>5, <2>6 DEF ReaderData, H!Reading
<1>6. ASSUME H!Header PROVE ReaderData'
  <2>1. /\ state = "header" /\ coming # <<>> /\ Head(coming) = "header"
        /\ UNCHANGED response
    BY <1>6 DEF H!Header, H!Next1
  <2>2. PICK k \in 1..Len(coming) :
            LET b == SubSeq(coming, 2, k) IN
            /\ H!Fragment(k)
            /\ IF H!Last1(b)
               THEN H!Stops(<<"header">>) /\ readTimer' = FALSE /\ buffer' = b /\ failed' = TRUE
               ELSE /\ H!Waits(Reader, "reader") /\ state' = "body" /\ readTimer' = TRUE
                    /\ told' = <<"header">> \o H!Handed(b) /\ buffer' = H!Kept(b)
                    /\ UNCHANGED failed
    BY <1>6 DEF H!Header
  <2>. DEFINE b == SubSeq(coming, 2, k)
  <2>3. Len(coming) \in Nat /\ DOMAIN coming = 1..Len(coming) /\ coming[1] = "header"
    BY <2>1, LenProperties DEF ReaderData
  <2>4. \A i \in 2..Len(coming) : coming[i] \in Comes
    <3>1. \A i \in 2..Len(coming) : 1 \in DOMAIN coming /\ i \in DOMAIN coming /\ 1 < i
      BY <2>3
    <3>. QED
      BY <2>1, <2>3, <3>1 DEF ReaderData, Behind
  <2>5. /\ b \in Seq(H!BodyOf(response))
        /\ coming' \in Seq(Comes) /\ coming' \in Seq(H!Tokens)
    BY <2>2, <2>4, FragmentIs
  <2>6. H!Handed(b) \in Seq({"data"}) /\ H!Kept(b) \in Seq(H!BodyOf(response))
    BY <2>5, HandedIs
  <2>7. Comes' = Comes /\ H!BodyOf(response)' = H!BodyOf(response)
    BY <2>1 DEF Comes, H!BodyOf
  <2>. HIDE DEF b
  <2>8. \/ /\ state' = "over" /\ told' = <<"header">> \o <<"close">>
           /\ readTimer' = FALSE /\ buffer' = b /\ failed' = TRUE
        \/ /\ state' = "body" /\ told' = <<"header">> \o H!Handed(b)
           /\ readTimer' = TRUE /\ buffer' = H!Kept(b) /\ failed' = failed
    BY <2>2 DEF H!Stops, b
  <2>9. told' \in Seq(Heard)
    BY <1>1, <1>2, <2>6, <2>8
  <2>10. {readTimer', failed'} \subseteq BOOLEAN
    BY <1>3, <2>1, <2>8, Zenon
  <2>. QED
    BY <2>1, <2>5, <2>6, <2>7, <2>8, <2>9, <2>10 DEF ReaderData, H!Reading, Heard
<1>7. ASSUME H!BodyFragment PROVE ReaderData'
  <2>1. state = "body" /\ UNCHANGED response
    BY <1>7 DEF H!BodyFragment
  <2>2. PICK k \in 1..Len(coming) :
            LET b == buffer \o SubSeq(coming, 1, k) IN
            /\ H!Fragment(k)
            /\ \/ /\ H!Last1(b) /\ H!Stops(told) /\ buffer' = b
                  /\ \/ readTimer' = TRUE /\ UNCHANGED failed
                     \/ readTimer' = FALSE /\ failed' = TRUE
               \/ /\ ~H!Last1(b) /\ told' = told \o H!Handed(b) /\ buffer' = H!Kept(b)
                  /\ readTimer' = TRUE /\ UNCHANGED <<state, failed, num, fds>>
    BY <1>7 DEF H!BodyFragment
  <2>. DEFINE s == SubSeq(coming, 1, k)
              b == buffer \o s
  <2>3. Len(coming) \in Nat /\ \A i \in 1..Len(coming) : coming[i] \in Comes
    BY <2>1, LenProperties, ElementOfSeq DEF ReaderData
  <2>4. /\ s \in Seq(H!BodyOf(response))
        /\ coming' \in Seq(Comes) /\ coming' \in Seq(H!Tokens)
    BY <2>2, <2>3, FragmentIs
  <2>. HIDE DEF s
  <2>5. b \in Seq(H!BodyOf(response))
    BY <2>4, ConcatProperties DEF ReaderData
  <2>6. H!Handed(b) \in Seq({"data"}) /\ H!Kept(b) \in Seq(H!BodyOf(response))
    BY <2>5, HandedIs
  <2>7. Comes' = Comes /\ H!BodyOf(response)' = H!BodyOf(response)
    BY <2>1 DEF Comes, H!BodyOf
  <2>8. /\ \/ state' = "over" /\ told' = told \o <<"close">> /\ buffer' = b
           \/ state' = "body" /\ told' = told \o H!Handed(b) /\ buffer' = H!Kept(b)
        /\ readTimer' \in {TRUE, FALSE} /\ (failed' = TRUE \/ failed' = failed)
    BY <2>1, <2>2 DEF H!Stops, s
  <2>. HIDE DEF b
  <2>9. told' \in Seq(Heard)
    BY <1>1, <1>2, <2>6, <2>8
  <2>10. {readTimer', failed'} \subseteq BOOLEAN
    BY <1>3, <2>8, Zenon
  <2>. QED
    BY <2>1, <2>4, <2>5, <2>6, <2>7, <2>8, <2>9, <2>10 DEF ReaderData, H!Reading, Heard
<1>8. ASSUME H!BodyEnd \/ H!BodyRaises \/ H!TimeOut \/ H!Dropped PROVE ReaderData'
  <2>1. /\ UNCHANGED <<response, coming, buffer>> /\ state' \in {"over", "lost", "kept"}
        /\ readTimer' = FALSE \/ readTimer' = readTimer
        /\ failed' = failed \/ failed' = TRUE
    BY <1>8 DEF H!BodyEnd, H!BodyRaises, H!TimeOut, H!Dropped, H!Stops, H!Raises
  <2>2. told' \in {told, told \o <<"close">>, Append(told, "timeout")}
    BY <1>8 DEF H!BodyEnd, H!BodyRaises, H!TimeOut, H!Dropped, H!Stops, H!Raises
  <2>3. Append(told, "timeout") \in Seq(Heard)
    BY <1>1, AppendProperties DEF Heard
  <2>4. told' \in Seq(Heard)
    BY <1>1, <1>2, <2>2, <2>3
  <2>5. {readTimer', failed'} \subseteq BOOLEAN
    BY <1>3, <2>1, Zenon
  <2>6. H!BodyOf(response)' = H!BodyOf(response)
    BY <2>1 DEF H!BodyOf
  <2>. QED
    BY <2>1, <2>4, <2>5, <2>6 DEF ReaderData, H!Reading, H!Raised, Heard
<1>. QED
  BY <1>4, <1>5, <1>6, <1>7, <1>8 DEF H!Next, H!Event

LEMMA ReaderFailsStep ==
    ASSUME ReaderData, ReaderFails, H!Next
    PROVE  ReaderFails'
<1>1. response' = response
  BY DEF H!Next, H!Event, H!Construct, H!ConstructRaises, H!SendRequest, H!SendRaises,
         H!HeaderRaises, H!HeaderPart, H!Header, H!BodyFragment, H!BodyEnd,
         H!BodyRaises, H!TimeOut, H!Dropped
<1>2. coming \in Seq(H!Tokens) /\ Len(coming) \in Nat /\ DOMAIN coming = 1..Len(coming)
  BY LenProperties DEF ReaderData
<1>3. ASSUME NEW k \in 1..Len(coming), coming' = SubSeq(coming, k + 1, Len(coming)),
             HasReset(coming')
      PROVE  HasReset(coming)
  <2>1. \A i \in k + 1..Len(coming) : coming[i] \in H!Tokens
    BY <1>2, ElementOfSeq
  <2>2. /\ coming' \in Seq(H!Tokens)
        /\ Len(coming') = IF k + 1 <= Len(coming) THEN Len(coming) - (k + 1) + 1 ELSE 0
        /\ \A i \in 1..Len(coming) - (k + 1) + 1 : coming'[i] = coming[k + 1 + i - 1]
    BY <1>2, <1>3, <2>1, SubSeqProperties
  <2>3. PICK i \in DOMAIN coming' : coming'[i] = "reset"
    BY <1>3 DEF HasReset
  <2>4. DOMAIN coming' = 1..Len(coming')
    BY <2>2, LenProperties
  <2>5. PICK n \in Nat : n = Len(coming)
    BY <1>2
  <2>6. i \in 1..(IF k + 1 <= n THEN n - (k + 1) + 1 ELSE 0) /\ k \in 1..n
    BY <1>3, <2>2, <2>3, <2>4, <2>5
  <2>7. i \in Nat /\ k \in Nat /\ 1 <= i /\ 1 <= k /\ i <= n - k
    BY <2>6
  <2>8. i \in 1..n - (k + 1) + 1 /\ k + 1 + i - 1 \in 1..n
    BY <2>7
  <2>9. k + 1 + i - 1 \in DOMAIN coming /\ coming[k + 1 + i - 1] = "reset"
    BY <1>2, <2>2, <2>3, <2>5, <2>8
  <2>. QED
    BY <2>9 DEF HasReset
<1>4. ASSUME coming # <<>>, coming' = Tail(coming), HasReset(coming')
      PROVE  HasReset(coming)
  <2>1. /\ Len(coming') = Len(coming) - 1 /\ DOMAIN coming' = 1..Len(coming')
        /\ \A i \in 1..Len(coming') : coming'[i] = coming[i + 1]
    BY <1>2, <1>4, HeadTailProperties, LenProperties
  <2>2. PICK i \in DOMAIN coming' : coming'[i] = "reset"
    BY <1>4 DEF HasReset
  <2>3. i + 1 \in DOMAIN coming /\ coming[i + 1] = "reset"
    BY <1>2, <2>1, <2>2
  <2>. QED
    BY <2>3 DEF HasReset
<1>5. HasReset(coming') => HasReset(response'.tokens)
  <2>1. CASE H!HeaderPart
    BY <1>1, <1>4, <2>1 DEF H!HeaderPart, H!Next1, ReaderFails
  <2>2. CASE H!Header \/ H!BodyFragment
    <3>1. PICK k \in 1..Len(coming) : coming' = SubSeq(coming, k + 1, Len(coming))
      BY <2>2 DEF H!Header, H!BodyFragment, H!Fragment
    <3>. QED
      BY <1>1, <1>3, <3>1 DEF ReaderFails
  <2>3. CASE ~(H!HeaderPart \/ H!Header \/ H!BodyFragment)
    <3>1. coming' = coming
      BY <2>3 DEF H!Next, H!Event, H!Construct, H!ConstructRaises, H!SendRequest,
                  H!SendRaises, H!HeaderRaises, H!BodyEnd, H!BodyRaises, H!TimeOut, H!Dropped
    <3>. QED
      BY <1>1, <3>1 DEF ReaderFails
  <2>. QED
    BY <2>1, <2>2, <2>3
<1>6. state' \in H!Raised => failed'
  BY DEF H!Next, H!Event, H!Construct, H!ConstructRaises, H!SendRequest, H!SendRaises,
         H!HeaderRaises, H!HeaderPart, H!Header, H!BodyFragment, H!BodyEnd,
         H!BodyRaises, H!TimeOut, H!Dropped, H!Stops, H!Raises, H!Raised, ReaderFails
<1>7. state' = "kept" => failed' \/ HasReset(response'.tokens)
  <2>. SUFFICES ASSUME state' = "kept" PROVE failed' \/ HasReset(response'.tokens)
    OBVIOUS
  <2>1. H!TimeOut
    BY DEF H!Next, H!Event, H!Construct, H!ConstructRaises, H!SendRequest, H!SendRaises,
           H!HeaderRaises, H!HeaderPart, H!Header, H!BodyFragment, H!BodyEnd,
           H!BodyRaises, H!Dropped, H!Stops, H!Raises
  <2>2. (state \in H!Raised \/ "reset" \in H!ToSet(coming)) /\ failed' = failed
    BY <2>1 DEF H!TimeOut, H!MayBeReset
  <2>3. "reset" \in H!ToSet(coming) => HasReset(coming)
    BY DEF H!ToSet, HasReset
  <2>. QED
    BY <1>1, <2>2, <2>3 DEF ReaderFails
<1>. QED
  BY <1>5, <1>6, <1>7 DEF ReaderFails

\* A reader that waits is watched.
LEMMA ReaderWaits ==
    ASSUME NEW k \in Kinds, state' \in H!Reading => k = IF state' = "request" THEN "writer" ELSE "reader",
           readTimer', num'[Reader] \in Numbers, fds'[num'[Reader]] = <<Reader, k>>
    PROVE  H!Watched'
<1>1. num'[Reader] # None
  BY DescriptorsAssumption
<1>. QED
  BY <1>1 DEF H!Watched, H!WaitsAs

LEMMA ReaderWaiting ==
    ASSUME ReaderInv, Table, state \in H!Reading
    PROVE  /\ num[Reader] \in Numbers /\ readTimer
           /\ fds[num[Reader]] = <<Reader, IF state = "request" THEN "writer" ELSE "reader">>
<1>1. Reader \in Client
  BY ClientsAssumption DEF H!HttpReaderAssumption
<1>2. num[Reader] \in Numbers
  BY <1>1, TableTypes DEF ReaderInv, H!Watched, H!WaitsAs
<1>. QED
  BY <1>2 DEF ReaderInv, H!Watched, H!WaitsAs

\* Without a socket it has none.
LEMMA NoSocketNoEntry ==
    ASSUME Table, num[Reader] = None
    PROVE  NoEntry
<1>1. Reader \in Client
  BY ClientsAssumption DEF H!HttpReaderAssumption
<1>. QED
  BY <1>1, TableTypes DEF Table, NoEntry

\* Steps of the reader
LEMMA ReaderStep ==
    ASSUME Table, ReaderInv, H!Next
    PROVE  /\ Table' /\ Aside({Reader}) /\ ReaderInv'
           /\ LeftBehind' \subseteq LeftBehind
<1>. DEFINE Keeps == Table' /\ Aside({Reader}) /\ LeftBehind' \subseteq LeftBehind
            Waits1 == H!Watched'
                      /\ (state' \in {"new", "refused", "over"} => num'[Reader] = None)
                      /\ (state' \notin H!Reading => NoEntry')
<1>1. Reader \in Client
  BY ClientsAssumption DEF H!HttpReaderAssumption
<1>2. /\ "request" \in H!Reading /\ "header" \in H!Reading /\ "body" \in H!Reading
      /\ {"new", "refused", "over", "kept", "lost", "broken"} \cap H!Reading = {}
      /\ "writer" \in Kinds /\ "reader" \in Kinds
  BY DEF H!Reading, Kinds
<1>3. state \in H!Reading => num[Reader] \in Numbers /\ readTimer
  BY ReaderWaiting
<1>4. UNCHANGED <<num, fds>> => Keeps
  BY DEF Table, DescriptorsTypeOK, Aside, LeftBehind
<1>0. Table' /\ num'[Reader] = None => NoEntry'
  <2>. SUFFICES ASSUME Table', num'[Reader] = None PROVE NoEntry'
    OBVIOUS
  <2>1. num' \in [Client -> Numbers \cup {None}] /\ None \notin Numbers
    BY DescriptorsAssumption DEF Table, DescriptorsTypeOK
  <2>. QED
    BY <1>1, <2>1 DEF Table, NoEntry
<1>5. ASSUME H!Construct PROVE Keeps /\ Waits1
  <2>1. num[Reader] = None /\ Opens(Reader, "writer") /\ state' = "request" /\ readTimer'
    BY <1>2, <1>5, ReaderTable DEF H!Construct, ReaderInv
  <2>2. /\ Keeps /\ num'[Reader] \in Numbers
        /\ fds'[num'[Reader]] = <<Reader, "writer">>
    BY <1>1, <1>2, <2>1, OpensTable
  <2>. QED
    BY <1>2, <2>1, <2>2, ReaderWaits
<1>6. ASSUME H!ConstructRaises PROVE Keeps /\ Waits1
  <2>1. UNCHANGED <<num, fds>> /\ state = "new" /\ state' = "refused"
    BY <1>6 DEF H!ConstructRaises
  <2>2. num'[Reader] = None
    BY <2>1 DEF ReaderInv
  <2>. QED
    BY <1>0, <1>2, <1>4, <2>1, <2>2 DEF H!Watched
<1>7. ASSUME state \in H!Reading, H!Waits(Reader, "reader"), readTimer',
             state' \in {"header", "body"}
      PROVE  Keeps /\ Waits1
  <2>1. UNCHANGED num /\ fds' = [fds EXCEPT ![num[Reader]] = <<Reader, "reader">>]
    BY <1>2, <1>7, ReaderTable
  <2>2. <<Reader, "reader">> \in {None} \cup {<<Reader, k>> : k \in Kinds}
    BY <1>2
  <2>3. Keeps /\ fds'[num'[Reader]] = <<Reader, "reader">>
    BY <1>1, <1>3, <1>7, <2>1, <2>2, RegistersTable
  <2>4. H!Watched'
    BY <1>2, <1>3, <1>7, <2>1, <2>3, ReaderWaits
  <2>. QED
    BY <1>2, <1>7, <2>3, <2>4
<1>8. ASSUME num[Reader] \in Numbers, H!Unregisters(Reader),
             state' \in {"lost", "broken", "kept"}
      PROVE  Keeps /\ Waits1
  <2>1. UNCHANGED num /\ fds' = [fds EXCEPT ![num[Reader]] = None]
    BY <1>8 DEF H!Unregisters
  <2>2. Keeps
    BY <1>1, <1>8, <2>1, RegistersTable
  <2>3. NoEntry'
    <3>1. \A n \in Numbers : fds'[n] = IF n = num[Reader] THEN None ELSE fds[n]
      BY <2>1, TableTypes
    <3>2. \A k \in Kinds : <<Reader, k>> # None
      BY <1>1, TableTypes
    <3>3. \A n \in Numbers, k \in Kinds : fds[n] = <<Reader, k>> => num[Reader] = n
      BY <1>1 DEF Table
    <3>. QED
      BY <3>1, <3>2, <3>3 DEF NoEntry
  <2>. QED
    BY <1>2, <1>8, <2>2, <2>3 DEF H!Watched
<1>9. ASSUME num[Reader] \in Numbers, H!Leaves(Reader), state' = "over"
      PROVE  Keeps /\ Waits1
  <2>1. /\ num' = [num EXCEPT ![Reader] = None]
        /\ fds' = [fds EXCEPT ![num[Reader]] = None]
    BY <1>9 DEF H!Leaves
  <2>2. Keeps /\ num'[Reader] = None
    BY <1>1, <1>9, <2>1, LeavesTable
  <2>. QED
    BY <1>0, <1>2, <1>9, <2>2 DEF H!Watched
<1>10. ASSUME H!HeaderPart PROVE Keeps /\ Waits1
  <2>1. UNCHANGED <<state, readTimer, num, fds>> /\ state \in H!Reading
    BY <1>2, <1>10 DEF H!HeaderPart
  <2>2. H!Watched'
    BY <2>1 DEF ReaderInv, H!Watched, H!WaitsAs
  <2>. QED
    BY <1>4, <2>1, <2>2 DEF ReaderInv
<1>11. ASSUME H!BodyFragment PROVE Keeps /\ Waits1
  <2>1. /\ state = "body"
        /\ \/ H!Leaves(Reader) /\ state' = "over"
           \/ readTimer' /\ UNCHANGED <<state, num, fds>>
    BY <1>11 DEF H!BodyFragment, H!Stops
  <2>2. CASE readTimer' /\ UNCHANGED <<state, num, fds>>
    <3>1. H!Watched'
      BY <2>1, <2>2 DEF ReaderInv, H!Watched, H!WaitsAs
    <3>. QED
      BY <1>2, <1>4, <2>1, <2>2, <3>1
  <2>. QED
    BY <1>2, <1>3, <1>9, <2>1, <2>2
<1>12. ASSUME H!TimeOut PROVE Keeps /\ Waits1
  <2>1. \/ num[Reader] = None /\ state' = "over" /\ UNCHANGED <<num, fds>>
        \/ num[Reader] # None /\ H!Leaves(Reader) /\ state' = "over"
        \/ num[Reader] # None /\ H!Unregisters(Reader) /\ state' = "kept"
    BY <1>12 DEF H!TimeOut
  <2>2. num[Reader] # None => num[Reader] \in Numbers
    BY <1>1, TableTypes
  <2>3. CASE num[Reader] = None /\ state' = "over" /\ UNCHANGED <<num, fds>>
    BY <1>0, <1>2, <1>4, <2>3 DEF H!Watched
  <2>. QED
    BY <1>8, <1>9, <2>1, <2>2, <2>3
<1>18. ASSUME H!Dropped PROVE Keeps /\ Waits1
  <2>1. /\ state \notin H!Reading /\ state' = "over"
        /\ num' = [num EXCEPT ![Reader] = None] /\ UNCHANGED fds
    BY <1>2, <1>18 DEF H!Dropped
  <2>2. CASE num[Reader] = None
    <3>1. UNCHANGED <<num, fds>> /\ num'[Reader] = None
      BY <1>1, <2>1, <2>2, TableTypes
    <3>. QED
      BY <1>0, <1>2, <1>4, <2>1, <3>1 DEF H!Watched
  <2>3. CASE num[Reader] # None
    <3>1. num[Reader] \in Numbers /\ fds[num[Reader]] # Held
      BY <1>1, <2>3, TableTypes DEF Table
    <3>2. \A d \in Client, k \in Kinds : fds[num[Reader]] # <<d, k>>
      <4>1. \A d \in Client : d # Reader => num[d] # num[Reader]
        BY <1>1, <2>3 DEF Table
      <4>. QED
        BY <1>1, <2>1, <3>1, <4>1 DEF Table, ReaderInv, NoEntry
    <3>3. fds[num[Reader]] \in {Closed, Held, None}
      BY <3>1, <3>2, TableTypes DEF Registrations
    <3>4. fds' = [fds EXCEPT ![num[Reader]] = fds[num[Reader]]]
      BY <2>1, <3>1, TableTypes
    <3>5. Table' /\ Aside({Reader}) /\ num'[Reader] = None
      BY <1>1, <2>1, <3>1, <3>3, <3>4, LeavesTable
    <3>6. LeftBehind' \subseteq LeftBehind
      BY <2>1 DEF LeftBehind
    <3>. QED
      BY <1>0, <1>2, <2>1, <3>5, <3>6 DEF H!Watched
  <2>. QED
    BY <2>2, <2>3
<1>. HIDE DEF Keeps, Waits1
<1>13. ASSUME H!SendRequest PROVE Keeps /\ Waits1
  BY <1>2, <1>3, <1>7, <1>13 DEF H!SendRequest
<1>14. ASSUME H!SendRaises \/ H!HeaderRaises \/ H!BodyRaises PROVE Keeps /\ Waits1
  BY <1>2, <1>3, <1>8, <1>14 DEF H!SendRaises, H!HeaderRaises, H!BodyRaises, H!Raises
<1>15. ASSUME H!Header PROVE Keeps /\ Waits1
  <2>1. /\ state = "header"
        /\ \/ H!Leaves(Reader) /\ state' = "over"
           \/ H!Waits(Reader, "reader") /\ state' = "body" /\ readTimer'
    BY <1>15 DEF H!Header, H!Stops
  <2>. QED
    BY <1>2, <1>3, <1>7, <1>9, <2>1
<1>16. ASSUME H!BodyEnd PROVE Keeps /\ Waits1
  BY <1>2, <1>3, <1>9, <1>16 DEF H!BodyEnd, H!Stops
<1>17. Keeps /\ Waits1
  BY <1>5, <1>6, <1>10, <1>11, <1>12, <1>13, <1>14, <1>15, <1>16, <1>18
     DEF H!Next, H!Event
<1>19. ReaderData' /\ ReaderFails'
  BY ReaderDataStep, ReaderFailsStep DEF ReaderInv
<1>. QED
  BY <1>17, <1>19 DEF ReaderInv, Keeps, Waits1

\* Steps of the others
LEMMA ReaderIsLeft ==
    ASSUME Table, Table', ReaderInv, UNCHANGED reader,
           NEW C, Reader \notin C, Aside(C)
    PROVE  ReaderInv'
<1>1. Reader \in Client
  BY ClientsAssumption DEF H!HttpReaderAssumption
<1>2. UNCHANGED <<response, state, coming, buffer, readTimer, told, failed>>
  BY DEF reader
<1>3. num'[Reader] = num[Reader]
  BY <1>1 DEF Aside
<1>4. Comes' = Comes /\ H!BodyOf(response)' = H!BodyOf(response)
  BY <1>2 DEF Comes, H!BodyOf
<1>5. Behind(coming)' <=> Behind(coming)
  BY <1>2, <1>4 DEF Behind
<1>6. ReaderData'
  BY <1>2, <1>4, <1>5 DEF ReaderInv, ReaderData
<1>7. ASSUME state \in H!Reading PROVE H!Watched'
  <2>. DEFINE k == IF state = "request" THEN "writer" ELSE "reader"
  <2>1. num[Reader] \in Numbers /\ readTimer /\ fds[num[Reader]] = <<Reader, k>>
    BY <1>7, ReaderWaiting
  <2>2. k \in Kinds
    BY DEF Kinds
  <2>3. fds'[num[Reader]] = <<Reader, k>>
    BY <1>1, <2>1, <2>2 DEF Aside
  <2>. QED
    BY <1>2, <1>3, <2>1, <2>2, <2>3, ReaderWaits
<1>8. H!Watched'
  BY <1>2, <1>7 DEF H!Watched
<1>9. ReaderFails'
  BY <1>2 DEF ReaderInv, ReaderFails, HasReset
<1>10. NoEntry => NoEntry'
  BY <1>1 DEF Aside, NoEntry
<1>. QED
  BY <1>2, <1>3, <1>6, <1>8, <1>9, <1>10 DEF ReaderInv

----------------------------------------------------------------------------
(* The Gio.                                                                   *)

\* The operators of Gio on the table are those of Descriptors.
LEMMA GioTable ==
    /\ G!DescriptorsTypeOK <=> DescriptorsTypeOK
    /\ G!Available = Available /\ G!Lowest = Lowest
    /\ G!Kinds = Kinds
<1>1. G!Kinds = Kinds /\ G!Closed = Closed /\ G!Held = Held
  BY DEF G!Kinds, Kinds, G!Closed, Closed, G!Held, Held
<1>2. G!DescriptorsTypeOK <=> DescriptorsTypeOK
  BY <1>1 DEF G!DescriptorsTypeOK, DescriptorsTypeOK, G!Registrations, Registrations
<1>3. G!Available = Available
  BY <1>1 DEF G!Available, Available
<1>4. G!Lowest = Lowest
  BY <1>3 DEF G!Lowest, Lowest, G!Min, Min
<1>. QED
  BY <1>1, <1>2, <1>3, <1>4

\* Timers that are pending, by position
PendingIn(b) == {i \in DOMAIN b : b[i] = "pending"}

\* The Gio without the table: each timer that was made is pending, or has timed
\* out at most once; an exception that the generator handles came from a context.
GioData ==
    /\ at \in G!Waiting \cup G!Over \cup {"new", "running"}
    /\ by \in {"send", "timeout", "close"}
    /\ blocks \in Seq(Mine \cup G!Timers) /\ Len(blocks) <= MaxBlocks
    /\ context \in Mine \cup {None} /\ arriving \in [Mine -> Seq(G!Tokens)]
    /\ message \in Nat \cup {None} /\ got \in Seq(Nat) /\ units \in Nat
    /\ made \in 0..MaxTimers /\ fired \in 0..made
    /\ Cardinality(PendingIn(blocks)) + fired <= made
    /\ by = "close" => message = 0
    /\ by # "send" => context \in Mine
    /\ at \in G!Waiting => by = "send"

GioInv ==
    /\ GioData /\ G!Watched
    /\ at \in G!Waiting =>
          context \in Mine /\ G!Innermost(context) /\ num[context] \in Numbers

Unregistered == \A c \in Mine, n \in Numbers, k \in Kinds : fds[n] # <<c, k>>

\* Some of the blocks are timers that are pending.
LEMMA PendingIs ==
    ASSUME NEW S, NEW b \in Seq(S)
    PROVE  /\ IsFiniteSet(PendingIn(b)) /\ Cardinality(PendingIn(b)) \in Nat
           /\ \A i \in PendingIn(b) : Cardinality(PendingIn(b)) >= 1
<1>1. PendingIn(b) \subseteq 1..Len(b) /\ Len(b) \in Nat
  BY LenProperties DEF PendingIn
<1>2. IsFiniteSet(1..Len(b))
  BY <1>1, FS_Interval
<1>3. IsFiniteSet(PendingIn(b)) /\ Cardinality(PendingIn(b)) \in Nat
  BY <1>1, <1>2, FS_Subset, FS_CardinalityType
<1>4. \A i \in PendingIn(b) : Cardinality(PendingIn(b)) # 0
  BY <1>3, FS_EmptySet
<1>. QED
  BY <1>3, <1>4

\* One block more, one less, and a timer that has fired.
LEMMA PendingAppend ==
    ASSUME NEW S, NEW b \in Seq(S), NEW x \in S
    PROVE  Cardinality(PendingIn(Append(b, x)))
              <= Cardinality(PendingIn(b)) + (IF x = "pending" THEN 1 ELSE 0)
<1>. DEFINE a == Append(b, x)
<1>1. /\ Len(b) \in Nat /\ DOMAIN b = 1..Len(b)
      /\ a \in Seq(S) /\ Len(a) = Len(b) + 1 /\ DOMAIN a = 1..Len(a)
      /\ \A i \in 1..Len(b) : a[i] = b[i]
      /\ a[Len(b) + 1] = x
  BY AppendProperties, LenProperties
<1>. HIDE DEF a
<1>2. PendingIn(a) \subseteq PendingIn(b) \cup (IF x = "pending" THEN {Len(b) + 1} ELSE {})
  BY <1>1 DEF PendingIn
<1>3. /\ IsFiniteSet(PendingIn(b) \cup {Len(b) + 1})
      /\ Cardinality(PendingIn(b) \cup {Len(b) + 1}) <= Cardinality(PendingIn(b)) + 1
      /\ IsFiniteSet(PendingIn(b)) /\ Cardinality(PendingIn(b)) \in Nat
  <2>1. IsFiniteSet(PendingIn(b)) /\ Cardinality(PendingIn(b)) \in Nat
    BY PendingIs
  <2>2. /\ IsFiniteSet(PendingIn(b) \cup {Len(b) + 1})
        /\ Cardinality(PendingIn(b) \cup {Len(b) + 1})
              = IF Len(b) + 1 \in PendingIn(b) THEN Cardinality(PendingIn(b))
                ELSE Cardinality(PendingIn(b)) + 1
    BY <2>1, FS_AddElement
  <2>. QED
    BY <2>1, <2>2
<1>4. CASE x = "pending"
  <2>1. /\ PendingIn(a) \subseteq PendingIn(b) \cup {Len(b) + 1}
        /\ Cardinality(PendingIn(a)) <= Cardinality(PendingIn(b) \cup {Len(b) + 1})
    BY <1>2, <1>3, <1>4, FS_Subset
  <2>2. /\ Cardinality(PendingIn(a)) \in Nat
        /\ Cardinality(PendingIn(b) \cup {Len(b) + 1}) \in Nat
    BY <1>1, <1>3, PendingIs, FS_CardinalityType
  <2>. QED
    BY <1>3, <1>4, <2>1, <2>2 DEF a
<1>5. CASE x # "pending"
  <2>1. Cardinality(PendingIn(a)) <= Cardinality(PendingIn(b))
    BY <1>2, <1>3, <1>5, FS_Subset
  <2>. QED
    BY <1>3, <1>5, <2>1 DEF a
<1>. QED
  BY <1>4, <1>5

LEMMA PendingFront ==
    ASSUME NEW S, NEW b \in Seq(S), b # <<>>
    PROVE  /\ G!Front(b) \in Seq(S) /\ Len(G!Front(b)) <= Len(b)
           /\ Cardinality(PendingIn(G!Front(b))) <= Cardinality(PendingIn(b))
<1>. DEFINE f == SubSeq(b, 1, Len(b) - 1)
<1>1. G!Front(b) = f
  BY DEF G!Front
<1>2. Len(b) \in Nat /\ DOMAIN b = 1..Len(b) /\ Len(b) # 0
  BY LenProperties, EmptySeq
<1>3. /\ f \in Seq(S) /\ Len(f) <= Len(b)
      /\ \A i \in 1..Len(f) : f[i] = b[i]
      /\ \A i \in 1..Len(f) : i \in 1..Len(b)
  <2>1. \A i \in 1..Len(b) - 1 : b[i] \in S
    BY <1>2, ElementOfSeq
  <2>2. /\ f \in Seq(S) /\ Len(f) = IF 1 <= Len(b) - 1 THEN Len(b) - 1 - 1 + 1 ELSE 0
        /\ \A i \in 1..Len(b) - 1 - 1 + 1 : f[i] = b[1 + i - 1]
    BY <1>2, <2>1, SubSeqProperties
  <2>. HIDE DEF f
  <2>3. PICK n \in Nat : n = Len(b) /\ n # 0
    BY <1>2
  <2>4. Len(f) = n - 1
    BY <2>2, <2>3
  <2>5. \A i \in 1..n - 1 : f[i] = b[i]
    <3>1. \A i \in 1..n - 1 : i \in 1..Len(b) - 1 - 1 + 1 /\ 1 + i - 1 = i
      BY <2>3
    <3>. QED
      BY <2>2, <3>1
  <2>. QED
    BY <2>2, <2>3, <2>4, <2>5
<1>4. DOMAIN f = 1..Len(f)
  BY <1>3, LenProperties
<1>. HIDE DEF f
<1>5. PendingIn(f) \subseteq PendingIn(b)
  BY <1>2, <1>3, <1>4 DEF PendingIn
<1>. QED
  BY <1>1, <1>3, <1>5, PendingIs, FS_Subset

LEMMA PendingFires ==
    ASSUME NEW S, NEW b \in Seq(S), NEW i \in DOMAIN b, b[i] = "pending", "fired" \in S
    PROVE  /\ [b EXCEPT ![i] = "fired"] \in Seq(S)
           /\ Len([b EXCEPT ![i] = "fired"]) = Len(b)
           /\ Cardinality(PendingIn([b EXCEPT ![i] = "fired"])) = Cardinality(PendingIn(b)) - 1
<1>. DEFINE a == [b EXCEPT ![i] = "fired"]
<1>1. Len(b) \in Nat /\ DOMAIN b = 1..Len(b)
  BY LenProperties
<1>2. /\ a \in Seq(S) /\ Len(a) = Len(b)
      /\ \A j \in 1..Len(b) : a[j] = IF j = i THEN "fired" ELSE b[j]
  BY <1>1, ExceptSeq
<1>3. DOMAIN a = 1..Len(b)
  BY <1>1
<1>. HIDE DEF a
<1>4. PendingIn(a) = PendingIn(b) \ {i} /\ i \in PendingIn(b)
  BY <1>1, <1>2, <1>3 DEF PendingIn
<1>5. Cardinality(PendingIn(a)) = Cardinality(PendingIn(b)) - 1
  BY <1>4, PendingIs, FS_RemoveElement
<1>. QED
  BY <1>2, <1>5 DEF a

\* The assumptions that the proofs about Gio use
LEMMA GioConstants ==
    /\ Mine \subseteq Client /\ "pending" \notin Mine /\ "fired" \in Mine \cup G!Timers
    /\ "pending" \in Mine \cup G!Timers
    /\ MaxBlocks \in Nat /\ MaxTimers \in Nat /\ None \notin Numbers
    /\ "new" \notin G!Waiting /\ "running" \notin G!Waiting
    /\ "parked" \notin G!Waiting /\ "dead" \notin G!Waiting
    /\ G!Over = {"parked", "dead"}
BY ClientsAssumption, DescriptorsAssumption
   DEF G!GioAssumption, G!Timers, G!Waiting, G!Over

LEMMA GioDataStep ==
    ASSUME GioData, GioInv, G!Next
    PROVE  GioData'
<1>. DEFINE S == Mine \cup G!Timers
<1>1. /\ Cardinality(PendingIn(blocks)) \in Nat /\ blocks \in Seq(S)
      /\ Cardinality(PendingIn(<<>>)) = 0 /\ <<>> \in Seq(S) /\ Len(<<>>) = 0
  <2>1. blocks \in Seq(S)
    BY DEF GioData
  <2>2. Cardinality(PendingIn(blocks)) \in Nat
    BY <2>1, PendingIs
  <2>3. <<>> \in Seq(S) /\ Len(<<>>) = 0
    OBVIOUS
  <2>4. PendingIn(<<>>) = {}
    BY DEF PendingIn
  <2>. QED
    BY <2>1, <2>2, <2>3, <2>4, FS_EmptySet
<1>2. /\ made \in Nat /\ fired \in Nat /\ fired <= made /\ made <= MaxTimers
      /\ MaxTimers \in Nat /\ MaxBlocks \in Nat /\ Len(blocks) \in Nat
      /\ Len(blocks) <= MaxBlocks
  BY <1>1, GioConstants, LenProperties DEF GioData
<1>3. at \in G!Waiting => context \in Mine
  BY DEF GioInv
<1>4. ASSUME NEW c \in Mine, G!Open(c) \/ G!Close(c) PROVE GioData'
  BY <1>4 DEF G!Open, G!Close, G!state, G!history, GioData
<1>5. ASSUME G!Make PROVE GioData'
  BY <1>5, GioConstants DEF G!Make, G!history, GioData
<1>6. ASSUME NEW b \in Mine \cup {"pending"}, G!Enter(b) PROVE GioData'
  <2>1. /\ at' = at /\ by' = by /\ blocks' = Append(blocks, b) /\ Len(blocks) < MaxBlocks
        /\ UNCHANGED <<context, arriving, message, got, units, fired>>
        /\ \/ b \in Mine /\ made' = made
           \/ b = "pending" /\ made < MaxTimers /\ made' = made + 1
    BY <1>6 DEF G!Enter
  <2>2. b \in S
    BY GioConstants
  <2>3. /\ blocks' \in Seq(S) /\ Len(blocks') = Len(blocks) + 1
        /\ Cardinality(PendingIn(blocks'))
             <= Cardinality(PendingIn(blocks)) + (IF b = "pending" THEN 1 ELSE 0)
        /\ Cardinality(PendingIn(blocks')) \in Nat
    <3>. HIDE DEF S
    <3>1. blocks' \in Seq(S) /\ Len(blocks') = Len(blocks) + 1
      BY <1>1, <2>1, <2>2, AppendProperties
    <3>2. Cardinality(PendingIn(blocks'))
             <= Cardinality(PendingIn(blocks)) + (IF b = "pending" THEN 1 ELSE 0)
      BY <1>1, <2>1, <2>2, PendingAppend
    <3>3. Cardinality(PendingIn(blocks')) \in Nat
      BY <3>1, PendingIs
    <3>. QED
      BY <3>1, <3>2, <3>3
  <2>4. Cardinality(PendingIn(blocks)) + fired <= made
    BY DEF GioData
  <2>5. /\ made' \in 0..MaxTimers /\ fired' \in 0..made'
        /\ Cardinality(PendingIn(blocks')) + fired' <= made'
    <3>1. CASE b \in Mine /\ made' = made
      BY <1>1, <1>2, <2>1, <2>3, <2>4, <3>1, GioConstants
    <3>2. CASE b = "pending" /\ made < MaxTimers /\ made' = made + 1
      BY <1>1, <1>2, <2>1, <2>3, <2>4, <3>2
    <3>. QED
      BY <2>1, <3>1, <3>2
  <2>6. Len(blocks') <= MaxBlocks
    BY <1>2, <2>1, <2>3
  <2>. QED
    BY <2>1, <2>3, <2>5, <2>6 DEF GioData
<1>7. ASSUME G!Exit PROVE GioData'
  <2>1. /\ blocks # <<>> /\ blocks' = G!Front(blocks)
        /\ UNCHANGED <<at, by, context, arriving, message, got, units, made, fired>>
    BY <1>7 DEF G!Exit, G!history
  <2>2. /\ blocks' \in Seq(S) /\ Len(blocks') <= Len(blocks)
        /\ Cardinality(PendingIn(blocks')) <= Cardinality(PendingIn(blocks))
    BY <1>1, <2>1, PendingFront
  <2>3. Cardinality(PendingIn(blocks')) \in Nat /\ Len(blocks') \in Nat
    BY <2>2, PendingIs, LenProperties
  <2>4. Cardinality(PendingIn(blocks')) + fired' <= made' /\ Len(blocks') <= MaxBlocks
    BY <1>1, <1>2, <2>1, <2>2, <2>3 DEF GioData
  <2>. QED
    BY <2>1, <2>2, <2>4 DEF GioData
<1>8. ASSUME G!Ends \/ G!Collect PROVE GioData'
  <2>1. /\ (at' = at \/ at' \in {"parked", "dead"}) /\ blocks' = <<>>
        /\ UNCHANGED <<by, context, arriving, message, got, units, made, fired>>
    BY <1>8 DEF G!Ends, G!Collect, G!history
  <2>2. /\ blocks' \in Seq(S) /\ Len(blocks') <= MaxBlocks
        /\ Cardinality(PendingIn(blocks')) + fired' <= made'
    <3>1. Cardinality(PendingIn(blocks')) = 0
      BY <1>1, <2>1
    <3>. QED
      BY <1>1, <1>2, <2>1, <3>1
  <2>. QED
    BY <2>1, <2>2, GioConstants DEF GioData
<1>9. ASSUME NEW kind \in G!Waiting, G!Yields(kind) PROVE GioData'
  BY <1>9, GioConstants DEF G!Yields, G!history, GioData
<1>10. ASSUME G!YieldsAfterTimeout \/ G!YieldsAfterClose PROVE GioData'
  <2>1. /\ at' \in {at, "dead"} /\ by' \in {"send", by}
        /\ UNCHANGED <<blocks, context, arriving, message, units, made, fired>>
        /\ got' = got \/ (message \in Nat /\ got' = Append(got, message))
    BY <1>10 DEF G!YieldsAfterTimeout, G!YieldsAfterClose, GioData
  <2>2. got \in Seq(Nat)
    BY DEF GioData
  <2>3. message \in Nat => Append(got, message) \in Seq(Nat)
    BY <2>2, AppendProperties
  <2>4. got' \in Seq(Nat)
    BY <2>1, <2>2, <2>3
  <2>. QED
    BY <2>1, <2>4, GioConstants DEF GioData
<1>11. ASSUME G!Written PROVE GioData'
  BY <1>11, GioConstants DEF G!Written, G!history, GioData, G!Waiting
<1>12. ASSUME G!Read PROVE GioData'
  <2>1. /\ at = "read" /\ at' = "running" /\ units' = units + 1 /\ message' = units'
        /\ got' = Append(got, units') /\ context \in Mine /\ arriving[context] # <<>>
        /\ arriving' = [arriving EXCEPT ![context] = Tail(@)]
        /\ UNCHANGED <<by, blocks, context, made, fired>>
    BY <1>3, <1>12 DEF G!Read, G!Next1, G!Waiting
  <2>2. units' \in Nat /\ got' \in Seq(Nat) /\ by = "send"
    BY <2>1, AppendProperties DEF GioData, G!Waiting
  <2>3. arriving' \in [Mine -> Seq(G!Tokens)]
    <3>1. Tail(arriving[context]) \in Seq(G!Tokens)
      BY <2>1, HeadTailProperties DEF GioData
    <3>. QED
      BY <2>1, <3>1 DEF GioData
  <2>. QED
    BY <2>1, <2>2, <2>3, GioConstants DEF GioData
<1>13. ASSUME G!ReadEnd PROVE GioData'
  BY <1>3, <1>13, GioConstants DEF G!ReadEnd, G!history, G!Closing, GioData, G!Waiting
<1>14. ASSUME G!Fails PROVE GioData'
  BY <1>14, GioConstants DEF G!Fails, G!history, GioData
<1>15. ASSUME NEW i \in DOMAIN blocks, G!TimesOut(i) PROVE GioData'
  <2>1. /\ blocks[i] = "pending" /\ blocks' = [blocks EXCEPT ![i] = "fired"]
        /\ UNCHANGED <<context, arriving, message, got, units, made>>
        /\ \/ at \in G!Waiting /\ by' = "timeout" /\ at' = "running" /\ fired' = fired + 1
           \/ at \notin G!Waiting /\ UNCHANGED <<by, at, fired>>
    BY <1>15 DEF G!TimesOut
  <2>2. /\ blocks' \in Seq(S) /\ Len(blocks') = Len(blocks)
        /\ Cardinality(PendingIn(blocks')) = Cardinality(PendingIn(blocks)) - 1
    <3>1. "fired" \in S
      BY GioConstants
    <3>. HIDE DEF S
    <3>. QED
      BY <1>1, <2>1, <3>1, PendingFires
  <2>3. Cardinality(PendingIn(blocks')) \in Nat
    BY <2>2, PendingIs
  <2>4. /\ Cardinality(PendingIn(blocks')) + fired' <= made'
        /\ fired' \in 0..made' /\ Len(blocks') <= MaxBlocks
    <3>1. fired' = fired \/ fired' = fired + 1
      BY <2>1
    <3>2. Cardinality(PendingIn(blocks)) + fired <= made /\ made' = made
      BY <2>1 DEF GioData
    <3>3. fired' \in Nat /\ Cardinality(PendingIn(blocks')) + fired' <= made
      BY <1>1, <1>2, <2>2, <2>3, <3>1, <3>2
    <3>4. fired' <= made
      BY <1>2, <2>3, <3>3
    <3>5. Len(blocks') <= MaxBlocks
      BY <1>2, <2>2
    <3>. QED
      BY <1>2, <3>2, <3>3, <3>4, <3>5
  <2>5. by' = by \/ (by' = "timeout" /\ context \in Mine /\ at' = "running")
    BY <1>3, <2>1
  <2>. QED
    BY <2>1, <2>2, <2>4, <2>5, GioConstants DEF GioData
<1>. QED
  BY <1>4, <1>5, <1>6, <1>7, <1>8, <1>9, <1>10, <1>11, <1>12, <1>13, <1>14, <1>15
     DEF G!Next, G!Generator, G!TimerFires

\* A driver that does not wait has no registration.
LEMMA GioUnwatched ==
    /\ at \notin G!Waiting => (G!Watched <=> Unregistered)
    /\ at' \notin G!Waiting => (G!Watched' <=> Unregistered')
<1>1. G!Kinds = Kinds
  BY GioTable
<1>. QED
  BY <1>1 DEF G!Watched, Unregistered

\* There is one innermost context.
LEMMA GioInnermost ==
    ASSUME NEW c \in Mine, NEW d \in Mine, G!Innermost(c), G!Innermost(d),
           blocks \in Seq(Mine \cup G!Timers)
    PROVE  c = d
<1>1. PICK i \in DOMAIN blocks :
          blocks[i] = c /\ \A j \in DOMAIN blocks : j > i => blocks[j] \notin Mine
  BY DEF G!Innermost
<1>2. PICK j \in DOMAIN blocks :
          blocks[j] = d /\ \A h \in DOMAIN blocks : h > j => blocks[h] \notin Mine
  BY DEF G!Innermost
<1>3. i \in Int /\ j \in Int
  <2>1. DOMAIN blocks = 1..Len(blocks)
    BY LenProperties
  <2>. QED
    BY <2>1
<1>4. ~(i < j) /\ ~(j < i)
  BY <1>1, <1>2, <1>3
<1>. QED
  BY <1>1, <1>2, <1>3, <1>4

LEMMA GioWaiting ==
    ASSUME Table, GioInv, at \in G!Waiting
    PROVE  /\ context \in Mine /\ num[context] \in Numbers
           /\ \A c \in Mine, n \in Numbers, k \in Kinds :
                 fds[n] = <<c, k>> => c = context /\ n = num[context]
<1>1. context \in Mine /\ G!Innermost(context) /\ num[context] \in Numbers
  BY DEF GioInv
<1>2. \A c \in Mine, n \in Numbers, k \in Kinds :
         fds[n] = <<c, k>> => G!Innermost(c) /\ n = num[c]
  BY GioTable DEF GioInv, G!Watched
<1>3. \A c \in Mine : G!Innermost(c) => c = context
  BY <1>1, GioInnermost DEF GioInv, GioData
<1>. QED
  BY <1>1, <1>2, <1>3

\* Steps of the Gio
LEMMA GioStep ==
    ASSUME Table, GioInv, G!Next
    PROVE  /\ Table' /\ Aside(Mine) /\ GioInv'
           /\ LeftBehind' \subseteq LeftBehind
<1>. DEFINE Keeps == Table' /\ Aside(Mine) /\ LeftBehind' \subseteq LeftBehind
            Waits1 == /\ G!Watched'
                      /\ at' \in G!Waiting =>
                            /\ context' \in Mine /\ G!Innermost(context)'
                            /\ num'[context'] \in Numbers
<1>1. at' \notin G!Waiting /\ Unregistered' => Waits1
  BY GioUnwatched
<1>2. at \notin G!Waiting => Unregistered
  BY GioUnwatched DEF GioInv
<1>3. UNCHANGED <<num, fds>> => Keeps
  BY DEF Table, DescriptorsTypeOK, Aside, LeftBehind
<1>4. UNCHANGED fds /\ Unregistered => Unregistered'
  BY DEF Unregistered
<1>5. \A c \in Mine : Aside({c}) => Aside(Mine)
  BY DEF Aside
<1>6. Mine \subseteq Client
  BY GioConstants
\* A socket is closed.
<1>7. ASSUME NEW c \in Mine, num[c] # None, Unregistered,
             num' = [num EXCEPT ![c] = None], UNCHANGED fds
      PROVE  Keeps
  <2>1. num[c] \in Numbers /\ fds[num[c]] # Held
    BY <1>6, <1>7, TableTypes DEF Table
  <2>2. \A d \in Client, k \in Kinds : fds[num[c]] # <<d, k>>
    <3>1. \A d \in Client : d # c => num[d] # num[c]
      BY <1>6, <1>7 DEF Table
    <3>. QED
      BY <1>6, <1>7, <2>1, <3>1 DEF Table, Unregistered
  <2>3. fds[num[c]] \in {Closed, Held, None}
    BY <2>1, <2>2, TableTypes DEF Registrations
  <2>4. fds' = [fds EXCEPT ![num[c]] = fds[num[c]]]
    BY <1>7, <2>1, TableTypes
  <2>5. Table' /\ Aside({c})
    BY <1>6, <1>7, <2>1, <2>3, <2>4, LeavesTable
  <2>. QED
    BY <1>5, <1>7, <2>5 DEF LeftBehind
\* What the driver waited for has happened.
<1>8. ASSUME at \in G!Waiting, G!Unregisters(context)
      PROVE  Keeps /\ Unregistered'
  <2>1. /\ context \in Mine /\ num[context] \in Numbers
        /\ \A c \in Mine, n \in Numbers, k \in Kinds :
              fds[n] = <<c, k>> => c = context /\ n = num[context]
    BY <1>8, GioWaiting
  <2>2. UNCHANGED num /\ fds' = [fds EXCEPT ![num[context]] = None]
    BY <1>8 DEF G!Unregisters
  <2>3. Keeps
    BY <1>5, <1>6, <2>1, <2>2, RegistersTable
  <2>4. \A n \in Numbers : fds'[n] = IF n = num[context] THEN None ELSE fds[n]
    BY <2>2, TableTypes
  <2>5. ASSUME NEW c \in Mine, NEW n \in Numbers, NEW k \in Kinds, fds'[n] = <<c, k>>
        PROVE  FALSE
    <3>1. n # num[context]
      BY <1>6, <2>4, <2>5, TableTypes
    <3>. QED
      BY <2>1, <2>4, <2>5, <3>1
  <2>. QED
    BY <2>3, <2>5 DEF Unregistered
<1>9. ASSUME NEW c \in Mine, G!Open(c) PROVE Keeps /\ Waits1
  <2>1. /\ at = "new" /\ at' = at /\ num[c] = None /\ Available # {}
        /\ num' = [num EXCEPT ![c] = Lowest] /\ UNCHANGED fds
    BY <1>9, GioTable DEF G!Open, G!Opened, G!state
  <2>2. PICK n \in Numbers :
            n = Lowest /\ fds[n] # Held /\ \A d \in Client : num[d] # n
    BY <2>1, LowestIs
  <2>3. PICK r \in {Closed, None} : r = fds[n]
    BY <2>2, TableTypes DEF Table, Registrations
  <2>4. num' = [num EXCEPT ![c] = n] /\ fds' = [fds EXCEPT ![n] = r]
    BY <2>1, <2>2, <2>3, TableTypes
  <2>5. r \in {Closed, Held, None} \cup {<<c, k>> : k \in Kinds} /\ r # Held
    BY <2>2, <2>3
  <2>6. n \in {n, None} /\ c \in Client
    BY <1>6
  <2>7. num[c] = None /\ fds[n] # Held /\ \A d \in Client : num[d] # n
    BY <2>1, <2>2
  <2>8. r \notin {Closed, Held, None} => n = n
    OBVIOUS
  <2>9. Table' /\ Aside({c})
    BY <2>4, <2>5, <2>6, <2>7, <2>8, EntryChanges
  <2>10. LeftBehind' = LeftBehind
    BY <2>1 DEF LeftBehind
  <2>. QED
    BY <1>1, <1>2, <1>4, <1>5, <2>1, <2>9, <2>10, GioConstants
<1>10. ASSUME G!Make PROVE Keeps /\ Waits1
  <2>1. at = "new" /\ at' = "running" /\ UNCHANGED <<num, fds>>
    BY <1>10 DEF G!Make
  <2>. QED
    BY <1>1, <1>2, <1>3, <1>4, <2>1, GioConstants
<1>11. ASSUME NEW c \in Mine, G!Close(c) PROVE Keeps /\ Waits1
  <2>1. /\ at = "running" /\ at' = at /\ num[c] # None
        /\ num' = [num EXCEPT ![c] = None] /\ UNCHANGED fds
    BY <1>11 DEF G!Close, G!Opened, G!Running, G!state
  <2>. QED
    BY <1>1, <1>2, <1>4, <1>7, <2>1, GioConstants
<1>12. ASSUME \/ \E b \in Mine \cup {"pending"} : G!Enter(b)
              \/ G!Exit \/ (G!Ends /\ UNCHANGED num) \/ G!YieldsAfterTimeout
       PROVE  Keeps /\ Waits1
  <2>1. /\ at = "running" /\ at' \in {"running", "parked", "dead"}
        /\ UNCHANGED <<num, fds>>
    BY <1>12 DEF G!Enter, G!Exit, G!Ends, G!YieldsAfterTimeout, G!Running
  <2>. QED
    BY <1>1, <1>2, <1>3, <1>4, <2>1, GioConstants
<1>20. ASSUME G!Ends, ~UNCHANGED num PROVE Keeps /\ Waits1
  <2>1. /\ at = "running" /\ at' = "dead" /\ by = "close"
        /\ num' = [num EXCEPT ![context] = None] /\ UNCHANGED fds
    BY <1>20 DEF G!Ends, G!Running
  <2>2. context \in Mine
    BY <2>1 DEF GioInv, GioData
  <2>3. num[context] # None
    BY <1>6, <1>20, <2>1, <2>2, TableTypes
  <2>4. Unregistered' /\ Unregistered /\ at' \notin G!Waiting
    BY <1>2, <1>4, <2>1, GioConstants
  <2>. QED
    BY <1>1, <1>7, <2>1, <2>2, <2>3, <2>4
<1>13. ASSUME NEW kind \in G!Waiting, G!Yields(kind) PROVE Keeps /\ Waits1
  <2>1. PICK c \in Mine :
            /\ G!Innermost(c) /\ num[c] # None /\ context' = c
            /\ IF fds[num[c]] = None
               THEN /\ fds' = [fds EXCEPT ![num[c]] = <<c, G!Intent(kind)>>]
                    /\ at' = kind /\ by' = "send"
               ELSE at' = "dead" /\ UNCHANGED <<by, fds>>
    BY <1>13 DEF G!Yields, G!Opened
  <2>2. UNCHANGED <<num, blocks>> /\ at = "running"
    BY <1>13 DEF G!Yields, G!Running
  <2>3. num[c] \in Numbers
    BY <1>6, <2>1, TableTypes
  <2>4. CASE fds[num[c]] = None
    <3>1. /\ fds' = [fds EXCEPT ![num[c]] = <<c, G!Intent(kind)>>] /\ at' = kind
          /\ G!Intent(kind) \in Kinds
      BY <2>1, <2>4 DEF G!Intent, Kinds
    <3>2. <<c, G!Intent(kind)>> \in {None} \cup {<<c, k>> : k \in Kinds}
      BY <3>1
    <3>3. Table' /\ Aside({c}) /\ LeftBehind' \subseteq LeftBehind
      BY <1>6, <2>2, <2>3, <3>1, <3>2, RegistersTable
    <3>4. G!Innermost(c)' /\ \A d \in Mine : G!Innermost(d)' => d = c
      <4>1. \A d \in Mine : G!Innermost(d)' <=> G!Innermost(d)
        BY <2>2 DEF G!Innermost
      <4>2. \A d \in Mine : G!Innermost(d) => d = c
        BY <2>1, GioInnermost DEF GioInv, GioData
      <4>. QED
        BY <2>1, <4>1, <4>2
    <3>5. \A n \in Numbers : fds'[n] = IF n = num[c] THEN <<c, G!Intent(kind)>> ELSE fds[n]
      BY <3>1, TableTypes
    <3>6. Unregistered
      BY <1>2, <2>2, GioConstants
    <3>7. \A d \in Mine, n \in Numbers, k \in Kinds :
             fds'[n] = <<d, k>> <=> k = G!Intent(kind) /\ d = c /\ n = num[c]
      <4>. TAKE d \in Mine, n \in Numbers, k \in Kinds
      <4>1. CASE n = num[c]
        BY <3>5, <4>1
      <4>2. CASE n # num[c]
        BY <3>5, <3>6, <4>2 DEF Unregistered
      <4>. QED
        BY <4>1, <4>2
    <3>8. G!Watched'
      BY <1>13, <2>2, <3>1, <3>4, <3>7, GioTable DEF G!Watched
    <3>. QED
      BY <1>5, <2>1, <2>2, <2>3, <3>3, <3>4, <3>8
  <2>5. CASE fds[num[c]] # None
    BY <1>1, <1>2, <1>3, <1>4, <2>1, <2>2, <2>5, GioConstants
  <2>. QED
    BY <2>4, <2>5
<1>14. ASSUME G!YieldsAfterClose PROVE Keeps /\ Waits1
  <2>1. /\ at = "running" /\ at' \in {"running", "dead"} /\ UNCHANGED fds
        /\ \/ num[context] # None /\ num' = [num EXCEPT ![context] = None]
           \/ UNCHANGED num
    BY <1>14 DEF G!YieldsAfterClose, G!Running, G!Opened
  <2>2. context \in Mine
    BY <1>14 DEF G!YieldsAfterClose, GioInv, GioData
  <2>3. Unregistered' /\ Unregistered /\ at' \notin G!Waiting
    BY <1>2, <1>4, <2>1, GioConstants
  <2>. QED
    BY <1>1, <1>3, <1>7, <2>1, <2>2, <2>3
<1>15. ASSUME G!Written \/ G!Read \/ G!ReadEnd \/ G!Fails PROVE Keeps /\ Waits1
  <2>1. at \in G!Waiting /\ G!Unregisters(context) /\ at' \in {"running", "dead"}
    BY <1>15 DEF G!Written, G!Read, G!ReadEnd, G!Fails, G!Waiting
  <2>. QED
    BY <1>1, <1>8, <2>1, GioConstants
<1>16. ASSUME G!TimerFires PROVE Keeps /\ Waits1
  <2>1. \/ at \in G!Waiting /\ G!Unregisters(context) /\ at' = "running"
        \/ at \in G!Over /\ at' = at /\ UNCHANGED <<num, fds>>
    BY <1>16 DEF G!TimerFires, G!TimesOut
  <2>. QED
    BY <1>1, <1>2, <1>3, <1>4, <1>8, <2>1, GioConstants
<1>17. ASSUME G!Collect PROVE Keeps /\ Waits1
  <2>1. /\ at \in G!Over /\ at' = at /\ UNCHANGED fds
        /\ num' = [c \in Client |-> IF c \in Mine THEN None ELSE num[c]]
    BY <1>17 DEF G!Collect, G!history
  <2>2. Unregistered /\ Unregistered' /\ at' \notin G!Waiting
    BY <1>2, <1>4, <2>1, GioConstants
  <2>3. \A c \in Client : num'[c] = IF c \in Mine THEN None ELSE num[c]
    BY <2>1
  <2>4. Aside(Mine) /\ LeftBehind' = LeftBehind
    BY <2>1, <2>3 DEF Aside, LeftBehind
  <2>5. DescriptorsTypeOK'
    BY <2>1 DEF Table, DescriptorsTypeOK
  <2>6. \A c, d \in Client : c # d /\ num'[c] = num'[d] => num'[c] = None
    BY <2>3 DEF Table
  <2>7. \A n \in Numbers, c \in Client, k \in Kinds : fds'[n] = <<c, k>> => num'[c] = n
    BY <2>1, <2>2, <2>3 DEF Table, Unregistered
  <2>8. \A n \in Numbers, c \in Client : fds'[n] = Held => num'[c] # n
    BY <2>1, <2>3, TableTypes DEF Table
  <2>9. Table'
    BY <2>5, <2>6, <2>7, <2>8 DEF Table
  <2>. QED
    BY <1>1, <2>2, <2>4, <2>9
<1>. HIDE DEF Keeps, Waits1
<1>18. Keeps /\ Waits1
  BY <1>9, <1>10, <1>11, <1>12, <1>13, <1>14, <1>15, <1>16, <1>17, <1>20
     DEF G!Next, G!Generator
<1>19. GioData'
  BY GioDataStep DEF GioInv
<1>. QED
  BY <1>18, <1>19 DEF GioInv, Keeps, Waits1

\* Steps of the others
LEMMA GioIsLeft ==
    ASSUME GioInv, UNCHANGED gio, NEW C, C \cap Mine = {}, Aside(C)
    PROVE  GioInv'
<1>1. UNCHANGED <<at, by, blocks, context, arriving, message, got, units, made, fired>>
  BY DEF gio
<1>2. \A c \in Mine : num'[c] = num[c]
  BY GioConstants DEF Aside
<1>3. \A c \in Mine, n \in Numbers, k \in Kinds : fds'[n] = <<c, k>> <=> fds[n] = <<c, k>>
  BY GioConstants DEF Aside
<1>4. \A c : G!Innermost(c)' <=> G!Innermost(c)
  BY <1>1 DEF G!Innermost
<1>5. GioData'
  BY <1>1 DEF GioInv, GioData
<1>6. G!Watched'
  BY <1>1, <1>2, <1>3, <1>4, GioTable DEF GioInv, G!Watched
<1>. QED
  BY <1>1, <1>2, <1>4, <1>5, <1>6 DEF GioInv

----------------------------------------------------------------------------
(* The clients together.                                                      *)

ClientsInv == Table /\ RequesterInv /\ ReaderInv /\ GioInv /\ LeftBehindInv

LEMMA ClientsStart ==
    ASSUME ClientsInit
    PROVE  ClientsInv
<1>. USE DEF ClientsInit
<1>1. /\ num = [c \in Client |-> None] /\ fds \in [Numbers -> {Closed, None}]
      /\ Requester \in program => \A n \in Numbers : fds[n] = None
  BY DEF DescriptorsInit, DescriptorsUsed
<1>2. /\ Requester \in Client /\ Reader \in Client /\ Mine \subseteq Client
      /\ None \notin Numbers /\ None \notin {Closed, Held} /\ Closed # Held
      /\ \A c \in Client, k \in Kinds : <<c, k>> \notin {Closed, Held, None}
  BY ClientsAssumption, DescriptorsAssumption
     DEF Q!HttpRequest10Assumption, H!HttpReaderAssumption, G!GioAssumption,
         Closed, Held, Kinds
<1>3. DescriptorsTypeOK
  BY <1>1 DEF DescriptorsTypeOK, Registrations
<1>4. /\ \A c \in Client : num[c] = None
      /\ \A n \in Numbers, c \in Client, k \in Kinds : fds[n] # <<c, k>>
      /\ \A n \in Numbers : fds[n] # Held
  BY <1>1, <1>2
<1>5. Table
  BY <1>2, <1>3, <1>4 DEF Table
<1>6. RequesterInv
  <2>1. /\ option = None /\ pc = "idle" /\ unread = <<>> /\ status = None /\ size = 0
        /\ count = 0 /\ sent = FALSE /\ result = "none" /\ requestTimer = FALSE
        /\ requests = 0 /\ timeouts = 0
    BY DEF Q!Init
  <2>2. pc \notin Q!Waiting
    BY <2>1 DEF Q!Waiting
  <2>3. MaxHandshakes \in Nat /\ MaxRequests \in Nat
    BY ClientsAssumption DEF Q!HttpRequest10Assumption
  <2>4. {sent, requestTimer} \subseteq BOOLEAN
    BY <2>1, Zenon
  <2>5. count \in 0..MaxHandshakes /\ requests \in 0..MaxRequests /\ timeouts \in 0..requests
    BY <2>1, <2>3
  <2>6. unread \in Seq(Q!Tokens)
    BY <2>1
  <2>7. Q!TypeOK
    BY <1>3, <2>1, <2>4, <2>5, <2>6, RequesterTable DEF Q!TypeOK
  <2>8. Q!Watched
    BY <2>2 DEF Q!Watched
  <2>9. num[Requester] = None /\ ~requestTimer
    BY <1>2, <1>4, <2>1
  <2>. QED
    BY <2>7, <2>8, <2>9 DEF RequesterInv
<1>7. ReaderInv
  <2>1. /\ response \in Responses /\ state = "new" /\ coming = response.tokens
        /\ buffer = <<>> /\ readTimer = FALSE /\ told = <<>> /\ failed = FALSE
    BY DEF H!Init
  <2>2. coming \in Seq(H!Tokens) /\ Behind(coming)
    BY <2>1, ClientsAssumption DEF H!HttpReaderAssumption, Behind, Comes
  <2>3. {readTimer, failed} \subseteq BOOLEAN
    BY <2>1, Zenon
  <2>4. ReaderData
    BY <2>1, <2>2, <2>3 DEF ReaderData
  <2>5. H!Watched
    BY <2>1 DEF H!Watched, H!Reading
  <2>6. num[Reader] = None /\ NoEntry
    BY <1>2, <1>4, <1>5, NoSocketNoEntry
  <2>7. ReaderFails
    BY <2>1 DEF ReaderFails, H!Raised
  <2>. QED
    BY <2>1, <2>4, <2>5, <2>6, <2>7 DEF ReaderInv
<1>8. GioInv
  <2>1. /\ at = "new" /\ by = "send" /\ blocks = <<>> /\ arriving \in Incoming
        /\ context = None /\ message = None /\ got = <<>> /\ units = 0 /\ made = 0
        /\ fired = 0
    BY DEF G!Init
  <2>2. Incoming \subseteq [Mine -> Seq(G!Tokens)] /\ MaxBlocks \in Nat /\ MaxTimers \in Nat
    BY ClientsAssumption DEF G!GioAssumption
  <2>3. PendingIn(blocks) = {}
    BY <2>1 DEF PendingIn
  <2>4. Cardinality(PendingIn(blocks)) = 0
    BY <2>3, FS_EmptySet
  <2>5. blocks \in Seq(Mine \cup G!Timers) /\ Len(blocks) = 0
    BY <2>1
  <2>6. GioData
    BY <2>1, <2>2, <2>4, <2>5 DEF GioData
  <2>7. Unregistered /\ at \notin G!Waiting
    BY <1>2, <1>4, <2>1 DEF Unregistered, G!Waiting
  <2>. QED
    BY <2>6, <2>7, GioUnwatched DEF GioInv
<1>9. LeftBehindInv
  <2>1. Requester \in program => LeftBehind = {}
    BY <1>1, <1>2 DEF LeftBehind
  <2>2. timeouts = 0
    BY DEF Q!Init
  <2>. QED
    BY <2>1, <2>2, FS_EmptySet DEF LeftBehindInv
<1>. QED
  BY <1>5, <1>6, <1>7, <1>8, <1>9 DEF ClientsInv

\* No more is left behind than is counted.
LEMMA LeftBehindStep ==
    ASSUME LeftBehindInv, timeouts \in Nat, UNCHANGED program, Counted
    PROVE  LeftBehindInv'
<1>. SUFFICES ASSUME Requester \in program
              PROVE  IsFiniteSet(LeftBehind') /\ Cardinality(LeftBehind') <= timeouts'
  BY DEF LeftBehindInv
<1>1. /\ IsFiniteSet(LeftBehind) /\ Cardinality(LeftBehind) <= timeouts
      /\ Cardinality(LeftBehind) \in Nat
  BY FS_CardinalityType DEF LeftBehindInv
<1>2. CASE LeftBehind' \subseteq LeftBehind /\ timeouts' = timeouts
  <2>1. IsFiniteSet(LeftBehind') /\ Cardinality(LeftBehind') <= Cardinality(LeftBehind)
    BY <1>1, <1>2, FS_Subset
  <2>2. Cardinality(LeftBehind') \in Nat
    BY <2>1, FS_CardinalityType
  <2>. QED
    BY <1>1, <1>2, <2>1, <2>2
<1>3. ASSUME NEW n \in Numbers,
             LeftBehind' \subseteq LeftBehind \cup {n}, timeouts' = timeouts + 1
      PROVE  IsFiniteSet(LeftBehind') /\ Cardinality(LeftBehind') <= timeouts'
  <2>1. /\ IsFiniteSet(LeftBehind \cup {n})
        /\ Cardinality(LeftBehind \cup {n}) =
              IF n \in LeftBehind THEN Cardinality(LeftBehind) ELSE Cardinality(LeftBehind) + 1
    BY <1>1, FS_AddElement
  <2>2. /\ IsFiniteSet(LeftBehind')
        /\ Cardinality(LeftBehind') <= Cardinality(LeftBehind \cup {n})
    BY <1>3, <2>1, FS_Subset
  <2>3. Cardinality(LeftBehind') \in Nat
    BY <2>2, FS_CardinalityType
  <2>. QED
    BY <1>1, <1>3, <2>1, <2>2, <2>3
<1>. QED
  BY <1>2, <1>3 DEF Counted

LEMMA ClientsStep ==
    ASSUME ClientsInv, [ClientsNext]_clientsVars
    PROVE  ClientsInv'
<1>. USE DEF ClientsInv
<1>1. /\ Requester # Reader /\ {Requester, Reader} \cap Mine = {}
      /\ timeouts \in Nat
  BY ClientsAssumption DEF RequesterInv, Q!TypeOK
<1>2. CASE RequesterSteps /\ UNCHANGED program
  <2>1. Q!Next /\ UNCHANGED <<reader, gio>>
    BY <1>2 DEF RequesterSteps
  <2>2. Table' /\ Aside({Requester}) /\ RequesterInv' /\ Counted
    BY <2>1, RequesterStep
  <2>3. ReaderInv'
    BY <1>1, <2>1, <2>2, ReaderIsLeft
  <2>4. GioInv'
    BY <1>1, <2>1, <2>2, GioIsLeft
  <2>. QED
    BY <1>1, <1>2, <2>2, <2>3, <2>4, LeftBehindStep
<1>3. CASE ReaderSteps /\ UNCHANGED program
  <2>1. H!Next /\ UNCHANGED <<requester, gio>>
    BY <1>3 DEF ReaderSteps
  <2>2. Table' /\ Aside({Reader}) /\ ReaderInv' /\ Counted
    BY <2>1, ReaderStep DEF Counted, requester
  <2>3. RequesterInv'
    BY <1>1, <2>1, <2>2, RequesterIsLeft
  <2>4. GioInv'
    BY <1>1, <2>1, <2>2, GioIsLeft
  <2>. QED
    BY <1>1, <1>3, <2>2, <2>3, <2>4, LeftBehindStep
<1>4. CASE GioSteps /\ UNCHANGED program
  <2>1. G!Next /\ UNCHANGED <<requester, reader>>
    BY <1>4 DEF GioSteps
  <2>2. Table' /\ Aside(Mine) /\ GioInv' /\ Counted
    BY <2>1, GioStep DEF Counted, requester
  <2>3. RequesterInv'
    BY <1>1, <2>1, <2>2, RequesterIsLeft
  <2>4. ReaderInv'
    BY <1>1, <2>1, <2>2, ReaderIsLeft
  <2>. QED
    BY <1>1, <1>4, <2>2, <2>3, <2>4, LeftBehindStep
<1>5. CASE UNCHANGED clientsVars
  <2>1. UNCHANGED <<program, requester, reader, gio, num, fds>>
    BY <1>5 DEF clientsVars
  <2>2. Table' /\ Aside({}) /\ Counted
    BY <2>1 DEF Table, DescriptorsTypeOK, Aside, Counted, requester, LeftBehind
  <2>3. RequesterInv' /\ ReaderInv' /\ GioInv'
    BY <2>1, <2>2, RequesterIsLeft, ReaderIsLeft, GioIsLeft
  <2>. QED
    BY <1>1, <2>1, <2>2, <2>3, LeftBehindStep
<1>. QED
  BY <1>2, <1>3, <1>4, <1>5 DEF ClientsNext

LEMMA ClientsAlways == ClientsSpec => []ClientsInv
<1>1. ClientsInit => ClientsInv
  BY ClientsStart
<1>2. ClientsInv /\ [ClientsNext]_clientsVars => ClientsInv'
  BY ClientsStep
<1>. QED
  BY <1>1, <1>2, PTL DEF ClientsSpec

\* A client that waits for its socket has its registration whatever the others
\* open and close, fail in or leave behind, and a reader its timer.
THEOREM ClientsAreWatched == ClientsSpec => []Watched
<1>1. ClientsInv => Watched
  <2>. SUFFICES ASSUME ClientsInv PROVE Watched
    OBVIOUS
  <2>. USE DEF ClientsInv
  <2>1. H!TypeOK
    <3>1. H!BodyOf(response) \subseteq H!Body
      BY DEF H!BodyOf, H!Body
    <3>2. buffer \in Seq(H!Body)
      BY <3>1, SeqMonotonic DEF ReaderInv, ReaderData
    <3>. QED
      BY <3>2, ReaderTable DEF ReaderInv, ReaderData, H!TypeOK, Table
  <2>2. G!TypeOK
    BY GioTable DEF GioInv, GioData, G!TypeOK, Table
  <2>. QED
    BY <2>1, <2>2 DEF Watched, RequesterInv, ReaderInv, GioInv
<1>. QED
  BY <1>1, ClientsAlways, PTL

\* A client that is over has no socket, and one that has ended in any way no
\* registration; a reader's socket is left to the reader's owner by nothing but a
\* timeout after a reset or a callback that raised.  The requests together leave
\* no more in the table than one entry for each timeout.
THEOREM ClientsCleanUp == ClientsSpec => []CleanedUp
<1>1. ClientsInv => CleanedUp
  <2>. SUFFICES ASSUME ClientsInv PROVE CleanedUp
    OBVIOUS
  <2>. USE DEF ClientsInv
  <2>1. \A c \in Client, n \in Numbers, k \in Kinds : num[c] = None => fds[n] # <<c, k>>
    BY TableTypes DEF Table
  <2>2. Requester \in Client /\ Reader \in Client
    BY ClientsAssumption DEF Q!HttpRequest10Assumption, H!HttpReaderAssumption
  <2>3. Q!LeftBehind = LeftBehind /\ Q!Kinds = Kinds /\ H!Kinds = Kinds
    BY RequesterTable, ReaderTable DEF Q!LeftBehind, LeftBehind
  <2>4. Requester \in program => Q!CleanedUp
    <3>1. pc \notin Q!Waiting => num[Requester] = None
      BY DEF RequesterInv
    <3>2. Requester \in program => Cardinality(LeftBehind) <= timeouts
      BY DEF LeftBehindInv
    <3>3. Q!Cardinality(LeftBehind) = Cardinality(LeftBehind)
      BY DEF Q!Cardinality, Cardinality
    <3>. QED
      BY <2>1, <2>2, <2>3, <3>1, <3>2, <3>3 DEF Q!CleanedUp
  <2>5. H!CleanedUp
    <3>1. HasReset(response.tokens) => "reset" \in H!ToSet(response.tokens)
      BY DEF H!ToSet, HasReset
    <3>. QED
      BY <2>3, <3>1 DEF H!CleanedUp, ReaderInv, ReaderFails, NoEntry
  <2>. QED
    BY <2>4, <2>5 DEF CleanedUp
<1>. QED
  BY <1>1, ClientsAlways, PTL

\* The entries of these kinds are finitely many.
LEMMA CountIs ==
    ASSUME NEW S, NEW s \in Seq(S), NEW K
    PROVE  /\ IsFiniteSet({i \in DOMAIN s : s[i] \in K})
           /\ Count(s, K) \in Nat
           /\ (\A i \in DOMAIN s : s[i] \notin K) => Count(s, K) = 0
<1>. DEFINE P == {i \in DOMAIN s : s[i] \in K}
<1>1. Len(s) \in Nat /\ DOMAIN s = 1..Len(s)
  BY LenProperties
<1>2. IsFiniteSet(1..Len(s)) /\ P \subseteq 1..Len(s)
  BY <1>1, FS_Interval
<1>3. IsFiniteSet(P)
  BY <1>2, FS_Subset
<1>4. Cardinality(P) \in Nat
  BY <1>3, FS_CardinalityType
<1>5. (\A i \in DOMAIN s : s[i] \notin K) => P = {}
  OBVIOUS
<1>6. P = {} => Cardinality(P) = 0
  BY FS_EmptySet
<1>. QED
  BY <1>3, <1>4, <1>5, <1>6 DEF Count

\* Those of two streams one after the other are those of both.
LEMMA CountConcat ==
    ASSUME NEW S, NEW s \in Seq(S), NEW t \in Seq(S), NEW K
    PROVE  Count(s \o t, K) = Count(s, K) + Count(t, K)
<1>. DEFINE P == {i \in DOMAIN s : s[i] \in K}
            Q1 == {i \in DOMAIN t : t[i] \in K}
            R == {i + Len(s) : i \in Q1}
            U == {i \in DOMAIN (s \o t) : (s \o t)[i] \in K}
<1>1. /\ Len(s) \in Nat /\ DOMAIN s = 1..Len(s) /\ Len(t) \in Nat /\ DOMAIN t = 1..Len(t)
      /\ DOMAIN (s \o t) = 1..Len(s) + Len(t)
      /\ \A i \in 1..Len(s) + Len(t) :
            (s \o t)[i] = IF i <= Len(s) THEN s[i] ELSE t[i - Len(s)]
  BY LenProperties, ConcatProperties
<1>2. U \subseteq P \cup R
  <2>. SUFFICES ASSUME NEW i \in U PROVE i \in P \cup R
    OBVIOUS
  <2>1. i \in 1..Len(s) + Len(t) /\ (s \o t)[i] \in K
    BY <1>1
  <2>2. CASE i <= Len(s)
    BY <1>1, <2>1, <2>2
  <2>3. CASE ~(i <= Len(s))
    <3>1. i - Len(s) \in Q1 /\ i = (i - Len(s)) + Len(s)
      BY <1>1, <2>1, <2>3
    <3>. QED
      BY <3>1
  <2>. QED
    BY <2>2, <2>3
<1>3. P \subseteq U
  BY <1>1
<1>4. R \subseteq U
  <2>. SUFFICES ASSUME NEW i \in Q1 PROVE i + Len(s) \in U
    OBVIOUS
  <2>1. i \in 1..Len(t) /\ t[i] \in K
    BY <1>1
  <2>2. /\ i + Len(s) \in 1..Len(s) + Len(t) /\ ~(i + Len(s) <= Len(s))
        /\ (i + Len(s)) - Len(s) = i
    BY <1>1, <2>1
  <2>3. (s \o t)[i + Len(s)] = t[i]
    BY <1>1, <2>2
  <2>. QED
    BY <1>1, <2>1, <2>2, <2>3
<1>5. P \cap R = {}
  BY <1>1
<1>6. U = P \cup R
  BY <1>2, <1>3, <1>4
<1>7. IsFiniteSet(P) /\ IsFiniteSet(Q1)
  BY CountIs
<1>8. Q1 \in SUBSET Int
  BY <1>1
<1>. HIDE DEF P, Q1, U
<1>9. IsFiniteSet(R) /\ Cardinality(R) = Cardinality(Q1)
  <2>1. Len(s) \in Int
    BY <1>1
  <2>. QED
    BY <1>7, <1>8, <2>1, ShiftedAreAsMany
<1>10. Cardinality(P \cap R) = 0 /\ Cardinality(P) \in Nat /\ Cardinality(R) \in Nat
  BY <1>5, <1>7, <1>9, FS_EmptySet, FS_CardinalityType
<1>11. Cardinality(P \cup R) = Cardinality(P) + Cardinality(R) - Cardinality(P \cap R)
  BY <1>7, <1>9, FS_Union
<1>12. Cardinality(U) = Cardinality(P) + Cardinality(Q1)
  BY <1>6, <1>9, <1>10, <1>11
<1>. QED
  BY <1>12 DEF Count, P, Q1, U

\* One entry.
LEMMA CountOne ==
    ASSUME NEW x, NEW K
    PROVE  Count(<<x>>, K) = IF x \in K THEN 1 ELSE 0
<1>1. x \in K => {i \in DOMAIN <<x>> : <<x>>[i] \in K} = {1}
  OBVIOUS
<1>2. x \notin K => {i \in DOMAIN <<x>> : <<x>>[i] \in K} = {}
  OBVIOUS
<1>3. Cardinality({1}) = 1 /\ Cardinality({}) = 0
  BY FS_EmptySet, FS_Singleton
<1>. QED
  BY <1>1, <1>2, <1>3 DEF Count

\* A stream of one entry.
LEMMA OneLeft ==
    ASSUME NEW S, NEW s \in Seq(S), Len(s) = 1
    PROVE  s = <<s[1]>> /\ s[1] \in S
<1>1. s[1] \in S
  BY ElementOfSeq
<1>2. <<s[1]>> \in Seq(S)
  BY <1>1
<1>3. Len(<<s[1]>>) = 1 /\ <<s[1]>>[1] = s[1]
  OBVIOUS
<1>4. \A i \in 1..Len(s) : s[i] = <<s[1]>>[i]
  BY <1>3
<1>. QED
  BY <1>1, <1>2, <1>3, <1>4, SeqEqual

\* One more entry counts when it is of the kinds.
LEMMA CountAppend ==
    ASSUME NEW S, NEW s \in Seq(S), NEW x \in S, NEW K
    PROVE  Count(Append(s, x), K) = Count(s, K) + (IF x \in K THEN 1 ELSE 0)
<1>1. Append(s, x) = s \o <<x>> /\ <<x>> \in Seq(S)
  BY AppendIsConcat
<1>2. Count(s \o <<x>>, K) = Count(s, K) + Count(<<x>>, K)
  BY <1>1, CountConcat
<1>. QED
  BY <1>1, <1>2, CountOne

\* A stream is any first part of it and the rest.
LEMMA Divided ==
    ASSUME NEW S, NEW s \in Seq(S), NEW k \in 0..Len(s)
    PROVE  /\ SubSeq(s, 1, k) \in Seq(S) /\ SubSeq(s, k + 1, Len(s)) \in Seq(S)
           /\ SubSeq(s, 1, k) \o SubSeq(s, k + 1, Len(s)) = s
           /\ Len(SubSeq(s, 1, k)) = k /\ Len(SubSeq(s, k + 1, Len(s))) = Len(s) - k
<1>1. Len(s) \in Nat /\ \A i \in 1..Len(s) : s[i] \in S
  BY LenProperties, ElementOfSeq
<1>2. SubSeq(s, 1, k) \o SubSeq(s, k + 1, Len(s)) = SubSeq(s, 1, Len(s))
  <2>1. 1 \in 1..Len(s) + 1 /\ k \in 1 - 1..Len(s) /\ Len(s) \in k..Len(s)
    BY <1>1
  <2>. QED
    BY <2>1, ConcatAdjacentSubSeq
<1>3. SubSeq(s, 1, k) \in Seq(S) /\ Len(SubSeq(s, 1, k)) = k
  BY <1>1, SubSeqProperties
<1>4. k + 1 \in 1..Len(s) + 1 /\ Len(s) \in (k + 1) - 1..Len(s)
  BY <1>1
<1>5. \A i \in k + 1..Len(s) : s[i] \in S
  BY <1>1
<1>6. /\ SubSeq(s, k + 1, Len(s)) \in Seq(S)
      /\ Len(SubSeq(s, k + 1, Len(s))) = Len(s) - k
  BY <1>1, <1>4, <1>5, SubSeqProperties
<1>. QED
  BY <1>2, <1>3, <1>6, SubSeqFull

\* A stream that is divided has as many in its two parts.
LEMMA CountDivided ==
    ASSUME NEW S, NEW s \in Seq(S), NEW k \in 0..Len(s), NEW K
    PROVE  Count(s, K) = Count(SubSeq(s, 1, k), K) + Count(SubSeq(s, k + 1, Len(s)), K)
<1>. DEFINE f == SubSeq(s, 1, k)
            r == SubSeq(s, k + 1, Len(s))
<1>1. f \in Seq(S) /\ r \in Seq(S) /\ f \o r = s
  BY Divided
<1>. HIDE DEF f, r
<1>2. Count(f \o r, K) = Count(f, K) + Count(r, K)
  BY <1>1, CountConcat
<1>. QED
  BY <1>1, <1>2 DEF f, r

\* The first entry is read.
LEMMA CountTail ==
    ASSUME NEW S, NEW s \in Seq(S), s # <<>>, NEW K
    PROVE  /\ Count(s, K) = Count(Tail(s), K) + (IF Head(s) \in K THEN 1 ELSE 0)
           /\ ClosedLast(s) => ClosedLast(Tail(s))
<1>1. /\ Len(s) \in Nat \ {0} /\ Head(s) = s[1] /\ s[1] \in S
      /\ DOMAIN s = 1..Len(s)
  BY LenProperties, EmptySeq, ElementOfSeq
<1>2. /\ Tail(s) \in Seq(S) /\ Len(Tail(s)) = Len(s) - 1
      /\ \A i \in 1..Len(Tail(s)) : Tail(s)[i] = s[i + 1]
      /\ Tail(s) = SubSeq(s, 2, Len(s))
  BY HeadTailProperties, TailIsSubSeq
<1>3. DOMAIN Tail(s) = 1..Len(Tail(s))
  BY <1>2, LenProperties
<1>5. Count(s, K) = Count(Tail(s), K) + (IF Head(s) \in K THEN 1 ELSE 0)
  <2>1. 1 \in 1..Len(s) /\ Len(s) \in 1..Len(s) /\ 1 + 1 = 2
    BY <1>1
  <2>2. SubSeq(s, 1, Len(s)) = <<s[1]>> \o SubSeq(s, 1 + 1, Len(s))
    BY <2>1, SubSeqRecursiveFirst, Zenon
  <2>3. s = <<s[1]>> \o Tail(s)
    BY <1>2, <2>1, <2>2, SubSeqFull
  <2>4. <<s[1]>> \in Seq(S)
    BY <1>1
  <2>9. \A u, v \in Seq(S) : Count(u \o v, K) = Count(u, K) + Count(v, K)
    BY CountConcat
  <2>5. Count(<<s[1]>> \o Tail(s), K) = Count(<<s[1]>>, K) + Count(Tail(s), K)
    <3>1. Tail(s) \in Seq(S)
      BY <1>2
    <3>. QED
      BY <2>4, <2>9, <3>1
  <2>6. Count(<<s[1]>>, K) = IF Head(s) \in K THEN 1 ELSE 0
    BY <1>1, CountOne
  <2>7. Count(Tail(s), K) \in Nat
    BY <1>2, CountIs
  <2>8. Count(s, K) = Count(<<s[1]>>, K) + Count(Tail(s), K)
    BY <2>3, <2>5
  <2>. QED
    BY <2>6, <2>7, <2>8
<1>4. ASSUME ClosedLast(s), NEW i \in DOMAIN Tail(s), Tail(s)[i] \in {"end", "reset"}
      PROVE  i = Len(Tail(s))
  <2>1. i + 1 \in DOMAIN s /\ s[i + 1] \in {"end", "reset"}
    BY <1>1, <1>2, <1>3, <1>4
  <2>2. i + 1 = Len(s)
    BY <1>4, <2>1 DEF ClosedLast
  <2>. QED
    BY <1>1, <1>2, <1>3, <1>4, <2>2
<1>. QED
  BY <1>4, <1>5 DEF ClosedLast

\* What was read and what is not read yet are the answer, which has one end at
\* most; a request that goes on is within its limit and behind its proxy.
Answered ==
    /\ ClosedLast(unread)
    /\ size + Count(unread, {"data"}) = Count(option.answer, {"data"})
\* What was read is within the limit of the request.
Within == option.maxSize # None => size <= option.maxSize
\* Past the proxy, a request has had its OK.
ThroughProxy == option.proxy /\ pc \notin {"connect", "proxy"} => status = "ok"
\* The account of a request: of what it read, and of what it reports.
RequestOutcome ==
    /\ pc # "idle" => option \in Options /\ Answered
    /\ pc \in Q!Waiting => result = "none" /\ Within /\ ThroughProxy
    /\ Q!Whole

\* Reading a token, or none, keeps the account.
LEMMA AnsweredStep ==
    ASSUME Q!TypeOK, Answered, UNCHANGED option,
           \/ UNCHANGED <<unread, size>>
           \/ /\ unread # <<>> /\ unread' = Tail(unread)
              /\ size' = size + (IF Head(unread) \in {"data"} THEN 1 ELSE 0)
    PROVE  Answered'
<1>1. CASE UNCHANGED <<unread, size>>
  BY <1>1 DEF Answered
<1>2. CASE /\ unread # <<>> /\ unread' = Tail(unread)
           /\ size' = size + (IF Head(unread) \in {"data"} THEN 1 ELSE 0)
  <2>1. unread \in Seq(Q!Tokens) /\ size \in Nat
    BY DEF Q!TypeOK
  <2>2. Tail(unread) \in Seq(Q!Tokens)
    BY <1>2, <2>1, HeadTailProperties
  <2>3. /\ Count(unread, {"data"}) =
              Count(Tail(unread), {"data"}) + (IF Head(unread) \in {"data"} THEN 1 ELSE 0)
        /\ ClosedLast(unread) => ClosedLast(Tail(unread))
    BY <1>2, <2>1, CountTail
  <2>4. Count(Tail(unread), {"data"}) \in Nat
    BY <2>2, CountIs
  <2>5. size' + Count(Tail(unread), {"data"}) = size + Count(unread, {"data"})
    BY <1>2, <2>1, <2>3, <2>4
  <2>. QED
    BY <1>2, <2>3, <2>5 DEF Answered
<1>. QED
  BY <1>1, <1>2

\* The request goes on, or is over without a response.
LEMMA RequestGoesOn ==
    ASSUME RequestOutcome, pc \in Q!Waiting, pc' \in Q!Waiting, Answered',
           UNCHANGED <<option, result>>, Within', ThroughProxy'
    PROVE  RequestOutcome'
<1>1. pc # "idle" /\ result' = "none"
  BY DEF RequestOutcome, Q!Waiting
<1>2. Q!Whole'
  BY <1>1 DEF Q!Whole
<1>. QED
  BY <1>1, <1>2 DEF RequestOutcome

\* A request that ends without a response has nothing to account for.
LEMMA RequestIsOver ==
    ASSUME RequestOutcome, pc # "idle", UNCHANGED option, Answered',
           pc' = "over", result' # "response"
    PROVE  RequestOutcome'
<1>1. Q!Whole'
  BY DEF Q!Whole
<1>. QED
  BY <1>1 DEF RequestOutcome, Q!Waiting

\* Each step of a request keeps its account.
LEMMA RequestOutcomeStep ==
    ASSUME Q!TypeOK, RequesterInv, RequestOutcome, Q!Next
    PROVE  RequestOutcome'
<1>. DEFINE Same == UNCHANGED <<unread, size, status, option>>
<1>0. /\ {"connect", "proxy", "shake", "ready", "send", "read"} = Q!Waiting
      /\ "idle" \notin Q!Waiting /\ "over" \notin Q!Waiting
      /\ None \notin Nat => TRUE
  BY DEF Q!Waiting
<1>1. ASSUME pc \in Q!Waiting
      PROVE  pc # "idle" /\ Answered /\ Within /\ ThroughProxy /\ option \in Options
  BY <1>0, <1>1 DEF RequestOutcome
<1>2. ASSUME pc \in Q!Waiting, Same PROVE Answered' /\ Within'
  BY <1>1, <1>2, AnsweredStep DEF Within
<1>3. \A y, k : Q!At(y, k) => pc' = y /\ UNCHANGED <<result, option>>
  BY DEF Q!At, Q!history
<1>4. \A o : Q!Ends(o) => pc' = "over" /\ result' = o /\ UNCHANGED option
  BY DEF Q!Ends, Q!Settles, Q!history
<1>5. ASSUME pc \in Q!Waiting, Same, Q!Ends("error") PROVE RequestOutcome'
  BY <1>1, <1>2, <1>4, <1>5, RequestIsOver
<1>6. ASSUME NEW y, pc \in Q!Waiting, NEW k, Q!At(y, k), y \in Q!Waiting,
             Answered', Within', UNCHANGED status,
             option.proxy => pc \notin {"connect", "proxy"} \/ y = "proxy" \/ status = "ok"
      PROVE  RequestOutcome'
  <2>1. ThroughProxy'
    BY <1>1, <1>3, <1>6 DEF ThroughProxy
  <2>. QED
    BY <1>3, <1>6, <2>1, RequestGoesOn
<1>7. ASSUME pc \in Q!Waiting, Answered, Answered', Within', UNCHANGED <<status, option>>,
             Q!Ready \/ Q!Handshake \/ Q!Prepared,
             option.proxy => pc \notin {"connect", "proxy"} \/ status = "ok"
      PROVE  RequestOutcome'
  <2>1. \/ \E y \in {"ready", "shake"}, k \in Kinds : Q!At(y, k)
        \/ Q!Ends("error")
    BY <1>7, RequesterTable DEF Q!Prepared, Q!Handshake, Q!Ready, Kinds
  <2>2. ASSUME NEW y \in {"ready", "shake"}, NEW k \in Kinds, Q!At(y, k)
        PROVE  RequestOutcome'
    BY <1>0, <1>6, <1>7, <2>2
  <2>3. CASE Q!Ends("error")
    BY <1>1, <1>4, <1>7, <2>3, RequestIsOver
  <2>. QED
    BY <2>1, <2>2, <2>3
<1>8. ASSUME Q!Begin PROVE RequestOutcome'
  <2>1. /\ option' \in Options /\ unread' = option'.answer /\ size' = 0
        /\ \/ pc' = "connect" /\ result' = "none"
           \/ pc' = "over" /\ result' = "error"
    BY <1>8 DEF Q!Begin, Q!Settles
  <2>2. /\ option'.answer \in Seq(Q!Tokens) /\ Q!ClosedLast(option'.answer)
        /\ option'.maxSize \in Nat \cup {None}
    BY <2>1, ClientsAssumption DEF Q!HttpRequest10Assumption
  <2>3. Count(option'.answer, {"data"}) \in Nat
    BY <2>2, CountIs
  <2>4. Answered'
    <3>1. ClosedLast(option'.answer)
      BY <2>2 DEF ClosedLast, Q!ClosedLast
    <3>2. 0 + Count(option'.answer, {"data"}) = Count(option'.answer, {"data"})
      BY <2>3
    <3>. QED
      BY <2>1, <3>1, <3>2 DEF Answered
  <2>5. Within' /\ (pc' \in Q!Waiting => ThroughProxy')
    BY <1>0, <2>1, <2>2 DEF Within, ThroughProxy
  <2>6. Q!Whole'
    BY <2>1 DEF Q!Whole
  <2>. QED
    BY <1>0, <2>1, <2>4, <2>5, <2>6 DEF RequestOutcome
<1>9. ASSUME Q!ConnectFails \/ Q!SendRaises \/ Q!RecvRaises PROVE RequestOutcome'
  <2>1. pc \in Q!Waiting /\ UNCHANGED <<unread, size, status>> /\ Q!Ends("error")
    BY <1>0, <1>9 DEF Q!ConnectFails, Q!SendRaises, Q!RecvRaises
  <2>. QED
    BY <1>4, <1>5, <2>1
<1>10. ASSUME Q!Connected PROVE RequestOutcome'
  <2>1. pc = "connect" /\ pc \in Q!Waiting /\ UNCHANGED <<unread, size, status>>
    BY <1>0, <1>10 DEF Q!Connected
  <2>2. CASE Q!At("proxy", "reader")
    BY <1>0, <1>2, <1>3, <1>6, <2>1, <2>2
  <2>3. CASE Q!Ends("error")
    BY <1>4, <1>5, <2>1, <2>3
  <2>4. CASE ~option.proxy /\ Q!Prepared
    <3>1. UNCHANGED option
      BY <2>4 DEF Q!Prepared, Q!Handshake, Q!Ready, Q!At, Q!Ends, Q!history
    <3>. QED
      BY <1>1, <1>2, <1>7, <2>1, <2>4, <3>1
  <2>. QED
    BY <1>10, <2>2, <2>3, <2>4 DEF Q!Connected
<1>11. ASSUME Q!ProxyReads PROVE RequestOutcome'
  <2>1. /\ pc \in Q!Waiting /\ unread # <<>> /\ Head(unread) \in {"ok", "bad"}
        /\ unread' = Tail(unread) /\ size' = size
        /\ Q!At("proxy", "reader") /\ size \in Nat
    BY <1>0, <1>11 DEF Q!ProxyReads, Q!Next1, Q!TypeOK
  <2>2. UNCHANGED <<option, result>> /\ pc' = "proxy"
    BY <1>3, <2>1
  <2>3. size' = size + (IF Head(unread) \in {"data"} THEN 1 ELSE 0)
    BY <2>1
  <2>4. Answered'
    BY <1>1, <2>1, <2>2, <2>3, AnsweredStep
  <2>5. Within' /\ ThroughProxy'
    BY <1>1, <2>1, <2>2 DEF Within, ThroughProxy
  <2>. QED
    BY <1>0, <2>1, <2>2, <2>4, <2>5, RequestGoesOn
<1>12. ASSUME Q!ProxyAnswers PROVE RequestOutcome'
  <2>1. /\ pc \in Q!Waiting /\ UNCHANGED <<status, size>> /\ size \in Nat
        /\ \/ unread # <<>> /\ Head(unread) = "blank" /\ unread' = Tail(unread)
           \/ UNCHANGED unread
        /\ IF status = "ok" THEN Q!Prepared ELSE Q!Ends("error")
    BY <1>0, <1>12 DEF Q!ProxyAnswers, Q!Next1, Q!TypeOK
  <2>2. UNCHANGED option
    BY <2>1 DEF Q!Prepared, Q!Handshake, Q!Ready, Q!At, Q!Ends, Q!history
  <2>3. unread # <<>> /\ Head(unread) = "blank" =>
            size' = size + (IF Head(unread) \in {"data"} THEN 1 ELSE 0)
    BY <2>1
  <2>4. Answered' /\ Within'
    BY <1>1, <2>1, <2>2, <2>3, AnsweredStep DEF Within
  <2>5. CASE status = "ok"
    BY <1>1, <1>7, <2>1, <2>2, <2>4, <2>5
  <2>6. CASE status # "ok"
    BY <1>1, <1>4, <2>1, <2>2, <2>4, <2>6, RequestIsOver
  <2>. QED
    BY <2>5, <2>6
<1>13. ASSUME Q!ShakeAgain PROVE RequestOutcome'
  <2>1. pc = "shake" /\ Q!Handshake /\ UNCHANGED <<unread, size, status>>
    BY <1>13 DEF Q!ShakeAgain
  <2>2. UNCHANGED option
    BY <2>1 DEF Q!Handshake, Q!Ready, Q!At, Q!Ends, Q!history
  <2>. QED
    BY <1>0, <1>1, <1>2, <1>7, <2>1, <2>2
<1>14. ASSUME Q!Send \/ Q!SendOver PROVE RequestOutcome'
  <2>1. /\ pc \in {"ready", "send"} /\ UNCHANGED <<unread, size, status>>
        /\ \E y \in {"send", "read"}, k \in {"writer", "reader"} : Q!At(y, k)
    BY <1>14 DEF Q!Send, Q!SendOver
  <2>2. PICK y \in {"send", "read"}, k \in {"writer", "reader"} : Q!At(y, k)
    BY <2>1
  <2>3. pc \in Q!Waiting /\ Same
    BY <1>0, <1>3, <2>1, <2>2
  <2>. QED
    BY <1>0, <1>2, <1>6, <2>1, <2>2, <2>3
<1>15. ASSUME Q!Recv PROVE RequestOutcome'
  <2>1. /\ pc = "read" /\ unread # <<>> /\ Head(unread) = "data"
        /\ unread' = Tail(unread) /\ size' = size + 1 /\ size \in Nat
        /\ Q!At("read", "reader") /\ UNCHANGED status /\ ~Q!TooBig
    BY <1>15 DEF Q!Recv, Q!Next1, Q!TypeOK
  <2>2. UNCHANGED <<option, result>> /\ pc' = "read" /\ pc \in Q!Waiting
    BY <1>0, <1>3, <2>1
  <2>3. size' = size + (IF Head(unread) \in {"data"} THEN 1 ELSE 0)
    BY <2>1
  <2>4. Answered'
    BY <1>1, <2>1, <2>2, <2>3, AnsweredStep
  <2>5. Within'
    <3>1. option.maxSize \in Nat \cup {None}
      BY <1>1, <2>2, ClientsAssumption DEF Q!HttpRequest10Assumption
    <3>. QED
      BY <2>1, <2>2, <3>1 DEF Within, Q!TooBig
  <2>. QED
    BY <1>6, <2>1, <2>2, <2>4, <2>5
<1>16. ASSUME Q!RecvRefused PROVE RequestOutcome'
  <2>1. /\ pc = "read" /\ unread # <<>> /\ Head(unread) = "data"
        /\ unread' = Tail(unread) /\ size' = size + 1 /\ Q!Ends("error")
    BY <1>16 DEF Q!RecvRefused, Q!Next1
  <2>2. size' = size + (IF Head(unread) \in {"data"} THEN 1 ELSE 0)
    BY <2>1
  <2>3. pc \in Q!Waiting /\ UNCHANGED option
    BY <1>0, <1>4, <2>1
  <2>4. Answered'
    BY <1>1, <2>1, <2>2, <2>3, AnsweredStep
  <2>. QED
    BY <1>1, <1>4, <2>1, <2>3, <2>4, RequestIsOver
<1>17. ASSUME Q!Complete PROVE RequestOutcome'
  <2>1. /\ pc = "read" /\ unread # <<>> /\ Head(unread) = "end" /\ Q!Ends("response")
        /\ UNCHANGED <<unread, size, status>>
    BY <1>17 DEF Q!Complete, Q!Next1
  <2>2. /\ pc \in Q!Waiting /\ pc' = "over" /\ result' = "response" /\ UNCHANGED option
    BY <1>0, <1>4, <2>1
  <2>3. Answered /\ Answered' /\ Within /\ ThroughProxy /\ option \in Options
    BY <1>1, <1>2, <2>1, <2>2
  <2>4. unread \in Seq(Q!Tokens) /\ size \in Nat
    BY DEF Q!TypeOK
  <2>5. Len(unread) \in Nat \ {0} /\ DOMAIN unread = 1..Len(unread) /\ Head(unread) = unread[1]
    BY <2>1, <2>4, LenProperties, EmptySeq
  <2>6. 1 = Len(unread)
    <3>1. 1 \in DOMAIN unread /\ unread[1] \in {"end", "reset"}
      BY <2>1, <2>5
    <3>. QED
      BY <2>3, <3>1 DEF Answered, ClosedLast
  <2>7. unread = <<"end">>
    BY <2>1, <2>4, <2>5, <2>6, OneLeft
  <2>8. Count(unread, {"data"}) = 0
    BY <2>7, CountOne
  <2>9. Q!Count(option.answer, {"data"}) = Count(option.answer, {"data"})
    BY DEF Q!Count, Count, Q!Cardinality, Cardinality
  <2>10. option.proxy => status = "ok"
    BY <2>1, <2>3 DEF ThroughProxy
  <2>11. size = Q!Count(option.answer, {"data"})
    BY <2>3, <2>4, <2>8, <2>9 DEF Answered
  <2>12. Q!Whole'
    BY <2>1, <2>2, <2>3, <2>7, <2>10, <2>11 DEF Q!Whole, Within
  <2>. QED
    BY <1>0, <2>2, <2>3, <2>12 DEF RequestOutcome
<1>18. ASSUME Q!TimerFires PROVE RequestOutcome'
  <2>1. /\ UNCHANGED <<unread, size, status, option>>
        /\ pc' = "over" /\ result' = "timeout"
    BY <1>18 DEF Q!TimerFires, Q!Timeout, Q!TimeoutReady, Q!TimeoutShake, Q!TimesOut,
                 Q!Settles
  <2>2. pc \in Q!Waiting
    BY <1>0, <1>18 DEF Q!TimerFires, Q!Timeout, Q!TimeoutReady, Q!TimeoutShake
  <2>. QED
    BY <1>1, <1>2, <2>1, <2>2, RequestIsOver
<1>19. ASSUME Q!LateEvent PROVE RequestOutcome'
  <2>1. UNCHANGED <<unread, size, status, option, pc, result>>
    BY <1>19 DEF Q!LateEvent, Q!state, Q!history
  <2>. QED
    BY <2>1 DEF RequestOutcome, Answered, Within, ThroughProxy, Q!Whole
<1>. QED
  BY <1>8, <1>9, <1>10, <1>11, <1>12, <1>13, <1>14, <1>15, <1>16, <1>17, <1>18, <1>19
     DEF Q!Next, Q!Event

\* What a generator was sent, one by one, is not older than before, at most the
\* newest unit, and each unit once, but for what a timeout repeats.
GioOutcome ==
    /\ \A i, j \in DOMAIN got : i < j /\ got[j] # 0 => got[i] <= got[j]
    /\ \A i \in DOMAIN got : got[i] <= units
    /\ \A u \in 1..units : \E i \in DOMAIN got : got[i] = u
    /\ message \in {None, 0, units}
    /\ Count(got, Nat \ {0}) + (IF by = "timeout" THEN 1 ELSE 0) <= units + fired

\* One more message.
LEMMA GioHears ==
    ASSUME GioData, GioOutcome, NEW m \in Nat, units' \in {units, units + 1},
           (m = 0 /\ units' = units) \/ m = units',
           got' = Append(got, m),
           message' \in {None, 0, units'}, fired' = fired,
           (IF by' = "timeout" THEN 1 ELSE 0) + (IF m = 0 THEN 0 ELSE 1)
              <= (IF by = "timeout" THEN 1 ELSE 0) + (units' - units)
    PROVE  GioOutcome'
<1>1. /\ got \in Seq(Nat) /\ units \in Nat /\ fired \in Nat
  BY DEF GioData
<1>2. /\ Len(got) \in Nat /\ DOMAIN got = 1..Len(got) /\ \A i \in 1..Len(got) : got[i] \in Nat
  BY <1>1, LenProperties, ElementOfSeq
<1>3. /\ got' \in Seq(Nat) /\ Len(got') = Len(got) + 1
      /\ \A i \in 1..Len(got) : got'[i] = got[i]
      /\ got'[Len(got) + 1] = m
  BY <1>1, AppendProperties
<1>4. DOMAIN got' = 1..Len(got) + 1
  BY <1>3, LenProperties
<1>5. units' \in Nat /\ units <= units'
  BY <1>1
<1>6. \A i \in DOMAIN got' : i \in DOMAIN got \/ i = Len(got) + 1
  BY <1>2, <1>4
<1>7. ASSUME NEW i \in DOMAIN got' PROVE got'[i] <= units'
  <2>1. CASE i \in DOMAIN got
    BY <1>1, <1>2, <1>3, <1>5, <2>1 DEF GioOutcome
  <2>2. CASE i = Len(got) + 1
    BY <1>3, <1>5, <2>2
  <2>. QED
    BY <1>6, <2>1, <2>2
<1>8. ASSUME NEW i \in DOMAIN got', NEW j \in DOMAIN got', i < j, got'[j] # 0
      PROVE  got'[i] <= got'[j]
  <2>1. i \in DOMAIN got
    BY <1>2, <1>4, <1>8
  <2>2. CASE j \in DOMAIN got
    BY <1>2, <1>3, <1>8, <2>1, <2>2 DEF GioOutcome
  <2>3. CASE j = Len(got) + 1
    <3>1. got'[j] = units'
      BY <1>3, <1>8, <2>3
    <3>. QED
      BY <1>7, <3>1
  <2>. QED
    BY <1>6, <2>2, <2>3
<1>9. ASSUME NEW u \in 1..units' PROVE \E i \in DOMAIN got' : got'[i] = u
  <2>1. CASE u \in 1..units
    <3>1. PICK i \in DOMAIN got : got[i] = u
      BY <2>1 DEF GioOutcome
    <3>. QED
      BY <1>2, <1>3, <1>4, <3>1
  <2>2. CASE u \notin 1..units
    <3>1. u = units' /\ m = units'
      BY <1>1, <2>2
    <3>2. Len(got) + 1 \in DOMAIN got'
      BY <1>2, <1>4
    <3>. QED
      BY <1>3, <3>1, <3>2
  <2>. QED
    BY <2>1, <2>2
<1>10. Count(got', Nat \ {0}) = Count(got, Nat \ {0}) + (IF m = 0 THEN 0 ELSE 1)
  <2>1. Count(Append(got, m), Nat \ {0})
           = Count(got, Nat \ {0}) + (IF m \in Nat \ {0} THEN 1 ELSE 0)
    BY <1>1, CountAppend
  <2>. QED
    BY <2>1
<1>11. Count(got, Nat \ {0}) \in Nat
  BY <1>1, CountIs
<1>12. Count(got', Nat \ {0}) + (IF by' = "timeout" THEN 1 ELSE 0) <= units' + fired'
  <2>1. Count(got, Nat \ {0}) + (IF by = "timeout" THEN 1 ELSE 0) <= units + fired
    BY DEF GioOutcome
  <2>2. PICK was \in Nat : was = IF by = "timeout" THEN 1 ELSE 0
    OBVIOUS
  <2>3. PICK is \in Nat : is = IF by' = "timeout" THEN 1 ELSE 0
    OBVIOUS
  <2>4. PICK d \in Nat : d = IF m = 0 THEN 0 ELSE 1
    OBVIOUS
  <2>5. PICK c \in Nat : c = Count(got, Nat \ {0})
    BY <1>11
  <2>6. /\ Count(got', Nat \ {0}) = c + d /\ c + was <= units + fired
        /\ is + d <= was + (units' - units)
    BY <1>10, <2>1, <2>2, <2>3, <2>4, <2>5
  <2>7. PICK v \in Nat : v = units'
    BY <1>5
  <2>8. PICK a \in Nat : a = Count(got', Nat \ {0})
    BY <2>4, <2>5, <2>6
  <2>9. /\ {was, is, d, c, v, a, units, fired} \subseteq Nat /\ a = c + d
        /\ c + was <= units + fired /\ is + d <= was + (v - units)
    BY <1>1, <2>2, <2>3, <2>4, <2>5, <2>6, <2>7, <2>8
  <2>10. a + is <= v + fired
    BY <2>9
  <2>. QED
    BY <2>3, <2>7, <2>8, <2>10
<1>. QED
  BY <1>7, <1>8, <1>9, <1>12 DEF GioOutcome

\* No message, and no timeout that is not counted.
LEMMA GioHearsNothing ==
    ASSUME GioData, GioOutcome, UNCHANGED <<got, units>>, message' \in {None, 0, units},
           \/ fired' = fired /\ (by' = "timeout" => by = "timeout")
           \/ fired' = fired + 1
    PROVE  GioOutcome'
<1>1. got \in Seq(Nat) /\ units \in Nat /\ fired \in Nat
  BY DEF GioData
<1>2. Count(got, Nat \ {0}) \in Nat
  BY <1>1, CountIs
<1>3. Count(got, Nat \ {0}) + (IF by' = "timeout" THEN 1 ELSE 0) <= units + fired'
  BY <1>1, <1>2 DEF GioOutcome
<1>. QED
  BY <1>3 DEF GioOutcome

\* Each step of a Gio keeps the account of what it was sent.
LEMMA GioOutcomeStep ==
    ASSUME GioData, GioOutcome, G!Next
    PROVE  GioOutcome'
<1>0. /\ got \in Seq(Nat) /\ units \in Nat /\ fired \in Nat
      /\ by = "close" => message = 0
      /\ at \in G!Waiting => by = "send"
      /\ message \in {None, 0, units} /\ message \in Nat \cup {None}
      /\ G!Closing = 0
  BY DEF GioData, GioOutcome, G!Closing
<1>1. ASSUME UNCHANGED <<got, units, message, fired>>, by' \in {by, "send", "close"}
      PROVE  GioOutcome'
  <2>1. by' = "timeout" => by = "timeout"
    BY <1>1
  <2>. QED
    BY <1>0, <1>1, <2>1, GioHearsNothing
<1>2. ASSUME (\E c \in Mine : G!Open(c) \/ G!Close(c)) \/ G!Make
             \/ (\E b \in Mine \cup {"pending"} : G!Enter(b))
             \/ G!Exit \/ G!Ends \/ G!Fails \/ G!Collect
             \/ (\E kind \in G!Waiting : G!Yields(kind))
      PROVE  GioOutcome'
  <2>1. UNCHANGED <<got, units, message, fired>> /\ by' \in {by, "send", "close"}
    BY <1>2 DEF G!Open, G!Close, G!Make, G!Enter, G!Exit, G!Ends, G!Fails, G!Collect,
                G!Yields, G!history, G!state
  <2>. QED
    BY <1>1, <2>1
<1>3. ASSUME G!YieldsAfterTimeout PROVE GioOutcome'
  <2>1. /\ by = "timeout" /\ by' = "send" /\ UNCHANGED <<message, units, fired>>
        /\ got' = IF message = None THEN got ELSE Append(got, message)
    BY <1>3 DEF G!YieldsAfterTimeout
  <2>2. CASE message = None
    BY <1>0, <2>1, <2>2, GioHearsNothing
  <2>3. CASE message # None
    <3>1. message \in Nat /\ got' = Append(got, message)
      BY <1>0, <2>1, <2>3
    <3>2. (message = 0 /\ units' = units) \/ message = units'
      BY <1>0, <2>1, <2>3
    <3>3. units' \in {units, units + 1} /\ message' \in {None, 0, units'}
      BY <1>0, <2>1
    <3>4. (IF by' = "timeout" THEN 1 ELSE 0) + (IF message = 0 THEN 0 ELSE 1)
             <= (IF by = "timeout" THEN 1 ELSE 0) + (units' - units)
      BY <1>0, <2>1
    <3>. QED
      BY <2>1, <3>1, <3>2, <3>3, <3>4, GioHears
  <2>. QED
    BY <2>2, <2>3
<1>4. ASSUME G!YieldsAfterClose PROVE GioOutcome'
  <2>1. /\ by = "close" /\ UNCHANGED <<message, units, fired>>
        /\ \/ by' = "send" /\ got' = Append(got, message)
           \/ by' = by /\ got' = got
    BY <1>4 DEF G!YieldsAfterClose
  <2>2. CASE by' = "send" /\ got' = Append(got, message)
    <3>1. message = 0 /\ got' = Append(got, 0)
      BY <1>0, <2>1, <2>2
    <3>2. units' \in {units, units + 1} /\ message' \in {None, 0, units'}
      BY <1>0, <2>1
    <3>3. (IF by' = "timeout" THEN 1 ELSE 0) + (IF 0 = 0 THEN 0 ELSE 1)
             <= (IF by = "timeout" THEN 1 ELSE 0) + (units' - units)
      BY <1>0, <2>1, <2>2
    <3>. QED
      BY <2>1, <3>1, <3>2, <3>3, GioHears
  <2>3. CASE by' = by /\ got' = got
    BY <1>1, <2>1, <2>3
  <2>. QED
    BY <2>1, <2>2, <2>3
<1>5. ASSUME G!Written PROVE GioOutcome'
  <2>1. message' = None /\ UNCHANGED <<by, got, units, fired>>
    BY <1>5 DEF G!Written, G!history
  <2>. QED
    BY <2>1, GioHearsNothing
<1>6. ASSUME G!Read PROVE GioOutcome'
  <2>1. /\ units' = units + 1 /\ message' = units' /\ got' = Append(got, units')
        /\ UNCHANGED <<by, fired>> /\ at = "read"
    BY <1>6 DEF G!Read
  <2>2. by = "send" /\ units' \in Nat \ {0}
    BY <1>0, <2>1 DEF G!Waiting
  <2>3. (IF by' = "timeout" THEN 1 ELSE 0) + (IF units' = 0 THEN 0 ELSE 1)
           <= (IF by = "timeout" THEN 1 ELSE 0) + (units' - units)
    BY <1>0, <2>1, <2>2
  <2>. QED
    BY <2>1, <2>2, <2>3, GioHears
<1>7. ASSUME G!ReadEnd PROVE GioOutcome'
  <2>1. message' = 0 /\ by' = "close" /\ UNCHANGED <<got, units, fired>>
    BY <1>0, <1>7 DEF G!ReadEnd, G!history
  <2>. QED
    BY <2>1, GioHearsNothing
<1>8. ASSUME NEW i \in DOMAIN blocks, G!TimesOut(i) PROVE GioOutcome'
  <2>1. /\ UNCHANGED <<got, units, message>>
        /\ \/ fired' = fired + 1
           \/ fired' = fired /\ by' = by
    BY <1>8 DEF G!TimesOut
  <2>. QED
    BY <1>0, <2>1, GioHearsNothing
<1>. QED
  BY <1>2, <1>3, <1>4, <1>5, <1>6, <1>7, <1>8 DEF G!Next, G!Generator, G!TimerFires

\* The property follows.
LEMMA GioOutcomeMeans ==
    ASSUME GioData, GioOutcome
    PROVE  G!InOrder
<1>. DEFINE data == {i \in DOMAIN got : got[i] # 0}
<1>1. /\ got \in Seq(Nat) /\ units \in Nat /\ fired \in Nat /\ G!Closing = 0
  BY DEF GioData, G!Closing
<1>2. DOMAIN got = 1..Len(got) /\ \A i \in DOMAIN got : got[i] \in Nat
  BY <1>1, LenProperties, ElementOfSeq
<1>3. {got[i] : i \in data} = 1..units
  <2>1. \A i \in data : got[i] \in 1..units
    BY <1>1, <1>2 DEF GioOutcome
  <2>2. ASSUME NEW u \in 1..units PROVE u \in {got[i] : i \in data}
    <3>1. PICK i \in DOMAIN got : got[i] = u
      BY DEF GioOutcome
    <3>2. u # 0
      BY <1>1
    <3>3. i \in data
      BY <3>1, <3>2
    <3>. QED
      BY <3>1, <3>3
  <2>. QED
    BY <2>1, <2>2
<1>4. data = {i \in DOMAIN got : got[i] \in Nat \ {0}}
  BY <1>2
<1>5. G!Cardinality(data) <= units + fired
  <2>1. Count(got, Nat \ {0}) \in Nat
    BY <1>1, CountIs
  <2>2. G!Cardinality(data) = Count(got, Nat \ {0})
    BY <1>4 DEF G!Cardinality, Cardinality, Count
  <2>3. Count(got, Nat \ {0}) <= units + fired
    BY <1>1, <2>1 DEF GioOutcome
  <2>. QED
    BY <2>2, <2>3
<1>6. \A i, j \in data : i < j => got[i] <= got[j]
  BY DEF GioOutcome
<1>. QED
  BY <1>1, <1>3, <1>5, <1>6 DEF G!InOrder

\* What of a body is data: the units, or the data of a chunk.
Units == {"data", "fill"}
\* What a handler may hear.
Heard == {"header", "data", "close", "timeout"}

\* A stream ends once, and its chunks are in order.
Behaves(s) == ClosedLast(s) /\ H!Framed(s)

\* Before its end a handler has heard the header first, and data.
Plain(s) == \A i \in DOMAIN s : s[i] \in {"header", "data"} /\ (s[i] = "header" => i = 1)

\* The end of what it hears: one, or a timeout after the last chunk's close.
Ended(s) ==
    \A i \in DOMAIN s :
        /\ s[i] = "header" => i = 1
        /\ s[i] \in {"close", "timeout"} =>
              i = Len(s) \/ (i = Len(s) - 1 /\ s[i] = "close" /\ s[Len(s)] = "timeout"
                                /\ H!Last1(buffer))

\* The close is the end so far, and the last chunk is in the buffer.
CloseIsLast(s) ==
    /\ H!Last1(buffer)
    /\ \A i \in DOMAIN s : s[i] \in {"close", "timeout"} => i = Len(s) /\ s[i] = "close"

\* What the handler heard, what is in the buffer and what is still to come are the
\* response; after a close that was not too early nothing is left of it.
ReaderOutcome ==
    /\ Count(told, {"data"}) + Count(buffer, Units) + Count(coming, Units)
          = Count(response.tokens, Units)
    /\ ~response.chunked => buffer = <<>>
    /\ state \in {"new", "refused", "request", "header"} => told = <<>> /\ buffer = <<>>
    /\ state \notin H!Raised \cup {"over", "kept"} => Behaves(buffer \o coming)
    /\ state \notin {"over", "kept"} => Plain(told)
    /\ state \in {"over", "kept"} => Ended(told) /\ (readTimer => CloseIsLast(told))
    /\ (\E i \in DOMAIN told : told[i] = "close") /\ (~response.chunked \/ H!Last1(buffer))
          => Count(buffer, Units) = 0 /\ Count(coming, Units) = 0

\* What is heard before the end goes on with data, or ends.
LEMMA PlainMore ==
    ASSUME NEW s \in Seq(Heard), Plain(s), NEW d \in Seq({"data"})
    PROVE  /\ s \o d \in Seq(Heard) /\ Plain(s \o d)
           /\ Count(s \o d, {"data"}) = Count(s, {"data"}) + Count(d, {"data"})
<1>1. d \in Seq(Heard)
  BY SeqMonotonic DEF Heard
<1>2. /\ Len(s) \in Nat /\ Len(d) \in Nat /\ DOMAIN s = 1..Len(s)
      /\ \A i \in 1..Len(d) : d[i] = "data"
  BY LenProperties, ElementOfSeq
<1>3. /\ s \o d \in Seq(Heard) /\ Len(s \o d) = Len(s) + Len(d)
      /\ \A i \in 1..Len(s) + Len(d) :
            (s \o d)[i] = IF i <= Len(s) THEN s[i] ELSE d[i - Len(s)]
  BY <1>1, ConcatProperties
<1>4. DOMAIN (s \o d) = 1..Len(s) + Len(d)
  BY <1>3, LenProperties
<1>5. Plain(s \o d)
  <2>. SUFFICES ASSUME NEW i \in 1..Len(s) + Len(d)
                PROVE  /\ (s \o d)[i] \in {"header", "data"}
                       /\ (s \o d)[i] = "header" => i = 1
    BY <1>4 DEF Plain
  <2>1. CASE i <= Len(s)
    BY <1>2, <1>3, <2>1 DEF Plain
  <2>2. CASE ~(i <= Len(s))
    <3>1. i - Len(s) \in 1..Len(d)
      BY <1>2, <2>2
    <3>. QED
      BY <1>2, <1>3, <2>2, <3>1
  <2>. QED
    BY <2>1, <2>2
<1>6. Count(s \o d, {"data"}) = Count(s, {"data"}) + Count(d, {"data"})
  BY <1>1, CountConcat
<1>. QED
  BY <1>3, <1>5, <1>6

\* An end is heard once, behind the header and the data.
LEMMA PlainEnds ==
    ASSUME NEW s \in Seq(Heard), Plain(s), NEW x \in {"close", "timeout"}
    PROVE  /\ Append(s, x) \in Seq(Heard) /\ Append(s, x) = s \o <<x>>
           /\ Len(Append(s, x)) \in Nat /\ DOMAIN Append(s, x) = 1..Len(Append(s, x))
           /\ \A i \in DOMAIN Append(s, x) :
                 /\ Append(s, x)[i] = "header" => i = 1
                 /\ Append(s, x)[i] \in {"close", "timeout"} =>
                       i = Len(Append(s, x)) /\ Append(s, x)[i] = x
           /\ Count(Append(s, x), {"data"}) = Count(s, {"data"})
<1>1. x \in Heard /\ x \notin {"data"} /\ x # "header"
  BY DEF Heard
<1>2. Len(s) \in Nat /\ DOMAIN s = 1..Len(s)
  BY LenProperties
<1>3. /\ Append(s, x) \in Seq(Heard) /\ Len(Append(s, x)) = Len(s) + 1
      /\ \A i \in 1..Len(s) : Append(s, x)[i] = s[i]
      /\ Append(s, x)[Len(s) + 1] = x
      /\ Append(s, x) = s \o <<x>>
  BY <1>1, AppendProperties, AppendIsConcat
<1>4. DOMAIN Append(s, x) = 1..Len(s) + 1
  BY <1>3, LenProperties
<1>5. Count(Append(s, x), {"data"}) = Count(s, {"data"}) + (IF x \in {"data"} THEN 1 ELSE 0)
  BY <1>1, CountAppend
<1>6. Count(s, {"data"}) \in Nat
  BY CountIs
<1>7. ASSUME NEW i \in 1..Len(s) + 1
      PROVE  /\ Append(s, x)[i] = "header" => i = 1
             /\ Append(s, x)[i] \in {"close", "timeout"} =>
                   i = Len(s) + 1 /\ Append(s, x)[i] = x
  <2>1. CASE i \in 1..Len(s)
    BY <1>2, <1>3, <2>1 DEF Plain
  <2>2. CASE i = Len(s) + 1
    BY <1>1, <1>3, <2>2
  <2>. QED
    BY <1>2, <2>1, <2>2
<1>. QED
  BY <1>1, <1>2, <1>3, <1>4, <1>5, <1>6, <1>7

\* What follows in a stream behaves as well, when a first part is taken out.
LEMMA RestBehaves ==
    ASSUME NEW S, NEW s \in Seq(S), NEW t \in Seq(S), NEW m \in 0..Len(s), Behaves(s \o t)
    PROVE  Behaves(SubSeq(s, m + 1, Len(s)) \o t)
<1>. DEFINE r == SubSeq(s, m + 1, Len(s))
            w == s \o t
            v == r \o t
<1>1. /\ Len(s) \in Nat /\ Len(t) \in Nat
      /\ w \in Seq(S) /\ Len(w) = Len(s) + Len(t)
      /\ \A i \in 1..Len(w) : w[i] = IF i <= Len(s) THEN s[i] ELSE t[i - Len(s)]
      /\ \A i \in 1..Len(s) : s[i] \in S
  BY LenProperties, ConcatProperties, ElementOfSeq
<1>2. /\ m + 1 \in 1..Len(s) + 1 /\ Len(s) \in (m + 1) - 1..Len(s)
      /\ \A i \in m + 1..Len(s) : s[i] \in S
  BY <1>1
<1>3. /\ r \in Seq(S) /\ Len(r) = Len(s) - m
      /\ \A i \in 1..Len(s) - m : r[i] = s[i + m]
  BY <1>1, <1>2, SubSeqProperties
<1>. HIDE DEF r
<1>4. /\ v \in Seq(S) /\ Len(v) = Len(r) + Len(t)
      /\ \A i \in 1..Len(r) + Len(t) : v[i] = IF i <= Len(r) THEN r[i] ELSE t[i - Len(r)]
  BY <1>3, ConcatProperties
<1>. HIDE DEF w, v
<1>5. /\ DOMAIN w = 1..Len(w) /\ DOMAIN v = 1..Len(v) /\ Len(v) = Len(w) - m
  BY <1>1, <1>3, <1>4, LenProperties
<1>6. ASSUME NEW i \in DOMAIN v PROVE i + m \in DOMAIN w /\ v[i] = w[i + m]
  <2>1. i \in 1..Len(r) + Len(t) /\ i + m \in 1..Len(w)
    BY <1>1, <1>3, <1>4, <1>5
  <2>2. CASE i <= Len(r)
    <3>1. i \in 1..Len(s) - m /\ i + m <= Len(s)
      BY <1>1, <1>3, <2>1, <2>2
    <3>. QED
      BY <1>1, <1>3, <1>4, <1>5, <2>1, <2>2, <3>1
  <2>3. CASE ~(i <= Len(r))
    <3>1. ~(i + m <= Len(s)) /\ i + m - Len(s) = i - Len(r)
      BY <1>1, <1>3, <2>1, <2>3
    <3>2. v[i] = t[i - Len(r)]
      BY <1>4, <2>1, <2>3
    <3>3. w[i + m] = t[i + m - Len(s)]
      BY <1>1, <2>1, <3>1
    <3>. QED
      BY <1>5, <2>1, <3>1, <3>2, <3>3
  <2>. QED
    BY <2>2, <2>3
<1>7. ClosedLast(v)
  <2>. SUFFICES ASSUME NEW i \in DOMAIN v, v[i] \in {"end", "reset"} PROVE i = Len(v)
    BY DEF ClosedLast
  <2>1. i + m = Len(w)
    BY <1>6 DEF Behaves, ClosedLast, w
  <2>. QED
    BY <1>1, <1>5, <2>1
<1>8. H!Framed(v)
  <2>. SUFFICES ASSUME NEW i \in DOMAIN v, NEW j \in DOMAIN v, j = i + 1
                PROVE  /\ v[i] = "fill" => v[j] \in {"crlf", "end", "reset"}
                       /\ v[i] = "last" => v[j] \in {"end", "reset"}
    BY DEF H!Framed
  <2>1. /\ i + m \in DOMAIN w /\ j + m \in DOMAIN w /\ v[i] = w[i + m] /\ v[j] = w[j + m]
    BY <1>6
  <2>2. j + m = (i + m) + 1
    BY <1>5
  <2>3. H!Framed(w)
    BY DEF Behaves, w
  <2>. QED
    BY <2>1, <2>2, <2>3 DEF H!Framed
<1>. QED
  BY <1>7, <1>8 DEF Behaves, v, r

\* Behind the last chunk there is no data.
LEMMA NothingBehindLast ==
    ASSUME NEW S, NEW s \in Seq(S), Behaves(s), s # <<>>, s[1] = "last"
    PROVE  Count(s, Units) = 0
<1>1. Len(s) \in Nat \ {0} /\ DOMAIN s = 1..Len(s)
  BY LenProperties, EmptySeq
<1>2. ASSUME Len(s) > 1 PROVE s[2] \in {"end", "reset"} /\ Len(s) = 2
  <2>1. 1 \in DOMAIN s /\ 2 \in DOMAIN s /\ 2 = 1 + 1
    BY <1>1, <1>2
  <2>2. s[2] \in {"end", "reset"}
    BY <2>1 DEF Behaves, H!Framed
  <2>. QED
    BY <2>1, <2>2 DEF Behaves, ClosedLast
<1>3. \A i \in DOMAIN s : i = 1 \/ (i = 2 /\ s[2] \in {"end", "reset"})
  BY <1>1, <1>2
<1>4. \A i \in DOMAIN s : s[i] \notin Units
  BY <1>3 DEF Units
<1>. QED
  BY <1>4, CountIs

\* A recv in the header or the body: what is taken is of the body, and what is
\* counted and how it goes on is as before.
LEMMA Taken ==
    ASSUME ReaderData, ReaderOutcome, NEW k \in 1..Len(coming), NEW b, H!Fragment(k),
           \/ state = "header" /\ coming[1] = "header" /\ b = SubSeq(coming, 2, k)
           \/ state = "body" /\ b = buffer \o SubSeq(coming, 1, k)
    PROVE  /\ b \in Seq(H!BodyOf(response)) /\ coming' \in Seq(Comes)
           /\ Behaves(b \o coming')
           /\ Count(told, {"data"}) + Count(b, Units) + Count(coming', Units)
                 = Count(response.tokens, Units)
<1>. DEFINE f == SubSeq(coming, 1, k)
<1>1. /\ Len(coming) \in Nat /\ DOMAIN coming = 1..Len(coming)
      /\ coming \in Seq(H!Tokens) /\ k \in 0..Len(coming)
      /\ told \in Seq(Heard)
  BY LenProperties DEF ReaderData, Heard
<1>2. coming' = SubSeq(coming, k + 1, Len(coming))
  BY DEF H!Fragment
<1>3. /\ f \in Seq(H!Tokens) /\ coming' \in Seq(H!Tokens) /\ f \o coming' = coming
      /\ Len(f) = k
  BY <1>1, <1>2, Divided
<1>4. Count(coming, Units) = Count(f, Units) + Count(coming', Units)
  BY <1>1, <1>2, CountDivided
<1>5. /\ Count(told, {"data"}) \in Nat /\ Count(f, Units) \in Nat
      /\ Count(coming', Units) \in Nat
  BY <1>1, <1>3, CountIs
<1>6. /\ Count(told, {"data"}) + Count(buffer, Units) + Count(coming, Units)
            = Count(response.tokens, Units)
      /\ Behaves(buffer \o coming)
      /\ buffer \in Seq(H!BodyOf(response))
  BY DEF ReaderOutcome, ReaderData, H!Raised
<1>7. H!BodyOf(response) \subseteq H!Tokens
  BY DEF H!BodyOf, H!Tokens, H!Body
<1>8. buffer \in Seq(H!Tokens)
  BY <1>6, <1>7, SeqMonotonic
<1>0. f = SubSeq(coming, 1, k) /\ \A i \in 1..k : f[i] = coming[i]
  BY <1>1, SubSeqProperties
<1>. HIDE DEF f
<1>9. CASE state = "header" /\ coming[1] = "header" /\ b = SubSeq(coming, 2, k)
  <2>1. buffer = <<>> /\ told = <<>>
    BY <1>9 DEF ReaderOutcome
  <2>2. \A i \in 2..Len(coming) : coming[i] \in Comes
    <3>1. \A i \in 2..Len(coming) : 1 \in DOMAIN coming /\ i \in DOMAIN coming /\ 1 < i
      BY <1>1
    <3>. QED
      BY <1>9, <3>1 DEF ReaderData, Behind
  <2>3. b \in Seq(H!BodyOf(response)) /\ coming' \in Seq(Comes)
    BY <1>9, <2>2, FragmentIs
  <2>4. b = SubSeq(f, 1 + 1, Len(f)) /\ 1 \in 0..Len(f) /\ f[1] = coming[1]
    <3>1. 1 \in 1..Len(coming) /\ k \in 1..Len(coming) /\ 1 + 1 = 2
      BY <1>1
    <3>2. Tail(f) = SubSeq(coming, 1 + 1, k)
      BY <1>0, <1>1, <3>1, HeadTailOfSubSeq, Zenon
    <3>3. f # <<>>
      BY <1>3
    <3>4. Tail(f) = SubSeq(f, 2, Len(f))
      BY <1>3, <3>3, TailIsSubSeq
    <3>. QED
      BY <1>0, <1>3, <1>9, <3>1, <3>2, <3>4
  <2>5. Behaves(f \o coming')
    BY <1>1, <1>3, <1>6, <2>1, ConcatEmptySeq
  <2>6. Behaves(b \o coming')
    BY <1>3, <2>4, <2>5, RestBehaves
  <2>7. Count(f, Units) = Count(b, Units)
    <3>1. f # <<>> /\ Head(f) = f[1] /\ f[1] \notin Units
      BY <1>3, <1>9, <2>4 DEF Units
    <3>2. Tail(f) = b
      BY <1>3, <2>4, <3>1, TailIsSubSeq
    <3>3. Count(f, Units) = Count(Tail(f), Units) + (IF Head(f) \in Units THEN 1 ELSE 0)
      BY <1>3, <3>1, CountTail
    <3>4. Count(b, Units) \in Nat
      BY <2>3, CountIs
    <3>5. Count(f, Units) = Count(Tail(f), Units) + 0
      BY <3>1, <3>3
    <3>6. Count(Tail(f), Units) = Count(b, Units)
      BY <3>2
    <3>. QED
      BY <3>4, <3>5, <3>6
  <2>8. Count(buffer, Units) = 0 /\ Count(told, {"data"}) = 0
    <3>1. DOMAIN buffer = {} /\ DOMAIN told = {}
      BY <2>1
    <3>2. Count(buffer, Units) = 0
      BY <1>6, <3>1, CountIs
    <3>3. Count(told, {"data"}) = 0
      BY <1>1, <3>1, CountIs
    <3>. QED
      BY <3>2, <3>3
  <2>. QED
    BY <1>4, <1>5, <1>6, <2>3, <2>6, <2>7, <2>8
<1>10. CASE state = "body" /\ b = buffer \o f
  <2>1. \A i \in 1..Len(coming) : coming[i] \in Comes
    BY <1>10, ElementOfSeq DEF ReaderData
  <2>2. f \in Seq(H!BodyOf(response)) /\ coming' \in Seq(Comes)
    BY <1>0, <2>1, FragmentIs
  <2>3. b \in Seq(H!BodyOf(response))
    BY <1>6, <1>10, <2>2, ConcatProperties
  <2>7. Count(b, Units) = Count(buffer, Units) + Count(f, Units)
    <3>1. Count(buffer \o f, Units) = Count(buffer, Units) + Count(f, Units)
      BY <1>6, <2>2, CountConcat
    <3>. QED
      BY <1>10, <3>1
  <2>4. b \o coming' = buffer \o (f \o coming')
    <3>0. f \in Seq(H!Tokens) /\ coming' \in Seq(H!Tokens)
      BY <1>3
    <3>1. (buffer \o f) \o coming' = buffer \o (f \o coming')
      <4>1. \A s, u, v \in Seq(H!Tokens) : (s \o u) \o v = s \o (u \o v)
        BY ConcatAssociative
      <4>. QED
        BY <1>8, <3>0, <4>1
    <3>. QED
      BY <1>10, <3>1
  <2>5. Behaves(b \o coming')
    BY <1>3, <1>6, <2>4
  <2>6. Count(buffer, Units) \in Nat
    BY <1>6, CountIs
  <2>. QED
    BY <1>4, <1>5, <1>6, <2>2, <2>3, <2>5, <2>6, <2>7
<1>. QED
  BY <1>0, <1>9, <1>10

\* What is handed on and what is kept are what there was.
LEMMA HandedCounts ==
    ASSUME ReaderData, NEW b \in Seq(H!BodyOf(response)), NEW t \in Seq(H!Tokens),
           Behaves(b \o t)
    PROVE  /\ Count(H!Handed(b), {"data"}) + Count(H!Kept(b), Units) = Count(b, Units)
           /\ Behaves(H!Kept(b) \o t)
<1>1. /\ Len(b) \in Nat /\ DOMAIN b = 1..Len(b)
      /\ \A i \in 1..Len(b) : b[i] \in H!BodyOf(response)
  BY LenProperties, ElementOfSeq
<1>2. H!BodyOf(response) \subseteq H!Tokens
  BY DEF H!BodyOf, H!Tokens, H!Body
<1>3. b \in Seq(H!Tokens)
  BY <1>2, SeqMonotonic
<1>4. Count(b, Units) \in Nat /\ Count(<<>>, Units) = 0 /\ Count(<<>>, {"data"}) = 0
  <2>1. <<>> \in Seq(H!Tokens) /\ DOMAIN <<>> = {}
    OBVIOUS
  <2>. QED
    BY <1>3, <2>1, CountIs
<1>5. CASE ~response.chunked
  <2>1. H!Handed(b) = b /\ H!Kept(b) = <<>>
    BY <1>5 DEF H!Handed, H!Kept
  <2>2. Count(b, {"data"}) = Count(b, Units)
    <3>1. \A i \in DOMAIN b : b[i] \in {"data"} <=> b[i] \in Units
      BY <1>1, <1>5 DEF H!BodyOf, Units
    <3>. QED
      BY <3>1 DEF Count
  <2>3. Behaves(SubSeq(b, Len(b) + 1, Len(b)) \o t)
    BY <1>1, <1>3, RestBehaves
  <2>4. SubSeq(b, Len(b) + 1, Len(b)) = <<>>
    BY <1>1, SubSeqEmpty
  <2>5. Count(H!Handed(b), {"data"}) = Count(b, Units) /\ Count(H!Kept(b), Units) = 0
    BY <1>4, <2>1, <2>2
  <2>6. Behaves(H!Kept(b) \o t)
    BY <2>1, <2>3, <2>4
  <2>. QED
    BY <1>4, <2>5, <2>6
<1>6. CASE response.chunked /\ ~H!Chunked(b)
  <2>1. H!Handed(b) = <<>> /\ H!Kept(b) = b
    BY <1>6 DEF H!Handed, H!Kept
  <2>. QED
    BY <1>4, <2>1
<1>7. CASE response.chunked /\ H!Chunked(b)
  <2>1. /\ H!Handed(b) = <<"data">> /\ H!Kept(b) = SubSeq(b, 4, Len(b))
        /\ Len(b) >= 2 /\ b[1] = "size" /\ b[2] = "fill"
    BY <1>7 DEF H!Handed, H!Kept, H!Chunked
  <2>2. Count(<<"data">>, {"data"}) = 1
    BY CountOne
  <2>3. PICK m \in 2..3 : m = IF Len(b) = 2 THEN 2 ELSE 3
    OBVIOUS
  <2>4. m \in 0..Len(b) /\ m \in 2..3
    BY <1>1, <2>1, <2>3
  <2>5. H!Kept(b) = SubSeq(b, m + 1, Len(b))
    <3>1. CASE Len(b) = 2
      <4>1. SubSeq(b, 4, Len(b)) = <<>> /\ SubSeq(b, m + 1, Len(b)) = <<>>
        BY <2>3, <3>1, SubSeqEmpty
      <4>. QED
        BY <2>1, <4>1
    <3>2. CASE Len(b) # 2
      BY <2>1, <2>3, <3>2
    <3>. QED
      BY <3>1, <3>2
  <2>6. Behaves(H!Kept(b) \o t)
    BY <1>3, <2>4, <2>5, RestBehaves
  <2>. DEFINE f == SubSeq(b, 1, m)
  <2>7. Count(b, Units) = Count(f, Units) + Count(H!Kept(b), Units)
    BY <1>3, <2>4, <2>5, CountDivided
  <2>8. f \in Seq(H!Tokens) /\ Len(f) = m /\ \A i \in 1..m : f[i] = b[i]
    BY <1>1, <1>3, <2>4, Divided
  <2>9. m = 3 => b[3] \notin Units
    <3>. SUFFICES ASSUME m = 3 PROVE b[3] \notin Units
      OBVIOUS
    <3>1. /\ 2 \in 1..Len(b) + Len(t) /\ 3 \in 1..Len(b) + Len(t) /\ 3 <= Len(b)
          /\ Len(t) \in Nat /\ 3 = 2 + 1
      BY <1>1, <2>4, LenProperties
    <3>2. /\ (b \o t)[2] = b[2] /\ (b \o t)[3] = b[3] /\ b \o t \in Seq(H!Tokens)
          /\ Len(b \o t) = Len(b) + Len(t)
      BY <1>3, <3>1, ConcatProperties
    <3>3. 2 \in DOMAIN (b \o t) /\ 3 \in DOMAIN (b \o t)
      BY <3>1, <3>2, LenProperties
    <3>4. b[3] \in {"crlf", "end", "reset"}
      BY <2>1, <3>1, <3>2, <3>3 DEF Behaves, H!Framed
    <3>. QED
      BY <3>4 DEF Units
  <2>10. {i \in DOMAIN f : f[i] \in Units} = {2}
    <3>1. DOMAIN f = 1..m
      BY <2>8, LenProperties
    <3>2. \A i \in 1..m : i \in {1, 2, 3} /\ (i = 3 => m = 3)
      BY <2>4
    <3>3. f[1] \notin Units /\ f[2] \in Units /\ 2 \in 1..m /\ (m = 3 => f[3] \notin Units)
      BY <2>1, <2>4, <2>8, <2>9 DEF Units
    <3>. QED
      BY <3>1, <3>2, <3>3
  <2>11. Count(f, Units) = 1
    BY <2>10, FS_Singleton DEF Count
  <2>12. Count(H!Kept(b), Units) \in Nat
    BY <1>3, <2>4, <2>5, Divided, CountIs
  <2>. QED
    BY <2>1, <2>2, <2>6, <2>7, <2>11, <2>12
<1>. QED
  BY <1>5, <1>6, <1>7

\* What was taken is handed on and kept, or stops the reader.
LEMMA ReaderTakes ==
    ASSUME ReaderData, ReaderOutcome, UNCHANGED response,
           NEW b \in Seq(H!BodyOf(response)), coming' \in Seq(H!Tokens),
           Behaves(b \o coming'),
           Count(told, {"data"}) + Count(b, Units) + Count(coming', Units)
              = Count(response.tokens, Units),
           NEW said \in Seq(Heard), Plain(said), Count(said, {"data"}) = Count(told, {"data"}),
           \/ /\ H!Last1(b) /\ state' = "over" /\ told' = said \o <<"close">> /\ buffer' = b
           \/ state' = "body" /\ told' = said \o H!Handed(b) /\ buffer' = H!Kept(b)
    PROVE  ReaderOutcome'
<1>1. /\ Count(said, {"data"}) \in Nat /\ Count(b, Units) \in Nat
      /\ Count(coming', Units) \in Nat
  BY CountIs
<1>2. H!BodyOf(response) \subseteq H!Tokens
  BY DEF H!BodyOf, H!Tokens, H!Body
<1>3. b \in Seq(H!Tokens)
  BY <1>2, SeqMonotonic
<1>4. CASE /\ H!Last1(b) /\ state' = "over" /\ told' = said \o <<"close">> /\ buffer' = b
  <2>0. Append(said, "close") = said \o <<"close">>
    BY PlainEnds
  <2>12. told' = Append(said, "close")
    BY <1>4, <2>0
  <2>1. /\ told' \in Seq(Heard) /\ told' = Append(said, "close")
        /\ Count(told', {"data"}) = Count(told, {"data"})
        /\ DOMAIN told' = 1..Len(told')
        /\ \A i \in DOMAIN told' :
              /\ told'[i] = "header" => i = 1
              /\ told'[i] \in {"close", "timeout"} => i = Len(told') /\ told'[i] = "close"
    BY <2>12, PlainEnds
  <2>2. H!Last1(buffer)' /\ response'.chunked /\ b # <<>> /\ b[1] = "last"
    BY <1>4 DEF H!Last1
  <2>3. Ended(told)' /\ CloseIsLast(told)'
    BY <2>1, <2>2 DEF Ended, CloseIsLast
  <2>4. Count(b, Units) + Count(coming', Units) = 0
    <3>1. Count(b \o coming', Units) = Count(b, Units) + Count(coming', Units)
      BY <1>3, CountConcat
    <3>2. /\ Len(b) \in Nat \ {0} /\ Len(coming') \in Nat
          /\ 1 \in 1..Len(b) + Len(coming') /\ 1 <= Len(b)
      BY <1>3, <2>2, LenProperties, EmptySeq
    <3>3. /\ b \o coming' \in Seq(H!Tokens) /\ (b \o coming')[1] = b[1]
          /\ Len(b \o coming') = Len(b) + Len(coming')
      BY <1>3, <3>2, ConcatProperties
    <3>4. b \o coming' # <<>>
      BY <3>2, <3>3
    <3>5. Count(b \o coming', Units) = 0
      BY <2>2, <3>3, <3>4, NothingBehindLast
    <3>. QED
      BY <3>1, <3>5
  <2>5. Count(b, Units) = 0 /\ Count(coming', Units) = 0
    BY <1>1, <2>4
  <2>6. Count(told', {"data"}) + Count(buffer', Units) + Count(coming', Units)
           = Count(response'.tokens, Units)
    BY <1>4, <2>1
  <2>. QED
    BY <1>4, <2>2, <2>3, <2>5, <2>6 DEF ReaderOutcome, H!Raised
<1>5. CASE state' = "body" /\ told' = said \o H!Handed(b) /\ buffer' = H!Kept(b)
  <2>1. H!Handed(b) \in Seq({"data"}) /\ H!Kept(b) \in Seq(H!BodyOf(response))
    BY HandedIs
  <2>2. /\ Count(H!Handed(b), {"data"}) + Count(H!Kept(b), Units) = Count(b, Units)
        /\ Behaves(H!Kept(b) \o coming')
    BY HandedCounts
  <2>3. /\ told' \in Seq(Heard) /\ Plain(told')
        /\ Count(told', {"data"}) = Count(told, {"data"}) + Count(H!Handed(b), {"data"})
    BY <1>5, <2>1, PlainMore
  <2>4. Plain(told)' /\ Behaves(buffer \o coming)'
    BY <1>5, <2>2, <2>3 DEF Plain, Behaves, ClosedLast, H!Framed
  <2>5. ~response'.chunked => buffer' = <<>>
    BY <1>5 DEF H!Kept
  <2>6. \A i \in DOMAIN told' : told'[i] # "close"
    BY <2>3 DEF Plain
  <2>7. Count(told', {"data"}) + Count(buffer', Units) + Count(coming', Units)
           = Count(response'.tokens, Units)
    <3>1. Count(H!Handed(b), {"data"}) \in Nat /\ Count(H!Kept(b), Units) \in Nat
      BY <2>1, CountIs
    <3>2. Count(told', {"data"}) + Count(H!Kept(b), Units) + Count(coming', Units)
             = Count(response.tokens, Units)
      BY <1>1, <2>2, <2>3, <3>1
    <3>. QED
      BY <1>5, <3>2
  <2>. QED
    BY <1>5, <2>4, <2>5, <2>6, <2>7 DEF ReaderOutcome, H!Raised
<1>. QED
  BY <1>4, <1>5

\* Each step of a reader keeps the account of what was heard.
LEMMA ReaderOutcomeStep ==
    ASSUME ReaderData, ReaderOutcome, H!Next
    PROVE  ReaderOutcome'
<1>1. /\ told \in Seq(Heard) /\ coming \in Seq(H!Tokens)
      /\ Len(coming) \in Nat /\ DOMAIN coming = 1..Len(coming)
      /\ buffer \in Seq(H!BodyOf(response))
  BY LenProperties DEF ReaderData, Heard
<1>2. H!BodyOf(response) \subseteq H!Tokens /\ Comes \subseteq H!Tokens
  BY DEF H!BodyOf, H!Tokens, H!Body, Comes
<1>3. buffer \in Seq(H!Tokens)
  BY <1>1, <1>2, SeqMonotonic
<1>4. ASSUME H!Construct \/ H!ConstructRaises \/ H!SendRequest \/ H!SendRaises
             \/ H!HeaderRaises \/ H!BodyRaises
      PROVE  ReaderOutcome'
  <2>1. /\ UNCHANGED <<response, coming, buffer, told>>
        /\ {state, state'} \cap {"over", "kept"} = {}
        /\ \/ state' \in {"lost", "broken"}
           \/ /\ state \in {"new", "request"} /\ state' \in {"refused", "request", "header"}
    BY <1>4 DEF H!Construct, H!ConstructRaises, H!SendRequest, H!SendRaises,
                H!HeaderRaises, H!BodyRaises, H!Raises
  <2>2. \A i \in DOMAIN told : told[i] # "close"
    BY <2>1 DEF ReaderOutcome, Plain
  <2>. QED
    BY <2>1, <2>2 DEF ReaderOutcome, Plain, Behaves, ClosedLast, H!Framed, H!Raised
<1>5. ASSUME H!HeaderPart PROVE ReaderOutcome'
  <2>1. /\ state = "header" /\ coming # <<>> /\ Head(coming) = "part"
        /\ coming' = Tail(coming) /\ UNCHANGED <<response, state, buffer, told>>
    BY <1>5 DEF H!HeaderPart, H!Next1
  <2>2. told = <<>> /\ buffer = <<>> /\ Behaves(buffer \o coming)
    BY <2>1 DEF ReaderOutcome, H!Raised
  <2>3. buffer \o coming = coming /\ coming' \in Seq(H!Tokens)
    BY <1>1, <2>1, <2>2, ConcatEmptySeq, HeadTailProperties
  <2>4. buffer \o coming' = coming'
    BY <2>2, <2>3, ConcatEmptySeq
  <2>5. Count(coming, Units) = Count(coming', Units)
    <3>1. Count(coming, Units) =
             Count(Tail(coming), Units) + (IF Head(coming) \in Units THEN 1 ELSE 0)
      BY <1>1, <2>1, CountTail
    <3>2. Count(coming', Units) \in Nat
      BY <2>3, CountIs
    <3>3. Head(coming) \notin Units
      BY <2>1 DEF Units
    <3>4. Count(coming, Units) = Count(coming', Units) + 0
      BY <2>1, <3>1, <3>3
    <3>. QED
      BY <3>2, <3>4
  <2>6. Behaves(coming')
    <3>1. 1 \in 0..Len(coming) /\ 1 + 1 = 2
      BY <1>1, <2>1, EmptySeq
    <3>2. <<>> \in Seq(H!Tokens) /\ coming \o <<>> = coming
      BY <1>1, ConcatEmptySeq
    <3>3. Behaves(SubSeq(coming, 1 + 1, Len(coming)) \o <<>>)
      BY <1>1, <2>2, <2>3, <3>1, <3>2, RestBehaves
    <3>4. SubSeq(coming, 1 + 1, Len(coming)) = coming'
      BY <1>1, <2>1, <3>1, TailIsSubSeq
    <3>5. coming' \o <<>> = coming'
      BY <2>3, ConcatEmptySeq
    <3>. QED
      BY <3>3, <3>4, <3>5
  <2>7. Behaves(buffer \o coming)'
    BY <2>1, <2>4, <2>6 DEF Behaves, ClosedLast, H!Framed
  <2>. QED
    BY <2>1, <2>2, <2>5, <2>7 DEF ReaderOutcome, Plain
<1>6. ASSUME H!Header PROVE ReaderOutcome'
  <2>1. /\ state = "header" /\ coming # <<>> /\ Head(coming) = "header"
        /\ UNCHANGED response
    BY <1>6 DEF H!Header, H!Next1
  <2>2. PICK k \in 1..Len(coming) :
            LET b == SubSeq(coming, 2, k) IN
            /\ H!Fragment(k)
            /\ IF H!Last1(b)
               THEN H!Stops(<<"header">>) /\ readTimer' = FALSE /\ buffer' = b /\ failed' = TRUE
               ELSE /\ H!Waits(Reader, "reader") /\ state' = "body" /\ readTimer' = TRUE
                    /\ told' = <<"header">> \o H!Handed(b) /\ buffer' = H!Kept(b)
                    /\ UNCHANGED failed
    BY <1>6 DEF H!Header
  <2>3. PICK b : b = SubSeq(coming, 2, k)
    OBVIOUS
  <2>4. /\ H!Fragment(k)
        /\ \/ /\ H!Last1(b) /\ state' = "over" /\ told' = <<"header">> \o <<"close">>
              /\ buffer' = b
           \/ /\ state' = "body" /\ told' = <<"header">> \o H!Handed(b)
              /\ buffer' = H!Kept(b)
    BY <2>2, <2>3 DEF H!Stops
  <2>5. coming[1] = "header"
    BY <2>1
  <2>6. /\ b \in Seq(H!BodyOf(response)) /\ coming' \in Seq(Comes)
        /\ Behaves(b \o coming')
        /\ Count(told, {"data"}) + Count(b, Units) + Count(coming', Units)
              = Count(response.tokens, Units)
    BY <2>1, <2>3, <2>4, <2>5, Taken
  <2>7. coming' \in Seq(H!Tokens)
    BY <1>2, <2>6, SeqMonotonic
  <2>8. <<"header">> \in Seq(Heard) /\ Plain(<<"header">>)
    BY DEF Heard, Plain
  <2>9. Count(<<"header">>, {"data"}) = Count(told, {"data"})
    <3>1. told = <<>>
      BY <2>1 DEF ReaderOutcome
    <3>2. DOMAIN told = {}
      BY <3>1
    <3>3. Count(told, {"data"}) = 0
      BY <1>1, <3>2, CountIs
    <3>4. Count(<<"header">>, {"data"}) = 0
      BY CountOne
    <3>. QED
      BY <3>3, <3>4
  <2>10. PICK said \in Seq(Heard) : said = <<"header">>
    BY <2>8
  <2>11. /\ Plain(said) /\ Count(said, {"data"}) = Count(told, {"data"})
         /\ \/ /\ H!Last1(b) /\ state' = "over" /\ told' = said \o <<"close">>
               /\ buffer' = b
            \/ /\ state' = "body" /\ told' = said \o H!Handed(b)
               /\ buffer' = H!Kept(b)
    BY <2>4, <2>8, <2>9, <2>10
  <2>. QED
    BY <2>1, <2>6, <2>7, <2>10, <2>11, ReaderTakes
<1>7. ASSUME H!BodyFragment PROVE ReaderOutcome'
  <2>1. state = "body" /\ UNCHANGED response
    BY <1>7 DEF H!BodyFragment
  <2>2. PICK k \in 1..Len(coming) :
            LET b == buffer \o SubSeq(coming, 1, k) IN
            /\ H!Fragment(k)
            /\ \/ /\ H!Last1(b) /\ H!Stops(told) /\ buffer' = b
                  /\ \/ readTimer' = TRUE /\ UNCHANGED failed
                     \/ readTimer' = FALSE /\ failed' = TRUE
               \/ /\ ~H!Last1(b) /\ told' = told \o H!Handed(b) /\ buffer' = H!Kept(b)
                  /\ readTimer' = TRUE /\ UNCHANGED <<state, failed, num, fds>>
    BY <1>7 DEF H!BodyFragment
  <2>3. PICK b : b = buffer \o SubSeq(coming, 1, k)
    OBVIOUS
  <2>4. /\ H!Fragment(k)
        /\ \/ H!Last1(b) /\ state' = "over" /\ told' = told \o <<"close">> /\ buffer' = b
           \/ state' = "body" /\ told' = told \o H!Handed(b) /\ buffer' = H!Kept(b)
    BY <2>1, <2>2, <2>3 DEF H!Stops
  <2>5. /\ b \in Seq(H!BodyOf(response)) /\ coming' \in Seq(Comes)
        /\ Behaves(b \o coming')
        /\ Count(told, {"data"}) + Count(b, Units) + Count(coming', Units)
              = Count(response.tokens, Units)
    BY <2>1, <2>3, <2>4, Taken
  <2>6. coming' \in Seq(H!Tokens)
    BY <1>2, <2>5, SeqMonotonic
  <2>7. Plain(told)
    BY <2>1 DEF ReaderOutcome
  <2>. QED
    BY <1>1, <2>1, <2>4, <2>5, <2>6, <2>7, ReaderTakes
<1>8. ASSUME H!BodyEnd PROVE ReaderOutcome'
  <2>1. /\ state = "body" /\ coming # <<>> /\ Head(coming) = "end"
        /\ state' = "over" /\ told' = told \o <<"close">> /\ readTimer' = FALSE
        /\ UNCHANGED <<response, coming, buffer>>
    BY <1>8 DEF H!BodyEnd, H!Next1, H!Stops
  <2>2. Plain(told) /\ Behaves(buffer \o coming) /\ (~response.chunked => buffer = <<>>)
    BY <2>1 DEF ReaderOutcome, H!Raised
  <2>12. Append(told, "close") = told \o <<"close">>
    BY <1>1, <2>2, PlainEnds
  <2>13. told' = Append(told, "close")
    BY <2>1, <2>12
  <2>3. /\ Count(told', {"data"}) = Count(told, {"data"})
        /\ \A i \in DOMAIN told' :
              /\ told'[i] = "header" => i = 1
              /\ told'[i] \in {"close", "timeout"} => i = Len(told') /\ told'[i] = "close"
    BY <1>1, <2>2, <2>13, PlainEnds
  <2>4. Ended(told)'
    BY <2>3 DEF Ended
  <2>5. /\ Len(buffer) \in Nat /\ Len(coming) >= 1
        /\ buffer \o coming \in Seq(H!Tokens)
        /\ Len(buffer \o coming) = Len(buffer) + Len(coming)
        /\ \A i \in 1..Len(buffer) + Len(coming) :
              (buffer \o coming)[i] = IF i <= Len(buffer) THEN buffer[i]
                                      ELSE coming[i - Len(buffer)]
    BY <1>1, <1>3, <2>1, LenProperties, ConcatProperties, EmptySeq
  <2>6. Len(coming) = 1
    <3>1. Len(buffer) + 1 \in 1..Len(buffer) + Len(coming)
      BY <1>1, <2>5
    <3>2. (buffer \o coming)[Len(buffer) + 1] = "end"
      <4>1. ~(Len(buffer) + 1 <= Len(buffer)) /\ Len(buffer) + 1 - Len(buffer) = 1
        BY <2>5
      <4>2. coming[1] = "end"
        BY <2>1
      <4>. QED
        BY <2>5, <3>1, <4>1, <4>2
    <3>3. Len(buffer) + 1 \in DOMAIN (buffer \o coming)
      BY <2>5, <3>1, LenProperties
    <3>4. Len(buffer) + 1 = Len(buffer \o coming)
      BY <2>2, <3>2, <3>3 DEF Behaves, ClosedLast
    <3>. QED
      BY <1>1, <2>5, <3>4
  <2>7. Count(coming, Units) = 0
    <3>1. coming = <<"end">>
      BY <1>1, <2>1, <2>6, OneLeft
    <3>. QED
      BY <3>1, CountOne DEF Units
  <2>8. ~response.chunked \/ H!Last1(buffer) => Count(buffer, Units) = 0
    <3>1. CASE ~response.chunked
      <4>1. DOMAIN buffer = {}
        BY <2>2, <3>1
      <4>. QED
        BY <1>1, <4>1, CountIs
    <3>2. CASE H!Last1(buffer)
      <4>1. buffer # <<>> /\ buffer[1] = "last"
        BY <3>2 DEF H!Last1
      <4>2. Len(buffer) \in Nat \ {0}
        BY <1>1, <4>1, EmptySeq
      <4>3. (buffer \o coming)[1] = "last" /\ buffer \o coming # <<>>
        <5>1. 1 \in 1..Len(buffer) + Len(coming) /\ 1 <= Len(buffer)
          BY <1>1, <4>2
        <5>. QED
          BY <1>1, <2>5, <4>1, <4>2, <5>1
      <4>4. Count(buffer \o coming, Units) = 0
        BY <2>2, <2>5, <4>3, NothingBehindLast
      <4>5. Count(buffer \o coming, Units) = Count(buffer, Units) + Count(coming, Units)
        BY <1>1, <1>3, CountConcat
      <4>6. Count(buffer, Units) \in Nat
        BY <1>3, CountIs
      <4>. QED
        BY <2>7, <4>4, <4>5, <4>6
    <3>. QED
      BY <3>1, <3>2
  <2>9. H!Last1(buffer)' <=> H!Last1(buffer)
    BY <2>1 DEF H!Last1
  <2>10. Count(told', {"data"}) + Count(buffer', Units) + Count(coming', Units)
            = Count(response'.tokens, Units)
    BY <2>1, <2>3 DEF ReaderOutcome
  <2>. QED
    BY <2>1, <2>2, <2>4, <2>7, <2>8, <2>9, <2>10 DEF ReaderOutcome, H!Raised
<1>9. ASSUME H!TimeOut PROVE ReaderOutcome'
  <2>1. /\ readTimer /\ readTimer' = FALSE /\ state' \in {"over", "kept"}
        /\ told' = Append(told, "timeout") /\ UNCHANGED <<response, coming, buffer>>
    BY <1>9 DEF H!TimeOut
  <2>2. H!Last1(buffer)' <=> H!Last1(buffer)
    BY <2>1 DEF H!Last1
  <2>3. /\ Len(told) \in Nat /\ DOMAIN told = 1..Len(told)
        /\ Len(told') = Len(told) + 1 /\ DOMAIN told' = 1..Len(told) + 1
        /\ \A i \in 1..Len(told) : told'[i] = told[i]
        /\ told'[Len(told) + 1] = "timeout"
    <3>1. "timeout" \in Heard
      BY DEF Heard
    <3>2. /\ told' \in Seq(Heard) /\ Len(told') = Len(told) + 1
          /\ \A i \in 1..Len(told) : told'[i] = told[i]
          /\ told'[Len(told) + 1] = "timeout"
      BY <1>1, <2>1, <3>1, AppendProperties
    <3>. QED
      BY <1>1, <3>2, LenProperties
  <2>4. \A i \in DOMAIN told :
           /\ told[i] = "header" => i = 1
           /\ told[i] \in {"close", "timeout"} =>
                 i = Len(told) /\ told[i] = "close" /\ H!Last1(buffer)
    BY <2>1 DEF ReaderOutcome, Plain, Ended, CloseIsLast
  <2>5. Ended(told)'
    <3>. SUFFICES ASSUME NEW i \in DOMAIN told'
                  PROVE  /\ told'[i] = "header" => i = 1
                         /\ told'[i] \in {"close", "timeout"} =>
                               i = Len(told') \/ (i = Len(told') - 1 /\ told'[i] = "close"
                                   /\ told'[Len(told')] = "timeout" /\ H!Last1(buffer)')
      BY DEF Ended
    <3>1. CASE i \in DOMAIN told
      BY <2>2, <2>3, <2>4, <3>1
    <3>2. CASE i = Len(told) + 1
      BY <2>3, <3>2
    <3>. QED
      BY <2>3, <3>1, <3>2
  <2>6. Count(told', {"data"}) = Count(told, {"data"})
    <3>1. "timeout" \in Heard /\ "timeout" \notin {"data"}
      BY DEF Heard
    <3>2. Count(Append(told, "timeout"), {"data"}) =
             Count(told, {"data"}) + (IF "timeout" \in {"data"} THEN 1 ELSE 0)
      BY <1>1, <3>1, CountAppend
    <3>3. Count(told, {"data"}) \in Nat
      BY <1>1, CountIs
    <3>. QED
      BY <2>1, <3>1, <3>2, <3>3
  <2>7. (\E i \in DOMAIN told' : told'[i] = "close") => \E i \in DOMAIN told : told[i] = "close"
    <3>. SUFFICES ASSUME NEW i \in DOMAIN told', told'[i] = "close"
                  PROVE  \E j \in DOMAIN told : told[j] = "close"
      OBVIOUS
    <3>1. i \in DOMAIN told
      BY <2>3
    <3>. QED
      BY <2>3, <3>1
  <2>. QED
    BY <2>1, <2>2, <2>5, <2>6, <2>7 DEF ReaderOutcome, H!Raised
<1>10. ASSUME H!Dropped PROVE ReaderOutcome'
  <2>1. /\ state = "kept" \/ (state = "lost" /\ ~readTimer)
        /\ state' = "over" /\ UNCHANGED <<response, coming, buffer, readTimer, told>>
    BY <1>10 DEF H!Dropped
  <2>2. Ended(told) /\ (readTimer => CloseIsLast(told))
    BY <2>1 DEF ReaderOutcome, Plain, Ended
  <2>3. H!Last1(buffer)' = H!Last1(buffer)
    BY <2>1 DEF H!Last1
  <2>4. Ended(told)' = Ended(told) /\ CloseIsLast(told)' = CloseIsLast(told)
    BY <2>1, <2>3 DEF Ended, CloseIsLast
  <2>. QED
    BY <2>1, <2>2, <2>3, <2>4 DEF ReaderOutcome, H!Raised
<1>. QED
  BY <1>4, <1>5, <1>6, <1>7, <1>8, <1>9, <1>10 DEF H!Next, H!Event

\* The property follows.
LEMMA ReaderOutcomeMeans ==
    ASSUME ReaderData, ReaderOutcome
    PROVE  H!HandlerHears
<1>. DEFINE ends == {i \in DOMAIN told : told[i] \in {"close", "timeout"}}
            all == H!Count(response.tokens, {"data", "fill"})
<1>1. /\ told \in Seq(Heard) /\ coming \in Seq(H!Tokens)
      /\ buffer \in Seq(H!BodyOf(response))
  BY DEF ReaderData, Heard
<1>2. /\ Count(told, {"data"}) \in Nat /\ Count(buffer, Units) \in Nat
      /\ Count(coming, Units) \in Nat
  BY <1>1, CountIs
<1>3. /\ all = Count(response.tokens, Units)
      /\ H!Count(told, {"data"}) = Count(told, {"data"})
  BY DEF H!Count, Count, H!Cardinality, Cardinality, Units
<1>4. Count(told, {"data"}) + Count(buffer, Units) + Count(coming, Units) = all
  BY <1>3 DEF ReaderOutcome
<1>. HIDE DEF all
<1>5. H!Count(told, {"data"}) <= all
  BY <1>2, <1>3, <1>4
<1>6. /\ \A i \in DOMAIN told : told[i] = "header" => i = 1
      /\ \A i \in ends : i = Len(told) \/ (i = Len(told) - 1
              /\ told[i] = "close" /\ H!Last(told) = "timeout" /\ H!Last1(buffer))
  BY DEF ReaderOutcome, Plain, Ended, H!Last
<1>7. (\E i \in ends : told[i] = "close") /\ (~response.chunked \/ H!Last1(buffer))
         => H!Count(told, {"data"}) = all
  BY <1>2, <1>3, <1>4 DEF ReaderOutcome
<1>. QED
  BY <1>5, <1>6, <1>7 DEF H!HandlerHears, all

\* The accounts of the three clients.
OutcomesInv == RequestOutcome /\ ReaderOutcome /\ GioOutcome

\* Nothing is in the empty stream.
LEMMA CountNone ==
    ASSUME NEW K
    PROVE  Count(<<>>, K) = 0
<1>1. <<>> \in Seq({})
  OBVIOUS
<1>2. {i \in DOMAIN <<>> : <<>>[i] \in K} = {}
  OBVIOUS
<1>. QED
  BY <1>2, FS_EmptySet DEF Count

\* At the start nothing was read, heard or sent.
LEMMA OutcomesStart ==
    ASSUME ClientsInit
    PROVE  OutcomesInv
<1>. USE DEF ClientsInit
<1>1. RequestOutcome
  <2>1. pc = "idle" /\ result = "none"
    BY DEF Q!Init
  <2>. QED
    BY <2>1 DEF RequestOutcome, Q!Waiting, Q!Whole
<1>2. ReaderOutcome
  <2>1. /\ response \in Responses /\ state = "new" /\ coming = response.tokens
        /\ buffer = <<>> /\ readTimer = FALSE /\ told = <<>>
    BY DEF H!Init
  <2>2. /\ coming \in Seq(H!Tokens) /\ Behaves(coming)
    <3>1. H!ClosedLast(coming) <=> ClosedLast(coming)
      BY DEF H!ClosedLast, ClosedLast
    <3>. QED
      BY <2>1, <3>1, ClientsAssumption DEF H!HttpReaderAssumption, Behaves
  <2>3. buffer \o coming = coming
    BY <2>1, <2>2, ConcatEmptySeq
  <2>4. Count(told, {"data"}) = 0 /\ Count(buffer, Units) = 0
    BY <2>1, CountNone
  <2>5. Count(coming, Units) \in Nat
    BY <2>2, CountIs
  <2>6. Plain(told) /\ ~(\E i \in DOMAIN told : told[i] = "close")
    BY <2>1 DEF Plain
  <2>. QED
    BY <2>1, <2>2, <2>3, <2>4, <2>5, <2>6 DEF ReaderOutcome
<1>3. GioOutcome
  <2>1. by = "send" /\ message = None /\ got = <<>> /\ units = 0 /\ fired = 0
    BY DEF G!Init
  <2>2. Count(got, Nat \ {0}) = 0
    BY <2>1, CountNone
  <2>. QED
    BY <2>1, <2>2 DEF GioOutcome
<1>. QED
  BY <1>1, <1>2, <1>3 DEF OutcomesInv

\* What another client does leaves the account as it is.
LEMMA OutcomesAreLeft ==
    /\ RequestOutcome /\ UNCHANGED requester => RequestOutcome'
    /\ ReaderOutcome /\ UNCHANGED reader => ReaderOutcome'
    /\ GioOutcome /\ UNCHANGED gio => GioOutcome'
<1>1. ASSUME RequestOutcome, UNCHANGED requester PROVE RequestOutcome'
  <2>1. UNCHANGED <<option, pc, unread, status, size, result>>
    BY <1>1 DEF requester
  <2>. QED
    BY <1>1, <2>1 DEF RequestOutcome, Answered, Within, ThroughProxy, Q!Whole
<1>2. ASSUME ReaderOutcome, UNCHANGED reader PROVE ReaderOutcome'
  <2>1. UNCHANGED <<response, state, coming, buffer, readTimer, told>>
    BY <1>2 DEF reader
  <2>2. H!Last1(buffer)' = H!Last1(buffer) /\ Behaves(buffer \o coming)' = Behaves(buffer \o coming)
    BY <2>1 DEF H!Last1, Behaves
  <2>3. /\ Ended(told)' = Ended(told) /\ CloseIsLast(told)' = CloseIsLast(told)
        /\ Plain(told)' = Plain(told)
    BY <2>1, <2>2 DEF Ended, CloseIsLast, Plain
  <2>. QED
    BY <1>2, <2>1, <2>2, <2>3 DEF ReaderOutcome
<1>3. ASSUME GioOutcome, UNCHANGED gio PROVE GioOutcome'
  <2>1. UNCHANGED <<by, message, got, units, fired>>
    BY <1>3 DEF gio
  <2>. QED
    BY <1>3, <2>1 DEF GioOutcome
<1>. QED
  BY <1>1, <1>2, <1>3

\* Each step of the program keeps the accounts.
LEMMA OutcomesStep ==
    ASSUME ClientsInv, OutcomesInv, [ClientsNext]_clientsVars
    PROVE  OutcomesInv'
<1>. USE DEF OutcomesInv
<1>1. /\ Q!TypeOK /\ RequesterInv /\ ReaderData /\ GioData
  BY DEF ClientsInv, RequesterInv, ReaderInv, GioInv
<1>2. CASE RequesterSteps
  BY <1>1, <1>2, RequestOutcomeStep, OutcomesAreLeft DEF RequesterSteps
<1>3. CASE ReaderSteps
  BY <1>1, <1>3, ReaderOutcomeStep, OutcomesAreLeft DEF ReaderSteps
<1>4. CASE GioSteps
  BY <1>1, <1>4, GioOutcomeStep, OutcomesAreLeft DEF GioSteps
<1>5. CASE UNCHANGED clientsVars
  BY <1>5, OutcomesAreLeft DEF clientsVars
<1>. QED
  BY <1>2, <1>3, <1>4, <1>5 DEF ClientsNext

\* What a client reports is what was sent to it: a response has come to its end
\* and is within its limit, a handler hears the header, its data and an end, and
\* a generator each unit, in order.
THEOREM ClientsHearAll == ClientsSpec => []Outcomes
<1>1. ClientsInit => ClientsInv /\ OutcomesInv
  BY ClientsStart, OutcomesStart
<1>2. /\ ClientsInv /\ OutcomesInv /\ [ClientsNext]_clientsVars
      => (ClientsInv /\ OutcomesInv)'
  BY ClientsStep, OutcomesStep
<1>3. ClientsInv /\ OutcomesInv => Outcomes
  BY ReaderOutcomeMeans, GioOutcomeMeans
     DEF Outcomes, ClientsInv, OutcomesInv, RequestOutcome, ReaderInv, GioInv
<1>. QED
  BY <1>1, <1>2, <1>3, PTL DEF ClientsSpec
=============================================================================
