--------------------------- MODULE ObservableProofs -------------------------
(* Theorems about Observable: its types, and that a `once` asks everybody     *)
(* below its sender and nobody twice, for any graph that grows while any      *)
(* number of messages of any kind are under way.                              *)
EXTENDS Observable, SelectionProofs, TLAPS

----------------------------------------------------------------------------
(* What the steps of a delivery do to its record.                             *)

\* What a delivery was sent with does not change.
SameMessage(r, s) ==
    s.kind = r.kind /\ s.from = r.from /\ s.target = r.target /\ s.graph = r.graph

\* The loops of a delivery, the last one of them, and those around it.
LEMMA LoopsOf ==
    ASSUME NEW r \in Sent, r.frames # <<>>
    PROVE  /\ r.frames \in Seq(Frames) /\ Len(r.frames) \in Nat \ {0}
           /\ DOMAIN r.frames = 1..Len(r.frames)
           /\ Last(r.frames) = r.frames[Len(r.frames)] /\ Last(r.frames) \in Frames
           /\ \A i \in 1..Len(r.frames) : r.frames[i] \in Frames
           /\ Front(r.frames) \in Seq(Frames)
           /\ DOMAIN Front(r.frames) = 1..(Len(r.frames) - 1)
           /\ \A i \in 1..(Len(r.frames) - 1) : Front(r.frames)[i] = r.frames[i]
           /\ Len(r.frames) > 1 => Front(r.frames) # <<>>
<1>. DEFINE fs == r.frames
            n == Len(fs) - 1
<1>1. fs \in Seq(Frames) /\ fs # <<>>
  BY DEF Sent
<1>2. Len(fs) \in Nat \ {0} /\ DOMAIN fs = 1..Len(fs)
  BY <1>1, LenProperties
<1>3. \A i \in 1..Len(fs) : fs[i] \in Frames
  BY <1>1, ElementOfSeq
<1>4. Last(fs) = fs[Len(fs)]
  BY DEF Last
<1>5. /\ n \in Nat /\ (IF 1 <= n THEN n - 1 + 1 ELSE 0) = n
      /\ \A i \in 1..n : fs[i] \in Frames /\ 1 + i - 1 = i
  BY <1>2, <1>3
<1>. HIDE DEF n
<1>6. /\ SubSeq(fs, 1, n) \in Seq(Frames) /\ Len(SubSeq(fs, 1, n)) = n
      /\ \A i \in 1..n : SubSeq(fs, 1, n)[i] = fs[i]
  <2>1. /\ SubSeq(fs, 1, n) \in Seq(Frames)
        /\ Len(SubSeq(fs, 1, n)) = IF 1 <= n THEN n - 1 + 1 ELSE 0
        /\ \A i \in 1..(n - 1 + 1) : SubSeq(fs, 1, n)[i] = fs[1 + i - 1]
    BY <1>5, SubSeqProperties
  <2>. QED
    BY <1>5, <2>1
<1>7. Front(fs) = SubSeq(fs, 1, n)
  BY DEF Front, n
<1>8. DOMAIN Front(fs) = 1..n
  BY <1>6, <1>7, LenProperties
<1>9. Len(fs) > 1 => Front(fs) # <<>>
  <2>1. n + 1 = Len(fs) /\ Len(Front(fs)) = n
    BY <1>2, <1>6, <1>7 DEF n
  <2>2. Front(fs) = <<>> => Len(Front(fs)) = 0
    BY LenProperties
  <2>. QED
    BY <1>2, <2>1, <2>2
<1>. QED
  BY <1>1, <1>2, <1>3, <1>4, <1>6, <1>7, <1>8, <1>9 DEF n

\* The innermost loop goes on to its next observer.
LEMMA AdvancedIs ==
    ASSUME NEW r \in Sent, r.frames # <<>>
    PROVE  LET s == Advanced(r)
               n == Len(r.frames)
           IN  /\ s \in Sent /\ SameMessage(r, s) /\ s.frames # <<>>
               /\ s.seen = r.seen /\ s.asked = r.asked /\ s.phase = r.phase
               /\ DOMAIN s.frames = 1..n /\ Len(s.frames) = n
               /\ \A i \in 1..(n - 1) : s.frames[i] = r.frames[i]
               /\ s.frames[n].of = r.frames[n].of /\ s.frames[n].list = r.frames[n].list
               /\ s.frames[n].next = r.frames[n].next + 1
<1>. DEFINE fs == r.frames
            n == Len(fs)
            last == fs[n]
            loop == [last EXCEPT !.next = @ + 1]
            gs == [fs EXCEPT ![n] = loop]
<1>1. /\ fs \in Seq(Frames) /\ n \in Nat \ {0} /\ DOMAIN fs = 1..n
      /\ fs[n] \in Frames
  BY LoopsOf
<1>2. Advanced(r) = [r EXCEPT !.frames = gs]
  BY DEF Advanced
<1>a. last \in Frames
  BY <1>1
<1>. HIDE DEF last
<1>3. /\ loop \in Frames /\ loop.of = last.of /\ loop.list = last.list
      /\ loop.next = last.next + 1
  BY <1>a DEF Frames
<1>. HIDE DEF loop
<1>4. /\ gs \in Seq(Frames) /\ Len(gs) = n /\ gs[n] = loop
      /\ \A i \in 1..(n - 1) : gs[i] = fs[i]
  BY <1>1, <1>3
<1>5. DOMAIN gs = 1..n /\ gs # <<>>
  BY <1>1, <1>4, LenProperties
<1>. HIDE DEF gs, fs
<1>6. /\ Advanced(r) \in Sent /\ SameMessage(r, Advanced(r)) /\ Advanced(r).frames = gs
      /\ Advanced(r).seen = r.seen /\ Advanced(r).asked = r.asked
      /\ Advanced(r).phase = r.phase
  BY <1>2, <1>4 DEF Sent, SameMessage
<1>. QED
  BY <1>3, <1>4, <1>5, <1>6 DEF fs, last

\* Another loop is entered.
LEMMA PushedIs ==
    ASSUME NEW r \in Sent, NEW frame \in Frames
    PROVE  LET s == Pushed(r, frame)
               n == Len(r.frames)
           IN  /\ s \in Sent /\ SameMessage(r, s) /\ s.frames # <<>>
               /\ s.seen = r.seen /\ s.asked = r.asked /\ s.phase = r.phase
               /\ DOMAIN s.frames = 1..(n + 1) /\ n \in Nat
               /\ \A i \in 1..n : s.frames[i] = r.frames[i]
               /\ s.frames[n + 1] = frame
<1>. DEFINE fs == r.frames
            gs == Append(fs, frame)
            n == Len(fs)
<1>1. fs \in Seq(Frames)
  BY DEF Sent
<1>2. /\ n \in Nat /\ gs \in Seq(Frames) /\ Len(gs) = n + 1 /\ gs[n + 1] = frame
      /\ \A i \in 1..n : gs[i] = fs[i]
  BY <1>1, LenProperties, AppendProperties
<1>4. Pushed(r, frame) = [r EXCEPT !.frames = gs]
  BY DEF Pushed
<1>. HIDE DEF gs, fs
<1>3. DOMAIN gs = 1..(n + 1) /\ gs # <<>>
  BY <1>2, LenProperties
<1>5. /\ Pushed(r, frame) \in Sent /\ SameMessage(r, Pushed(r, frame))
      /\ Pushed(r, frame).frames = gs /\ Pushed(r, frame).seen = r.seen
      /\ Pushed(r, frame).asked = r.asked /\ Pushed(r, frame).phase = r.phase
  BY <1>2, <1>4 DEF Sent, SameMessage
<1>. QED
  BY <1>2, <1>3, <1>5 DEF fs

\* A delivery comes to its end.
LEMMA EndedIs ==
    ASSUME NEW r \in Sent, NEW phase \in Phases
    PROVE  LET s == Ended(r, phase) IN
           /\ s \in Sent /\ SameMessage(r, s) /\ s.frames = <<>>
           /\ s.seen = r.seen /\ s.asked = r.asked /\ s.phase = phase
<1>. DEFINE none == <<>>
<1>1. none \in Seq(Frames) /\ Ended(r, phase) = [r EXCEPT !.phase = phase, !.frames = none]
  BY EmptySeq DEF Ended
<1>. HIDE DEF none
<1>2. /\ Ended(r, phase) \in Sent /\ SameMessage(r, Ended(r, phase))
      /\ Ended(r, phase).frames = none /\ Ended(r, phase).seen = r.seen
      /\ Ended(r, phase).asked = r.asked /\ Ended(r, phase).phase = phase
  BY <1>1 DEF Sent, SameMessage
<1>. QED
  BY <1>2 DEF none

\* A loop ends, and the delivery with the outermost.
LEMMA LoopEndsIs ==
    ASSUME NEW r \in Sent, r.frames # <<>>, r.phase = "running"
    PROVE  LET s == LoopEnds(r) IN
           /\ s \in Sent /\ SameMessage(r, s) /\ s.seen = r.seen /\ s.asked = r.asked
           /\ \/ /\ Len(r.frames) > 1 /\ s.phase = "running"
                 /\ s.frames = Front(r.frames) /\ s.frames # <<>>
              \/ /\ Len(r.frames) = 1 /\ s.frames = <<>>
                 /\ s.phase = IF r.kind \in FirstAnswer THEN "unanswered" ELSE "delivered"
<1>1. Front(r.frames) \in Seq(Frames) /\ Len(r.frames) \in Nat \ {0}
      /\ (Len(r.frames) > 1 => Front(r.frames) # <<>>)
  BY LoopsOf
<1>2. CASE Len(r.frames) > 1
  <2>1. LoopEnds(r) = [r EXCEPT !.frames = Front(r.frames)]
    BY <1>2 DEF LoopEnds
  <2>2. /\ LoopEnds(r) \in Sent /\ SameMessage(r, LoopEnds(r))
        /\ LoopEnds(r).seen = r.seen /\ LoopEnds(r).asked = r.asked
        /\ LoopEnds(r).phase = r.phase /\ LoopEnds(r).frames = Front(r.frames)
    BY <1>1, <2>1 DEF Sent, SameMessage
  <2>. QED
    BY <1>1, <1>2, <2>2
<1>3. CASE ~(Len(r.frames) > 1)
  <2>. DEFINE phase == IF r.kind \in FirstAnswer THEN "unanswered" ELSE "delivered"
  <2>a. LoopEnds(r) = Ended(r, phase)
    BY <1>3 DEF LoopEnds
  <2>b. phase \in Phases
    BY DEF Phases
  <2>. HIDE DEF phase
  <2>1. Len(r.frames) = 1
    <3>. DEFINE n == Len(r.frames)
    <3>1. n \in Nat \ {0} /\ ~(n > 1)
      BY <1>1, <1>3
    <3>. HIDE DEF n
    <3>2. n = 1
      BY <3>1
    <3>. QED
      BY <3>2 DEF n
  <2>2. /\ LoopEnds(r) \in Sent /\ SameMessage(r, LoopEnds(r))
        /\ LoopEnds(r).frames = <<>> /\ LoopEnds(r).seen = r.seen
        /\ LoopEnds(r).asked = r.asked /\ LoopEnds(r).phase = phase
    BY <2>a, <2>b, EndedIs
  <2>. QED
    BY <2>1, <2>2 DEF phase
<1>. QED
  BY <1>2, <1>3

\* An observer answers: the delivery goes on, with the loop it is in or the one
\* around it, or ends; a `once` goes on where it is or raises.
LEMMA AnsweredIs ==
    ASSUME NEW r \in Sent, r.frames # <<>>, r.phase = "running", NEW o \in Object,
           NEW how \in Answers
    PROVE  LET s == Answered(r, o, how) IN
           /\ s \in Sent /\ SameMessage(r, s) /\ s.seen = r.seen
           /\ s.asked = Append(r.asked, o)
           /\ \/ s.phase = "running" /\ s.frames = r.frames
              \/ s.phase = "running" /\ s.frames = Front(r.frames) /\ s.frames # <<>>
              \/ s.phase # "running" /\ s.frames = <<>>
           /\ r.kind = "once" => \/ s.phase = "running" /\ s.frames = r.frames
                                 \/ s.phase = "raised" /\ s.frames = <<>>
<1>. DEFINE asked == Append(r.asked, o)
            passed == r.passed \/ (how = "unanswered" /\ r.kind \in FirstAnswer)
            s == [r EXCEPT !.asked = asked, !.passed = passed]
<1>1. asked \in Seq(Object) /\ passed \in BOOLEAN /\ r.kind \in Kinds
  BY DEF Sent
<1>. HIDE DEF asked, passed
<1>2. /\ s \in Sent /\ SameMessage(r, s) /\ s.seen = r.seen /\ s.asked = asked
      /\ s.phase = r.phase /\ s.frames = r.frames /\ s.kind = r.kind
  BY <1>1 DEF Sent, SameMessage
<1>. HIDE DEF s
<1>3. \/ Answered(r, o, how) = s
      \/ r.kind \in FirstAnswer /\ Answered(r, o, how) = LoopEnds(s)
      \/ Answered(r, o, how) = Ended(s, "raised")
      \/ r.kind \in FirstAnswer /\ Answered(r, o, how) = Ended(s, "answered")
  BY DEF Answered, Answers, s, asked, passed
<1>4. "raised" \in Phases /\ "answered" \in Phases /\ "once" \notin FirstAnswer
  BY DEF Phases, FirstAnswer
<1>5. CASE Answered(r, o, how) = s
  BY <1>2, <1>5 DEF asked
<1>6. CASE r.kind \in FirstAnswer /\ Answered(r, o, how) = LoopEnds(s)
  <2>1. /\ LoopEnds(s) \in Sent /\ SameMessage(s, LoopEnds(s)) /\ LoopEnds(s).seen = s.seen
        /\ LoopEnds(s).asked = s.asked
        /\ \/ /\ LoopEnds(s).phase = "running" /\ LoopEnds(s).frames = Front(s.frames)
              /\ LoopEnds(s).frames # <<>>
           \/ LoopEnds(s).frames = <<>> /\ LoopEnds(s).phase \in {"unanswered", "delivered"}
    BY <1>2, LoopEndsIs
  <2>. QED
    BY <1>2, <1>4, <1>6, <2>1 DEF SameMessage, asked
<1>7. ASSUME NEW phase \in {"raised", "answered"}, Answered(r, o, how) = Ended(s, phase),
             phase = "answered" => r.kind # "once"
      PROVE  /\ Answered(r, o, how) \in Sent /\ SameMessage(r, Answered(r, o, how))
             /\ Answered(r, o, how).seen = r.seen /\ Answered(r, o, how).asked = asked
             /\ Answered(r, o, how).frames = <<>> /\ Answered(r, o, how).phase = phase
  <2>1. /\ Ended(s, phase) \in Sent /\ SameMessage(s, Ended(s, phase))
        /\ Ended(s, phase).frames = <<>> /\ Ended(s, phase).seen = s.seen
        /\ Ended(s, phase).asked = s.asked /\ Ended(s, phase).phase = phase
    BY <1>2, <1>4, EndedIs
  <2>. QED
    BY <1>2, <1>7, <2>1 DEF SameMessage
<1>8. CASE Answered(r, o, how) = Ended(s, "raised")
  BY <1>7, <1>8 DEF asked
<1>9. CASE r.kind \in FirstAnswer /\ Answered(r, o, how) = Ended(s, "answered")
  BY <1>4, <1>7, <1>9 DEF asked
<1>. QED
  BY <1>3, <1>5, <1>6, <1>8, <1>9
----------------------------------------------------------------------------
(* The invariant.                                                             *)

\* What a delivery of a message is made of: it has loops while it runs, and
\* only a `once` has loops over living lists, or over objects without a method.
Delivered(r) ==
    /\ r \in Sent
    /\ r.phase = "running" <=> r.frames # <<>>
    /\ r.kind # "once" =>
           \A i \in DOMAIN r.frames :
               /\ r.frames[i].of = None
               /\ ToSet(r.frames[i].list) \subseteq Implementer \cup Transparent

\* Who was asked was marked as seen, and was asked once.
WellAsked(r) == ToSet(r.asked) \subseteq r.seen /\ IsInjective(r.asked)

\* What a loop runs over, in graph g.
Listed(g, f) == IF f.of = None THEN f.list ELSE g[f.of]

\* The observers of c with the name, in graph g with the names nm.
Heads(g, nm, c, target) == {o \in ToSet(g[c]) : target = None \/ nm[o] = target}

\* S holds heads and the observers of every component it holds.
Holds(g, heads, S) ==
    heads \subseteq S /\ \A x \in S \cap Component : ToSet(g[x]) \subseteq S

\* What the loops fs of a delivery still have before them.
Ahead(g, fs) ==
    {o \in Object : \E i \in DOMAIN fs : \E k \in DOMAIN Listed(g, fs[i]) :
                        k >= fs[i].next /\ Listed(g, fs[i])[k] = o}

\* The graph only grows.
Grown(g, r) == \A x \in Component : ToSet(r.graph[x]) \subseteq ToSet(g[x])

\* A `once` loops over what it was sent to, and over the observers of its sender
\* or of a component it has seen.
LoopsBelow(g, nm, r) ==
    \A i \in DOMAIN r.frames :
        IF r.frames[i].of = None
        THEN ToSet(r.frames[i].list) \subseteq Heads(g, nm, r.from, r.target)
        ELSE \/ r.frames[i].of \in r.seen
             \/ r.frames[i].of = r.from /\ r.target = None

\* It sees only what every such set holds,
SeesBelow(g, nm, r) ==
    \A S \in SUBSET Object :
        Holds(g, Heads(g, nm, r.from, r.target), S) => r.seen \subseteq S

\* and has seen or has before it the first observers and those of the components
\* it has seen; it has asked what it has seen and has a method.
MissesNobody(g, nm, r) ==
    r.phase \in {"running", "delivered"} =>
        /\ Heads(r.graph, nm, r.from, r.target) \subseteq r.seen \cup Ahead(g, r.frames)
        /\ \A x \in r.seen \cap Component :
               ToSet(r.graph[x]) \subseteq r.seen \cup Ahead(g, r.frames)
        /\ r.seen \cap Implementer \subseteq ToSet(r.asked)

OnceInv(g, nm, r) ==
    /\ Grown(g, r) /\ LoopsBelow(g, nm, r)
    /\ SeesBelow(g, nm, r) /\ MissesNobody(g, nm, r)

\* What holds of a delivery, in graph g with the names nm, some of them set
\* since the start or not.
DeliveryInv(g, nm, set, r) ==
    /\ Delivered(r)
    /\ r.kind = "once" =>
           /\ WellAsked(r)
           /\ (r.target # None => ~set) => OnceInv(g, nm, r)

\* What a Defer keeps is what it would find, unless a name was set since.
FoundIn(list, nm, kind, target) ==
    AtPositions(list, {i \in 1..Len(list) :
        /\ target = None \/ nm[list[i]] = target
        /\ kind = "once" \/ list[i] \in Implementer \cup Transparent})

CacheInv(g, nm, set, kept) ==
    \A key \in DOMAIN kept :
        /\ key \in Component \X Kinds \X Targets
        /\ kept[key] \in Seq(Object)
        /\ key[2] # "once" => ToSet(kept[key]) \subseteq Implementer \cup Transparent
        /\ key[3] = None \/ ~set => kept[key] = FoundIn(g[key[1]], nm, key[2], key[3])

DeliveriesInv ==
    \A d \in 1..Deliveries :
        delivery[d] # Idle => DeliveryInv(observers, name, renamed, delivery[d])

Inv == TypeOK /\ CacheInv(observers, name, renamed, cache) /\ DeliveriesInv

----------------------------------------------------------------------------
(* What a message finds.                                                      *)

\* The observers of a component that a message finds.
LEMMA FoundIs ==
    ASSUME NEW g \in [Component -> Seq(Object)], NEW nm, NEW c \in Component,
           NEW kind, NEW target
    PROVE  /\ FoundIn(g[c], nm, kind, target) \in Seq(Object)
           /\ ToSet(FoundIn(g[c], nm, kind, target)) \subseteq Heads(g, nm, c, target)
           /\ kind # "once" => ToSet(FoundIn(g[c], nm, kind, target))
                                   \subseteq Implementer \cup Transparent
           /\ kind = "once" => Heads(g, nm, c, target)
                                   \subseteq ToSet(FoundIn(g[c], nm, kind, target))
<1>. DEFINE list == g[c]
            I == {i \in 1..Len(list) : /\ target = None \/ nm[list[i]] = target
                                       /\ kind = "once" \/ list[i] \in Implementer \cup Transparent}
            found == AtPositions(list, I)
<1>1. list \in Seq(Object) /\ I \in SUBSET (1..Len(list)) /\ DOMAIN list = 1..Len(list)
  BY LenProperties
<1>2. found = FoundIn(g[c], nm, kind, target)
  BY DEF FoundIn
<1>3. \A i \in I : /\ i \in DOMAIN list
                   /\ target = None \/ nm[list[i]] = target
                   /\ kind = "once" \/ list[i] \in Implementer \cup Transparent
  BY <1>1
<1>4. kind = "once" => \A i \in DOMAIN list : (target = None \/ nm[list[i]] = target) => i \in I
  BY <1>1
<1>. HIDE DEF I, list, found
<1>5. /\ found \in Seq(Object) /\ Len(found) = Cardinality(I)
      /\ Picks(found, list, I)
  BY <1>1, SelectionIsList DEF found
<1>6. DOMAIN found = 1..Cardinality(I)
  BY <1>5, LenProperties
<1>7. /\ \A n \in DOMAIN found : \E i \in I : found[n] = list[i]
      /\ \A i \in I : \E n \in DOMAIN found : found[n] = list[i]
  BY <1>5, <1>6 DEF Picks
<1>8. ToSet(found) \subseteq Heads(g, nm, c, target)
  BY <1>3, <1>7 DEF ToSet, Heads, list
<1>9. kind # "once" => ToSet(found) \subseteq Implementer \cup Transparent
  BY <1>3, <1>7 DEF ToSet
<1>10. kind = "once" => Heads(g, nm, c, target) \subseteq ToSet(found)
  BY <1>4, <1>7 DEF ToSet, Heads, list
<1>. QED
  BY <1>2, <1>5, <1>8, <1>9, <1>10

\* Found and Lookup in terms of the graph, the names and what is kept.
LEMMA LookupIs ==
    ASSUME TypeOK, CacheInv(observers, name, renamed, cache),
           NEW c \in Component, NEW kind \in Kinds, NEW target \in Targets
    PROVE  /\ Lookup(c, kind, target) \in Seq(Object)
           /\ kind # "once" => ToSet(Lookup(c, kind, target))
                                   \subseteq Implementer \cup Transparent
           /\ target = None \/ ~renamed =>
                  Lookup(c, kind, target) = FoundIn(observers[c], name, kind, target)
<1>. DEFINE key == <<c, kind, target>>
<1>1. Found(c, kind, target) = FoundIn(observers[c], name, kind, target)
  BY DEF Found, FoundIn, Named
<1>2. /\ FoundIn(observers[c], name, kind, target) \in Seq(Object)
      /\ kind # "once" => ToSet(FoundIn(observers[c], name, kind, target))
                              \subseteq Implementer \cup Transparent
  BY FoundIs DEF TypeOK
<1>3. key[1] = c /\ key[2] = kind /\ key[3] = target
  OBVIOUS
<1>4. CASE key \in DOMAIN cache
  <2>1. Lookup(c, kind, target) = cache[key]
    BY <1>4 DEF Lookup
  <2>. QED
    BY <1>3, <1>4, <2>1 DEF CacheInv
<1>5. CASE key \notin DOMAIN cache
  <2>1. Lookup(c, kind, target) = Found(c, kind, target)
    BY <1>5 DEF Lookup
  <2>. QED
    BY <1>1, <1>2, <2>1
<1>. QED
  BY <1>4, <1>5

\* A message that is looked up is kept.
LEMMA RememberKeeps ==
    ASSUME TypeOK, CacheInv(observers, name, renamed, cache),
           NEW c \in Component, NEW kind \in Kinds, NEW target \in Targets,
           Remember(c, kind, target)
    PROVE  CacheInv(observers, name, renamed, cache')
<1>. DEFINE one == <<c, kind, target>>
<1>1. /\ DOMAIN cache' = DOMAIN cache \cup {one}
      /\ \A key \in DOMAIN cache \cup {one} : cache'[key] = Lookup(key[1], key[2], key[3])
  BY DEF Remember
<1>2. \A key \in DOMAIN cache \cup {one} : key \in Component \X Kinds \X Targets
  BY DEF CacheInv
<1>. HIDE DEF one
<1>3. SUFFICES ASSUME NEW key \in DOMAIN cache \cup {one}
      PROVE  /\ key \in Component \X Kinds \X Targets
             /\ cache'[key] \in Seq(Object)
             /\ key[2] # "once" => ToSet(cache'[key]) \subseteq Implementer \cup Transparent
             /\ key[3] = None \/ ~renamed =>
                    cache'[key] = FoundIn(observers[key[1]], name, key[2], key[3])
  BY <1>1 DEF CacheInv
<1>4. key[1] \in Component /\ key[2] \in Kinds /\ key[3] \in Targets
  BY <1>2
<1>. QED
  BY <1>1, <1>2, <1>4, LookupIs
----------------------------------------------------------------------------
(* What the loops of a `once` have before them.                               *)

\* The list of a loop.
LEMMA ListedIs ==
    ASSUME NEW g \in [Component -> Seq(Object)], NEW f \in Frames
    PROVE  /\ Listed(g, f) \in Seq(Object)
           /\ DOMAIN Listed(g, f) = 1..Len(Listed(g, f)) /\ Len(Listed(g, f)) \in Nat
           /\ \A k \in 1..Len(Listed(g, f)) : Listed(g, f)[k] \in Object
           /\ f.next \in Nat \ {0}
<1>1. Listed(g, f) \in Seq(Object)
  BY DEF Listed, Frames
<1>. QED
  BY <1>1, LenProperties, ElementOfSeq DEF Frames

\* A loop that goes on leaves behind the observer it was at.
LEMMA AheadMoves ==
    ASSUME NEW g \in [Component -> Seq(Object)], NEW r \in Sent, r.frames # <<>>,
           Last(r.frames).next <= Len(Listed(g, Last(r.frames)))
    PROVE  Ahead(g, r.frames) \subseteq
               Ahead(g, Advanced(r).frames)
                   \cup {Listed(g, Last(r.frames))[Last(r.frames).next]}
<1>. DEFINE fs == r.frames
            n == Len(fs)
            gs == Advanced(r).frames
            f == fs[n]
            h == gs[n]
<1>1. /\ n \in Nat \ {0} /\ DOMAIN fs = 1..n /\ Last(fs) = f
      /\ \A i \in 1..n : fs[i] \in Frames
  BY LoopsOf
<1>2. /\ DOMAIN gs = 1..n /\ \A i \in 1..(n - 1) : gs[i] = fs[i]
      /\ h.of = f.of /\ h.list = f.list /\ h.next = f.next + 1
  BY AdvancedIs
<1>3. Listed(g, h) = Listed(g, f)
  BY <1>2 DEF Listed
<1>. HIDE DEF fs, gs, n
<1>4. SUFFICES ASSUME NEW o \in Object, NEW i \in DOMAIN fs,
                      NEW k \in DOMAIN Listed(g, fs[i]),
                      k >= fs[i].next, Listed(g, fs[i])[k] = o
      PROVE  o \in Ahead(g, gs) \/ o = Listed(g, f)[f.next]
  BY <1>1 DEF Ahead, fs, gs
<1>5. CASE i # n
  <2>1. i \in DOMAIN gs /\ gs[i] = fs[i]
    BY <1>1, <1>2, <1>5
  <2>. QED
    BY <1>4, <2>1 DEF Ahead
<1>6. CASE i = n /\ k = f.next
  BY <1>4, <1>6
<1>7. CASE i = n /\ k # f.next
  <2>1. f \in Frames /\ n \in DOMAIN gs
    BY <1>1, <1>2
  <2>2. k \in Nat /\ f.next \in Nat
    BY <1>7, <2>1, ListedIs
  <2>3. k >= h.next /\ k \in DOMAIN Listed(g, h) /\ Listed(g, h)[k] = o
    BY <1>2, <1>3, <1>4, <1>7, <2>2
  <2>. QED
    BY <2>1, <2>3 DEF Ahead
<1>. QED
  BY <1>5, <1>6, <1>7

\* A loop over the observers of a component has them all before it.
LEMMA AheadPushed ==
    ASSUME NEW g \in [Component -> Seq(Object)], NEW r \in Sent, NEW o \in Component
    PROVE  /\ Ahead(g, r.frames) \subseteq Ahead(g, Pushed(r, Living(o)).frames)
           /\ ToSet(g[o]) \subseteq Ahead(g, Pushed(r, Living(o)).frames)
<1>. DEFINE f == Living(o)
            gs == Pushed(r, f).frames
            n == Len(r.frames)
<1>1. f \in Frames /\ f.of = o /\ f.next = 1
  BY EmptySeq DEF Living, Frames
<1>2. Listed(g, f) = g[o]
  BY <1>1, ObjectAssumption DEF Listed
<1>. HIDE DEF f
<1>3. /\ DOMAIN gs = 1..(n + 1) /\ n \in Nat
      /\ \A i \in 1..n : gs[i] = r.frames[i]
      /\ gs[n + 1] = f
  BY <1>1, PushedIs
<1>4. DOMAIN r.frames = 1..n
  BY LenProperties DEF Sent
<1>. HIDE DEF gs, n
<1>5. Ahead(g, r.frames) \subseteq Ahead(g, gs)
  <2>1. \A i \in DOMAIN r.frames : i \in DOMAIN gs /\ gs[i] = r.frames[i]
    BY <1>3, <1>4
  <2>. QED
    BY <2>1 DEF Ahead
<1>6. ToSet(g[o]) \subseteq Ahead(g, gs)
  <2>1. g[o] \in Seq(Object) /\ DOMAIN g[o] = 1..Len(g[o])
    BY LenProperties
  <2>2. \A k \in DOMAIN g[o] : k >= f.next /\ g[o][k] \in Object
    BY <1>1, <2>1, ElementOfSeq
  <2>3. n + 1 \in DOMAIN gs
    BY <1>3
  <2>. QED
    BY <1>2, <1>3, <2>2, <2>3 DEF Ahead, ToSet
<1>. QED
  BY <1>5, <1>6 DEF gs, f

\* A loop that is over has nothing before it.
LEMMA AheadEnds ==
    ASSUME NEW g \in [Component -> Seq(Object)], NEW r \in Sent, r.frames # <<>>,
           ~(Last(r.frames).next <= Len(Listed(g, Last(r.frames))))
    PROVE  /\ Ahead(g, r.frames) \subseteq Ahead(g, Front(r.frames))
           /\ Len(r.frames) = 1 => Ahead(g, r.frames) = {}
<1>. DEFINE fs == r.frames
            n == Len(fs)
            f == fs[n]
<1>1. /\ n \in Nat \ {0} /\ DOMAIN fs = 1..n /\ Last(fs) = f
      /\ f \in Frames
      /\ DOMAIN Front(fs) = 1..(n - 1)
      /\ \A i \in 1..(n - 1) : Front(fs)[i] = fs[i]
  BY LoopsOf
<1>2. \A k \in DOMAIN Listed(g, f) : ~(k >= f.next)
  <2>1. f.next \in Nat /\ Len(Listed(g, f)) \in Nat /\ ~(f.next <= Len(Listed(g, f)))
    BY <1>1, ListedIs
  <2>2. DOMAIN Listed(g, f) = 1..Len(Listed(g, f))
    BY <1>1, ListedIs
  <2>. QED
    BY <2>1, <2>2
<1>3. ASSUME NEW o \in Ahead(g, fs)
      PROVE  n # 1 /\ o \in Ahead(g, Front(fs))
  <2>1. PICK i \in DOMAIN fs : \E k \in DOMAIN Listed(g, fs[i]) :
            k >= fs[i].next /\ Listed(g, fs[i])[k] = o
    BY <1>3 DEF Ahead
  <2>2. i # n
    BY <1>2, <2>1
  <2>3. n # 1 /\ i \in DOMAIN Front(fs) /\ Front(fs)[i] = fs[i]
    BY <1>1, <2>2
  <2>4. o \in Object
    BY DEF Ahead
  <2>. QED
    BY <2>1, <2>3, <2>4 DEF Ahead
<1>. QED
  BY <1>3

\* A graph that grows leaves before a loop what was there.
LEMMA AheadGrows ==
    ASSUME NEW g \in [Component -> Seq(Object)], NEW h \in [Component -> Seq(Object)],
           \A x \in Component : \A k \in DOMAIN g[x] : k \in DOMAIN h[x] /\ h[x][k] = g[x][k],
           NEW fs \in Seq(Frames)
    PROVE  Ahead(g, fs) \subseteq Ahead(h, fs)
<1>1. SUFFICES ASSUME NEW i \in DOMAIN fs, NEW k \in DOMAIN Listed(g, fs[i])
      PROVE  k \in DOMAIN Listed(h, fs[i]) /\ Listed(h, fs[i])[k] = Listed(g, fs[i])[k]
  BY DEF Ahead
<1>2. fs[i] \in Frames
  BY LenProperties, ElementOfSeq
<1>3. fs[i].of # None => fs[i].of \in Component
  BY <1>2 DEF Frames
<1>. QED
  BY <1>3 DEF Listed
----------------------------------------------------------------------------
(* The steps of a `once`, for a delivery r in graph g with the names nm.      *)

\* The loop a `once` is in, and the observer it gets to.
Inner(r) == Last(r.frames)
AtHand(g, r) == Listed(g, Inner(r))[Inner(r).next]
InLoop(g, r) ==
    /\ r.frames # <<>> /\ r.phase = "running"
    /\ Inner(r).next <= Len(Listed(g, Inner(r)))

\* The observer it gets to is one that every closed set of observers has.
LEMMA AtHandIsBelow ==
    ASSUME NEW g \in [Component -> Seq(Object)], NEW nm, NEW r \in Sent,
           OnceInv(g, nm, r), InLoop(g, r)
    PROVE  /\ AtHand(g, r) \in Object
           /\ \A S \in SUBSET Object :
                  Holds(g, Heads(g, nm, r.from, r.target), S) => AtHand(g, r) \in S
<1>. DEFINE f == Inner(r)
            list == Listed(g, f)
            o == AtHand(g, r)
            heads == Heads(g, nm, r.from, r.target)
<1>1. f \in Frames /\ Len(r.frames) \in DOMAIN r.frames /\ f = r.frames[Len(r.frames)]
  BY LoopsOf DEF InLoop, Inner
<1>2. o = list[f.next] /\ f.next \in DOMAIN list /\ o \in Object
  BY <1>1, ListedIs DEF InLoop, AtHand
<1>3. o \in ToSet(list)
  BY <1>2 DEF ToSet
<1>4. IF f.of = None THEN ToSet(f.list) \subseteq heads
      ELSE f.of \in r.seen \/ (f.of = r.from /\ r.target = None)
  BY <1>1 DEF OnceInv, LoopsBelow
<1>5. f.of # None => f.of \in Component
  BY <1>1 DEF Frames
<1>6. ASSUME NEW S \in SUBSET Object, Holds(g, heads, S)
      PROVE  o \in S
  <2>1. CASE f.of = None
    BY <1>3, <1>4, <1>6, <2>1 DEF Listed, Holds
  <2>2. CASE f.of # None /\ f.of \in r.seen
    <3>1. r.seen \subseteq S
      BY <1>6 DEF OnceInv, SeesBelow
    <3>2. ToSet(g[f.of]) \subseteq S
      BY <1>5, <1>6, <2>2, <3>1 DEF Holds
    <3>. QED
      BY <1>3, <2>2, <3>2 DEF Listed
  <2>3. CASE f.of # None /\ f.of = r.from /\ r.target = None
    <3>1. o \in heads
      BY <1>3, <2>3 DEF Listed, Heads
    <3>. QED
      BY <1>6, <3>1 DEF Holds
  <2>. QED
    BY <1>4, <2>1, <2>2, <2>3
<1>. QED
  BY <1>2, <1>6

\* One more is asked.
LEMMA AskedToo ==
    ASSUME NEW s \in Seq(Object), NEW o \in Object
    PROVE  /\ ToSet(Append(s, o)) = ToSet(s) \cup {o}
           /\ IsInjective(s) /\ o \notin ToSet(s) => IsInjective(Append(s, o))
<1>. DEFINE all == Append(s, o)
            n == Len(s)
<1>1. /\ n \in Nat /\ DOMAIN s = 1..n /\ all \in Seq(Object) /\ Len(all) = n + 1
      /\ all[n + 1] = o /\ \A i \in 1..n : all[i] = s[i]
  BY LenProperties, AppendProperties
<1>2. DOMAIN all = 1..(n + 1)
  BY <1>1, LenProperties
<1>3. \A i \in 1..(n + 1) : i = n + 1 \/ i \in 1..n
  BY <1>1
<1>4. n + 1 \in 1..(n + 1) /\ \A i \in 1..n : i \in 1..(n + 1)
  BY <1>1
<1>. HIDE DEF all, n
<1>5. ToSet(all) = ToSet(s) \cup {o}
  BY <1>1, <1>2, <1>3, <1>4 DEF ToSet
<1>6. IsInjective(s) /\ o \notin ToSet(s) => IsInjective(all)
  BY <1>1, <1>2, <1>3 DEF ToSet, IsInjective
<1>. QED
  BY <1>5, <1>6 DEF all

\* The loops are the same ones when one goes on.
LEMMA AdvancedLoops ==
    ASSUME NEW r \in Sent, r.frames # <<>>
    PROVE  /\ DOMAIN Advanced(r).frames = DOMAIN r.frames
           /\ \A i \in DOMAIN r.frames :
                  /\ Advanced(r).frames[i].of = r.frames[i].of
                  /\ Advanced(r).frames[i].list = r.frames[i].list
<1>. DEFINE gs == Advanced(r).frames
            n == Len(r.frames)
<1>1. /\ DOMAIN gs = 1..n
      /\ \A i \in 1..(n - 1) : gs[i] = r.frames[i]
      /\ gs[n].of = r.frames[n].of /\ gs[n].list = r.frames[n].list
  BY AdvancedIs
<1>2. n \in Nat \ {0} /\ DOMAIN r.frames = 1..n
  BY LoopsOf
<1>3. \A i \in 1..n : i = n \/ i \in 1..(n - 1)
  BY <1>2
<1>. QED
  BY <1>1, <1>2, <1>3

\* A `once` that goes by an observer that it has seen: nothing gets lost.
LEMMA SkipKeeps ==
    ASSUME NEW g \in [Component -> Seq(Object)], NEW nm, NEW r \in Sent,
           OnceInv(g, nm, r), InLoop(g, r), AtHand(g, r) \in r.seen
    PROVE  OnceInv(g, nm, Advanced(r))
<1>. DEFINE s == Advanced(r)
<1>1. /\ s \in Sent /\ s.from = r.from /\ s.target = r.target /\ s.graph = r.graph
      /\ s.seen = r.seen /\ s.asked = r.asked /\ s.phase = r.phase
  BY AdvancedIs DEF InLoop, SameMessage
<1>2. /\ DOMAIN s.frames = DOMAIN r.frames
      /\ \A i \in DOMAIN r.frames :
             s.frames[i].of = r.frames[i].of /\ s.frames[i].list = r.frames[i].list
  BY AdvancedLoops DEF InLoop
<1>4. Ahead(g, r.frames) \subseteq r.seen \cup Ahead(g, s.frames)
  BY AheadMoves DEF InLoop, AtHand, Inner
<1>. HIDE DEF s
<1>5. Grown(g, s) /\ SeesBelow(g, nm, s)
  BY <1>1 DEF OnceInv, Grown, SeesBelow
<1>6. LoopsBelow(g, nm, s)
  BY <1>1, <1>2 DEF OnceInv, LoopsBelow
<1>7. MissesNobody(g, nm, s)
  BY <1>1, <1>4 DEF OnceInv, MissesNobody, InLoop
<1>. QED
  BY <1>5, <1>6, <1>7 DEF OnceInv, s

\* A `once` that comes to the end of a loop.
LEMMA LoopEndKeeps ==
    ASSUME NEW g \in [Component -> Seq(Object)], NEW nm, NEW r \in Sent,
           OnceInv(g, nm, r), r.frames # <<>>, r.phase = "running", r.kind = "once",
           ~(Inner(r).next <= Len(Listed(g, Inner(r))))
    PROVE  OnceInv(g, nm, LoopEnds(r))
<1>. DEFINE s == LoopEnds(r)
            n == Len(r.frames)
<1>1. /\ s \in Sent /\ s.from = r.from /\ s.target = r.target /\ s.graph = r.graph
      /\ s.seen = r.seen /\ s.asked = r.asked
      /\ \/ s.frames = Front(r.frames)
         \/ n = 1 /\ s.frames = <<>>
  BY LoopEndsIs DEF SameMessage
<1>2. /\ DOMAIN r.frames = 1..n /\ n \in Nat \ {0}
      /\ DOMAIN Front(r.frames) = 1..(n - 1)
      /\ \A i \in 1..(n - 1) : Front(r.frames)[i] = r.frames[i]
  BY LoopsOf
<1>3. \A i \in DOMAIN s.frames : i \in DOMAIN r.frames /\ s.frames[i] = r.frames[i]
  <2>1. CASE s.frames = Front(r.frames)
    BY <1>2, <2>1
  <2>2. CASE s.frames = <<>>
    BY <2>2
  <2>. QED
    BY <1>1, <2>1, <2>2
<1>4. Ahead(g, r.frames) \subseteq Ahead(g, s.frames)
  BY <1>1, AheadEnds DEF Inner
<1>. HIDE DEF s, n
<1>5. Grown(g, s) /\ SeesBelow(g, nm, s)
  BY <1>1 DEF OnceInv, Grown, SeesBelow
<1>6. LoopsBelow(g, nm, s)
  BY <1>1, <1>3 DEF OnceInv, LoopsBelow
<1>7. MissesNobody(g, nm, s)
  <2>1. /\ Heads(r.graph, nm, r.from, r.target) \subseteq r.seen \cup Ahead(g, r.frames)
        /\ \A x \in r.seen \cap Component :
               ToSet(r.graph[x]) \subseteq r.seen \cup Ahead(g, r.frames)
        /\ r.seen \cap Implementer \subseteq ToSet(r.asked)
    BY DEF OnceInv, MissesNobody, InLoop
  <2>2. r.seen \cup Ahead(g, r.frames) \subseteq r.seen \cup Ahead(g, s.frames)
    BY <1>4
  <2>3. Heads(s.graph, nm, s.from, s.target) \subseteq s.seen \cup Ahead(g, s.frames)
    BY <1>1, <2>1, <2>2
  <2>4. \A x \in s.seen \cap Component :
            ToSet(s.graph[x]) \subseteq s.seen \cup Ahead(g, s.frames)
    BY <1>1, <2>1, <2>2
  <2>5. s.seen \cap Implementer \subseteq ToSet(s.asked)
    BY <1>1, <2>1
  <2>. QED
    BY <2>3, <2>4, <2>5 DEF MissesNobody
<1>. QED
  BY <1>5, <1>6, <1>7 DEF OnceInv, s
\* A `once` that gets to an observer it has not seen, asks it when it has a
\* method, and goes into it when it has observers.
LEMMA VisitKeeps ==
    ASSUME NEW g \in [Component -> Seq(Object)], NEW nm, NEW r \in Sent,
           OnceInv(g, nm, r), InLoop(g, r),
           NEW s \in Sent, SameMessage(r, s), s.seen = r.seen \cup {AtHand(g, r)},
           \/ AtHand(g, r) \in Implementer /\ s.asked = Append(r.asked, AtHand(g, r))
           \/ AtHand(g, r) \notin Implementer /\ s.asked = r.asked,
           \/ s.phase = "raised" /\ s.frames = <<>>
           \/ AtHand(g, r) \notin Component /\ s.frames = Advanced(r).frames
           \/ /\ AtHand(g, r) \in Component
              /\ s.frames = Pushed(Advanced(r), Living(AtHand(g, r))).frames
    PROVE  OnceInv(g, nm, s)
<1>. DEFINE o == AtHand(g, r)
            q == Advanced(r)
            n == Len(q.frames)
            heads == Heads(g, nm, r.from, r.target)
<1>1. s.from = r.from /\ s.target = r.target /\ s.graph = r.graph
  BY DEF SameMessage
<1>2. /\ o \in Object
      /\ \A S \in SUBSET Object : Holds(g, heads, S) => o \in S
  BY AtHandIsBelow
<1>3. q \in Sent /\ q.frames # <<>>
  BY AdvancedIs DEF InLoop
<1>4. /\ DOMAIN q.frames = DOMAIN r.frames
      /\ \A i \in DOMAIN r.frames :
             q.frames[i].of = r.frames[i].of /\ q.frames[i].list = r.frames[i].list
  BY AdvancedLoops DEF InLoop
<1>5. Ahead(g, r.frames) \subseteq Ahead(g, q.frames) \cup {o}
  BY AheadMoves DEF InLoop, AtHand, Inner
<1>6. DOMAIN q.frames = 1..n /\ n \in Nat
  BY <1>3, LoopsOf
<1>7. /\ s.seen = r.seen \cup {o}
      /\ \/ o \in Implementer /\ s.asked = Append(r.asked, o)
         \/ o \notin Implementer /\ s.asked = r.asked
      /\ \/ s.phase = "raised" /\ s.frames = <<>>
         \/ o \notin Component /\ s.frames = q.frames
         \/ o \in Component /\ s.frames = Pushed(q, Living(o)).frames
  OBVIOUS
<1>. HIDE DEF o, q, n, heads
<1>8. Grown(g, s)
  BY <1>1 DEF OnceInv, Grown
<1>9. SeesBelow(g, nm, s)
  BY <1>1, <1>2, <1>7 DEF OnceInv, SeesBelow, heads
<1>10. LoopsBelow(g, nm, s)
  <2>1. \A i \in DOMAIN q.frames :
            IF q.frames[i].of = None THEN ToSet(q.frames[i].list) \subseteq heads
            ELSE \/ q.frames[i].of \in s.seen
                 \/ q.frames[i].of = r.from /\ r.target = None
    BY <1>4, <1>7 DEF OnceInv, LoopsBelow, heads
  <2>2. CASE s.frames = <<>>
    BY <2>2 DEF LoopsBelow
  <2>3. CASE s.frames = q.frames
    BY <1>1, <2>1, <2>3 DEF LoopsBelow, heads
  <2>4. CASE o \in Component /\ s.frames = Pushed(q, Living(o)).frames
    <3>1. Living(o) \in Frames /\ Living(o).of = o /\ o # None
      BY <1>2, <2>4, EmptySeq, ObjectAssumption DEF Living, Frames
    <3>2. /\ DOMAIN s.frames = 1..(n + 1)
          /\ \A i \in 1..n : s.frames[i] = q.frames[i]
          /\ s.frames[n + 1] = Living(o)
      BY <1>3, <2>4, <3>1, PushedIs DEF n
    <3>3. \A i \in 1..(n + 1) : i = n + 1 \/ i \in 1..n
      BY <1>6
    <3>. QED
      BY <1>1, <1>6, <1>7, <2>1, <3>1, <3>2, <3>3 DEF LoopsBelow, heads
  <2>. QED
    BY <1>7, <2>2, <2>3, <2>4
<1>11. MissesNobody(g, nm, s)
  <2>1. CASE s.phase = "raised"
    BY <2>1 DEF MissesNobody
  <2>2. CASE \/ o \notin Component /\ s.frames = q.frames
             \/ o \in Component /\ s.frames = Pushed(q, Living(o)).frames
    <3>. DEFINE rest == s.seen \cup Ahead(g, s.frames)
    <3>1. /\ Ahead(g, q.frames) \subseteq Ahead(g, s.frames)
          /\ o \in Component => ToSet(g[o]) \subseteq Ahead(g, s.frames)
      BY <1>3, <2>2, AheadPushed
    <3>2. r.seen \cup Ahead(g, r.frames) \subseteq rest
      BY <1>5, <1>7, <3>1
    <3>3. /\ Heads(r.graph, nm, r.from, r.target) \subseteq rest
          /\ \A x \in r.seen \cap Component : ToSet(r.graph[x]) \subseteq rest
      BY <3>2 DEF OnceInv, MissesNobody, InLoop
    <3>4. o \in Component => ToSet(r.graph[o]) \subseteq rest
      BY <3>1 DEF OnceInv, Grown
    <3>5. s.seen \cap Implementer \subseteq ToSet(s.asked)
      <4>1. r.seen \cap Implementer \subseteq ToSet(r.asked)
        BY DEF OnceInv, MissesNobody, InLoop
      <4>2. r.asked \in Seq(Object)
        BY DEF Sent
      <4>3. ToSet(Append(r.asked, o)) = ToSet(r.asked) \cup {o}
        BY <1>2, <4>2, AskedToo
      <4>. QED
        BY <1>7, <4>1, <4>3
    <3>. QED
      BY <1>1, <1>7, <3>3, <3>4, <3>5 DEF MissesNobody
  <2>. QED
    BY <1>7, <2>1, <2>2
<1>. QED
  BY <1>8, <1>9, <1>10, <1>11 DEF OnceInv
\* A graph that grows.
LEMMA GrowthKeeps ==
    ASSUME NEW g \in [Component -> Seq(Object)], NEW h \in [Component -> Seq(Object)],
           \A x \in Component : \A k \in DOMAIN g[x] : k \in DOMAIN h[x] /\ h[x][k] = g[x][k],
           NEW nm, NEW r \in Sent, OnceInv(g, nm, r)
    PROVE  OnceInv(h, nm, r)
<1>. DEFINE before == Heads(g, nm, r.from, r.target)
            after == Heads(h, nm, r.from, r.target)
<1>1. \A x \in Component : ToSet(g[x]) \subseteq ToSet(h[x])
  BY DEF ToSet
<1>2. r.from \in Component /\ r.frames \in Seq(Frames)
  BY DEF Sent
<1>3. before \subseteq after
  BY <1>1, <1>2 DEF Heads
<1>4. \A S \in SUBSET Object : Holds(h, after, S) => Holds(g, before, S)
  BY <1>1, <1>3 DEF Holds
<1>5. Ahead(g, r.frames) \subseteq Ahead(h, r.frames)
  BY <1>2, AheadGrows
<1>. HIDE DEF before, after
<1>6. Grown(h, r)
  BY <1>1 DEF OnceInv, Grown
<1>7. LoopsBelow(h, nm, r)
  BY <1>3 DEF OnceInv, LoopsBelow, before, after
<1>8. SeesBelow(h, nm, r)
  BY <1>4 DEF OnceInv, SeesBelow, before, after
<1>9. MissesNobody(h, nm, r)
  BY <1>5 DEF OnceInv, MissesNobody
<1>. QED
  BY <1>6, <1>7, <1>8, <1>9 DEF OnceInv

\* A `once` that begins has everybody it is sent to before it.
LEMMA BeginKeeps ==
    ASSUME NEW g \in [Component -> Seq(Object)], NEW nm, NEW r \in Sent,
           r.graph = g, r.seen = {}, NEW f \in Frames, f.next = 1, r.frames = <<f>>,
           \/ f.of = None /\ ToSet(f.list) = Heads(g, nm, r.from, r.target)
           \/ f.of = r.from /\ r.target = None
    PROVE  OnceInv(g, nm, r)
<1>1. DOMAIN r.frames = {1} /\ r.frames[1] = f
  OBVIOUS
<1>2. r.from \in Component /\ r.from # None
  BY ObjectAssumption DEF Sent
<1>3. Heads(g, nm, r.from, r.target) \subseteq ToSet(Listed(g, f))
  BY <1>2 DEF Listed, Heads
<1>4. ToSet(Listed(g, f)) \subseteq Ahead(g, r.frames)
  <2>1. /\ DOMAIN Listed(g, f) = 1..Len(Listed(g, f))
        /\ \A k \in 1..Len(Listed(g, f)) : Listed(g, f)[k] \in Object /\ k >= f.next
    BY ListedIs
  <2>2. ASSUME NEW k \in DOMAIN Listed(g, f)
        PROVE  Listed(g, f)[k] \in Ahead(g, r.frames)
    <3>1. 1 \in DOMAIN r.frames /\ r.frames[1] = f
      BY <1>1
    <3>2. k >= f.next /\ Listed(g, f)[k] \in Object
      BY <2>1
    <3>. QED
      BY <3>1, <3>2 DEF Ahead
  <2>. QED
    BY <2>2 DEF ToSet
<1>5. Grown(g, r) /\ SeesBelow(g, nm, r)
  BY DEF Grown, SeesBelow
<1>6. LoopsBelow(g, nm, r)
  BY <1>1, <1>2 DEF LoopsBelow
<1>7. MissesNobody(g, nm, r)
  BY <1>3, <1>4 DEF MissesNobody
<1>. QED
  BY <1>5, <1>6, <1>7 DEF OnceInv

\* The sets of which Below is the least.
LEMMA ClosedIs ==
    ASSUME NEW g \in [Component -> Seq(Object)], NEW c \in Component,
           NEW target \in Targets, NEW S
    PROVE  S \in Closed(g, c, target) <=>
               S \in SUBSET Object /\ Holds(g, Heads(g, name, c, target), S)
<1>. DEFINE heads == Heads(g, name, c, target)
<1>1. heads = {o \in ToSet(g[c]) : Named(o, target)}
  BY DEF Heads, Named
<1>2. heads \subseteq Object
  BY ElementOfSeq, LenProperties DEF Heads, ToSet
<1>. HIDE DEF heads
<1>3. Closed(g, c, target) =
          {T \in {heads \cup others : others \in SUBSET (Object \ heads)} :
              \A x \in T \cap Component : \A i \in DOMAIN g[x] : g[x][i] \in T}
  BY <1>1 DEF Closed
<1>4. S \in {heads \cup others : others \in SUBSET (Object \ heads)} <=>
          S \in SUBSET Object /\ heads \subseteq S
  <2>1. ASSUME S \in SUBSET Object, heads \subseteq S
        PROVE  S \in {heads \cup others : others \in SUBSET (Object \ heads)}
    <3>1. S = heads \cup (S \ heads) /\ S \ heads \in SUBSET (Object \ heads)
      BY <2>1
    <3>. QED
      BY <3>1
  <2>. QED
    BY <1>2, <2>1
<1>5. (\A x \in S \cap Component : \A i \in DOMAIN g[x] : g[x][i] \in S) <=>
          \A x \in S \cap Component : ToSet(g[x]) \subseteq S
  BY DEF ToSet
<1>. QED
  BY <1>3, <1>4, <1>5 DEF Holds, heads

\* What the invariant of a `once` says of whom it asks.
LEMMA OnceInvMeans ==
    ASSUME TypeOK, NEW r \in Sent, WellAsked(r), OnceInv(observers, name, r),
           r.phase = "running" <=> r.frames # <<>>
    PROVE  /\ ToSet(r.asked) \subseteq Below(observers, r.from, r.target)
           /\ r.phase = "delivered" =>
                  Implementer \cap Below(r.graph, r.from, r.target) \subseteq ToSet(r.asked)
<1>1. /\ r.from \in Component /\ r.target \in Targets /\ r.seen \in SUBSET Object
      /\ r.graph \in [Component -> Seq(Object)]
      /\ observers \in [Component -> Seq(Object)]
  BY DEF Sent, TypeOK
<1>2. ToSet(r.asked) \subseteq Below(observers, r.from, r.target)
  <2>1. \A S \in Closed(observers, r.from, r.target) : r.seen \subseteq S
    BY <1>1, ClosedIs DEF OnceInv, SeesBelow
  <2>. QED
    BY <1>1, <2>1 DEF Below, WellAsked
<1>3. ASSUME r.phase = "delivered"
      PROVE  Implementer \cap Below(r.graph, r.from, r.target) \subseteq ToSet(r.asked)
  <2>1. r.frames = <<>>
    BY <1>3
  <2>2. Ahead(observers, r.frames) = {}
    BY <2>1 DEF Ahead
  <2>3. Holds(r.graph, Heads(r.graph, name, r.from, r.target), r.seen)
    BY <1>3, <2>2 DEF OnceInv, MissesNobody, Holds
  <2>4. r.seen \in Closed(r.graph, r.from, r.target)
    BY <1>1, <2>3, ClosedIs
  <2>5. Below(r.graph, r.from, r.target) \subseteq r.seen
    BY <2>4 DEF Below
  <2>. QED
    BY <1>3, <2>5 DEF OnceInv, MissesNobody
<1>. QED
  BY <1>2, <1>3
----------------------------------------------------------------------------
(* The actions.                                                               *)

\* Idle is not a delivery of a message.
LEMMA IdleIsNot == Idle \notin Sent /\ Idle.phase # "running"
BY DEF Idle, Sent, Phases

\* A delivery that goes on, the loop it is in and the observer it gets to.
LEMMA GoesIs ==
    ASSUME Inv, NEW d \in 1..Deliveries, Goes(d)
    PROVE  /\ delivery[d] \in Sent /\ delivery[d].phase = "running"
           /\ delivery[d].frames # <<>>
           /\ DeliveryInv(observers, name, renamed, delivery[d])
           /\ Members(Loop(d)) = Listed(observers, Inner(delivery[d]))
           /\ More(d) => /\ InLoop(observers, delivery[d])
                         /\ Member(d) = AtHand(observers, delivery[d])
                         /\ Member(d) \in Object
                         /\ delivery[d].kind # "once" =>
                                Member(d) \in Implementer \cup Transparent
<1>. DEFINE r == delivery[d]
            f == Inner(r)
<1>1. r \in {Idle} \cup Sent /\ r.phase = "running"
  BY DEF Inv, TypeOK, Goes
<1>2. r # Idle
  BY <1>1, IdleIsNot
<1>3. r \in Sent /\ DeliveryInv(observers, name, renamed, r)
  BY <1>1, <1>2 DEF Inv, DeliveriesInv
<1>4. r.frames # <<>>
  BY <1>1, <1>3 DEF DeliveryInv, Delivered
<1>5. /\ f \in Frames /\ Len(r.frames) \in DOMAIN r.frames
      /\ f = r.frames[Len(r.frames)]
  BY <1>3, <1>4, LoopsOf DEF Inner
<1>6. Members(Loop(d)) = Listed(observers, f) /\ Loop(d) = f
  BY DEF Members, Loop, Listed, Inner
<1>. HIDE DEF r, f
<1>7. ASSUME More(d)
      PROVE  /\ InLoop(observers, r)
             /\ Member(d) = AtHand(observers, r)
             /\ Member(d) \in Object
             /\ r.kind # "once" => Member(d) \in Implementer \cup Transparent
  <2>1. f.next <= Len(Listed(observers, f)) /\ Member(d) = Listed(observers, f)[f.next]
    BY <1>6, <1>7 DEF More, Member
  <2>2. f.next \in 1..Len(Listed(observers, f)) /\ Member(d) \in Object
    <3>1. observers \in [Component -> Seq(Object)]
      BY DEF Inv, TypeOK
    <3>. QED
      BY <1>5, <2>1, <3>1, ListedIs
  <2>3. ASSUME r.kind # "once" PROVE Member(d) \in Implementer \cup Transparent
    <3>1. f.of = None /\ ToSet(f.list) \subseteq Implementer \cup Transparent
      BY <1>3, <1>5, <2>3 DEF DeliveryInv, Delivered
    <3>2. Listed(observers, f) = f.list /\ f.list \in Seq(Object)
      BY <1>5, <3>1 DEF Listed, Frames
    <3>3. f.next \in DOMAIN f.list
      BY <2>2, <3>2, LenProperties
    <3>. QED
      BY <2>1, <3>1, <3>2, <3>3 DEF ToSet
  <2>. QED
    BY <1>1, <1>4, <2>1, <2>2, <2>3 DEF InLoop, AtHand, f
<1>. QED
  BY <1>1, <1>3, <1>4, <1>6, <1>7 DEF r, f

\* The synchronous deliveries when the innermost is over.
LEMMA StackIs ==
    ASSUME TypeOK
    PROVE  Front(stack) \in Seq(1..Deliveries)
<1>. DEFINE n == Len(stack) - 1
<1>1. stack \in Seq(1..Deliveries) /\ Len(stack) \in Nat
  BY LenProperties DEF TypeOK
<1>2. n \in Int /\ \A i \in 1..n : stack[i] \in 1..Deliveries
  <2>1. \A i \in 1..Len(stack) : stack[i] \in 1..Deliveries
    BY <1>1, ElementOfSeq
  <2>2. n \in Int /\ \A i \in 1..n : i \in 1..Len(stack)
    BY <1>1
  <2>. QED
    BY <2>1, <2>2
<1>3. Front(stack) = SubSeq(stack, 1, n)
  BY DEF Front
<1>. HIDE DEF n
<1>. QED
  BY <1>2, <1>3, SubSeqProperties

\* A delivery takes a step.
LEMMA BecomesKeeps ==
    ASSUME Inv, NEW d \in 1..Deliveries, NEW r, Becomes(d, r),
           DeliveryInv(observers, name, renamed, r),
           CacheInv(observers, name, renamed, cache')
    PROVE  Inv'
<1>1. /\ observers' = observers /\ name' = name /\ renamed' = renamed
      /\ changes' = changes /\ delivery' = [delivery EXCEPT ![d] = r]
  BY DEF Becomes
<1>2. delivery \in [1..Deliveries -> {Idle} \cup Sent] /\ r \in Sent
  BY DEF Inv, TypeOK, DeliveryInv, Delivered
<1>3. delivery' \in [1..Deliveries -> {Idle} \cup Sent]
  BY <1>1, <1>2
<1>4. stack' \in Seq(1..Deliveries)
  BY StackIs DEF Becomes, Inv, TypeOK
<1>5. TypeOK'
  BY <1>1, <1>3, <1>4 DEF Inv, TypeOK
<1>6. DeliveriesInv'
  <2>1. SUFFICES ASSUME NEW e \in 1..Deliveries, delivery'[e] # Idle
        PROVE  DeliveryInv(observers, name, renamed, delivery'[e])
    BY <1>1 DEF DeliveriesInv
  <2>2. CASE e = d
    BY <1>1, <1>2, <2>2
  <2>3. CASE e # d
    BY <1>1, <1>2, <2>1, <2>3 DEF Inv, DeliveriesInv
  <2>. QED
    BY <2>2, <2>3
<1>. QED
  BY <1>1, <1>5, <1>6 DEF Inv
\* A message of another kind goes on in loops it had, or in one more.
LEMMA OtherLoops ==
    ASSUME NEW r, Delivered(r), r.kind # "once", NEW s \in Sent, SameMessage(r, s),
           s.phase = "running" <=> s.frames # <<>>,
           \A i \in DOMAIN s.frames :
               \/ /\ i \in DOMAIN r.frames
                  /\ s.frames[i].of = r.frames[i].of /\ s.frames[i].list = r.frames[i].list
               \/ /\ s.frames[i].of = None
                  /\ ToSet(s.frames[i].list) \subseteq Implementer \cup Transparent
    PROVE  DeliveryInv(observers, name, renamed, s)
<1>1. s.kind # "once"
  BY DEF SameMessage
<1>2. ASSUME NEW i \in DOMAIN s.frames
      PROVE  /\ s.frames[i].of = None
             /\ ToSet(s.frames[i].list) \subseteq Implementer \cup Transparent
  BY DEF Delivered
<1>3. Delivered(s)
  BY <1>2 DEF Delivered
<1>. QED
  BY <1>1, <1>3 DEF DeliveryInv

\* all, do, any and call ask an observer.
LEMMA AskKeeps ==
    ASSUME Inv, NEW d \in 1..Deliveries, NEW how \in Answers, Ask(d, how)
    PROVE  Inv'
<1>. DEFINE r == delivery[d]
            q == Advanced(r)
            o == Member(d)
            s == Answered(q, o, how)
<1>1. /\ Goes(d) /\ More(d) /\ r.kind # "once" /\ Becomes(d, s) /\ cache' = cache
  BY DEF Ask
<1>2. /\ r \in Sent /\ r.phase = "running" /\ r.frames # <<>> /\ Delivered(r) /\ o \in Object
  BY <1>1, GoesIs DEF DeliveryInv
<1>3. /\ q \in Sent /\ SameMessage(r, q) /\ q.frames # <<>> /\ q.phase = "running"
      /\ DOMAIN q.frames = DOMAIN r.frames
      /\ \A i \in DOMAIN r.frames :
             q.frames[i].of = r.frames[i].of /\ q.frames[i].list = r.frames[i].list
  BY <1>2, AdvancedIs, AdvancedLoops
<1>. HIDE DEF q, o, r
<1>4. /\ s \in Sent /\ SameMessage(q, s)
      /\ \/ s.phase = "running" /\ s.frames = q.frames
         \/ s.phase = "running" /\ s.frames = Front(q.frames) /\ s.frames # <<>>
         \/ s.phase # "running" /\ s.frames = <<>>
  BY <1>2, <1>3, AnsweredIs
<1>. HIDE DEF s
<1>5. /\ DOMAIN q.frames = 1..Len(q.frames) /\ Len(q.frames) \in Nat
      /\ DOMAIN Front(q.frames) = 1..(Len(q.frames) - 1)
      /\ \A i \in 1..(Len(q.frames) - 1) : Front(q.frames)[i] = q.frames[i]
  BY <1>3, LoopsOf
<1>6. \A i \in DOMAIN s.frames : i \in DOMAIN q.frames /\ s.frames[i] = q.frames[i]
  <2>1. CASE s.frames = q.frames
    BY <2>1
  <2>2. CASE s.frames = Front(q.frames)
    BY <1>5, <2>2
  <2>3. CASE s.frames = <<>>
    BY <2>3
  <2>. QED
    BY <1>4, <2>1, <2>2, <2>3
<1>7. /\ SameMessage(r, s)
      /\ s.phase = "running" <=> s.frames # <<>>
  BY <1>3, <1>4 DEF SameMessage
<1>8. DeliveryInv(observers, name, renamed, s)
  BY <1>1, <1>2, <1>3, <1>4, <1>6, <1>7, OtherLoops
<1>. QED
  BY <1>1, <1>8, BecomesKeeps DEF Inv

\* or send it on to the observers of a Transparent.
LEMMA PassOnKeeps ==
    ASSUME Inv, NEW d \in 1..Deliveries, PassOn(d)
    PROVE  Inv'
<1>. DEFINE r == delivery[d]
            q == Advanced(r)
            o == Member(d)
            list == Lookup(o, r.kind, None)
            s == Pushed(q, Fixed(list))
            n == Len(q.frames)
<1>1. /\ Goes(d) /\ More(d) /\ r.kind # "once" /\ Becomes(d, s)
      /\ Remember(o, r.kind, None) /\ o \notin Implementer
  BY DEF PassOn
<1>2. /\ r \in Sent /\ r.phase = "running" /\ r.frames # <<>> /\ Delivered(r)
      /\ o \in Implementer \cup Transparent
  BY <1>1, GoesIs DEF DeliveryInv
<1>3. o \in Component /\ r.kind \in Kinds /\ None \in Targets
  BY <1>1, <1>2, ObjectAssumption DEF Sent, Targets
<1>4. /\ q \in Sent /\ SameMessage(r, q) /\ q.phase = "running" /\ q.frames # <<>>
      /\ DOMAIN q.frames = DOMAIN r.frames
      /\ \A i \in DOMAIN r.frames :
             q.frames[i].of = r.frames[i].of /\ q.frames[i].list = r.frames[i].list
  BY <1>2, AdvancedIs, AdvancedLoops
<1>5. /\ list \in Seq(Object) /\ ToSet(list) \subseteq Implementer \cup Transparent
  BY <1>1, <1>3, LookupIs DEF Inv
<1>. HIDE DEF q, r, o, list
<1>6. Fixed(list) \in Frames /\ Fixed(list).of = None /\ Fixed(list).list = list
  BY <1>5 DEF Fixed, Frames
<1>7. /\ s \in Sent /\ SameMessage(q, s) /\ s.frames # <<>> /\ s.phase = q.phase
      /\ DOMAIN s.frames = 1..(n + 1) /\ n \in Nat
      /\ \A i \in 1..n : s.frames[i] = q.frames[i]
      /\ s.frames[n + 1] = Fixed(list)
  BY <1>4, <1>6, PushedIs
<1>8. DOMAIN q.frames = 1..n
  BY <1>4, LoopsOf
<1>9. \A i \in 1..(n + 1) : i = n + 1 \/ i \in 1..n
  BY <1>7
<1>. HIDE DEF s, n
<1>10. /\ SameMessage(r, s)
       /\ s.phase = "running" <=> s.frames # <<>>
  BY <1>4, <1>7 DEF SameMessage
<1>11. ASSUME NEW i \in DOMAIN s.frames
       PROVE  \/ /\ i \in DOMAIN r.frames
                 /\ s.frames[i].of = r.frames[i].of /\ s.frames[i].list = r.frames[i].list
              \/ /\ s.frames[i].of = None
                 /\ ToSet(s.frames[i].list) \subseteq Implementer \cup Transparent
  BY <1>4, <1>5, <1>6, <1>7, <1>8, <1>9
<1>12. DeliveryInv(observers, name, renamed, s)
  BY <1>1, <1>2, <1>7, <1>10, <1>11, OtherLoops
<1>13. CacheInv(observers, name, renamed, cache')
  BY <1>1, <1>3, RememberKeeps DEF Inv
<1>. QED
  BY <1>1, <1>12, <1>13, BecomesKeeps
\* An observer is marked as seen.
LEMMA MarkedIs ==
    ASSUME NEW r \in Sent, NEW o \in Object
    PROVE  LET s == [r EXCEPT !.seen = @ \cup {o}] IN
           /\ s \in Sent /\ SameMessage(r, s) /\ s.frames = r.frames
           /\ s.seen = r.seen \cup {o} /\ s.asked = r.asked /\ s.phase = r.phase
<1>. DEFINE seen == r.seen \cup {o}
<1>1. seen \in SUBSET Object
  BY DEF Sent
<1>2. [r EXCEPT !.seen = @ \cup {o}] = [r EXCEPT !.seen = seen]
  OBVIOUS
<1>. HIDE DEF seen
<1>3. LET s == [r EXCEPT !.seen = seen] IN
      /\ s \in Sent /\ SameMessage(r, s) /\ s.frames = r.frames
      /\ s.seen = seen /\ s.asked = r.asked /\ s.phase = r.phase
  BY <1>1 DEF Sent, SameMessage
<1>. QED
  BY <1>2, <1>3 DEF seen

\* An observer with observers of its own is gone into.
LEMMA EnteredIs ==
    ASSUME NEW r \in Sent, NEW o \in Object,
           r.phase = "running" <=> r.frames # <<>>
    PROVE  LET s == Entered(r, o) IN
           /\ s \in Sent /\ SameMessage(r, s) /\ s.seen = r.seen /\ s.asked = r.asked
           /\ s.phase = "running" <=> s.frames # <<>>
           /\ \/ r.phase # "running" /\ s.phase = r.phase /\ s.frames = r.frames
              \/ r.phase = "running" /\ o \notin Component /\ s.frames = r.frames
              \/ r.phase = "running" /\ o \in Component
                 /\ s.frames = Append(r.frames, Living(o))
<1>1. CASE r.phase = "running" /\ o \in Component
  <2>1. Entered(r, o) = Pushed(r, Living(o))
    BY <1>1 DEF Entered
  <2>2. Living(o) \in Frames
    BY <1>1, EmptySeq DEF Living, Frames
  <2>3. Pushed(r, Living(o)).frames = Append(r.frames, Living(o))
    BY DEF Pushed, Sent
  <2>4. /\ Pushed(r, Living(o)) \in Sent /\ SameMessage(r, Pushed(r, Living(o)))
        /\ Pushed(r, Living(o)).frames # <<>>
        /\ Pushed(r, Living(o)).seen = r.seen /\ Pushed(r, Living(o)).asked = r.asked
        /\ Pushed(r, Living(o)).phase = r.phase
    BY <2>2, PushedIs
  <2>. QED
    BY <1>1, <2>1, <2>3, <2>4
<1>2. CASE ~(r.phase = "running" /\ o \in Component)
  <2>1. Entered(r, o) = r
    BY <1>2 DEF Entered
  <2>. QED
    BY <1>2, <2>1 DEF SameMessage
<1>. QED
  BY <1>1, <1>2

\* once: asks an observer it has not seen, when it has a method, and goes into it.
LEMMA VisitKeepsInv ==
    ASSUME Inv, NEW d \in 1..Deliveries, NEW how \in Answers, Visit(d, how)
    PROVE  Inv'
<1>. DEFINE r == delivery[d]
            q == Advanced(r)
            o == Member(d)
            m == [q EXCEPT !.seen = @ \cup {o}]
<1>1. /\ Goes(d) /\ More(d) /\ r.kind = "once" /\ o \notin r.seen /\ cache' = cache
      /\ \/ o \in Implementer /\ Becomes(d, Entered(Answered(m, o, how), o))
         \/ o \notin Implementer /\ Becomes(d, Entered(m, o))
  BY DEF Visit
<1>2. /\ r \in Sent /\ r.phase = "running" /\ r.frames # <<>> /\ WellAsked(r)
      /\ (r.target # None => ~renamed) => OnceInv(observers, name, r)
      /\ InLoop(observers, r) /\ o = AtHand(observers, r) /\ o \in Object
  BY <1>1, GoesIs DEF DeliveryInv
<1>3. /\ q \in Sent /\ SameMessage(r, q) /\ q.frames # <<>>
      /\ q.seen = r.seen /\ q.asked = r.asked /\ q.phase = "running"
  BY <1>2, AdvancedIs
<1>. HIDE DEF q, o, r
<1>4. /\ m \in Sent /\ SameMessage(q, m) /\ m.frames = q.frames
      /\ m.seen = r.seen \cup {o} /\ m.asked = r.asked /\ m.phase = "running"
  BY <1>2, <1>3, MarkedIs
<1>. HIDE DEF m
<1>5. SameMessage(r, m) /\ m.kind = "once"
  BY <1>1, <1>3, <1>4 DEF SameMessage
<1>6. observers \in [Component -> Seq(Object)]
  BY DEF Inv, TypeOK
\* What it is after the answer, t, and when it went into the observer, s.
<1>7. ASSUME NEW t \in Sent, SameMessage(r, t), t.seen = m.seen,
             \/ t.phase = "running" /\ t.frames = q.frames
             \/ t.phase = "raised" /\ t.frames = <<>>,
             \/ o \in Implementer /\ t.asked = Append(r.asked, o)
             \/ o \notin Implementer /\ t.asked = r.asked,
             Becomes(d, Entered(t, o))
      PROVE  Inv'
  <2>. DEFINE s == Entered(t, o)
  <2>1. /\ s \in Sent /\ SameMessage(t, s) /\ s.seen = t.seen /\ s.asked = t.asked
        /\ s.phase = "running" <=> s.frames # <<>>
        /\ \/ t.phase # "running" /\ s.phase = t.phase /\ s.frames = t.frames
           \/ t.phase = "running" /\ o \notin Component /\ s.frames = t.frames
           \/ t.phase = "running" /\ o \in Component
              /\ s.frames = Append(t.frames, Living(o))
    BY <1>2, <1>3, <1>7, EnteredIs
  <2>. HIDE DEF s
  <2>2. SameMessage(r, s) /\ s.kind = "once"
    BY <1>1, <1>7, <2>1 DEF SameMessage
  <2>3. s.seen = r.seen \cup {o}
    BY <1>4, <1>7, <2>1
  <2>4. Pushed(q, Living(o)).frames = Append(q.frames, Living(o))
    BY <1>3 DEF Pushed, Sent
  <2>5. \/ s.phase = "raised" /\ s.frames = <<>>
        \/ o \notin Component /\ s.frames = q.frames
        \/ o \in Component /\ s.frames = Pushed(q, Living(o)).frames
    BY <1>7, <2>1, <2>4
  <2>6. Delivered(s)
    BY <2>1, <2>2 DEF Delivered
  <2>7. WellAsked(s)
    <3>1. r.asked \in Seq(Object) /\ o \notin ToSet(r.asked)
      BY <1>1, <1>2 DEF WellAsked, Sent
    <3>2. /\ ToSet(Append(r.asked, o)) = ToSet(r.asked) \cup {o}
          /\ IsInjective(r.asked) => IsInjective(Append(r.asked, o))
      BY <1>2, <3>1, AskedToo
    <3>. QED
      BY <1>2, <1>7, <2>1, <2>3, <3>2 DEF WellAsked
  <2>8. ASSUME r.target # None => ~renamed
        PROVE  OnceInv(observers, name, s)
    BY <1>2, <1>6, <1>7, <2>1, <2>2, <2>3, <2>5, <2>8, VisitKeeps DEF q
  <2>9. s.target = r.target
    BY <2>2 DEF SameMessage
  <2>10. DeliveryInv(observers, name, renamed, s)
    BY <2>2, <2>6, <2>7, <2>8, <2>9 DEF DeliveryInv
  <2>. QED
    BY <1>1, <1>7, <2>10, BecomesKeeps DEF Inv, s
<1>8. CASE o \in Implementer /\ Becomes(d, Entered(Answered(m, o, how), o))
  <2>. DEFINE t == Answered(m, o, how)
  <2>1. /\ t \in Sent /\ SameMessage(m, t) /\ t.seen = m.seen /\ t.asked = Append(m.asked, o)
        /\ \/ t.phase = "running" /\ t.frames = m.frames
           \/ t.phase = "raised" /\ t.frames = <<>>
    BY <1>2, <1>3, <1>4, <1>5, AnsweredIs
  <2>. HIDE DEF t
  <2>2. SameMessage(r, t)
    BY <1>5, <2>1 DEF SameMessage
  <2>. QED
    BY <1>4, <1>7, <1>8, <2>1, <2>2 DEF t
<1>9. CASE o \notin Implementer /\ Becomes(d, Entered(m, o))
  BY <1>4, <1>5, <1>7, <1>9
<1>. QED
  BY <1>1, <1>8, <1>9

\* once: goes by an observer it has seen.
LEMMA SkipKeepsInv ==
    ASSUME Inv, NEW d \in 1..Deliveries, Skip(d)
    PROVE  Inv'
<1>. DEFINE r == delivery[d]
            s == Advanced(r)
<1>1. /\ Goes(d) /\ More(d) /\ r.kind = "once" /\ Member(d) \in r.seen /\ cache' = cache
      /\ Becomes(d, s)
  BY DEF Skip, SkipsIt
<1>2. /\ r \in Sent /\ r.phase = "running" /\ r.frames # <<>> /\ WellAsked(r)
      /\ (r.target # None => ~renamed) => OnceInv(observers, name, r)
      /\ InLoop(observers, r) /\ Member(d) = AtHand(observers, r)
  BY <1>1, GoesIs DEF DeliveryInv
<1>3. /\ s \in Sent /\ SameMessage(r, s) /\ s.frames # <<>>
      /\ s.seen = r.seen /\ s.asked = r.asked /\ s.phase = "running"
  BY <1>2, AdvancedIs
<1>4. observers \in [Component -> Seq(Object)]
  BY DEF Inv, TypeOK
<1>. HIDE DEF r
<1>5. (r.target # None => ~renamed) => OnceInv(observers, name, s)
  BY <1>1, <1>2, <1>4, SkipKeeps
<1>. HIDE DEF s
<1>6. s.target = r.target /\ s.kind = "once"
  BY <1>1, <1>3 DEF SameMessage
<1>7. Delivered(s) /\ WellAsked(s)
  BY <1>2, <1>3, <1>6 DEF Delivered, WellAsked
<1>8. DeliveryInv(observers, name, renamed, s)
  BY <1>5, <1>6, <1>7 DEF DeliveryInv
<1>. QED
  BY <1>1, <1>8, BecomesKeeps DEF Inv

\* A loop is over.
LEMMA LoopOverKeeps ==
    ASSUME Inv, NEW d \in 1..Deliveries, LoopOver(d)
    PROVE  Inv'
<1>. DEFINE r == delivery[d]
            s == LoopEnds(r)
            n == Len(r.frames)
<1>1. Goes(d) /\ ~More(d) /\ cache' = cache /\ Becomes(d, s)
  BY DEF LoopOver
<1>2. /\ r \in Sent /\ r.phase = "running" /\ r.frames # <<>>
      /\ DeliveryInv(observers, name, renamed, r)
      /\ ~(Inner(r).next <= Len(Listed(observers, Inner(r))))
  <2>1. Loop(d) = Inner(r)
    BY DEF Loop, Inner
  <2>2. Members(Loop(d)) = Listed(observers, Inner(r))
    BY <1>1, GoesIs
  <2>. QED
    BY <1>1, <2>1, <2>2, GoesIs DEF More
<1>3. /\ s \in Sent /\ SameMessage(r, s) /\ s.seen = r.seen /\ s.asked = r.asked
      /\ s.phase = "running" <=> s.frames # <<>>
      /\ s.frames = Front(r.frames) \/ s.frames = <<>>
  BY <1>2, LoopEndsIs
<1>4. observers \in [Component -> Seq(Object)]
  BY DEF Inv, TypeOK
<1>5. /\ DOMAIN r.frames = 1..n /\ n \in Nat \ {0}
      /\ DOMAIN Front(r.frames) = 1..(n - 1)
      /\ \A i \in 1..(n - 1) : Front(r.frames)[i] = r.frames[i]
  BY <1>2, LoopsOf
<1>. HIDE DEF r
<1>6. r.kind = "once" /\ (r.target # None => ~renamed) => OnceInv(observers, name, s)
  BY <1>2, <1>4, LoopEndKeeps DEF DeliveryInv
<1>. HIDE DEF s
<1>7. s.target = r.target /\ s.kind = r.kind
  BY <1>3 DEF SameMessage
<1>8. \A i \in DOMAIN s.frames : i \in DOMAIN r.frames /\ s.frames[i] = r.frames[i]
  <2>1. CASE s.frames = Front(r.frames)
    BY <1>5, <2>1
  <2>2. CASE s.frames = <<>>
    BY <2>2
  <2>. QED
    BY <1>3, <2>1, <2>2
<1>9. CASE r.kind = "once"
  <2>1. Delivered(s) /\ WellAsked(s)
    BY <1>2, <1>3, <1>7, <1>9 DEF Delivered, WellAsked, DeliveryInv
  <2>2. DeliveryInv(observers, name, renamed, s)
    BY <1>6, <1>7, <1>9, <2>1 DEF DeliveryInv
  <2>. QED
    BY <1>1, <2>2, BecomesKeeps DEF Inv
<1>10. CASE r.kind # "once"
  <2>1. DeliveryInv(observers, name, renamed, s)
    BY <1>2, <1>3, <1>8, <1>10, OtherLoops DEF DeliveryInv
  <2>. QED
    BY <1>1, <2>1, BecomesKeeps DEF Inv
<1>. QED
  BY <1>9, <1>10
\* A component sends a message.
LEMMA SendKeeps ==
    ASSUME Inv, NEW d \in 1..Deliveries, NEW kind \in Kinds, NEW c \in Senders,
           NEW target \in Targets, Send(d, kind, c, target)
    PROVE  Inv'
<1>. DEFINE list == Lookup(c, kind, target)
            f == IF kind = "once" /\ target = None THEN Living(c) ELSE Fixed(list)
            r == [phase |-> "running", kind |-> kind, from |-> c, target |-> target,
                  frames |-> <<f>>, seen |-> {}, asked |-> <<>>, passed |-> FALSE,
                  graph |-> observers]
<1>1. /\ TypeOK /\ CacheInv(observers, name, renamed, cache) /\ DeliveriesInv
      /\ c \in Component /\ observers \in [Component -> Seq(Object)]
  BY ObjectAssumption DEF Inv, TypeOK
<1>2. /\ delivery' = [delivery EXCEPT ![d] = r] /\ Remember(c, kind, target)
      /\ stack' = IF kind \in Synchronous THEN Append(stack, d) ELSE stack
      /\ observers' = observers /\ name' = name /\ renamed' = renamed /\ changes' = changes
  BY DEF Send, Begins, Begun
<1>3. /\ list \in Seq(Object)
      /\ kind # "once" => ToSet(list) \subseteq Implementer \cup Transparent
      /\ target = None \/ ~renamed => list = FoundIn(observers[c], name, kind, target)
  BY <1>1, LookupIs
<1>4. kind = "once" => Heads(observers, name, c, target)
                           = ToSet(FoundIn(observers[c], name, kind, target))
  <2>1. /\ ToSet(FoundIn(observers[c], name, kind, target))
               \subseteq Heads(observers, name, c, target)
        /\ kind = "once" => Heads(observers, name, c, target)
               \subseteq ToSet(FoundIn(observers[c], name, kind, target))
    BY <1>1, FoundIs
  <2>. QED
    BY <2>1
<1>. HIDE DEF list
<1>5. /\ f \in Frames /\ f.next = 1
      /\ \/ kind = "once" /\ target = None /\ f.of = c
         \/ ~(kind = "once" /\ target = None) /\ f.of = None /\ f.list = list
  BY <1>1, <1>3, EmptySeq DEF Living, Fixed, Frames
<1>. HIDE DEF f
<1>6. <<f>> \in Seq(Frames) /\ DOMAIN <<f>> = {1} /\ <<f>>[1] = f /\ <<f>> # <<>>
  BY <1>5
<1>7. r \in Sent
  <2>1. <<>> \in Seq(Object) /\ "running" \in Phases
    BY EmptySeq DEF Phases
  <2>. QED
    BY <1>1, <1>6, <2>1 DEF Sent
<1>8. /\ r.phase = "running" /\ r.kind = kind /\ r.from = c /\ r.target = target
      /\ r.frames = <<f>> /\ r.seen = {} /\ r.asked = <<>> /\ r.graph = observers
  OBVIOUS
<1>. HIDE DEF r
<1>9. Delivered(r)
  BY <1>3, <1>5, <1>6, <1>7, <1>8 DEF Delivered
<1>10. WellAsked(r)
  BY <1>8 DEF WellAsked, ToSet, IsInjective
<1>11. ASSUME kind = "once", target # None => ~renamed
       PROVE  OnceInv(observers, name, r)
  <2>1. \/ f.of = None /\ ToSet(f.list) = Heads(observers, name, r.from, r.target)
        \/ f.of = r.from /\ r.target = None
    BY <1>3, <1>4, <1>5, <1>8, <1>11
  <2>. QED
    BY <1>1, <1>5, <1>7, <1>8, <2>1, BeginKeeps
<1>12. DeliveryInv(observers, name, renamed, r)
  BY <1>8, <1>9, <1>10, <1>11 DEF DeliveryInv
<1>13. CacheInv(observers, name, renamed, cache')
  BY <1>1, <1>2, RememberKeeps
<1>14. delivery \in [1..Deliveries -> {Idle} \cup Sent]
  BY <1>1 DEF TypeOK
<1>15. TypeOK'
  <2>1. stack' \in Seq(1..Deliveries)
    BY <1>1, <1>2, AppendProperties DEF TypeOK
  <2>2. delivery' \in [1..Deliveries -> {Idle} \cup Sent]
    BY <1>2, <1>7, <1>14
  <2>. QED
    BY <1>1, <1>2, <2>1, <2>2 DEF TypeOK
<1>16. DeliveriesInv'
  <2>1. SUFFICES ASSUME NEW e \in 1..Deliveries, delivery'[e] # Idle
        PROVE  DeliveryInv(observers, name, renamed, delivery'[e])
    BY <1>2 DEF DeliveriesInv
  <2>2. CASE e = d
    BY <1>2, <1>12, <1>14, <2>2
  <2>3. CASE e # d
    BY <1>1, <1>2, <1>14, <2>1, <2>3 DEF DeliveriesInv
  <2>. QED
    BY <2>2, <2>3
<1>. QED
  BY <1>2, <1>13, <1>15, <1>16 DEF Inv

\* A component gets an observer, and forgets what it found.
LEMMA AddObserverKeeps ==
    ASSUME Inv, NEW c \in Component, NEW o \in Object, AddObserver(c, o)
    PROVE  Inv'
<1>1. /\ TypeOK /\ CacheInv(observers, name, renamed, cache) /\ DeliveriesInv
      /\ observers \in [Component -> Seq(Object)]
  BY DEF Inv, TypeOK
<1>2. /\ observers' = [observers EXCEPT ![c] = Append(@, o)]
      /\ cache' = [key \in {k \in DOMAIN cache : k[1] # c} |-> cache[key]]
      /\ name' = name /\ renamed' = renamed /\ delivery' = delivery /\ stack' = stack
      /\ changes < MaxChanges /\ changes' = changes + 1
  BY DEF AddObserver, Forget
<1>3. observers' \in [Component -> Seq(Object)]
  BY <1>1, <1>2, AppendProperties
<1>4. \A x \in Component : \A k \in DOMAIN observers[x] :
          k \in DOMAIN observers'[x] /\ observers'[x][k] = observers[x][k]
  <2>1. SUFFICES ASSUME NEW x \in Component, NEW k \in DOMAIN observers[x]
        PROVE  k \in DOMAIN observers'[x] /\ observers'[x][k] = observers[x][k]
    OBVIOUS
  <2>2. CASE x # c
    BY <1>1, <1>2, <2>2
  <2>3. CASE x = c
    <3>. DEFINE list == observers[c]
                longer == Append(list, o)
    <3>1. list \in Seq(Object) /\ observers'[x] = longer
      BY <1>1, <1>2, <2>3
    <3>2. /\ Len(list) \in Nat /\ DOMAIN list = 1..Len(list)
          /\ longer \in Seq(Object) /\ Len(longer) = Len(list) + 1
          /\ \A i \in 1..Len(list) : longer[i] = list[i]
      BY <3>1, LenProperties, AppendProperties
    <3>3. DOMAIN longer = 1..(Len(list) + 1)
      BY <3>2, LenProperties
    <3>. QED
      BY <2>3, <3>1, <3>2, <3>3
  <2>. QED
    BY <2>2, <2>3
<1>5. TypeOK'
  <2>1. changes' \in 0..MaxChanges
    BY <1>1, <1>2, ObjectAssumption DEF TypeOK
  <2>. QED
    BY <1>1, <1>2, <1>3, <2>1 DEF TypeOK
<1>6. CacheInv(observers', name, renamed, cache')
  <2>1. /\ DOMAIN cache' = {k \in DOMAIN cache : k[1] # c}
        /\ \A key \in DOMAIN cache' : cache'[key] = cache[key]
    BY <1>2
  <2>2. SUFFICES ASSUME NEW key \in DOMAIN cache, key[1] # c
        PROVE  /\ key \in Component \X Kinds \X Targets
               /\ cache[key] \in Seq(Object)
               /\ key[2] # "once" => ToSet(cache[key]) \subseteq Implementer \cup Transparent
               /\ key[3] = None \/ ~renamed =>
                      cache[key] = FoundIn(observers'[key[1]], name, key[2], key[3])
    BY <2>1 DEF CacheInv
  <2>3. key \in Component \X Kinds \X Targets
    BY <1>1 DEF CacheInv
  <2>4. observers'[key[1]] = observers[key[1]]
    BY <1>1, <1>2, <2>2, <2>3
  <2>. QED
    BY <1>1, <2>4 DEF CacheInv
<1>7. ASSUME NEW d \in 1..Deliveries, delivery[d] # Idle
      PROVE  DeliveryInv(observers', name, renamed, delivery[d])
  <2>1. DeliveryInv(observers, name, renamed, delivery[d])
    BY <1>1, <1>7 DEF DeliveriesInv
  <2>2. OnceInv(observers, name, delivery[d]) => OnceInv(observers', name, delivery[d])
    BY <1>1, <1>3, <1>4, <2>1, GrowthKeeps DEF DeliveryInv, Delivered
  <2>. QED
    BY <2>1, <2>2 DEF DeliveryInv
<1>. QED
  BY <1>2, <1>5, <1>6, <1>7 DEF Inv, DeliveriesInv

\* A message that is not directed finds the same whatever the names are.
LEMMA NamesDoNotMatter ==
    ASSUME NEW nm, NEW other
    PROVE  /\ \A list, kind : FoundIn(list, nm, kind, None) = FoundIn(list, other, kind, None)
           /\ \A g, r : r.target = None /\ OnceInv(g, nm, r) => OnceInv(g, other, r)
<1>1. ASSUME NEW list, NEW kind
      PROVE  FoundIn(list, nm, kind, None) = FoundIn(list, other, kind, None)
  <2>. DEFINE I == {i \in 1..Len(list) :
                      /\ None = None \/ nm[list[i]] = None
                      /\ kind = "once" \/ list[i] \in Implementer \cup Transparent}
              J == {i \in 1..Len(list) :
                      /\ None = None \/ other[list[i]] = None
                      /\ kind = "once" \/ list[i] \in Implementer \cup Transparent}
  <2>1. I = J
    OBVIOUS
  <2>2. FoundIn(list, nm, kind, None) = AtPositions(list, I)
    BY DEF FoundIn
  <2>3. FoundIn(list, other, kind, None) = AtPositions(list, J)
    BY DEF FoundIn
  <2>. HIDE DEF I, J
  <2>. QED
    BY <2>1, <2>2, <2>3
<1>2. ASSUME NEW g, NEW r, r.target = None, OnceInv(g, nm, r)
      PROVE  OnceInv(g, other, r)
  <2>1. \A h : Heads(h, nm, r.from, r.target) = Heads(h, other, r.from, r.target)
    BY <1>2 DEF Heads
  <2>. QED
    BY <1>2, <2>1 DEF OnceInv, LoopsBelow, SeesBelow, MissesNobody
<1>. QED
  BY <1>1, <1>2

\* An object gets another name.
LEMMA SetNameKeeps ==
    ASSUME Inv, NEW o \in Object, NEW n \in Targets, SetName(o, n)
    PROVE  Inv'
<1>1. /\ TypeOK /\ CacheInv(observers, name, renamed, cache) /\ DeliveriesInv
  BY DEF Inv
<1>2. /\ name' = [name EXCEPT ![o] = n] /\ renamed' = TRUE
      /\ observers' = observers /\ cache' = cache /\ delivery' = delivery /\ stack' = stack
      /\ changes < MaxChanges /\ changes' = changes + 1
  BY DEF SetName
<1>3. TypeOK'
  <2>1. changes' \in 0..MaxChanges
    BY <1>1, <1>2, ObjectAssumption DEF TypeOK
  <2>. QED
    BY <1>1, <1>2, <2>1 DEF TypeOK
<1>4. CacheInv(observers, name', TRUE, cache)
  BY <1>1, NamesDoNotMatter DEF CacheInv
<1>5. ASSUME NEW d \in 1..Deliveries, delivery[d] # Idle
      PROVE  DeliveryInv(observers, name', TRUE, delivery[d])
  <2>1. DeliveryInv(observers, name, renamed, delivery[d])
    BY <1>1, <1>5 DEF DeliveriesInv
  <2>. QED
    BY <2>1, NamesDoNotMatter DEF DeliveryInv
<1>. QED
  BY <1>2, <1>3, <1>4, <1>5 DEF Inv, DeliveriesInv

----------------------------------------------------------------------------
(* The theorems.                                                              *)

\* The invariant holds at the start,
LEMMA InitInv == Init => Inv
<1>. SUFFICES ASSUME Init PROVE Inv
  OBVIOUS
<1>1. /\ observers \in [Component -> Seq(Object)]
      /\ name \in [Object -> Targets] /\ renamed \in BOOLEAN
      /\ changes \in 0..MaxChanges
  <2>1. /\ Graphs \subseteq [Component -> Seq(Object)]
        /\ InitialName \in [Object -> Targets] /\ 0 \in 0..MaxChanges
    BY ObjectAssumption DEF Targets
  <2>. QED
    BY <2>1 DEF Init
<1>2. delivery \in [1..Deliveries -> {Idle} \cup Sent]
  BY DEF Init
<1>3. stack \in Seq(1..Deliveries)
  BY EmptySeq DEF Init
<1>4. DOMAIN cache = {}
  BY DEF Init
<1>5. CacheInv(observers, name, renamed, cache)
  BY <1>4 DEF CacheInv
<1>6. DeliveriesInv
  BY DEF Init, DeliveriesInv
<1>. QED
  BY <1>1, <1>2, <1>3, <1>5, <1>6 DEF Inv, TypeOK

\* and after every step,
LEMMA NextInv == Inv /\ [Next]_vars => Inv'
<1>. SUFFICES ASSUME Inv, [Next]_vars PROVE Inv'
  OBVIOUS
<1>1. CASE Next
  <2>1. CASE \E d \in 1..Deliveries, kind \in Kinds, c \in Senders, t \in Targets :
                 Send(d, kind, c, t)
    BY <2>1, SendKeeps
  <2>2. CASE \E a \in Additions : AddObserver(a[1], a[2])
    BY <2>2, AddObserverKeeps, ObjectAssumption
  <2>3. CASE \E r \in Renames : SetName(r[1], r[2])
    BY <2>3, SetNameKeeps, ObjectAssumption DEF Targets
  <2>4. CASE \E d \in 1..Deliveries : Step(d)
    <3>1. PICK d \in 1..Deliveries : Step(d)
      BY <2>4
    <3>2. CASE PassOn(d)
      BY <3>2, PassOnKeeps
    <3>3. CASE Skip(d)
      BY <3>3, SkipKeepsInv
    <3>4. CASE LoopOver(d)
      BY <3>4, LoopOverKeeps
    <3>5. ASSUME NEW how \in Answers, Ask(d, how) PROVE Inv'
      BY <3>5, AskKeeps
    <3>6. ASSUME NEW how \in Answers, Visit(d, how) PROVE Inv'
      BY <3>6, VisitKeepsInv
    <3>. QED
      BY <3>1, <3>2, <3>3, <3>4, <3>5, <3>6 DEF Step
  <2>. QED
    BY <1>1, <2>1, <2>2, <2>3, <2>4 DEF Next, Program
<1>2. CASE UNCHANGED vars
  BY <1>2 DEF vars, Inv, TypeOK, DeliveriesInv
<1>. QED
  BY <1>1, <1>2

\* so always, and it is what the properties say.
LEMMA InvAlways == Spec => []Inv
BY InitInv, NextInv, PTL DEF Spec

LEMMA InvMeans == Inv => IInv /\ OnceOnly
<1>. SUFFICES ASSUME Inv PROVE IInv /\ OnceOnly
  OBVIOUS
<1>1. TypeOK
  BY DEF Inv
<1>2. ASSUME NEW d \in 1..Deliveries, delivery[d] # Idle, delivery[d].kind = "once"
      PROVE  /\ AskedOnce(d)
             /\ Fresh(d) =>
                 /\ Who(d) \subseteq
                        Below(observers, delivery[d].from, delivery[d].target)
                 /\ delivery[d].phase = "delivered" =>
                        Implementer \cap Below(delivery[d].graph,
                            delivery[d].from, delivery[d].target) \subseteq Who(d)
  <2>1. DeliveryInv(observers, name, renamed, delivery[d])
    BY <1>2 DEF Inv, DeliveriesInv
  <2>2. WellAsked(delivery[d]) /\ (Fresh(d) => OnceInv(observers, name, delivery[d]))
    BY <1>2, <2>1 DEF DeliveryInv, Fresh
  <2>3. /\ delivery[d] \in Sent
        /\ delivery[d].phase = "running" <=> delivery[d].frames # <<>>
    BY <2>1 DEF DeliveryInv, Delivered
  <2>. QED
    BY <1>1, <2>2, <2>3, OnceInvMeans DEF AskedOnce, WellAsked, Who
<1>. QED
  BY <1>1, <1>2 DEF IInv, OnceOnly

\* Whatever the graph, the names and the messages under way: the state keeps its
\* types, and a `once` (_callonce in _observable.py) marks as seen whom it asks
\* and asks nobody a second time.
THEOREM OnceAsksNobodyTwice == Spec => []IInv
BY InvAlways, InvMeans, PTL

\* In any graph, with loops or growing while the message is under way: a `once`
\* asks nobody it cannot reach, and at its end has asked everybody with a method
\* who was below its sender when it was sent.
THEOREM OnceReachesAll == Spec => []OnceOnly
BY InvAlways, InvMeans, PTL
=============================================================================
