--------------------------- MODULE MCObservable ---------------------------
(* Instances of Observable for TLC, with the graphs that `be` builds from     *)
(* nested tuples, and the order of a message by recursion over the graph.     *)
EXTENDS Observable

CONSTANTS root, t, u, p, c, a, b

\* A helix is a component and its strand, the helices of its observers.
Helix(x, strand) == [component |-> x, strand |-> strand]
Leaf(x) == Helix(x, <<>>)

NoObservers == [x \in Component |-> <<>>]

RECURSIVE Strand(_, _)

\* What addStrand does: build each helix, then add its component.
AddStrand(h, st) ==
    FoldLeft(LAMBDA s, x :
        LET below == Strand(x, s)
        IN [below EXCEPT !.graph[h.component] = Append(@, x.component)], st, h.strand)

\* Fault: a strand is added wherever it is written.
StrandAlways(h, st) == IF h.strand = <<>> THEN st ELSE AddStrand(h, st)

\* _beRecursive: the strand of a helix that was done before is left alone.
Strand(h, st) ==
    IF h \in st.done \/ h.strand = <<>> THEN st
    ELSE [AddStrand(h, st) EXCEPT !.done = @ \cup {h}]

be(h) == Strand(h, [graph |-> NoObservers, done |-> {}]).graph

\* Transparents share a helix; an observer and a component observe each other.
Shared == Helix(u, <<Leaf(c)>>)
Diamond == Helix(root, <<Helix(t, <<Shared, Leaf(a)>>), Shared>>)
Mutual == Helix(root, <<Helix(c, <<Helix(p, <<Shared>>)>>), Leaf(p)>>)

Dnas == {Diamond, Mutual}
Built == {be(dna) : dna \in Dnas}

Name == [x \in Object |-> IF x \in {c, u} THEN "n" ELSE None]
Add == {<<u, b>>}
Rename == {<<u, None>>}
-----------------------------------------------------------------------------
\* The order in which a message gets to the observers in list: each that has a
\* method, and those behind a Transparent in its place.
RECURSIVE Order(_, _)
Order(g, list) ==
    FlattenSeq([i \in DOMAIN list |->
        CASE list[i] \in Implementer -> <<list[i]>>
          [] list[i] \in Transparent \ Implementer -> Order(g, g[list[i]])
          [] OTHER -> <<>>])

RECURSIVE Within(_, _)   \* s is t without some of its elements
Within(s, l) ==
    \/ s = <<>>
    \/ /\ l # <<>>
       /\ IF Head(s) = Head(l) THEN Within(Tail(s), Tail(l))
          ELSE Within(s, Tail(l))

\* all, do, any and call ask in the order of the graph.  In a graph nobody
\* changes they leave nobody out on the way; in one that grows they ask nobody
\* who is not there, and at the end have asked everybody who was there at the
\* start.  A message is unanswered only when everybody was asked, unless one
\* of them passes on that its own message was unanswered.
InOrder ==
    \A d \in 1..Deliveries :
        (delivery[d] # Idle /\ delivery[d].kind # "once" /\ Fresh(d)) =>
            LET r == delivery[d]
                Through(g) == Order(g, SelectSeq(g[r.from],
                                        LAMBDA o : Named(o, r.target)))
            IN /\ Within(r.asked, Through(observers))
               /\ ~r.passed =>
                   /\ r.graph = observers => IsPrefix(r.asked, Through(observers))
                   /\ r.phase \in {"delivered", "unanswered"} =>
                          Within(Through(r.graph), r.asked)

\* The helices in a DNA, and the strand it has for a component: all helices of
\* these DNAs with a strand for x have the same.
RECURSIVE Helices(_)
Helices(h) == {h} \cup UNION {Helices(h.strand[i]) : i \in DOMAIN h.strand}
Written(dna, x) ==
    LET strands == {h.strand : h \in {k \in Helices(dna) : k.component = x}}
        strand == IF strands \subseteq {<<>>} THEN <<>>
                  ELSE CHOOSE st \in strands : st # <<>>
    IN [i \in DOMAIN strand |-> strand[i].component]
AllWritten == [dna \in Dnas |-> [x \in Component |-> Written(dna, x)]]

\* What `be` builds: a component that the tuples have in several places gets
\* the observers of its strand once, in their order, and only the program adds
\* others.
AsWritten ==
    \E dna \in Dnas : \A x \in Component :
        LET heads == AllWritten[dna][x]
        IN /\ IsPrefix(heads, observers[x])
           /\ Len(observers[x]) <= Len(heads) + changes
=============================================================================
