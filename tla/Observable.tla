---------------------------- MODULE Observable ----------------------------
(* weightless.core's Observable: a graph of components in which a component   *)
(* sends a message to its observers, by one of five messages: `all` and `do`  *)
(* ask every observer, `any` and `call` the first that answers, `once` every  *)
(* one in the whole graph below, once.  `do` and `call` run to their end in   *)
(* the sender's call; the others are generators, driven step by step, while   *)
(* other messages go out and the graph changes.                               *)
EXTENDS Integers, Sequences, SequencesExt, FiniteSets, Selection

CONSTANTS Object,        \* components and other objects in the graph
          Component,     \* the instances of Observable among them
          Transparent,   \* the components of class Transparent
          Implementer,   \* the objects that have a method for the message
          Graphs,        \* what a program starts with
          Names,         \* names of objects
          InitialName,   \* the name of each object, None: it has none
          Additions,     \* <<c, o>>: the program may add observer o to c
          Renames,       \* <<o, n>>: the program may give o the name n
          MaxChanges,    \* bound: changes of the graph or of a name
          Deliveries,    \* bound: messages sent
          Senders,       \* the components that send a message of their own
          None           \* neither a name nor an object

ASSUME ObjectAssumption ==
    /\ Transparent \subseteq Component /\ Component \subseteq Object
    /\ Implementer \subseteq Object /\ Senders \subseteq Component
    /\ Graphs \subseteq [Component -> Seq(Object)]
    /\ InitialName \in [Object -> Names \cup {None}]
    /\ Additions \subseteq Component \X Object
    /\ Renames \subseteq Component \X (Names \cup {None})
    /\ Deliveries \in Nat /\ MaxChanges \in Nat
    /\ None \notin Names \cup Object

Kinds == {"all", "do", "any", "call", "once"}
Synchronous == {"do", "call"}
FirstAnswer == {"any", "call"}
Answers == {"returns", "declines", "raises", "unanswered"}
Targets == Names \cup {None}       \* None: the message is not directed

VARIABLES
    observers,  \* [Component -> Seq(Object)], their _observers
    name,       \* [Object -> Names or None], what observable_name() gives
    renamed,    \* history: some name was set since the start
    cache,      \* <<component, kind, target>> -> the observers found for it
    delivery,   \* [1..Deliveries -> record], the messages sent
    stack,      \* the synchronous deliveries that run, the innermost last
    changes     \* bound only

vars == <<observers, name, renamed, cache, delivery, stack, changes>>
-----------------------------------------------------------------------------
(* What a delivery is: its frames are the loops it is in, the innermost last. *)
(* A loop runs over a list found before (`methods`), or, in a `once`, over    *)
(* the living list of a component's observers.                                *)

Fixed(list) == [of |-> None, list |-> list, next |-> 1]
Living(c)   == [of |-> c, list |-> <<>>, next |-> 1]
Members(frame) == IF frame.of = None THEN frame.list ELSE observers[frame.of]

Idle == [phase |-> "idle"]

Named(o, target) == target = None \/ name[o] = target

\* The observers of c a message finds: those with the name it is directed to,
\* with a method for it or one for unknown messages.  `once` asks for a method
\* only when it gets to an observer.
Found(c, kind, target) ==
    LET list == observers[c] IN
    AtPositions(list, {i \in 1..Len(list) :
        /\ Named(list[i], target)
        /\ kind = "once" \/ list[i] \in Implementer \cup Transparent})

\* A Defer keeps what it found for a message, for as long as it lives itself.
Lookup(c, kind, target) ==
    IF <<c, kind, target>> \in DOMAIN cache
    THEN cache[<<c, kind, target>>] ELSE Found(c, kind, target)

Remember(c, kind, target) ==
    cache' = [key \in DOMAIN cache \cup {<<c, kind, target>>} |->
                  Lookup(key[1], key[2], key[3])]

Begun(kind, c, target) ==
    [phase |-> "running", kind |-> kind, from |-> c, target |-> target,
     frames |-> << IF kind = "once" /\ target = None
                   THEN Living(c) ELSE Fixed(Lookup(c, kind, target)) >>,
     seen |-> {}, asked |-> <<>>, passed |-> FALSE, graph |-> observers]

Advanced(r) == [r EXCEPT !.frames[Len(r.frames)].next = @ + 1]
Pushed(r, frame) == [r EXCEPT !.frames = Append(@, frame)]
Ended(r, phase) == [r EXCEPT !.phase = phase, !.frames = <<>>]

\* The end of a loop.  A Transparent that got no answer declines, and the loop
\* that asked it goes on.
LoopEnds(r) ==
    IF Len(r.frames) > 1 THEN [r EXCEPT !.frames = Front(@)]
    ELSE Ended(r, IF r.kind \in FirstAnswer THEN "unanswered" ELSE "delivered")

\* What becomes of a delivery by the answer of the observer it asks: it returns
\* (None, or for any and call a result), raises DeclineMessage, something
\* else, or a NoneOfTheObserversRespond of its own.
Answered(r, o, how) ==
    LET s == [r EXCEPT !.asked = Append(@, o),
                       !.passed = @ \/ (how = "unanswered" /\ r.kind \in FirstAnswer)] IN
    CASE how = "returns" /\ r.kind \in FirstAnswer -> Ended(s, "answered")
      [] how = "returns" /\ r.kind \notin FirstAnswer -> s
      [] how = "declines" /\ r.kind # "once" -> s
      [] how = "unanswered" /\ r.kind \in FirstAnswer -> LoopEnds(s)
      [] OTHER -> Ended(s, "raised")
-----------------------------------------------------------------------------
Init ==
    /\ observers \in Graphs
    /\ name = InitialName /\ renamed = FALSE
    /\ cache = <<>>
    /\ delivery = [d \in 1..Deliveries |-> Idle]
    /\ stack = <<>>
    /\ changes = 0

\* Fault: the set of seen observers is that of the message object, shared.
BeginsForAll(d, kind, c, target) ==
    delivery' = [e \in 1..Deliveries |->
        CASE e = d -> Begun(kind, c, target)
          [] e # d /\ delivery[e] # Idle -> [delivery[e] EXCEPT !.seen = {}]
          [] OTHER -> delivery[e]]
\* A component sends a message.
Begins(d, kind, c, target) ==
    delivery' = [delivery EXCEPT ![d] = Begun(kind, c, target)]

Send(d, kind, c, target) ==
    /\ delivery[d] = Idle
    /\ \A e \in 1..(d - 1) : delivery[e] # Idle
    /\ Begins(d, kind, c, target)
    /\ Remember(c, kind, target)
    /\ stack' = IF kind \in Synchronous THEN Append(stack, d) ELSE stack
    /\ UNCHANGED <<observers, name, renamed, changes>>

\* A synchronous delivery goes on when those sent from within it are over.
Goes(d) ==
    /\ delivery[d].phase = "running"
    /\ delivery[d].kind \in Synchronous => Last(stack) = d

Loop(d) == Last(delivery[d].frames)
More(d) == Loop(d).next <= Len(Members(Loop(d)))
Member(d) == Members(Loop(d))[Loop(d).next]

Becomes(d, r) ==
    /\ delivery' = [delivery EXCEPT ![d] = r]
    /\ stack' = IF r.phase # "running" /\ r.kind \in Synchronous THEN Front(stack)
                ELSE stack
    /\ UNCHANGED <<observers, name, renamed, changes>>

\* all, do, any, call: ask an observer that has a method for the message,
Ask(d, how) ==
    /\ Goes(d) /\ delivery[d].kind # "once"
    /\ More(d) /\ Member(d) \in Implementer
    /\ Becomes(d, Answered(Advanced(delivery[d]), Member(d), how))
    /\ UNCHANGED cache

\* or send it on to the observers of a Transparent.
PassOn(d) ==
    /\ Goes(d) /\ delivery[d].kind # "once"
    /\ More(d) /\ Member(d) \notin Implementer
    /\ LET kind == delivery[d].kind  o == Member(d) IN
        /\ Becomes(d, Pushed(Advanced(delivery[d]), Fixed(Lookup(o, kind, None))))
        /\ Remember(o, kind, None)

\* Fault: only Transparents are gone into.
EnteredTransparent(r, o) ==
    IF r.phase = "running" /\ o \in Transparent THEN Pushed(r, Living(o)) ELSE r

\* once: ask an observer, when it has a method, and go into it,
Entered(r, o) ==
    IF r.phase = "running" /\ o \in Component THEN Pushed(r, Living(o)) ELSE r

Visit(d, how) ==
    LET o == Member(d)  r == [Advanced(delivery[d]) EXCEPT !.seen = @ \cup {o}] IN
    /\ Goes(d) /\ delivery[d].kind = "once"
    /\ More(d) /\ o \notin delivery[d].seen
    /\ \/ /\ o \in Implementer
          /\ Becomes(d, Entered(Answered(r, o, how), o))
       \/ /\ o \notin Implementer /\ how = "returns"
          /\ Becomes(d, Entered(r, o))
    /\ UNCHANGED cache

\* Fault: the loop does not go on.
SkipStays(d) == Becomes(d, delivery[d])

\* unless it was visited before.
SkipsIt(d) == Becomes(d, Advanced(delivery[d]))

Skip(d) ==
    /\ Goes(d) /\ delivery[d].kind = "once"
    /\ More(d) /\ Member(d) \in delivery[d].seen
    /\ SkipsIt(d)
    /\ UNCHANGED cache

LoopOver(d) ==
    /\ Goes(d) /\ ~More(d)
    /\ Becomes(d, LoopEnds(delivery[d]))
    /\ UNCHANGED cache

Step(d) ==
    \/ PassOn(d) \/ Skip(d) \/ LoopOver(d)
    \/ \E how \in Answers : Ask(d, how) \/ Visit(d, how)

\* Fault: the Defers are not made anew.
ForgetNothing(c) == UNCHANGED cache

\* A new observer makes a component forget what it found.
Forget(c) ==
    cache' = [key \in {k \in DOMAIN cache : k[1] # c} |-> cache[key]]

AddObserver(c, o) ==
    /\ changes < MaxChanges
    /\ observers' = [observers EXCEPT ![c] = Append(@, o)]
    /\ Forget(c)
    /\ changes' = changes + 1
    /\ UNCHANGED <<name, renamed, delivery, stack>>

\* A new name does not.
SetName(o, n) ==
    /\ changes < MaxChanges
    /\ name' = [name EXCEPT ![o] = n] /\ renamed' = TRUE
    /\ changes' = changes + 1
    /\ UNCHANGED <<observers, cache, delivery, stack>>

Program ==
    \/ \E d \in 1..Deliveries, kind \in Kinds, c \in Senders, t \in Targets :
           Send(d, kind, c, t)
    \/ \E a \in Additions : AddObserver(a[1], a[2])
    \/ \E r \in Renames : SetName(r[1], r[2])

Next == Program \/ \E d \in 1..Deliveries : Step(d)

\* Whoever sent a message drives it to its end.
Spec == Init /\ [][Next]_vars /\ \A d \in 1..Deliveries : WF_vars(Step(d))
-----------------------------------------------------------------------------
(* Properties.                                                                *)

Frames == [of : Component \cup {None}, list : Seq(Object), next : Nat \ {0}]
Phases == {"running", "delivered", "answered", "unanswered", "raised"}
Sent == [phase : Phases, kind : Kinds, from : Component, target : Targets,
         frames : Seq(Frames), seen : SUBSET Object, asked : Seq(Object),
         passed : BOOLEAN, graph : [Component -> Seq(Object)]]

TypeOK ==
    /\ observers \in [Component -> Seq(Object)]
    /\ name \in [Object -> Targets] /\ renamed \in BOOLEAN
    /\ delivery \in [1..Deliveries -> {Idle} \cup Sent]
    /\ stack \in Seq(1..Deliveries)
    /\ changes \in 0..MaxChanges

Who(d) == ToSet(delivery[d].asked)

\* No `once` asks an object twice, and what it asked it has seen.
AskedOnce(d) ==
    /\ Who(d) \subseteq delivery[d].seen
    /\ IsInjective(delivery[d].asked)

\* Types, and the fact that keeps `once` from asking twice whatever the graph:
\* _callonce marks an observer as seen before it calls it, in a set of its own.
IInv ==
    /\ TypeOK
    /\ \A d \in 1..Deliveries :
           delivery[d] # Idle /\ delivery[d].kind = "once" => AskedOnce(d)

\* The sets that hold the observers of c with the name in graph g, and those of
\* every component that they hold; the objects below c are the least of them.
Closed(g, c, target) ==
    LET heads == {o \in ToSet(g[c]) : Named(o, target)} IN
    {S \in {heads \cup others : others \in SUBSET (Object \ heads)} :
        \A x \in S \cap Component : \A i \in DOMAIN g[x] : g[x][i] \in S}
Below(g, c, target) ==
    LET closed == Closed(g, c, target) IN {o \in Object : \A S \in closed : o \in S}

\* A directed message is stale when its Defer found its observers by names
\* that changed since; nothing in the code promises otherwise.
Fresh(d) == delivery[d].target # None => ~renamed

\* However the graph loops or grows while it is under way, and whatever other
\* messages go out, a `once` (_callonce) asks nobody twice, nobody it cannot
\* reach, and, when it gets to its end, everybody who was below its sender
\* when it was sent.
OnceOnly ==
    \A d \in 1..Deliveries :
        delivery[d] # Idle /\ delivery[d].kind = "once" =>
            /\ AskedOnce(d)
            /\ Fresh(d) =>
                /\ Who(d) \subseteq
                       Below(observers, delivery[d].from, delivery[d].target)
                /\ delivery[d].phase = "delivered" =>
                       Implementer \cap Below(delivery[d].graph,
                           delivery[d].from, delivery[d].target) \subseteq Who(d)

\* Every message that was sent gets to an end: also in a graph with loops and
\* with synchronous messages sent from within others.
DeliveriesEnd ==
    \A d \in 1..Deliveries :
        [](delivery[d].phase = "running" => <>(delivery[d].phase # "running"))
=============================================================================
