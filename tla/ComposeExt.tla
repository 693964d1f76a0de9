----------------------------- MODULE ComposeExt -----------------------------
(* weightless/core/_compose.c: compose in C.  Its stack grows to a limit, its *)
(* messages are in a ring of fixed size, and instead of a place in a program  *)
(* it has flags for what it has returned to its caller.  As long as no limit  *)
(* is hit it does what Compose, the Python implementation, does.              *)
(*                                                                            *)
(* When a limit is hit where the code does not look, Python's error indicator *)
(* remains set: what the next generator yields or returns is replaced by a    *)
(* SystemError.                                                               *)
EXTENDS Naturals, Sequences, FiniteSets, SequencesExt

CONSTANTS
    None, Result, MaxSend, MaxDepth,  \* as in Compose
    NULL,
    QUEUE_SIZE, INITIAL_STACK_SIZE, MAX_STACK_SIZE

ASSUME ComposeExtAssumption ==
    /\ None # Result /\ {None, Result} \cap Nat = {}
    /\ MaxSend \in Nat /\ MaxDepth \in Nat \ {0}
    /\ QUEUE_SIZE \in Nat \ {0, 1}
    /\ INITIAL_STACK_SIZE \in Nat \ {0}
    /\ MAX_STACK_SIZE \in Nat /\ INITIAL_STACK_SIZE <= MAX_STACK_SIZE
    /\ NULL \notin Nat \cup {None, Result}

VARIABLES
    generators, allocated,  \* the stack and its capacity
    slots, start, end,      \* messages_base, messages_start, messages_end
    exception,              \* exc_type
    running,                \* in _compose_go
    started, expect_data, paused_on_step, stepping,
    indicator,              \* Python's error indicator, where nobody looks
    strayed,                \* history: a limit was hit, or data came first
    highest,                \* history: the highest place of the stack, from 0, written
    sent, dropped           \* history, as in Compose

ring == <<slots, start, end>>
flags == <<started, expect_data, paused_on_step, stepping>>
vars == <<generators, allocated, ring, exception, running, flags, indicator,
          strayed, highest, sent, dropped>>

Data == Nat \ {0}
Fresh == [awaits |-> "start", got |-> <<>>]
Places == 0..(QUEUE_SIZE - 1)

Init ==
    /\ generators = <<Fresh>> /\ allocated = INITIAL_STACK_SIZE
    /\ slots = [p \in Places |-> NULL] /\ start = 0 /\ end = 0
    /\ exception = "none" /\ running = FALSE
    /\ started = FALSE /\ expect_data = FALSE /\ paused_on_step = FALSE
    /\ stepping \in BOOLEAN
    /\ indicator = FALSE /\ strayed = FALSE /\ highest = 0 /\ sent = 0 /\ dropped = {}

----------------------------------------------------------------------------
(* The queue, as records of slots, start and end.                             *)

Ring == [slots |-> slots, start |-> start, end |-> end]
SetRing(r) == slots' = r.slots /\ start' = r.start /\ end' = r.end

\* The places n further on and n back, around the ring
Plus(p, n) == IF p + n < QUEUE_SIZE THEN p + n ELSE (p + n) - QUEUE_SIZE
Minus(p, n) == IF n <= p THEN p - n ELSE (p + QUEUE_SIZE) - n

Size(r) == Minus(r.end, r.start)
Free(r) == (QUEUE_SIZE - 1) - Size(r)
Full(r) == Free(r) = 0

\* The messages in their order
Order(r) == [i \in 1..Size(r) |-> r.slots[Plus(r.start, i - 1)]]
Queue == Order(Ring)

\* Fault: the start is not wrapped.
PopNoWrap(r) == [r EXCEPT !.slots[r.start] = NULL, !.start = r.start + 1]

\* messages_pop; the caller has seen that the queue is not empty.
Pop(r) == [r EXCEPT !.slots[r.start] = NULL, !.start = Plus(r.start, 1)]

\* messages_insert, when there is room
Insert(r, message) ==
    LET p == Minus(r.start, 1) IN [r EXCEPT !.slots[p] = message, !.start = p]

\* Return values, inserted one by one, the last one first, as far as there is
\* room: the last n of them are in the queue, from its new start on.
InsertAll(r, args) ==
    LET n == IF Len(args) <= Free(r) THEN Len(args) ELSE Free(r)
        first == Minus(r.start, n)
        at(p) == Minus(p, first)
    IN  [r EXCEPT !.start = first,
                  !.slots = [p \in Places |->
                      IF at(p) < n THEN args[(Len(args) - n) + at(p) + 1] ELSE @[p]]]

\* An insertion whose result is ignored
InsertUnchecked(r, message) ==
    /\ SetRing(IF Full(r) THEN r ELSE Insert(r, message))
    /\ indicator' = Full(r)
    /\ strayed' = (strayed \/ Full(r))

----------------------------------------------------------------------------
(* What a generator does when it runs: `gen' is its frame, `r' the queue.     *)

Became(gen, awaits) == Front(generators) \o <<[gen EXCEPT !.awaits = awaits]>>
UncheckedNone == UNCHANGED <<indicator, strayed>>

\* A write to the place of generators_top.
WritesTop ==
    highest' = IF highest < Len(generators) THEN Len(generators) ELSE highest

\* response is returned when it is a value, or when nothing waits.
YieldsItem(gen, r, isNone) ==
    /\ generators' = Became(gen, IF isNone THEN "data" ELSE "value")
    /\ SetRing(r) /\ exception' = "none"
    /\ IF ~isNone \/ Size(r) = 0
       THEN running' = FALSE /\ expect_data' = isNone
       ELSE UNCHANGED <<running, expect_data>>
    /\ UNCHANGED <<allocated, paused_on_step, highest, dropped>> /\ UncheckedNone

\* generators_push: the stack is doubled up to its limit.
Room == Len(generators) < allocated \/ allocated < MAX_STACK_SIZE
Grown ==
    IF Len(generators) < allocated THEN allocated
    ELSE IF 2 * allocated > MAX_STACK_SIZE THEN MAX_STACK_SIZE ELSE 2 * allocated

Calls(gen, r) ==
    /\ Len(generators) < MaxDepth /\ Room
    /\ generators' = Became(gen, "call") \o <<Fresh>> /\ allocated' = Grown
    /\ WritesTop
    /\ exception' = "none" /\ UNCHANGED <<expect_data, dropped>>
    /\ IF stepping
       THEN running' = FALSE /\ paused_on_step' = TRUE /\ SetRing(r) /\ UncheckedNone
       ELSE UNCHANGED <<running, paused_on_step>> /\ InsertUnchecked(r, None)

\* 'maximum recursion depth exceeded (compose)': to the caller of compose, past
\* the generators.
CallsTooDeep(gen, r) ==
    /\ Len(generators) < MaxDepth /\ ~Room
    /\ generators' = Became(gen, "call") /\ SetRing(r)
    /\ exception' = "none" /\ running' = FALSE /\ strayed' = TRUE
    /\ UNCHANGED <<allocated, expect_data, paused_on_step, indicator, highest, dropped>>

\* generator_invalid: it is not pushed.
CallsUsed(gen, r) ==
    /\ generators' = Became(gen, "call") /\ SetRing(r) /\ exception' = "error"
    /\ UNCHANGED <<allocated, running, expect_data, paused_on_step, highest, dropped>>
    /\ UncheckedNone

\* The end of a generator: *generators_top-- = NULL.  The place that is cleared is
\* that above the last generator, on a full stack the one behind the allocation.
\* What it holds is undefined in C; the allocator of the C library rounds up the
\* blocks of a stack (10, 20, ... 1000 pointers) by one pointer, which is that
\* place, so that no other state changes.
Pops == generators' = Front(generators) /\ WritesTop

\* _compose_handle_stopiteration: 'maximum return values exceeded (compose)' is
\* raised in the generator that called, with what was inserted in the queue.
Returns(gen, r) ==
    /\ Pops
    /\ UNCHANGED <<allocated, running, expect_data, paused_on_step>>
    /\ \/ /\ dropped' = dropped \cup Range(gen.got) /\ exception' = "none"
          /\ IF Len(generators) > 1 THEN InsertUnchecked(r, None)
             ELSE SetRing(r) /\ UncheckedNone
       \/ \E i \in 1..(Len(gen.got) + 1) :
             LET args == <<Result>> \o SubSeq(gen.got, i, Len(gen.got))
                 all == Len(args) <= Free(r)
             IN  /\ SetRing(InsertAll(r, args))
                 /\ exception' = IF all THEN "none" ELSE "error"
                 /\ strayed' = (strayed \/ ~all)
                 /\ dropped' = dropped \cup (Range(gen.got) \ Range(args))
                 /\ UNCHANGED indicator

Raises(gen, r, raised) ==
    /\ Pops /\ SetRing(r)
    /\ dropped' = dropped \cup Range(gen.got)
    /\ exception' = raised /\ indicator' = FALSE
    /\ UNCHANGED <<allocated, running, expect_data, paused_on_step, strayed>>

Runs(gen, r) ==
    \/ \E isNone \in BOOLEAN : YieldsItem(gen, r, isNone)
    \/ Calls(gen, r) \/ CallsTooDeep(gen, r) \/ CallsUsed(gen, r)
    \/ Returns(gen, r) \/ \E raised \in {"error", "exit"} : Raises(gen, r, raised)

----------------------------------------------------------------------------
(* The loop of _compose_go.                                                   *)

Running(what) ==
    /\ running /\ generators # <<>> /\ exception = what
    /\ UNCHANGED <<started, stepping, sent>>

\* When the indicator is set the generator ends by a SystemError, or by what it
\* raises itself; one that has not started takes nothing but None.
Send ==
    /\ Running("none")
    /\ LET message == slots[start]
           gen == IF message \in Data
                  THEN [Last(generators) EXCEPT !.got = Append(@, message)]
                  ELSE Last(generators)
       IN  IF gen.awaits = "start" /\ message # None
           THEN Raises(gen, Pop(Ring), "error")
           ELSE IF indicator
           THEN \E raised \in {"error", "exit"} : Raises(gen, Pop(Ring), raised)
           ELSE Runs(gen, Pop(Ring))

Throw ==
    /\ Running("error")
    /\ LET gen == Last(generators) IN
       IF gen.awaits = "start" THEN Raises(gen, Ring, "error") ELSE Runs(gen, Ring)

Close ==
    /\ Running("exit")
    /\ LET gen == Last(generators) IN
       \E raised \in {"exit"} \cup (IF gen.awaits = "start" THEN {} ELSE {"error"}) :
           Raises(gen, Ring, raised)

\* The exception is restored, or all messages are popped: the arguments of a
\* StopIteration.
Finish ==
    /\ running /\ generators = <<>>
    /\ running' = FALSE /\ exception' = "none"
    /\ IF exception = "none"
       THEN slots' = [p \in Places |-> NULL] /\ start' = end /\ UNCHANGED end
       ELSE UNCHANGED ring
    /\ UNCHANGED <<generators, allocated, flags, indicator, strayed, highest, sent,
                   dropped>>

----------------------------------------------------------------------------
(* The caller of compose: it may go on until the generators have ended.       *)

Entered ==
    /\ ~running /\ generators # <<>>
    /\ running' = TRUE /\ started' = TRUE /\ paused_on_step' = FALSE
    /\ UNCHANGED <<generators, allocated, expect_data, stepping, highest, dropped>>

\* compose_send and compose_iternext
SendNone ==
    /\ Entered /\ InsertUnchecked(Ring, None)
    /\ UNCHANGED <<exception, sent>>

\* Fault: expect_data alone decides.
SendDataWhenPaused ==
    /\ Entered /\ UNCHANGED exception
    /\ expect_data /\ sent < MaxSend /\ sent' = sent + 1
    /\ InsertUnchecked(Ring, sent + 1)

\* 'Cannot accept data ...' is thrown into the generator; a fresh compose ends
\* by it.
SendData ==
    /\ Entered
    /\ \/ /\ ~paused_on_step /\ expect_data
          /\ sent < MaxSend /\ sent' = sent + 1
          /\ InsertUnchecked(Ring, sent + 1) /\ UNCHANGED exception
       \/ /\ paused_on_step \/ ~expect_data
          /\ exception' = "error" /\ strayed' = (strayed \/ ~started)
          /\ UNCHANGED <<ring, indicator, sent>>

\* compose_throw and compose_close
ThrowIn ==
    /\ Entered /\ exception' \in {"error", "exit"}
    /\ UNCHANGED <<ring, indicator, strayed, sent>>

Next ==
    \/ Send \/ Throw \/ Close \/ Finish
    \/ SendNone \/ SendData \/ ThrowIn

Spec == Init /\ [][Next]_vars

----------------------------------------------------------------------------
\* What compose keeps is where it looks for it: the places of the ring from the
\* start to the end hold messages and the others nothing (the garbage collector
\* visits them all), one is always free, nothing is popped from an empty queue,
\* and the generators fit in what is allocated for them.  Writes to the stack do
\* not all fit: the end of a generator on a full stack clears the place right
\* behind it (_compose.c:432).  No write goes further than that.
StorageBounds ==
    /\ {start, end} \subseteq Places
    /\ \A p \in Places :
          slots[p] # NULL <=>
              IF start <= end THEN start <= p /\ p < end ELSE start <= p \/ p < end
    /\ running /\ exception = "none" /\ generators # <<>> => start # end
    /\ Len(generators) <= allocated /\ allocated <= MAX_STACK_SIZE
    /\ highest <= allocated

\* Compose, as it is seen here: a generator that has not started ends by an
\* exception, though the loop has yet to throw it.
Ended == started /\ ~running /\ generators = <<>>
Unwound ==
    running /\ exception # "none" /\ generators # <<>> /\ Last(generators) = Fresh
Py == INSTANCE Compose WITH
    generators <- IF Unwound THEN Front(generators) ELSE generators,
    messages <- IF ~started THEN <<None>> ELSE IF Ended THEN <<>> ELSE Queue,
    control <- IF ~started THEN "new"
               ELSE IF running THEN "run"
               ELSE IF Ended THEN "ended"
               ELSE IF paused_on_step THEN "step"
               ELSE IF expect_data THEN "data" ELSE "value"

\* Until a limit is hit (or the first thing sent is data, which Python refuses)
\* the C code does what the Python code does: each generator runs with the same
\* messages and exceptions, and the caller gets the same.
ImplementsCompose == Py!Init /\ [][strayed' \/ [Py!Next]_(Py!vars)]_vars
=============================================================================
