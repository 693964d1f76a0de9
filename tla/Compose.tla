------------------------------- MODULE Compose ------------------------------
(* weightless/core/_compose_py.py: compose runs a stack of generators as one. *)
(* A generator calls another one by yielding it, and gets what that returns   *)
(* as the value of its yield; whatever more the callee returns is pushed back *)
(* for the yields that ask for data.  By the None protocol a generator that   *)
(* yields None wants data, and one that yields a value is given None.         *)
(*                                                                            *)
(* The generators and the caller of compose do anything; they are bounded by  *)
(* the number of data that are sent and of generators in a stack.             *)
EXTENDS Naturals, Sequences, FiniteSets, SequencesExt

CONSTANTS
    None, Result,  \* None, and a value that a generator has made
    MaxSend,       \* bound: data that the caller sends, 1, 2, 3 ...
    MaxDepth       \* bound: generators that call each other

ASSUME ComposeAssumption ==
    /\ None # Result /\ {None, Result} \cap Nat = {}
    /\ MaxSend \in Nat /\ MaxDepth \in Nat \ {0}

VARIABLES
    generators,  \* the stack: what each awaits, and the data it has got
    messages,
    exception,   \* none, error, or exit: a GeneratorExit
    control,     \* run: the loop; else what compose has yielded to its caller
    stepping,
    sent,        \* history: how many data were accepted
    dropped      \* history: data that a generator had when it ended

vars == <<generators, messages, exception, control, stepping, sent, dropped>>

Data == Nat \ {0}
Messages == Data \cup {None, Result}
Frames == [awaits : {"start", "value", "data", "call"}, got : Seq(Data)]
Fresh == [awaits |-> "start", got |-> <<>>]

\* Every generator but the last is in a call, and what compose has yielded is
\* what the last one awaits.
TypeOK ==
    /\ generators \in Seq(Frames)
    /\ messages \in Seq(Messages)
    /\ exception \in {"none", "error", "exit"}
    /\ control \in {"new", "run", "value", "data", "step", "ended"}
    /\ stepping \in BOOLEAN /\ sent \in Nat /\ dropped \in SUBSET Data
    /\ \A i \in 1..(Len(generators) - 1) : generators[i].awaits = "call"
    /\ control \in {"new", "value", "data", "step"} =>
          /\ generators # <<>> /\ exception = "none"
          /\ control \in {"new", "step"} => Last(generators) = Fresh
          /\ control \in {"value", "data"} => Last(generators).awaits = control

Init ==
    /\ generators = <<Fresh>> /\ messages = <<None>> /\ exception = "none"
    /\ control = "new" /\ stepping \in BOOLEAN
    /\ sent = 0 /\ dropped = {}

----------------------------------------------------------------------------
(* What a generator does when it runs: `gen' is its frame, `queue' what is in *)
(* messages.                                                                  *)

Became(gen, awaits) == Front(generators) \o <<[gen EXCEPT !.awaits = awaits]>>

\* response is not None: it goes to the caller.
YieldsValue(gen, queue) ==
    /\ generators' = Became(gen, "value") /\ messages' = queue
    /\ exception' = "none" /\ control' = "value" /\ UNCHANGED dropped

\* Fault: the caller is asked although there is a message.
YieldsNoneToCaller(gen, queue) ==
    /\ generators' = Became(gen, "data") /\ messages' = queue
    /\ exception' = "none" /\ control' = "data" /\ UNCHANGED dropped

\* The caller is asked for data when there is no message.
YieldsNone(gen, queue) ==
    /\ generators' = Became(gen, "data") /\ messages' = queue
    /\ exception' = "none" /\ control' = (IF queue = <<>> THEN "data" ELSE "run")
    /\ UNCHANGED dropped

\* Fault: the callee's None goes behind what waits.
CallsBehind(gen, queue) ==
    /\ Len(generators) < MaxDepth
    /\ generators' = Became(gen, "call") \o <<Fresh>>
    /\ exception' = "none" /\ UNCHANGED dropped
    /\ IF stepping THEN control' = "step" /\ messages' = queue
       ELSE control' = "run" /\ messages' = queue \o <<None>>

\* A fresh generator is started with None; with stepping the caller comes first.
Calls(gen, queue) ==
    /\ Len(generators) < MaxDepth
    /\ generators' = Became(gen, "call") \o <<Fresh>>
    /\ exception' = "none" /\ UNCHANGED dropped
    /\ IF stepping THEN control' = "step" /\ messages' = queue
       ELSE control' = "run" /\ messages' = <<None>> \o queue

\* 'Generator is exhausted.', 'Generator already used.': the assertion pops it.
CallsUsed(gen, queue) ==
    /\ generators' = Became(gen, "call") /\ messages' = queue
    /\ exception' = "error" /\ control' = "run" /\ UNCHANGED dropped

\* What it returns: nothing, or a result and the last of its data.
Returned(gen) ==
    {<<>>} \cup {<<Result>> \o SubSeq(gen.got, i, Len(gen.got)) :
                     i \in 1..(Len(gen.got) + 1)}

\* StopIteration; without a value there is a None for a generator that called.
Returns(gen, queue) ==
    \E retval \in Returned(gen) :
        /\ generators' = Front(generators)
        /\ messages' = (IF retval = <<>> /\ Len(generators) > 1 THEN <<None>> ELSE retval)
                       \o queue
        /\ dropped' = dropped \cup (Range(gen.got) \ Range(retval))
        /\ exception' = "none" /\ control' = "run"

\* Another exception: the generator is popped, and the next one gets it.
Raises(gen, queue, raised) ==
    /\ generators' = Front(generators) /\ messages' = queue
    /\ dropped' = dropped \cup Range(gen.got)
    /\ exception' = raised /\ control' = "run"

Runs(gen, queue) ==
    \/ YieldsValue(gen, queue) \/ YieldsNone(gen, queue)
    \/ Calls(gen, queue) \/ CallsUsed(gen, queue)
    \/ Returns(gen, queue) \/ \E raised \in {"error", "exit"} : Raises(gen, queue, raised)

----------------------------------------------------------------------------
(* The loop.                                                                  *)

Running(what) ==
    /\ control = "run" /\ generators # <<>> /\ exception = what
    /\ UNCHANGED <<stepping, sent>>

\* generator.send(messages.pop(0))
Send ==
    /\ Running("none")
    /\ LET message == Head(messages)
           gen == Last(generators)
       IN  Runs(IF message \in Data THEN [gen EXCEPT !.got = Append(@, message)]
                ELSE gen,
                Tail(messages))

\* generator.throw
Throw == Running("error") /\ Runs(Last(generators), messages)

\* generator.close, then GeneratorExit again; close raises when the generator
\* raises something else, or yields.
Close ==
    /\ Running("exit")
    /\ \E raised \in {"exit", "error"} : Raises(Last(generators), messages, raised)

\* The exception is raised, or the first of the messages is returned.
Finish ==
    /\ control = "run" /\ generators = <<>>
    /\ control' = "ended" /\ messages' = <<>> /\ exception' = "none"
    /\ UNCHANGED <<generators, stepping, sent, dropped>>

----------------------------------------------------------------------------
(* The caller of compose.                                                     *)

Yielded == control \in {"value", "data", "step"}

\* next, or send(None)
SendNone ==
    /\ control = "new" \/ Yielded
    /\ control' = "run"
    /\ messages' = IF control = "new" THEN messages ELSE <<None>> \o messages
    /\ UNCHANGED <<generators, exception, stepping, sent, dropped>>

\* Data is taken after a None only; else an AssertionError goes to the generator
\* or, when stepping, to the caller of the one that has not started.
SendData ==
    /\ Yielded /\ control' = "run" /\ UNCHANGED stepping
    /\ \/ /\ control = "data" /\ sent < MaxSend
          /\ sent' = sent + 1 /\ messages' = <<sent + 1>> \o messages
          /\ UNCHANGED <<generators, exception, dropped>>
       \/ /\ control = "value" /\ exception' = "error"
          /\ UNCHANGED <<generators, messages, sent, dropped>>
       \/ /\ control = "step" /\ exception' = "error"
          /\ generators' = Front(generators)
          /\ UNCHANGED <<messages, sent, dropped>>

\* throw and close; a generator that has not started ends by it, and so does
\* compose itself.
ThrowIn ==
    /\ control = "new" \/ Yielded
    /\ control' = "run" /\ exception' \in {"error", "exit"}
    /\ generators' = IF control \in {"new", "step"} THEN Front(generators) ELSE generators
    /\ messages' = IF control = "new" THEN <<>> ELSE messages
    /\ UNCHANGED <<stepping, sent, dropped>>

Next ==
    \/ Send \/ Throw \/ Close \/ Finish
    \/ SendNone \/ SendData \/ ThrowIn

Spec == Init /\ [][Next]_vars

----------------------------------------------------------------------------
\* Each generator gets what it awaits, whatever was pushed back or thrown
\* before: None to start with and after a value, a result or None for a call,
\* data or None when it has asked.
Suits(awaits, message) ==
    CASE awaits = "call" -> message \in {None, Result}
      [] awaits = "data" -> message \in Data \cup {None}
      [] OTHER -> message = None
RightMessage ==
    control = "run" /\ exception = "none" /\ generators # <<>> =>
        messages # <<>> /\ Suits(Last(generators).awaits, Head(messages))

\* Types, with what compose waits for, and messages that suit.
IInv == TypeOK /\ RightMessage

\* Data stands in a list, or in two, in the order in which it was sent.
Increasing(list) ==
    \A m, n \in DOMAIN list :
        m < n /\ list[m] \in Data /\ list[n] \in Data => list[m] < list[n]
Before(list, other) ==
    \A d \in Range(list) \cap Data, e \in Range(other) \cap Data : d < e

\* What the generators have, from the outermost on, and then what waits.
Ordered(stack, queue) ==
    /\ Increasing(queue)
    /\ \A i \in DOMAIN stack :
          /\ Increasing(stack[i].got) /\ Before(stack[i].got, queue)
          /\ \A j \in DOMAIN stack : i < j => Before(stack[i].got, stack[j].got)
Had(stack, queue) ==
    (Range(queue) \cap Data) \cup UNION {Range(stack[i].got) : i \in DOMAIN stack}

\* No data is lost, given twice or out of order: what the generators have and
\* what waits is in the order it was sent, and the rest was dropped by a
\* generator that ended without pushing it back.
DataInOrder ==
    /\ Ordered(generators, messages)
    /\ control # "ended" => Had(generators, messages) \cup dropped = 1..sent
=============================================================================
