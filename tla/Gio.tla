-------------------------------- MODULE Gio -------------------------------
(* weightless/io/_gio.py: a generator that does I/O by its yields.  A driver, *)
(* callback2generator, writes what it yields to the context it is in, reads   *)
(* for it when it yields None, and throws timeouts and closes into it.  The   *)
(* contexts are sockets in with-blocks; timers are with-blocks as well.       *)
EXTENDS Descriptors, Sequences, SequencesExt

CONSTANTS Mine,       \* the clients whose sockets are the contexts
          Incoming,   \* what the other sides send: one string of tokens for each
          MaxBlocks,  \* bound: with-blocks inside each other
          MaxTimers   \* bound: timers made

\* A unit of data, the close and the reset of the other side; without one of the
\* last two it falls silent.
Tokens == {"data", "end", "reset"}

Timers == {"pending", "fired"}

GioAssumption ==
    /\ Mine \subseteq Client /\ Mine \cap Timers = {}
    /\ Incoming \subseteq [Mine -> Seq(Tokens)]
    /\ {MaxBlocks, MaxTimers} \subseteq Nat

VARIABLES pc,       \* of the driver
          by,       \* what the generator runs by: a send, or a throw
          blocks,   \* the with-blocks the generator is in, the innermost last:
                    \* contexts, and timers that are pending or have fired
          context,  \* the driver's: the one it reads or writes
          coming,   \* tokens not read
          message,  \* the driver's: a unit of data by number, Closing or None
          got,      \* history: the messages the generator was sent
          units,    \* history: units of data read
          made, fired  \* bound and history: timers made, timeouts thrown

state == <<pc, by, blocks, context, coming, message>>
history == <<got, units, made, fired>>
vars == <<state, history, num, fds>>

Waiting == {"read", "write"}
Over == {"parked", "dead"}
Closing == 0  \* the empty message

Init ==
    /\ pc = "new" /\ by = "send" /\ blocks = <<>> /\ coming \in Incoming
    /\ context = None /\ message = None /\ got = <<>> /\ units = 0 /\ made = 0 /\ fired = 0
-----------------------------------------------------------------------------
(* The generator: what it does until it yields or ends.  An exception that was *)
(* thrown is handled around any of the blocks it leaves, or by its end.       *)

Running == pc = "running"

\* The program opens the sockets and makes a Gio, which runs the generator.
Opened(c) == num[c] # None
Open(c) ==
    /\ pc = "new" /\ ~Opened(c) /\ Available # {}
    /\ num' = [num EXCEPT ![c] = Lowest]
    /\ UNCHANGED <<state, history, fds>>
Make ==
    /\ pc = "new" /\ \A c \in Mine : Opened(c)
    /\ pc' = "running"
    /\ UNCHANGED <<by, blocks, context, coming, message, history, num, fds>>

\* Or it closes one.
Close(c) ==
    /\ Running /\ Opened(c)
    /\ num' = [num EXCEPT ![c] = None]
    /\ UNCHANGED <<state, history, fds>>

\* Context.__enter__ pushes; Timer.__enter__ sets the timer.
Enter(block) ==
    /\ Running /\ Len(blocks) < MaxBlocks
    /\ \/ block \in Mine /\ Opened(block) /\ UNCHANGED made
       \/ block = "pending" /\ made < MaxTimers /\ made' = made + 1
    /\ blocks' = Append(blocks, block)
    /\ UNCHANGED <<pc, by, context, coming, message, got, units, fired, num, fds>>

\* __exit__ pops, or removes the timer when it has not fired.
Exit ==
    /\ Running /\ blocks # <<>>
    /\ blocks' = Front(blocks)
    /\ UNCHANGED <<pc, by, context, coming, message, history, num, fds>>

\* The last of _contextstack
Innermost(c) ==
    \E i \in DOMAIN blocks :
        blocks[i] = c /\ \A j \in DOMAIN blocks : j > i => blocks[j] \notin Mine

\* A generator ends, and with it its blocks.  The driver is parked after the
\* return of a generator that was sent something, or the CloseException that it
\* let pass; after any other end it is dead.  When that is an answer to a
\* CloseException, the context is closed first.
Ends ==
    /\ Running
    /\ \/ by \in {"send", "close"} /\ pc' = "parked" /\ UNCHANGED num
       \/ by # "close" /\ pc' = "dead" /\ UNCHANGED num
       \/ by = "close" /\ pc' = "dead" /\ num' = [num EXCEPT ![context] = None]
    /\ blocks' = <<>>
    /\ UNCHANGED <<by, context, coming, message, history, fds>>

\* What it yields: a response, or None to read.  Outside a context an
\* AssertionError ends the driver and the loop, and in a closed one the driver
\* uses a number that is not its own; both are left out.
Intent(kind) == IF kind = "write" THEN "writer" ELSE "reader"

Yields(kind) ==
    /\ Running
    /\ by = "send" \/ (by = "timeout" /\ kind = "write")
    /\ \E c \in Mine :
          /\ Innermost(c) /\ Opened(c) /\ context' = c
          /\ IF fds[num[c]] = None
             THEN /\ fds' = [fds EXCEPT ![num[c]] = <<c, Intent(kind)>>]
                  /\ pc' = kind /\ by' = "send"
             ELSE pc' = "dead" /\ UNCHANGED <<by, fds>>  \* ValueError
    /\ UNCHANGED <<blocks, coming, message, history, num>>

\* The answer to a TimeoutException is None: the loop begins again with a send of
\* the message it has, which is None or was sent before.
YieldsAfterTimeout ==
    /\ Running /\ by = "timeout"
    /\ by' = "send"
    /\ got' = IF message = None THEN got ELSE Append(got, message)
    /\ UNCHANGED <<pc, blocks, context, coming, message, units, made, fired, num, fds>>

\* The answer to a CloseException is dropped, whatever it is, and the context is
\* closed, which raises when it was closed already; then the empty message is
\* sent.
YieldsAfterClose ==
    /\ Running /\ by = "close"
    /\ IF Opened(context)
       THEN /\ num' = [num EXCEPT ![context] = None]
            /\ by' = "send" /\ got' = Append(got, message) /\ UNCHANGED pc
       ELSE pc' = "dead" /\ UNCHANGED <<by, got, num>>
    /\ UNCHANGED <<blocks, context, coming, message, units, made, fired, fds>>

-----------------------------------------------------------------------------
(* The driver, in a callback of the reactor.                                  *)

\* context.write: the last byte is written.  Parts before it change nothing.
Written ==
    /\ pc = "write"
    /\ Unregisters(context)
    /\ pc' = "running" /\ message' = None
    /\ UNCHANGED <<by, blocks, context, coming, history>>

\* context.read: the generator is sent what is read.
Next1(token) == coming[context] # <<>> /\ Head(coming[context]) = token

Read ==
    /\ pc = "read" /\ Next1("data")
    /\ Unregisters(context)
    /\ coming' = [coming EXCEPT ![context] = Tail(@)]
    /\ units' = units + 1 /\ message' = units' /\ got' = Append(got, units')
    /\ pc' = "running"
    /\ UNCHANGED <<by, blocks, context, made, fired>>

\* The other side closed: a CloseException is thrown.
ReadEnd ==
    /\ pc = "read" /\ Next1("end")
    /\ Unregisters(context)
    /\ message' = Closing /\ by' = "close" /\ pc' = "running"
    /\ UNCHANGED <<blocks, context, coming, history>>

\* os.read or os.write raises, or what was read ends in the middle of a
\* character: the driver ends, and the generator is not told.
Fails ==
    /\ pc = "write" \/ (pc = "read" /\ (Next1("data") \/ Next1("reset")))
    /\ Unregisters(context)
    /\ pc' = "dead"
    /\ UNCHANGED <<by, blocks, context, coming, message, history>>

\* _timedOut: a TimeoutException is thrown at the driver's yield, and by it into
\* the generator; a driver that is over swallows it.
TimesOut(i) ==
    /\ pc \in Waiting \cup Over /\ blocks[i] = "pending"
    /\ blocks' = [blocks EXCEPT ![i] = "fired"]
    /\ IF pc \in Waiting
       THEN /\ Unregisters(context)
            /\ by' = "timeout" /\ pc' = "running" /\ fired' = fired + 1
       ELSE UNCHANGED <<by, pc, fired, num, fds>>
    /\ UNCHANGED <<context, coming, message, got, units, made>>

\* A generator that nobody resumes any more is collected with its sockets, when
\* no timer in the reactor leads to it.
Collect ==
    /\ pc \in Over /\ "pending" \notin ToSet(blocks)
    /\ \E c \in Mine : Opened(c)
    /\ num' = [c \in Client |-> IF c \in Mine THEN None ELSE num[c]]
    /\ blocks' = <<>>
    /\ UNCHANGED <<pc, by, context, coming, message, history, fds>>

Generator ==
    \/ \E c \in Mine : Close(c)
    \/ \E b \in Mine \cup {"pending"} : Enter(b)
    \/ Exit \/ Ends
    \/ \E kind \in Waiting : Yields(kind)
    \/ YieldsAfterTimeout \/ YieldsAfterClose

TimerFires == \E i \in DOMAIN blocks : TimesOut(i)

Next ==
    \/ \E c \in Mine : Open(c)
    \/ Make \/ Generator
    \/ Written \/ Read \/ ReadEnd \/ Fails \/ TimerFires \/ Collect
-----------------------------------------------------------------------------
TypeOK ==
    /\ DescriptorsTypeOK
    /\ pc \in Waiting \cup Over \cup {"new", "running"}
    /\ by \in {"send", "timeout", "close"}
    /\ blocks \in Seq(Mine \cup Timers) /\ Len(blocks) <= MaxBlocks
    /\ context \in Mine \cup {None} /\ coming \in [Mine -> Seq(Tokens)]
    /\ message \in Nat \cup {None} /\ got \in Seq(Nat) /\ units \in Nat
    /\ made \in 0..MaxTimers /\ fired \in 0..made

\* A driver that waits is registered for the innermost context and nothing else;
\* one that does not wait has no registration.
Watched ==
    \A c \in Mine, n \in Numbers, kind \in Kinds :
        fds[n] = <<c, kind>> <=>
            /\ pc \in Waiting /\ kind = Intent(pc)
            /\ Innermost(c) /\ n = num[c]

\* The generator is sent each unit that is read, at once and in order; again
\* only after a timeout, at most once each, and then nothing older than the last.
InOrder ==
    LET data == {i \in DOMAIN got : got[i] # Closing}
    IN  /\ \A i, j \in data : i < j => got[i] <= got[j]
        /\ {got[i] : i \in data} = 1..units
        /\ Cardinality(data) <= units + fired
=============================================================================
