---------------------------- MODULE WaitingProofs ---------------------------
(* Theorems about those who wait, and what they are given or woken up by:     *)
(* the generators that compose runs, for stacks of any depth and any number   *)
(* of data; a client that is parked at a Suspend, for any number of Suspends, *)
(* with and without a timeout, whoever settles them and in whatever order;    *)
(* and the reactor, asleep in its poll, for any number of threads that hand   *)
(* it processes and timers.  The three have no state in common.               *)
EXTENDS Compose, Suspend, ReactorThreads, SequenceTheorems, FiniteSetTheorems,
        TLAPS

----------------------------------------------------------------------------
(* A generator that waits for its message.                                    *)

\* What waits behind the next message is data that was pushed back; it stays
\* when an exception is thrown, and when the caller of compose has its turn.
Leftover ==
    /\ control \in {"value", "data", "step"} => messages \in Seq(Data)
    /\ control = "run" /\ exception # "none" => messages \in Seq(Data)
    /\ control = "run" /\ exception = "none" /\ generators # <<>> =>
          Tail(messages) \in Seq(Data)
    /\ control = "new" => messages = <<None>>

MessageInv == TypeOK /\ RightMessage /\ Leftover

\* All but the last of a sequence.
LEMMA FrontIs ==
    ASSUME NEW S, NEW s \in Seq(S), s # <<>>
    PROVE  /\ Len(s) \in Nat \ {0} /\ Front(s) \in Seq(S)
           /\ Len(Front(s)) = Len(s) - 1
           /\ \A i \in 1..(Len(s) - 1) : Front(s)[i] = s[i]
<1>1. Len(s) \in Nat \ {0}
  OBVIOUS
<1>2. \A i \in 1..(Len(s) - 1) : s[i] \in S
  BY <1>1
<1>3. /\ SubSeq(s, 1, Len(s) - 1) \in Seq(S)
      /\ Len(SubSeq(s, 1, Len(s) - 1)) = Len(s) - 1
      /\ \A i \in 1..(Len(s) - 1) : SubSeq(s, 1, Len(s) - 1)[i] = s[i]
  <2>. DEFINE n == Len(s) - 1
  <2>0. n \in Nat
    BY <1>1
  <2>2. \A i \in 1..n : i \in Int /\ 1 + i - 1 = i
    BY <1>1
  <2>3. \A i \in 1..n : s[i] \in S
    BY <1>2
  <2>. HIDE DEF n
  <2>1. n \in Int /\ 1 \in Int /\ (IF 1 <= n THEN n - 1 + 1 ELSE 0) = n
    BY <2>0
  <2>4. /\ SubSeq(s, 1, n) \in Seq(S)
        /\ Len(SubSeq(s, 1, n)) = IF 1 <= n THEN n - 1 + 1 ELSE 0
        /\ \A i \in 1..(n - 1 + 1) : SubSeq(s, 1, n)[i] = s[1 + i - 1]
    BY <2>1, <2>3, SubSeqProperties
  <2>5. n - 1 + 1 = n
    BY <2>1
  <2>. QED
    BY <2>1, <2>2, <2>4, <2>5 DEF n
<1>. QED
  BY <1>1, <1>3 DEF Front

\* A generator that goes on has its place on the stack.
LEMMA BecameTop ==
    ASSUME TypeOK, generators # <<>>, NEW gen \in Frames,
           NEW awaits \in {"start", "value", "data", "call"}
    PROVE  LET top == Became(gen, awaits) IN
           /\ top \in Seq(Frames) /\ Len(top) \in Nat \ {0} /\ top # <<>>
           /\ Last(top).awaits = awaits
           /\ \A i \in 1..(Len(top) - 1) : top[i].awaits = "call"
<1>. DEFINE frame == [gen EXCEPT !.awaits = awaits]
            top == Front(generators) \o <<frame>>
<1>1. generators \in Seq(Frames) /\ Len(generators) \in Nat \ {0}
  BY DEF TypeOK
<1>2. frame \in Frames /\ frame.awaits = awaits
  BY DEF Frames
<1>3. /\ Front(generators) \in Seq(Frames)
      /\ Len(Front(generators)) = Len(generators) - 1
      /\ \A i \in 1..(Len(generators) - 1) : Front(generators)[i] = generators[i]
  BY <1>1, FrontIs
<1>. HIDE DEF frame
<1>4. /\ top \in Seq(Frames) /\ Len(top) = Len(generators)
      /\ top[Len(generators)] = frame
      /\ \A i \in 1..(Len(generators) - 1) : top[i] = generators[i]
  BY <1>1, <1>2, <1>3
<1>5. \A i \in 1..(Len(generators) - 1) : generators[i].awaits = "call"
  BY DEF TypeOK
<1>6. Last(top).awaits = awaits
  BY <1>2, <1>4 DEF Last
<1>7. Len(top) \in Nat \ {0} /\ top # <<>>
  BY <1>1, <1>4
<1>. QED
  BY <1>4, <1>5, <1>6, <1>7 DEF Became, frame

\* A generator that calls has its callee above it.
LEMMA BecameCaller ==
    ASSUME TypeOK, generators # <<>>, NEW gen \in Frames
    PROVE  LET stack == Became(gen, "call") \o <<Fresh>> IN
           /\ stack \in Seq(Frames) /\ stack # <<>> /\ Last(stack) = Fresh
           /\ \A i \in 1..(Len(stack) - 1) : stack[i].awaits = "call"
<1>. DEFINE top == Became(gen, "call")
<1>0. /\ top \in Seq(Frames) /\ Len(top) \in Nat \ {0}
      /\ Last(top).awaits = "call"
      /\ \A i \in 1..(Len(top) - 1) : top[i].awaits = "call"
  BY BecameTop
<1>1. /\ top \in Seq(Frames) /\ Len(top) \in Nat \ {0}
      /\ \A i \in 1..Len(top) : top[i].awaits = "call"
  BY <1>0 DEF Last
<1>2. Fresh \in Frames
  BY DEF Fresh, Frames
<1>. HIDE DEF top
<1>3. /\ top \o <<Fresh>> \in Seq(Frames) /\ Len(top \o <<Fresh>>) = Len(top) + 1
      /\ (top \o <<Fresh>>)[Len(top) + 1] = Fresh
      /\ \A i \in 1..Len(top) : (top \o <<Fresh>>)[i] = top[i]
  BY <1>1, <1>2
<1>. QED
  BY <1>1, <1>3 DEF Last, top

\* Below a generator that ends there is none, or one that has called it.
LEMMA Popped ==
    ASSUME TypeOK, generators # <<>>
    PROVE  /\ Front(generators) \in Seq(Frames)
           /\ Len(generators) = 1 => Front(generators) = <<>>
           /\ Len(generators) > 1 =>
                 Front(generators) # <<>> /\ Last(Front(generators)).awaits = "call"
           /\ \A i \in 1..(Len(Front(generators)) - 1) :
                 Front(generators)[i].awaits = "call"
<1>1. generators \in Seq(Frames) /\ Len(generators) \in Nat \ {0}
  BY DEF TypeOK
<1>2. /\ Front(generators) \in Seq(Frames)
      /\ Len(Front(generators)) = Len(generators) - 1
      /\ \A i \in 1..(Len(generators) - 1) : Front(generators)[i] = generators[i]
  BY <1>1, FrontIs
<1>3. \A i \in 1..(Len(generators) - 1) : generators[i].awaits = "call"
  BY DEF TypeOK
<1>. QED
  BY <1>1, <1>2, <1>3 DEF Last

\* What happens to the history variables does not matter.
LEMMA KeptTypes ==
    ASSUME TypeOK, NEW gen \in Frames, dropped' \in SUBSET (dropped \cup Range(gen.got))
    PROVE  dropped' \in SUBSET Data
<1>1. gen.got \in Seq(Data)
  BY DEF Frames
<1>2. Range(gen.got) \subseteq Data
  BY <1>1 DEF Range
<1>. QED
  BY <1>2 DEF TypeOK

----------------------------------------------------------------------------
\* A generator that yields or calls leaves a stack whose last one awaits what
\* comes next.
LEMMA GoesOn ==
    ASSUME TypeOK, control = "run", generators # <<>>, UNCHANGED <<stepping, sent>>,
           NEW gen \in Frames, NEW queue \in Seq(Data),
           \/ YieldsValue(gen, queue) \/ YieldsNone(gen, queue)
           \/ Calls(gen, queue) \/ CallsUsed(gen, queue)
    PROVE  MessageInv'
<1>. DEFINE Shape == /\ generators' \in Seq(Frames)
                     /\ \A i \in 1..(Len(generators') - 1) : generators'[i].awaits = "call"
<1>0. /\ queue \in Seq(Messages) /\ <<None>> \o queue \in Seq(Messages)
      /\ Head(<<None>> \o queue) = None /\ Tail(<<None>> \o queue) = queue
      /\ <<None>> \o queue # <<>>
  BY DEF Messages
<1>k. stepping' \in BOOLEAN /\ sent' \in Nat /\ (UNCHANGED dropped => dropped' \in SUBSET Data)
  BY DEF TypeOK
<1>1. CASE YieldsValue(gen, queue)
  <2>1. Shape /\ Last(generators').awaits = "value" /\ generators' # <<>>
    BY <1>1, BecameTop DEF YieldsValue
  <2>. QED
    BY <1>0, <1>k, <1>1, <2>1 DEF YieldsValue, MessageInv, TypeOK, RightMessage, Leftover
<1>2. CASE YieldsNone(gen, queue)
  <2>1. Shape /\ Last(generators').awaits = "data" /\ generators' # <<>>
    BY <1>2, BecameTop DEF YieldsNone
  <2>2. queue # <<>> => Head(queue) \in Data /\ Tail(queue) \in Seq(Data)
    OBVIOUS
  <2>. QED
    BY <1>0, <1>k, <1>2, <2>1, <2>2
    DEF YieldsNone, MessageInv, TypeOK, RightMessage, Leftover, Suits
<1>3. CASE Calls(gen, queue)
  <2>1. Shape /\ Last(generators') = Fresh /\ generators' # <<>>
    BY <1>3, BecameCaller DEF Calls
  <2>. QED
    BY <1>0, <1>k, <1>3, <2>1
    DEF Calls, MessageInv, TypeOK, RightMessage, Leftover, Suits, Fresh
<1>4. CASE CallsUsed(gen, queue)
  <2>1. Shape
    BY <1>4, BecameTop DEF CallsUsed
  <2>. QED
    BY <1>0, <1>k, <1>4, <2>1 DEF CallsUsed, MessageInv, TypeOK, RightMessage, Leftover
<1>. QED
  BY <1>1, <1>2, <1>3, <1>4

\* What a generator returns goes to the one that called it.
LEMMA ReturnsToCaller ==
    ASSUME TypeOK, control = "run", generators # <<>>, UNCHANGED <<stepping, sent>>,
           NEW gen \in Frames, NEW queue \in Seq(Data), Returns(gen, queue)
    PROVE  MessageInv'
<1>1. PICK retval \in Returned(gen) :
          /\ messages' = (IF retval = <<>> /\ Len(generators) > 1 THEN <<None>> ELSE retval)
                         \o queue
          /\ dropped' = dropped \cup (Range(gen.got) \ Range(retval))
  BY DEF Returns
<1>2. /\ generators' = Front(generators) /\ exception' = "none" /\ control' = "run"
  BY DEF Returns
<1>3. dropped' \in SUBSET Data
  BY <1>1, KeptTypes
<1>4. Len(generators) = 1 \/ Len(generators) > 1
  <2>1. Len(generators) \in Nat \ {0}
    BY FrontIs DEF TypeOK
  <2>. QED
    BY <2>1
<1>5. gen.got \in Seq(Data)
  BY DEF Frames
<1>6. PICK back \in Seq(Data) :
          retval = <<>> \/ retval = <<Result>> \o back
  <2>1. \A i \in 1..(Len(gen.got) + 1) : SubSeq(gen.got, i, Len(gen.got)) \in Seq(Data)
    BY <1>5
  <2>2. <<>> \in Seq(Data)
    OBVIOUS
  <2>. QED
    BY <2>1, <2>2 DEF Returned
<1>7. CASE retval = <<Result>> \o back
  <2>1. /\ retval # <<>> /\ retval \o queue \in Seq(Messages)
        /\ retval \o queue # <<>>
        /\ Head(retval \o queue) = Result /\ Tail(retval \o queue) = back \o queue
        /\ back \o queue \in Seq(Data)
    BY <1>7 DEF Messages
  <2>2. messages' = retval \o queue
    BY <1>1, <2>1
  <2>3. generators' # <<>> => Last(generators').awaits = "call"
    BY <1>2, <1>4, Popped
  <2>4. TypeOK'
    BY <1>2, <1>3, <2>1, <2>2, Popped DEF TypeOK
  <2>5. Leftover'
    BY <1>2, <2>1, <2>2 DEF Leftover
  <2>6. RightMessage'
    BY <2>1, <2>2, <2>3 DEF RightMessage, Suits
  <2>. QED
    BY <2>4, <2>5, <2>6 DEF MessageInv
<1>8. CASE retval = <<>> /\ Len(generators) > 1
  <2>1. /\ <<None>> \o queue \in Seq(Messages) /\ <<None>> \o queue # <<>>
        /\ Head(<<None>> \o queue) = None /\ Tail(<<None>> \o queue) = queue
    BY DEF Messages
  <2>. QED
    BY <1>1, <1>2, <1>3, <1>8, <2>1, Popped
    DEF MessageInv, TypeOK, RightMessage, Leftover, Suits
<1>9. CASE retval = <<>> /\ Len(generators) = 1
  <2>1. messages' = queue /\ queue \in Seq(Messages)
    BY <1>1, <1>9 DEF Messages
  <2>. QED
    BY <1>2, <1>3, <1>9, <2>1, Popped DEF MessageInv, TypeOK, RightMessage, Leftover
<1>. QED
  BY <1>4, <1>6, <1>7, <1>8, <1>9

\* An exception leaves what was pushed back as it is.
LEMMA RaisesToCaller ==
    ASSUME TypeOK, control = "run", generators # <<>>, UNCHANGED <<stepping, sent>>,
           NEW gen \in Frames, NEW queue \in Seq(Data), NEW raised \in {"error", "exit"},
           Raises(gen, queue, raised)
    PROVE  MessageInv'
<1>1. dropped' \in SUBSET Data
  BY KeptTypes DEF Raises
<1>2. queue \in Seq(Messages)
  BY DEF Messages
<1>. QED
  BY <1>1, <1>2, Popped DEF Raises, MessageInv, TypeOK, RightMessage, Leftover

\* Whatever a generator does, the next one gets what it awaits.
LEMMA RunsOn ==
    ASSUME TypeOK, control = "run", generators # <<>>, UNCHANGED <<stepping, sent>>,
           NEW gen \in Frames, NEW queue \in Seq(Data), Runs(gen, queue)
    PROVE  MessageInv'
BY GoesOn, ReturnsToCaller, RaisesToCaller DEF Runs

----------------------------------------------------------------------------
\* The last generator of the stack is a frame.
LEMMA LastFrame ==
    ASSUME TypeOK, generators # <<>>
    PROVE  Last(generators) \in Frames
BY DEF TypeOK, Last

\* One turn of the loop.
LEMMA LoopMessages ==
    ASSUME MessageInv, Send \/ Throw \/ Close \/ Finish
    PROVE  MessageInv'
<1>. USE DEF MessageInv
<1>1. CASE Send
  <2>. DEFINE message == Head(messages)
              gen == IF message \in Data
                     THEN [Last(generators) EXCEPT !.got = Append(@, message)]
                     ELSE Last(generators)
  <2>1. /\ control = "run" /\ generators # <<>> /\ UNCHANGED <<stepping, sent>>
        /\ exception = "none" /\ Runs(gen, Tail(messages))
    BY <1>1 DEF Send, Running
  <2>2. gen \in Frames
    BY <2>1, LastFrame DEF Frames
  <2>3. Tail(messages) \in Seq(Data)
    BY <2>1 DEF Leftover
  <2>. HIDE DEF gen
  <2>. QED
    BY <2>1, <2>2, <2>3, RunsOn
<1>2. CASE Throw
  <2>1. /\ control = "run" /\ generators # <<>> /\ UNCHANGED <<stepping, sent>>
        /\ messages \in Seq(Data)
    BY <1>2 DEF Throw, Running, Leftover
  <2>. QED
    BY <1>2, <2>1, LastFrame, RunsOn DEF Throw
<1>3. CASE Close
  <2>1. /\ control = "run" /\ generators # <<>> /\ UNCHANGED <<stepping, sent>>
        /\ messages \in Seq(Data)
    BY <1>3 DEF Close, Running, Leftover
  <2>. QED
    BY <1>3, <2>1, LastFrame, RaisesToCaller DEF Close
<1>4. CASE Finish
  BY <1>4 DEF Finish, TypeOK, RightMessage, Leftover
<1>. QED
  BY <1>1, <1>2, <1>3, <1>4

\* The caller sends None, data, or an exception.
LEMMA CallerMessages ==
    ASSUME MessageInv, SendNone \/ SendData \/ ThrowIn
    PROVE  MessageInv'
<1>. USE DEF MessageInv
<1>0. control = "new" \/ Yielded => generators # <<>>
  BY DEF Yielded, TypeOK
<1>1. CASE SendNone
  <2>1. CASE control = "new"
    <3>1. /\ UNCHANGED <<messages, generators, exception, stepping, sent, dropped>>
          /\ control' = "run" /\ messages = <<None>>
      BY <1>1, <2>1 DEF SendNone, Leftover
    <3>2. Last(generators) = Fresh
      BY <2>1 DEF TypeOK
    <3>3. Head(<<None>>) = None /\ Tail(<<None>>) \in Seq(Data) /\ <<None>> # <<>>
      OBVIOUS
    <3>. QED
      BY <2>1, <3>1, <3>2, <3>3 DEF TypeOK, RightMessage, Leftover, Suits, Fresh
  <2>2. CASE Yielded
    <3>1. /\ UNCHANGED <<generators, exception, stepping, sent, dropped>>
          /\ control' = "run" /\ messages' = <<None>> \o messages
          /\ messages \in Seq(Data) /\ exception = "none"
      BY <1>1, <2>2 DEF SendNone, Leftover, Yielded, TypeOK
    <3>2. Last(generators).awaits \in {"start", "value", "data"}
      BY <2>2 DEF TypeOK, Yielded, Fresh
    <3>3. /\ messages' \in Seq(Messages) /\ messages' # <<>>
          /\ Head(messages') = None /\ Tail(messages') = messages
      BY <3>1 DEF Messages
    <3>. QED
      BY <3>1, <3>2, <3>3 DEF TypeOK, RightMessage, Leftover, Suits
  <2>. QED
    BY <1>1, <2>1, <2>2 DEF SendNone
<1>2. CASE SendData
  <2>0. control' = "run" /\ UNCHANGED stepping /\ messages \in Seq(Data)
    BY <1>2 DEF SendData, Leftover, Yielded
  <2>1. CASE control = "data"
    <3>1. /\ UNCHANGED <<generators, exception, dropped>>
          /\ sent' = sent + 1 /\ messages' = <<sent + 1>> \o messages
          /\ exception = "none" /\ Last(generators).awaits = "data"
      BY <1>2, <2>1 DEF SendData, TypeOK
    <3>2. sent + 1 \in Data /\ sent' \in Nat
      BY <3>1 DEF TypeOK, Data
    <3>3. /\ messages' \in Seq(Messages) /\ messages' # <<>>
          /\ Head(messages') = sent + 1 /\ Tail(messages') = messages
      BY <2>0, <3>1, <3>2 DEF Messages
    <3>. QED
      BY <2>0, <3>1, <3>2, <3>3 DEF TypeOK, RightMessage, Leftover, Suits
  <2>2. CASE control = "value"
    BY <1>2, <2>0, <2>2 DEF SendData, TypeOK, RightMessage, Leftover
  <2>3. CASE control = "step"
    BY <1>0, <1>2, <2>0, <2>3, Popped DEF SendData, TypeOK, RightMessage, Leftover, Yielded
  <2>. QED
    BY <1>2, <2>1, <2>2, <2>3 DEF SendData, Yielded
<1>3. CASE ThrowIn
  <2>1. /\ control' = "run" /\ exception' \in {"error", "exit"}
        /\ UNCHANGED <<stepping, sent, dropped>>
    BY <1>3 DEF ThrowIn
  <2>2. messages' \in Seq(Data)
    BY <1>3 DEF ThrowIn, Yielded, Leftover
  <2>3. messages' \in Seq(Messages)
    BY <2>2 DEF Messages
  <2>4. /\ generators' \in Seq(Frames)
        /\ \A i \in 1..(Len(generators') - 1) : generators'[i].awaits = "call"
    BY <1>0, <1>3, Popped DEF ThrowIn, TypeOK
  <2>. QED
    BY <2>1, <2>2, <2>3, <2>4 DEF TypeOK, RightMessage, Leftover
<1>. QED
  BY <1>1, <1>2, <1>3

\* At the start None waits for the generator.
LEMMA InitMessages == Init => MessageInv
<1>. SUFFICES ASSUME Init PROVE MessageInv
  OBVIOUS
<1>1. Fresh \in Frames /\ Len(<<Fresh>>) = 1 /\ Last(<<Fresh>>) = Fresh
  BY DEF Fresh, Frames, Last
<1>. QED
  BY <1>1 DEF Init, MessageInv, TypeOK, RightMessage, Leftover, Messages

\* The inductive invariant of the loop.
THEOREM MessagesSuit == Spec => []MessageInv
<1>1. MessageInv /\ [Next]_vars => MessageInv'
  <2>1. CASE UNCHANGED vars
    BY <2>1 DEF vars, MessageInv, TypeOK, RightMessage, Leftover
  <2>. QED
    BY <2>1, LoopMessages, CallerMessages DEF Next
<1>. QED
  BY <1>1, InitMessages, PTL DEF Spec

\* The stack, the messages and the turns have their types.
THEOREM ComposeTypes == Spec => []TypeOK
<1>1. MessageInv => TypeOK
  BY DEF MessageInv
<1>. QED
  BY <1>1, MessagesSuit, PTL

\* Every generator gets what it awaits, in stacks of any depth, with any number
\* of data pushed back, exceptions thrown and steps taken.
THEOREM MessageIsRight == Spec => []IInv
<1>1. MessageInv => IInv
  BY DEF MessageInv, IInv
<1>. QED
  BY <1>1, MessagesSuit, PTL

----------------------------------------------------------------------------
(* The order of the data.                                                     *)

\* The data of a concatenation is in order when that of its parts is, and the
\* first part is before the second.
LEMMA ConcatInOrder ==
    ASSUME NEW s \in Seq(Messages), NEW t \in Seq(Messages)
    PROVE  Increasing(s \o t) <=> Increasing(s) /\ Increasing(t) /\ Before(s, t)
<1>1. /\ DOMAIN s = 1..Len(s) /\ DOMAIN t = 1..Len(t) /\ Len(s) \in Nat /\ Len(t) \in Nat
      /\ s \o t \in Seq(Messages) /\ DOMAIN (s \o t) = 1..(Len(s) + Len(t))
  BY LenProperties, ConcatProperties
<1>2. /\ \A i \in 1..Len(s) : (s \o t)[i] = s[i] /\ i \in 1..(Len(s) + Len(t))
      /\ \A i \in 1..Len(t) : /\ (s \o t)[Len(s) + i] = t[i]
                              /\ Len(s) + i \in 1..(Len(s) + Len(t))
  BY <1>1
<1>3. \A i \in 1..(Len(s) + Len(t)) :
         i \in 1..Len(s) \/ \E j \in 1..Len(t) : i = Len(s) + j
  <2>1. SUFFICES ASSUME NEW i \in 1..(Len(s) + Len(t)), i \notin 1..Len(s)
                 PROVE  \E j \in 1..Len(t) : i = Len(s) + j
    OBVIOUS
  <2>2. i - Len(s) \in 1..Len(t) /\ i = Len(s) + (i - Len(s))
    BY <1>1, <2>1
  <2>. QED
    BY <2>2, Zenon
<1>. DEFINE u == s \o t
<1>4. /\ DOMAIN u = 1..(Len(s) + Len(t))
      /\ \A i \in 1..Len(s) : u[i] = s[i]
      /\ \A i \in 1..Len(t) : u[Len(s) + i] = t[i]
  BY <1>1, <1>2
<1>. HIDE DEF u
<1>5. ASSUME Increasing(u) PROVE Increasing(s) /\ Increasing(t) /\ Before(s, t)
  <2>1. Increasing(s)
    BY <1>1, <1>2, <1>4, <1>5 DEF Increasing
  <2>2. Increasing(t)
    <3>1. \A m, n \in 1..Len(t) : m < n => Len(s) + m < Len(s) + n
      BY <1>1
    <3>. QED
      BY <1>1, <1>2, <1>4, <1>5, <3>1 DEF Increasing
  <2>3. Before(s, t)
    <3>1. SUFFICES ASSUME NEW m \in 1..Len(s), NEW n \in 1..Len(t),
                          s[m] \in Data, t[n] \in Data
                   PROVE  s[m] < t[n]
      BY <1>1 DEF Before, Range
    <3>2. m < Len(s) + n
      BY <1>1
    <3>. QED
      BY <1>1, <1>2, <1>4, <1>5, <3>1, <3>2 DEF Increasing
  <2>. QED
    BY <2>1, <2>2, <2>3
<1>6. ASSUME Increasing(s), Increasing(t), Before(s, t) PROVE Increasing(u)
  <2>1. SUFFICES ASSUME NEW m \in DOMAIN u, NEW n \in DOMAIN u, m < n,
                        u[m] \in Data, u[n] \in Data
                 PROVE  u[m] < u[n]
    BY DEF Increasing
  <2>2. CASE m \in 1..Len(s) /\ n \in 1..Len(s)
    BY <1>1, <1>4, <1>6, <2>1, <2>2 DEF Increasing
  <2>3. CASE m \in 1..Len(s) /\ n \notin 1..Len(s)
    <3>1. PICK j \in 1..Len(t) : n = Len(s) + j
      BY <1>3, <1>4, <2>3
    <3>2. u[m] \in Range(s) /\ u[n] \in Range(t)
      BY <1>1, <1>4, <2>3, <3>1 DEF Range
    <3>. QED
      BY <1>6, <2>1, <3>2 DEF Before
  <2>4. CASE m \notin 1..Len(s)
    <3>1. PICK i \in 1..Len(t) : m = Len(s) + i
      BY <1>3, <1>4, <2>4
    <3>2. n \notin 1..Len(s)
      BY <1>1, <1>4, <2>1, <2>4
    <3>3. PICK j \in 1..Len(t) : n = Len(s) + j
      BY <1>3, <1>4, <3>2
    <3>4. i < j
      BY <1>1, <2>1, <3>1, <3>3
    <3>. QED
      BY <1>1, <1>4, <1>6, <2>1, <3>1, <3>3, <3>4 DEF Increasing
  <2>. QED
    BY <2>2, <2>3, <2>4
<1>. QED
  BY <1>5, <1>6 DEF u

\* The data of a frame are messages.
LEMMA GotIsMessages ==
    /\ \A frame \in Frames : frame.got \in Seq(Messages) /\ Range(frame.got) \subseteq Data
    /\ \A s \in Seq(Data) : s \in Seq(Messages) /\ Range(s) \subseteq Data
<1>1. \A s \in Seq(Data) : s \in Seq(Messages)
  BY DEF Messages
<1>2. \A s \in Seq(Data) : Range(s) \subseteq Data
  BY RangeOfSeq
<1>3. \A frame \in Frames : frame.got \in Seq(Data)
  BY DEF Frames
<1>. QED
  BY <1>1, <1>2, <1>3

\* What the last generator has comes before what waits, as if it waited, too.
LEMMA TopWaits ==
    ASSUME NEW below \in Seq(Frames), NEW frame \in Frames, NEW queue \in Seq(Messages)
    PROVE  /\ Ordered(below \o <<frame>>, queue) <=> Ordered(below, frame.got \o queue)
           /\ Had(below \o <<frame>>, queue) = Had(below, frame.got \o queue)
<1>. DEFINE stack == below \o <<frame>>
            top == Len(below) + 1
<1>1. /\ DOMAIN below = 1..Len(below) /\ Len(below) \in Nat
      /\ DOMAIN stack = 1..top /\ stack[top] = frame
      /\ \A i \in 1..Len(below) : stack[i] = below[i]
  BY LenProperties
<1>2. /\ frame.got \in Seq(Messages) /\ Range(frame.got) \subseteq Data
      /\ \A i \in DOMAIN below : Range(below[i].got) \subseteq Data
  <2>1. \A i \in DOMAIN below : below[i] \in Frames
    BY <1>1, ElementOfSeq
  <2>. QED
    BY <2>1, GotIsMessages
<1>3. /\ Range(frame.got \o queue) = Range(frame.got) \cup Range(queue)
      /\ Increasing(frame.got \o queue) <=>
            Increasing(frame.got) /\ Increasing(queue) /\ Before(frame.got, queue)
  BY <1>2, RangeConcatenation, ConcatInOrder
<1>4. /\ top \in DOMAIN stack /\ \A i \in DOMAIN below : i \in DOMAIN stack /\ i < top
      /\ \A i \in DOMAIN stack : i \in DOMAIN below \/ i = top
      /\ \A i \in DOMAIN stack : ~(top < i)
  BY <1>1
<1>. DEFINE all == frame.got \o queue
<1>. HIDE DEF stack, top, all
<1>5. \A i \in DOMAIN below :
         Before(below[i].got, all) <=> Before(below[i].got, frame.got)
                                       /\ Before(below[i].got, queue)
  BY <1>3 DEF Before, all
<1>6. ASSUME Ordered(stack, queue) PROVE Ordered(below, all)
  <2>1. Increasing(all)
    BY <1>1, <1>3, <1>4, <1>6 DEF Ordered, all
  <2>2. ASSUME NEW i \in DOMAIN below
        PROVE  /\ Increasing(below[i].got) /\ Before(below[i].got, all)
               /\ \A j \in DOMAIN below : i < j => Before(below[i].got, below[j].got)
    BY <1>1, <1>4, <1>5, <1>6 DEF Ordered
  <2>. QED
    BY <2>1, <2>2 DEF Ordered
<1>7. ASSUME Ordered(below, all) PROVE Ordered(stack, queue)
  <2>1. Increasing(queue) /\ Increasing(frame.got) /\ Before(frame.got, queue)
    BY <1>3, <1>7 DEF Ordered, all
  <2>2. ASSUME NEW i \in DOMAIN below
        PROVE  /\ Increasing(stack[i].got) /\ Before(stack[i].got, queue)
               /\ \A j \in DOMAIN stack : i < j => Before(stack[i].got, stack[j].got)
    BY <1>1, <1>4, <1>5, <1>7 DEF Ordered
  <2>3. /\ Increasing(stack[top].got) /\ Before(stack[top].got, queue)
        /\ \A j \in DOMAIN stack : top < j => Before(stack[top].got, stack[j].got)
    BY <1>1, <1>4, <2>1
  <2>. QED
    BY <1>4, <2>1, <2>2, <2>3 DEF Ordered
<1>8. Had(stack, queue) = Had(below, all)
  BY <1>1, <1>2, <1>3, <1>4 DEF Had, all
<1>. QED
  BY <1>6, <1>7, <1>8 DEF stack, all

\* What comes first among what waits may go; what waits then is in its order.
LEMMA FirstGoes ==
    ASSUME NEW stack \in Seq(Frames), NEW s \in Seq(Messages), NEW queue \in Seq(Messages)
    PROVE  /\ Ordered(stack, s \o queue) => Ordered(stack, queue)
           /\ Had(stack, s \o queue) = Had(stack, queue) \cup (Range(s) \cap Data)
<1>. DEFINE all == s \o queue
<1>1. /\ Range(all) = Range(s) \cup Range(queue)
      /\ Increasing(all) => Increasing(queue)
  BY RangeConcatenation, ConcatInOrder
<1>. HIDE DEF all
<1>2. Ordered(stack, all) => Ordered(stack, queue)
  BY <1>1 DEF Ordered, Before
<1>3. Had(stack, all) = Had(stack, queue) \cup (Range(s) \cap Data)
  BY <1>1 DEF Had
<1>. QED
  BY <1>2, <1>3 DEF all

\* A None or a result is not data, wherever it waits.
LEMMA NoDataInFront ==
    ASSUME NEW stack \in Seq(Frames), NEW message \in {None, Result},
           NEW queue \in Seq(Messages)
    PROVE  /\ Ordered(stack, <<message>> \o queue) <=> Ordered(stack, queue)
           /\ Had(stack, <<message>> \o queue) = Had(stack, queue)
<1>1. message \notin Data /\ message \in Messages
  BY ComposeAssumption DEF Data, Messages
<1>. DEFINE one == <<message>>
            all == one \o queue
<1>2. /\ one \in Seq(Messages) /\ Range(one) = {message}
      /\ DOMAIN one = {1} /\ one[1] = message
  BY <1>1 DEF Range
<1>3. Range(all) = {message} \cup Range(queue)
  <2>1. one \in Seq(Messages)
    BY <1>2
  <2>. HIDE DEF one
  <2>2. Range(one \o queue) = Range(one) \cup Range(queue)
    BY <2>1, RangeConcatenation
  <2>. QED
    BY <1>2, <2>2
<1>4. Increasing(one) /\ Before(one, queue)
  BY <1>1, <1>2 DEF Increasing, Before
<1>5. Increasing(all) <=> Increasing(queue)
  BY <1>2, <1>4, ConcatInOrder
<1>. HIDE DEF all, one
<1>6. Ordered(stack, all) <=> Ordered(stack, queue)
  BY <1>1, <1>3, <1>5 DEF Ordered, Before
<1>7. Had(stack, all) = Had(stack, queue)
  BY <1>1, <1>3 DEF Had
<1>. QED
  BY <1>6, <1>7 DEF all, one

----------------------------------------------------------------------------
\* The data is in its order, and the caller is asked for more only when none
\* waits.
OrderInv == MessageInv /\ DataInOrder /\ (control = "data" => messages = <<>>)

\* What a generator that runs has, and what waits then, is in order.
RunsInOrder(gen, queue) ==
    /\ Ordered(Front(generators), gen.got \o queue)
    /\ Had(Front(generators), gen.got \o queue) \cup dropped = 1..sent

\* The data is in order after a step that is not the last.
NextInOrder ==
    /\ DataInOrder'
    /\ control' = "data" => messages' = <<>>

\* A generator that yields, or calls another one, keeps its data.
LEMMA GoesOnInOrder ==
    ASSUME TypeOK, generators # <<>>, NEW gen \in Frames, NEW queue \in Seq(Data),
           RunsInOrder(gen, queue), sent' = sent,
           \/ YieldsValue(gen, queue) \/ YieldsNone(gen, queue)
           \/ Calls(gen, queue) \/ CallsUsed(gen, queue)
    PROVE  NextInOrder
<1>. DEFINE below == Front(generators)
<1>1. /\ below \in Seq(Frames) /\ queue \in Seq(Messages)
      /\ Became(gen, "call") \in Seq(Frames)
  BY Popped, GotIsMessages, BecameTop
<1>2. ASSUME NEW awaits \in {"value", "data", "call"}
      PROVE  /\ Ordered(Became(gen, awaits), queue)
             /\ Had(Became(gen, awaits), queue) \cup dropped = 1..sent
  <2>. DEFINE frame == [gen EXCEPT !.awaits = awaits]
  <2>1. frame \in Frames /\ frame.got = gen.got
    BY DEF Frames
  <2>2. Became(gen, awaits) = below \o <<frame>>
    BY DEF Became
  <2>. HIDE DEF frame, below
  <2>3. /\ Ordered(below \o <<frame>>, queue) <=> Ordered(below, frame.got \o queue)
        /\ Had(below \o <<frame>>, queue) = Had(below, frame.got \o queue)
    BY <1>1, <2>1, TopWaits
  <2>. QED
    BY <2>1, <2>2, <2>3 DEF RunsInOrder, below
<1>3. CASE YieldsValue(gen, queue)
  BY <1>2, <1>3 DEF YieldsValue, NextInOrder, DataInOrder
<1>4. CASE YieldsNone(gen, queue)
  BY <1>2, <1>4 DEF YieldsNone, NextInOrder, DataInOrder
<1>5. CASE CallsUsed(gen, queue)
  BY <1>2, <1>5 DEF CallsUsed, NextInOrder, DataInOrder
<1>6. CASE Calls(gen, queue)
  <2>1. /\ generators' = Became(gen, "call") \o <<Fresh>> /\ dropped' = dropped
        /\ messages' \in {queue, <<None>> \o queue} /\ control' \in {"run", "step"}
    BY <1>6 DEF Calls
  <2>. DEFINE stack == Became(gen, "call")
  <2>2. stack \in Seq(Frames) /\ Ordered(stack, queue)
        /\ Had(stack, queue) \cup dropped = 1..sent
    BY <1>1, <1>2
  <2>3. Fresh \in Frames /\ Fresh.got = <<>>
    BY DEF Fresh, Frames
  <2>4. <<None>> \o queue \in Seq(Messages)
    BY <1>1 DEF Messages
  <2>. HIDE DEF stack
  <2>5. /\ Ordered(stack, messages') /\ Had(stack, messages') = Had(stack, queue)
        /\ messages' \in Seq(Messages)
    BY <1>1, <2>1, <2>2, <2>4, NoDataInFront
  <2>6. <<>> \o messages' = messages'
    BY <2>5, ConcatEmptySeq
  <2>7. /\ Ordered(stack \o <<Fresh>>, messages') <=> Ordered(stack, Fresh.got \o messages')
        /\ Had(stack \o <<Fresh>>, messages') = Had(stack, Fresh.got \o messages')
    BY <2>2, <2>3, <2>5, TopWaits
  <2>. QED
    BY <2>1, <2>2, <2>3, <2>5, <2>6, <2>7 DEF NextInOrder, DataInOrder, stack
<1>. QED
  BY <1>3, <1>4, <1>5, <1>6

\* A generator that ends leaves its data, or drops it; what it pushes back is
\* the last that it got, and comes before what waits.
LEMMA EndsInOrder ==
    ASSUME TypeOK, generators # <<>>, NEW gen \in Frames, NEW queue \in Seq(Data),
           RunsInOrder(gen, queue), sent' = sent,
           \/ Returns(gen, queue) \/ \E raised \in {"error", "exit"} : Raises(gen, queue, raised)
    PROVE  NextInOrder
<1>. DEFINE below == Front(generators)
            got == gen.got
<1>1. /\ below \in Seq(Frames) /\ queue \in Seq(Messages)
      /\ got \in Seq(Data) /\ got \in Seq(Messages) /\ Range(got) \subseteq Data
  <2>1. got \in Seq(Data)
    BY DEF Frames
  <2>. QED
    BY <2>1, Popped, GotIsMessages
<1>2. Ordered(below, got \o queue) /\ Had(below, got \o queue) \cup dropped = 1..sent
  BY DEF RunsInOrder
<1>. HIDE DEF below, got
<1>3. ASSUME NEW back \in Seq(Messages), NEW drop \in Seq(Messages), got = drop \o back,
             Range(back) \subseteq Data,
             generators' = below, control' = "run",
             dropped' = dropped \cup (Range(got) \ Range(back)),
             messages' \in {back \o queue, <<None>> \o (back \o queue),
                            <<Result>> \o (back \o queue)}
      PROVE  NextInOrder
  <2>. DEFINE rest == back \o queue
  <2>1. rest \in Seq(Messages) /\ got \o queue = drop \o rest
    BY <1>1, <1>3
  <2>2. Range(rest) = Range(back) \cup Range(queue) /\ Range(got) = Range(drop) \cup Range(back)
    BY <1>1, <1>3, RangeConcatenation
  <2>. HIDE DEF rest
  <2>3. /\ Ordered(below, rest)
        /\ Had(below, got \o queue) = Had(below, rest) \cup (Range(drop) \cap Data)
    BY <1>1, <1>2, <1>3, <2>1, FirstGoes
  <2>4. Range(back) \subseteq Had(below, rest)
    BY <1>3, <2>2 DEF Had
  <2>5. Had(below, rest) \cup dropped' = 1..sent
    BY <1>1, <1>2, <1>3, <2>2, <2>3, <2>4
  <2>6. Ordered(below, messages') /\ Had(below, messages') = Had(below, rest)
    <3>1. \/ messages' = rest
          \/ \E message \in {None, Result} : messages' = <<message>> \o rest
      BY <1>3 DEF rest
    <3>. QED
      <4>1. CASE messages' = rest
        BY <2>3, <4>1
      <4>2. ASSUME NEW message \in {None, Result}, messages' = <<message>> \o rest
            PROVE  Ordered(below, messages') /\ Had(below, messages') = Had(below, rest)
        <5>1. Ordered(below, rest)
          BY <2>3
        <5>2. /\ Ordered(below, <<message>> \o rest) <=> Ordered(below, rest)
              /\ Had(below, <<message>> \o rest) = Had(below, rest)
          BY <1>1, <2>1, NoDataInFront
        <5>. QED
          BY <4>2, <5>1, <5>2
      <4>. QED
        BY <3>1, <4>1, <4>2
  <2>. QED
    BY <1>3, <2>5, <2>6 DEF NextInOrder, DataInOrder
<1>4. /\ <<>> \in Seq(Messages) /\ <<>> \o queue = queue /\ got \o <<>> = got
      /\ Range(<<>>) = {}
  <2>1. Range(<<>>) = {}
    BY DEF Range
  <2>2. <<>> \in Seq(Messages)
    BY EmptySeq
  <2>. QED
    BY <1>1, <2>1, <2>2, ConcatEmptySeq
<1>5. ASSUME NEW raised \in {"error", "exit"}, Raises(gen, queue, raised) PROVE NextInOrder
  <2>1. /\ generators' = below /\ control' = "run" /\ messages' = <<>> \o queue
        /\ dropped' = dropped \cup (Range(got) \ Range(<<>>))
    BY <1>4, <1>5 DEF Raises, below, got
  <2>. QED
    BY <1>1, <1>3, <1>4, <2>1
<1>6. CASE Returns(gen, queue)
  <2>1. PICK retval \in Returned(gen) :
          /\ messages' = (IF retval = <<>> /\ Len(generators) > 1 THEN <<None>> ELSE retval)
                         \o queue
          /\ dropped' = dropped \cup (Range(got) \ Range(retval))
    BY <1>6 DEF Returns, got
  <2>2. generators' = below /\ control' = "run"
    BY <1>6 DEF Returns, below
  <2>3. CASE retval = <<>>
    <3>1. messages' \in {<<>> \o queue, <<None>> \o (<<>> \o queue)}
      BY <1>4, <2>1, <2>3
    <3>. QED
      BY <1>1, <1>3, <1>4, <2>1, <2>2, <2>3, <3>1
  <2>4. ASSUME NEW i \in 1..(Len(got) + 1),
               retval = <<Result>> \o SubSeq(got, i, Len(got))
        PROVE  NextInOrder
    <3>. DEFINE drop == SubSeq(got, 1, i - 1)
                back == SubSeq(got, i, Len(got))
    <3>1. drop \in Seq(Data) /\ back \in Seq(Data)
      BY <1>1
    <3>2. got = drop \o back
      <4>1. Len(got) \in Nat /\ i - 1 \in (1 - 1)..Len(got) /\ Len(got) \in (i - 1)..Len(got)
            /\ 1 \in 1..(Len(got) + 1) /\ (i - 1) + 1 = i
        BY <1>1, LenProperties
      <4>2. SubSeq(got, 1, i - 1) \o SubSeq(got, (i - 1) + 1, Len(got))
            = SubSeq(got, 1, Len(got))
        BY <1>1, <4>1, ConcatAdjacentSubSeq
      <4>3. SubSeq(got, 1, Len(got)) = got
        BY <1>1, SubSeqFull
      <4>. QED
        BY <4>1, <4>2, <4>3
    <3>. HIDE DEF drop, back
    <3>3. /\ drop \in Seq(Messages) /\ back \in Seq(Messages) /\ Range(back) \subseteq Data
      BY <3>1, GotIsMessages
    <3>4. retval = <<Result>> \o back
      BY <2>4 DEF back
    <3>5. /\ <<Result>> \in Seq(Messages) /\ Range(<<Result>>) = {Result}
          /\ Result \notin Data
      BY ComposeAssumption DEF Messages, Data, Range
    <3>6. /\ Range(retval) = {Result} \cup Range(back) /\ retval # <<>>
          /\ retval \o queue = <<Result>> \o (back \o queue)
      <4>. DEFINE one == <<Result>>
      <4>1. one \in Seq(Messages) /\ retval = one \o back /\ one # <<>>
            /\ Range(one) = {Result}
        BY <3>4, <3>5
      <4>. HIDE DEF one
      <4>2. Range(one \o back) = Range(one) \cup Range(back)
        BY <3>3, <4>1, RangeConcatenation
      <4>3. (one \o back) \o queue = one \o (back \o queue)
        BY SMTT(30), <1>1, <3>3, <4>1
      <4>4. one \o back # <<>>
        BY <3>3, <4>1, ConcatEqualIffEmpty
      <4>. QED
        BY <4>1, <4>2, <4>3, <4>4 DEF one
    <3>7. Range(got) \ Range(retval) = Range(got) \ Range(back)
      BY <1>1, <3>5, <3>6
    <3>8. messages' = <<Result>> \o (back \o queue)
      BY <2>1, <3>6
    <3>. QED
      BY <1>3, <2>1, <2>2, <3>2, <3>3, <3>7, <3>8
  <2>. QED
    BY <2>3, <2>4 DEF Returned, got
<1>. QED
  BY <1>5, <1>6

\* What is appended to a sequence came first in what follows.
LEMMA AppendWaits ==
    ASSUME NEW s \in Seq(Messages), NEW message \in Messages, NEW queue \in Seq(Messages)
    PROVE  Append(s, message) \o queue = s \o (<<message>> \o queue)
<1>. DEFINE one == <<message>>
<1>1. one \in Seq(Messages) /\ Append(s, message) = s \o one
  BY AppendIsConcat
<1>. HIDE DEF one
<1>2. (s \o one) \o queue = s \o (one \o queue)
  BY <1>1
<1>. QED
  BY <1>1, <1>2 DEF one

\* Data is given to the last generator, which had all that came before it.
LEMMA LoopInOrder ==
    ASSUME OrderInv, Send \/ Throw \/ Close \/ Finish
    PROVE  OrderInv'
<1>1. MessageInv' /\ TypeOK
  BY LoopMessages DEF OrderInv, MessageInv
<1>2. CASE Finish
  <2>1. /\ generators = <<>> /\ generators' = generators /\ control' = "ended"
        /\ messages' = <<>>
    BY <1>2 DEF Finish
  <2>2. Ordered(<<>>, <<>>)
    BY DEF Ordered, Increasing
  <2>. QED
    BY <1>1, <2>1, <2>2 DEF OrderInv, DataInOrder
<1>3. ASSUME control = "run", generators # <<>>, UNCHANGED <<stepping, sent>>,
             exception = "none" => messages # <<>>
      PROVE  /\ Front(generators) \in Seq(Frames) /\ Last(generators) \in Frames
             /\ generators = Front(generators) \o <<Last(generators)>>
             /\ \A queue \in Seq(Messages) :
                   Ordered(generators, queue) /\ Had(generators, queue) \cup dropped = 1..sent
                   => RunsInOrder(Last(generators), queue)
  <2>1. generators \in Seq(Frames) /\ Len(generators) \in Nat \ {0}
    BY <1>1, <1>3 DEF TypeOK
  <2>2. /\ Front(generators) \in Seq(Frames) /\ Last(generators) \in Frames
    BY <1>1, <1>3, Popped, LastFrame
  <2>3. generators = Front(generators) \o <<Last(generators)>>
    BY <2>1 DEF Front, Last
  <2>. DEFINE below == Front(generators)
              frame == Last(generators)
  <2>4. /\ below \in Seq(Frames) /\ frame \in Frames /\ generators = below \o <<frame>>
    BY <2>2, <2>3
  <2>. HIDE DEF below, frame
  <2>5. \A queue \in Seq(Messages) :
          /\ Ordered(below \o <<frame>>, queue) <=> Ordered(below, frame.got \o queue)
          /\ Had(below \o <<frame>>, queue) = Had(below, frame.got \o queue)
    BY <2>4, TopWaits
  <2>. QED
    BY <2>2, <2>3, <2>4, <2>5 DEF RunsInOrder, below, frame
<1>4. CASE Send
  <2>. DEFINE message == Head(messages)
              queue == Tail(messages)
              last == Last(generators)
              gen == IF message \in Data
                     THEN [last EXCEPT !.got = Append(@, message)] ELSE last
  <2>1. /\ control = "run" /\ generators # <<>> /\ UNCHANGED <<stepping, sent>>
        /\ exception = "none" /\ Runs(gen, queue) /\ messages # <<>>
    BY <1>4 DEF Send, Running, OrderInv, MessageInv, RightMessage
  <2>2. /\ last \in Frames /\ last.got \in Seq(Data) /\ gen \in Frames
        /\ gen.got = IF message \in Data THEN Append(last.got, message) ELSE last.got
    <3>1. last \in Frames
      BY <1>3, <2>1
    <3>. HIDE DEF last, message
    <3>. QED
      BY <3>1 DEF Frames
  <2>3. /\ queue \in Seq(Data) /\ queue \in Seq(Messages)
        /\ messages \in Seq(Messages) /\ message \in Messages
        /\ messages = <<message>> \o queue
    BY <1>1, <2>1, GotIsMessages DEF OrderInv, MessageInv, Leftover, TypeOK
  <2>. HIDE DEF message, queue, last, gen
  <2>4. /\ Ordered(generators, messages)
        /\ Had(generators, messages) \cup dropped = 1..sent
    BY <2>1 DEF OrderInv, DataInOrder
  <2>5. RunsInOrder(gen, queue)
    <3>1. CASE message \in Data
      <4>1. gen.got \o queue = last.got \o messages
        <5>1. gen.got = Append(last.got, message) /\ last.got \in Seq(Messages)
          BY <2>2, <3>1, GotIsMessages
        <5>2. Append(last.got, message) \o queue = last.got \o (<<message>> \o queue)
          BY <2>3, <5>1, AppendWaits
        <5>. QED
          BY <2>3, <5>1, <5>2, Zenon
      <4>2. RunsInOrder(last, messages)
        BY <1>3, <2>1, <2>3, <2>4 DEF last
      <4>. QED
        BY <4>1, <4>2 DEF RunsInOrder
    <3>2. CASE message \notin Data
      <4>1. message \in {None, Result} /\ gen.got = last.got
        BY <2>2, <2>3, <3>2 DEF Messages
      <4>2. generators \in Seq(Frames)
        BY <1>1 DEF TypeOK
      <4>3. /\ Ordered(generators, queue)
            /\ Had(generators, queue) \cup dropped = 1..sent
        BY <2>3, <2>4, <4>1, <4>2, NoDataInFront
      <4>4. RunsInOrder(last, queue)
        BY <1>3, <2>1, <2>3, <4>3 DEF last
      <4>. QED
        BY <4>1, <4>4 DEF RunsInOrder
    <3>. QED
      BY <3>1, <3>2
  <2>6. NextInOrder
    BY <1>1, <2>1, <2>2, <2>3, <2>5, GoesOnInOrder, EndsInOrder DEF Runs
  <2>. QED
    BY <1>1, <2>6 DEF NextInOrder, OrderInv
<1>5. CASE Throw \/ Close
  <2>1. /\ control = "run" /\ generators # <<>> /\ UNCHANGED <<stepping, sent>>
        /\ exception # "none"
    BY <1>5 DEF Throw, Close, Running
  <2>2. messages \in Seq(Data) /\ messages \in Seq(Messages)
    BY <1>1, <2>1 DEF OrderInv, MessageInv, Leftover, TypeOK
  <2>3. RunsInOrder(Last(generators), messages) /\ Last(generators) \in Frames
    BY <1>3, <2>1, <2>2 DEF OrderInv, DataInOrder
  <2>4. \/ Runs(Last(generators), messages)
        \/ \E raised \in {"error", "exit"} : Raises(Last(generators), messages, raised)
    BY <1>5 DEF Throw, Close
  <2>5. NextInOrder
    BY <1>1, <2>1, <2>2, <2>3, <2>4, GoesOnInOrder, EndsInOrder DEF Runs
  <2>. QED
    BY <1>1, <2>5 DEF NextInOrder, OrderInv
<1>. QED
  BY <1>2, <1>4, <1>5

\* The next datum that is sent is greater than all before, and none waits.
LEMMA CallerInOrder ==
    ASSUME OrderInv, SendNone \/ SendData \/ ThrowIn
    PROVE  OrderInv'
<1>1. MessageInv' /\ TypeOK /\ sent \in Nat
  BY CallerMessages DEF OrderInv, MessageInv, TypeOK
<1>2. /\ control' = "run" /\ (control = "new" \/ Yielded) /\ control # "ended"
      /\ generators # <<>> /\ generators \in Seq(Frames) /\ messages \in Seq(Messages)
  BY <1>1 DEF SendNone, SendData, ThrowIn, Yielded, TypeOK
<1>3. /\ Ordered(generators, messages)
      /\ Had(generators, messages) \cup dropped = 1..sent
  BY <1>2 DEF OrderInv, DataInOrder
<1>. DEFINE below == Front(generators)
<1>4. ASSUME control \in {"new", "step"}
      PROVE  Ordered(below, messages) /\ Had(below, messages) = Had(generators, messages)
  <2>1. below \in Seq(Frames) /\ generators = below \o <<Fresh>>
    <3>1. Last(generators) = Fresh
      BY <1>1, <1>4 DEF TypeOK
    <3>. QED
      BY <1>1, <1>2, <3>1, Popped DEF Front, Last
  <2>2. Fresh \in Frames /\ Fresh.got = <<>> /\ <<>> \o messages = messages
    BY <1>2, ConcatEmptySeq DEF Fresh, Frames
  <2>. HIDE DEF below
  <2>3. /\ Ordered(below \o <<Fresh>>, messages) <=> Ordered(below, Fresh.got \o messages)
        /\ Had(below \o <<Fresh>>, messages) = Had(below, Fresh.got \o messages)
    BY <1>2, <2>1, <2>2, TopWaits
  <2>. QED
    BY <1>3, <2>1, <2>2, <2>3
<1>5. CASE SendNone
  <2>1. messages' \in {messages, <<None>> \o messages}
        /\ UNCHANGED <<generators, sent, dropped>>
    BY <1>5 DEF SendNone
  <2>2. Ordered(generators, messages') /\ Had(generators, messages') = Had(generators, messages)
    <3>1. /\ Ordered(generators, <<None>> \o messages) <=> Ordered(generators, messages)
          /\ Had(generators, <<None>> \o messages) = Had(generators, messages)
      BY <1>2, <1>3, NoDataInFront
    <3>2. CASE messages' = messages
      BY <1>2, <1>3, <3>2
    <3>3. CASE messages' = <<None>> \o messages
      BY <1>2, <1>3, <3>1, <3>3, Zenon
    <3>. QED
      BY <2>1, <3>2, <3>3
  <2>. QED
    BY <1>1, <1>2, <1>3, <2>1, <2>2 DEF OrderInv, DataInOrder
<1>6. CASE SendData
  <2>1. CASE control = "data"
    <3>1. /\ UNCHANGED <<generators, dropped>> /\ sent' = sent + 1
          /\ messages' = <<sent + 1>> \o messages
      BY <1>6, <2>1 DEF SendData
    <3>2. messages = <<>> /\ messages' = <<sent + 1>>
      BY <2>1, <3>1 DEF OrderInv
    <3>3. Range(<<sent + 1>>) = {sent + 1} /\ Range(<<>>) = {} /\ sent + 1 \in Data
      BY <1>1 DEF Range, Data
    <3>4. Had(generators, <<sent + 1>>) = Had(generators, <<>>) \cup {sent + 1}
      BY <3>3 DEF Had
    <3>5. Had(generators, <<>>) \cup dropped = 1..sent
      BY <1>3, <3>2
    <3>6. Had(generators, messages') \cup dropped' = 1..sent'
      <4>1. 1..(sent + 1) = (1..sent) \cup {sent + 1}
        BY <1>1
      <4>. QED
        BY <3>1, <3>2, <3>4, <3>5, <4>1
    <3>7. \A i \in DOMAIN generators : Range(generators[i].got) \subseteq 1..sent
      BY <3>5 DEF Had
    <3>8. Increasing(<<sent + 1>>)
      BY DEF Increasing
    <3>9. \A i \in DOMAIN generators : Before(generators[i].got, <<sent + 1>>)
      <4>1. \A d \in 1..sent : d < sent + 1
        BY <1>1
      <4>. QED
        BY <3>3, <3>7, <4>1 DEF Before
    <3>10. Ordered(generators, <<sent + 1>>)
      BY <1>3, <3>8, <3>9 DEF Ordered
    <3>. QED
      BY <1>1, <1>2, <3>1, <3>2, <3>6, <3>10 DEF OrderInv, DataInOrder
  <2>2. CASE control = "value"
    BY <1>1, <1>2, <1>3, <1>6, <2>2 DEF SendData, OrderInv, DataInOrder
  <2>3. CASE control = "step"
    BY <1>1, <1>2, <1>3, <1>4, <1>6, <2>3 DEF SendData, OrderInv, DataInOrder
  <2>. QED
    BY <1>6, <2>1, <2>2, <2>3 DEF SendData, Yielded
<1>7. CASE ThrowIn
  <2>1. /\ UNCHANGED <<sent, dropped>>
        /\ generators' = IF control \in {"new", "step"} THEN below ELSE generators
        /\ messages' = IF control = "new" THEN <<>> ELSE messages
    BY <1>7 DEF ThrowIn
  <2>2. CASE control = "new"
    <3>1. messages = <<None>> \o <<>> /\ <<>> \in Seq(Messages) /\ below \in Seq(Frames)
      BY <1>1, <1>2, <2>2, Popped DEF OrderInv, MessageInv, Leftover
    <3>2. Ordered(below, <<>>) /\ Had(below, messages) = Had(below, <<>>)
      BY <1>4, <2>2, <3>1, NoDataInFront
    <3>. QED
      BY <1>1, <1>2, <1>3, <1>4, <2>1, <2>2, <3>2 DEF OrderInv, DataInOrder
  <2>3. CASE control # "new"
    BY <1>1, <1>2, <1>3, <1>4, <2>1, <2>3 DEF OrderInv, DataInOrder
  <2>. QED
    BY <2>2, <2>3
<1>. QED
  BY <1>5, <1>6, <1>7

\* Nothing was sent to a composed generator that is new.
LEMMA InitInOrder == Init => OrderInv
<1>. SUFFICES ASSUME Init PROVE OrderInv
  OBVIOUS
<1>1. /\ generators = <<Fresh>> /\ messages = <<None>> /\ control = "new"
      /\ sent = 0 /\ dropped = {} /\ Fresh.got = <<>>
  BY DEF Init, Fresh
<1>2. None \notin Data
  BY ComposeAssumption DEF Data
<1>3. Increasing(<<None>>) /\ Increasing(<<>>)
  BY DEF Increasing
<1>4. Range(<<None>>) = {None} /\ Range(<<>>) = {}
  BY DEF Range
<1>5. DOMAIN generators = {1} /\ generators[1].got = <<>>
  BY <1>1
<1>6. Before(<<>>, <<None>>)
  BY <1>4 DEF Before
<1>7. Ordered(generators, messages)
  BY <1>1, <1>3, <1>5, <1>6 DEF Ordered
<1>8. Had(generators, messages) = {}
  BY <1>1, <1>2, <1>4, <1>5 DEF Had
<1>. QED
  BY <1>1, <1>7, <1>8, InitMessages DEF OrderInv, DataInOrder

\* No data is lost, given twice or out of order, for any generators, any caller
\* and any number of data that is pushed back.
THEOREM DataStaysInOrder == Spec => []DataInOrder
<1>1. OrderInv /\ [Next]_vars => OrderInv'
  <2>1. CASE UNCHANGED vars
    BY <2>1 DEF vars, OrderInv, MessageInv, TypeOK, RightMessage, Leftover, DataInOrder
  <2>. QED
    BY <2>1, LoopInOrder, CallerInOrder DEF Next
<1>2. OrderInv => DataInOrder
  BY DEF OrderInv
<1>. QED
  BY <1>1, <1>2, InitInOrder, PTL DEF Spec

----------------------------------------------------------------------------
(* A client that waits at a Suspend.                                          *)

\* Nobody settles a Suspend he was not given, and a timer runs only for one that
\* was given: so that a Suspend that is yielded is neither settled nor timed.
GivenFirst ==
    settled \subseteq given /\ pending \subseteq given

\* The callback and the client go together: a client that goes on is registered,
\* and one that is finished has no callback.
ClientAndContext ==
    /\ client = "ready" => context = "registered"
    /\ client = "finished" => context = "gone"

\* A Suspend that can still wake up a client is the one that client is parked
\* at: as long as there is a callback, all other Suspends with a whenDone are
\* settled.
OnlyCurrentWakes ==
    /\ context = "registered" => whenDone \subseteq settled
    /\ context = "suspended" => whenDone \subseteq settled \cup {current}

\* Where a client has taken a result, or is about to, the Suspend is settled; or
\* doNext raised, and then the Suspend has no timer.
Raised(s) ==
    result[s] = "raised" /\ s \notin pending

TakenInv ==
    /\ \A s \in Suspends : taken[s] # "none" =>
          s \in settled \/ (taken[s] = "raised" /\ Raised(s))
    /\ client = "waiting" /\ context = "registered" =>
          /\ current \in Suspends /\ result[current] # "none"
          /\ current \in settled \/ Raised(current)

\* The inductive invariant.
SuspendInv ==
    /\ SuspendOK
    /\ NoOrphan
    /\ GivenFirst
    /\ ClientAndContext
    /\ OnlyCurrentWakes
    /\ TakenIsKept /\ TakenInv

----------------------------------------------------------------------------
\* At the start nothing is yielded, given or settled.
LEMMA SuspendStart ==
    ASSUME SuspendInit
    PROVE  SuspendInv
BY SuspendAssumption
DEF SuspendInit, SuspendInv, SuspendOK, SuspendTypeOK, Results, TimerTokens, NoOrphan, GivenFirst,
    ClientAndContext, OnlyCurrentWakes, TakenIsKept, TakenInv, Raised

\* A Suspend that is yielded was never settled and has no timer.
LEMMA YieldedIsFresh ==
    ASSUME SuspendInv, NEW s \in Suspends, Yields(s)
    PROVE  s \notin settled /\ s \notin pending
BY DEF Yields, SuspendInv, GivenFirst

\* A Suspend in use that is not settled wakes up its client only, if there is
\* one.
LEMMA WhenDoneWakes ==
    ASSUME SuspendInv, NEW s \in Suspends, s \notin settled, CallWhenDone(s)
    PROVE  \/ /\ s = current /\ context = "suspended"
              /\ client' = "ready" /\ context' = "registered"
              /\ taken' = [taken EXCEPT ![s] = result'[s]]
           \/ /\ s \notin whenDone \/ context # "suspended"
              /\ client' = client /\ context' = context /\ taken' = taken
BY DEF CallWhenDone, SuspendInv, NoOrphan, OnlyCurrentWakes

\* Yielding a Suspend, however it goes, keeps the invariant: the client is
\* parked at that Suspend, or is not parked.
LEMMA SuspendCall ==
    ASSUME SuspendInv, NEW s \in Suspends,
           \/ CallSuspends(s) \/ CallNotSuspended(s) \/ CallRaises(s)
           \/ CallSettlesItself(s)
    PROVE  SuspendInv'
<1>0. s \notin settled /\ s \notin pending
  BY YieldedIsFresh
  DEF CallSuspends, CallNotSuspended, CallRaises, CallSettlesItself
<1>. USE SuspendAssumption
     DEF SuspendInv, SuspendOK, SuspendTypeOK, Results, TimerTokens, NoOrphan, GivenFirst,
         ClientAndContext, OnlyCurrentWakes, TakenIsKept, TakenInv, Raised, Yields
<1>1. CASE CallSuspends(s)
  BY <1>0, <1>1 DEF CallSuspends
<1>2. CASE CallNotSuspended(s)
  BY <1>0, <1>2 DEF CallNotSuspended
<1>3. CASE CallRaises(s)
  BY <1>0, <1>3 DEF CallRaises
<1>4. CASE CallSettlesItself(s)
  BY <1>0, <1>4 DEF CallSettlesItself
<1>. QED
  BY <1>1, <1>2, <1>3, <1>4

\* Settling a Suspend that is not settled yet takes its timer out of the list
\* and wakes up at most the client that waits for it.
LEMMA SuspendSettle ==
    ASSUME SuspendInv, NEW s \in Suspends, s \in given, s \notin settled,
           NEW outcome \in {"response", "exception", "timeout"},
           Settle(s, outcome), outcome = "timeout" => s \in pending,
           timer' \in {timer, timer \ {s}}, dead' \in BOOLEAN,
           UNCHANGED <<whenDone, handle, current, given>>
    PROVE  SuspendInv'
<1>. USE DEF SuspendInv, Settle
<1>1. SuspendTypeOK'
  BY DEF SuspendOK, SuspendTypeOK, Results, CallWhenDone
<1>2. TimerTokens' /\ GivenFirst'
  BY DEF SuspendOK, TimerTokens, GivenFirst
<1>3. NoOrphan' /\ ClientAndContext' /\ OnlyCurrentWakes'
  BY WhenDoneWakes DEF NoOrphan, ClientAndContext, OnlyCurrentWakes
<1>4. TakenIsKept' /\ TakenInv'
  <2>1. /\ result' = [result EXCEPT ![s] = result'[s]]
        /\ result'[s] \in {outcome, result[s]}
        /\ result'[s] # result[s] => result'[s] = outcome
        /\ result'[s] # "none"
        /\ taken \in [Suspends -> Results]
    BY DEF SuspendOK, SuspendTypeOK, Results
  <2>. QED
    BY <2>1, WhenDoneWakes
    DEF SuspendOK, SuspendTypeOK, TakenIsKept, TakenInv, Raised, OnlyCurrentWakes, ClientAndContext
<1>. QED
  BY <1>1, <1>2, <1>3, <1>4 DEF SuspendOK

\* A timer settles its Suspend, or its exception ends the loop.
LEMMA SuspendTimer ==
    ASSUME SuspendInv, NEW s \in Suspends,
           TimedOut(s) \/ TimedOutSettled(s) \/ TimedOutFatal(s)
    PROVE  SuspendInv'
<1>1. ASSUME s \in pending PROVE s \in given /\ s \notin settled
  BY <1>1 DEF SuspendInv, GivenFirst, SuspendOK, TimerTokens
<1>2. dead \in BOOLEAN
  BY DEF SuspendInv, SuspendOK, SuspendTypeOK
<1>3. CASE TimedOut(s)
  BY <1>1, <1>2, <1>3, SuspendSettle DEF TimedOut
<1>4. CASE TimedOutSettled(s)
  BY <1>1, <1>4, SuspendSettle DEF TimedOutSettled
<1>5. CASE TimedOutFatal(s)
  BY <1>1, <1>5
  DEF TimedOutFatal, SuspendInv, SuspendOK, SuspendTypeOK, TimerTokens, NoOrphan,
      GivenFirst, ClientAndContext, OnlyCurrentWakes, TakenIsKept, TakenInv, Raised
<1>. QED
  BY <1>3, <1>4, <1>5

\* Every step keeps the invariant.
LEMMA SuspendStep ==
    ASSUME SuspendInv, [SuspendNext]_suspendVars
    PROVE  SuspendInv'
<1>1. ASSUME NEW s \in Suspends,
             \/ CallSuspends(s) \/ CallNotSuspended(s) \/ CallRaises(s)
             \/ CallSettlesItself(s)
      PROVE  SuspendInv'
  BY <1>1, SuspendCall
<1>2. ASSUME NEW s \in Suspends, NEW outcome \in {"response", "exception"},
             SettledByOther(s, outcome)
      PROVE  SuspendInv'
  <2>1. dead' \in BOOLEAN
    BY <1>2 DEF SettledByOther, SuspendInv, SuspendOK, SuspendTypeOK
  <2>. QED
    BY <1>2, <2>1, SuspendSettle DEF SettledByOther
<1>3. ASSUME NEW s \in Suspends,
             TimedOut(s) \/ TimedOutSettled(s) \/ TimedOutFatal(s)
      PROVE  SuspendInv'
  BY <1>3, SuspendTimer
<1>4. CASE NextCallback \/ FinishClient \/ UNCHANGED suspendVars
  BY <1>4
  DEF NextCallback, FinishClient, suspendVars, fields, SuspendInv, SuspendOK, SuspendTypeOK, TimerTokens,
      NoOrphan, GivenFirst, ClientAndContext, OnlyCurrentWakes, TakenIsKept, TakenInv, Raised
<1>. QED
  BY <1>1, <1>2, <1>3, <1>4 DEF SuspendNext

\* The invariant holds in every state.
LEMMA SuspendAlways == SuspendSpec => []SuspendInv
BY SuspendStart, SuspendStep, PTL DEF SuspendSpec

----------------------------------------------------------------------------
\* Types hold, and the token a Suspend gives to removeTimer is in the list of
\* the reactor: resume and throw cannot raise ValueError (_suspend.py:50, 64).
THEOREM TimerTokensHold == SuspendSpec => []SuspendOK
<1>1. SuspendInv => SuspendOK
  BY DEF SuspendInv
<1>. QED
  BY <1>1, SuspendAlways, PTL

\* A parked callback always has a Suspend that can still wake it up.
THEOREM NobodyOrphaned == SuspendSpec => []NoOrphan
<1>1. SuspendInv => NoOrphan
  BY DEF SuspendInv
<1>. QED
  BY <1>1, SuspendAlways, PTL

\* Settling a Suspend wakes up nobody but the client that waits for it, however
\* late the answer or the timeout of another Suspend comes.
THEOREM OnlyCurrentWakesUp == SuspendSpec => WokenByCurrent
<1>1. ASSUME SuspendInv, [SuspendNext]_suspendVars, NEW s \in Suspends,
             s \in settled' \ settled, client = "waiting", client' = "ready"
      PROVE  s = current
  <2>1. CASE NextCallback \/ FinishClient \/ UNCHANGED suspendVars
    BY <1>1, <2>1 DEF NextCallback, FinishClient, suspendVars, fields
  <2>2. CASE \E t \in Suspends :
                \/ CallSuspends(t) \/ CallNotSuspended(t) \/ CallRaises(t)
                \/ CallSettlesItself(t) \/ TimedOutFatal(t)
    BY <1>1, <2>2
    DEF CallSuspends, CallNotSuspended, CallRaises, CallSettlesItself, Yields,
        TimedOutFatal
  <2>3. ASSUME NEW t \in Suspends,
               \/ \E outcome \in {"response", "exception"} :
                     SettledByOther(t, outcome)
               \/ TimedOut(t) \/ TimedOutSettled(t)
        PROVE  s = current
    <3>1. settled' = settled \cup {t} /\ CallWhenDone(t)
      BY <2>3 DEF SettledByOther, TimedOut, TimedOutSettled, Settle
    <3>2. t = s
      BY <1>1, <3>1
    <3>. QED
      BY <1>1, <3>1, <3>2, WhenDoneWakes
  <2>. QED
    BY <1>1, <2>1, <2>2, <2>3 DEF SuspendNext
<1>2. ASSUME SuspendInv, [SuspendNext]_suspendVars
      PROVE  [\A s \in Suspends :
                 settled' # settled /\ s \in settled' \ settled
                    /\ client = "waiting" /\ client' = "ready"
                    => s = current]_suspendVars
  BY <1>1, <1>2
<1>. QED
  BY <1>2, SuspendAlways, PTL DEF SuspendSpec, WokenByCurrent

\* A client that goes on has a result, and what it took from a Suspend stays what
\* getResult gives: the second of two settlings is refused, a timer that is still
\* pending was not settled, and none runs for a Suspend whose doNext raised.
THEOREM TakenResultsAreKept == SuspendSpec => []TakenIsKept
<1>1. SuspendInv => TakenIsKept
  BY DEF SuspendInv
<1>. QED
  BY <1>1, SuspendAlways, PTL

----------------------------------------------------------------------------
(* The reactor that waits in its poll.                                        *)

\* The items of a list that list.sort puts at or in front of the place of item i.
UpTo(s, i) ==
    {j \in DOMAIN s :
        Due[s[j]] < Due[s[i]] \/ (Due[s[j]] = Due[s[i]] /\ j <= i)}

\* A list of timers is in the order of their times.
InOrderOfDue(s) ==
    \A i, j \in 1..Len(s) : i < j => Due[s[i]] <= Due[s[j]]

\* Every timer has a time.
LEMMA TimesAreNaturals ==
    ASSUME NEW s \in Seq(TimerNames), NEW i \in 1..Len(s)
    PROVE  s[i] \in TimerNames /\ Due[s[i]] \in Nat
<1>1. s[i] \in TimerNames
  BY ElementOfSeq
<1>. QED
  BY <1>1, ThreadsAssumption

\* A place in a list is one of the list's.
LEMMA PlaceInRange ==
    ASSUME NEW s \in Seq(TimerNames), NEW i \in 1..Len(s)
    PROVE  Place(s, i) \in 1..Len(s) /\ IsFiniteSet(UpTo(s, i))
<1>1. DOMAIN s = 1..Len(s) /\ Len(s) \in Nat
  BY LenProperties
<1>2. IsFiniteSet(1..Len(s)) /\ Cardinality(1..Len(s)) = Len(s)
  <2>1. /\ IsFiniteSet(1..Len(s))
        /\ Cardinality(1..Len(s)) = IF 1 > Len(s) THEN 0 ELSE Len(s) - 1 + 1
    BY <1>1, FS_Interval
  <2>. QED
    BY <1>1, <2>1
<1>3. UpTo(s, i) \in SUBSET (1..Len(s))
  BY <1>1 DEF UpTo
<1>4. i \in UpTo(s, i)
  BY <1>1, TimesAreNaturals DEF UpTo
<1>5. IsFiniteSet(UpTo(s, i)) /\ Cardinality(UpTo(s, i)) <= Len(s)
  BY <1>2, <1>3, FS_Subset
<1>6. Cardinality(UpTo(s, i)) # 0
  BY <1>4, <1>5, FS_EmptySet
<1>7. Cardinality(UpTo(s, i)) \in Nat
  BY <1>5, FS_CardinalityType
<1>8. Place(s, i) = Cardinality(UpTo(s, i))
  BY DEF Place, UpTo
<1>. QED
  BY <1>1, <1>5, <1>6, <1>7, <1>8

\* An item that is due earlier, or was in front of one due at the same time, has
\* a smaller place.
LEMMA PlaceGrows ==
    ASSUME NEW s \in Seq(TimerNames), NEW i \in 1..Len(s), NEW k \in 1..Len(s),
           Due[s[i]] < Due[s[k]] \/ (Due[s[i]] = Due[s[k]] /\ i < k)
    PROVE  Place(s, i) < Place(s, k)
<1>1. DOMAIN s = 1..Len(s) /\ Len(s) \in Nat
  BY LenProperties
<1>2. \A j \in 1..Len(s) : Due[s[j]] \in Nat
  BY TimesAreNaturals
<1>3. UpTo(s, i) \in SUBSET UpTo(s, k)
  BY <1>1, <1>2 DEF UpTo
<1>4. k \in UpTo(s, k) /\ k \notin UpTo(s, i)
  BY <1>1, <1>2 DEF UpTo
<1>5. IsFiniteSet(UpTo(s, k))
  BY PlaceInRange
<1>6. /\ Cardinality(UpTo(s, i)) <= Cardinality(UpTo(s, k))
      /\ Cardinality(UpTo(s, i)) # Cardinality(UpTo(s, k))
  BY <1>3, <1>4, <1>5, FS_Subset
<1>7. Place(s, i) = Cardinality(UpTo(s, i)) /\ Place(s, k) = Cardinality(UpTo(s, k))
  BY DEF Place, UpTo
<1>8. Place(s, i) \in Nat /\ Place(s, k) \in Nat
  BY <1>1, PlaceInRange
<1>. QED
  BY <1>6, <1>7, <1>8

\* Every place is that of an item.
LEMMA PlacesAreTaken ==
    ASSUME NEW s \in Seq(TimerNames), NEW n \in 1..Len(s)
    PROVE  \E i \in 1..Len(s) : Place(s, i) = n
<1>. DEFINE D == 1..Len(s)
            f == [i \in D |-> Place(s, i)]
<1>1. Len(s) \in Nat
  BY LenProperties
<1>2. f \in [D -> D]
  BY PlaceInRange
<1>3. ASSUME NEW i \in D, NEW k \in D, i # k
      PROVE  f[i] # f[k]
  <2>1. /\ Due[s[i]] \in Nat /\ Due[s[k]] \in Nat
        /\ Place(s, i) \in D /\ Place(s, k) \in D
    BY TimesAreNaturals, PlaceInRange
  <2>2. \/ Due[s[i]] < Due[s[k]] \/ (Due[s[i]] = Due[s[k]] /\ i < k)
        \/ Due[s[k]] < Due[s[i]] \/ (Due[s[k]] = Due[s[i]] /\ k < i)
    BY <1>1, <1>3, <2>1
  <2>3. Place(s, i) < Place(s, k) \/ Place(s, k) < Place(s, i)
    BY <2>2, PlaceGrows
  <2>. QED
    BY <1>1, <2>1, <2>3
<1>4. f \in Injection(D, D)
  BY <1>2, <1>3 DEF Injection, IsInjective
<1>5. IsFiniteSet(D)
  BY <1>1, FS_Interval
<1>6. f \in Surjection(D, D)
  BY <1>4, <1>5, FS_Injection
<1>. QED
  BY <1>6 DEF Surjection

\* list.sort gives a list as long, of timers, in the order of their times.
LEMMA SortSorts ==
    ASSUME NEW s \in Seq(TimerNames)
    PROVE  /\ SortedByDue(s) \in Seq(TimerNames)
           /\ Len(SortedByDue(s)) = Len(s)
           /\ InOrderOfDue(SortedByDue(s))
<1>. DEFINE D == 1..Len(s)
            from(n) == CHOOSE i \in D : Place(s, i) = n
<1>1. DOMAIN s = D /\ Len(s) \in Nat
  BY LenProperties
<1>2. \A n \in D : from(n) \in D /\ Place(s, from(n)) = n
  BY PlacesAreTaken
<1>3. SortedByDue(s) = [n \in D |-> s[from(n)]]
  BY <1>1 DEF SortedByDue
<1>4. SortedByDue(s) \in [D -> TimerNames]
  BY <1>2, <1>3, TimesAreNaturals
<1>5. SortedByDue(s) \in Seq(TimerNames) /\ Len(SortedByDue(s)) = Len(s)
  BY <1>1, <1>4, IsASeq, LenProperties
<1>6. ASSUME NEW m \in D, NEW n \in D, m < n
      PROVE  Due[s[from(m)]] <= Due[s[from(n)]]
  <2>1. Due[s[from(m)]] \in Nat /\ Due[s[from(n)]] \in Nat
    BY <1>2, TimesAreNaturals
  <2>2. SUFFICES ASSUME Due[s[from(n)]] < Due[s[from(m)]]
                 PROVE  FALSE
    BY <2>1
  <2>3. Place(s, from(n)) < Place(s, from(m))
    BY <1>2, <2>2, PlaceGrows
  <2>. QED
    BY <1>1, <1>2, <1>6, <2>3
<1>7. \A m, n \in D :
          m < n => Due[SortedByDue(s)[m]] <= Due[SortedByDue(s)[n]]
  <2>1. \A n \in D : SortedByDue(s)[n] = s[from(n)]
    BY <1>3
  <2>. HIDE DEF from
  <2>. QED
    BY <1>6, <2>1
<1>8. InOrderOfDue(SortedByDue(s))
  <2>. HIDE DEF from
  <2>. QED
    BY <1>5, <1>7 DEF InOrderOfDue
<1>. QED
  BY <1>5, <1>8

----------------------------------------------------------------------------
\* A thread stands in addProcess or in addTimer, whichever it calls, and the lists
\* hold timers.
ThreadTypes ==
    /\ \A t \in Threads :
          pc[t] \in {"start", "sort", "sorting", "check", "write", "done",
                    "ValueError"}
    /\ DOMAIN pc = Threads
    /\ \A t \in Threads :
          pc[t] \in {"sort", "sorting", "ValueError"} => t \in TimerThreads
    /\ saved \in [TimerThreads -> Seq(TimerNames)]
    /\ timers \in Seq(TimerNames)
    /\ pipe \in Nat /\ now \in Nat /\ deadline \in Nat
    /\ loop = "clear" => pipe > 0

\* Some thread has added a process and will look whether the reactor sleeps.
SomebodyWillWake == \E t \in ProcessThreads : WillWake(t)

\* From before it looks at the tables until its poll returns, step() has the lock.
LockedFirst == loop \in {"timeout", "first", "poll"} => listening

\* The list is in order, but for a timer that was appended and is yet to be sorted.
ListInOrder ==
    InOrderOfDue(timers) \/ \E t \in Threads : pc[t] = "sort"

\* step() takes the time of the first timer when it saw no process; one that was
\* added since will wake it up.
NoProcessAtFirst ==
    loop = "first" => pipe > 0 \/ SomebodyWillWake \/ running = {}

\* No addTimer has failed because two threads sorted the list at a time.
NoSortFailed == \A t \in Threads : pc[t] # "ValueError"

\* The inductive invariant of the wake-up.
WakeUpInv ==
    /\ ThreadTypes
    /\ LockedFirst
    /\ ListInOrder
    /\ NoProcessAtFirst
    /\ NoSortFailed => NoLostWakeUp

\* While the only thread that adds timers sorts the list, it stays empty.
OneSorts ==
    \A t \in TimerThreads :
        pc[t] # "ValueError" /\ (pc[t] = "sorting" => timers = <<>>)

----------------------------------------------------------------------------
\* list.remove leaves a list of timers, in order when it was.
LEMMA RemoveKeepsOrder ==
    ASSUME NEW s \in Seq(TimerNames), NEW k \in 1..Len(s)
    PROVE  /\ RemoveAt(s, k) \in Seq(TimerNames)
           /\ InOrderOfDue(s) => InOrderOfDue(RemoveAt(s, k))
<1>. DEFINE r == RemoveAt(s, k)
<1>1. Len(s) \in Nat /\ DOMAIN s = 1..Len(s)
  BY LenProperties
<1>. DEFINE a == SubSeq(s, 1, k - 1)
            b == SubSeq(s, k + 1, Len(s))
<1>2. /\ \A i \in 1..(k - 1) : s[i] \in TimerNames
      /\ \A i \in (k + 1)..Len(s) : s[i] \in TimerNames
  BY <1>1, ElementOfSeq
<1>3. /\ a \in Seq(TimerNames) /\ Len(a) = k - 1
      /\ \A i \in 1..(k - 1) : a[i] = s[i]
  BY <1>1, <1>2, SubSeqProperties
<1>4. /\ b \in Seq(TimerNames) /\ Len(b) = Len(s) - k
      /\ \A i \in 1..(Len(s) - k) : b[i] = s[k + i]
  <2>1. /\ b \in Seq(TimerNames)
        /\ Len(b) = IF k + 1 <= Len(s) THEN Len(s) - (k + 1) + 1 ELSE 0
        /\ \A i \in 1..(Len(s) - (k + 1) + 1) : b[i] = s[(k + 1) + i - 1]
    BY <1>1, <1>2, SubSeqProperties
  <2>. HIDE DEF b
  <2>2. Len(b) = Len(s) - k
    <3>1. Len(s) \in Nat /\ k \in Nat /\ k <= Len(s)
      BY <1>1
    <3>2. Len(b) = IF k + 1 <= Len(s) THEN Len(s) - (k + 1) + 1 ELSE 0
      BY <2>1
    <3>3. CASE k + 1 <= Len(s)
      BY <3>1, <3>2, <3>3
    <3>4. CASE ~(k + 1 <= Len(s))
      BY <3>1, <3>2, <3>4
    <3>. QED
      BY <3>3, <3>4
  <2>3. ASSUME NEW i \in 1..(Len(s) - k)
        PROVE  b[i] = s[k + i]
    <3>1. i \in 1..(Len(s) - (k + 1) + 1) /\ (k + 1) + i - 1 = k + i
      BY <1>1
    <3>2. b[i] = s[(k + 1) + i - 1]
      BY <2>1, <3>1
    <3>. QED
      BY <3>1, <3>2
  <2>. QED
    BY <2>1, <2>2, <2>3
<1>5. r = a \o b
  BY DEF RemoveAt
<1>. HIDE DEF a, b
<1>6. /\ r \in Seq(TimerNames) /\ Len(r) = Len(s) - 1
      /\ \A i \in 1..Len(r) : r[i] = IF i < k THEN s[i] ELSE s[i + 1]
  <2>. HIDE DEF r
  <2>1. /\ a \o b \in Seq(TimerNames) /\ Len(a \o b) = Len(a) + Len(b)
        /\ \A i \in 1..(Len(a) + Len(b)) :
              (a \o b)[i] = IF i <= Len(a) THEN a[i] ELSE b[i - Len(a)]
    BY <1>3, <1>4, ConcatProperties
  <2>2. r \in Seq(TimerNames) /\ Len(r) = Len(s) - 1
    BY <1>1, <1>3, <1>4, <1>5, <2>1
  <2>3. ASSUME NEW i \in 1..Len(r)
        PROVE  r[i] = IF i < k THEN s[i] ELSE s[i + 1]
    <3>1. i \in 1..(Len(a) + Len(b)) /\ i \in 1..(Len(s) - 1)
      BY <1>1, <1>3, <1>4, <2>2
    <3>2. r[i] = IF i <= Len(a) THEN a[i] ELSE b[i - Len(a)]
      BY <1>5, <2>1, <3>1
    <3>3. CASE i < k
      BY <1>1, <1>3, <3>1, <3>2, <3>3
    <3>4. CASE k <= i
      <4>1. i - (k - 1) \in 1..(Len(s) - k) /\ k + (i - (k - 1)) = i + 1
        BY <1>1, <3>1, <3>4
      <4>2. r[i] = b[i - (k - 1)]
        BY <1>1, <1>3, <3>1, <3>2, <3>4
      <4>3. b[i - (k - 1)] = s[k + (i - (k - 1))]
        BY <1>4, <4>1
      <4>. QED
        BY <1>1, <3>1, <3>4, <4>1, <4>2, <4>3
    <3>. QED
      BY <1>1, <3>1, <3>3, <3>4
  <2>. QED
    BY <2>2, <2>3
<1>. HIDE DEF r
<1>7. InOrderOfDue(s) => InOrderOfDue(r)
  BY <1>1, <1>6 DEF InOrderOfDue
<1>. QED
  BY <1>6, <1>7 DEF r

\* At the start nobody has called and the loop is about to take its lock.
LEMMA WakeUpStart ==
    ASSUME ThreadsInit
    PROVE  WakeUpInv /\ OneSorts
<1>. DEFINE own == SetToSeq(OwnTimers)
<1>1. own \in [1..Cardinality(OwnTimers) -> OwnTimers] /\ Cardinality(OwnTimers) \in Nat
  <2>1. Cardinality(OwnTimers) \in Nat /\ ExistsBijection(1..Cardinality(OwnTimers), OwnTimers)
    BY ThreadsAssumption, FS_CardinalityType
  <2>2. PICK f \in [1..Cardinality(OwnTimers) -> OwnTimers] : IsInjective(f)
    BY <2>1 DEF ExistsBijection, Bijection, Injection
  <2>. QED
    BY <2>1, <2>2 DEF SetToSeq
<1>2. own \in Seq(TimerNames)
  <2>1. own \in [1..Cardinality(OwnTimers) -> TimerNames]
    BY <1>1 DEF TimerNames
  <2>. QED
    BY <1>1, <2>1, IsASeq
<1>. HIDE DEF own
<1>3. timers \in Seq(TimerNames) /\ InOrderOfDue(timers)
  BY <1>2, SortSorts DEF ThreadsInit, own
<1>4. ThreadTypes
  BY <1>3 DEF ThreadsInit, ThreadTypes
<1>. QED
  BY <1>3, <1>4
  DEF ThreadsInit, WakeUpInv, LockedFirst, ListInOrder, NoProcessAtFirst,
      NoLostWakeUp, OneSorts, Threads

\* A thread that puts work in a table, sorts or looks keeps the invariant.
LEMMA CallerKeeps ==
    ASSUME WakeUpInv, NEW t \in Threads, ThreadStep(t)
    PROVE  WakeUpInv'
<1>. USE ThreadsAssumption DEF Goto, WakeUpInv, looper
<1>1. CASE InsertProcess(t)
  BY <1>1
  DEF InsertProcess, ThreadTypes, LockedFirst, ListInOrder, NoProcessAtFirst,
      NoLostWakeUp, NoSortFailed, SomebodyWillWake, WillWake
<1>2. CASE AppendTimer(t)
  BY <1>2
  DEF AppendTimer, ThreadTypes, LockedFirst, ListInOrder, NoProcessAtFirst,
      NoLostWakeUp, NoSortFailed, SomebodyWillWake, WillWake, TimerNames
<1>3. CASE SortBegins(t)
  BY <1>3
  DEF SortBegins, ThreadTypes, LockedFirst, ListInOrder, NoProcessAtFirst,
      NoLostWakeUp, NoSortFailed, SomebodyWillWake, WillWake, InOrderOfDue
<1>4. CASE SortEnds(t)
  <2>1. t \in TimerThreads /\ saved[t] \in Seq(TimerNames)
    BY <1>4 DEF SortEnds, ThreadTypes
  <2>2. timers' \in Seq(TimerNames) /\ InOrderOfDue(timers')
    BY <1>4, <2>1, SortSorts DEF SortEnds
  <2>3. ThreadTypes'
    BY <1>4, <2>2 DEF SortEnds, ThreadTypes
  <2>4. NoSortFailed' => NoSortFailed /\ pc' = [pc EXCEPT ![t] = "check"]
    BY <1>4 DEF SortEnds, ThreadTypes, NoSortFailed
  <2>5. NoProcessAtFirst'
    BY <1>4, <2>1
    DEF SortEnds, ThreadTypes, NoProcessAtFirst, SomebodyWillWake, WillWake
  <2>. QED
    BY <1>4, <2>2, <2>3, <2>4, <2>5
    DEF SortEnds, LockedFirst, ListInOrder, NoLostWakeUp, WillWake
<1>5. CASE CheckListening(t)
  BY <1>5
  DEF CheckListening, ThreadTypes, LockedFirst, ListInOrder, NoProcessAtFirst,
      NoLostWakeUp, NoSortFailed, SomebodyWillWake, WillWake
<1>6. CASE WriteByte(t)
  BY <1>6
  DEF WriteByte, ThreadTypes, LockedFirst, ListInOrder, NoProcessAtFirst,
      NoLostWakeUp, NoSortFailed, SomebodyWillWake, WillWake
<1>. QED
  BY <1>1, <1>2, <1>3, <1>4, <1>5, <1>6 DEF ThreadStep

\* The loop keeps the invariant: it has the lock before it looks at the tables.
LEMMA LooperKeeps ==
    ASSUME WakeUpInv, LoopStep
    PROVE  WakeUpInv'
<1>. USE ThreadsAssumption DEF WakeUpInv, callers, PollUntil
<1>1. CASE AcquireLock
  BY <1>1
  DEF AcquireLock, ThreadTypes, LockedFirst, ListInOrder, NoProcessAtFirst,
      NoLostWakeUp, NoSortFailed, SomebodyWillWake, WillWake
<1>2. CASE ComputeTimeout
  BY <1>2
  DEF ComputeTimeout, ThreadTypes, LockedFirst, ListInOrder, NoProcessAtFirst,
      NoLostWakeUp, NoSortFailed, SomebodyWillWake, WillWake, ToSet
<1>3. CASE FirstTimer
  <2>1. timers \in Seq(TimerNames) /\ timers # <<>>
    BY <1>3 DEF FirstTimer, ThreadTypes
  <2>2. Len(timers) \in Nat /\ 1 \in 1..Len(timers) /\ Head(timers) = timers[1]
    BY <2>1
  <2>3. \A i \in 1..Len(timers) : Due[timers[i]] \in Nat
    BY <2>1, TimesAreNaturals
  <2>4. ThreadTypes' /\ ListInOrder' /\ NoProcessAtFirst' /\ LockedFirst'
    BY <1>3, <2>2, <2>3
    DEF FirstTimer, ThreadTypes, ListInOrder, NoProcessAtFirst, LockedFirst
  <2>5. InOrderOfDue(timers) => \A d \in ToSet(timers) : Due[Head(timers)] <= Due[d]
    BY <2>1, <2>2, <2>3, LenProperties DEF ToSet, InOrderOfDue
  <2>6. NoLostWakeUp'
    BY <1>3, <2>5
    DEF FirstTimer, ListInOrder, NoProcessAtFirst, NoLostWakeUp,
        SomebodyWillWake, WillWake, Threads
  <2>. QED
    BY <2>4, <2>6
<1>4. CASE PollReturns
  BY <1>4
  DEF PollReturns, ThreadTypes, LockedFirst, ListInOrder, NoProcessAtFirst,
      NoLostWakeUp, NoSortFailed, SomebodyWillWake, WillWake
<1>5. CASE ClearByte
  BY <1>5
  DEF ClearByte, ThreadTypes, LockedFirst, ListInOrder, NoProcessAtFirst,
      NoLostWakeUp, NoSortFailed, SomebodyWillWake, WillWake
<1>6. CASE RemoveAndCall
  BY <1>6, RemoveKeepsOrder, LenProperties
  DEF RemoveAndCall, ThreadTypes, LockedFirst, ListInOrder, NoProcessAtFirst,
      NoLostWakeUp, NoSortFailed, SomebodyWillWake, WillWake
<1>7. CASE \/ FirstTimerGone \/ SkipTimer \/ FoundTimer \/ RemoveFails
           \/ EndTimers \/ CallProcesses
  BY <1>7
  DEF FirstTimerGone, SkipTimer, FoundTimer, RemoveFails, EndTimers,
      CallProcesses, ThreadTypes, LockedFirst, ListInOrder, NoProcessAtFirst,
      NoLostWakeUp, NoSortFailed, SomebodyWillWake, WillWake
<1>. QED
  BY <1>1, <1>2, <1>3, <1>4, <1>5, <1>6, <1>7 DEF LoopStep

\* A step of any thread, or of the clock, keeps the invariant.
LEMMA WakeUpStep ==
    ASSUME WakeUpInv, [ThreadsNext]_threadsVars
    PROVE  WakeUpInv'
<1>1. CASE \E t \in Threads : ThreadStep(t)
  BY <1>1, CallerKeeps
<1>2. CASE LoopStep
  BY <1>2, LooperKeeps
<1>3. CASE Tick
  <2>1. now \in Nat /\ now' = now + 1 /\ deadline \in Nat
    BY <1>3 DEF Tick, WakeUpInv, ThreadTypes
  <2>2. now' \in Nat /\ (deadline <= now => deadline <= now')
    BY <2>1
  <2>3. UNCHANGED <<pc, saved, running, timers, pipe, listening, loop, deadline>>
    BY <1>3 DEF Tick, callers, looper
  <2>. QED
    BY <2>2, <2>3
    DEF WakeUpInv, ThreadTypes, LockedFirst, ListInOrder, NoProcessAtFirst,
        NoLostWakeUp, NoSortFailed, SomebodyWillWake, WillWake
<1>4. CASE UNCHANGED threadsVars
  BY <1>4
  DEF threadsVars, WakeUpInv, ThreadTypes, LockedFirst, ListInOrder, NoProcessAtFirst,
      NoLostWakeUp, NoSortFailed, SomebodyWillWake, WillWake
<1>. QED
  BY <1>1, <1>2, <1>3, <1>4 DEF ThreadsNext

\* The reactor does not sleep past work, whichever of any number of threads brings
\* it and whenever: as long as no addTimer has failed in its sort.
THEOREM NoWakeUpIsLost ==
    ThreadsSpec => []((\A t \in Threads : pc[t] # "ValueError") => NoLostWakeUp)
<1>1. ThreadsInit => WakeUpInv
  BY WakeUpStart
<1>2. WakeUpInv /\ [ThreadsNext]_threadsVars => WakeUpInv'
  BY WakeUpStep
<1>3. WakeUpInv => ((\A t \in Threads : pc[t] # "ValueError") => NoLostWakeUp)
  BY DEF WakeUpInv, NoSortFailed
<1>. QED
  BY <1>1, <1>2, <1>3, PTL DEF ThreadsSpec

\* A thread that alone sorts the list finds it empty when it ends.
LEMMA OneSortsStep ==
    ASSUME \A t, u \in TimerThreads : t = u, WakeUpInv, OneSorts,
           [ThreadsNext]_threadsVars
    PROVE  OneSorts'
<1>. USE ThreadsAssumption
<1>1. CASE \E t \in Threads : ThreadStep(t)
  <2>1. PICK t \in Threads : ThreadStep(t)
    BY <1>1
  <2>. QED
    BY <2>1
    DEF ThreadStep, InsertProcess, AppendTimer, SortBegins, SortEnds,
        CheckListening, WriteByte, Goto, OneSorts, WakeUpInv, ThreadTypes, Threads, looper
<1>2. CASE LoopStep /\ ~RemoveAndCall
  BY <1>2
  DEF LoopStep, AcquireLock, ComputeTimeout, FirstTimer, FirstTimerGone,
      PollReturns, ClearByte, SkipTimer, FoundTimer, RemoveFails, EndTimers,
      CallProcesses, callers, OneSorts
<1>3. CASE RemoveAndCall
  <2>1. timers # <<>>
    BY <1>3 DEF RemoveAndCall
  <2>2. pc' = pc
    BY <1>3 DEF RemoveAndCall, callers
  <2>. QED
    BY <2>1, <2>2 DEF OneSorts
<1>4. CASE Tick \/ UNCHANGED threadsVars
  BY <1>4 DEF Tick, callers, threadsVars, OneSorts
<1>. QED
  BY <1>1, <1>2, <1>3, <1>4 DEF ThreadsNext

\* With one thread that adds timers no sort fails, and no wake-up is lost: what
\* the threads that add processes do does not matter.
THEOREM OneTimerThreadIsSafe ==
    ASSUME \A t, u \in TimerThreads : t = u
    PROVE  ThreadsSpec => [](NoLostWakeUp /\ NoSortFailed)
<1>1. ThreadsInit => WakeUpInv /\ OneSorts
  BY WakeUpStart
<1>2. WakeUpInv /\ OneSorts /\ [ThreadsNext]_threadsVars => WakeUpInv' /\ OneSorts'
  BY WakeUpStep, OneSortsStep
<1>3. WakeUpInv /\ OneSorts => NoLostWakeUp /\ NoSortFailed
  <2>1. WakeUpInv /\ OneSorts => NoSortFailed
    BY DEF OneSorts, NoSortFailed, WakeUpInv, ThreadTypes, Threads
  <2>. QED
    BY <2>1 DEF WakeUpInv
<1>. QED
  BY <1>1, <1>2, <1>3, PTL DEF ThreadsSpec
=============================================================================
