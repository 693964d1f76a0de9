# A TLA+ verification of weightless-core

weightless-core is a Python framework for asynchronous servers built from
generators.  An event loop (`Reactor`) calls callbacks when files are ready, when
timers are due and on every turn (processes).  A callback is usually the
`__next__` of a generator; such a generator waits for something else by
*suspending* its callback (`Suspend`).  On top of that stand an HTTP server, HTTP
clients and a pool of client connections, all of them generators run by one thread.

This directory holds TLA+ modules translated from the source, the TLC
configurations that check them, and TLAPS proofs.  `PROJECT.json` lists, for
each definition, the source lines it models, and for each property a mutation of
the model that breaks it.

## Inventory

| Component | Source (`src/weightless/`) | State | Operations | Interacts with |
|---|---|---|---|---|
| Reactor | `io/_reactor.py` | `_fds`, `_suspended`, `_running`, `_timers`, `_badFdsLastCallback`, `_prio`, `_removeFdsInCurrentStep`, the epoll instance | add/remove of readers, writers, processes, timers; `cleanup`; `suspend`/`resume*`; `step`, `loop`, `shutdown` | calls every callback; the kernel; other threads through a pipe |
| Suspend | `io/_suspend.py` | settled flag, timer, result, handle | call, `resume`, `throw`, time-out, `getResult` | suspends a callback of the reactor, wakes a generator |
| SocketPool | `http/_socketpool.py` | idle sockets per destination, their number | get, put (with two limits), purge | used by HttpRequest1_1, timer of the reactor |
| HttpRequest1_1 | `http/_httprequest1_1.py` | one generator per request | connect, handshake, send, read, retry, pool | Reactor, Suspend, SocketPool |
| HttpServer / HttpHandler | `http/_httpserver.py` | request being parsed, its timer, response being written | read, dispatch, finish, time-out, write | Reactor, Suspend, Acceptor |
| HttpRequest (1.0) | `http/_httprequest.py` | one generator per request | connect, proxy, handshake, send, read, time-out | Reactor, Suspend |
| HttpReader | `http/_httpreader.py` | header and body being read, buffered chunks, timer | send, read, time-out, stop | Reactor, a handler generator |
| Gio | `io/_gio.py` | the contexts a generator is in, the last message, timers | read, write, time-out, close, enter and leave contexts | Reactor; drives one generator |
| Server, asProcess, sleep | `io/_server.py`, `io/utils/` | -; -; - | accept and make a Gio; a generator as a process; a timer as a Suspend | Reactor, Gio, Suspend |
| Acceptors | `http/_acceptor.py`, `udp/_acceptor.py` | one socket | accept, receive | Reactor |
| BufferedHandler, httpspec | `http/` | a buffer; - | collect a body; parse and format headers | HttpHandler |
| compose, Yield, local | `core/_compose_py.py`, `core/_local_py.py` | stack of generators, messages | send, throw, close | every generator above |
| Observable | `core/_observable.py` | observers of each component, names, what each Defer found | `all`, `any`, `do`, `call`, `once`; `addObserver`, `observable_setName`, `be` | every component |
| C extension | `core/*.c` | the same as compose and Observable, with a message queue of fixed size | | not built by `setup.py` |

What is hard here is not parallelism (there is one thread but for the pipe) but
*re-entrance and stale state*: every callback may change every table while a step
is going over a copy or over events polled earlier; descriptor numbers come back
with another file behind them; a timer, an answer and an exception race to settle
the same Suspend; and a list that looks safe under the interpreter lock is not,
while it is being sorted.  `PROJECT.json` lists the hazards line by line.

What makes each component correct:

* **Reactor**: an event reaches the registration it was polled for or nobody; the
  kernel and the tables agree; a handle is active or suspended, never both;
  nothing parked is lost; timers fire in order; everything active is served; work
  from another thread wakes the poll up.
* **Suspend**: exactly one of answer, error and time-out decides; nobody sleeps for
  ever; a late answer wakes nobody else.
* **SocketPool**: a socket has one owner; limits are kept; nothing idles for ever.
* **HttpRequest1_1**: one result per request; a retry only when nothing came back;
  a socket goes back to the pool only at the end of a response.
* **HttpHandler**: one response or close per request; the time-out timer is pending
  exactly while a request is incomplete; the callback is registered once.
* **compose**: messages are delivered once, in order; exceptions and
  `close` reach the innermost generator.
* **Observable**: a message gets to the observers in the order of the graph and to an
  end; `once` asks each object once, whatever the graph; a helix is built once.
* **HttpRequest (1.0), HttpReader, Gio**: who waits is registered for what it waits for,
  although others leave registrations under numbers that come back; who is over has
  left nothing, or what is known; what was sent is what the program is told.

## Modules

| Module | Models | Kind |
|---|---|---|
| `Reactor` | `io/_reactor.py`, one thread | core state machine |
| `MCReactor` | symmetry for TLC | model checking |
| `ReactorProofs` | the theorems about `Reactor` | proofs |
| `ReactorThreads`, `MCReactorThreads` | `addProcess`, `addTimer`, `_wake_up` and `step` of `io/_reactor.py` with other threads, statement by statement | state machine |
| `Suspend` | `io/_suspend.py`, with a client that yields Suspends one after the other | state machine |
| `SocketPool`, `MCSocketPool` | `http/_socketpool.py` with its clients | state machine |
| `Selection` | what a list keeps when some positions are taken out of it, by rank | operators shared by `SocketPool`, `HttpHandler` and `Observable` |
| `SelectionProofs` | lemmas about `Selection`, first positions and sorted fronts | proofs shared by the others |
| `SocketProofs` | theorems about `SocketPool`, with the refinement of `IdleConnections`, and about `Clients` | proofs |
| `IdleConnections` | what a pool of idle connections promises | abstract specification |
| `HttpRequest`, `MCHttpRequest` | `http/_httprequest1_1.py`, one request over pool, Suspend and reactor | state machine |
| `HttpRequestProofs` | theorems about `HttpRequest` | proofs |
| `HttpHandler`, `MCHttpHandler` | `HttpHandler` of `http/_httpserver.py`, one connection | state machine |
| `HttpHandlerProofs` | theorems about `HttpHandler` | proofs |
| `Compose` | `core/_compose_py.py`, the generator stack and its messages | state machine, and what `ComposeExt` has to implement |
| `ComposeExt` | `core/_compose.c`, the same with a ring of messages, limits and flags | state machine |
| `ComposeExtProofs` | theorems about `ComposeExt`, with the refinement of `Compose` | proofs |
| `WaitingProofs` | theorems about `Compose`, `Suspend` and `ReactorThreads`: who waits is given what it waits for | proofs |
| `Observable` | `core/_observable.py`: messages through a graph that changes | state machine |
| `ObservableProofs` | theorems about `Observable` | proofs |
| `MCObservable` | `be` and the graphs it builds; the order of a message as a recursion over the graph | model checking, pure functions |
| `Descriptors` | what clients of one reactor share: descriptor numbers and `_fds` | state shared by the next three |
| `HttpRequest10` | `http/_httprequest.py`, requests one after the other | state machine |
| `HttpReader` | `http/_httpreader.py`, one response and its handler | state machine |
| `Gio` | `io/_gio.py`, one generator, its contexts and its driver | state machine |
| `Clients`, `MCClients` | the composition of these three over `Descriptors` | composition, model checking |

Definitions whose comment begins with *Fault* are mutated forms of the definition
that follows them.  No specification uses them: they are there to show that a
property notices the mistake (`PROJECT.json`, "mutants").

### Reactor

The variables are the tables of the object (`fds` is `_fds`, `bad` is
`_badFdsLastCallback`, `removed` is `_removeFdsInCurrentStep`, and so on), the part
of the kernel it depends on (`fileno`, `epoll`), and the step in progress: `step()`
goes over copies (`fdEvents`, `timers[:]`, `list(processes.items())`) while
callbacks change the originals, so the rest of each copy is state (`todo`,
`dueTimers`, `snapshot`).  `phase` is the place in `step()`; `calling`,
`currenthandle` and `currentcontext` are the callback that runs.

A callback is arbitrary program code.  Between the action that calls it (`CallFD`,
`CallProcess`, `FireTimer`, `LastCallback`) and the one that ends it (`Return`,
`RaiseHandled`, `RaiseFatal`) any operations of the interface may happen in any
number and order: `AddFD`, `RemoveFD`, `Cleanup`, `SuspendFD`, `ResumeFD`,
`AddProcess`, `AddTimer`, ... and files may be opened (with any free number: they
*are* reused) and closed without the reactor being told.  `Poll(E)` returns any
subset of what the kernel watches, is interrupted (`PollInterrupted`) or raises
(`PollKilled`).  An operation that raises before it changes anything is no step.

### ReactorThreads

The same object at a finer grain, for the one thing other threads may do: put work
in a table and wake the poll up.  Each program thread makes one call of `addProcess`
or `addTimer` in the steps the interpreter can switch between (insert; sort; test
of `_epoll_ctrl_lock`; write); the loop takes the lock, computes its timeout, polls,
reads the pipe, and calls.  CPython's `list.sort` with a key empties the list while
it calls the key function: `saved` holds its contents meanwhile.

### Suspend

One client generator, three Suspends; anybody who was given one (`given`) may settle
it.  `CallSuspends`, `CallNotSuspended` (a Suspend called from where there is nothing to
suspend), `CallRaises` and `CallSettlesItself` are the ways `__call__` can end;
`SettledByOther` is `resume` or `throw`, `TimedOut*` the ways `_timedOut` can end.  `taken` is history:
what `getResult` gave the client when it went on.  When doNext raised, the client goes on with
that exception although nothing is settled (`NextCallback`), and somebody whom doNext had given
the Suspend may still settle it: a throw then replaces the exception, a response does not,
since `getResult` looks at the exception first.  `TakenIsKept` allows that and no other change.

### SocketPool and IdleConnections

One action per method; the ages of entries are relative to the clock.  A `put` into a
pool over its total limit picks destinations at random until one has a socket
(`PutSocketInFullPool` with the set `tried`).  `IdleConnections` knows neither order,
ages nor counters: it says who may have a socket; `SocketPool` implements it by
mapping `idle` to the sets of sockets in `_pool`.

### HttpRequest

The generator `_do` with the yields it waits at (`pc`), its registrations in the
reactor (`regs`), the timer and outcome of its Suspend, the pool as a set, and the
other end as a script of tokens: a header in two parts, body units or chunks, the last
chunk, excess.  One `recv` returns any first part of what is unread.  Errors may come
at every call, the timeout at every yield, and a retry begins with the same
`CreateSocket` as a first attempt.

### HttpHandler

One connection.  While it reads, `pc` is `_dealWithCall`; `Recv` takes any first part of
what the client has not sent, restarts the timer and deals with the buffer as far as
it goes, through all the states `setCallDealer` would go through.  While it responds,
`pc` is the yield at which `_writeResponse` waits.  What a handler yields is a script of
items with an end (it stops or raises); an item has two bytes so that `send` may take
a part of it.  `wire` is what the client gets.  An exception that leaves a callback
makes the reactor drop the registration, and the socket then lives as long as the
pending timer refers to it (`Dropped`): this is how a request that cannot be parsed
gets its 400 only after the timeout.

### Compose and ComposeExt

`compose` runs a stack of generators as one; everything above is written with it.  A
generator of the model is a frame: what it awaits (its start, a turn after a value, data,
or a call) and the data it has got.  It may do anything each time it runs: yield a value
or None, call a fresh or a used generator, return nothing or a result with the last part
of its data, or raise.  `Send`, `Throw` and `Close` are the three ways the loop runs the
last generator, `Finish` its end; the caller of `compose` sends None or data, throws or
closes at each yield (`control` says what it was given), and `stepping` makes it get a turn
at each call as well.

`ComposeExt` is the C implementation, which `setup.py` does not build and which
`doc/web/compose.md` names as an alternative "for better speed".  Its messages are in a
ring with a start and an end, it has flags where Python has a place in a program
(`started`, `expect_data`, `paused_on_step`), and limits: when one is hit where the code
looks at the result of an insertion an exception is raised in a generator; where it does
not, Python's error indicator remains set (`indicator`).  The refinement maps the ring to
a list and the flags to `control`; it holds up to the step that hits a limit (`strayed`).

The end of a generator (`Pops`) clears the place *above* the stack's new top, which `*self->generators_top-- = NULL`
(`_compose.c:432`) names, and not the generator's own.  With as many generators as `generators_allocated`
that place is one behind the allocation, and what the write does there is undefined in C.  `highest` is the highest
place that was written, and `StorageBounds` says how far it goes: that one place and none further.  The model goes
on after the write as if it changed nothing: the blocks that hold a stack (10, 20, 40 ... 1000 pointers) are
larger than asked for by at least one pointer in the allocator of the C library.

### Observable

A message that was sent is a `delivery`: its `frames` are the loops it is in, because a
Transparent sends on what it does not know to its own observers (`PassOn`) and `once` goes into
every component it visits (`Visit`).  A loop runs over what `findMethods` found (`Fixed`), or, in
`once`, over the living `_observers` list (`Living`).  `cache` is what the Defers keep: the
observers found for a message and a name, until `addObserver` makes all Defers anew (`Forget`).
`do` and `call` run to their end in their sender's call, so they are a `stack`; the others
are generators and advance in turns.  `how` is what the method that is asked does: return,
decline, raise, or raise the NoneOfTheObserversRespond of a message of its own.  `seen` is the set
of one `once`: two of them share the message object, but not the set.  `renamed` is history: whether
any name was set.  `OnceOnly` asks nothing of a message directed to a name after that (`Fresh`), since
a Defer keeps what it found by the old names.  `Below` is whom a `once` should reach: the least set
with the first observers that is closed under observing, so that no recursion is needed to say it.

`MCObservable` has `be` as a recursion over nested helices (`Strand`, `AddStrand`) and, to compare
with, the order in which a message should get to observers (`Order`), by recursion over the
graph alone.

### Descriptors, HttpRequest10, HttpReader, Gio and Clients

`Descriptors` is the part of the reactor and the kernel in which clients meet: `num` gives the
number of each client's open socket, the lowest that is free, and `fds` the registration under
each number, which outlives its socket when nobody removes it.  `Opens` and `Waits` are `_addFD`
(it raises for a number that still has a registration), `Unregisters` and `Leaves` are
`_removeFD`, without and with the close.  A socket can be opened as long as a number is free
(`Available`); with `Closed` and `Held` the table says what is left under a number by a client that is gone.

`HttpRequest10` is the generator `_do` with the yields it waits at, the other side as a script of
tokens (a proxy's status and blank line, units of data, close, reset, or silence).  A timeout
ends it in three ways: with its registration removed (`Timeout`); with the registration left
under a closed socket's number, at the yield before the first send (`TimeoutReady`); and, in a
handshake, with a registration that keeps the socket open, since `sok` is the object that
`wrap_socket` emptied (`TimeoutShake`, `LateEvent`).

`HttpReader` goes from its writer callback over `_headerFragment` to `_bodyFragment`; a chunk is three
tokens, because `_sendFragment` cuts off a CRLF that may not have arrived and hands on one
chunk at a time.  `told` is what the handler hears.  Callbacks may raise: the reader is then "lost", or
"broken" when it was by the server's reset, and its timer may still run.  `_timeOut` closes the socket,
unless `shutdown` raises before that, as it does for a socket that was reset: then the reader is "kept", without a
registration and with an open socket, until the caller of `HttpReaderFacade` drops it (`Dropped`).

`Gio` splits a turn of the driver, `callback2generator`, where the generator runs: `pc` is
"running" until the generator yields (`Yields`) or ends (`Ends`), which closes the context when it is
the answer to a CloseException other than that exception itself.  What it does is up to it: it
enters contexts and timers and leaves them (`Enter`, `Exit`), closes a socket, yields a response or None, lets
a TimeoutException or CloseException pass or answers it.  `message` is the driver's local
variable, which survives a timeout; `got` is what the generator was sent.

`Clients` has one program with the two HTTP clients and one with a Gio; any of them may find
a registration that another left under the next number.

## Runs

| Run | Question | Answer |
|---|---|---|
| `ReactorFd` | Can closing, reusing, suspending, resuming and cleaning up files from callbacks make tables and kernel disagree, or an event reach a wrong callback? | no |
| `ReactorTasks` | With files, processes and timers together and two priorities: do timers fire in order, and is everything that is active served? | yes |
| `ReactorThreads` | Does work from other threads wake the poll up and get called? | yes, unless a sort ends the loop |
| `ReactorSort` (violation) | Can `addTimer` be called from another thread while the loop runs? | the loop can read the list during its sort and die with an IndexError or ValueError |
| `Suspend` | Can answers, timeouts and exceptions in any order lose a client, wake it up twice or change a result it has taken? | no; a throw may only replace the exception of doNext |
| `SocketPool` | Are sizes counted, owners unique, limits and ages bounded, and is it an `IdleConnections`? | yes |
| `HttpRequest` | Does each request end once, with a whole body, nothing left open, the pool clean, and no repetition after an answer began? | yes |
| `HttpHandler` | One answer per connection, guarded by the timer, complete in both directions, and an end? | yes |
| `Compose` | Can calls, returns, pushed-back data, exceptions and steps give a generator a message that another one awaits, or lose or reorder data? | no |
| `ComposeExt` | Does the C implementation do the same as the Python one, and do its ring, stack and flags agree when a limit is hit? | yes, until a limit is hit; yes, but the end of a generator on a full stack writes one place behind the allocation, and none further |
| `Observable` | Do messages ask whom they should, once, in order, and end, in graphs with loops and shared helices that change under way? Does `be` build what is written? | yes, but for messages directed to a name that changed |
| `Clients` | Can registrations under numbers that come back, timeouts and errors in any order make a client wait for nothing, or a program be told what was not sent? | no; a timeout leaves one registration at two yields, and a reader's socket open after a reset |

The violation is what the code does against what a test says; `PROJECT.json` "findings"
quotes the lines.

Each run checks one conjunction of the facts that have to hold together: `IInv` of `SocketPool` is the types,
`PoolSizeCounts`, `OneOwner` and `WithinLimits`; `SuspendOK` of `Suspend` has `TimerTokens`, of `HttpRequest`
`OneDriver`, of `HttpHandler` `OneAnswer`, of `Compose` `RightMessage`; `ReadToItsEnd` is `PooledAtBoundary` and
`WholeBody`; the properties of `Clients` are the conjunctions of those of its three clients.

### Bounds, and why they are enough

* `ReactorFd`: three files, two descriptor numbers.  A number must be able to come back
  with another file (two files for one number), a file must be able to come back with
  another number (two numbers), and a third file can then take what was freed.
  `MaxBad = 2` bounds `_badFdsLastCallback`: one entry to take and one that is added
  meanwhile.  One priority: priorities do not enter into these properties.
* `ReactorTasks`: one file, one process, and two timers, because a callback of one has to remove
  or re-add the other; two priorities, so that turns matter; delays 0 and 1 make timers
  equal, ordered and (with `MaxLate`, how long a pending timer is overdue before `Tick` waits
  for it) late.  Closed files are left to `ReactorFd` (`MaxBad = 0`).  Without symmetry, as
  liveness needs.
* `ReactorThreads`: two process threads race for the pipe, one timer thread against two
  timers of the loop, whose times are later, so that the poll must be cut short.
  The clock stops at `Infinity`, which is after every timer.
* `Suspend`: three in a row, so that the first can be late for the second and the
  third; one of them without a timeout.
* `SocketPool`: three destinations so that a victim of the total limit can be the own, the other
  or an empty one; six sockets, four in the pool and two at clients; timeout 2.
* `HttpRequest`: every combination of a request's and a response's features, bodies of 0 to 2
  units, three turns of the handshake for the code's 254: a first, one between and
  the last, which cannot succeed.
* `HttpHandler`: every kind of request with at most one deviation each, bodies up to 2
  units, eight handlers that cover every kind of item before and after the first byte.
* `Compose`: four generators in a stack, so that data pushed back by two of them can meet, and
  four data, so that each can have some.
* `ComposeExt`: a ring of four places, which wraps and fills up, a stack that starts with
  two places, is doubled and limited to three; three data, and four generators wanted.

* `Observable`: two messages, so that one is under way during the other (any two kinds, also
  two `once`, and a `do` inside an `all`); one change of the graph or of a name; a helix
  below two Transparents and below the root, and two components that observe each other,
  which is the shortest loop.
* `Clients`: two requests, so that the second may find what the first left; two turns of the
  handshake (for 254): one that may go on and the last; bodies of two units or two chunks, so
  that a chunk may be behind another; for Gio three with-blocks, of which one is a timer, around
  two sockets.  Four numbers are more than sockets and leftovers need.

Symmetry is declared only for safety runs and only over values that the code compares
for equality alone.

### Fairness, and why the code justifies it

* `Reactor`: the one thread goes on whenever it can (`WF` of `StepProgress`): callbacks end, and
  `loop` calls `step` for ever.  Time passes (`WF` of `Tick`), and a poll with a timeout
  returns when it is over.  A poll *without* one need not return.  `<>[][~PollInterrupted]`
  assumes that signals interrupt finitely many polls: `_prio` is advanced before the
  poll, so that an interrupted step uses up its priority's turn, and interruptions in
  step with MAXPRIO would starve that priority.
* `ReactorThreads`: a thread inside a call is scheduled again; no thread need ever call.
* `Suspend`: the reactor calls due timers and callbacks that are not parked; nobody is obliged
  to settle anything.
* `HttpRequest`: the reactor calls what is ready, the server sends what it announced and
  closes after a body that only the close delimits.  `RequestEnds` names the exception:
  without a timeout the swallowed answer behind a 100 Continue makes it wait for ever.
* `Observable`: who has sent a message drives it to its end; `compose` does so for the generators.
* `Clients`: the reactor calls what is ready (`Event`) and timers that are due.  `Send` with the last byte
  has strong fairness: a socket does not take ever smaller parts for ever.  Nothing is
  assumed of a Gio's generator, and nothing promised.
* `HttpHandler`: the client is obliged to nothing but to take, or to reset the
  connection, when a response is written; the reactor reports a close and calls
  timers; who holds a Suspend settles it.  There is no timer in a response: a client
  that stops reading keeps its connection.

## What is proved

Every safety property that a passing run checks is also a theorem, except for `InOrder` and `AsWritten` of `MCObservable`,
which are about recursions.  A theorem holds for every value of the constants that the module's named assumption
admits.  The assumptions give types, except for these:

* `None`, `NULL`, `NoLimit` and `NoSuspend` are none of the values they stand beside; the clients of `Clients` are
  different ones, and so are the threads of the two kinds;
* the sockets of `SocketPool` and the timers of a loop are finite in number;
* `ComposeExt`: the ring has two places at least (one is always free), and the stack may become as large as it begins;
* `HttpRequest10`: a handshake may take one turn at least;
* `HttpRequest`: a response without a body (`framing = "none"`) has a body of no units;
* `HttpHandler`: a handler yields a finite sequence and then stops or raises (`Handlers \subseteq Scripts`);
* `Clients`: nothing comes after the close or the reset of the other side (`ClosedLast`, a promise of TCP); behind a
  header comes the body, behind the data of a chunk its CRLF and behind the last chunk nothing, unless the
  connection ends there (`Framed`, the format of chunks).  A server that breaks the format is not modelled: `_httpreader.py`
  has no test for it, and hands on what it finds.

| Module | Theorem | States |
|---|---|---|
| `ReactorProofs` | `TypeCorrect`, `InductiveInvariant`, `NeverActiveAndSuspended` | `TypeOK`, `IInv`, `ActiveXorSuspended` |
| | `NoCallIsStale`, `ResumeNeverLoses`, `TimersFireInOrder` | `NoStaleCall`, `ResumeKeepsContext`, `TimersInOrder` |
| `WaitingProofs` | `TimerTokensHold`, `NobodyOrphaned` | `SuspendOK`, `NoOrphan` |
| | `OnlyCurrentWakesUp`, `TakenResultsAreKept` | `WokenByCurrent`, `TakenIsKept` |
| | `ComposeTypes`, `MessageIsRight`, `DataStaysInOrder` | `TypeOK`, `IInv`, `DataInOrder` of `Compose` |
| | `NoWakeUpIsLost`, `OneTimerThreadIsSafe` | `NoLostWakeUp`, see below |
| `ComposeExtProofs` | `StorageInBounds`, `ExtIsCompose` | `StorageBounds`, `ImplementsCompose` |
| `SocketProofs` | `PoolIsSound`, `IdleSocketsGo`, `PoolRefinesIdleConnections` | `IInv`, `IdleIsBounded`, `ImplementsIdleConnections` |
| | `ClientsAreWatched`, `ClientsCleanUp`, `ClientsHearAll` | `Watched`, `CleanedUp`, `Outcomes` |
| `HttpRequestProofs` | `RequestHasOneDriver`, `RequestLeavesNothing` | `IInv`, `NothingLeftBehind` |
| | `RequestRetriesUnanswered`, `RequestReadsToItsEnd` | `RetriedUnanswered`, `ReadToItsEnd` |
| `HttpHandlerProofs` | `TimerGuards`, `AnswersBeforeClose` | `TimerGuardsRequest`, `AnsweredBeforeClosed` |
| | `OneAnswerIsSent`, `NothingIsLost`, `WholeRequestIsGiven` | `IInv`, `NothingLost`, `WholeRequest` |
| `ObservableProofs` | `OnceAsksNobodyTwice`, `OnceReachesAll` | `IInv`, `OnceOnly` |

### Reactor

What the kernel watches are the registrations of open files (`EpollMatchesTable`, a part of `IInv`).
That is not inductive by itself: `_removeFD` and `cleanup`
search by file object, and would miss a second context of the same file under another
number; and a close would leave an epoll registration behind, or take one away, if two
open files had one number.  Hence `FilenoInjective` (the kernel's promise) and `OneNumber`: the
contexts that hold a file object (registered, suspended, or running as a callback) are
all under one number, the file's own while it is open.  `OneNumber` in turn needs
`ActiveXorSuspended`, because resume writes the table.  `EventsGuarded` carries the step's poll
through its phases: a number with an event is in `removed`, or its registration is the
polled one (`fresh` is a history variable for just that).  `IInv` is their conjunction with
`TypeOK`.  The proof has one step per action; the actions that change none of the tables
share `CoreUnchanged`.  `NoCallIsStale` follows from `EventsGuarded` and the test in `_callbacks`,
`ResumeNeverLoses` from `ActiveXorSuspended`: `_addFD` cannot raise for what was just popped.

`TimersFireInOrder` has an invariant of its own, `TimersInv`: the list is sorted, and a timer of it
that the rest of the copy still holds is due, with every timer before it in the list standing before it in the copy
(`DueFirst`).  A callback cannot break that: what it adds is sorted in behind all that
is due already, and what it removes stands before nothing any more.

### ReactorThreads

`NoLostWakeUp` says of a loop in its poll that whatever is new will wake it up: a byte is in the pipe, or a thread
stands before its write.  The loop computes its timeout from the first timer of the list, so the invariant
(`WakeUpInv`) has to say that the list is in order, but for a timer that was appended and is yet to be sorted (`ListInOrder`);
that the loop has the lock from before it looks at the tables until its poll returns (`LockedFirst`), since without it a
thread would write nothing; and that a process which came after the loop had seen none will wake it up (`NoProcessAtFirst`).

With two threads in `addTimer` this is *not* so: the sort that ends last fails with "list modified during sort" and
throws away what the other one inserted, whose wake-up then is for nothing.  `NoWakeUpIsLost` therefore says
`(\A t : pc[t] # "ValueError") => NoLostWakeUp`, for any number of threads of both kinds, and `OneTimerThreadIsSafe` that
there is no such failure, and `NoLostWakeUp` without a condition, with at most one thread that adds timers (`OneSorts`).
The run has one for the same reason.

### Suspend

`NoOrphan` says of a parked client that its Suspend can wake it up.  What makes that
inductive is `OnlyCurrentWakes`: a Suspend that has a `_whenDone` and is not settled is the one at which the
client is parked, so that settling an earlier one moves nobody.  `GivenFirst` (nobody settles what
he was not given) and `ClientAndContext` close the circle; `WokenByCurrent` follows
from the conjunction, `SuspendInv`, action by action.  For `TakenIsKept` it has `TakenInv`: a client that went
on has taken the result of a Suspend that is settled, or whose doNext raised (`Raised`); the test of `_settled` guards
the first, and the order in `getResult` the second.

### SocketPool

`SocketPoolInv` follows the pool through a method that changes it twice in a step: lemmas speak of any
function from destinations to lists (`IsPool`), and of a list that loses its first, its last or any of its entries.
`_poolSize` is the cardinality of the sockets in the lists, which is why no socket may be in them twice.
`IdleIsBounded` needs the timer: at the *next* purge no entry is older than two timeouts
(`AgeOK`), which `Tick` keeps because entries and timer move together, and which the purge
restores because what it leaves is no older than one.  `PoolRefinesIdleConnections` maps each
action to one of `IdleConnections`: a `put` that evicts and closes is its put with what is closed.

### HttpRequest

`RequestInv` describes the generator by its place: `BeforeInv`, `ConnectInv`, `UseInv`, `AfterInv`, `SettledInv`.
In each it says which sockets are open, that exactly one registration exists and of which socket, and
what may be retried.  The retry rests on `UseInv`: a pooled socket that gave no data has all of the
answer before it.  `RequestReadsToItsEnd` needs in addition that what was read and what is
unread are the answer divided (`DataInv`): in the header by the place where what is not matched yet begins
(the start, or behind the 100 Continue), in the body by the units read so far, which are not all.

### HttpHandler

The timer can fire under a reader that stays registered, when `send` raises
in `_badRequest`; `TimerInv` therefore says that such a reader has lost its client, that a
registered reader is in a state of the parser, and that a response is registered or
suspended, so no callback of the reader can start in a response.  Every part of a callback
of the reader establishes `AfterRecv`, whatever it is called after, so that the nesting of
the parser (`ReadHeaders` to `ReadMultiForm` or `ReadBody` to `FinalizeRequest`) becomes one
lemma for each part.  For the answer, `AnswerInv` adds the two facts on which the closings
in `_writeResponse` rest: `_responseStarted` is true only after a byte of an answer has
been sent (or the client was lost), and the loops that send a 500 or a flushed compressor
begin with something to send.  The second needs `TimerInv`: a pending timer or a
registered reader is what keeps a connection open that has no answer yet.

`OneAnswerIsSent` and `NothingIsLost` are read off `OutputInv`: what the client got is at most a 100 Continue
and then `said`, and while the handler runs, `said`, the rest that the socket did not take and what the
compressor holds are together what the handler produced.  `WholeRequestIsGiven` is the same in the other
direction (`ReadInv`): there is a place in the request up to which it was read, what is unread begins
behind it, and the buffer is what lies before it, from the start or from behind the headers.  `Contains` and
`OnlyData` then speak of places in the request, not of the buffer, so that no cut of the `recv`s matters.

### Compose

The kind of the next message depends on what was put in front of the list
last, so it is right as long as nothing but data can come to the front from behind:
`Leftover` says that whatever waits behind the next message, and whatever waits while an
exception travels down the stack or the caller has its turn, is pushed-back data.  One
lemma for each thing a generator can do shows that the conjunction, `MessageInv`, is kept
(`GoesOn`, `ReturnsToCaller`, `RaisesToCaller`); `BecameTop`, `BecameCaller` and `Popped` are the
facts about stacks that they share.

`DataInOrder` is stated over places and not over a concatenation of the frames: what each
generator has is increasing, what a caller has comes before what its callee has, and all of it before what
waits.  `OrderInv` adds `MessageInv` and that nothing waits when the caller of `compose` is asked for
data; the new datum is then the last one.

### ComposeExt

`StorageBounds` is inductive with three facts about what runs (`Turn`): there is a message for the
generator that runs next, compose has started, and an exception is on its way only while it runs.  Positions in the ring are
reckoned as distances from its start (`Order` is the list that a ring stands for); an insertion in front, one behind and a
removal have a lemma each that says what they make of the list, at the wrap of the ring and when it is full too.

`ExtIsCompose` needs in addition that the flags tell what the generators await (`Straight`): `expect_data`, `started` and
`paused_on_step` stand for `control`.  It holds while no limit was hit; from then on (`strayed`) the mapping
demands nothing.  Each thing a generator or the caller does has a lemma that names the step of `Compose` it is.

### Clients

The clients share `num` and `fds`, so each proof has two halves.  `Table` is the half that all of them need: a number is one client's at
most, a registration that is not left over is under the number of its client, and what is `Held` keeps its number taken.
Every action changes the entries of its own client only (`Aside`); hence the invariant of each client (`RequesterInv`,
`ReaderInv`, `GioInv`) is kept by the steps of the others, and each has to be shown for its own steps alone.
A registration left behind is counted where it is made: `LeftBehindInv` compares what is left with `timeouts`, and the
timeout that leaves one is the only step that can add to it.  That a reader's socket is kept only after a reset or a
failure needs two facts from before the timeout (`ReaderFails`): a reset that is still to come is one of the response, and
a reader whose callback raised has failed.

`Outcomes` speaks of ends, and its invariants of what is under way.  For a request (`RequestOutcome`): what was read and the data
that is still unread are the data of the answer; a request past the proxy has had its OK, and is within its limit as long as it
goes on.  For a reader (`ReaderOutcome`): data heard, data in the buffer and data to come are together that of the response; before
its end a handler heard the header and data only (`Plain`); and a close after the last chunk leaves
nothing over, because buffer and stream together are framed (`Behaves`) and that chunk is the first in them.  For a Gio
(`GioOutcome`): the generator's messages are not older than those before, every unit is among them, and the message that
the driver keeps is the newest unit or none, so that what it sends again after a timeout is one that was counted.  `Count` is
the cardinality of a set of positions, which adds up when streams are joined and divided (`CountConcat`, `CountDivided`).

### Observable

Two facts about a `once` meet in `Inv`.  Whom it has seen is in every set that holds its first observers and is closed under
observing (`SeesBelow`): so it reaches nobody else.  And the first observers, like those of each component it has seen,
are seen or still before one of its loops (`MissesNobody`): when the loops are over, what is seen is
itself such a set, and so holds `Below`.  The loops run over living lists; `Grown` and `LoopsBelow` say that
an addition only puts more before them.  `CacheInv` says that what a Defer keeps is what it would find,
as long as no name was set; `WellAsked` that who was asked was marked and asked once.

## What is only model-checked

* Liveness under fairness (`Served`, `AdditionsGetCalled`, `EndsInTime`, `RequestEnds`, `ConnectionEnds`,
  `DeliveriesEnd`, `ClientsEnd`) is beyond the prover.
* `InOrder` and `AsWritten` compare with the recursive definitions of `MCObservable`; what a
  recursion computes for every input would need an induction that the provers cannot do.

## Seen in the code, without a run of their own

* `getPooledSocket` hands out the newest socket (`pop()`); the docstring of `SocketPool` says
  "Re-uses oldest connections first (FIFO)".
* `suspend()` asks whether its handle is registered, not whether its context is: after a
  callback removed and added its own file again, the old context is parked and the new
  one lost.
* A closed file that a last callback adds gets its own last callback in the same step,
  though "Additions of new events are effective with the next step() call".
* With two threads in `addTimer`, the one whose sort ends last throws the other's timer
  away with a ValueError ("list modified during sort"), and the loop may sleep past it.
* With `compressResponse`, a handler that yields nothing is not answered by a 500 but by the
  trailer of the compressor, because its flush counts as a started response.
* A success at the 254th turn of a TLS handshake is taken for a failure.
* A multipart request gets no 100 Continue, and one whose closing boundary is followed
  by more data in the same `recv` is answered by a 400 after the timeout.
* `shutdown` of a connection the server has reset makes a complete response an error in the 1.1 client
  (the 1.0 client tolerates ENOTCONN), and in `HttpReader._timeOut` it raises before `close()`: the socket stays
  open as long as the `HttpReader` that `HttpReaderFacade` returned (`CleanedUp` allows that after a reset or a
  callback that raised).
* After a 100 Continue, `_readHeader` of the 1.1 client calls itself with what followed, and begins with a
  `recv` before it matches anything: when the 100 and the whole response arrive in one `recv`, the request
  waits for more (for ever, or until its timeout).  The comment says "100 Continue response, eaten it -
  and then read the real response."  `RequestEnds` excepts this end.
* `_determineDoCloseFromConnection` looks for the `str` 'Connection' among headers whose keys are `bytes`: a
  connection whose response says `Connection: close` goes into the pool.
* A timeout of the 1.0 client at the yield before its first send closes the socket and leaves its
  registration; in a handshake it leaves the registration and the open socket.  The next client that gets
  the number is refused with a ValueError (`CleanedUp` counts what is left: one for each timeout).
* `HttpReader` hands on one chunk per `recv`; the rest waits for the next `recv`, and is dropped when
  that brings the close.  After the last chunk it starts its timer again, so that a handler
  that was closed is told of a timeout.  When `recv` or the handler raises in `_bodyFragment`, nobody is told.
* `BufferedHandler` has `next` and no `__next__`: `_sendPostRequest`, which calls `next(self._handler)`, raises
  with it.
* The message of a Gio is sent again after a timeout that is answered by None; a response to a
  CloseException is dropped; an error of `os.read` or `os.write` ends the driver and leaves its generator where it is.
* A context keeps the number of a socket that was closed: a yield in it uses that number, whoever has it.
* A Defer does not notice a new name of an observer.
* An exception in the callback that accepts (`Acceptor._accept`, `Server.connect`) makes the reactor remove the
  listening socket's registration.
* A client that connects and sends nothing keeps its connection for ever, because the timer
  starts at the first data; the docstring of `HttpServer` says "When a client does not send a
  valid HTTP request, it is disconnected after timeout seconds."
* When the outermost generator returns a result and pushed-back data, the Python `compose`
  returns `messages[0]` alone; the C one passes all of them on in its StopIteration.
* Data as the first thing sent to a fresh compose is refused by Python with a TypeError and
  leaves it as it was; the C implementation ends by an AssertionError.
* `_compose_go` ignores the result of `messages_insert` for the None of a call: with a full
  queue the generator that was called is ended by a SystemError.  "maximum recursion
  depth exceeded" goes to the caller of `compose`, past the generators.
* `*self->generators_top-- = NULL` in `_compose_go` clears the place above the last generator and
  not the generator's own.  Nothing reads either; but with as many generators as
  `generators_allocated` that place is one behind the allocation (`StorageBounds` allows that one).

## What is not modelled, and why

* Contents: regular expressions, header formatting, encodings, MIME, the text of logs.
* Files given to the reactor as bare descriptor numbers; signals other than as an
  interrupted poll; `KeyboardInterrupt` in the middle of a statement.
* An `AssertionError` raised by a request handler (it ends the loop by design).
* Of `Gio`: a yield outside any context (an AssertionError ends the loop), a yield in the context of a closed
  socket, file contexts, the frames that `local` walks.  Of `Observable`: arguments and results, tracebacks.
* `Server`, `asProcess`, `sleep`, the acceptors and `BufferedHandler` keep no state that steps of theirs could bring out of
  order: each is one callback or generator over `Reactor`, `Suspend`, `Gio` or `HttpReader`.
* `local`, `tostring`, the generator decorators, `httpspec` and the other C sources: see the notes of
  `PROJECT.json` "components".

## Plan

Done, in this order: `Reactor` with its proofs, `ReactorThreads`, `SocketPool` over
`IdleConnections`, `Suspend`, `HttpRequest`, `HttpHandler` with its first proofs, `Compose`
with its first proofs and `ComposeExt`; then `Observable`, and the HTTP/1.0 client, `HttpReader` and `Gio` over
`Descriptors`, composed in `Clients`; then the proofs about `Suspend`, `SocketPool` with its refinement,
`HttpRequest`, the rest of `HttpHandler` and `Compose`, `Observable`, and the order of timers; then those about
`ReactorThreads`, `ComposeExt` with its refinement, and `Clients`.

What a next step would be:

1. A composition of `HttpRequest` with `SocketPool` for several requests that share a
   destination, against `IdleConnections`.
2. Two components that drive each other: an `HttpHandler` whose handler waits for an `HttpRequest`.
3. `InOrder` of `MCObservable` over places in a delivery, without the recursion, which could then be proved.
