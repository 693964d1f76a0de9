--------------------------- MODULE Descriptors ----------------------------
(* The descriptor numbers that clients of the reactor share: the kernel gives *)
(* a socket the lowest free number, the reactor's _fds keeps one registration *)
(* per number, also when its socket is closed.                                *)
EXTENDS Naturals, FiniteSets, FiniteSetsExt, Sequences

CONSTANTS Client,   \* who opens sockets, each one at a time
          Numbers,  \* bound: descriptor numbers, enough for all clients
          None

VARIABLES num,      \* [Client -> number of its open socket, or None]
          fds       \* [Numbers -> registration in _fds, or None]

Kinds == {"reader", "writer"}

\* Registrations that a client left behind: of a socket it closed, and of one
\* that only the registration keeps open.
Closed == <<None, "closed">>
Held   == <<None, "held">>

ASSUME DescriptorsAssumption ==
    /\ Numbers \subseteq Nat
    /\ None \notin Numbers \cup (Client \X Kinds) \cup {Closed, Held}

Registrations == (Client \X Kinds) \cup {Closed, Held, None}

DescriptorsTypeOK ==
    /\ num \in [Client -> Numbers \cup {None}]
    /\ fds \in [Numbers -> Registrations]

DescriptorsInit ==
    /\ num = [c \in Client |-> None]
    /\ fds = [n \in Numbers |-> None]

Available == {n \in Numbers : fds[n] # Held /\ \A c \in Client : num[c] # n}
Lowest == Min(Available)

\* A registration was left before, of the number that is next.
DescriptorsUsed ==
    /\ num = [c \in Client |-> None]
    /\ fds = [n \in Numbers |-> IF n = Min(Numbers) THEN Closed ELSE None]

\* A new socket is registered.  _addFD raises ValueError instead when its number
\* still has a registration.
Opens(c, kind) ==
    /\ Available # {} /\ fds[Lowest] = None
    /\ num' = [num EXCEPT ![c] = Lowest]
    /\ fds' = [fds EXCEPT ![Lowest] = <<c, kind>>]

\* The registration of c's open socket is removed and another one made.
Waits(c, kind) == fds' = [fds EXCEPT ![num[c]] = <<c, kind>>] /\ UNCHANGED num

\* _removeFD and close; close only, which leaves the registration; and the end
\* of a socket that the reactor alone still has.
Unregisters(c) == fds' = [fds EXCEPT ![num[c]] = None] /\ UNCHANGED num
Leaves(c) ==
    /\ num' = [num EXCEPT ![c] = None]
    /\ fds' = [fds EXCEPT ![num[c]] = None]
LeavesClosed(c) ==
    /\ num' = [num EXCEPT ![c] = None]
    /\ fds' = [fds EXCEPT ![num[c]] = Closed]
LeavesHeld(c) ==
    /\ num' = [num EXCEPT ![c] = None]
    /\ fds' = [fds EXCEPT ![num[c]] = Held]

LeftBehind == {n \in Numbers : fds[n] \in {Closed, Held}}

\* How many entries of a stream are of these kinds; and that its close or its
\* reset is the last that comes of it.
Count(stream, kinds) == Cardinality({i \in DOMAIN stream : stream[i] \in kinds})
ClosedLast(stream) ==
    \A i \in DOMAIN stream : stream[i] \in {"end", "reset"} => i = Len(stream)

\* c waits for its socket: one of these registrations is in the table.
WaitsAs(c, kinds) == num[c] # None /\ fds[num[c]] \in {c} \X kinds
=============================================================================
