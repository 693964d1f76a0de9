----------------------------- MODULE SocketPool ----------------------------
(* The pool of idle client connections of weightless/http/_socketpool.py.     *)
(* Its methods are generators, but none of them waits: they run to the end in *)
(* one step of the reactor.                                                   *)
EXTENDS Integers, Sequences, FiniteSets, Selection

CONSTANTS
    Dests,                  \* destinations: (host, port)
    Sockets,                \* socket objects
    _limitTotalSize,        \* NoLimit, or the limit
    _limitDestinationSize,  \* NoLimit, or the limit
    _unusedTimeout,         \* NoLimit, or seconds (ticks) between two purges
    NoLimit                 \* None

\* totalSize = 0 is left out: choice() of no destination raises, in every put.
ASSUME SocketPoolAssumption ==
    /\ NoLimit \notin Nat
    /\ IsFiniteSet(Sockets)
    /\ _limitTotalSize \in (Nat \ {0}) \cup {NoLimit}
    /\ _limitDestinationSize \in Nat \cup {NoLimit}
    /\ _unusedTimeout \in (Nat \ {0}) \cup {NoLimit}

VARIABLES
    _pool,      \* destination -> sequence of (socket, age): age = time() - put
    keys,       \* the keys of the dict _pool: some with an empty list
    _poolSize,
    timer,      \* ticks until the purge; NoLimit without _unusedTimeout
    open,       \* sockets that are not closed at our end
    held        \* sockets in the hands of clients

vars == <<_pool, keys, _poolSize, timer, open, held>>

Entry == [sock : Sockets, age : Nat]

TypeOK ==
    /\ _pool \in [Dests -> Seq(Entry)]
    /\ keys \subseteq Dests
    /\ \A d \in Dests \ keys : _pool[d] = <<>>
    /\ _poolSize \in Int
    /\ timer \in Nat \cup {NoLimit}
    /\ open \subseteq Sockets /\ held \subseteq Sockets

Init ==
    /\ _pool = [d \in Dests |-> <<>>]
    /\ keys = {}
    /\ _poolSize = 0
    /\ timer = _unusedTimeout
    /\ open = {} /\ held = {}

\* The sockets in a list of entries, and in the pool.
SocketsIn(entries) == {entries[i].sock : i \in DOMAIN entries}
Pooled == UNION {SocketsIn(_pool[d]) : d \in Dests}

----------------------------------------------------------------------------
(* Clients.  HttpRequest connects when the pool has nothing for it, and       *)
(* closes the socket or puts it in the pool when it is done.                  *)

Connect(s) ==
    /\ s \notin held \cup Pooled
    /\ held' = held \cup {s} /\ open' = open \cup {s}
    /\ UNCHANGED <<_pool, keys, _poolSize, timer>>

ClientCloses(s) ==
    /\ s \in held
    /\ held' = held \ {s} /\ open' = open \ {s}
    /\ UNCHANGED <<_pool, keys, _poolSize, timer>>

----------------------------------------------------------------------------
\* Fault: the entry is read, not popped.
AllEntries(entries) == entries

\* socks.pop(): the newest entry
AllButNewest(entries) == SubSeq(entries, 1, Len(entries) - 1)
Newest(entries) == entries[Len(entries)].sock

GetPooledSocket(d) ==
    /\ d \in keys /\ _pool[d] # <<>>
    /\ _pool' = [_pool EXCEPT ![d] = AllButNewest(@)]
    /\ _poolSize' = _poolSize - 1
    /\ held' = held \cup {Newest(_pool[d])}
    /\ UNCHANGED <<keys, timer, open>>

\* IndexError: the key of an empty list is deleted.
GetFromEmptyList(d) ==
    /\ d \in keys /\ _pool[d] = <<>>
    /\ keys' = keys \ {d}
    /\ UNCHANGED <<_pool, _poolSize, timer, open, held>>

\* The first half of _purgeSocksIfOversized: the pool without the oldest entry
\* of a full destination.
DestinationFull(d) ==
    /\ _limitDestinationSize # NoLimit
    /\ _pool[d] # <<>> /\ Len(_pool[d]) >= _limitDestinationSize

PurgedDestination(d) ==
    IF DestinationFull(d) THEN [_pool EXCEPT ![d] = Tail(@)] ELSE _pool

SizeAfterPurge(d) == IF DestinationFull(d) THEN _poolSize - 1 ELSE _poolSize

TotalFull(d) == /\ _limitTotalSize # NoLimit
                /\ SizeAfterPurge(d) >= _limitTotalSize

\* Fault: the socket that has to go from a full destination is not closed.
PutWithoutClosing(d, s) ==
    /\ s \in held
    /\ ~TotalFull(d)
    /\ _pool' = [PurgedDestination(d) EXCEPT
                    ![d] = Append(@, [sock |-> s, age |-> 0])]
    /\ keys' = keys \cup {d}
    /\ _poolSize' = SizeAfterPurge(d) + 1
    /\ held' = held \ {s}
    /\ UNCHANGED <<open, timer>>

\* putSocketInPool when the total limit is not reached
PutSocketInPool(d, s) ==
    /\ s \in held
    /\ ~TotalFull(d)
    /\ _pool' = [PurgedDestination(d) EXCEPT
                    ![d] = Append(@, [sock |-> s, age |-> 0])]
    /\ keys' = keys \cup {d}
    /\ _poolSize' = SizeAfterPurge(d) + 1
    /\ held' = held \ {s}
    /\ open' = IF DestinationFull(d) THEN open \ {_pool[d][1].sock} ELSE open
    /\ UNCHANGED timer

\* putSocketInPool when it is: random destinations are tried, the keys of the
\* empty ones deleted, until one gives up its newest socket.
PutSocketInFullPool(d, s, victim, tried) ==
    LET purged == PurgedDestination(d) IN
    /\ s \in held
    /\ TotalFull(d)
    /\ victim \in keys /\ purged[victim] # <<>>
    /\ tried \subseteq {e \in keys : purged[e] = <<>>}
    /\ _pool' = [[purged EXCEPT ![victim] = AllButNewest(@)] EXCEPT
                    ![d] = Append(@, [sock |-> s, age |-> 0])]
    /\ keys' = (keys \ tried) \cup {d}
    /\ _poolSize' = SizeAfterPurge(d)
    /\ held' = held \ {s}
    /\ open' = open \ ({Newest(purged[victim])} \cup
                       (IF DestinationFull(d) THEN {_pool[d][1].sock} ELSE {}))
    /\ UNCHANGED timer

----------------------------------------------------------------------------
(* The purge of idle sockets.                                                 *)

\* Fault: two timeouts have to pass.
UnusedTwice(entry) == entry.age > 2 * _unusedTimeout

Unused(entry) == entry.age > _unusedTimeout

\* What the purge leaves of a list, and the sockets it closes.
Kept(entries) ==
    AtPositions(entries, {i \in DOMAIN entries : ~Unused(entries[i])})
Expired(entries) ==
    {entries[i].sock : i \in {j \in DOMAIN entries : Unused(entries[j])}}

\* unusedTimeout, called by the reactor's timer, which it sets again
UnusedTimeout ==
    /\ timer = 0
    /\ LET gone == UNION {Expired(_pool[d]) : d \in Dests}
       IN  /\ _pool' = [d \in Dests |-> Kept(_pool[d])]
           /\ open' = open \ gone
           /\ _poolSize' = _poolSize - Cardinality(gone)
    /\ timer' = _unusedTimeout
    /\ UNCHANGED <<keys, held>>

\* The reactor calls the timer before the clock gets any further.
Tick ==
    /\ timer # NoLimit /\ timer > 0
    /\ timer' = timer - 1
    /\ _pool' = [d \in Dests |-> [i \in DOMAIN _pool[d] |->
                    [_pool[d][i] EXCEPT !.age = @ + 1]]]
    /\ UNCHANGED <<keys, _poolSize, open, held>>

\* __del__: the pool is collected, with the reactor that holds its timer, and
\* the program makes a new one.
Delete ==
    /\ _pool' = [d \in Dests |-> <<>>]
    /\ keys' = {} /\ _poolSize' = 0
    /\ timer' = _unusedTimeout
    /\ open' = open \ Pooled
    /\ UNCHANGED held

Next ==
    \/ \E s \in Sockets : Connect(s) \/ ClientCloses(s)
    \/ \E d \in Dests : GetPooledSocket(d) \/ GetFromEmptyList(d)
    \/ \E d \in Dests, s \in Sockets : PutSocketInPool(d, s)
    \/ \E d, victim \in Dests, s \in Sockets, tried \in SUBSET Dests :
          PutSocketInFullPool(d, s, victim, tried)
    \/ UnusedTimeout \/ Tick \/ Delete

Spec == Init /\ [][Next]_vars

----------------------------------------------------------------------------
\* _poolSize, which is counted up and down in five places, is the number of
\* sockets in the lists: the total limit is applied to the real size.
PoolSizeCounts ==
    /\ _poolSize = Cardinality(Pooled)
    /\ \A d, e \in Dests : \A i \in DOMAIN _pool[d], j \in DOMAIN _pool[e] :
          _pool[d][i].sock = _pool[e][j].sock => d = e /\ i = j

\* A socket is with one client, or idle, or closed; what is idle is open, and
\* what is open is with a client or in the pool: none is leaked.
OneOwner == Pooled \cap held = {} /\ open = Pooled \cup held

\* The limits hold, except that a destination limit of 0 works like 1: an empty
\* list is never taken for a full one.
WithinLimits ==
    /\ _limitTotalSize # NoLimit => Cardinality(Pooled) <= _limitTotalSize
    /\ _limitDestinationSize # NoLimit =>
          \A d \in Dests : Len(_pool[d]) <= IF _limitDestinationSize = 0 THEN 1
                                            ELSE _limitDestinationSize

\* Types, the count, the owners and the limits, which rest on each other.
IInv == TypeOK /\ PoolSizeCounts /\ OneOwner /\ WithinLimits

\* An idle socket is closed no later than two timeouts after it was put in the
\* pool: the purge runs once in a timeout, and spares what is just as old.
IdleIsBounded ==
    _unusedTimeout # NoLimit =>
        \A d \in Dests : \A i \in DOMAIN _pool[d] :
            _pool[d][i].age <= 2 * _unusedTimeout

\* The pool is a pool of idle connections.
Idle == INSTANCE IdleConnections WITH
            idle <- [d \in Dests |-> SocketsIn(_pool[d])],
            Limit <- IF _limitTotalSize = NoLimit THEN Cardinality(Sockets)
                     ELSE _limitTotalSize

ImplementsIdleConnections == Idle!Spec
=============================================================================
