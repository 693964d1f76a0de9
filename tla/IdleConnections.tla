--------------------------- MODULE IdleConnections -------------------------
(* What a pool of idle connections promises to the clients that share it,     *)
(* however it picks what it hands out or gives up: a socket is with one       *)
(* client, or idle for one destination, or closed; a client gets a socket     *)
(* that is idle for the destination it asks for; a limited pool stays within  *)
(* its limit.                                                                 *)
EXTENDS Integers, FiniteSets

CONSTANTS Dests, Sockets, Limit

VARIABLES
    idle,  \* destination -> its idle sockets
    held   \* sockets in the hands of clients

vars == <<idle, held>>

AllIdle == UNION {idle[d] : d \in Dests}

Init == idle = [d \in Dests |-> {}] /\ held = {}

Connect(s) ==
    /\ s \notin held \cup AllIdle
    /\ held' = held \cup {s}
    /\ UNCHANGED idle

Close(s) ==
    /\ s \in held
    /\ held' = held \ {s}
    /\ UNCHANGED idle

Get(d, s) ==
    /\ s \in idle[d]
    /\ idle' = [idle EXCEPT ![d] = @ \ {s}]
    /\ held' = held \cup {s}

Put(d, s, dropped) ==
    /\ s \in held
    /\ held' = held \ {s}
    /\ idle' = [e \in Dests |-> (idle[e] \ dropped) \cup
                                (IF e = d THEN {s} ELSE {})]
    /\ Cardinality(UNION {idle'[e] : e \in Dests}) <= Limit

Drop(dropped) ==
    /\ idle' = [e \in Dests |-> idle[e] \ dropped]
    /\ UNCHANGED held

Next ==
    \/ \E s \in Sockets : Connect(s) \/ Close(s)
    \/ \E d \in Dests, s \in Sockets : Get(d, s)
    \/ \E d \in Dests, s \in Sockets, dropped \in SUBSET AllIdle :
          Put(d, s, dropped)
    \/ \E dropped \in SUBSET AllIdle : Drop(dropped)

Spec == Init /\ [][Next]_vars
=============================================================================
