--------------------------- MODULE MCClients -----------------------------
(* Instances of Clients for TLC.                                              *)
EXTENDS Clients

\* Answers to the end, with a reset, and that fall silent.
Long == <<"data", "data", "end">>
Through == <<"ok", "blank", "data", "end">>
Answers == {Long, <<"data", "reset">>, <<"data">>}
Proxied == {Through, <<"ok", "end">>, <<"bad", "blank", "reset">>}

\* Those with a timeout may also go as those without; some of the latter are for
\* the end of a request that has none.
AnyOption ==
    {o \in [proxy : BOOLEAN, ssl : BOOLEAN, timeout : BOOLEAN,
            maxSize : {1, None}, answer : Answers \cup Proxied] :
        /\ o.proxy <=> o.answer \in Proxied
        /\ o.maxSize # None => o.answer = Long /\ ~o.ssl
        /\ o.ssl => o.answer \in {Long, Through}
        /\ ~o.timeout => o.maxSize = None /\ o.answer \in {Long, Through}}

Chunk == <<"size", "fill", "crlf">>
AnyResponse ==
    [chunked : {FALSE}, tokens : {<<"part", "header", "data", "data", "end">>,
                                  <<"header", "data", "reset">>, <<"reset">>}]
    \cup
    [chunked : {TRUE}, tokens : {<<"header">> \o Chunk \o Chunk \o <<"last", "end">>,
                                 <<"header", "last">>}]

\* The callback clients together, and a Gio by itself.
AnyProgram == {{Requester, Reader}, Mine}

\* One stream ends or breaks, the other falls silent.
CONSTANTS g1, g2
AnyIncoming ==
    {[c \in Mine |-> IF c = g1 THEN stream ELSE <<"data">>] :
        stream \in {<<"data", "end">>, <<"data", "reset">>}}
=============================================================================
