---------------------------- MODULE MCHttpRequest --------------------------
(* Instances of HttpRequest for TLC.                                          *)
EXTENDS HttpRequest

AnyRequest ==
    [secure : BOOLEAN, timeout : BOOLEAN, close : BOOLEAN, maxSize : {1, None}]

\* Nothing can follow a body that only the end of the connection delimits.
AnyResponse ==
    {r \in [continue : BOOLEAN, old : BOOLEAN, close : BOOLEAN, excess : BOOLEAN,
            framing : Framings, size : 0..2] :
        /\ r.framing = "none" => r.size = 0
        /\ r.framing = "close" => ~r.excess
        /\ r.old => r.framing # "chunked" /\ ~r.continue}
=============================================================================
