---------------------------- MODULE MCHttpHandler --------------------------
(* Instances of HttpHandler for TLC.                                          *)
EXTENDS HttpHandler

\* Every kind of request, with one deviation at most from a plain one.
AnyRequest ==
    {q \in [kind : Kinds, size : 0..2, expect : BOOLEAN, unknown : BOOLEAN,
            raises : BOOLEAN, excess : BOOLEAN] :
        /\ q.kind \in {"get", "bare"} => q.size = 0 /\ ~q.raises
        /\ q.kind \in {"get", "multi"} => ~q.unknown
        /\ q.kind = "multi" => q.size > 0
        /\ Cardinality({f \in {"expect", "unknown", "raises", "excess"} : q[f]}) <= 1}

H(items, end) == [yields |-> items, end |-> end]
AnyHandler ==
    {H(<<>>, end) : end \in {"stop", "raise"}}
    \cup {H(<<"head", "data", "data">>, end) : end \in {"stop", "raise"}}
    \cup {H(<<"yield", "part", "head", "data">>, "stop"),
          H(<<"suspend", "head", "suspend", "data">>, "stop"),
          H(<<"part", "suspend">>, "raise"),
          H(<<"data">>, "stop")}
=============================================================================
