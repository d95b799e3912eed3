----------------------------- MODULE MCGateway ------------------------------
(* Instances of Gateway for TLC. *)
EXTENDS Gateway

\* All flows over these lists of names: one upstream (streaming or not), three,
\* and three of which two have the same name.
MCFlows ==
    {f \in [names : {<<"a">>, <<"a", "b", "c">>, <<"a", "b", "a">>},
            streaming : BOOLEAN,
            aggregation : UNION {Aggregations(<<"a">>), Aggregations(<<"a", "b", "c">>),
                                 Aggregations(<<"a", "b", "a">>)}] : IsFlow(f)}

\* Half of the flows with each middleware, whatever their aggregation.
MCAuthFlows == {f \in MCFlows : f.aggregation.bestEffort}
MCCorsFlows == {f \in MCFlows : ~f.aggregation.bestEffort}

Body(form, keys) == [form |-> form, keys |-> keys]

\* One answer for every case the code distinguishes.
MCAnswers ==
    {[kind |-> NoError, status |-> 200, body |-> b] :
        b \in {Body("empty", {}), Body("invalid", {}), Body("value", {}),
               Body("null", {}), Body("object", {"x"}), Body("object", {"x", "y"})}}
    \union
    {[kind |-> "client_error", status |-> s, body |-> Body("object", {"x"})] : s \in {403, 404}}
    \union
    {[kind |-> k, status |-> 0, body |-> Body("empty", {})] :
        k \in {"timeout", "canceled", "read_error"}}
    \union
    {[kind |-> "redirect", status |-> 302, body |-> Body("value", {})],
     [kind |-> "bad_status", status |-> 503, body |-> Body("value", {})]}
=============================================================================
