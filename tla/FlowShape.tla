------------------------------ MODULE FlowShape ------------------------------
(***************************************************************************)
(* The compiled flow of flow.go, and the responses the exported OpenAPI    *)
(* document promises for one.  Shared by the modules that build flows      *)
(* (Config), document them (OpenAPI) and serve them (Gateway).             *)
(*                                                                         *)
(* An upstream is known by its index in the flow, from 1; preferred is 0   *)
(* for preferredUpstream = -1.  An optional block (a nil pointer in the    *)
(* code) is a sequence of at most one element.                             *)
(***************************************************************************)
EXTENDS Integers, SequencesExt

\* Slices and optional blocks, whatever their elements are.
IsSlice(s) == s \in Seq(ToSet(s))
IsPointer(p) == IsSlice(p) /\ Len(p) <= 1

Strategies == {"merge", "array", "namespace"}
Policies == {"overwrite", "first", "error", "prefer"}

Aggregation(strategy, bestEffort, policy, preferred) ==
    [strategy |-> strategy, bestEffort |-> bestEffort,
     policy |-> policy, preferred |-> preferred]

\* initAggregation: only merge has a policy, only prefer an upstream, and that
\* is the first one of the configured name.
Aggregations(names) ==
    LET firsts == {i \in DOMAIN names : \A j \in 1 .. i - 1 : names[j] # names[i]}
    IN       {Aggregation(s, b, "overwrite", 0) : s \in {"array", "namespace"}, b \in BOOLEAN}
      \union {Aggregation("merge", b, p, 0) : b \in BOOLEAN, p \in Policies \ {"prefer"}}
      \union {Aggregation("merge", b, "prefer", i) : b \in BOOLEAN, i \in firsts}

\* What the request path relies on: a streaming flow has one upstream.
IsFlow(f) ==
    /\ IsSlice(f.names) /\ Len(f.names) >= 1
    /\ f.streaming \in BOOLEAN
    /\ f.streaming => Len(f.names) = 1
    /\ f.aggregation \in Aggregations(f.names)

-----------------------------------------------------------------------------
(* Responses of an operation: the status codes documented for a flow, and  *)
(* whether its 200 has the opaque content type.                            *)

Limited(rateLimited) == IF rateLimited THEN {429} ELSE {}

\* Mutant of aggregateResponses: 409 is forgotten.
aggregateResponsesMutConflict(bestEffort, onConflictError, rateLimited) ==
    {200, 413, 502, 500} \union Limited(rateLimited)
        \union (IF bestEffort THEN {206} ELSE {})

\* The "default" entry, which stands for a propagated status, is implied.
aggregateResponses(bestEffort, onConflictError, rateLimited) ==
    {200, 413, 502, 500} \union Limited(rateLimited)
        \union (IF bestEffort THEN {206} ELSE {})
        \union (IF onConflictError THEN {409} ELSE {})

proxyResponses(rateLimited) == {200, 413, 502, 500} \union Limited(rateLimited)

streamingResponses(rateLimited) == {200, 502, 500} \union Limited(rateLimited)
=============================================================================
