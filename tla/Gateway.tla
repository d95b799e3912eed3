------------------------------ MODULE Gateway -------------------------------
(***************************************************************************)
(* A request's way through the router: ServeHTTP, newFlowHandler and       *)
(* dispatch of router.go, the fan-out of scatter.go, handleStreaming, and  *)
(* the response built from the aggregated result.                          *)
(*                                                                         *)
(* The fan-out starts one goroutine per upstream, and these end in any     *)
(* order; what an upstream's call() returns is taken from Answers (module  *)
(* Upstream models the call itself).  Requests share nothing here but the  *)
(* rate limiter and the upstreams, so one request at a time is enough.     *)
(*                                                                         *)
(* External: chi's routing, what plugins do to a request or a response,    *)
(* the verdicts of the rate limiter (module RateLimit) and of the auth     *)
(* middleware (module JWKS), and the other middlewares.                    *)
(***************************************************************************)
EXTENDS Aggregator, FlowShape

CONSTANTS
    Flows,            \* the configured flows
    AuthFlows,        \* the ones with an auth middleware
    CorsFlows,        \* the ones with a cors middleware
    Answers,          \* what call() may return: [kind, status, body]
    StreamStatuses    \* statuses of a streaming upstream

ASSUME FlowsAssumption == \A f \in Flows : IsFlow(f)
ASSUME MiddlewaresAssumption == AuthFlows \subseteq Flows /\ CorsFlows \subseteq Flows
\* UpstreamContract: what Upstream guarantees of an answer is assumed here.
ASSUME AnswersAssumption == \A a \in Answers : Promised(a.kind, a.status)
\* Only the JSON text of an object has keys.
ASSUME BodiesAssumption == \A a \in Answers : a.body.form # "object" => a.body.keys = {}
ASSUME StreamAssumption == StreamStatuses \subseteq 200 .. 599

VARIABLES
    flow,      \* the flow the request matched
    pc,        \* where its handler is
    answers,   \* scatter's results, by upstream
    running,   \* the goroutines scatter waits for: its WaitGroup
    response,  \* the *http.Response dispatch built
    reply      \* what was written to the client: one entry per WriteHeader

vars == <<flow, pc, answers, running, response, reply>>

PCs == {"idle", "limit", "route", "middlewares", "request_plugins", "read_body", "scatter",
        "response_plugins", "connect", "copy", "done"}

\* The answer of upstream i.
From(i, a) == [kind |-> a.kind, status |-> a.status, body |-> a.body, from |-> i]
NoAnswer == [kind |-> NoError, status |-> 0, from |-> 0,
             body |-> [form |-> "empty", keys |-> {}]]

\* A response: its body is a Problem Details document, the aggregated data,
\* the upstream's own bytes, or none.
Response(status, body, result) == [status |-> status, body |-> body, result |-> result]
NoResponse == Response(0, "none", ErrorResult(<<>>, 0))
Plain(status, body) == Response(status, body, ErrorResult(<<>>, 0))
Problem(error, status) == Response(status, "problem", ErrorResult(<<error>>, status))

Init ==
    /\ flow \in Flows
    /\ pc = "idle"
    /\ answers = [i \in 1 .. Len(flow.names) |-> NoAnswer]
    /\ running = {}
    /\ response = NoResponse
    /\ reply = <<>>

Write(r) == reply' = Append(reply, r)
Goto(from, to) == pc = from /\ pc' = to

-----------------------------------------------------------------------------
(* From errors to a status *)

errorPriority(e) ==
    CASE e = "RATE_LIMIT_EXCEEDED" -> 100
      [] e = "UNAUTHORIZED"        -> 95
      [] e \in {"PAYLOAD_TOO_LARGE", "UPSTREAM_BODY_TOO_LARGE"} -> 90
      [] e = "VALUE_CONFLICT"      -> 80
      [] e = "INTERNAL"            -> 10
      [] OTHER                     -> 50

\* The first error of the highest priority.
selectPrimaryError(errs) ==
    errs[SelectInSeq(errs, LAMBDA e : \A d \in ToSet(errs) : errorPriority(d) <= errorPriority(e))]

statusForError(e) ==
    CASE e = "RATE_LIMIT_EXCEEDED" -> 429
      [] e = "PAYLOAD_TOO_LARGE"   -> 413
      [] e = "VALUE_CONFLICT"      -> 409
      [] e = "ABORTED"             -> 503
      [] e = "INTERNAL"            -> 500
      [] e = "UNAUTHORIZED"        -> 401
      [] OTHER                     -> 502

statusFromErrors(errs) ==
    IF errs = <<>> THEN 200 ELSE statusForError(selectPrimaryError(errs))

resolveStatus(result) ==
    IF result.partial THEN 206
    ELSE IF result.status # 0 THEN result.status
    ELSE statusFromErrors(result.errors)

buildResponse(result) ==
    LET status == resolveStatus(result)
    IN  Response(status,
                 IF status \in {204, 304} THEN "none"
                 ELSE IF result.errors # <<>> /\ ~result.partial THEN "problem"
                 ELSE "data",
                 result)

\* A single upstream's answer is forwarded if it is a success or its own
\* client error or redirect; any other failure becomes a problem document.
buildProxyResponse(a) ==
    IF IsFailed(a) /\ ~isPropagatable(a.kind)
    THEN LET e == mapUpstreamError(a.kind) IN Problem(e, statusFromErrors(<<e>>))
    ELSE Plain(a.status, "upstream")

-----------------------------------------------------------------------------
(* The handler *)

\* A request arrives; it will match this flow, or none.
Begin ==
    /\ pc \in {"idle", "done"} /\ pc' = "limit"
    /\ answers' = [i \in DOMAIN answers |-> NoAnswer]
    /\ response' = NoResponse /\ reply' = <<>>
    /\ UNCHANGED <<flow, running>>

\* ServeHTTP, allowRequest: rejected requests get 429.
Limit ==
    /\ \/ Goto("limit", "route") /\ UNCHANGED reply
       \/ Goto("limit", "done") /\ Write(Problem("RATE_LIMIT_EXCEEDED", 429))
    /\ UNCHANGED <<flow, answers, running, response>>

\* chi finds the flow, or registerFlows' NotFound handler or chi's own answer
\* for a path that has no flow of this method replies.
Route ==
    /\ \/ Goto("route", "middlewares") /\ UNCHANGED reply
       \/ Goto("route", "done") /\ Write(Plain(404, "text"))
       \/ Goto("route", "done") /\ Write(Plain(405, "none"))
    /\ UNCHANGED <<flow, answers, running, response>>

\* The flow's middlewares, of which auth and cors may answer in its place: a
\* token that is not accepted, an origin that is not allowed, a preflight.
Middlewares ==
    /\ \/ Goto("middlewares", "request_plugins") /\ UNCHANGED reply
       \/ /\ flow \in AuthFlows
          /\ Goto("middlewares", "done") /\ Write(Problem("UNAUTHORIZED", 401))
       \/ /\ flow \in CorsFlows
          /\ Goto("middlewares", "done")
          /\ \E s \in {204, 403} : Write(Plain(s, "none"))
    /\ UNCHANGED <<flow, answers, running, response>>

\* executePlugins(PluginTypeRequest), in newFlowHandler and in handleStreaming.
RequestPlugins ==
    /\ \/ /\ Goto("request_plugins", IF flow.streaming THEN "connect" ELSE "read_body")
          /\ UNCHANGED reply
       \/ Goto("request_plugins", "done") /\ Write(Problem("INTERNAL", 500))
    /\ UNCHANGED <<flow, answers, running, response>>

\* Mutant of ReadBody: wg.Add counts one goroutine too many.
ReadBodyMutAdd ==
    /\ Goto("read_body", "scatter")
    /\ running' = 1 .. Len(answers) + 1
    /\ UNCHANGED <<flow, answers, response, reply>>

\* scatter and call: the body is read once, then every upstream is called.
ReadBody ==
    /\ \/ /\ Goto("read_body", "scatter")
          /\ running' = DOMAIN answers
          /\ UNCHANGED reply
       \/ /\ Goto("read_body", "done")
          /\ Write(Problem("PAYLOAD_TOO_LARGE", 413))
          /\ UNCHANGED running
    /\ UNCHANGED <<flow, answers, response>>

\* Mutant of CallUpstream: results are stored in order of completion.
CallUpstreamMutOrder(i) ==
    /\ pc = "scatter" /\ i \in running
    /\ \E a \in Answers :
          answers' = [answers EXCEPT ![Len(answers) - Cardinality(running) + 1] = From(i, a)]
    /\ running' = running \ {i}
    /\ UNCHANGED <<flow, pc, response, reply>>

\* Mutant of CallUpstream: a failed call is repeated until it succeeds.
CallUpstreamMutAgain(i) ==
    /\ pc = "scatter" /\ i \in running
    /\ \E a \in Answers :
          /\ answers' = [answers EXCEPT ![i] = From(i, a)]
          /\ running' = IF IsFailed(a) THEN running ELSE running \ {i}
    /\ UNCHANGED <<flow, pc, response, reply>>

\* The goroutine of upstream i: callUpstream returns and its result is stored.
CallUpstream(i) ==
    /\ pc = "scatter" /\ i \in running
    /\ \E a \in Answers : answers' = [answers EXCEPT ![i] = From(i, a)]
    /\ running' = running \ {i}
    /\ UNCHANGED <<flow, pc, response, reply>>

\* dispatch after wg.Wait(): one upstream is proxied, several are aggregated.
\* (The quantifier only gives the aggregated result a name.)
Dispatch ==
    /\ Goto("scatter", "response_plugins") /\ running = {}
    /\ \/ Len(answers) = 1 /\ response' = buildProxyResponse(answers[1])
       \/ /\ Len(answers) > 1
          /\ \E result \in {aggregate(flow.names, answers, flow.aggregation)} :
                response' = buildResponse(result)
    /\ UNCHANGED <<flow, answers, running, reply>>

\* executePlugins(PluginTypeResponse), then copyResponse.
ResponsePlugins ==
    /\ Goto("response_plugins", "done")
    /\ Write(response) \/ Write(Problem("INTERNAL", 500))
    /\ UNCHANGED <<flow, answers, running, response>>

\* handleStreaming, proxy: up to the upstream's headers.
Connect ==
    /\ \/ /\ Goto("connect", "copy")
          /\ \E s \in StreamStatuses : Write(Plain(s, "upstream"))
       \/ Goto("connect", "done") /\ Write(Problem("UPSTREAM_UNAVAILABLE", 502))
    /\ UNCHANGED <<flow, answers, running, response>>

\* Mutant of StreamCopy: handleStreaming does not look at trackingWriter.written.
StreamCopyMutWritten ==
    /\ Goto("copy", "done")
    /\ Write(Problem("UPSTREAM_UNAVAILABLE", 502)) \/ UNCHANGED reply
    /\ UNCHANGED <<flow, answers, running, response>>

\* streamCopy ends: end of the body, an error on either side, or the client
\* disconnected.  The status is out, so nothing more can be reported.
StreamCopy ==
    /\ Goto("copy", "done")
    /\ UNCHANGED <<flow, answers, running, response, reply>>

Step ==
    \/ Limit \/ Route \/ Middlewares \/ RequestPlugins \/ ReadBody \/ Dispatch
    \/ ResponsePlugins \/ Connect \/ StreamCopy
    \/ \E i \in running : CallUpstream(i)

Next == Begin \/ Step

Spec == Init /\ [][Next]_vars

\* The handler's goroutines are scheduled, and every upstream call ends
\* (CallsComplete of module Upstream; streams are assumed to end).
FairSpec == Spec /\ WF_vars(Step)

-----------------------------------------------------------------------------
ResultOK(r) ==
    /\ r.form \in {"none", "object", "array", "null"}
    /\ r.errors \in Seq(ClientErrors)
    /\ r.status \in 0 .. 599
    /\ r.partial \in BOOLEAN

ResponseOK(r) ==
    /\ r.status \in 0 .. 599
    /\ r.body \in {"none", "problem", "data", "upstream", "text"}
    /\ ResultOK(r.result)

TypeOK ==
    /\ flow \in Flows
    /\ pc \in PCs
    /\ DOMAIN answers = 1 .. Len(flow.names)
    /\ \A i \in DOMAIN answers :
          answers[i] \in {NoAnswer} \union {From(j, a) : j \in DOMAIN answers, a \in Answers}
    /\ running \subseteq DOMAIN answers
    /\ ResponseOK(response)
    /\ \A i \in DOMAIN reply : ResponseOK(reply[i])

(***************************************************************************)
(* Every way through the handler answers the client exactly once: the      *)
(* rejections of ServeHTTP, executePlugins, dispatch ("response already    *)
(* sent, stop processing"), the proxied stream that breaks off after its   *)
(* status was sent, and the normal end.                                    *)
(***************************************************************************)
AnsweredOnce ==
    /\ Len(reply) <= 1
    /\ pc = "done" => Len(reply) = 1

\* The reply of an aggregating flow whose response plugins did not fail.
Aggregated == pc = "done" /\ Len(answers) > 1 /\ reply = <<response>>

\* What upstream u answered, and the upstreams that did not fail.
AnswerOf(u) == CHOOSE a \in ToSet(answers) : a.from = u
Successes == {u \in DOMAIN answers : ~IsFailed(AnswerOf(u))}

\* An answer the strategy has no use for: a failure, or for merge a body that
\* is no object.
Useless(a, agg) == IsFailed(a) \/ (agg.strategy = "merge" /\ IsMalformed(a))
Delivered == {u \in DOMAIN answers : ~Useless(AnswerOf(u), flow.aggregation)}

(***************************************************************************)
(* The client can rely on status and body: 200 exactly means that every    *)
(* upstream delivered; 206 only under best effort, with data, if some      *)
(* upstream did not deliver, and one did; everything else is a problem     *)
(* document that names a cause.  206 has one exception, which this states: *)
(* collectFields counts a success before it parses the body                *)
(* (aggregator.go:119), so a merge in which nobody delivered, but a        *)
(* malformed body arrived, is a 206 with the object that has no keys.      *)
(* (export.go:405 documents 502 for it, and router.go:97 says that a       *)
(* response with no data is a problem document.)                           *)
(***************************************************************************)
HonestStatus ==
    Aggregated =>
        LET r == response IN
        /\ r.status = 200 =>
               r.body = "data" /\ r.result.errors = <<>> /\ Delivered = DOMAIN answers
        /\ r.status = 206 =>
               /\ flow.aggregation.bestEffort
               /\ r.body = "data" /\ r.result.errors # <<>>
               /\ Delivered # DOMAIN answers
               /\ \/ Delivered # {}
                  \/ /\ flow.aggregation.strategy = "merge"
                     /\ \E u \in DOMAIN answers : IsMalformed(AnswerOf(u))
                     /\ DOMAIN r.result.content = {}
        /\ r.status \notin {200, 206} =>
               /\ r.status >= 400
               /\ r.body = "problem" /\ r.result.errors # <<>>

(***************************************************************************)
(* "A status is only propagated when every failed upstream agreed on it"   *)
(* (CHANGELOG.md:120-121): the aggregating gateway answers with a client   *)
(* error other than the conflict it detected itself only if that is what   *)
(* every failed upstream answered.                                         *)
(***************************************************************************)
StatusAgreed ==
    Aggregated /\ response.status \in 400 .. 499 /\ response.result.errors # <<"VALUE_CONFLICT">> =>
        \A u \in DOMAIN answers \ Successes :
            AnswerOf(u).kind = "client_error" /\ AnswerOf(u).status = response.status

\* The upstreams that offered key k of a merge.
Offers(k) == {u \in Successes : k \in AnswerOf(u).body.keys}

\* Who must own key k of a merge, by the definition of the conflict policies.
Owner(k) ==
    LET agg == flow.aggregation IN
    CASE agg.policy = "overwrite" -> Max(Offers(k))
      [] agg.policy = "prefer" /\ agg.preferred \in Offers(k) -> agg.preferred
      [] OTHER -> Min(Offers(k))

(***************************************************************************)
(* The data is the right data whichever upstream answered first: a merged  *)
(* key has the value its conflict policy names (and under "error" only one *)
(* upstream offered it), an array holds the bodies in the order of the     *)
(* configuration, and a name holds the body of an upstream of that name.   *)
(* The loops of merged, arrayed and namespaced against what they are for.  *)
(***************************************************************************)
DataFromRightUpstream ==
    Aggregated /\ response.body = "data" =>
        LET data == response.result.content
            strategy == flow.aggregation.strategy
            filled == {u \in Successes : AnswerOf(u).body.form # "empty"}
        IN  CASE strategy = "merge" ->
                    /\ \A k \in DOMAIN data : data[k] = Owner(k)
                    /\ \A u \in Successes : AnswerOf(u).body.keys \subseteq DOMAIN data
                    /\ flow.aggregation.policy = "error" =>
                           \A k \in DOMAIN data : Cardinality(Offers(k)) = 1
              [] strategy = "array" ->
                    /\ ToSet(data) = filled
                    /\ \A i, j \in DOMAIN data : i < j => data[i] < data[j]
              [] strategy = "namespace" ->
                    /\ DOMAIN data = {flow.names[u] : u \in Successes}
                    /\ \A n \in DOMAIN data :
                           LET last == Max({u \in Successes : flow.names[u] = n})
                           IN  data[n] = IF last \in filled THEN last ELSE Null

\* The responses the exported document lists for the flow's operation, with
\* the rate limiter on.
flowResponses ==
    LET agg == flow.aggregation IN
    CASE flow.streaming -> streamingResponses(TRUE)
      [] ~flow.streaming /\ Len(flow.names) = 1 -> proxyResponses(TRUE)
      [] OTHER -> aggregateResponses(agg.bestEffort,
                      agg.strategy = "merge" /\ agg.policy = "error", TRUE)

DocumentedResponses ==
    flowResponses \union (IF flow \in AuthFlows THEN {401} ELSE {})

(***************************************************************************)
(* "Statuses are derived from the actual config" (README.md:195): whatever *)
(* the upstreams, the auth middleware and the plugins do, the status of a  *)
(* response the gateway itself makes is one that buildOperation lists for  *)
(* this flow, or the one all failed upstreams share (listed as "default"). *)
(* With one exception, which this states: no list has 503, and the gateway *)
(* answers 503 ABORTED when the call of an upstream ended as canceled.     *)
(* That need not be a client that has left: CanceledByClient of module     *)
(* Upstream fails for an upstream whose body is too slow.  Responses the   *)
(* gateway passes on or that belong to no operation are not meant: the     *)
(* upstream's own (listed under 200), 404 and 405, and those of cors.      *)
(***************************************************************************)
DocumentedStatus ==
    pc = "done" =>
        LET r == reply[1] IN
        \/ r.body \in {"upstream", "text", "none"}
        \/ r.status \in DocumentedResponses
        \/ /\ Len(answers) > 1 /\ r.result.errors = <<"UPSTREAM_CLIENT_ERROR">>
           /\ \A u \in DOMAIN answers \ Successes : AnswerOf(u).status = r.status
        \/ /\ r.status = 503 /\ "ABORTED" \in ToSet(r.result.errors)
           /\ \E u \in DOMAIN answers : AnswerOf(u).kind = "canceled"

\* Every request is answered, whatever its upstreams do.
RequestAnswered == (pc = "limit") ~> (pc = "done")

(***************************************************************************)
(* "Best-effort mode: 206 Partial Content instead of an all-or-nothing     *)
(* failure" (README.md:150): when an upstream delivered usable JSON and no *)
(* merge conflict was detected, the client gets data.                      *)
(***************************************************************************)
BestEffortDelivers ==
    /\ Aggregated /\ flow.aggregation.bestEffort
    /\ response.result.errors # <<"VALUE_CONFLICT">>
    /\ \E u \in Successes : AnswerOf(u).body.form = "object"
    => response.body = "data"
=============================================================================
