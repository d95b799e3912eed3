------------------------------ MODULE OpenAPI -------------------------------
(***************************************************************************)
(* aastroctl openapi: the document exported from a configuration           *)
(* (internal/openapi/export.go), the configuration imported from a         *)
(* document (import.go), and the two commands (cmd/aastroctl/openapi.go).  *)
(* Pure definitions.                                                       *)
(*                                                                         *)
(* A document is [generated, schema, servers, ops]: ops is a function from *)
(* the (path, method) slots in use to operations.  Titles, descriptions,   *)
(* tags and schemas are left out.  A warning names its flow (<<>> for the  *)
(* document and the gateway), the upstream it is of and what it is about.  *)
(***************************************************************************)
EXTENDS Config

Warning(flow, of, about) == [flow |-> flow, of |-> of, about |-> about]
When(condition, warning) == IF condition THEN {warning} ELSE {}

\* time.Duration.String, and ParseDuration, which is partial (external).
Durations == {0, 3, 7, 90}
DurationText(d) == CASE d = 0 -> "0s" [] d = 3 -> "3s" [] d = 7 -> "7s" [] d = 90 -> "1m30s"
ParseDuration(text) == {d \in Durations : DurationText(d) = text}

ZeroTransport == [idle |-> 0, idleTimeout |-> 0, http2 |-> Unset]
ZeroRetry == [max |-> 0, backoff |-> 0]
ZeroBreaker == [enabled |-> FALSE, reset |-> 0]
\* plain stands for the fields of the policy that are copied as they are.
ZeroPolicy == [plain |-> Unset, retry |-> ZeroRetry, breaker |-> ZeroBreaker]
\* target stands for the texts of the method and the path, and path for the
\* {params} in them.
ZeroUpstream ==
    [name |-> Unset, hosts |-> <<>>, target |-> Unset, path |-> {}, timeout |-> 0,
     forwardHeaders |-> {}, forwardQueries |-> {}, forwardParams |-> {},
     policy |-> ZeroPolicy, transport |-> ZeroTransport, tls |-> NoTLS]

\* The method, then the path's segments, which are left out: never empty.
operationID(method, path) == method

-----------------------------------------------------------------------------
(* The Go types of config.go and of the x-aastro extensions, as far as the *)
(* definitions below depend on them: every record has its fields.          *)

IsPolicy(p) ==
    /\ p = [plain |-> p.plain, retry |-> p.retry, breaker |-> p.breaker]
    /\ p.retry = [max |-> p.retry.max, backoff |-> p.retry.backoff]
    /\ p.breaker = [enabled |-> p.breaker.enabled, reset |-> p.breaker.reset]
    /\ p.retry.backoff \in Durations /\ p.breaker.reset \in Durations

IsTransport(t) ==
    /\ t = [idle |-> t.idle, idleTimeout |-> t.idleTimeout, http2 |-> t.http2]
    /\ t.idleTimeout \in Durations

IsTLS(t) ==
    /\ t = [enabled |-> t.enabled, cert |-> t.cert, key |-> t.key, ca |-> t.ca,
            verify |-> t.verify]
    /\ t.enabled \in BOOLEAN

IsUpstreamConfig(u) ==
    /\ u = [name |-> u.name, hosts |-> u.hosts, target |-> u.target, path |-> u.path,
            timeout |-> u.timeout, forwardHeaders |-> u.forwardHeaders,
            forwardQueries |-> u.forwardQueries, forwardParams |-> u.forwardParams,
            policy |-> u.policy, transport |-> u.transport, tls |-> u.tls]
    /\ u.timeout \in Durations
    /\ IsPolicy(u.policy) /\ IsTransport(u.transport) /\ IsTLS(u.tls)

IsAggregationConfig(a) ==
    /\ a = [strategy |-> a.strategy, bestEffort |-> a.bestEffort, onConflict |-> a.onConflict]
    /\ a.bestEffort \in BOOLEAN /\ IsPointer(a.onConflict)
    /\ \A c \in ToSet(a.onConflict) : c = [policy |-> c.policy, upstream |-> c.upstream]

IsFlowConfig(f) ==
    /\ f = [path |-> f.path, method |-> f.method, streaming |-> f.streaming,
            aggregation |-> f.aggregation, upstreams |-> f.upstreams,
            plugins |-> f.plugins, middlewares |-> f.middlewares]
    /\ f.streaming \in BOOLEAN
    /\ IsPointer(f.aggregation) /\ \A a \in ToSet(f.aggregation) : IsAggregationConfig(a)
    /\ IsSlice(f.upstreams) /\ \A u \in ToSet(f.upstreams) : IsUpstreamConfig(u)
    /\ IsSlice(f.plugins) /\ IsSlice(f.middlewares)

\* A route stands for one path.
ArePaths(paths) ==
    /\ \A p \in paths : p.route \in Nat
    /\ \A p, q \in paths : p.route = q.route => p = q

IsConfig(cfg) ==
    /\ cfg = [schema |-> cfg.schema, port |-> cfg.port, adminPort |-> cfg.adminPort,
              http2 |-> cfg.http2, clientAuth |-> cfg.clientAuth, tls |-> cfg.tls,
              metrics |-> cfg.metrics, tracing |-> cfg.tracing, limiter |-> cfg.limiter,
              proxies |-> cfg.proxies, flows |-> cfg.flows]
    /\ IsSlice(cfg.flows) /\ \A f \in ToSet(cfg.flows) : IsFlowConfig(f)
    /\ ArePaths({f.path : f \in ToSet(cfg.flows)})

\* In a document a policy, a retry, a breaker and a transport may be missing,
\* and durations are texts.
IsUpstreamExtension(u) ==
    /\ u.tlsEnabled \in BOOLEAN
    /\ IsPointer(u.policy) /\ IsPointer(u.transport)
    /\ \A p \in ToSet(u.policy) :
          /\ IsPointer(p.retry) /\ IsPointer(p.breaker)
          /\ \A r \in ToSet(p.retry) : r = [max |-> r.max, backoff |-> r.backoff]
          /\ \A b \in ToSet(p.breaker) : b = [enabled |-> b.enabled, reset |-> b.reset]

IsExtension(ext) ==
    /\ ext.streaming \in BOOLEAN
    /\ IsPointer(ext.aggregation) /\ \A a \in ToSet(ext.aggregation) : IsAggregationConfig(a)
    /\ IsSlice(ext.upstreams) /\ \A u \in ToSet(ext.upstreams) : IsUpstreamExtension(u)

-----------------------------------------------------------------------------
(* Export *)

\* The names that are patterns cannot be listed as parameters.
Patterns == {"*", "X-*"}
collectForwarded(names) == (UNION names) \ Patterns

buildParameters(f) ==
    LET ups == ToSet(f.upstreams)
        params(in, names) == {[in |-> in, name |-> n] : n \in names}
    IN       params("path", f.path.params)
      \union params("query", collectForwarded({u.forwardQueries : u \in ups}))
      \union params("header", collectForwarded({u.forwardHeaders : u \in ups})
                                  \ {"Accept", "Content-Type", "Authorization"})

findAuthMiddleware(f) ==
    \E m \in ToSet(f.middlewares) : m.name = "auth" /\ m.source = "builtin"

\* Mutant of policyExtension: the circuit breaker is not stored.
policyExtensionMutBreaker(p) ==
    IF p = ZeroPolicy THEN <<>> ELSE
    <<[plain |-> p.plain,
       retry |-> IF p.retry = ZeroRetry THEN <<>>
                 ELSE <<[p.retry EXCEPT !.backoff = DurationText(@)]>>,
       breaker |-> <<>>]>>

policyExtension(p) ==
    IF p = ZeroPolicy THEN <<>> ELSE
    <<[plain |-> p.plain,
       retry |-> IF p.retry = ZeroRetry THEN <<>>
                 ELSE <<[p.retry EXCEPT !.backoff = DurationText(@)]>>,
       breaker |-> IF p.breaker = ZeroBreaker THEN <<>>
                   ELSE <<[p.breaker EXCEPT !.reset = DurationText(@)]>>]>>

transportExtension(t) ==
    IF t \in {ZeroTransport, DefaultTransport} THEN <<>>
    ELSE <<[idle |-> t.idle, idleTimeout |-> DurationText(t.idleTimeout)]>>

\* What an upstream and a flow store of themselves in x-aastro.
upstreamExtension(u) ==
    [name |-> u.name, hosts |-> u.hosts, target |-> u.target, path |-> u.path,
     timeout |-> DurationText(u.timeout), forwardHeaders |-> u.forwardHeaders,
     forwardQueries |-> u.forwardQueries, forwardParams |-> u.forwardParams,
     tlsEnabled |-> u.tls.enabled, policy |-> policyExtension(u.policy),
     transport |-> transportExtension(u.transport)]

flowExtension(f) ==
    [streaming |-> f.streaming, aggregation |-> f.aggregation,
     middlewares |-> [i \in DOMAIN f.middlewares |-> f.middlewares[i].name],
     plugins |-> [i \in DOMAIN f.plugins |-> f.plugins[i].name],
     upstreams |-> [i \in DOMAIN f.upstreams |-> upstreamExtension(f.upstreams[i])]]

\* The responses of the operation of a flow, without its 401.
flowResponses(f, rateLimited) ==
    LET bestEffort == \E a \in ToSet(f.aggregation) : a.bestEffort
        onConflictError == \E a \in ToSet(f.aggregation) : a.strategy = "merge"
                              /\ \E c \in ToSet(a.onConflict) : c.policy = "error"
    IN  CASE f.streaming -> streamingResponses(rateLimited)
          [] ~f.streaming /\ Len(f.upstreams) = 1 -> proxyResponses(rateLimited)
          [] OTHER -> aggregateResponses(bestEffort, onConflictError, rateLimited)

\* wildcard: the content of its 200 is */*.
buildOperation(f, rateLimited, extensions) ==
    [opId |-> operationID(f.method, f.path),
     parameters |-> buildParameters(f),
     responses |-> flowResponses(f, rateLimited)
                      \union (IF findAuthMiddleware(f) THEN {401} ELSE {}),
     wildcard |-> f.streaming \/ Len(f.upstreams) = 1,
     security |-> findAuthMiddleware(f),
     ext |-> IF extensions THEN <<flowExtension(f)>> ELSE <<>>]

\* The flows attachOperation keeps: the first of a method and a path.
FirstOfKey(flows) ==
    {flows[i] : i \in {i \in DOMAIN flows : \A j \in 1 .. i - 1 : Key(flows[j]) # Key(flows[i])}}

\* attachOperation: what it warns of.  Every valid method has a slot.
attachWarnings(flows) ==
    (UNION {When(f.method = "QUERY", Warning(Key(f), Unset, "query")) : f \in ToSet(flows)})
    \union
    {Warning(Key(flows[i]), Unset, "duplicate") :
        i \in {i \in DOMAIN flows : \E j \in 1 .. i - 1 : Key(flows[j]) = Key(flows[i])}}

FromConfig(cfg, extensions, servers) ==
    [generated |-> TRUE, schema |-> cfg.schema, servers |-> servers,
     ops |-> [k \in {Key(f) : f \in ToSet(cfg.flows)} |->
                 LET f == CHOOSE f \in FirstOfKey(cfg.flows) : Key(f) = k
                 IN  buildOperation(f, cfg.limiter = "on", extensions)]]

-----------------------------------------------------------------------------
(* Import *)

\* A text that does not parse counts as zero, with a warning.
parseDurationOr(raw) ==
    IF ParseDuration(raw) = {} THEN 0 ELSE CHOOSE d \in ParseDuration(raw) : TRUE
Unparsable(raw) == raw # Unset /\ ParseDuration(raw) = {}

reconstructPolicy(p) ==
    [plain |-> p.plain,
     retry |-> IF p.retry = <<>> THEN ZeroRetry
               ELSE [p.retry[1] EXCEPT !.backoff = parseDurationOr(@)],
     breaker |-> IF p.breaker = <<>> THEN ZeroBreaker
                 ELSE [p.breaker[1] EXCEPT !.reset = parseDurationOr(@)]]

\* The texts of durations in the policy and the transport of an upstream.
storedDurations(u) ==
    {t.idleTimeout : t \in ToSet(u.transport)}
    \union (UNION {{r.backoff : r \in ToSet(p.retry)} \union {b.reset : b \in ToSet(p.breaker)} :
                       p \in ToSet(u.policy)})

placeholderHost == "CHANGE-ME"

reconstructUpstream(u) ==
    [name |-> u.name, target |-> u.target, path |-> u.path,
     hosts |-> IF u.hosts = <<>> THEN <<placeholderHost>> ELSE u.hosts,
     timeout |-> parseDurationOr(u.timeout),
     forwardHeaders |-> u.forwardHeaders, forwardQueries |-> u.forwardQueries,
     forwardParams |-> u.forwardParams,
     policy |-> IF u.policy = <<>> THEN ZeroPolicy ELSE reconstructPolicy(u.policy[1]),
     transport |-> IF u.transport = <<>> THEN DefaultTransport
                   ELSE [idle |-> u.transport[1].idle, http2 |-> Unset,
                         idleTimeout |-> parseDurationOr(u.transport[1].idleTimeout)],
     tls |-> [NoTLS EXCEPT !.enabled = u.tlsEnabled]]

\* Mutant of reconstructWarnings: TLS comes back without a word.
reconstructWarningsMutTLS(key, ext) ==
    When(ext.plugins # <<>>, Warning(key, Unset, "plugins"))
    \union When(ext.middlewares # <<>>, Warning(key, Unset, "middlewares"))

reconstructWarnings(key, ext) ==
    (UNION {     When(u.hosts = <<>>, Warning(key, u.name, "hosts"))
          \union When(Unparsable(u.timeout), Warning(key, u.name, "timeout"))
          \union When(\E t \in storedDurations(u) : Unparsable(t), Warning(key, u.name, "duration"))
          \union When(u.tlsEnabled, Warning(key, u.name, "tls")) : u \in ToSet(ext.upstreams)})
    \union When(ext.plugins # <<>>, Warning(key, Unset, "plugins"))
    \union When(ext.middlewares # <<>>, Warning(key, Unset, "middlewares"))

reconstructFlow(key, ext) ==
    [path |-> key[1], method |-> key[2], streaming |-> ext.streaming,
     aggregation |-> ext.aggregation, plugins |-> <<>>, middlewares |-> <<>>,
     upstreams |-> [i \in DOMAIN ext.upstreams |-> reconstructUpstream(ext.upstreams[i])]]

\* options: [mode, defaultHost].
resolveScaffoldHost(doc, options) ==
    IF options.defaultHost # Unset THEN options.defaultHost
    ELSE IF doc.servers # <<>> /\ doc.servers[1] # Unset THEN doc.servers[1]
    ELSE placeholderHost

\* Lower case, and an underscore for anything but a letter or a digit.
sanitizeID(id) == CASE id = "False" -> "false" [] id = "list.users" -> "list_users" [] OTHER -> id

upstreamNameFor(op, key) ==
    IF op.opId # Unset THEN sanitizeID(op.opId) ELSE operationID(key[2], key[1])

\* The text of a path: of a valid flow's, it starts with a slash.
pathText == "/path"

scaffoldFlow(doc, key, op, options) ==
    LET listed(in) == {p.name : p \in {q \in op.parameters : q.in = in}}
    IN  [path |-> key[1], method |-> key[2], aggregation |-> <<>>,
         plugins |-> <<>>, middlewares |-> <<>>,
         streaming |-> options.mode = "streaming" \/ op.wildcard,
         upstreams |-> <<[ZeroUpstream EXCEPT
             !.name = upstreamNameFor(op, key),
             !.hosts = <<resolveScaffoldHost(doc, options)>>,
             !.target = pathText, !.path = key[1].params,
             !.forwardQueries = listed("query"),
             !.forwardHeaders = listed("header")]>>]

scaffoldWarnings(doc, key, op, options) ==
    When(resolveScaffoldHost(doc, options) = placeholderHost, Warning(key, Unset, "host"))
    \union When(op.wildcard /\ options.mode # "streaming", Warning(key, Unset, "streaming"))
    \union When(op.security, Warning(key, Unset, "security"))

convertOperation(doc, key, op, options) ==
    IF op.ext # <<>> THEN reconstructFlow(key, op.ext[1])
    ELSE scaffoldFlow(doc, key, op, options)

convertWarnings(doc, key, op, options) ==
    IF op.ext # <<>> THEN reconstructWarnings(key, op.ext[1])
    ELSE scaffoldWarnings(doc, key, op, options)

\* sortedPaths, and methodSlots with QUERY after them.
methodSlots == [GET |-> 1, PUT |-> 2, POST |-> 3, DELETE |-> 4,
                OPTIONS |-> 5, HEAD |-> 6, PATCH |-> 7, QUERY |-> 8]
Before(k, l) ==
    \/ k[1].route < l[1].route
    \/ k[1].route = l[1].route /\ methodSlots[k[2]] < methodSlots[l[2]]

\* The i-th slot is the one with i - 1 slots before it.
sortedSlots(keys) ==
    [i \in 1 .. Cardinality(keys) |->
        CHOOSE k \in keys : Cardinality({l \in keys : Before(l, k)}) = i - 1]

IsDocument(doc) ==
    LET keys == DOMAIN doc.ops IN
    /\ IsFiniteSet(keys)
    /\ \A k \in keys :
          /\ k = <<k[1], k[2]>> /\ k[2] \in DOMAIN methodSlots
          /\ IsPointer(doc.ops[k].ext)
          /\ \A ext \in ToSet(doc.ops[k].ext) : IsExtension(ext)
          /\ doc.ops[k].wildcard \in BOOLEAN
    /\ ArePaths({k[1] : k \in keys})

RateLimited(doc) == \E k \in DOMAIN doc.ops : 429 \in doc.ops[k].responses

defaultServerPort == 7805
defaultAdminPort == 9090

\* The configuration, for a document with operations and a known mode.
ToConfig(doc, options) ==
    LET keys == sortedSlots(DOMAIN doc.ops)
    IN  [schema |-> IF doc.schema # Unset THEN doc.schema ELSE "v1",
         port |-> defaultServerPort, adminPort |-> defaultAdminPort,
         http2 |-> Unset, clientAuth |-> Unset, tls |-> NoTLS,
         metrics |-> "off", tracing |-> "off", proxies |-> {},
         limiter |-> IF RateLimited(doc) THEN "on" ELSE "off",
         flows |-> [i \in DOMAIN keys |->
                       convertOperation(doc, keys[i], doc.ops[keys[i]], options)]]

ToConfigWarnings(doc, options) ==
    (UNION {convertWarnings(doc, k, doc.ops[k], options) : k \in DOMAIN doc.ops})
    \union When(doc.generated /\ \A k \in DOMAIN doc.ops : doc.ops[k].ext = <<>>,
                Warning(<<>>, Unset, "extensions"))
    \union When(RateLimited(doc), Warning(<<>>, Unset, "limiter"))

-----------------------------------------------------------------------------
(* The commands: <<>> when they fail *)

runOpenAPIExport(file, extensions, servers) ==
    LET loaded == LoadConfig(file)
    IN  [i \in DOMAIN loaded |->
            [doc |-> FromConfig(loaded[i], extensions, servers),
             warnings |-> attachWarnings(loaded[i].flows)]]

\* isZeroNode looks at the text of a scalar, so these are zero as strings, too.
ZeroScalars == {Unset, "0", "false", "0s"}
isZeroNode(text) == text \in ZeroScalars
kept(text) == IF isZeroNode(text) THEN Unset ELSE text

\* Zero values are not written, and come back as zero; so does a free text
\* that reads as one: a name, the method and the path of an upstream, and the
\* load balancing mode, which is among the plain fields of its policy.  A list
\* keeps its elements, and other texts are never zero in a valid configuration.
prunePolicy(p) == [p EXCEPT !.plain = kept(@)]
pruneUpstream(u) ==
    [u EXCEPT !.name = kept(@), !.target = kept(@), !.policy = prunePolicy(@)]
pruneConflict(c) == [c EXCEPT !.upstream = kept(@)]
pruneAggregation(a) ==
    [a EXCEPT !.onConflict = [k \in DOMAIN @ |-> pruneConflict(@[k])]]

pruneFlow(f) ==
    [f EXCEPT !.upstreams = [j \in DOMAIN @ |-> pruneUpstream(@[j])],
              !.aggregation = [j \in DOMAIN @ |-> pruneAggregation(@[j])]]

pruneZeroNodes(cfg) == [cfg EXCEPT !.flows = [i \in DOMAIN @ |-> pruneFlow(@[i])]]

\* Mutant of runOpenAPIImport: the result is not validated.
runOpenAPIImportMutValidate(doc, options) ==
    IF DOMAIN doc.ops = {} THEN <<>>
    ELSE <<[cfg |-> pruneZeroNodes(ToConfig(doc, options)),
            warnings |-> ToConfigWarnings(doc, options)]>>

\* What is validated is a clone of the configuration with its defaults.
runOpenAPIImport(doc, options) ==
    IF DOMAIN doc.ops = {} \/ ~ValidateConfig(setDefaults(ToConfig(doc, options)))
    THEN <<>>
    ELSE <<[cfg |-> pruneZeroNodes(ToConfig(doc, options)),
            warnings |-> ToConfigWarnings(doc, options)]>>
=============================================================================
