# Aastro: a TLA+ verification project

Aastro is an HTTP API gateway written in Go. A request that matches a *flow*
is rate limited, passes the flow's middlewares and plugins, is sent to one or
several *upstreams* (concurrently, each with load balancing, retries and a
circuit breaker), and the answers are aggregated into one response. Beside the
request path the process watches its TLS files and shuts down gracefully.

This directory holds TLA+ modules translated from that code, TLC
configurations that check them on small instances, and theorems TLAPS proves
for every value of the constants. `PROJECT.json` relates definitions to source
lines, lists the runs, the mutants that show every property can fail, the
findings, the hazards and the theorems. Paths below are relative to `src/`.

To check a run: `tlc -config MCGateway.cfg MCGateway`; to check proofs:
`tlapm RateLimitProofs.tla`.

## 1. Inventory

| Component | State | Operations | Interacts with | Hard part |
|---|---|---|---|---|
| Circuit breaker (`internal/circuitbreaker`) | state, failures, lastFailureAt, halfOpenTrial, behind a mutex | `Allow`, `OnFailure`, `OnSuccess`, `State` | called by every attempt of every call of an upstream | outcomes arrive late and in any order; the half-open gate; it may never be told an outcome |
| Upstream call path (`upstream.go`, `policy.go`) | `currentHostIdx`, `activeConnections` (atomics), per-call attempt, response and contexts | `call`, `callWithRetry`, `doCall`, `selectHost`, `readBody`, `updateCircuitBreaker`, `applyPolicy`, `proxy` | breaker; called from scatter's goroutines | retry against timeout, cancellation and breaker; counters on all ways out; non-atomic scans |
| Error classification (`upstream_error.go`) | none: a table | `kindTable`, `breakerOutcomeFor`, `isPropagatable`, `mapUpstreamError` | call path, aggregator, router | one kind means three things: retry, breaker outcome, client error |
| Rate limiter (`internal/ratelimit`) | buckets by client IP, behind a mutex | `Allow`, `cleanup`, `Start`, `Stop` | `Router.allowRequest` | lazy windows, a wall clock, float rounding, cleanup in between |
| Scatter (`scatter.go`) | results slice, WaitGroup | `scatter`, `call`, `readBody`, `callUpstream` | router above, upstreams below | completion in any order |
| Aggregator (`aggregator.go`) | none | `merged`, `arrayed`, `namespaced`, conflict policies, `sharedFailureStatus` | router | partial failure, conflicts, malformed bodies |
| Router (`router.go`, `response.go`, `flow.go`) | per request only | `ServeHTTP`, `allowRequest`, `newFlowHandler`, `executePlugins`, `dispatch`, `buildResponse`, `buildProxyResponse`, `Close` | everything on the request path | one answer on every path; a status that tells the truth |
| Streaming (`streaming.go`, `proxy`) | `trackingWriter.written` | `handleStreaming`, `streamCopy` | router, upstream | errors after the status was sent |
| Server and process (`internal/server`, `cmd/aastro/run.go`) | two `http.Server`s, `shuttingDown`, the signal context, `serverErrCh` | `runGateway`, `Start`, `Stop`, `/__ready` | router and providers (closed by `Stop`), certificate watcher | signal, listener failures, deadline and endless requests race |
| TLS hot reload (`internal/certwatcher`, `internal/tlsutil`) | timers by directory; atomic pointers to the certificate and the CA pool | `Run`, `handleEvent`, `reload`, `ReloadDir`, `Load` | server and upstream TLS configs read the pointers | files replaced one by one, merged events, overlapping reloads |
| Auth and JWKS (`builtin/middlewares/auth`) | key cache behind an RWMutex, stop channel | `KeyFunc`, `refresh`, `start`, `stop`, `Handler` | a middleware of a flow | concurrent refreshes |
| Client IP and forwarding headers (`extractClientIP`, `resolveHeaders`) | none; the headers are the state, and travel | client of a request, `X-Forwarded-*`, `Forwarded` | rate limiter (its key), upstreams, the next gateway | anybody may have begun the lists; two branches write the same facts |
| Configuration and builder (`config.go`, `loader.go`, `builder.go`) | the file | `LoadConfig`, `setDefaults`, `ValidateConfig`, `NewRouter`, `compileFlow`, `initAggregation` | decides whether the process starts and which flows exist | what is checked in one file is dereferenced in another |
| OpenAPI and its commands (`internal/openapi`, `cmd/aastroctl`) | a document, the file | `FromConfig`, `ToConfig`, `export`, `import` | the file the gateway starts on; clients that believe the document | two hand-written conversions of every field; pruning after validation |
| Other middlewares and plugins (`builtin/`) | none shared | one `Handler` or `Execute` each | router | none |
| Metrics, tracing, logging, SDK | none of the program's own | wrappers | - | none |

What makes each component correct, in a sentence: the breaker protects a
failing upstream and lets it recover; a call ends, is replayed only if that is
harmless, and leaves the counters as it found them; the limiter counts exactly
and keeps to its limit; a request gets one answer, with a status the upstreams
justify and data from the right upstream; the limiter and the upstream hear of
the same client; a configuration that loads compiles or is refused, and survives
the way through a document; the shutdown closes things in order and ends; a
rotation never breaks TLS and, if its event arrives, is picked up.

## 2. Modules

| Module | Models | Composition |
|---|---|---|
| `CircuitBreaker` | `circuitbreaker.go`, one action per method; also the abstract specification `BreakerSpec` of what the breaker may do | - |
| `UpstreamErrors` | the kind table and the predicates over it; `Promised`, the statuses a kind can have | - |
| `UpstreamContract` | abstract: what `call()` promises to the scatter (one answer per call, out of `PromisedAnswers`) | extends `UpstreamErrors` |
| `Upstream` | `call` and everything below it, for a set of concurrent callers | extends `CircuitBreaker` and `UpstreamErrors`; its breaker steps are the breaker's actions; implements `BreakerSpec` and, through `Contract == INSTANCE UpstreamContract WITH ...`, the contract |
| `RateLimit` | the limiter | its key is the client of `Forwarding` |
| `Forwarding` | `extractClientIP` and the forwarding headers, over chains of proxies and gateways | - |
| `FlowShape` | the compiled flow of `flow.go` and the responses documented for it | shared by `Config`, `OpenAPI` and `Gateway` |
| `Aggregator` | the three strategies as operators on sequences of answers | extends `UpstreamErrors` and `FlowShape` |
| `Gateway` | one request from `ServeHTTP` to the written response | extends `Aggregator`; an upstream call is one step that returns any answer the contract promises (`AnswersAssumption`) |
| `Config` | defaults, validation, compilation of flows and construction of the server, as operators | extends `FlowShape` |
| `OpenAPI` | export, import, pruning and the two commands, as operators | extends `Config` |
| `Server` | `runGateway`, `Start`, `Stop`, readiness | router and providers are steps of its shutdown |
| `Deployment` | the operator: edits the file, exports, imports, starts the gateway on it | extends `Server` and `OpenAPI`; refines `Server` |
| `TLSReload` | watcher, registry and `Reloader.Load` | - |
| `JWKS` | the auth middleware's key cache and the requests that ask it | - |
| `*Proofs` | theorems about the module they extend | - |
| `MC*` | model values, symmetry sets and the enumerated flows, answers, configurations and documents | - |

How the parts fit: `Config` decides which flows exist, and `CompilesOrRefuses`
shows that every one it builds satisfies `IsFlow`, which is what `Gateway`
assumes of its constant `Flows`. `Upstream` is shown to give only answers of
`PromisedAnswers`, and `Gateway` assumes exactly that of its `Answers`, so the
two can be checked apart. `Deployment` adds the operator to `Server` without
giving the process a step it did not have.

### CircuitBreaker
`state`, `failures` and `halfOpenTrial` are the fields; `sinceFailure` counts
clock ticks since `lastFailureAt` up to `ResetTimeout`, after which more time
makes no difference. `trials` is a history variable: admissions in the present
half-open period. `Allow(ok)` has the verdict as a parameter so that `Upstream`
can branch on it.

### Upstream
Every caller has a program counter; it is cut at every access to shared state
(the breaker's mutex, each atomic, the request's context) and at every wait for
the network. The least_conns scan is one step per host because it is not
atomic, and the connection is counted in a later step. The server's answer, its
body, a stalled body and a client that disconnects are nondeterministic; which
error kind a timeout or a cancellation becomes is computed as `classifyDoError`
and `readBody` do, including that `readBody` cannot tell the two apart. When a
call is over its slot begins another one. `sends` and `picks` are history
variables. Building the request (paths, headers, queries) is a step that may
fail. Whether the breaker is enabled depends on the mode (`BreakerModes`), so
that one run covers upstreams with and without one. `UpstreamContract` sees of
all this a call that is pending and then has an answer: the refinement mapping
is `callPhase` and `callAnswer`.

### RateLimit
`Allow` and `cleanup` hold the mutex throughout and are one action each. Time
is an integer number of ticks. `StepBack` sets the wall clock back: `Truncate`
strips Go's monotonic reading, so the code is exposed to it. The float64
estimate is computed exactly and `Estimates` then adds the value rounding may
truncate it to, so both outcomes at an integer boundary are explored.
`admitted` and `verdict` are history variables. Of a clock that was set back
`QuotaByWindow` says what the code guarantees: an entry's window never moves
back, so it gives no second quota. An aligned window that the clock enters twice
may still admit more than `Limit` requests; the other three properties are about
a clock that was not set back.

### Aggregator and Gateway
A body is its form (`empty`, `invalid` JSON, `object`, `null`, which unmarshals
into a map and is therefore an object without keys to `merge`, other `value`) and its
keys; the result keeps *which upstream* every key, element or name came from,
which is what the properties are about. Header merging is left out. The loops
that append to a slice are one recursive function, `Loop`, over the index: the
theorems reason about it, which they could not do with a `RECURSIVE` operator. In
`Gateway`, `answers` is scatter's slice, `running` its WaitGroup, and `reply`
the sequence of status lines written to the client, which lets a second one be
seen. `IsFlow` and `Aggregations` are the flows `validateFlows` and
`initAggregation` let pass; names may repeat, because nothing forbids it. Between
routing (which may end in chi's 404 or 405) and the plugins the middlewares are a
step of their own: those of a flow in `AuthFlows` may answer 401, those of one in
`CorsFlows` 204 or 403. A
plugin or a request body that cannot be read is a step that may fail. Of the
answers `Gateway` assumes what `UpstreamContract` promises and that only the text
of a JSON object has keys (`BodiesAssumption`).

### Forwarding
A request travels hop by hop. A hop outside the trusted ranges writes whatever
it likes, so the state of a chain is what has happened since the last such hop
(`origin`). A trusted proxy that is no gateway is external: it appends its peer
to `X-Forwarded-For` and passes or sets the other headers. A gateway does what
`extractClientIP` and `resolveHeaders` do, and may be followed by another gateway:
it copies what `forward_headers` names (`Settings`) and then takes the branch for a
trusted client, the one for an untrusted client, or neither if the client does not
parse. `net.ParseIP` takes no address with a zone; such hops are `Zoned`. Other
texts that are no address are one value, `Junk`.

### Config, OpenAPI and Deployment
A configuration is the record the YAML was decoded into, with an optional block
(a nil pointer in Go) as a sequence of at most one element, so that following a
nil pointer can be seen: it is the outcome `panic` of `compileFlow`. Validation
is one operator per function of `config.go`, in their order. Durations pass
through their texts (`DurationText`), because `import` parses what `export`
formatted. A zero text is `Unset`. `pruneZeroNodes` works on texts: a name that
reads like a zero is dropped, and the model does it too, one `prune*` operator per
struct; so are an upstream's method and path (one field, `target`) and its load
balancing mode (part of `policy.plain`). The fields of a TLS block besides its files
are one field, `verify`, which documents do not store either. `ToConfig` walks the
document in the order of its paths and methods: `sortedSlots` gives every slot the
rank that is the number of slots before it.
`IsConfig` and `IsDocument` say what the decoder leaves in a record, that is the Go
types of its fields; they are what `ConfigsAssumption` and `DocumentsAssumption`
ask of the files an operator may write and the documents other tools may produce,
which are otherwise arbitrary, and may be invalid. In `Deployment` the file and the document
are variables, editing, obtaining a document of another tool, exporting,
importing and starting are actions, and `Start` takes `LoadConfig` and
`NewServer` to decide between running, exit code 1, exit code 2 and a panic.
`origin` and `imported` are history. The operator's steps are cut off when the
process starts: the gateway does not read the file again.

### Server
The goroutines of `runGateway`: main, the one that runs `Start`, the two of
its errgroup, the watcher, and the requests. `net/http`, `errgroup` and
`signal.NotifyContext` are external and follow their documentation. A listener
may fail to open or fail later. `main` names the point of `runGateway`/`Stop`.

### TLSReload
One `Reloader` with a certificate, its key and a CA bundle. The content of a
file is the generation written to it, or `Broken`. The model begins when
`server.New` has loaded the files: the directories are added to the watcher one
by one afterwards, as `runGateway` does, and a write before that has no event.
Writes, event delivery, the loss of an event (`Overflow`; `Run` only logs the
error), timer expiry and the five steps of `Load` interleave. `behind` and
`change` are history variables: what became of the last write.

### JWKS
Requests and the background goroutine are actors; a refresh fetches (what the
issuer publishes at that moment) and stores in two steps, because the lock is
held for the swap only. A key is its kid; keys that are no RSA keys are
`Unusable`. Verification of the token after a lookup touches nothing shared
and is part of the lookup's step. `stop` is left out: `auth.Middleware.Close`
has no error result, so it does not satisfy `sdk.Closer`, `Router.Close` passes
it by, and the goroutine runs until the process ends. `past`, `stable` and
`overlapped` are history variables.

## 3. Runs

| Run | Checks | Bounds and why they are enough |
|---|---|---|
| `upstream` | `TypeOK`, `CountExplainsState`, `AtMostTwoTrials`, `OpenUntilReset`, `NeverReplayed`, `ConnectionsAccounted`, `LeastLoadedWhenQuiet`, `RoundRobinBalanced`, `CallContract` | 2 callers, 2 hosts, all three load balancing modes, 1 retry with backoff, threshold 2, reset timeout 2, GET and POST, all body sizes, cancellation, broken requests: one caller can be late with an outcome while the other opens, half-opens or closes the breaker; the round robin counter has modulus 4, so that it wraps. The breaker is on in the mode without balancing, which keeps the product of both state spaces small; they share no variable |
| `upstream_recovery` | `CallsComplete`, `OpenResolves`, `HalfOpenDecides` | 2 callers, threshold 1, reset timeout 2, 1 retry with backoff, timeouts, failures, clients that disconnect at any moment: every order of backoff, timeout, cancellation and the breaker's periods, with one caller late while the other is admitted |
| `breaker_stuck_by_retry` | `HalfOpenResolves`, violated | 1 caller, 2 retries |
| `slow_body_is_canceled` | `CanceledByClient`, violated | 1 caller, a body that stalls |
| `ratelimit` | `QuotaByWindow`, `CountsExact`, `SlidingLimit`, `NoFalseRejection` | 2 clients, limit 2, windows of 3 ticks, 9 ticks: more than three windows, so that a bucket is rolled, skipped over and cleaned up; the clock may be set back at any time |
| `forwarding` | `ClientIsNearestUntrusted`, `HeadersAgree` | 2 untrusted addresses and one with a zone, a proxy, 2 gateways, 2 made-up entries, 4 values of `forward_headers`, 4 hops: every order of untrusted hop, proxy and gateway behind gateway |
| `gateway` | `TypeOK`, `AnsweredOnce`, `HonestStatus`, `StatusAgreed`, `DataFromRightUpstream`, `DocumentedStatus`, `RequestAnswered` | every flow over one upstream, three, and three with a repeated name; one answer for every case the code tells apart. Three upstreams are needed for a preferred one to come between two others |
| `best_effort_all_or_nothing` | `BestEffortDelivers`, violated | as `gateway` |
| `deployment` | `RoundTrip`, `ReportedLosses`, `ImportAccepted`, `CompilesOrRefuses`, `DrainedBeforeClose`, `NotReadyWhenClosed`, `ExitCodeTells`, `SignalEnds` | about seventy configurations, each with one thing set to a value the code treats in its own way, valid or not, and two with several flows (a duplicate; four the document sorts); documents of other tools; 2 requests; both listeners may fail at any time |
| `ready_after_listen_failure` | `ReadyMeansAccepting`, violated | 1 request |
| `tls_reload` | `LiveUsable`, `ValidatedBeforeApplied`, `EventuallyCurrent` | 3 writes (a key pair and a CA bundle, or a mistake and its repair) from before the watches on, any event may be lost, 2 overlapping Loads, CA in a directory of its own so that two timers exist |
| `jwks` | `CacheIsPublishedSet`, `FoundUnlessOverlapped`, `CacheCatchesUp`, `RequestsDecided` | 2 requests and the goroutine, two usable keys (so that a mix of two sets can be told from both) and one unusable, one rotation between any two sets: enough for a fetch to be overtaken |

Every property of a passing run has a mutant: a plausible slip in the code
(a guard dropped, an order swapped, a reset forgotten) under which TLC finds
that property violated with the same configuration.

`deployment`, `forwarding` and `tls_reload` switch deadlock checking off because
the process may end, a request arrive, or nothing be left to do. All other
systems run for ever or end in a state with a next request.

### Refinements
- `CallContract` (run `upstream`, theorem `ContractTheorem`): the call path
  implements `UpstreamContract`. Every call gets one answer, of a kind and
  status the classification allows, with a body that satisfies the policy
  whenever it can be forwarded; the answer does not change until it is taken.
- `ImplementsBreaker`: the call path drives the breaker through `BreakerSpec`
  only, so the breaker's theorems hold in use.
- `DeploymentImplementsServer`: a gateway started on a file, whatever the
  operator did before, behaves as `Server` says.

### Fairness
- `Upstream`: weak fairness of the clock, of every caller's next step and of
  the arrival of requests. Every attempt ends because `doCall` runs under a
  timeout; a breaker can only recover while requests arrive, since `Allow` is
  the only place that looks at the clock. For the same reason not every client may
  disconnect before its call gets to the breaker: strong fairness of `CheckContext`
  for clients that are still there. It is an assumption about clients, not about
  the code.
- `Gateway`: weak fairness of the handler's steps. An upstream call ends by
  `CallsComplete`; a streamed response is *assumed* to end, which the code
  does not enforce (it removes the deadlines on purpose).
- `Server` and `Deployment`: weak fairness of the goroutines, of the deadline
  and of the start of the process. None for the operator's steps, and none for
  requests: they may go on for ever, and `SignalEnds` holds all the same.
- `TLSReload`: the watches are added, events that are not lost are delivered, timers
  expire, goroutines run.
- `JWKS`: goroutines run, a fetch ends (it has a timeout), and, by strong
  fairness, the issuer answers the background goroutine again and again; an
  issuer that never answers leaves the cache as it is.

### Findings
1. **A retry can shut the half-open breaker for ever**
   (`breaker_stuck_by_retry`). With two or more retries, one call to an
   upstream that is still down takes both half-open slots, its third attempt is
   denied, and the denial, which carries no signal, replaces the failure as the
   result of the call. The breaker stays half-open and denies everybody.
2. **A body that times out is reported as cancelled by the client**
   (`slow_body_is_canceled`). `readBody` looks at the context that also carries
   the attempt's own timeout.
3. **Best effort is all-or-nothing for array and namespace flows with a
   malformed body** (`best_effort_all_or_nothing`).
4. **Ready without a data port** (`ready_after_listen_failure`). `Start`'s
   errgroup has no context, so a data listener that fails leaves the admin
   server up, `/__ready` at 200 and the process running without serving.

Met while modelling, without a violated run of their own. They are disagreements
between two places, or limits of what a property can claim. Where a document is
wrong, the property of the passing run says exactly what the code does instead, so
that it fails as soon as the code does anything else, more or less.

Documents and configuration:
- `transportExtension` (`export.go:697`) does not store `transport.http2`: it comes
  back as `auto` (`RoundTrip`), and no warning says so (`ReportedLosses`), while
  CHANGELOG.md:148-150 says transport is reconstructed losslessly. Settings of the
  server, of logging and of the exporters are not part of a document and are lost
  too.
- `isZeroNode` looks at texts and runs after the validation: an upstream named `0`
  or `false` loses its name when the imported file is written, and the file does
  not load; an upstream's method, path or load balancing mode of such a text is
  lost without a word.
- A `prefer` policy whose upstream does not exist passes validation and import
  and is refused by `compileFlow`. These are the two cases in which the gateway
  rejects what an import wrote (`ImportAccepted`: if and only if), while
  README.md:207-208 and CHANGELOG.md:153-154 say it never does. In general
  `aastro -t` runs `LoadConfig` only, so that a file it calls valid may be refused
  at start.
- Of two flows with one method and path the document has the first, with a
  warning, and the router serves the last.
- A proxy flow exported without `--extensions` comes back as a streaming flow:
  its response is documented as `*/*`, by which `isStreamingOperation` knows one.
- 503 ABORTED is not among the documented responses, although README.md:195 says
  that statuses are derived from the actual configuration. By finding 2 a client
  that is still there gets it when the body of an upstream is too slow.
  `DocumentedStatus` allows it only if a call ended as canceled.
- A best-effort merge of which nothing but malformed bodies arrived is answered
  206 with `{}`: `collectFields` counts a success before it parses the body
  (`aggregator.go:119`). `export.go:405` documents 502 for it, and `router.go:97`
  says that a response without data is a problem document. `HonestStatus` states
  the case.
- CHANGELOG.md:211-220 (0.5.1) still says that transport failures are always
  retried; the code (`upstream.go:159`) and README.md:155 retry idempotent methods
  only, which is what `NeverReplayed` says.
- `max_retries` and the limiter's window are not checked: a negative number of
  retries makes `callWithRetry` return nil, which the caller dereferences; a
  window that is not positive switches limiting off. Without
  `load_balancing.mode` all calls go to the first host.

Clients and forwarding:
- `resolveHeaders` asks whether the *client* is trusted, not the peer
  (`upstream.go:538`): behind a trusted proxy the headers of an ordinary client,
  the proxy's `X-Forwarded-Proto` among them, are overwritten from the gateway's
  own connection, while sample.config.yaml:78 says they are appended to.
  `HeadersAgree` states both cases. (`upstream_test.go:75` has a trusted proxy that
  is the client itself, which is the branch that appends.)
- A peer whose address has an IPv6 zone does not parse: `resolveHeaders` returns
  early (`upstream.go:525`), so that an upstream with `forward_headers: ["*"]` gets
  the forwarding headers this client wrote; the limiter's key is then `RemoteAddr`
  with its port, one per connection; and in a list such an entry ends the scan.
- Only the first `X-Forwarded-For` line is read; a list of trusted addresses only
  falls back to `X-Real-IP`.
- `forward_queries: ["*"]` returns before `forward_params` are added
  (`upstream.go:470`).

Request path:
- Streaming calls select a host by the connection counters but never count
  themselves (`upstream.go:636`), so `least_conns` does not see them.
- `on_conflict: error` fails for equal values as well (`aggregator.go:162`).
- A request that a plugin replaces is not the one that is dispatched
  (`router.go:201`).
- `scatter` starts all upstreams at once: no semaphore bounds it
  (`scatter.go:120` and README.md:148 speak of one).
- The round robin run has two hosts and a counter modulo 4, so the uneven turn at
  the wrap of a number of hosts that does not divide the modulus is not exercised;
  `RoundRobinBalanced` is a claim about numbers that do.

TLS:
- README.md:232 says of a rotated file "picked up automatically". There are three
  ways in which it is not, until the next write: the write comes between
  `server.New` (`run.go:45`) and `watcher.Add` (`run.go:70`); its event is lost in
  an overflow, which `Run` only logs (`certwatcher.go:71`); or a `Load` that has read
  the old files stores them after the newer one did, since `Load` holds no lock.
  The last one takes a `Load` slower than the debounce delay of 200 ms, or two
  directories whose timers fire within one `Load`. `EventuallyCurrent` promises the
  new files in all other cases; leaving either of its two provisos out, TLC
  finds it violated.

## 4. Theorems

| Module | Theorem | Says |
|---|---|---|
| `CircuitBreakerProofs` | `CountTheorem`, `TrialsTheorem`, `OpenUntilResetTheorem` | the breaker's count, trial bound and open period, for every threshold and timeout |
| `UpstreamProofs` | `ImplementsBreaker`, `BreakerSafeInUse` | the call path, for any number of callers, hosts and retries, drives the breaker through its own behaviours only, so its invariants hold in use |
| | `ContractTheorem` | `Spec => CallContract`: the call path implements `UpstreamContract` |
| | `TypeCorrect`, `AccountsTheorem`, `ReplayTheorem` | types; exact connection counters; no replay |
| | `LeastLoadedTheorem` | an undisturbed `least_conns` scan ends at a least loaded host |
| | `RoundRobinTheorem` | round robin is balanced, for every number of hosts that divides the counter's modulus |
| `RateLimitProofs` | `TypeTheorem`, `QuotaTheorem` | types; whatever the clock does, an entry's window never moves back, every admission is counted, no count passes the limit |
| | `CountsTheorem`, `SlidingTheorem`, `RejectionTheorem` | exact counts, the weighted limit up to the one request that truncation allows, and no false rejection, for every limit, window, number of clients and time, as long as the clock is not set back |
| `ForwardingProofs` | `TypeTheorem`, `ClientTheorem`, `HeadersTheorem` | for chains of any length the client is the nearest untrusted hop (unless its address has a zone and stands in a list), and the headers a gateway writes agree with it and each other, the older entries kept only for a trusted client; a client that does not parse leaves the copied headers |
| `GatewayProofs` | `AnsweredOnceTheorem`, `GatewayTypeOK` | exactly one status line on every path, for any flows and answers; types |
| | `HonestStatusTheorem`, `StatusAgreedTheorem` | for any number of upstreams, with any answers in any order: 200 only if every upstream delivered; 206 only under best effort, with data, if some delivered and some did not, or with `{}` if a merge got malformed bodies only; else a problem that names a cause; a client error only if every failed upstream answered with it |
| | `DataFromRightUpstreamTheorem` | every key, element and name of the data comes from the upstream the strategy and the conflict policy name |
| | `DocumentedStatusTheorem` | the status of a response the gateway makes is listed by the OpenAPI export for the flow, is the one all failed upstreams share, or is the 503 of a call that ended as canceled, which is not listed |
| `DeploymentProofs` | `ServerTypeTheorem`, `DrainTheorem`, `ReadyTheorem`, `ExitCodeTheorem` | shutdown order, readiness, exit code, for any number of requests |
| | `DeploymentImplementsServer`, `DeploymentSafe` | so they hold of a gateway started on any file |
| | `ValidFlowsCompile`, `CompilesTheorem` | every flow of every valid configuration, of any size, compiles to one the request path can serve or is refused for one of four reasons; no nil pointer is followed; so for every file an operator writes or imports |
| | `RoundTripTheorem` | a configuration of any size that is exported with extensions and imported again has its flows as `Restored` has them: without plugins, middlewares, upstream certificates, `transport.http2` and texts that read as zero; it does not load exactly if such a text is a name |
| | `ReportedLossesTheorem` | exactly what is reported of a flow: plugins, middlewares, upstreams with TLS, a duplicate, a document without extensions; `transport.http2` and texts that read as zero are not |
| | `ImportAcceptedTheorem` | a file import has written, of any document, is refused if and only if a name in it was pruned, and its server cannot be built if and only if a preferred upstream is missing |
| `TLSReloadProofs` | `LiveUsableTheorem`, `ValidatedTheorem` | usable and validated material, for any layout of directories and any number of overlapping Loads |
| `JWKSProofs` | `CacheTheorem`, `FoundTheorem` | the cache is one published set; a published key is missed only when refreshes overlap, for any number of requests, keys and rotations |

The assumptions are the named `ASSUME`s of the modules: finite sets of callers,
requests and loaders, at least one host, a natural number of retries, a positive
window, Boolean switches, files and documents whose fields have their types,
flows of the shape `Config` compiles, answers the contract of `Upstream` promises.
TLC evaluates them in every run. One theorem has a hypothesis of its own:
`RoundRobinTheorem` that the number of hosts divides the modulus of the counter
(otherwise the turn in which it wraps is uneven).

Inductive invariants, and why they are needed:
- `CountExplainsState` and `AtMostTwoTrials` are inductive together with the
  breaker's type; `OpenUntilReset` is a property of single steps.
- `ConnectionsAccounted` is inductive with the call path's type. The step that
  matters changes one member of `Holders(h)`, so the proof rests on the
  cardinality facts of `FiniteSetTheorems` for adding and removing an element.
- `ScanInv`: an undisturbed scan knows the minimum of the hosts it has passed.
  Its first load lowers `min` only because no counter reaches the value the loop
  starts from, which needs `ConnectionsAccounted`.
- `RoundInv`: the hosts selected since all were selected are 1, 2, ... up to the
  remainder of the counter. The proof is about remainders: the next value of the
  counter has the next remainder, around the wrap too.
- `NeverReplayed` needs to know how the number of attempts sent relates to the
  loop variable at each program counter: `sends` is at most `attempt` before
  the send and at most `attempt + 1` after it, and a non-idempotent call is
  never beyond attempt 0.
- For `ContractTheorem`: what a caller holds at each program counter (the kind
  and status of an attempt that failed, a clean response after a body was read)
  is such that the policy turns it into a promised answer; every step before
  `Report` is a stutter of the contract.
- `CountInv` of the limiter: an entry remembers its window and the one before,
  nothing was admitted after it, and a key without an entry has nothing in either
  window in sight; then the rolled entry is exact. Window starts are multiples of
  the window, so two of them differ by a whole number of windows, and that decides
  which branch of the roll is taken. `QuotaTheorem` needs only that no entry counts
  more than the limit (`BucketBounded`), which is inductive with the type: the
  truncated estimate is never below the count of the present window, because
  rounding takes one away only where the weighted part is at least one.
- `ListedInv` of `Forwarding`: behind the last untrusted hop the list ends with
  that hop and trusted addresses only, so that reading it from its end stops
  there.
- `ReplyInv`: the reply is empty until the last step, with one entry once the
  program counter is at `copy` or `done`.
- `PipelineInv`, from which the other five theorems about `Gateway` follow: each
  answer is either still missing or the one of the upstream whose place it is in;
  nothing runs after scatter; the reply is a refusal of a middleware or the router,
  a streamed status, or the response `dispatch` built from *all* answers
  (`Dispatched`). The properties speak of the reply alone, at the end, so the
  invariant has to carry the answers to that point. The rest are lemmas about the
  operators: `LoopEnumerates` says that a loop returns the chosen indices in
  order, and `MergedResult`, `ArrayedResult`, `NamespacedResult`, `SharedStatus`
  and `PrimaryError` what comes out of the aggregator for any list of answers.
- `FilesInv`: a document is the export of its `origin`, which was a configuration
  that loaded (or a document of another tool), and an imported file is what
  pruning left of a configuration that passed validation. Without it nothing
  relates the file, two actions later, to what it came from. The rest is one lemma
  per conversion: `FlowRestored` (a flow through export, import, pruning and
  defaults), `FlowsRestored` (and their set, through `sortedSlots`, whose ranks
  are shown to enumerate the slots), `ImportedKept` (pruning loses nothing
  validation had seen, because defaults put it back), `DuplicatesWarned`.
- `DrainInv`: after the data server was drained it is stopping, a stopping
  server does not serve, so nobody can arrive any more. `ExitInv`: `Start`
  returns once, after both listeners have ended, and an ended listener stays as
  it is; before that the exit code means nothing.
- `LoadInv`: a `Load` past its key has read a matching pair, and one past its
  CA a bundle that parses; files that change later do not matter because
  `loaded` is a copy.
- `CacheInv`: what is about to be stored was published too. `CarryInv`: a
  request whose key stays published carries it from its fetch to its second
  lookup unless another store comes between; without the clause about the
  request's own fetched set the step that stores could not be justified.

`PipelineInv` and `FilesInv` were also checked by TLC, on the instances of the runs
`gateway` and `deployment`.

The provers cannot instantiate the library's induction theorems, so facts about
loops are proved from a least counterexample: the naturals are well founded
(`WFMin`), a set of indices that misses one has a least one that it misses, and the
step before it gives the contradiction (`MinOfSet`, `LoopInduction`). That is enough
because a loop's claim can be written as a set of indices.

A proof attempt corrected the model. `RoundTrip` used to say that the aggregation
block comes back as it was: with a policy that ignores it, a `prefer_upstream` of
`0` or `false` is pruned and does not. `Restored` now says so; no configuration of
the instance had shown it.

Only model-checked: the liveness properties (`CallsComplete`, `OpenResolves`,
`HalfOpenDecides`, `RequestAnswered`, `SignalEnds`, `EventuallyCurrent`,
`CacheCatchesUp`, `RequestsDecided`), since fairness is out of the prover's reach, and
the four violations, which need a behaviour. Every invariant and action property
of a passing run is stated by a theorem (`HalfOpenDecides` has one among its
conjuncts; the rest of it is liveness).

## 5. Not modelled, and why

- Verification of tokens and of peer certificates: done by libraries.
- The rest of request building (path parameters, queries, header patterns) and
  the fingerprint: functions of one request without shared state.
- Headers of merged responses.
- cors, compressor, recoverer, logger middlewares and the three plugins: no
  shared state; a plugin is a step that succeeds or fails, and that cors may answer
  in a flow's place is part of `Middlewares`.
- Panics at run time. A panic in one of scatter's goroutines ends the process.
- Observability: wrappers of OpenTelemetry and zap; closing them is a step of
  the shutdown. The dump of `aastro -T`, flags, printing and the generation of
  plugin skeletons: I/O and formatting.
- Configuration values the program does not validate: a negative
  `max_retries` and a rate limit window that is not positive (see above).
- In documents: titles, tags, descriptions and schemas, which import ignores.

## 6. Plan

Done: breaker and call path with its contract, rate limiter, client IP and
forwarding headers, aggregation and request pipeline, configuration and OpenAPI
documents, process lifecycle and deployment, TLS reload, JWKS cache; their
theorems: every invariant and action property of a passing run is proved for every
value of the constants, and the liveness properties are checked by TLC.

Next, in this order:
1. `PromisedAnswers` of the contract as the set `Gateway` takes its answers from, so
   that the theorems of `Gateway` and `ContractTheorem` meet in one statement.
2. The flows that `NewRouter` builds as the flows of `Gateway`, in the same way.
3. cors and compressor as operators, if a property worth checking is found.
