---------------------------- MODULE MCDeployment ----------------------------
(* An instance of Deployment for TLC. *)
EXTENDS Deployment

CONSTANTS r1, r2

\* A path without and one with a parameter.
PathA == [route |-> 1, rooted |-> TRUE, params |-> {}]
PathB == [route |-> 2, rooted |-> TRUE, params |-> {"id"}]

Up == [ZeroUpstream EXCEPT !.name = "a", !.hosts = <<"h1">>]
UpB == [ZeroUpstream EXCEPT !.name = "b", !.hosts = <<"h1", "h2">>]

Flow == [path |-> PathA, method |-> "GET", streaming |-> FALSE, aggregation |-> <<>>,
         upstreams |-> <<Up>>, plugins |-> <<>>, middlewares |-> <<>>]

With(u) == [Flow EXCEPT !.upstreams = <<u>>]
Fan(aggregation) == [Flow EXCEPT !.upstreams = <<Up, UpB>>, !.aggregation = aggregation]
Agg(strategy, bestEffort, onConflict) ==
    <<[strategy |-> strategy, bestEffort |-> bestEffort, onConflict |-> onConflict]>>
OnConflict(policy, upstream) == <<[policy |-> policy, upstream |-> upstream]>>
Object(name, source) == <<[name |-> name, source |-> source, path |-> ""]>>
Files(cert, key, ca) == [NoTLS EXCEPT !.enabled = TRUE, !.cert = cert, !.key = key, !.ca = ca]

\* Upstreams with something set, to a value the code treats in its own way.
Ups ==
    {Up, [Up EXCEPT !.name = ""], [Up EXCEPT !.name = "0"], [Up EXCEPT !.hosts = <<>>],
     [Up EXCEPT !.timeout = 7], [Up EXCEPT !.path = {"id"}],
     [Up EXCEPT !.forwardParams = {"*"}], [Up EXCEPT !.forwardParams = {"id"}],
     [Up EXCEPT !.forwardHeaders = {"*", "X-*", "X-User", "Authorization"},
                !.forwardQueries = {"q", "*"}],
     [Up EXCEPT !.target = "t", !.policy.plain = "lb"],
     [Up EXCEPT !.target = "0"], [Up EXCEPT !.policy.plain = "false"],
     [Up EXCEPT !.policy = [plain |-> "0", retry |-> [max |-> 0, backoff |-> 7],
                            breaker |-> ZeroBreaker]],
     [Up EXCEPT !.tls = [Files("", "", "") EXCEPT !.verify = "skip"]],
     [Up EXCEPT !.policy.retry = [max |-> 2, backoff |-> 0]],
     [Up EXCEPT !.policy.breaker = [enabled |-> TRUE, reset |-> 7]],
     [Up EXCEPT !.transport.idle = 7], [Up EXCEPT !.transport.http2 = "off"],
     [Up EXCEPT !.transport.http2 = "on"],
     [Up EXCEPT !.transport.http2 = "on", !.tls = Files("", "", "")],
     [Up EXCEPT !.tls = Files("ok", "ok", "")], [Up EXCEPT !.tls = Files("", "", "bad")],
     [Up EXCEPT !.tls = Files("ok", "", "")]}

Flows ==
    {With(u) : u \in Ups}
    \union {[With(u) EXCEPT !.path = PathB] : u \in {v \in Ups : v.path \union v.forwardParams # {}}}
    \union {Fan(<<>>)}
    \union {Fan(Agg(s, b, <<>>)) : s \in {"array", "merge"}, b \in BOOLEAN}
    \union {Fan(Agg("merge", FALSE, OnConflict(p, u))) :
               p \in {"error", "prefer", "sum"}, u \in {"", "b", "c", "0"}}
    \union {Fan(Agg("zip", FALSE, <<>>))}
    \union {[Flow EXCEPT !.streaming = TRUE],
            [Fan(Agg("array", FALSE, <<>>)) EXCEPT !.streaming = TRUE],
            [Flow EXCEPT !.method = "QUERY"], [Flow EXCEPT !.method = "TRACE"],
            [Flow EXCEPT !.path.rooted = FALSE], [Flow EXCEPT !.upstreams = <<>>]}
    \union {[Flow EXCEPT !.plugins = Object(n, s)] : n \in {"log", "none"}, s \in {"builtin", "file"}}
    \union {[Flow EXCEPT !.middlewares = Object(n, "builtin")] : n \in {"auth", "none"}}

Base == [schema |-> "v1", port |-> 7805, adminPort |-> 9090, http2 |-> "", clientAuth |-> "",
         tls |-> NoTLS, metrics |-> "off", tracing |-> "off", limiter |-> "off",
         proxies |-> {}, flows |-> <<Flow>>]

\* Duplicates, and flows the document sorts.
Pairs == {<<Flow, With(UpB)>>,
          <<[Flow EXCEPT !.path = PathB], [Flow EXCEPT !.method = "QUERY"],
            [Flow EXCEPT !.method = "POST"], Flow>>}

MCConfigs ==
    {[Base EXCEPT !.flows = <<f>>] : f \in Flows}
    \union {[Base EXCEPT !.flows = fs, !.limiter = "on"] : fs \in Pairs}
    \union {[Base EXCEPT !.flows = <<>>], [Base EXCEPT !.adminPort = 7805],
            [Base EXCEPT !.port = 0], [Base EXCEPT !.schema = "v0"],
            [Base EXCEPT !.http2 = "on"], [Base EXCEPT !.metrics = "statsd"],
            [Base EXCEPT !.limiter = "without_config"],
            [Base EXCEPT !.proxies = {"cidr"}], [Base EXCEPT !.proxies = {"junk"}],
            [Base EXCEPT !.clientAuth = "require"],
            [Base EXCEPT !.clientAuth = "require", !.tls = [NoTLS EXCEPT !.ca = "ok"]]}
    \union {[Base EXCEPT !.tls = t, !.http2 = "on"] :
               t \in {Files("ok", "ok", "ok"), Files("ok", "bad", ""), Files("", "", "")}}

\* Documents of other tools: an operation by hand.
Operation(opId, ext) ==
    [opId |-> opId, parameters |-> {[in |-> "query", name |-> "q"]}, responses |-> {200},
     wildcard |-> FALSE, security |-> FALSE, ext |-> ext]
Document(path, op) == [generated |-> FALSE, schema |-> "", servers |-> <<>>,
                       ops |-> <<path, "GET">> :> op]
HandMade == flowExtension(setDefaults(Base).flows[1])

MCDocuments ==
    {[Document(PathA, Operation("", <<>>)) EXCEPT !.ops = [k \in {} |-> k]]}
    \union {Document(p, Operation("", <<>>)) : p \in {PathB, [PathA EXCEPT !.rooted = FALSE]}}
    \union {[Document(PathA, Operation("", <<>>)) EXCEPT !.servers = <<s>>] : s \in {"", "h2"}}
    \union {Document(PathA, Operation(id, <<>>)) : id \in {"list.users", "False", "0"}}
    \union {Document(PathA, Operation("", <<e>>)) :
               e \in {[HandMade EXCEPT !.upstreams[1].timeout = "soon"],
                      [HandMade EXCEPT !.upstreams[1].hosts = <<>>,
                                       !.upstreams[1].transport =
                                          <<[idle |-> 7, idleTimeout |-> "soon"]>>],
                      [HandMade EXCEPT !.upstreams = <<>>]}}
=============================================================================
