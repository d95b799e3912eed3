------------------------------- MODULE Config -------------------------------
(***************************************************************************)
(* What the process does with its configuration before it serves: defaults *)
(* and validation (config.go) and compilation into flows (builder.go,      *)
(* loader.go, internal/server).  Pure definitions.                         *)
(*                                                                         *)
(* A configuration is the record the YAML was decoded into: [schema, ports *)
(* of server and admin, http2 and tls of the server, exporters, limiter,   *)
(* proxies, flows].  A path is its place among the paths, whether it       *)
(* starts with a slash, and its set of {params}.  A file is "" when it is  *)
(* not configured, "ok" when it can be loaded and "bad" when it cannot;     *)
(* verify is how a certificate is checked (server_name,                    *)
(* insecure_skip_verify, min_version), "" for the defaults.                *)
(***************************************************************************)
EXTENDS FlowShape, FiniteSets

\* The zero value of a text.
Unset == ""

NoTLS == [enabled |-> FALSE, cert |-> Unset, key |-> Unset, ca |-> Unset, verify |-> Unset]

\* Every upstream of every flow.
Upstreams(cfg) == UNION {ToSet(f.upstreams) : f \in ToSet(cfg.flows)}

-----------------------------------------------------------------------------
(* defaults.Set *)

OrDefault(v, zero, default) == IF v = zero THEN default ELSE v

DefaultTransport == [idle |-> 100, idleTimeout |-> 90, http2 |-> "auto"]

DefaultUpstreamConfig(u) ==
    [u EXCEPT !.timeout = OrDefault(@, 0, 3),
              !.transport = [idle |-> OrDefault(@.idle, 0, DefaultTransport.idle),
                             idleTimeout |-> OrDefault(@.idleTimeout, 0, DefaultTransport.idleTimeout),
                             http2 |-> OrDefault(@.http2, Unset, DefaultTransport.http2)]]

DefaultFlowConfig(f) ==
    [f EXCEPT !.upstreams = [j \in DOMAIN @ |-> DefaultUpstreamConfig(@[j])]]

setDefaults(cfg) ==
    [cfg EXCEPT
        !.http2 = OrDefault(@, Unset, "auto"),
        !.clientAuth = OrDefault(@, Unset, "none"),
        !.flows = [i \in DOMAIN @ |-> DefaultFlowConfig(@[i])]]

-----------------------------------------------------------------------------
(* ValidateConfig: the validate tags, then the checks in code *)

Ports == 1 .. 65535
Http2Modes == {"auto", "on", "off"}
FlowMethods == {"GET", "POST", "PUT", "PATCH", "DELETE", "HEAD", "OPTIONS", "QUERY"}

ValidUpstream(u) ==
    /\ u.name # Unset /\ u.hosts # <<>>
    /\ u.transport.http2 \in Http2Modes
    /\ (u.tls.cert = Unset) = (u.tls.key = Unset)

ValidAggregation(a) ==
    /\ a.strategy \in Strategies
    /\ a.strategy = "merge" => a.onConflict # <<>>
    /\ \A c \in ToSet(a.onConflict) :
          c.policy \in Policies /\ (c.policy = "prefer" => c.upstream # Unset)

ValidPlugin(p) ==
    p.name # Unset /\ (p.source = "builtin" \/ (p.source = "file" /\ p.path # Unset))

ValidFlow(f) ==
    /\ f.path.rooted /\ f.method \in FlowMethods
    /\ \A a \in ToSet(f.aggregation) : ValidAggregation(a)
    /\ f.upstreams # <<>> /\ \A u \in ToSet(f.upstreams) : ValidUpstream(u)
    /\ \A p \in ToSet(f.plugins) \union ToSet(f.middlewares) : ValidPlugin(p)

ValidServer(cfg) ==
    /\ cfg.schema = "v1"
    /\ {cfg.port, cfg.adminPort} \subseteq Ports
    /\ cfg.http2 \in Http2Modes
    /\ cfg.tls.enabled => cfg.tls.cert # Unset /\ cfg.tls.key # Unset
    /\ cfg.clientAuth \in {"require", "optional", "none"}
    /\ cfg.clientAuth # "none" => cfg.tls.ca # Unset
    /\ cfg.metrics \in {"off", "otlp", "prometheus"} /\ cfg.tracing \in {"off", "otlp"}
    /\ cfg.limiter # "without_config"

ValidStruct(cfg) ==
    /\ ValidServer(cfg)
    /\ cfg.flows # <<>> /\ \A f \in ToSet(cfg.flows) : ValidFlow(f)

validateUpstreamParams(u, flowParams) ==
    u.path \subseteq flowParams /\ u.forwardParams \ {"*"} \subseteq flowParams

\* Mutant of validateFlows: aggregation is not required of a fan-out.
validateFlowsMutAggregation(cfg) ==
    \A f \in ToSet(cfg.flows) :
        /\ \A u \in ToSet(f.upstreams) : validateUpstreamParams(u, f.path.params)
        /\ f.streaming => Len(f.upstreams) <= 1

validateFlows(cfg) ==
    \A f \in ToSet(cfg.flows) :
        /\ \A u \in ToSet(f.upstreams) : validateUpstreamParams(u, f.path.params)
        /\ f.streaming => Len(f.upstreams) <= 1
        /\ ~f.streaming /\ Len(f.upstreams) > 1 => f.aggregation # <<>>

validateHTTP2(cfg) ==
    /\ cfg.http2 = "on" => cfg.tls.enabled
    /\ \A u \in Upstreams(cfg) : u.transport.http2 = "on" => u.tls.enabled

\* For a configuration that has its defaults.
ValidateConfig(cfg) ==
    /\ ValidStruct(cfg) /\ cfg.port # cfg.adminPort
    /\ validateFlows(cfg) /\ validateHTTP2(cfg)

\* file is <<>> when it cannot be read or parsed; so is the result when the
\* configuration is refused.
LoadConfig(file) ==
    IF file # <<>> /\ ValidateConfig(setDefaults(file[1]))
    THEN <<setDefaults(file[1])>>
    ELSE <<>>

-----------------------------------------------------------------------------
(* Compilation.  A panic is a nil pointer the code would follow. *)

Built(value) == [outcome |-> "ok", value |-> value, why |-> Unset]
Refused(why) == [outcome |-> "error", value |-> <<>>, why |-> why]
Panic == [outcome |-> "panic", value |-> <<>>, why |-> "nil"]

\* tlsutil.NewReloader loads the files (external: the file system).
FilesLoad(tls) == tls.enabled => "bad" \notin {tls.cert, tls.key, tls.ca}

\* The directories Register adds to the registry.
WatchesDirs(tls) == tls.enabled /\ {tls.cert, tls.key, tls.ca} # {Unset}

\* The first upstream of that name, or 0.
searchUpstream(name, names) == SelectInSeq(names, LAMBDA n : n = name)

\* compileConflictPolicy and the preferred upstream, for a merge.
compileConflict(bestEffort, c, names) ==
    IF c.policy \notin Policies THEN Refused("policy")
    ELSE IF c.policy # "prefer" THEN Built(Aggregation("merge", bestEffort, c.policy, 0))
    ELSE IF searchUpstream(c.upstream, names) = 0 THEN Refused("preferred")
    ELSE Built(Aggregation("merge", bestEffort, "prefer", searchUpstream(c.upstream, names)))

\* With compileStrategy; OnConflict is dereferenced.
initAggregation(a, names) ==
    IF a.strategy \notin Strategies THEN Refused("strategy")
    ELSE IF a.strategy # "merge"
    THEN Built(Aggregation(a.strategy, a.bestEffort, "overwrite", 0))
    ELSE IF a.onConflict = <<>> THEN Panic
    ELSE compileConflict(a.bestEffort, a.onConflict[1], names)

\* initPlugins and initMiddlewares skip a name that is loaded already.
FirstOfName(ps) ==
    {ps[i] : i \in {i \in DOMAIN ps : \A j \in 1 .. i - 1 : ps[j].name # ps[i].name}}

\* The shared object is there and its Init accepts (external: plugin.Open).
SharedObjects == {"auth", "log"}
Loads(ps) == \A p \in FirstOfName(ps) : p.name \in SharedObjects

\* Aggregation is dereferenced for a fan-out; the zero aggregation of any other
\* flow is never read.
compileAggregation(f, names) ==
    IF f.streaming \/ Len(names) <= 1 THEN Built(Aggregation("merge", FALSE, "overwrite", 0))
    ELSE IF f.aggregation = <<>> THEN Panic
    ELSE initAggregation(f.aggregation[1], names)

compileFlow(f) ==
    LET names == [i \in DOMAIN f.upstreams |-> f.upstreams[i].name]
        agg == compileAggregation(f, names)
    IN  IF \E u \in ToSet(f.upstreams) : ~FilesLoad(u.tls) THEN Refused("tls")
        ELSE IF f.streaming /\ Len(names) # 1 THEN Refused("streaming")
        ELSE IF agg.outcome # "ok" THEN agg
        ELSE IF ~Loads(f.plugins) THEN Refused("plugin")
        ELSE IF ~Loads(f.middlewares) THEN Refused("middleware")
        ELSE Built([names |-> names, streaming |-> f.streaming, aggregation |-> agg.value])

\* registerFlows: chi keeps the last handler of a method and a path (external).
Key(f) == <<f.path, f.method>>
registerFlows(flows) ==
    [k \in {Key(f) : f \in ToSet(flows)} |->
        flows[SelectLastInSeq(flows, LAMBDA f : Key(f) = k)]]

\* NewRouter: the limiter always starts; a CIDR may not parse, and the first
\* flow that does not compile ends it.
NewRouter(cfg) ==
    LET bad == SelectInSeq(cfg.flows, LAMBDA f : compileFlow(f).outcome # "ok")
    IN  IF "junk" \in cfg.proxies THEN Refused("proxies")
        ELSE IF bad # 0 THEN compileFlow(cfg.flows[bad])
        ELSE Built(registerFlows(cfg.flows))

\* server.New: the router, then buildTLSConfig.
NewServer(cfg) ==
    LET router == NewRouter(cfg)
    IN  IF router.outcome # "ok" THEN router
        ELSE IF cfg.tls.enabled /\ cfg.clientAuth # "none" /\ cfg.tls.ca = Unset
        THEN Refused("client_ca")
        ELSE IF ~FilesLoad(cfg.tls) THEN Refused("tls")
        ELSE router

\* TLSRegistry.Dirs is not empty: runGateway starts the watcher.
NeedsWatcher(cfg) ==
    WatchesDirs(cfg.tls) \/ \E u \in Upstreams(cfg) : WatchesDirs(u.tls)
=============================================================================
