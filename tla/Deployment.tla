----------------------------- MODULE Deployment -----------------------------
(***************************************************************************)
(* An operator prepares the configuration file, exports and imports        *)
(* OpenAPI documents with aastroctl, and starts the gateway on the result: *)
(* module Server, whose start now depends on the file.                     *)
(*                                                                         *)
(* The file is what LoadConfig decodes, <<>> when there is none; the       *)
(* document is a file, too.  origin and imported are history: what the     *)
(* document was exported from, and what the file was imported from.        *)
(***************************************************************************)
EXTENDS Server, OpenAPI

CONSTANTS
    Configs,    \* what an operator may write into the file
    Documents,  \* documents that aastroctl did not write
    Hosts       \* for --server and --default-host

ASSUME ConfigsAssumption == \A c \in Configs : IsConfig(c)
ASSUME DocumentsAssumption == \A d \in Documents : IsDocument(d)

VARIABLES
    file,      \* the configuration file
    document,  \* the OpenAPI document
    origin,    \* <<>>, or the configuration the document was exported from
    imported   \* <<>>, or the import the file was written by

files == <<file, document, origin, imported>>
deploymentVars == <<vars, files>>

\* A host, or "" for a flag that is not given.
OptionalHosts == Hosts \union {Unset}
ImportOptions == [mode : {"proxy", "streaming"}, defaultHost : OptionalHosts]

DeploymentInit ==
    /\ Init
    /\ file = <<>> /\ document = <<>> /\ origin = <<>> /\ imported = <<>>

\* There is no process yet.
Preparing == main = "boot" /\ ~cancelled /\ UNCHANGED vars

\* The operator writes the file.
Edit ==
    /\ Preparing /\ file = <<>>
    /\ file' \in {<<c>> : c \in Configs}
    /\ UNCHANGED <<document, origin, imported>>

\* The operator gets a document from somewhere else.
Obtain ==
    /\ Preparing /\ document = <<>>
    /\ document' \in {<<d>> : d \in Documents}
    /\ UNCHANGED <<file, origin, imported>>

\* aastroctl openapi export; an error leaves no document.
Export ==
    /\ Preparing
    /\ \E extensions \in BOOLEAN, host \in OptionalHosts :
          LET servers == IF host = Unset THEN <<>> ELSE <<host>>
          IN  \E out \in ToSet(runOpenAPIExport(file, extensions, servers)) :
                 /\ document' = <<out.doc>>
                 /\ origin' = <<[cfg |-> LoadConfig(file)[1], extensions |-> extensions,
                                 warnings |-> out.warnings]>>
    /\ UNCHANGED <<file, imported>>

\* aastroctl openapi import, with --force or to a new file, which the gateway
\* is then started on; an error leaves the file alone.
Import ==
    /\ Preparing
    /\ \E options \in ImportOptions, d \in ToSet(document) :
          \E out \in ToSet(runOpenAPIImport(d, options)) :
             /\ file' = <<out.cfg>>
             /\ imported' = <<[from |-> origin, warnings |-> out.warnings]>>
    /\ UNCHANGED <<document, origin>>

\* runGateway on the file: 2 if it is refused, 1 if the server cannot be built
\* or something else fails (the logger, the exporters, the watcher); a panic
\* ends the process with 2.  The files are not looked at again.
Start ==
    /\ Boot
    /\ LET loaded == LoadConfig(file)
       IN  \/ loaded = <<>> /\ exitCode' = 2
           \/ \E cfg \in ToSet(loaded) :
                 LET outcome == NewServer(cfg).outcome
                 IN  \/ /\ outcome = "ok" /\ main' = "wait"
                        /\ watcher' = IF NeedsWatcher(cfg) THEN "running" ELSE "none"
                     \/ exitCode' = IF outcome = "panic" THEN 2 ELSE 1
    /\ file' = <<>> /\ document' = <<>> /\ origin' = <<>> /\ imported' = <<>>

DeploymentNext ==
    \/ Edit \/ Obtain \/ Export \/ Import \/ Start
    \/ (Shutdown \/ Background) /\ UNCHANGED files

DeploymentSpec == DeploymentInit /\ [][DeploymentNext]_deploymentVars

\* As in Server; the operator need not do anything but the process starts.
FairDeployment ==
    /\ DeploymentSpec
    /\ WF_deploymentVars(Start) /\ WF_deploymentVars(Shutdown /\ UNCHANGED files)
    /\ WF_deploymentVars(Expire /\ UNCHANGED files)
    /\ WF_deploymentVars(StartReturns /\ UNCHANGED files)
    /\ WF_deploymentVars(WatcherExits /\ UNCHANGED files)
    /\ \A s \in Servers : WF_deploymentVars(Listen(s) /\ UNCHANGED files)

-----------------------------------------------------------------------------
(* Properties.  They speak of the file the operator has at any time. *)

\* What the imported file was exported from.
ImportedFrom == IF imported = <<>> THEN {} ELSE ToSet(imported[1].from)

\* Names that pruneZeroNodes takes for zero values: such a file is broken.
ZeroNamed(f) ==
    \/ \E u \in ToSet(f.upstreams) : isZeroNode(u.name)
    \/ \E a \in ToSet(f.aggregation) : \E c \in ToSet(a.onConflict) :
          c.policy = "prefer" /\ isZeroNode(c.upstream)

NamedZero(cfg) == \E f \in ToSet(cfg.flows) : ZeroNamed(f)

\* A flow as it comes back: without what documents never store (plugins,
\* middlewares, the certificates of an upstream and how they are checked,
\* transport.http2), and without the texts that read as zero: an upstream's
\* method, path and load balancing mode, and the name of a preferred upstream
\* that no policy uses.
RestoredUpstream(u) ==
    [u EXCEPT !.target = kept(@), !.policy = prunePolicy(@),
              !.tls = [NoTLS EXCEPT !.enabled = u.tls.enabled], !.transport.http2 = "auto"]

Restored(f) ==
    [f EXCEPT !.plugins = <<>>, !.middlewares = <<>>,
              !.aggregation = [i \in DOMAIN @ |-> pruneAggregation(@[i])],
              !.upstreams = [i \in DOMAIN @ |-> RestoredUpstream(@[i])]]

(***************************************************************************)
(* "Documents produced by openapi export --extensions are reconstructed    *)
(* losslessly: flows, aggregation, upstreams, policy, and transport"       *)
(* (CHANGELOG.md:148-150).  What FromConfig, the document, ToConfig,       *)
(* pruneZeroNodes and LoadConfig make of a configuration is exactly this:  *)
(* a file that does not load if a name in a flow the document keeps reads  *)
(* as zero, and otherwise those flows as Restored has them, one for each   *)
(* method and path.  So the sentence does not hold: transport.http2, which *)
(* transportExtension (export.go:697) does not store, and every text       *)
(* isZeroNode takes for a zero value are lost; retries, breakers,          *)
(* durations, aggregation and everything else come back.                   *)
(***************************************************************************)
RoundTrip ==
    \A o \in ImportedFrom : o.extensions =>
        LET stored == FirstOfKey(o.cfg.flows) IN
        IF \E f \in stored : ZeroNamed(f)
        THEN LoadConfig(file) = <<>>
        ELSE /\ LoadConfig(file) # <<>>
             /\ ToSet(LoadConfig(file)[1].flows) = {Restored(f) : f \in stored}

\* What the import says of a flow that was exported.
Reported(f) ==
    When(f.plugins # <<>>, Warning(Key(f), Unset, "plugins"))
    \union When(f.middlewares # <<>>, Warning(Key(f), Unset, "middlewares"))
    \union {Warning(Key(f), u.name, "tls") : u \in {v \in ToSet(f.upstreams) : v.tls.enabled}}

(***************************************************************************)
(* Exactly what the operator is told of the losses of a round trip: of     *)
(* plugins, middlewares and the certificate files of an upstream by        *)
(* reconstructFlow, of a second flow of the same method and path by        *)
(* attachOperation, and without --extensions of everything by the warning  *)
(* on the document.  No other warning is about a flow that was exported,   *)
(* so what else Restored takes away goes without a word: transport.http2   *)
(* and the texts that read as zero, and a file that does not load because  *)
(* of them.                                                                *)
(***************************************************************************)
ReportedLosses ==
    \A o \in ImportedFrom :
        LET warnings == imported[1].warnings IN
        /\ ~o.extensions => Warning(<<>>, Unset, "extensions") \in warnings
        /\ o.extensions =>
              \A f \in FirstOfKey(o.cfg.flows) : {w \in warnings : w.flow = Key(f)} = Reported(f)
        /\ \A f \in ToSet(o.cfg.flows) \ FirstOfKey(o.cfg.flows) :
              Warning(Key(f), Unset, "duplicate") \in o.warnings

\* A fan-out that prefers an upstream it does not have.
MissingPreferred(f) ==
    /\ ~f.streaming /\ Len(f.upstreams) > 1
    /\ \E a \in ToSet(f.aggregation) : a.strategy = "merge"
          /\ \E c \in ToSet(a.onConflict) : c.policy = "prefer"
                /\ c.upstream \notin {u.name : u \in ToSet(f.upstreams)}

(***************************************************************************)
(* "Import validates its own output - it never emits a config the gateway  *)
(* would reject" (README.md:207-208).  When the gateway accepts what an    *)
(* import wrote, exactly: LoadConfig refuses the file if and only if       *)
(* pruneZeroNodes, which runs after the validation, took a name away, and  *)
(* the server is not built from a file that loads if and only if a         *)
(* preferred upstream is not there, which ValidateConfig does not look at. *)
(* These are the two cases in which the sentence does not hold.            *)
(***************************************************************************)
ImportAccepted ==
    imported # <<>> =>
        LET loaded == LoadConfig(file) IN
        /\ loaded = <<>> <=> NamedZero(file[1])
        /\ loaded # <<>> =>
              LET server == NewServer(loaded[1])
              IN  IF \E f \in ToSet(loaded[1].flows) : MissingPreferred(f)
                  THEN server.outcome = "error" /\ server.why = "preferred"
                  ELSE server.outcome = "ok"

(***************************************************************************)
(* ValidateConfig checks what compileFlow and initAggregation rely on:     *)
(* building the flows of a configuration that loads never follows a nil    *)
(* pointer (compileFlow dereferences Aggregation, compileConflictPolicy    *)
(* OnConflict), every flow it builds is one the request path can serve,    *)
(* and it refuses only what is outside the file or a preferred upstream    *)
(* that is not there.                                                      *)
(***************************************************************************)
CompilesOrRefuses ==
    \A cfg \in ToSet(LoadConfig(file)) : \A f \in ToSet(cfg.flows) :
        LET flow == compileFlow(f)
        IN  \/ flow.outcome = "ok" /\ IsFlow(flow.value)
            \/ flow.outcome = "error"
                  /\ flow.why \in {"tls", "plugin", "middleware", "preferred"}
=============================================================================
