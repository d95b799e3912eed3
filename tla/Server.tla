------------------------------- MODULE Server -------------------------------
(***************************************************************************)
(* The life of the process: runGateway (cmd/aastro/run.go) and the Start   *)
(* and Stop of internal/server/server.go.                                  *)
(*                                                                         *)
(* Goroutines: main, the two of Start's errgroup (one per http.Server),    *)
(* the one that runs Start, the certificate watcher, and one per request.  *)
(* net/http, errgroup and signal.NotifyContext are external: a server's    *)
(* ListenAndServe fails, serves, or ends with ErrServerClosed once         *)
(* Shutdown was called; Shutdown closes the listener and then waits for    *)
(* the requests or for its context.  Admin requests are short and left     *)
(* out.                                                                    *)
(***************************************************************************)
EXTENDS Naturals, FiniteSets

CONSTANTS
    Requests,        \* requests in flight on the data port, at most
    MayFailToListen  \* a listener may fail: port in use, Accept error

ASSUME ServerAssumption ==
    IsFiniteSet(Requests) /\ MayFailToListen \in BOOLEAN

VARIABLES
    main,           \* where runGateway is
    listener,       \* the two http.Servers
    stopping,       \* the servers Shutdown was called for
    inflight,       \* requests being served on the data port
    cancelled,      \* the signal context is done
    shuttingDown,   \* Server.shuttingDown, what /__ready looks at
    expired,        \* the shutdown context has timed out
    routerClosed,   \* Router.Close ran
    providersDown,  \* the observability providers are shut down
    serverErrCh,    \* what Start returned: "none" until it did
    watcher,        \* the certificate watcher's goroutine
    exitCode        \* of the process

vars == <<main, listener, stopping, inflight, cancelled, shuttingDown, expired,
          routerClosed, providersDown, serverErrCh, watcher, exitCode>>

Servers == {"data", "admin"}

MainPCs == {"boot", "wait", "stop", "drain_data", "drain_admin", "close_router",
            "shutdown_providers", "receive", "join_watcher", "exit"}

Init ==
    /\ main = "boot"
    /\ listener = [s \in Servers |-> "new"]
    /\ stopping = {} /\ inflight = {}
    /\ cancelled = FALSE /\ shuttingDown = FALSE /\ expired = FALSE
    /\ routerClosed = FALSE /\ providersDown = FALSE
    /\ serverErrCh = "none"
    /\ watcher = "none"
    /\ exitCode = 0

Goto(from, to) == main = from /\ main' = to

-----------------------------------------------------------------------------
(* The servers *)

\* ListenAndServe: it serves, cannot, or finds that Shutdown came first.
Listen(s) ==
    /\ main \notin {"boot", "exit"} /\ listener[s] = "new"
    /\ \/ s \notin stopping /\ listener' = [listener EXCEPT ![s] = "serving"]
       \/ s \notin stopping /\ MayFailToListen /\ listener' = [listener EXCEPT ![s] = "failed"]
       \/ s \in stopping /\ listener' = [listener EXCEPT ![s] = "closed"]
    /\ UNCHANGED <<main, stopping, inflight, cancelled, shuttingDown, expired,
                   routerClosed, providersDown, serverErrCh, watcher, exitCode>>

\* Serve returns an error of the listener.
ServeFails(s) ==
    /\ MayFailToListen /\ main # "exit" /\ listener[s] = "serving"
    /\ listener' = [listener EXCEPT ![s] = "failed"]
    /\ UNCHANGED <<main, stopping, inflight, cancelled, shuttingDown, expired,
                   routerClosed, providersDown, serverErrCh, watcher, exitCode>>

\* Start: g.Wait returns when both servers have; an error cancels the context.
StartReturns ==
    /\ serverErrCh = "none"
    /\ \A s \in Servers : listener[s] \in {"failed", "closed"}
    /\ \/ /\ \E s \in Servers : listener[s] = "failed"
          /\ serverErrCh' = "error" /\ cancelled' = TRUE
       \/ /\ \A s \in Servers : listener[s] # "failed"
          /\ serverErrCh' = "nil" /\ UNCHANGED cancelled
    /\ UNCHANGED <<main, listener, stopping, inflight, shuttingDown, expired,
                   routerClosed, providersDown, watcher, exitCode>>

Arrive(r) ==
    /\ main # "exit" /\ listener["data"] = "serving" /\ r \notin inflight
    /\ inflight' = inflight \union {r}
    /\ UNCHANGED <<main, listener, stopping, cancelled, shuttingDown, expired,
                   routerClosed, providersDown, serverErrCh, watcher, exitCode>>

Finish(r) ==
    /\ main # "exit" /\ r \in inflight
    /\ inflight' = inflight \ {r}
    /\ UNCHANGED <<main, listener, stopping, cancelled, shuttingDown, expired,
                   routerClosed, providersDown, serverErrCh, watcher, exitCode>>

\* SIGINT or SIGTERM.
Signal ==
    /\ main # "exit" /\ ~cancelled
    /\ cancelled' = TRUE
    /\ UNCHANGED <<main, listener, stopping, inflight, shuttingDown, expired,
                   routerClosed, providersDown, serverErrCh, watcher, exitCode>>

\* The watcher's Run sees the context done and stops its timers.
WatcherExits ==
    /\ watcher = "running" /\ cancelled
    /\ watcher' = "stopped"
    /\ UNCHANGED <<main, listener, stopping, inflight, cancelled, shuttingDown, expired,
                   routerClosed, providersDown, serverErrCh, exitCode>>

-----------------------------------------------------------------------------
(* main *)

\* LoadConfig (2 if it fails), then the logger, server.New and the watcher's
\* set-up (1 if one fails).  Module Deployment says when, and when there is
\* something to watch.
Boot ==
    /\ \/ /\ Goto("boot", "wait")
          /\ watcher' \in {"none", "running"}
          /\ UNCHANGED exitCode
       \/ Goto("boot", "exit") /\ exitCode' \in {1, 2} /\ UNCHANGED watcher
    /\ UNCHANGED <<listener, stopping, inflight, cancelled, shuttingDown, expired,
                   routerClosed, providersDown, serverErrCh>>

\* Shutdown closes the listener of a server: its ListenAndServe returns.
CloseListener(s) ==
    /\ stopping' = stopping \union {s}
    /\ listener' = [listener EXCEPT ![s] = IF @ = "serving" THEN "closed" ELSE @]

\* Mutant of BeginStop: the flag is not set first.
BeginStopMutReady ==
    /\ Goto("wait", "stop") /\ cancelled
    /\ UNCHANGED <<listener, stopping, inflight, cancelled, shuttingDown, expired,
                   routerClosed, providersDown, serverErrCh, watcher, exitCode>>

\* <-ctx.Done(), then Stop stores the flag.
BeginStop ==
    /\ Goto("wait", "stop") /\ cancelled
    /\ shuttingDown' = TRUE
    /\ UNCHANGED <<listener, stopping, inflight, cancelled, expired, routerClosed,
                   providersDown, serverErrCh, watcher, exitCode>>

\* Shutdown of the data server closes its listener.
ShutdownData ==
    /\ Goto("stop", "drain_data")
    /\ CloseListener("data")
    /\ UNCHANGED <<inflight, cancelled, shuttingDown, expired, routerClosed,
                   providersDown, serverErrCh, watcher, exitCode>>

\* shutdownTimeout passes.
Expire ==
    /\ main \in {"stop", "drain_data", "drain_admin", "close_router", "shutdown_providers"}
    /\ ~expired
    /\ expired' = TRUE
    /\ UNCHANGED <<main, listener, stopping, inflight, cancelled, shuttingDown,
                   routerClosed, providersDown, serverErrCh, watcher, exitCode>>

\* Mutant of DrainData: Shutdown gets a context without a deadline.
DrainDataMutForever ==
    /\ Goto("drain_data", "drain_admin") /\ inflight = {}
    /\ CloseListener("admin")
    /\ UNCHANGED <<inflight, cancelled, shuttingDown, expired, routerClosed,
                   providersDown, serverErrCh, watcher, exitCode>>

\* Mutant of DrainData: Close instead of Shutdown.
DrainDataMutClose ==
    /\ Goto("drain_data", "drain_admin")
    /\ CloseListener("admin")
    /\ UNCHANGED <<inflight, cancelled, shuttingDown, expired, routerClosed,
                   providersDown, serverErrCh, watcher, exitCode>>

\* The data server's Shutdown returns: no request is left, or time is up.
DrainData ==
    /\ Goto("drain_data", "drain_admin") /\ (inflight = {} \/ expired)
    /\ CloseListener("admin")
    /\ UNCHANGED <<inflight, cancelled, shuttingDown, expired, routerClosed,
                   providersDown, serverErrCh, watcher, exitCode>>

DrainAdmin ==
    /\ Goto("drain_admin", "close_router")
    /\ UNCHANGED <<listener, stopping, inflight, cancelled, shuttingDown, expired,
                   routerClosed, providersDown, serverErrCh, watcher, exitCode>>

CloseRouter ==
    /\ Goto("close_router", "shutdown_providers")
    /\ routerClosed' = TRUE
    /\ UNCHANGED <<listener, stopping, inflight, cancelled, shuttingDown, expired,
                   providersDown, serverErrCh, watcher, exitCode>>

ShutdownProviders ==
    /\ Goto("shutdown_providers", "receive")
    /\ providersDown' = TRUE
    /\ UNCHANGED <<listener, stopping, inflight, cancelled, shuttingDown, expired,
                   routerClosed, serverErrCh, watcher, exitCode>>

\* Mutant of Receive: the error of Start is logged and forgotten.
ReceiveMutCode ==
    /\ Goto("receive", "join_watcher") /\ serverErrCh # "none"
    /\ UNCHANGED <<listener, stopping, inflight, cancelled, shuttingDown, expired,
                   routerClosed, providersDown, serverErrCh, watcher, exitCode>>

\* srvErr := <-serverErrCh; it decides the exit code.
Receive ==
    /\ Goto("receive", "join_watcher") /\ serverErrCh # "none"
    /\ exitCode' = IF serverErrCh = "error" THEN 1 ELSE 0
    /\ UNCHANGED <<listener, stopping, inflight, cancelled, shuttingDown, expired,
                   routerClosed, providersDown, serverErrCh, watcher>>

Exit ==
    /\ Goto("join_watcher", "exit") /\ watcher # "running"
    /\ UNCHANGED <<listener, stopping, inflight, cancelled, shuttingDown, expired,
                   routerClosed, providersDown, serverErrCh, watcher, exitCode>>

\* runGateway after the start.
Shutdown ==
    \/ BeginStop \/ ShutdownData \/ DrainData \/ DrainAdmin \/ CloseRouter
    \/ ShutdownProviders \/ Receive \/ Exit

\* Everything that runs beside it.
Background ==
    \/ StartReturns \/ WatcherExits \/ Expire \/ Signal
    \/ \E s \in Servers : Listen(s) \/ ServeFails(s)
    \/ \E r \in Requests : Arrive(r) \/ Finish(r)

Next == Boot \/ Shutdown \/ Background

Spec == Init /\ [][Next]_vars

\* Goroutines are scheduled and deadlines pass; requests may take for ever.
FairSpec ==
    /\ Spec
    /\ WF_vars(Boot) /\ WF_vars(Shutdown) /\ WF_vars(Expire)
    /\ WF_vars(StartReturns) /\ WF_vars(WatcherExits)
    /\ \A s \in Servers : WF_vars(Listen(s))

-----------------------------------------------------------------------------
TypeOK ==
    /\ main \in MainPCs
    /\ listener \in [Servers -> {"new", "serving", "failed", "closed"}]
    /\ stopping \subseteq Servers /\ inflight \subseteq Requests
    /\ cancelled \in BOOLEAN /\ shuttingDown \in BOOLEAN /\ expired \in BOOLEAN
    /\ routerClosed \in BOOLEAN /\ providersDown \in BOOLEAN
    /\ serverErrCh \in {"none", "nil", "error"}
    /\ watcher \in {"none", "running", "stopped"}
    /\ exitCode \in {0, 1, 2}

(***************************************************************************)
(* "Order matters: HTTP first so no in-flight request writes to a provider *)
(* that is already shutting down" (server.go:109-111): while the deadline  *)
(* has not passed, requests are gone before the router's middlewares and   *)
(* the providers are closed.                                               *)
(***************************************************************************)
DrainedBeforeClose ==
    (routerClosed \/ providersDown) /\ ~expired => inflight = {}

(***************************************************************************)
(* "/__ready returns ... 503 once graceful shutdown begins", so that an    *)
(* orchestrator stops routing before the data port stops accepting         *)
(* (CHANGELOG.md:333-336): a data port closed on purpose is never ready,   *)
(* and a server that was shut down is never serving.                       *)
(***************************************************************************)
NotReadyWhenClosed ==
    /\ listener["data"] = "closed" => shuttingDown
    /\ \A s \in stopping : listener[s] # "serving"

(***************************************************************************)
(* The exit code tells what happened: a process that was started and ends  *)
(* with 0 had no listener fail, and with 1 had one.                        *)
(***************************************************************************)
ExitCodeTells ==
    main = "exit" /\ serverErrCh # "none" =>
        (exitCode = 1 <=> \E s \in Servers : listener[s] = "failed")

\* A signal ends the process, even if requests never end: Shutdown's deadline,
\* Start's errgroup and the watcher's join never wait for one another.
SignalEnds == cancelled ~> (main = "exit")

(***************************************************************************)
(* "/__ready ... returns 200 while the gateway is accepting traffic"       *)
(* (CHANGELOG.md:333): with the admin port up and the flag not set, the    *)
(* data port has not failed.                                               *)
(***************************************************************************)
ReadyMeansAccepting ==
    listener["admin"] = "serving" /\ ~shuttingDown => listener["data"] # "failed"
=============================================================================
