------------------------------ MODULE Upstream ------------------------------
(***************************************************************************)
(* One upstream of the gateway and the requests calling it concurrently:   *)
(* httpUpstream.call and everything below it in upstream.go (retries,      *)
(* circuit breaker, load balancing, the HTTP attempt, response policy).    *)
(*                                                                         *)
(* A caller is a goroutine that executes call(); it is cut into steps at   *)
(* every access to state it shares with the others (the breaker's mutex,   *)
(* the atomic connection counters and host index, its request's context)   *)
(* and at every wait for the outside world.  Metrics are left out.  Steps  *)
(* of different callers interleave freely.  When a call is over its slot   *)
(* starts another one, so a behaviour is an endless stream of requests.    *)
(*                                                                         *)
(* Outside world (external): the upstream server and the network decide    *)
(* what client.Do and the body read return; the client decides when to     *)
(* disconnect (Cancel), which cancels the request's context.               *)
(***************************************************************************)
EXTENDS CircuitBreaker, UpstreamErrors, FiniteSets

CONSTANTS
    Callers,          \* concurrent calls in progress, at most
    HostCount,        \* number of configured hosts
    LbModes,          \* load balancing modes, out of AllLbModes
    IdxModulus,       \* width of the round-robin counter: 2^64 in the code
    BreakerModes,     \* load balancing modes of the upstreams that have
                      \* circuit_breaker.enabled
    MaxRetries,       \* retry.max_retries
    RetryOnStatuses,  \* retry.retry_on_statuses
    Backoff,          \* retry.backoff_delay > 0
    RequireBody,      \* policy.require_body
    LimitBody,        \* policy.max_response_body_size > 0
    Methods,          \* effective methods of the calls
    Statuses,         \* statuses the upstream may answer with
    Bodies,           \* sizes of its bodies, out of BodySizes
    MayCancel,        \* clients may disconnect
    MayBreakRequest,  \* newRequest may fail (a path or host that is no URL)
    MayStall          \* the upstream may stop in the middle of a body

\* "" is an upstream without a load_balancing block.
AllLbModes == {"round_robin", "least_conns", ""}

BodySizes == {"empty", "fits", "too_large"}

ASSUME CallersAssumption == IsFiniteSet(Callers)
ASSUME HostCountAssumption == HostCount \in Nat \ {0}
ASSUME LbModesAssumption == LbModes \subseteq AllLbModes
ASSUME BreakerModesAssumption == BreakerModes \subseteq LbModes
ASSUME IdxAssumption == IdxModulus \in Nat \ {0}
ASSUME RetriesAssumption == MaxRetries \in Nat
ASSUME StatusesAssumption == Statuses \subseteq 100 .. 599
ASSUME BodiesAssumption == Bodies \subseteq BodySizes
ASSUME FlagsAssumption ==
    /\ Backoff \in BOOLEAN
    /\ RequireBody \in BOOLEAN    /\ LimitBody \in BOOLEAN
    /\ MayCancel \in BOOLEAN      /\ MayBreakRequest \in BOOLEAN
    /\ MayStall \in BOOLEAN

VARIABLES
    pc,                 \* where each caller is
    method,             \* the effective method of its call
    attempt,            \* callWithRetry's loop variable
    resp,               \* the response it holds: error kind, status, body
    host,               \* the host selected for the attempt
    scan,               \* selectHost's least_conns loop
    cancelled,          \* the client of the call has disconnected
    lbMode,             \* upstreamConfig.lbMode, fixed when it is built
    currentHostIdx,     \* upstreamState.currentHostIdx
    activeConnections,  \* upstreamState.activeConnections
    picks,              \* history: round-robin picks of each host, less the
                        \* number of picks every host has had
    sends               \* history: attempts of the call that were sent

callVars  == <<pc, method, attempt, resp, host, scan, cancelled, sends>>
stateVars == <<lbMode, currentHostIdx, activeConnections, picks>>
vars == <<breakerVars, callVars, stateVars>>

Hosts == 0 .. HostCount - 1

\* circuit_breaker.enabled of this upstream; like lbMode it is configuration.
BreakerEnabled == lbMode \in BreakerModes

\* math.MaxInt64 of the least_conns loop: above every count it can load.
MaxConns == Cardinality(Callers) + 1

NoScan == [next |-> 0, min |-> MaxConns, selected |-> 0, quiet |-> TRUE]

Response(kind, status, body) == [kind |-> kind, status |-> status, body |-> body]
Failed(kind) == Response(kind, 0, "empty")

PCs == {"idle", "check", "allow", "select", "scan",
        "acquire", "send", "await", "read", "release", "backoff", "report", "done"}

Init ==
    /\ BreakerInit
    /\ pc = [c \in Callers |-> "idle"]
    /\ method \in [Callers -> Methods]
    /\ attempt = [c \in Callers |-> 0]
    /\ resp = [c \in Callers |-> Failed(NoError)]
    /\ host = [c \in Callers |-> 0]
    /\ scan = [c \in Callers |-> NoScan]
    /\ cancelled = [c \in Callers |-> FALSE]
    /\ sends = [c \in Callers |-> 0]
    /\ lbMode \in LbModes
    /\ currentHostIdx = 0
    /\ activeConnections = [h \in Hosts |-> 0]
    /\ picks = [h \in Hosts |-> 0]

Goto(c, from, to) == pc[c] = from /\ pc' = [pc EXCEPT ![c] = to]
Return(c, r) == resp' = [resp EXCEPT ![c] = r]

-----------------------------------------------------------------------------
(* callWithRetry *)

\* A request arrives and call() is entered.
Begin(c) ==
    /\ Goto(c, "idle", "check")
    /\ \E m \in Methods : method' = [method EXCEPT ![c] = m]
    /\ UNCHANGED <<breakerVars, attempt, resp, host, scan, cancelled,
                   sends, stateVars>>

\* The client disconnects while its request is being served.
Cancel(c) ==
    /\ MayCancel
    /\ pc[c] \notin {"idle", "done"} /\ ~cancelled[c]
    /\ cancelled' = [cancelled EXCEPT ![c] = TRUE]
    /\ UNCHANGED <<breakerVars, pc, method, attempt, resp, host, scan,
                   sends, stateVars>>

\* Top of the loop: a cancelled context ends the call.
CheckContext(c) ==
    /\ \/ ~cancelled[c] /\ Goto(c, "check", "allow") /\ UNCHANGED resp
       \/ /\ cancelled[c] /\ Goto(c, "check", "report")
          /\ Return(c, Failed("canceled"))
    /\ UNCHANGED <<breakerVars, method, attempt, host, scan, cancelled,
                   sends, stateVars>>

\* Mutant of Admit: a denied call waits for the breaker instead of failing.
AdmitMutWait(c) ==
    /\ \/ /\ ~BreakerEnabled
          /\ Goto(c, "allow", "select")
          /\ UNCHANGED breakerVars
       \/ /\ BreakerEnabled
          /\ Allow(TRUE)
          /\ Goto(c, "allow", "select")
       \/ /\ BreakerEnabled
          /\ Allow(FALSE)
          /\ Goto(c, "allow", "check")
    /\ UNCHANGED <<method, attempt, resp, host, scan, cancelled, sends,
                   stateVars>>

\* The breaker, when there is one, is asked before every attempt.
Admit(c) ==
    /\ \/ /\ ~BreakerEnabled
          /\ Goto(c, "allow", "select")
          /\ UNCHANGED <<breakerVars, resp>>
       \/ /\ BreakerEnabled
          /\ Allow(TRUE)
          /\ Goto(c, "allow", "select")
          /\ UNCHANGED resp
       \/ /\ BreakerEnabled
          /\ Allow(FALSE)
          /\ Goto(c, "allow", "report")
          /\ Return(c, Failed("circuit_open"))
    /\ UNCHANGED <<method, attempt, host, scan, cancelled, sends,
                   stateVars>>

-----------------------------------------------------------------------------
(* doCall: selectHost *)

\* A single host, or no mode at all: host 0.
SelectOnly(c) ==
    /\ HostCount = 1 \/ lbMode \notin {"round_robin", "least_conns"}
    /\ Goto(c, "select", "acquire")
    /\ host' = [host EXCEPT ![c] = 0]
    /\ UNCHANGED <<breakerVars, method, attempt, resp, scan, cancelled,
                   sends, stateVars>>

\* history: one more pick of h
Picked(h) ==
    LET p == [picks EXCEPT ![h] = @ + 1]
    IN  IF \A g \in Hosts : p[g] > 0 THEN [g \in Hosts |-> p[g] - 1] ELSE p

\* Mutant of SelectRoundRobin: the index is loaded, and stored by another step.
SelectRoundRobinMutLost(c) ==
    /\ HostCount > 1 /\ lbMode = "round_robin"
    /\ Goto(c, "select", "acquire")
    /\ host' = [host EXCEPT ![c] = ((currentHostIdx + 1) % IdxModulus) % HostCount]
    /\ picks' = Picked(host'[c])
    /\ \E stored \in {currentHostIdx, (currentHostIdx + 1) % IdxModulus} :
          currentHostIdx' = stored
    /\ UNCHANGED <<breakerVars, method, attempt, resp, scan, cancelled,
                   sends, lbMode, activeConnections>>

\* One atomic increment, and the host is the new value modulo the hosts.
SelectRoundRobin(c) ==
    /\ HostCount > 1 /\ lbMode = "round_robin"
    /\ Goto(c, "select", "acquire")
    /\ currentHostIdx' = (currentHostIdx + 1) % IdxModulus
    /\ host' = [host EXCEPT ![c] = currentHostIdx' % HostCount]
    /\ picks' = Picked(host'[c])
    /\ UNCHANGED <<breakerVars, method, attempt, resp, scan, cancelled,
                   sends, lbMode, activeConnections>>

\* The least_conns loop loads the counters one by one.
StartScan(c) ==
    /\ HostCount > 1 /\ lbMode = "least_conns"
    /\ Goto(c, "select", "scan")
    /\ scan' = [scan EXCEPT ![c] = NoScan]
    /\ UNCHANGED <<breakerVars, method, attempt, resp, host, cancelled,
                   sends, stateVars>>

\* Mutant of ScanStep: the minimum is never lowered.
ScanStepMutMin(s) ==
    LET conns == activeConnections[s.next]
    IN  [s EXCEPT !.next = s.next + 1,
                  !.selected = IF conns < s.min THEN s.next ELSE s.selected]

\* One load; a host is preferred when it has strictly fewer connections.
ScanStep(s) ==
    LET conns == activeConnections[s.next]
    IN  [s EXCEPT !.next = s.next + 1,
                  !.min = IF conns < s.min THEN conns ELSE s.min,
                  !.selected = IF conns < s.min THEN s.next ELSE s.selected]

ScanHost(c) ==
    /\ scan[c].next < HostCount
    /\ Goto(c, "scan", "scan")
    /\ scan' = [scan EXCEPT ![c] = ScanStep(scan[c])]
    /\ UNCHANGED <<breakerVars, method, attempt, resp, host, cancelled,
                   sends, stateVars>>

EndScan(c) ==
    /\ scan[c].next = HostCount
    /\ Goto(c, "scan", "acquire")
    /\ host' = [host EXCEPT ![c] = scan[c].selected]
    /\ UNCHANGED <<breakerVars, method, attempt, resp, scan, cancelled,
                   sends, stateVars>>

-----------------------------------------------------------------------------
(* doCall: the attempt *)

\* selectHost's locals are gone once c holds its host.  quiet is history: the
\* scans other callers have under way saw a counter change under them.
Disturb(c) ==
    [d \in Callers |->
        IF d = c THEN NoScan
        ELSE [scan[d] EXCEPT !.quiet = @ /\ pc[d] \notin {"scan", "acquire"}]]

\* The connection is counted in least_conns mode only.
CountConnection(c, delta) ==
    IF lbMode = "least_conns"
    THEN /\ activeConnections' = [activeConnections EXCEPT ![host[c]] = @ + delta]
         /\ scan' = Disturb(c)
    ELSE UNCHANGED <<activeConnections, scan>>

Acquire(c) ==
    /\ Goto(c, "acquire", "send")
    /\ CountConnection(c, 1)
    /\ UNCHANGED <<breakerVars, method, attempt, resp, host, cancelled,
                   sends, lbMode, currentHostIdx, picks>>

\* Mutant of Send: the error return gives no connection back.
SendMutLeak(c) ==
    /\ \/ /\ Goto(c, "send", "await")
          /\ sends' = [sends EXCEPT ![c] = @ + 1]
          /\ UNCHANGED resp
       \/ /\ MayBreakRequest
          /\ Goto(c, "send", "report")
          /\ Return(c, Failed("internal"))
          /\ UNCHANGED sends
    /\ UNCHANGED <<breakerVars, method, attempt, host, scan, cancelled,
                   stateVars>>

\* newRequest, then client.Do puts the request on the wire.
Send(c) ==
    /\ \/ /\ Goto(c, "send", "await")
          /\ sends' = [sends EXCEPT ![c] = @ + 1]
          /\ UNCHANGED resp
       \/ /\ MayBreakRequest
          /\ Goto(c, "send", "release")
          /\ Return(c, Failed("internal"))
          /\ UNCHANGED sends
    /\ UNCHANGED <<breakerVars, method, attempt, host, scan, cancelled,
                   stateVars>>

\* classifyDoError: what Do's error says.  The attempt's own deadline gives
\* DeadlineExceeded, a disconnected client Canceled, the rest is connection.
classifyDoError(c) ==
    {"timeout", "connection"} \union (IF cancelled[c] THEN {"canceled"} ELSE {})

\* client.Do returns: an error, or a response whose body is still to be read.
Await(c) ==
    /\ \/ \E kind \in classifyDoError(c) :
            /\ Goto(c, "await", "release")
            /\ Return(c, Failed(kind))
       \/ \E status \in Statuses :
            /\ Goto(c, "await", "read")
            /\ Return(c, Response(NoError, status, "empty"))
    /\ UNCHANGED <<breakerVars, method, attempt, host, scan, cancelled,
                   sends, stateVars>>

\* readBody on a failing body: the attempt's context has ended, because the
\* client is gone or because the upstream's timeout expired during the read,
\* or it has not.
readErrorKinds(c) ==
    CASE cancelled[c]               -> {"canceled"}
      [] ~cancelled[c] /\ MayStall  -> {"canceled", "read_error"}
      [] ~cancelled[c] /\ ~MayStall -> {"read_error"}

\* readBody on a complete body, then classifyStatus.
readResponse(status, body) ==
    IF body = "too_large" /\ LimitBody
    THEN Response("body_too_large", status, "empty")
    ELSE Response(classifyStatus(status), status, body)

ReadBody(c) ==
    /\ Goto(c, "read", "release")
    /\ \/ \E body \in Bodies : Return(c, readResponse(resp[c].status, body))
       \/ \E kind \in readErrorKinds(c) :
            Return(c, Response(kind, resp[c].status, "empty"))
    /\ UNCHANGED <<breakerVars, method, attempt, host, scan, cancelled,
                   sends, stateVars>>

-----------------------------------------------------------------------------
(* After the attempt *)

\* Mutant of Retries: one attempt too many.
RetriesMutBound(c) ==
    /\ attempt[c] <= MaxRetries
    /\ shouldRetry(method[c], resp[c].kind, resp[c].status, RetryOnStatuses)

Retries(c) ==
    /\ attempt[c] < MaxRetries
    /\ shouldRetry(method[c], resp[c].kind, resp[c].status, RetryOnStatuses)

\* doCall returns, giving its connection back, and the loop goes on or ends.
Release(c) ==
    /\ CountConnection(c, -1)
    /\ \/ /\ Retries(c) /\ Backoff
          /\ Goto(c, "release", "backoff")
          /\ UNCHANGED attempt
       \/ /\ Retries(c) /\ ~Backoff
          /\ Goto(c, "release", "check")
          /\ attempt' = [attempt EXCEPT ![c] = @ + 1]
       \/ /\ ~Retries(c)
          /\ Goto(c, "release", "report")
          /\ UNCHANGED attempt
    /\ UNCHANGED <<breakerVars, method, resp, host, cancelled, sends,
                   lbMode, currentHostIdx, picks>>

\* The select over the backoff timer and the context.
EndBackoff(c) ==
    /\ \/ /\ Goto(c, "backoff", "check")
          /\ attempt' = [attempt EXCEPT ![c] = @ + 1]
          /\ UNCHANGED resp
       \/ /\ cancelled[c]
          /\ Goto(c, "backoff", "report")
          /\ Return(c, Failed("canceled"))
          /\ UNCHANGED attempt
    /\ UNCHANGED <<breakerVars, method, host, scan, cancelled, sends,
                   stateVars>>

\* updateCircuitBreaker: the outcome of the call as a whole.
updateCircuitBreaker(kind) ==
    CASE breakerOutcomeFor(kind) = "failure"   -> OnFailure
      [] breakerOutcomeFor(kind) = "success"   -> OnSuccess
      [] breakerOutcomeFor(kind) = "no_signal" -> UNCHANGED breakerVars

applyPolicy(r) ==
    [r EXCEPT !.kind = policyKind(r.kind, r.body = "empty", RequireBody)]

\* The breaker is updated before the policy is applied; applyPolicy changes
\* only the caller's own response.
Report(c) ==
    /\ Goto(c, "report", "done")
    /\ \/ BreakerEnabled /\ updateCircuitBreaker(resp[c].kind)
       \/ ~BreakerEnabled /\ UNCHANGED breakerVars
    /\ Return(c, applyPolicy(resp[c]))
    /\ UNCHANGED <<method, attempt, host, scan, cancelled, sends,
                   stateVars>>

-----------------------------------------------------------------------------
\* call() returns its response to the scatter and the slot is free again.
Finish(c) ==
    /\ Goto(c, "done", "idle")
    /\ attempt' = [attempt EXCEPT ![c] = 0]
    /\ cancelled' = [cancelled EXCEPT ![c] = FALSE]
    /\ sends' = [sends EXCEPT ![c] = 0]
    /\ host' = [host EXCEPT ![c] = 0]
    /\ Return(c, Failed(NoError))
    /\ UNCHANGED <<breakerVars, method, scan, stateVars>>

Select(c) ==
    \/ SelectOnly(c) \/ SelectRoundRobin(c)
    \/ StartScan(c) \/ ScanHost(c) \/ EndScan(c)

\* A step of the caller's goroutine or of what it waits for.
Advance(c) ==
    \/ CheckContext(c) \/ Admit(c) \/ Select(c)
    \/ Acquire(c) \/ Send(c) \/ Await(c) \/ ReadBody(c)
    \/ Release(c) \/ EndBackoff(c)
    \/ Report(c) \/ Finish(c)

ClockTick == Tick /\ UNCHANGED <<callVars, stateVars>>

Next ==
    \/ ClockTick
    \/ \E c \in Callers : Begin(c) \/ Cancel(c) \/ Advance(c)

Spec == Init /\ [][Next]_vars

(***************************************************************************)
(* Fairness.  Goroutines are scheduled, every attempt ends (doCall runs    *)
(* under a deadline), the backoff timer fires and time passes: weak        *)
(* fairness of Advance and of the clock.  Two assumptions are about the    *)
(* clients, without whom nothing ever asks an open breaker again: they     *)
(* keep sending requests (weak fairness of Begin), and they do not all     *)
(* disconnect before their call gets to the breaker (strong fairness of    *)
(* CheckContext for a client that is still there).                         *)
(***************************************************************************)
Fairness ==
    /\ WF_vars(ClockTick)
    /\ \A c \in Callers : WF_vars(Advance(c)) /\ WF_vars(Begin(c))
    /\ SF_vars(\E c \in Callers : ~cancelled[c] /\ CheckContext(c))

FairSpec == Spec /\ Fairness

-----------------------------------------------------------------------------
ResponseType ==
    [kind : Kinds \union {NoError}, status : Statuses \union {0}, body : BodySizes]

TypeOK ==
    /\ BreakerTypeOK
    /\ pc \in [Callers -> PCs]
    /\ method \in [Callers -> Methods]
    /\ attempt \in [Callers -> 0 .. MaxRetries]
    /\ resp \in [Callers -> ResponseType]
    /\ host \in [Callers -> Hosts]
    /\ scan \in [Callers -> [next : 0 .. HostCount, min : Int,
                             selected : Hosts, quiet : BOOLEAN]]
    /\ cancelled \in [Callers -> BOOLEAN]
    /\ sends \in [Callers -> Nat]
    /\ lbMode \in LbModes
    /\ currentHostIdx \in 0 .. IdxModulus - 1
    /\ activeConnections \in [Hosts -> Int]
    /\ picks \in [Hosts -> Nat]

\* The callers between the increment and the deferred decrement, for host h.
Holders(h) ==
    {c \in Callers : host[c] = h /\ pc[c] \in {"send", "await", "read", "release"}}

(***************************************************************************)
(* The least_conns counters are exact at every moment: the counter of a    *)
(* host is the number of attempts under way on it, whatever path those     *)
(* attempts took out of doCall (built, failed, timed out, cancelled, read  *)
(* error, retried).  So no counter is negative and none leaks: a host that *)
(* looks busy for ever would never be selected again.                      *)
(***************************************************************************)
ConnectionsAccounted ==
    \A h \in Hosts :
        activeConnections[h] =
            IF lbMode = "least_conns" THEN Cardinality(Holders(h)) ELSE 0

(***************************************************************************)
(* selectHost's least_conns loop, against its reference definition: when   *)
(* no counter changed while it scanned them, the host it picked has the    *)
(* fewest connections.                                                     *)
(***************************************************************************)
LeastLoadedWhenQuiet ==
    \A c \in Callers :
        /\ pc[c] = "acquire" /\ lbMode = "least_conns" /\ scan[c].quiet
        => \A h \in Hosts : activeConnections[host[c]] <= activeConnections[h]

(***************************************************************************)
(* Round robin is fair whoever asks: counted over the selections of all    *)
(* concurrent callers together, no host is ever more than one selection    *)
(* ahead of another (until the 64-bit counter wraps, when the number of    *)
(* hosts does not divide 2^64).                                            *)
(***************************************************************************)
RoundRobinBalanced ==
    \A g, h \in Hosts : picks[g] - picks[h] <= 1

(***************************************************************************)
(* Non-idempotent methods are never replayed, and no call sends more       *)
(* attempts than one plus max_retries: shouldRetry's idempotency guard     *)
(* together with the bound of callWithRetry's loop.                        *)
(***************************************************************************)
NeverReplayed ==
    \A c \in Callers : sends[c] <= (IF isIdempotent(method[c]) THEN MaxRetries + 1 ELSE 1)

(***************************************************************************)
(* The call path implements its contract.  A call that has been started is *)
(* pending until it is done; its answer is what Report left, after the     *)
(* retries, the breaker and the policy: a clean answer is a 2xx that was   *)
(* sent for, with a body when the policy requires one and none over the    *)
(* limit, and the status of a failed one is that of its kind.              *)
(***************************************************************************)
callPhase ==
    [c \in Callers |-> CASE pc[c] = "idle" -> "idle"
                         [] pc[c] = "done" -> "done"
                         [] OTHER          -> "pending"]

callAnswer ==
    [c \in Callers |->
        IF pc[c] = "done"
        THEN [kind |-> resp[c].kind, status |-> resp[c].status,
              body |-> resp[c].body, sent |-> sends[c] > 0]
        ELSE [kind |-> NoError, status |-> 0, body |-> "empty", sent |-> FALSE]]

Contract == INSTANCE UpstreamContract WITH phase <- callPhase, answer <- callAnswer

CallContract == Contract!Spec

(***************************************************************************)
(* Every call ends: no interleaving of the breaker, the retries and their  *)
(* backoff, timeouts and a client's disconnecting leaves a request waiting *)
(* for ever.                                                               *)
(***************************************************************************)
CallsComplete ==
    \A c \in Callers : (pc[c] = "check") ~> (pc[c] = "done")

(***************************************************************************)
(* An open breaker does not stay open for ever while requests keep coming: *)
(* late failures of calls admitted earlier restart its clock only finitely *)
(* often, because an open breaker admits no new ones.                      *)
(***************************************************************************)
OpenResolves == (state = Open) ~> (state = HalfOpen)

(***************************************************************************)
(* A half-open breaker decides: while requests keep coming it closes or    *)
(* opens again.  This is what "recovers after circuit breaker reset        *)
(* timeout" (upstream_test.go:391) relies on.                              *)
(***************************************************************************)
HalfOpenResolves == (state = HalfOpen) ~> (state # HalfOpen)

Signals(c) == breakerOutcomeFor(resp[c].kind) # "no_signal"

\* The gate of the half-open breaker is shut, and no call that has passed it
\* is left that could tell the breaker anything.
Muted ==
    /\ state = HalfOpen /\ halfOpenTrial
    /\ \A c \in Callers :
          \/ pc[c] \in {"idle", "check", "allow", "backoff", "done"}
          \/ pc[c] = "report" /\ ~Signals(c)

(***************************************************************************)
(* When a half-open breaker decides, with retries, backoff, timeouts and   *)
(* clients that disconnect: the first outcome it is told of ends the       *)
(* half-open period, and while requests keep coming the period ends unless *)
(* the calls it admitted have all ended with nothing to tell (cancelled,   *)
(* or refused by this same breaker at a retry).  That exception is the     *)
(* state in which HalfOpenResolves fails.                                  *)
(***************************************************************************)
HalfOpenDecides ==
    /\ (state = HalfOpen) ~> (state # HalfOpen \/ Muted)
    /\ [][\A c \in Callers :
              state = HalfOpen /\ pc[c] = "report" /\ pc'[c] = "done" /\ Signals(c)
              => state' # HalfOpen]_vars

(***************************************************************************)
(* ABORTED is for requests cancelled by the client (CHANGELOG.md:471): a   *)
(* call ends in "canceled" only if its client disconnected.                *)
(***************************************************************************)
CanceledByClient ==
    \A c \in Callers : pc[c] = "report" /\ resp[c].kind = "canceled" => cancelled[c]
=============================================================================
