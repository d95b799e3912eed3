--------------------------- MODULE UpstreamErrors ---------------------------
(***************************************************************************)
(* The classification of upstream results: upstream_error.go, and the      *)
(* functions of upstream.go that decide from it.  Pure definitions shared  *)
(* by the modules that model upstream calls and the client's response.     *)
(* NoError stands for a nil *upstreamError.                                *)
(***************************************************************************)
EXTENDS Integers

NoError == "none"

Kinds == {"timeout", "canceled", "connection", "redirect", "client_error",
          "bad_status", "read_error", "body_too_large", "circuit_open",
          "internal", "policy_violation"}

\* ClientError: what a client is told.
ClientErrors ==
    {"RATE_LIMIT_EXCEEDED", "PAYLOAD_TOO_LARGE", "UPSTREAM_BODY_TOO_LARGE",
     "UPSTREAM_UNAVAILABLE", "UPSTREAM_ERROR", "UPSTREAM_CLIENT_ERROR", "UPSTREAM_REDIRECT",
     "UPSTREAM_MALFORMED", "INTERNAL", "ABORTED", "VALUE_CONFLICT", "UNAUTHORIZED"}

\* kindTable.breaker, for the kinds and for a nil error.
breakerOutcomeFor(k) ==
    CASE k \in {"timeout", "connection", "read_error", "bad_status"} -> "failure"
      [] k \in {"canceled", "circuit_open", "internal"}              -> "no_signal"
      [] OTHER                                                       -> "success"

\* kindTable.retry
retryEligibility(k) ==
    CASE k \in {"timeout", "connection"}      -> "always"
      [] k \in {"bad_status", "client_error"} -> "by_status"
      [] OTHER                                -> "never"

\* kindTable.hasBody: the upstream produced a status and a body.
isStatusFailure(k) == k \in {"bad_status", "client_error", "redirect"}

\* kindTable.propagatable: the answer is the upstream's own, forwarded as is.
isPropagatable(k) == k \in {"client_error", "redirect"}

\* kindTable.clientErr
mapUpstreamError(k) ==
    CASE k \in {"timeout", "connection", "circuit_open"} -> "UPSTREAM_UNAVAILABLE"
      [] k = "canceled"         -> "ABORTED"
      [] k = "body_too_large"   -> "UPSTREAM_BODY_TOO_LARGE"
      [] k = "bad_status"       -> "UPSTREAM_ERROR"
      [] k = "client_error"     -> "UPSTREAM_CLIENT_ERROR"
      [] k = "redirect"         -> "UPSTREAM_REDIRECT"
      [] k = "policy_violation" -> "UPSTREAM_MALFORMED"
      [] OTHER                  -> "INTERNAL"

-----------------------------------------------------------------------------
\* classifyStatus: the kind of a complete response with this status.
classifyStatus(status) ==
    CASE status >= 500 -> "bad_status"
      [] status >= 400 /\ status < 500 -> "client_error"
      [] status >= 300 /\ status < 400 -> "redirect"
      [] OTHER -> NoError

(***************************************************************************)
(* The statuses an answer of each kind can carry: classifyStatus decides   *)
(* four kinds by the status alone, and the kinds that end an attempt       *)
(* before there is a response have none.  The others (canceled,            *)
(* read_error, body_too_large, policy_violation) keep what had arrived.    *)
(***************************************************************************)
Promised(kind, status) ==
    /\ kind = NoError        => status \in 100 .. 299
    /\ kind = "redirect"     => status \in 300 .. 399
    /\ kind = "client_error" => status \in 400 .. 499
    /\ kind = "bad_status"   => status >= 500
    /\ kind \in {"timeout", "connection", "circuit_open", "internal"} => status = 0

\* isIdempotent: the methods that may be sent a second time.
isIdempotent(method) ==
    method \in {"GET", "HEAD", "OPTIONS", "TRACE", "PUT", "DELETE", "QUERY"}

\* Mutant of shouldRetry: transport failures skip the idempotency guard.
shouldRetryMutGuard(method, kind, status, retryOnStatuses) ==
    \/ retryEligibility(kind) = "always"
    \/ /\ isIdempotent(method)
       /\ kind = NoError \/ retryEligibility(kind) = "by_status"
       /\ status \in retryOnStatuses

\* shouldRetry(method, resp, retry), resp being its error kind and its status.
shouldRetry(method, kind, status, retryOnStatuses) ==
    /\ isIdempotent(method)
    /\ \/ retryEligibility(kind) = "always"
       \/ /\ kind = NoError \/ retryEligibility(kind) = "by_status"
          /\ status \in retryOnStatuses

\* Mutant of policyKind: only clean responses are checked for a body.
policyKindMutStatus(kind, emptyBody, requireBody) ==
    IF requireBody /\ emptyBody /\ kind = NoError THEN "policy_violation" ELSE kind

\* applyPolicy: requireBody turns an empty success, client error or redirect
\* into a policy violation; a 5xx keeps its kind.
policyKind(kind, emptyBody, requireBody) ==
    IF /\ requireBody /\ emptyBody
       /\ kind = NoError \/ (isStatusFailure(kind) /\ kind # "bad_status")
    THEN "policy_violation"
    ELSE kind
=============================================================================
