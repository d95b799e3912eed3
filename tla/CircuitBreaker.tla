--------------------------- MODULE CircuitBreaker ---------------------------
(***************************************************************************)
(* The circuit breaker of one upstream: internal/circuitbreaker.           *)
(*                                                                         *)
(* Every method of the Go type holds the breaker's mutex from its first to *)
(* its last statement, so each is one atomic action here.  Nothing in the  *)
(* type ties a reported outcome to an admitted call: an outcome may arrive *)
(* in any state, long after the call was admitted.  BreakerSpec is that    *)
(* contract (any caller, any order); module Upstream composes the breaker  *)
(* with the callers that really use it and is shown to implement it.       *)
(*                                                                         *)
(* The clock.  The code compares time.Since(lastFailureAt) with            *)
(* resetTimeout and uses time in no other way, and it reads the monotonic  *)
(* clock.  sinceFailure is that elapsed time in ticks, saturated at        *)
(* ResetTimeout, which keeps every comparison exact and the model finite   *)
(* without a bound on time.                                                *)
(***************************************************************************)
EXTENDS Integers

CONSTANTS
    Threshold,      \* failures in a row that open the breaker (max_failures)
    ResetTimeout    \* ticks an open breaker rejects calls (reset_timeout)

\* max_failures is not validated: 0 (unset) is a legal configuration.
ASSUME ThresholdAssumption == Threshold \in Nat
ASSUME ResetTimeoutAssumption == ResetTimeout \in Nat

VARIABLES
    state,          \* "closed", "open" or "half_open"
    failures,       \* failures counted since the last success while closed
    sinceFailure,   \* time.Since(lastFailureAt), saturated at ResetTimeout
    halfOpenTrial,  \* the flag that shuts the half-open gate
    trials          \* history: calls admitted in the current half-open period

breakerVars == <<state, failures, sinceFailure, halfOpenTrial, trials>>

Closed   == "closed"
Open     == "open"
HalfOpen == "half_open"

-----------------------------------------------------------------------------
\* New: a closed breaker that has seen no failure.  The zero lastFailureAt is
\* infinitely long ago; it is overwritten before an open breaker reads it.
BreakerInit ==
    /\ state = Closed
    /\ failures = 0
    /\ sinceFailure = ResetTimeout
    /\ halfOpenTrial = FALSE
    /\ trials = 0

\* Time passes.
Tick ==
    /\ sinceFailure < ResetTimeout
    /\ sinceFailure' = sinceFailure + 1
    /\ UNCHANGED <<state, failures, halfOpenTrial, trials>>

\* Mutant of AllowOpen: a rejected call restarts the clock like a failure.
AllowOpenMutRestart(ok) ==
    /\ state = Open
    /\ ok = (sinceFailure >= ResetTimeout)
    /\ IF ok THEN /\ state' = HalfOpen
                  /\ halfOpenTrial' = FALSE
                  /\ trials' = 1
                  /\ UNCHANGED sinceFailure
             ELSE /\ sinceFailure' = 0
                  /\ UNCHANGED <<state, halfOpenTrial, trials>>
    /\ UNCHANGED failures

\* Allow while open: the call that finds the reset timeout over opens the
\* half-open period and is admitted, without shutting the gate behind it.
AllowOpen(ok) ==
    /\ state = Open
    /\ ok = (sinceFailure >= ResetTimeout)
    /\ IF ok THEN /\ state' = HalfOpen
                  /\ halfOpenTrial' = FALSE
                  /\ trials' = 1
             ELSE UNCHANGED <<state, halfOpenTrial, trials>>
    /\ UNCHANGED <<failures, sinceFailure>>

\* Mutant of AllowHalfOpen: the gate is never shut.
AllowHalfOpenMutGate(ok) ==
    /\ state = HalfOpen
    /\ ok = ~halfOpenTrial
    /\ trials' = IF ok THEN trials + 1 ELSE trials
    /\ UNCHANGED <<state, failures, sinceFailure, halfOpenTrial>>

\* Allow while half-open: one more call passes the gate and shuts it.
AllowHalfOpen(ok) ==
    /\ state = HalfOpen
    /\ ok = ~halfOpenTrial
    /\ halfOpenTrial' = TRUE
    /\ trials' = IF ok THEN trials + 1 ELSE trials
    /\ UNCHANGED <<state, failures, sinceFailure>>

\* Allow() returns ok.
Allow(ok) ==
    \/ state = Closed /\ ok = TRUE /\ UNCHANGED breakerVars
    \/ AllowOpen(ok)
    \/ AllowHalfOpen(ok)

\* Mutant of OnFailure: the half-open case is missing.
OnFailureMutHalfOpen ==
    /\ sinceFailure' = 0
    /\ \/ /\ state = Closed
          /\ failures' = failures + 1
          /\ state' = IF failures' >= Threshold THEN Open ELSE Closed
       \/ /\ state # Closed
          /\ UNCHANGED <<state, failures>>
    /\ UNCHANGED <<halfOpenTrial, trials>>

\* OnFailure: the failure restarts the clock in every state.
OnFailure ==
    /\ sinceFailure' = 0
    /\ \/ /\ state = HalfOpen
          /\ state' = Open
          /\ failures' = Threshold
       \/ /\ state = Closed
          /\ failures' = failures + 1
          /\ state' = IF failures' >= Threshold THEN Open ELSE Closed
       \/ /\ state = Open
          /\ UNCHANGED <<state, failures>>
    /\ UNCHANGED <<halfOpenTrial, trials>>

\* Mutant of OnSuccess: closing keeps the old failure count.
OnSuccessMutCount ==
    /\ IF state = Open
       THEN UNCHANGED <<state, failures>>
       ELSE state' = Closed /\ UNCHANGED failures
    /\ UNCHANGED <<sinceFailure, halfOpenTrial, trials>>

\* Mutant of OnSuccess: a late success closes an open breaker.
OnSuccessMutOpen ==
    /\ state' = Closed /\ failures' = 0
    /\ UNCHANGED <<sinceFailure, halfOpenTrial, trials>>

\* OnSuccess: a success while half-open closes the breaker, one while open is
\* ignored.
OnSuccess ==
    /\ IF state = Open
       THEN UNCHANGED <<state, failures>>
       ELSE state' = Closed /\ failures' = 0
    /\ UNCHANGED <<sinceFailure, halfOpenTrial, trials>>

BreakerNext ==
    \/ Tick
    \/ \E ok \in BOOLEAN : Allow(ok)
    \/ OnFailure
    \/ OnSuccess

BreakerSpec == BreakerInit /\ [][BreakerNext]_breakerVars

-----------------------------------------------------------------------------
BreakerTypeOK ==
    /\ state \in {Closed, Open, HalfOpen}
    /\ failures \in Nat
    /\ sinceFailure \in 0 .. ResetTimeout
    /\ halfOpenTrial \in BOOLEAN
    /\ trials \in Nat

(***************************************************************************)
(* The failure count always explains the state: a closed breaker counts    *)
(* fewer failures than would have opened it (whatever interleaving of late *)
(* outcomes it saw), an open or half-open one holds at least the           *)
(* threshold.  A breaker closed with a stale count would open on the first *)
(* hiccup; one open with a reset count would not re-open from half-open.   *)
(***************************************************************************)
CountExplainsState ==
    /\ state = Closed => failures < Threshold \/ failures = 0
    /\ state # Closed => failures >= Threshold

(***************************************************************************)
(* A recovering upstream is protected: one half-open period admits at most *)
(* two calls, the one that ended the open period and the one that shut the *)
(* gate, and the second only once the gate is shut.                        *)
(***************************************************************************)
AtMostTwoTrials ==
    state = HalfOpen => \/ trials = 1 /\ ~halfOpenTrial
                        \/ trials = 2 /\ halfOpenTrial

(***************************************************************************)
(* An open breaker stays open until reset_timeout has passed since the     *)
(* last failure it was told of, and then becomes half-open: no outcome     *)
(* reported late by a call admitted earlier, success or failure, ends the  *)
(* open period.  And a breaker closes only through half-open.              *)
(***************************************************************************)
OpenUntilReset ==
    [][/\ (state = Open /\ state' # Open) =>
            (state' = HalfOpen /\ sinceFailure = ResetTimeout)
       /\ (state # Closed /\ state' = Closed) => state = HalfOpen]_breakerVars
=============================================================================
