------------------------ MODULE CircuitBreakerProofs ------------------------
(***************************************************************************)
(* Proofs about the circuit breaker, for every threshold and every reset   *)
(* timeout and for callers that report outcomes in any order.              *)
(***************************************************************************)
EXTENDS CircuitBreaker, TLAPS

\* Every method of the breaker keeps its fields in their types.
LEMMA BreakerTyping == BreakerTypeOK /\ [BreakerNext]_breakerVars => BreakerTypeOK'
  <1> SUFFICES ASSUME BreakerTypeOK, [BreakerNext]_breakerVars
               PROVE  BreakerTypeOK'
    OBVIOUS
  <1> USE ThresholdAssumption, ResetTimeoutAssumption
      DEF BreakerTypeOK, Closed, Open, HalfOpen
  <1>1. CASE Tick
    BY <1>1 DEF Tick
  <1>2. ASSUME NEW ok \in BOOLEAN, Allow(ok)
        PROVE  BreakerTypeOK'
    <2>1. CASE AllowOpen(ok)
      <3>1. halfOpenTrial' \in BOOLEAN
        BY <2>1, Zenon DEF AllowOpen
      <3>2. /\ state' \in {Closed, Open, HalfOpen}
            /\ failures' \in Nat
            /\ sinceFailure' \in 0 .. ResetTimeout
            /\ trials' \in Nat
        BY <2>1 DEF AllowOpen
      <3> QED
        BY <3>1, <3>2
    <2>2. CASE AllowHalfOpen(ok)
      BY <2>2 DEF AllowHalfOpen
    <2>3. CASE UNCHANGED breakerVars
      BY <2>3 DEF breakerVars
    <2> QED
      BY <1>2, <2>1, <2>2, <2>3 DEF Allow
  <1>3. CASE OnFailure
    BY <1>3 DEF OnFailure
  <1>4. CASE OnSuccess
    BY <1>4 DEF OnSuccess
  <1>5. CASE UNCHANGED breakerVars
    BY <1>5 DEF breakerVars
  <1> QED
    BY <1>1, <1>2, <1>3, <1>4, <1>5 DEF BreakerNext

\* The fields of the breaker always have their types.
THEOREM BreakerTypeCorrect == BreakerSpec => []BreakerTypeOK
  <1>1. BreakerInit => BreakerTypeOK
    <2> SUFFICES ASSUME BreakerInit PROVE BreakerTypeOK
      OBVIOUS
    <2>1. halfOpenTrial \in BOOLEAN
      BY Zenon DEF BreakerInit
    <2> QED
      BY <2>1, ResetTimeoutAssumption
         DEF BreakerInit, BreakerTypeOK, Closed, Open, HalfOpen
  <1> QED
    BY <1>1, BreakerTyping, PTL DEF BreakerSpec

-----------------------------------------------------------------------------
\* CountExplainsState is inductive relative to the types.
LEMMA CountStep ==
    BreakerTypeOK /\ CountExplainsState /\ [BreakerNext]_breakerVars
        => CountExplainsState'
  <1> SUFFICES ASSUME BreakerTypeOK, CountExplainsState,
                      [BreakerNext]_breakerVars
               PROVE  CountExplainsState'
    OBVIOUS
  <1> USE ThresholdAssumption
      DEF BreakerTypeOK, CountExplainsState, Closed, Open, HalfOpen
  <1>1. CASE Tick
    BY <1>1 DEF Tick
  <1>2. ASSUME NEW ok \in BOOLEAN, Allow(ok)
        PROVE  CountExplainsState'
    BY <1>2 DEF Allow, AllowOpen, AllowHalfOpen, breakerVars
  <1>3. CASE OnFailure
    BY <1>3 DEF OnFailure
  <1>4. CASE OnSuccess
    BY <1>4 DEF OnSuccess
  <1>5. CASE UNCHANGED breakerVars
    BY <1>5 DEF breakerVars
  <1> QED
    BY <1>1, <1>2, <1>3, <1>4, <1>5 DEF BreakerNext

\* The failure count explains the state, for every threshold (0 included) and
\* every order in which Allow, OnFailure and OnSuccess are called.
THEOREM CountTheorem == BreakerSpec => []CountExplainsState
  <1>1. BreakerInit => CountExplainsState
    BY DEF BreakerInit, CountExplainsState
  <1> QED
    BY <1>1, CountStep, BreakerTypeCorrect, PTL DEF BreakerSpec

-----------------------------------------------------------------------------
\* AtMostTwoTrials is inductive: a half-open period starts with one trial and
\* an open gate, and the second trial shuts it.
LEMMA TrialsStep ==
    BreakerTypeOK /\ AtMostTwoTrials /\ [BreakerNext]_breakerVars => AtMostTwoTrials'
  <1> SUFFICES ASSUME BreakerTypeOK, AtMostTwoTrials, [BreakerNext]_breakerVars
               PROVE  AtMostTwoTrials'
    OBVIOUS
  <1> USE DEF BreakerTypeOK, AtMostTwoTrials, Closed, Open, HalfOpen
  <1>1. CASE Tick
    BY <1>1 DEF Tick
  <1>2. ASSUME NEW ok \in BOOLEAN, Allow(ok)
        PROVE  AtMostTwoTrials'
    <2>1. CASE AllowOpen(ok)
      BY <2>1 DEF AllowOpen
    <2>2. CASE AllowHalfOpen(ok)
      <3>1. halfOpenTrial' /\ state = HalfOpen
        BY <2>2, Zenon DEF AllowHalfOpen
      <3>2. CASE ok
        <4>1. trials = 1
          BY <2>2, <3>1, <3>2 DEF AllowHalfOpen
        <4> QED
          BY <2>2, <3>1, <3>2, <4>1 DEF AllowHalfOpen
      <3>3. CASE ~ok
        <4>1. trials = 2
          BY <2>2, <3>1, <3>3 DEF AllowHalfOpen
        <4> QED
          BY <2>2, <3>1, <3>3, <4>1 DEF AllowHalfOpen
      <3> QED
        BY <3>2, <3>3
    <2>3. CASE UNCHANGED breakerVars
      BY <2>3 DEF breakerVars
    <2> QED
      BY <1>2, <2>1, <2>2, <2>3 DEF Allow
  <1>3. CASE OnFailure
    BY <1>3 DEF OnFailure
  <1>4. CASE OnSuccess
    BY <1>4 DEF OnSuccess
  <1>5. CASE UNCHANGED breakerVars
    BY <1>5 DEF breakerVars
  <1> QED
    BY <1>1, <1>2, <1>3, <1>4, <1>5 DEF BreakerNext

\* No half-open period ever admits a third call.
THEOREM TrialsTheorem == BreakerSpec => []AtMostTwoTrials
  <1>1. BreakerInit => AtMostTwoTrials
    BY DEF BreakerInit, AtMostTwoTrials, Closed, HalfOpen
  <1> QED
    BY <1>1, TrialsStep, BreakerTypeCorrect, PTL DEF BreakerSpec

-----------------------------------------------------------------------------
\* An open breaker stays open until the reset timeout is over, whatever late
\* outcomes it is told, and closes only through half-open.
THEOREM OpenUntilResetTheorem == BreakerSpec => OpenUntilReset
  <1> DEFINE Step == /\ (state = Open /\ state' # Open) =>
                          (state' = HalfOpen /\ sinceFailure = ResetTimeout)
                     /\ (state # Closed /\ state' = Closed) => state = HalfOpen
  <1>1. ASSUME BreakerTypeOK, [BreakerNext]_breakerVars
        PROVE  [Step]_breakerVars
    <2> USE ResetTimeoutAssumption, <1>1
        DEF BreakerTypeOK, Closed, Open, HalfOpen
    <2>1. CASE Tick
      BY <2>1 DEF Tick
    <2>2. ASSUME NEW ok \in BOOLEAN, Allow(ok)
          PROVE  [Step]_breakerVars
      BY <2>2 DEF Allow, AllowOpen, AllowHalfOpen, breakerVars
    <2>3. CASE OnFailure
      BY <2>3 DEF OnFailure
    <2>4. CASE OnSuccess
      BY <2>4 DEF OnSuccess
    <2>5. CASE UNCHANGED breakerVars
      BY <2>5
    <2> QED
      BY <2>1, <2>2, <2>3, <2>4, <2>5 DEF BreakerNext
  <1>2. BreakerTypeOK /\ [BreakerNext]_breakerVars => [Step]_breakerVars
    BY <1>1
  <1> QED
    BY <1>2, BreakerTypeCorrect, PTL DEF BreakerSpec, OpenUntilReset
=============================================================================
