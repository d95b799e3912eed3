--------------------------- MODULE UpstreamProofs ---------------------------
(***************************************************************************)
(* Proofs about the upstream call path, for any number of callers, hosts   *)
(* and retries and every configuration.                                    *)
(***************************************************************************)
EXTENDS Upstream, CircuitBreakerProofs, FiniteSetTheorems

-----------------------------------------------------------------------------
(* The callers use the breaker only through its methods. *)

\* A caller's step is a step of the breaker or leaves it alone.
LEMMA AdvanceIsBreakerStep ==
    ASSUME NEW c \in Callers, Advance(c)
    PROVE  [BreakerNext]_breakerVars
  <1>1. CASE CheckContext(c)
    BY <1>1 DEF CheckContext, breakerVars
  <1>2. CASE Admit(c)
    BY <1>2, Zenon DEF Admit, BreakerNext, breakerVars
  <1>3. CASE Select(c)
    BY <1>3 DEF Select, SelectOnly, SelectRoundRobin, StartScan, ScanHost,
                EndScan, breakerVars
  <1>4. CASE Acquire(c) \/ Send(c) \/ Await(c) \/ ReadBody(c)
    BY <1>4 DEF Acquire, Send, Await, ReadBody, breakerVars
  <1>5. CASE Release(c) \/ EndBackoff(c)
    BY <1>5 DEF Release, EndBackoff, breakerVars
  <1>6. CASE Report(c)
    <2>1. CASE UNCHANGED breakerVars
      BY <2>1
    <2>2. CASE updateCircuitBreaker(resp[c].kind)
      <3> DEFINE out == breakerOutcomeFor(resp[c].kind)
      <3>1. out \in {"failure", "success", "no_signal"}
        BY DEF breakerOutcomeFor
      <3>2. OnFailure \/ OnSuccess \/ UNCHANGED breakerVars
        BY <2>2, <3>1 DEF updateCircuitBreaker
      <3> QED
        BY <3>2, Zenon DEF BreakerNext
    <2> QED
      BY <1>6, <2>1, <2>2, Zenon DEF Report
  <1>7. CASE Finish(c)
    BY <1>7 DEF Finish, breakerVars
  <1> QED
    BY <1>1, <1>2, <1>3, <1>4, <1>5, <1>6, <1>7 DEF Advance

LEMMA NextIsBreakerStep == [Next]_vars => [BreakerNext]_breakerVars
  <1> SUFFICES ASSUME [Next]_vars PROVE [BreakerNext]_breakerVars
    OBVIOUS
  <1>1. CASE ClockTick
    BY <1>1, Zenon DEF ClockTick, BreakerNext
  <1>2. ASSUME NEW c \in Callers, Begin(c) \/ Cancel(c)
        PROVE  [BreakerNext]_breakerVars
    BY <1>2 DEF Begin, Cancel, breakerVars
  <1>3. CASE UNCHANGED vars
    BY <1>3 DEF vars, breakerVars
  <1> QED
    BY <1>1, <1>2, <1>3, AdvanceIsBreakerStep DEF Next

\* The call path implements the breaker's contract: whatever the callers do,
\* the breaker goes through a behaviour of BreakerSpec.
THEOREM ImplementsBreaker == Spec => BreakerSpec
  <1>1. Init => BreakerInit
    BY DEF Init
  <1> QED
    BY <1>1, NextIsBreakerStep, PTL DEF Spec, BreakerSpec

\* So the breaker's guarantees hold for it in the running system.
THEOREM BreakerSafeInUse ==
    Spec => [](BreakerTypeOK /\ CountExplainsState /\ AtMostTwoTrials)
  BY ImplementsBreaker, BreakerTypeCorrect, CountTheorem, TrialsTheorem, PTL

-----------------------------------------------------------------------------
(* Types *)

\* The part of TypeOK that is about the callers and the load balancer.
CallTypeOK ==
    /\ pc \in [Callers -> PCs]
    /\ method \in [Callers -> Methods]
    /\ attempt \in [Callers -> 0 .. MaxRetries]
    /\ resp \in [Callers -> ResponseType]
    /\ host \in [Callers -> Hosts]
    /\ scan \in [Callers -> [next : 0 .. HostCount, min : Int,
                             selected : Hosts, quiet : BOOLEAN]]
    /\ cancelled \in [Callers -> BOOLEAN]
    /\ sends \in [Callers -> Nat]
    /\ lbMode \in LbModes
    /\ currentHostIdx \in 0 .. IdxModulus - 1
    /\ activeConnections \in [Hosts -> Int]
    /\ picks \in [Hosts -> Nat]

\* attempt never passes the bound while a caller waits to retry.
BackoffInv == \A c \in Callers : pc[c] = "backoff" => attempt[c] < MaxRetries

LEMMA PolicyKindType ==
    ASSUME NEW k \in Kinds \union {NoError}, NEW e, NEW r
    PROVE  policyKind(k, e, r) \in Kinds \union {NoError}
  BY DEF policyKind, Kinds

LEMMA FailedType ==
    ASSUME NEW k \in Kinds \union {NoError}
    PROVE  Failed(k) \in ResponseType
  BY DEF Failed, Response, ResponseType, BodySizes

LEMMA ModType == \A a \in Nat : \A n \in Nat \ {0} : a % n \in 0 .. n - 1
  OBVIOUS

LEMMA HostsType == 0 \in Hosts
  BY HostCountAssumption DEF Hosts

LEMMA NoScanType ==
    NoScan \in [next : 0 .. HostCount, min : Int, selected : Hosts, quiet : BOOLEAN]
  <1>1. Cardinality(Callers) \in Nat
    BY CallersAssumption, FS_CardinalityType
  <1> QED
    BY <1>1, HostsType, HostCountAssumption DEF NoScan, MaxConns

\* One load of the least_conns loop keeps its locals in their types.
LEMMA ScanStepType ==
    ASSUME NEW s \in [next : 0 .. HostCount, min : Int, selected : Hosts,
                      quiet : BOOLEAN],
           s.next \in Hosts,
           activeConnections[s.next] \in Int
    PROVE  ScanStep(s) \in [next : 0 .. HostCount, min : Int, selected : Hosts,
                            quiet : BOOLEAN]
  <1> DEFINE fewer == activeConnections[s.next] < s.min
             m == IF fewer THEN activeConnections[s.next] ELSE s.min
             h == IF fewer THEN s.next ELSE s.selected
  <1>1. s.next + 1 \in 0 .. HostCount
    BY HostCountAssumption DEF Hosts
  <1>2. m \in Int /\ h \in Hosts
    OBVIOUS
  <1>3. s.quiet \in BOOLEAN
    OBVIOUS
  <1>4. ScanStep(s) = [s EXCEPT !.next = s.next + 1, !.min = m, !.selected = h]
    BY DEF ScanStep
  <1> HIDE DEF m, h
  <1>5. [s EXCEPT !.next = s.next + 1, !.min = m, !.selected = h]
          \in [next : 0 .. HostCount, min : Int, selected : Hosts, quiet : BOOLEAN]
    BY <1>1, <1>2, <1>3
  <1> QED
    BY <1>4, <1>5

LEMMA CallTyping ==
    ASSUME CallTypeOK, BackoffInv, [Next]_vars
    PROVE  CallTypeOK' /\ BackoffInv'
  <1> USE DEF CallTypeOK, BackoffInv
  <1> DEFINE ScanType == [next : 0 .. HostCount, min : Int,
                          selected : Hosts, quiet : BOOLEAN]
  <1>1. CASE ClockTick
    BY <1>1 DEF ClockTick, callVars, stateVars
  <1>2. ASSUME NEW c \in Callers, Begin(c)
        PROVE  CallTypeOK' /\ BackoffInv'
    BY <1>2 DEF Begin, Goto, PCs, stateVars
  <1>3. ASSUME NEW c \in Callers, Cancel(c)
        PROVE  CallTypeOK' /\ BackoffInv'
    <2>1. cancelled' \in [Callers -> BOOLEAN]
      BY <1>3, Zenon DEF Cancel
    <2> QED
      BY <1>3, <2>1 DEF Cancel, stateVars
  <1>4. ASSUME NEW c \in Callers, CheckContext(c)
        PROVE  CallTypeOK' /\ BackoffInv'
    <2>1. Failed("canceled") \in ResponseType
      BY FailedType DEF Kinds
    <2> QED
      BY <1>4, <2>1, SMTT(40) DEF CheckContext, Goto, Return, PCs, stateVars
  <1>5. ASSUME NEW c \in Callers, Admit(c)
        PROVE  CallTypeOK' /\ BackoffInv'
    <2>1. Failed("circuit_open") \in ResponseType
      BY FailedType DEF Kinds
    <2>8. pc' \in [Callers -> PCs] /\ BackoffInv'
      BY <1>5 DEF Admit, Goto, PCs
    <2>9. resp' \in [Callers -> ResponseType]
      BY <1>5, <2>1 DEF Admit, Return
    <2> QED
      BY <1>5, <2>8, <2>9 DEF Admit, stateVars
  <1>6. ASSUME NEW c \in Callers, Select(c)
        PROVE  CallTypeOK' /\ BackoffInv'
    <2>1. CASE SelectOnly(c)
      BY <2>1, HostsType DEF SelectOnly, Goto, PCs, stateVars
    <2>2. CASE SelectRoundRobin(c)
      <3>1. currentHostIdx' \in 0 .. IdxModulus - 1
        BY <2>2, IdxAssumption DEF SelectRoundRobin
      <3>2. currentHostIdx' % HostCount \in Hosts
        <4>1. currentHostIdx' \in Nat
          BY <3>1, IdxAssumption
        <4> QED
          BY <4>1, ModType, HostCountAssumption DEF Hosts
      <3>3. host' \in [Callers -> Hosts] /\ host'[c] \in Hosts
        BY <2>2, <3>2 DEF SelectRoundRobin
      <3>4. picks' \in [Hosts -> Nat]
        BY <2>2, <3>3 DEF SelectRoundRobin, Picked
      <3> QED
        BY <2>2, <3>1, <3>3, <3>4 DEF SelectRoundRobin, Goto, PCs
    <2>3. CASE StartScan(c)
      BY <2>3, NoScanType DEF StartScan, Goto, PCs, stateVars
    <2>4. CASE ScanHost(c)
      <3>1. scan[c] \in ScanType /\ scan[c].next \in Hosts
        BY <2>4, HostCountAssumption, SMTT(40) DEF ScanHost, Hosts
      <3>2. activeConnections[scan[c].next] \in Int
        BY <3>1
      <3>3. ScanStep(scan[c]) \in ScanType
        BY <3>1, <3>2, ScanStepType
      <3> QED
        BY <2>4, <3>3 DEF ScanHost, Goto, PCs, stateVars
    <2>5. CASE EndScan(c)
      BY <2>5 DEF EndScan, Goto, PCs, stateVars
    <2> QED
      BY <1>6, <2>1, <2>2, <2>3, <2>4, <2>5 DEF Select
  <1>7. ASSUME NEW c \in Callers, NEW d \in Int, CountConnection(c, d)
        PROVE  activeConnections' \in [Hosts -> Int] /\ scan' \in [Callers -> ScanType]
    <2>1. Disturb(c) \in [Callers -> ScanType]
      BY NoScanType DEF Disturb
    <2> QED
      BY <1>7, <2>1 DEF CountConnection
  <1>8. ASSUME NEW c \in Callers, Acquire(c)
        PROVE  CallTypeOK' /\ BackoffInv'
    BY <1>7, <1>8 DEF Acquire, Goto, PCs
  <1>9. ASSUME NEW c \in Callers, Send(c)
        PROVE  CallTypeOK' /\ BackoffInv'
    <2>1. Failed("internal") \in ResponseType
      BY FailedType DEF Kinds
    <2>2. pc' \in [Callers -> PCs] /\ BackoffInv'
      BY <1>9 DEF Send, Goto, PCs
    <2>3. resp' \in [Callers -> ResponseType]
      BY <1>9, <2>1 DEF Send, Return
    <2>4. sends' \in [Callers -> Nat]
      BY <1>9 DEF Send
    <2> QED
      BY <1>9, <2>2, <2>3, <2>4 DEF Send, stateVars
  <1>10. ASSUME NEW c \in Callers, Await(c)
         PROVE  CallTypeOK' /\ BackoffInv'
    <2>1. \A k \in classifyDoError(c) : Failed(k) \in ResponseType
      BY FailedType DEF classifyDoError, Kinds
    <2>2. \A st \in Statuses : Response(NoError, st, "empty") \in ResponseType
      BY DEF Response, ResponseType, BodySizes
    <2>8. pc' \in [Callers -> PCs] /\ BackoffInv'
      BY <1>10 DEF Await, Goto, PCs
    <2>9. resp' \in [Callers -> ResponseType]
      BY <1>10, <2>1, <2>2 DEF Await, Return
    <2> QED
      BY <1>10, <2>8, <2>9 DEF Await, stateVars
  <1>11. ASSUME NEW c \in Callers, ReadBody(c)
         PROVE  CallTypeOK' /\ BackoffInv'
    <2>1. resp[c].status \in Statuses \union {0}
      BY DEF ResponseType
    <2>2. \A b \in Bodies : readResponse(resp[c].status, b) \in ResponseType
      BY <2>1, BodiesAssumption
         DEF readResponse, Response, ResponseType, BodySizes, classifyStatus, Kinds
    <2>3. \A k \in readErrorKinds(c) :
            Response(k, resp[c].status, "empty") \in ResponseType
      <3>1. readErrorKinds(c) \subseteq {"canceled", "read_error"}
        BY FlagsAssumption, cancelled[c] \in BOOLEAN, Zenon DEF readErrorKinds
      <3> QED
        BY <2>1, <3>1 DEF Response, ResponseType, BodySizes, Kinds
    <2> QED
      BY <1>11, <2>2, <2>3, ZenonT(40) DEF ReadBody, Goto, Return, PCs, stateVars
  <1>12. ASSUME NEW c \in Callers, Release(c)
         PROVE  CallTypeOK' /\ BackoffInv'
    <2>1. attempt' \in [Callers -> 0 .. MaxRetries]
      BY <1>12, RetriesAssumption DEF Release, Retries
    <2>2. -1 \in Int
      OBVIOUS
    <2>3. activeConnections' \in [Hosts -> Int] /\ scan' \in [Callers -> ScanType]
      BY <1>7, <1>12, <2>2 DEF Release
    <2>4. BackoffInv'
      BY <1>12 DEF Release, Retries, Goto
    <2> QED
      BY <1>12, <2>1, <2>3, <2>4 DEF Release, Goto, PCs
  <1>13. ASSUME NEW c \in Callers, EndBackoff(c)
         PROVE  CallTypeOK' /\ BackoffInv'
    <2>1. Failed("canceled") \in ResponseType
      BY FailedType DEF Kinds
    <2>2. attempt' \in [Callers -> 0 .. MaxRetries]
      BY <1>13, RetriesAssumption DEF EndBackoff, Goto
    <2>3. pc' \in [Callers -> PCs] /\ BackoffInv'
      BY <1>13 DEF EndBackoff, Goto, PCs
    <2>4. resp' \in [Callers -> ResponseType]
      BY <1>13, <2>1 DEF EndBackoff, Return
    <2> QED
      BY <1>13, <2>2, <2>3, <2>4 DEF EndBackoff, stateVars
  <1>14. ASSUME NEW c \in Callers, Report(c)
         PROVE  CallTypeOK' /\ BackoffInv'
    <2>1. applyPolicy(resp[c]) \in ResponseType
      <3>1. resp[c] \in ResponseType /\ resp[c].kind \in Kinds \union {NoError}
        BY DEF ResponseType
      <3>2. policyKind(resp[c].kind, resp[c].body = "empty", RequireBody)
                \in Kinds \union {NoError}
        BY <3>1, PolicyKindType
      <3> QED
        BY <3>1, <3>2 DEF applyPolicy, ResponseType
    <2> QED
      BY <1>14, <2>1 DEF Report, Goto, Return, PCs, stateVars
  <1>15. ASSUME NEW c \in Callers, Finish(c)
         PROVE  CallTypeOK' /\ BackoffInv'
    <2>1. Failed(NoError) \in ResponseType
      BY FailedType
    <2>2. cancelled' \in [Callers -> BOOLEAN]
      BY <1>15, Zenon DEF Finish
    <2> QED
      BY <1>15, <2>1, <2>2, RetriesAssumption, HostsType
         DEF Finish, Goto, Return, PCs, stateVars
  <1>16. CASE UNCHANGED vars
    BY <1>16 DEF vars, callVars, stateVars
  <1> QED
    BY <1>1, <1>2, <1>3, <1>4, <1>5, <1>6, <1>8, <1>9, <1>10, <1>11, <1>12,
       <1>13, <1>14, <1>15, <1>16
       DEF Next, Advance

\* Every variable of the call path always has its type: no attempt number
\* passes max_retries and no selected host is out of the list of hosts.
THEOREM TypeCorrect == Spec => []TypeOK
  <1>1. Init => CallTypeOK /\ BackoffInv
    <2> SUFFICES ASSUME Init PROVE CallTypeOK /\ BackoffInv
      OBVIOUS
    <2>1. cancelled \in [Callers -> BOOLEAN]
      BY Zenon DEF Init
    <2>2. resp \in [Callers -> ResponseType]
      BY FailedType DEF Init
    <2>3. scan \in [Callers -> [next : 0 .. HostCount, min : Int,
                                selected : Hosts, quiet : BOOLEAN]]
      BY NoScanType DEF Init
    <2> QED
      BY <2>1, <2>2, <2>3, HostsType, RetriesAssumption, IdxAssumption
         DEF Init, CallTypeOK, BackoffInv, PCs
  <1>2. CallTypeOK /\ BackoffInv /\ [Next]_vars => CallTypeOK' /\ BackoffInv'
    BY CallTyping
  <1>3. CallTypeOK /\ BreakerTypeOK => TypeOK
    BY DEF CallTypeOK, TypeOK
  <1> QED
    BY <1>1, <1>2, <1>3, BreakerSafeInUse, PTL DEF Spec

-----------------------------------------------------------------------------
(* Connection counting *)

\* The set of callers that hold a connection is finite.
LEMMA HoldersFinite == \A h \in Hosts : IsFiniteSet(Holders(h))
  BY CallersAssumption, FS_Subset DEF Holders

\* A step that moves no caller into or out of doCall's counted part, and
\* changes no counter and no host of a counted caller, keeps the accounts.
LEMMA AccountsKept ==
    ASSUME ConnectionsAccounted,
           UNCHANGED <<activeConnections, lbMode>>,
           \A h \in Hosts : Holders(h)' = Holders(h)
    PROVE  ConnectionsAccounted'
  BY DEF ConnectionsAccounted

Counted == {"send", "await", "read", "release"}

\* A caller's step inside, or outside, the counted part moves no holder.
LEMMA HoldersKept ==
    ASSUME TypeOK, NEW c \in Callers, NEW from, NEW to, Goto(c, from, to),
           from \in Counted <=> to \in Counted,
           \/ UNCHANGED host
           \/ from \notin Counted /\ \E h : host' = [host EXCEPT ![c] = h]
    PROVE  \A h \in Hosts : Holders(h)' = Holders(h)
  BY DEF TypeOK, Goto, Holders, Counted

LEMMA AccountsStep ==
    ASSUME TypeOK, ConnectionsAccounted, [Next]_vars
    PROVE  ConnectionsAccounted'
  <1>1. CASE ClockTick \/ UNCHANGED vars
    <2>1. UNCHANGED <<activeConnections, lbMode, host, pc>>
      BY <1>1 DEF ClockTick, vars, callVars, stateVars
    <2> QED
      BY <2>1, AccountsKept DEF Holders
  <1>2. ASSUME NEW c \in Callers, Cancel(c)
        PROVE  ConnectionsAccounted'
    <2>1. UNCHANGED <<activeConnections, lbMode, host, pc>>
      BY <1>2 DEF Cancel, stateVars
    <2> QED
      BY <2>1, AccountsKept DEF Holders
  <1>3. ASSUME NEW c \in Callers,
               \/ Begin(c) \/ CheckContext(c) \/ Admit(c) \/ Select(c)
               \/ EndBackoff(c) \/ Report(c) \/ Finish(c)
        PROVE  ConnectionsAccounted'
    <2>1. UNCHANGED <<activeConnections, lbMode>>
      BY <1>3 DEF Begin, CheckContext, Admit, Select, SelectOnly,
           SelectRoundRobin, StartScan, ScanHost, EndScan, EndBackoff, Report,
           Finish, stateVars
    <2>2. \E from, to :
            /\ Goto(c, from, to)
            /\ from \notin Counted /\ to \notin Counted
            /\ UNCHANGED host \/ \E h : host' = [host EXCEPT ![c] = h]
      BY <1>3, Zenon DEF Begin, CheckContext, Admit, Select, SelectOnly,
           SelectRoundRobin, StartScan, ScanHost, EndScan, EndBackoff, Report,
           Finish, Counted
    <2>3. \A h \in Hosts : Holders(h)' = Holders(h)
      BY <2>2, HoldersKept
    <2> QED
      BY <2>1, <2>3, AccountsKept
  <1>4. ASSUME NEW c \in Callers, Send(c) \/ Await(c) \/ ReadBody(c)
        PROVE  ConnectionsAccounted'
    <2>1. UNCHANGED <<activeConnections, lbMode, host>>
      BY <1>4 DEF Send, Await, ReadBody, stateVars
    <2>2. \E from, to : Goto(c, from, to) /\ from \in Counted /\ to \in Counted
      BY <1>4, Zenon DEF Send, Await, ReadBody, Counted
    <2>3. \A h \in Hosts : Holders(h)' = Holders(h)
      BY <2>1, <2>2, HoldersKept
    <2> QED
      BY <2>1, <2>3, AccountsKept
  <1>5. ASSUME NEW c \in Callers, Acquire(c)
        PROVE  ConnectionsAccounted'
    <2>1. CASE lbMode = "least_conns"
      <3>1. activeConnections' = [activeConnections EXCEPT ![host[c]] = @ + 1]
        BY <1>5, <2>1 DEF Acquire, CountConnection
      <3> SUFFICES ASSUME NEW h \in Hosts
                   PROVE  activeConnections'[h] = Cardinality(Holders(h)')
        BY <1>5, <2>1 DEF ConnectionsAccounted, Acquire
      <3>2. activeConnections[h] = Cardinality(Holders(h)) /\ IsFiniteSet(Holders(h))
        BY <2>1, HoldersFinite DEF ConnectionsAccounted
      <3>3. CASE h = host[c]
        <4>1. c \notin Holders(h) /\ Holders(h)' = Holders(h) \union {c}
          BY <1>5, <3>3 DEF Acquire, Goto, Holders, TypeOK
        <4>2. Cardinality(Holders(h)') = Cardinality(Holders(h)) + 1
          BY <3>2, <4>1, FS_AddElement
        <4> QED
          BY <3>1, <3>2, <3>3, <4>2 DEF TypeOK
      <3>4. CASE h # host[c]
        <4>1. Holders(h)' = Holders(h)
          BY <1>5, <3>4 DEF Acquire, Goto, Holders, TypeOK
        <4> QED
          BY <3>1, <3>2, <3>4, <4>1 DEF TypeOK
      <3> QED
        BY <3>3, <3>4
    <2>2. CASE lbMode # "least_conns"
      BY <1>5, <2>2 DEF Acquire, CountConnection, ConnectionsAccounted
    <2> QED
      BY <2>1, <2>2
  <1>6. ASSUME NEW c \in Callers, Release(c)
        PROVE  ConnectionsAccounted'
    <2>1. CASE lbMode = "least_conns"
      <3>1. activeConnections' = [activeConnections EXCEPT ![host[c]] = @ + (-1)]
        BY <1>6, <2>1 DEF Release, CountConnection
      <3> SUFFICES ASSUME NEW h \in Hosts
                   PROVE  activeConnections'[h] = Cardinality(Holders(h)')
        BY <1>6, <2>1 DEF ConnectionsAccounted, Release
      <3>2. activeConnections[h] = Cardinality(Holders(h)) /\ IsFiniteSet(Holders(h))
        BY <2>1, HoldersFinite DEF ConnectionsAccounted
      <3>3. CASE h = host[c]
        <4>1. c \in Holders(h) /\ Holders(h)' = Holders(h) \ {c}
          BY <1>6, <3>3 DEF Release, Goto, Holders, TypeOK
        <4>2. Cardinality(Holders(h)') = Cardinality(Holders(h)) - 1
          BY <3>2, <4>1, FS_RemoveElement
        <4> QED
          BY <3>1, <3>2, <3>3, <4>2 DEF TypeOK
      <3>4. CASE h # host[c]
        <4>1. Holders(h)' = Holders(h)
          BY <1>6, <3>4 DEF Release, Goto, Holders, TypeOK
        <4> QED
          BY <3>1, <3>2, <3>4, <4>1 DEF TypeOK
      <3> QED
        BY <3>3, <3>4
    <2>2. CASE lbMode # "least_conns"
      BY <1>6, <2>2 DEF Release, CountConnection, ConnectionsAccounted
    <2> QED
      BY <2>1, <2>2
  <1> QED
    BY <1>1, <1>2, <1>3, <1>4, <1>5, <1>6 DEF Next, Advance

\* The connection counters are exact at every moment, for any number of
\* callers and hosts and every way an attempt can end.
THEOREM AccountsTheorem == Spec => []ConnectionsAccounted
  <1>1. Init => ConnectionsAccounted
    <2> SUFFICES ASSUME Init, NEW h \in Hosts
                 PROVE  /\ activeConnections[h] = 0
                        /\ Cardinality(Holders(h)) = 0
      BY DEF ConnectionsAccounted
    <2>1. Holders(h) = {}
      BY DEF Init, Holders
    <2> QED
      BY <2>1, FS_EmptySet DEF Init
  <1> QED
    BY <1>1, AccountsStep, TypeCorrect, PTL DEF Spec

-----------------------------------------------------------------------------
(* Load balancing *)

(***************************************************************************)
(* LeastLoadedWhenQuiet is about the end of a scan.  The strengthening     *)
(* says what a scan nobody disturbed knows on its way: min is the count of *)
(* the selected host and no host it has passed has fewer connections.  A   *)
(* scan that has not begun has min above every count, which takes the      *)
(* exact accounts to see.                                                  *)
(***************************************************************************)
Fewest(s) ==
    \/ s.next = 0 /\ s.min = MaxConns
    \/ /\ s.min = activeConnections[s.selected]
       /\ \A h \in Hosts : h < s.next => s.min <= activeConnections[h]

ScanInv ==
    lbMode = "least_conns" =>
        \A c \in Callers : scan[c].quiet =>
            /\ pc[c] = "scan" => Fewest(scan[c])
            /\ pc[c] = "acquire" =>
                 \/ HostCount = 1
                 \/ /\ Fewest(scan[c]) /\ scan[c].next = HostCount
                    /\ host[c] = scan[c].selected

ScanTypes == [next : 0 .. HostCount, min : Int, selected : Hosts, quiet : BOOLEAN]

\* No counter reaches the value the loop starts from.
LEMMA CountsBelowMax ==
    ASSUME ConnectionsAccounted, NEW h \in Hosts
    PROVE  activeConnections[h] \in Nat /\ activeConnections[h] < MaxConns
  <1>1. Cardinality(Callers) \in Nat
    BY CallersAssumption, FS_CardinalityType
  <1>2. Holders(h) \subseteq Callers
    BY DEF Holders
  <1>3. Cardinality(Holders(h)) \in Nat /\ Cardinality(Holders(h)) <= Cardinality(Callers)
    BY <1>2, CallersAssumption, FS_Subset, FS_CardinalityType
  <1>4. activeConnections[h] = Cardinality(Holders(h)) \/ activeConnections[h] = 0
    BY DEF ConnectionsAccounted
  <1> QED
    BY <1>1, <1>3, <1>4 DEF MaxConns

\* One load of the loop keeps what the scan knows.
LEMMA ScanStepKnows ==
    ASSUME ConnectionsAccounted, NEW s \in ScanTypes, s.next \in Hosts, Fewest(s)
    PROVE  Fewest(ScanStep(s)) /\ ScanStep(s).quiet = s.quiet
  <1> DEFINE conns == activeConnections[s.next]
             t == ScanStep(s)
  <1>1. /\ \A h \in Hosts : h \in Int /\ h >= 0
        /\ s.min \in Int /\ s.selected \in Hosts
    BY HostCountAssumption DEF Hosts, ScanTypes
  <1>2. \A h \in Hosts : activeConnections[h] \in Int /\ activeConnections[h] < MaxConns
    BY CountsBelowMax
  <1>3. /\ t.next = s.next + 1 /\ t.quiet = s.quiet
        /\ t.min = IF conns < s.min THEN conns ELSE s.min
        /\ t.selected = IF conns < s.min THEN s.next ELSE s.selected
    BY DEF ScanStep, ScanTypes
  <1> HIDE DEF t
  <1>4. CASE conns < s.min
    <2>1. t.min = activeConnections[t.selected]
      BY <1>3, <1>4
    <2>2. ASSUME NEW h \in Hosts, h < t.next PROVE t.min <= activeConnections[h]
      <3>1. h < s.next \/ h = s.next
        BY <1>1, <1>3, <2>2
      <3>2. CASE h = s.next
        BY <1>2, <1>3, <1>4, <3>2
      <3>3. CASE h < s.next
        <4>1. s.min <= activeConnections[h]
          BY <1>1, <3>3 DEF Fewest
        <4> QED
          BY <1>1, <1>2, <1>3, <1>4, <4>1
      <3> QED
        BY <3>1, <3>2, <3>3
    <2> QED
      BY <1>3, <2>1, <2>2 DEF Fewest, t
  <1>5. CASE ~(conns < s.min)
    <2>1. s.min = activeConnections[s.selected] /\
            \A h \in Hosts : h < s.next => s.min <= activeConnections[h]
      BY <1>2, <1>5 DEF Fewest
    <2>2. ASSUME NEW h \in Hosts, h < t.next PROVE t.min <= activeConnections[h]
      <3>1. h < s.next \/ h = s.next
        BY <1>1, <1>3, <2>2
      <3> QED
        BY <1>1, <1>2, <1>3, <1>5, <2>1, <3>1
    <2> QED
      BY <1>3, <1>5, <2>1, <2>2 DEF Fewest, t
  <1> QED
    BY <1>4, <1>5

\* A step that changes no counter, no scan and moves nobody within a scan.
LEMMA ScanKept ==
    ASSUME ScanInv, UNCHANGED <<activeConnections, scan, lbMode>>,
           \A c \in Callers : pc'[c] \in {"scan", "acquire"} =>
               pc'[c] = pc[c] /\ host'[c] = host[c]
    PROVE  ScanInv'
  BY DEF ScanInv, Fewest

LEMMA ScanStepInv ==
    ASSUME TypeOK, ConnectionsAccounted, ScanInv, [Next]_vars
    PROVE  ScanInv'
  <1>0. /\ scan \in [Callers -> ScanTypes] /\ pc \in [Callers -> PCs]
        /\ host \in [Callers -> Hosts]
    BY DEF TypeOK, ScanTypes
  <1>1. CASE ClockTick \/ UNCHANGED vars
    BY <1>1, ScanKept DEF ClockTick, vars, callVars, stateVars
  <1>2. ASSUME NEW c \in Callers, Cancel(c) PROVE ScanInv'
    BY <1>2, ScanKept DEF Cancel, stateVars
  <1>3. ASSUME NEW c \in Callers,
               \/ Begin(c) \/ CheckContext(c) \/ Admit(c) \/ Send(c) \/ Await(c)
               \/ ReadBody(c) \/ EndBackoff(c) \/ Report(c) \/ Finish(c)
        PROVE  ScanInv'
    <2>1. UNCHANGED <<activeConnections, scan, lbMode>>
      BY <1>3 DEF Begin, CheckContext, Admit, Send, Await, ReadBody, EndBackoff,
           Report, Finish, stateVars
    <2>2. /\ pc'[c] \notin {"scan", "acquire"}
          /\ \A d \in Callers \ {c} : pc'[d] = pc[d]
      BY <1>0, <1>3 DEF Begin, CheckContext, Admit, Send, Await, ReadBody,
           EndBackoff, Report, Finish, Goto
    <2>3. \A d \in Callers \ {c} : host'[d] = host[d]
      BY <1>0, <1>3 DEF Begin, CheckContext, Admit, Send, Await, ReadBody,
           EndBackoff, Report, Finish
    <2>4. \A d \in Callers : pc'[d] \in {"scan", "acquire"} =>
            pc'[d] = pc[d] /\ host'[d] = host[d]
      BY <2>2, <2>3
    <2> QED
      BY <2>1, <2>4, ScanKept
  <1>4. ASSUME NEW c \in Callers, Acquire(c) \/ Release(c) PROVE ScanInv'
    <2>1. /\ pc'[c] \notin {"scan", "acquire"}
          /\ \A d \in Callers \ {c} : pc'[d] = pc[d]
      BY <1>0, <1>4 DEF Acquire, Release, Goto
    <2>2. UNCHANGED <<host, lbMode>>
      BY <1>4 DEF Acquire, Release
    <2>3. CASE lbMode = "least_conns"
      <3>1. scan' = Disturb(c)
        BY <1>4, <2>3 DEF Acquire, Release, CountConnection
      <3> SUFFICES ASSUME NEW d \in Callers, scan'[d].quiet
                   PROVE  pc'[d] \notin {"scan", "acquire"}
        BY DEF ScanInv
      <3>2. CASE d = c
        BY <2>1, <3>2
      <3>3. CASE d # c
        <4>1. pc'[d] = pc[d]
          BY <2>1, <3>3
        <4>2. pc[d] \notin {"scan", "acquire"}
          BY <1>0, <3>1, <3>3 DEF Disturb, ScanTypes
        <4> QED
          BY <4>1, <4>2
      <3> QED
        BY <3>2, <3>3
    <2>4. CASE lbMode # "least_conns"
      BY <2>2, <2>4 DEF ScanInv
    <2> QED
      BY <2>3, <2>4
  <1>5. ASSUME NEW c \in Callers, Select(c) PROVE ScanInv'
    <2>1. CASE SelectOnly(c) \/ SelectRoundRobin(c)
      <3>1. CASE lbMode = "least_conns"
        <4>1. HostCount = 1 /\ UNCHANGED <<activeConnections, scan, lbMode>>
          BY <2>1, <3>1 DEF SelectOnly, SelectRoundRobin, stateVars
        <4>2. pc'[c] = "acquire" /\ \A d \in Callers \ {c} : pc'[d] = pc[d]
          BY <1>0, <2>1 DEF SelectOnly, SelectRoundRobin, Goto
        <4> QED
          BY <4>1, <4>2 DEF ScanInv, Fewest
      <3>2. CASE lbMode # "least_conns"
        BY <2>1, <3>2 DEF SelectOnly, SelectRoundRobin, stateVars, ScanInv
      <3> QED
        BY <3>1, <3>2
    <2>2. CASE StartScan(c) \/ ScanHost(c) \/ EndScan(c)
      <3>1. UNCHANGED <<activeConnections, lbMode>>
        BY <2>2 DEF StartScan, ScanHost, EndScan, stateVars
      <3> SUFFICES ASSUME lbMode = "least_conns", NEW d \in Callers, scan'[d].quiet
                   PROVE  /\ pc'[d] = "scan" => Fewest(scan'[d])
                          /\ pc'[d] = "acquire" =>
                               \/ HostCount = 1
                               \/ /\ Fewest(scan'[d]) /\ scan'[d].next = HostCount
                                  /\ host'[d] = scan'[d].selected
        BY <3>1 DEF ScanInv, Fewest
      <3>2. CASE d # c
        <4>1. scan'[d] = scan[d] /\ pc'[d] = pc[d] /\ host'[d] = host[d]
          BY <1>0, <2>2, <3>2 DEF StartScan, ScanHost, EndScan, Goto
        <4> QED
          BY <4>1 DEF ScanInv
      <3>3. CASE d = c /\ StartScan(c)
        <4>1. scan'[d] = NoScan /\ pc'[d] = "scan"
          BY <1>0, <3>3 DEF StartScan, Goto
        <4> QED
          BY <4>1 DEF NoScan, Fewest
      <3>4. CASE d = c /\ ScanHost(c)
        <4>1. /\ scan'[d] = ScanStep(scan[c]) /\ pc[c] = "scan" /\ pc'[d] = "scan"
              /\ scan[c].next < HostCount
          BY <1>0, <3>4 DEF ScanHost, Goto
        <4>2. scan[c] \in ScanTypes /\ scan[c].next \in Hosts
          BY <1>0, <4>1, HostCountAssumption DEF ScanTypes, Hosts
        <4>3. ScanStep(scan[c]).quiet = scan[c].quiet
          BY <4>2 DEF ScanStep, ScanTypes
        <4>4. Fewest(scan[c])
          BY <4>1, <4>3 DEF ScanInv
        <4> QED
          BY <4>1, <4>2, <4>4, ScanStepKnows
      <3>5. CASE d = c /\ EndScan(c)
        <4>1. /\ scan'[d] = scan[c] /\ pc[c] = "scan" /\ pc'[d] = "acquire"
              /\ scan[c].next = HostCount /\ host'[d] = scan[c].selected
          BY <1>0, <3>5 DEF EndScan, Goto
        <4> QED
          BY <4>1 DEF ScanInv
      <3> QED
        BY <2>2, <3>2, <3>3, <3>4, <3>5
    <2> QED
      BY <1>5, <2>1, <2>2 DEF Select
  <1> QED
    BY <1>1, <1>2, <1>3, <1>4, <1>5 DEF Next, Advance

\* A least_conns scan that no counter changed under finds a host with the
\* fewest connections, for any number of hosts and callers.
THEOREM LeastLoadedTheorem == Spec => []LeastLoadedWhenQuiet
  <1>1. Init => ScanInv
    BY DEF Init, ScanInv
  <1>2. TypeOK /\ ScanInv => LeastLoadedWhenQuiet
    <2> SUFFICES ASSUME TypeOK, ScanInv, NEW c \in Callers, pc[c] = "acquire",
                        lbMode = "least_conns", scan[c].quiet, NEW h \in Hosts
                 PROVE  activeConnections[host[c]] <= activeConnections[h]
      BY DEF LeastLoadedWhenQuiet
    <2>1. /\ host[c] \in Hosts /\ activeConnections[h] \in Int
          /\ activeConnections[host[c]] \in Int
      BY DEF TypeOK
    <2>2. CASE HostCount = 1
      <3>1. host[c] = 0 /\ h = 0
        BY <2>1, <2>2 DEF Hosts
      <3> QED
        BY <2>1, <3>1
    <2>3. CASE HostCount # 1
      <3>1. Fewest(scan[c]) /\ scan[c].next = HostCount /\ host[c] = scan[c].selected
        BY <2>3 DEF ScanInv
      <3>2. HostCount # 0 /\ h < HostCount
        BY HostCountAssumption DEF Hosts
      <3> QED
        BY <3>1, <3>2 DEF Fewest
    <2> QED
      BY <2>2, <2>3
  <1> QED
    BY <1>1, <1>2, ScanStepInv, TypeCorrect, AccountsTheorem, PTL DEF Spec

(***************************************************************************)
(* Round robin.  The selections since every host was last selected are     *)
(* hosts 1, 2, ... up to the remainder of the counter.  That takes the     *)
(* number of hosts to divide the counter's modulus: otherwise the sequence *)
(* breaks where the counter wraps.                                         *)
(***************************************************************************)
RoundInv ==
    picks = [h \in Hosts |->
                IF 1 <= h /\ h <= currentHostIdx % HostCount THEN 1 ELSE 0]

LEMMA Quotient ==
    ASSUME NEW n \in Nat \ {0}, NEW q \in Int, NEW r \in 0 .. n - 1
    PROVE  (n * q + r) % n = r
  <1> DEFINE a == n * q + r
             p == a \div n
             s == a % n
  <1>1. n * q \in Int /\ a \in Int
    OBVIOUS
  <1>2. s \in 0 .. n - 1 /\ p \in Int /\ a = n * p + s
    <2> HIDE DEF a
    <2> QED
      BY <1>1
  <1> HIDE DEF p, s
  <1>3. n * (q - p) = s - r /\ q - p \in Int /\ n * (q - p) \in Int
    BY <1>1, <1>2
  <1> DEFINE e == q - p
  <1> HIDE DEF e
  <1>4. e \in Int /\ n * e = s - r /\ s - r < n /\ -n < s - r
    BY <1>2, <1>3 DEF e
  <1>5. e = 0
    <2>1. CASE e >= 1
      <3>1. PICK f \in Nat : e = f + 1
        <4>1. e - 1 \in Nat /\ e = (e - 1) + 1
          BY <1>4, <2>1
        <4> QED
          BY <4>1
      <3>2. n * e = n * f + n /\ n * f >= 0 /\ n * f \in Int
        BY <3>1
      <3> QED
        BY <1>2, <1>4, <3>2
    <2>2. CASE e <= -1
      <3>1. PICK f \in Nat : e = -1 - f
        <4>1. -1 - e \in Nat /\ e = -1 - (-1 - e)
          BY <1>4, <2>2
        <4> QED
          BY <4>1
      <3>2. n * e = (-n) - n * f /\ n * f >= 0 /\ n * f \in Int
        BY <3>1
      <3> QED
        BY <1>2, <1>4, <3>2
    <2> QED
      BY <1>4, <2>1, <2>2
  <1>6. s = r
    BY <1>2, <1>4, <1>5
  <1> QED
    BY <1>6 DEF s

\* The next value of the counter selects the next host, around the wrap too.
LEMMA NextHost ==
    ASSUME IdxModulus % HostCount = 0, NEW i \in 0 .. IdxModulus - 1
    PROVE  /\ i % HostCount \in 0 .. HostCount - 1
           /\ ((i + 1) % IdxModulus) % HostCount =
                IF i % HostCount = HostCount - 1 THEN 0 ELSE (i % HostCount) + 1
  <1> DEFINE H == HostCount
             M == IdxModulus
             r == i % H
             q == i \div H
             m == M \div H
  <1>1. H \in Nat \ {0} /\ M \in Nat \ {0} /\ i \in Nat /\ i < M
    BY HostCountAssumption, IdxAssumption
  <1>2. r \in 0 .. H - 1 /\ q \in Int /\ i = H * q + r
    <2> HIDE DEF H
    <2> QED
      BY <1>1
  <1>3. m \in Int /\ M = H * m
    <2>1. M % H = 0
      OBVIOUS
    <2> HIDE DEF H, M
    <2>2. m \in Int /\ M = H * m + (M % H) /\ M % H \in Int
      BY <1>1
    <2>3. H * m \in Int
      BY <1>1, <2>2
    <2> QED
      BY <2>1, <2>2, <2>3
  <1>4. i + 1 < M => (i + 1) % M = i + 1
    BY <1>1
  <1>5. i + 1 = M => (i + 1) % M = 0
    BY <1>1
  <1> HIDE DEF H, M, r, q, m
  <1>6. H * q \in Int /\ H * (q + 1) = H * q + H /\ H * 0 = 0 /\ q + 1 \in Int
    BY <1>1, <1>2
  <1>7. CASE i + 1 < M /\ r # H - 1
    <2>1. i + 1 = H * q + (r + 1) /\ r + 1 \in 0 .. H - 1
      BY <1>1, <1>2, <1>6, <1>7
    <2>2. (i + 1) % H = r + 1
      BY <1>1, <1>2, <2>1, Quotient
    <2> QED
      BY <1>2, <1>4, <1>7, <2>2 DEF H, M, r
  <1>8. CASE i + 1 < M /\ r = H - 1
    <2>1. i + 1 = H * (q + 1) + 0 /\ 0 \in 0 .. H - 1
      BY <1>1, <1>2, <1>6, <1>8
    <2>2. (i + 1) % H = 0
      BY <1>1, <1>6, <2>1, Quotient
    <2> QED
      BY <1>2, <1>4, <1>8, <2>2 DEF H, M, r
  <1>9. CASE i + 1 = M
    <2>1. r = H - 1
      <3>1. CASE r # H - 1
        <4>1. i + 1 = H * q + (r + 1) /\ r + 1 \in 0 .. H - 1
          BY <1>1, <1>2, <1>6, <3>1
        <4>2. (H * q + (r + 1)) % H = r + 1
          BY <1>1, <1>2, <4>1, Quotient
        <4>3. M = H * q + (r + 1)
          BY <1>9, <4>1
        <4>4. M % H = 0
          BY DEF M, H
        <4>5. r + 1 = 0
          BY <4>2, <4>3, <4>4, Zenon
        <4> QED
          BY <1>2, <4>5
      <3> QED
        BY <3>1
    <2>2. 0 % H = 0
      <3>1. 0 = H * 0 + 0 /\ 0 \in 0 .. H - 1
        BY <1>1, <1>6
      <3> QED
        BY <1>1, <3>1, Quotient
    <2> QED
      BY <1>2, <1>5, <1>9, <2>1, <2>2 DEF H, M, r
  <1> QED
    BY <1>1, <1>7, <1>8, <1>9

LEMMA RoundStep ==
    ASSUME IdxModulus % HostCount = 0, TypeOK, RoundInv, [Next]_vars
    PROVE  RoundInv'
  <1>1. ASSUME NEW c \in Callers, SelectRoundRobin(c) PROVE RoundInv'
    <2> DEFINE r == currentHostIdx % HostCount
    <2>1. /\ HostCount \in Nat \ {0} /\ HostCount > 1
          /\ currentHostIdx \in 0 .. IdxModulus - 1
      BY <1>1, HostCountAssumption DEF SelectRoundRobin, TypeOK
    <2>2. /\ r \in 0 .. HostCount - 1
          /\ currentHostIdx' % HostCount = IF r = HostCount - 1 THEN 0 ELSE r + 1
      BY <1>1, <2>1, NextHost DEF SelectRoundRobin
    <2>3. picks' = Picked(currentHostIdx' % HostCount)
      BY <1>1 DEF SelectRoundRobin, TypeOK
    <2>4. picks = [h \in Hosts |-> IF 1 <= h /\ h <= r THEN 1 ELSE 0]
      BY DEF RoundInv
    <2> HIDE DEF r
    <2>5. \A h \in Hosts : h \in Int /\ 0 <= h /\ h <= HostCount - 1
      BY <2>1 DEF Hosts
    <2>6. CASE r = HostCount - 1
      <3> DEFINE p == [picks EXCEPT ![0] = @ + 1]
      <3>1. p = [h \in Hosts |-> 1]
        BY <2>1, <2>4, <2>5, <2>6, SMTT(40) DEF Hosts
      <3>2. picks' = [h \in Hosts |-> p[h] - 1]
        <4>1. \A g \in Hosts : p[g] > 0
          BY <3>1
        <4> QED
          BY <2>2, <2>3, <2>6, <4>1 DEF Picked
      <3> HIDE DEF p
      <3>3. picks' = [h \in Hosts |-> 0]
        BY <3>1, <3>2
      <3> QED
        BY <2>2, <2>5, <2>6, <3>3 DEF RoundInv
    <2>7. CASE r # HostCount - 1
      <3> DEFINE p == [picks EXCEPT ![r + 1] = @ + 1]
      <3>1. r + 1 \in Hosts /\ 0 \in Hosts /\ r \in Int /\ r >= 0
        BY <2>1, <2>2, <2>7 DEF Hosts
      <3>2. p = [h \in Hosts |-> IF 1 <= h /\ h <= r + 1 THEN 1 ELSE 0]
        BY <2>4, <2>5, <3>1
      <3>3. picks' = p
        <4>1. ~(\A g \in Hosts : p[g] > 0)
          BY <3>1, <3>2
        <4> QED
          BY <2>2, <2>3, <2>7, <4>1 DEF Picked
      <3> HIDE DEF p
      <3> QED
        BY <2>2, <2>7, <3>2, <3>3 DEF RoundInv
    <2> QED
      BY <2>6, <2>7
  <1>2. CASE UNCHANGED <<picks, currentHostIdx>>
    BY <1>2 DEF RoundInv
  <1>3. ASSUME NEW c \in Callers, Advance(c), ~SelectRoundRobin(c)
        PROVE  UNCHANGED <<picks, currentHostIdx>>
    BY <1>3 DEF Advance, CheckContext, Admit, Select, SelectOnly, StartScan,
         ScanHost, EndScan, Acquire, Send, Await, ReadBody, Release, EndBackoff,
         Report, Finish, stateVars
  <1>4. CASE ClockTick \/ UNCHANGED vars
    BY <1>2, <1>4 DEF ClockTick, vars, callVars, stateVars
  <1>5. ASSUME NEW c \in Callers, Begin(c) \/ Cancel(c)
        PROVE  UNCHANGED <<picks, currentHostIdx>>
    BY <1>5 DEF Begin, Cancel, stateVars
  <1> QED
    BY <1>1, <1>2, <1>3, <1>4, <1>5 DEF Next

\* Round robin is fair over the selections of any number of concurrent
\* callers, for every number of hosts that divides the counter's modulus
\* (2^64 in the code, so the powers of two): no host is ever more than one
\* selection ahead of another, around the wrap too.
THEOREM RoundRobinTheorem ==
    ASSUME IdxModulus % HostCount = 0
    PROVE  Spec => []RoundRobinBalanced
  <1>1. Init => RoundInv
    <2> SUFFICES ASSUME Init PROVE RoundInv
      OBVIOUS
    <2>1. 0 % HostCount = 0 /\ \A h \in Hosts : h \in Int
      BY HostCountAssumption DEF Hosts
    <2> QED
      BY <2>1 DEF Init, RoundInv
  <1>2. RoundInv => RoundRobinBalanced
    BY DEF RoundInv, RoundRobinBalanced
  <1>3. TypeOK /\ RoundInv /\ [Next]_vars => RoundInv'
    BY RoundStep
  <1> QED
    BY <1>1, <1>2, <1>3, TypeCorrect, PTL DEF Spec

-----------------------------------------------------------------------------
(* Retries *)

(***************************************************************************)
(* NeverReplayed is not inductive: it says nothing of the attempt number.  *)
(* The strengthening counts the attempts sent against the loop variable (a *)
(* caller that has not yet sent its current attempt has sent at most       *)
(* attempt of them) and keeps the loop variable at 0 for a method that is  *)
(* not idempotent, through the backoff included.                           *)
(***************************************************************************)
BeforeSend == {"idle", "check", "allow", "select", "scan", "acquire", "send"}

SendsInv ==
    \A c \in Callers :
        /\ sends[c] <= attempt[c] + 1
        /\ pc[c] \in BeforeSend => sends[c] <= attempt[c]
        /\ pc[c] = "idle" => attempt[c] = 0
        /\ pc[c] = "backoff" => isIdempotent(method[c])
        /\ attempt[c] > 0 => isIdempotent(method[c])

LEMMA SendsStep ==
    ASSUME TypeOK, SendsInv, [Next]_vars
    PROVE  SendsInv'
  <1> USE DEF SendsInv, BeforeSend
  <1>1. CASE ClockTick \/ UNCHANGED vars
    BY <1>1 DEF ClockTick, vars, callVars
  <1>2. ASSUME NEW c \in Callers, Begin(c)
        PROVE  SendsInv'
    BY <1>2 DEF Begin, Goto, TypeOK
  <1>3. ASSUME NEW c \in Callers, Cancel(c)
        PROVE  SendsInv'
    BY <1>3 DEF Cancel
  <1>4. ASSUME NEW c \in Callers,
               \/ CheckContext(c) \/ Admit(c) \/ Select(c) \/ Acquire(c)
        PROVE  SendsInv'
    BY <1>4 DEF CheckContext, Admit, Select, SelectOnly, SelectRoundRobin,
                StartScan, ScanHost, EndScan, Acquire, Goto, TypeOK
  <1>5. ASSUME NEW c \in Callers, Send(c)
        PROVE  SendsInv'
    BY <1>5 DEF Send, Goto, TypeOK
  <1>6. ASSUME NEW c \in Callers,
               \/ Await(c) \/ ReadBody(c) \/ Report(c)
        PROVE  SendsInv'
    BY <1>6 DEF Await, ReadBody, Report, Goto, TypeOK
  <1>7. ASSUME NEW c \in Callers, Release(c)
        PROVE  SendsInv'
    <2>1. /\ UNCHANGED <<method, sends>>
          /\ pc[c] = "release"
      BY <1>7 DEF Release, Goto
    <2>2. CASE Retries(c)
      <3>1. isIdempotent(method[c])
        BY <2>2 DEF Retries, shouldRetry
      <3>2. CASE UNCHANGED attempt /\ pc' = [pc EXCEPT ![c] = "backoff"]
        BY <2>1, <3>1, <3>2 DEF TypeOK
      <3>3. CASE /\ attempt' = [attempt EXCEPT ![c] = @ + 1]
                 /\ pc' = [pc EXCEPT ![c] = "check"]
        BY <2>1, <3>1, <3>3 DEF TypeOK
      <3> QED
        BY <1>7, <2>2, <3>2, <3>3 DEF Release, Goto
    <2>3. CASE ~Retries(c)
      BY <1>7, <2>1, <2>3 DEF Release, Goto, TypeOK
    <2> QED
      BY <2>2, <2>3
  <1>8. ASSUME NEW c \in Callers, EndBackoff(c)
        PROVE  SendsInv'
    BY <1>8 DEF EndBackoff, Goto, TypeOK
  <1>9. ASSUME NEW c \in Callers, Finish(c)
        PROVE  SendsInv'
    BY <1>9 DEF Finish, Goto, TypeOK
  <1> QED
    BY <1>1, <1>2, <1>3, <1>4, <1>5, <1>6, <1>7, <1>8, <1>9 DEF Next, Advance

\* Non-idempotent methods are never replayed, whatever max_retries and
\* retry_on_statuses say, and no call sends more than max_retries + 1 attempts.
THEOREM ReplayTheorem == Spec => []NeverReplayed
  <1>1. Init => SendsInv
    BY DEF Init, SendsInv, BeforeSend
  <1>2. TypeOK /\ SendsInv => NeverReplayed
    BY RetriesAssumption DEF TypeOK, SendsInv, NeverReplayed
  <1> QED
    BY <1>1, <1>2, SendsStep, TypeCorrect, PTL DEF Spec

-----------------------------------------------------------------------------
(* The contract *)

(***************************************************************************)
(* What a caller holds on its way to Report: before the policy is applied  *)
(* the answer has the status of its kind, a status only if an attempt was  *)
(* sent, and no body over the limit unless it failed.                      *)
(***************************************************************************)
Held(c) ==
    /\ Promised(resp[c].kind, resp[c].status)
    /\ resp[c].status # 0 => sends[c] > 0
    /\ LimitBody => resp[c].body # "too_large"

AnswerInv ==
    \A c \in Callers :
        /\ pc[c] = "await" => sends[c] > 0
        /\ pc[c] = "read" => sends[c] > 0 /\ resp[c].status \in Statuses
        /\ pc[c] \in {"release", "report"} => Held(c)

LEMMA FailedHeld ==
    ASSUME NEW c \in Callers, TypeOK, NEW k,
           k \in {"timeout", "connection", "canceled", "circuit_open", "internal"},
           Return(c, Failed(k))
    PROVE  Held(c)'
  <1>1. resp'[c] = Failed(k)
    BY DEF Return, TypeOK
  <1> QED
    BY <1>1 DEF Held, Failed, Response, Promised, NoError

LEMMA ReadHeld ==
    ASSUME NEW st \in Statuses, NEW b \in Bodies
    PROVE  LET r == readResponse(st, b)
           IN  /\ Promised(r.kind, r.status)
               /\ LimitBody => r.body # "too_large"
  <1>1. st \in 100 .. 599
    BY StatusesAssumption
  <1> QED
    BY <1>1 DEF readResponse, Response, Promised, classifyStatus, NoError

LEMMA AnswerStep ==
    ASSUME TypeOK, AnswerInv, [Next]_vars
    PROVE  AnswerInv'
  <1> USE DEF AnswerInv
  <1>1. CASE ClockTick \/ UNCHANGED vars
    BY <1>1 DEF ClockTick, vars, callVars, Held
  <1>2. ASSUME NEW c \in Callers, Begin(c) \/ Cancel(c) \/ Acquire(c) \/ Select(c)
        PROVE  AnswerInv'
    BY <1>2 DEF Begin, Cancel, Acquire, Select, SelectOnly, SelectRoundRobin,
                StartScan, ScanHost, EndScan, Goto, Held, TypeOK
  <1>3. ASSUME NEW c \in Callers, CheckContext(c)
        PROVE  AnswerInv'
    <2>1. CASE UNCHANGED resp /\ Goto(c, "check", "allow")
      BY <1>3, <2>1 DEF CheckContext, Goto, Held, TypeOK
    <2>2. CASE Goto(c, "check", "report") /\ Return(c, Failed("canceled"))
      <3>1. Held(c)'
        BY <2>2, FailedHeld
      <3> QED
        BY <1>3, <2>2, <3>1 DEF CheckContext, Goto, Return, Held, TypeOK
    <2> QED
      BY <1>3, <2>1, <2>2 DEF CheckContext
  <1>4. ASSUME NEW c \in Callers, Admit(c)
        PROVE  AnswerInv'
    <2>1. CASE UNCHANGED resp /\ Goto(c, "allow", "select")
      BY <1>4, <2>1 DEF Admit, Goto, Held, TypeOK
    <2>2. CASE Goto(c, "allow", "report") /\ Return(c, Failed("circuit_open"))
      <3>1. Held(c)'
        BY <2>2, FailedHeld
      <3> QED
        BY <1>4, <2>2, <3>1 DEF Admit, Goto, Return, Held, TypeOK
    <2> QED
      BY <1>4, <2>1, <2>2 DEF Admit
  <1>5. ASSUME NEW c \in Callers, Send(c)
        PROVE  AnswerInv'
    <2>1. CASE /\ UNCHANGED resp /\ Goto(c, "send", "await")
               /\ sends' = [sends EXCEPT ![c] = @ + 1]
      BY <2>1 DEF Goto, Held, TypeOK
    <2>2. CASE /\ Goto(c, "send", "release") /\ UNCHANGED sends
               /\ Return(c, Failed("internal"))
      <3>1. Held(c)'
        BY <2>2, FailedHeld
      <3> QED
        BY <2>2, <3>1 DEF Goto, Return, Held, TypeOK
    <2> QED
      BY <1>5, <2>1, <2>2 DEF Send
  <1>6. ASSUME NEW c \in Callers, Await(c)
        PROVE  AnswerInv'
    <2>1. ASSUME NEW k \in classifyDoError(c), Goto(c, "await", "release"),
                 Return(c, Failed(k)), UNCHANGED sends
          PROVE  AnswerInv'
      <3>1. Held(c)'
        BY <2>1, FailedHeld DEF classifyDoError
      <3> QED
        BY <2>1, <3>1 DEF Goto, Return, Held, TypeOK
    <2>2. ASSUME NEW st \in Statuses, Goto(c, "await", "read"),
                 Return(c, Response(NoError, st, "empty")), UNCHANGED sends
          PROVE  AnswerInv'
      <3>1. resp'[c].status = st
        BY <2>2 DEF Return, Response, TypeOK
      <3> QED
        BY <2>2, <3>1 DEF Goto, Return, Held, TypeOK
    <2> QED
      BY <1>6, <2>1, <2>2 DEF Await
  <1>7. ASSUME NEW c \in Callers, ReadBody(c)
        PROVE  AnswerInv'
    <2>1. /\ sends[c] > 0 /\ resp[c].status \in Statuses
          /\ Goto(c, "read", "release") /\ UNCHANGED sends
      BY <1>7 DEF ReadBody, Goto
    <2>2. ASSUME NEW b \in Bodies, Return(c, readResponse(resp[c].status, b))
          PROVE  Held(c)'
      <3>1. resp'[c] = readResponse(resp[c].status, b)
        BY <2>2 DEF Return, TypeOK
      <3> QED
        BY <2>1, <2>2, <3>1, ReadHeld DEF Held
    <2>3. ASSUME NEW k \in readErrorKinds(c),
                 Return(c, Response(k, resp[c].status, "empty"))
          PROVE  Held(c)'
      <3>1. resp'[c] = Response(k, resp[c].status, "empty")
        BY <2>3 DEF Return, TypeOK
      <3>2. k \in {"canceled", "read_error"}
        <4>1. cancelled[c] \in BOOLEAN
          BY DEF TypeOK
        <4> QED
          BY <4>1, <2>3, FlagsAssumption, Zenon DEF readErrorKinds
      <3> QED
        BY <2>1, <3>1, <3>2 DEF Held, Response, Promised, NoError
    <2>4. Held(c)' /\ \E r : Return(c, r)
      BY <1>7, <2>2, <2>3, Zenon DEF ReadBody
    <2> QED
      BY <2>1, <2>4 DEF Goto, Return, Held, TypeOK
  <1>8. ASSUME NEW c \in Callers, Release(c)
        PROVE  AnswerInv'
    BY <1>8 DEF Release, Goto, Held, TypeOK
  <1>9. ASSUME NEW c \in Callers, EndBackoff(c)
        PROVE  AnswerInv'
    <2>1. CASE UNCHANGED resp /\ Goto(c, "backoff", "check")
      BY <1>9, <2>1 DEF EndBackoff, Goto, Held, TypeOK
    <2>2. CASE Goto(c, "backoff", "report") /\ Return(c, Failed("canceled"))
      <3>1. Held(c)'
        BY <2>2, FailedHeld
      <3> QED
        BY <1>9, <2>2, <3>1 DEF EndBackoff, Goto, Return, Held, TypeOK
    <2> QED
      BY <1>9, <2>1, <2>2 DEF EndBackoff
  <1>10. ASSUME NEW c \in Callers, Report(c) \/ Finish(c)
         PROVE  AnswerInv'
    BY <1>10 DEF Report, Finish, Goto, Return, Held, TypeOK
  <1> QED
    BY <1>1, <1>2, <1>3, <1>4, <1>5, <1>6, <1>7, <1>8, <1>9, <1>10 DEF Next, Advance

InsideCall == {"check", "allow", "select", "scan", "acquire", "send", "await",
               "read", "release", "backoff", "report"}

\* A step between two places inside the call is invisible in the contract.
LEMMA InsideStutters ==
    ASSUME TypeOK, NEW c \in Callers, NEW from, NEW to, Goto(c, from, to),
           from \in InsideCall, to \in InsideCall,
           UNCHANGED resp \/ \E r : Return(c, r),
           UNCHANGED sends \/ \E n : sends' = [sends EXCEPT ![c] = n]
    PROVE  UNCHANGED <<callPhase, callAnswer>>
  <1>1. \A d \in Callers : d # c => /\ pc'[d] = pc[d] /\ resp'[d] = resp[d]
                                   /\ sends'[d] = sends[d]
    BY DEF Goto, Return, TypeOK
  <1>2. /\ pc[c] = from /\ pc'[c] = to
        /\ from \notin {"idle", "done"} /\ to \notin {"idle", "done"}
    BY DEF Goto, TypeOK, InsideCall
  <1>3. callPhase' = callPhase
    BY <1>1, <1>2 DEF callPhase
  <1>4. callAnswer' = callAnswer
    BY <1>1, <1>2 DEF callAnswer
  <1> QED
    BY <1>3, <1>4

\* applyPolicy turns what a caller holds into a promised answer.
LEMMA PolicyPromised ==
    ASSUME TypeOK, NEW c \in Callers, Held(c)
    PROVE  LET r == applyPolicy(resp[c])
           IN  [kind |-> r.kind, status |-> r.status, body |-> r.body,
                sent |-> sends[c] > 0] \in Contract!PromisedAnswers
  <1> DEFINE k == resp[c].kind
             st == resp[c].status
             b == resp[c].body
             p == policyKind(k, b = "empty", RequireBody)
  <1>1. /\ k \in Kinds \union {NoError} /\ st \in Statuses \union {0}
        /\ b \in BodySizes /\ sends[c] \in Nat /\ resp[c] \in ResponseType
    BY DEF TypeOK, ResponseType
  <1>2. st \in 0 .. 599
    <2>1. \A x \in Statuses \union {0} : x \in 0 .. 599
      BY StatusesAssumption
    <2> QED
      BY <1>1, <2>1
  <1>3. /\ applyPolicy(resp[c]).kind = p /\ applyPolicy(resp[c]).status = st
        /\ applyPolicy(resp[c]).body = b
    BY <1>1 DEF applyPolicy, ResponseType
  <1>4. p \in Kinds \union {NoError}
    BY <1>1, PolicyKindType
  <1>5. Promised(p, st)
    <2>1. p = k \/ p = "policy_violation"
      BY DEF policyKind
    <2> QED
      BY <2>1 DEF Held, Promised, NoError
  <1>6. p = NoError \/ isPropagatable(p) => (RequireBody => b # "empty")
    BY FlagsAssumption DEF policyKind, isPropagatable, isStatusFailure, NoError
  <1>7. (sends[c] > 0) \in BOOLEAN
    BY <1>1
  <1>8. st # 0 => sends[c] > 0
    BY DEF Held
  <1>9. LimitBody => b # "too_large"
    BY DEF Held
  <1> HIDE DEF k, st, b, p
  <1> DEFINE a == [kind |-> p, status |-> st, body |-> b, sent |-> sends[c] > 0]
  <1>10. a \in Contract!PromisedAnswers
    <2>1. a \in [kind : Kinds \union {NoError}, status : 0 .. 599,
                 body : {"empty", "fits", "too_large"}, sent : BOOLEAN]
      BY <1>1, <1>2, <1>4, <1>7 DEF BodySizes
    <2>2. Contract!Kinds = Kinds /\ Contract!NoError = NoError
      BY DEF Contract!Kinds, Kinds, Contract!NoError, NoError
    <2>3. Contract!Promised(a.kind, a.status)
      BY <1>5 DEF Contract!Promised, Promised, Contract!NoError, NoError
    <2>4. a.kind = NoError \/ Contract!isPropagatable(a.kind) =>
            /\ RequireBody => a.body # "empty"
            /\ LimitBody => a.body # "too_large"
      BY <1>6, <1>9 DEF Contract!isPropagatable, isPropagatable
    <2>5. a.status # 0 => a.sent
      BY <1>8
    <2> HIDE DEF a
    <2> QED
      BY <2>1, <2>2, <2>3, <2>4, <2>5, Zenon DEF Contract!PromisedAnswers
  <1> QED
    BY <1>3, <1>10

LEMMA ContractStep ==
    ASSUME TypeOK, AnswerInv, [Next]_vars
    PROVE  [Contract!Next]_<<callPhase, callAnswer>>
  <1>1. CASE ClockTick \/ UNCHANGED vars
    BY <1>1 DEF ClockTick, vars, callVars, callPhase, callAnswer
  <1>2. ASSUME NEW c \in Callers, Cancel(c)
        PROVE  UNCHANGED <<callPhase, callAnswer>>
    BY <1>2 DEF Cancel, callPhase, callAnswer
  <1>3. ASSUME NEW c \in Callers, Begin(c)
        PROVE  Contract!Start(c)
    <2>1. pc[c] = "idle" /\ pc' = [pc EXCEPT ![c] = "check"] /\ UNCHANGED <<resp, sends>>
      BY <1>3 DEF Begin, Goto
    <2>2. callPhase[c] = "idle" /\ callPhase' = [callPhase EXCEPT ![c] = "pending"]
      BY <2>1 DEF callPhase, TypeOK
    <2>3. callAnswer' = callAnswer
      BY <2>1 DEF callAnswer, TypeOK
    <2> QED
      BY <2>2, <2>3 DEF Contract!Start
  <1>4. ASSUME NEW c \in Callers,
               \/ CheckContext(c) \/ Admit(c) \/ Select(c) \/ Acquire(c) \/ Send(c)
               \/ Await(c) \/ ReadBody(c) \/ Release(c) \/ EndBackoff(c)
        PROVE  UNCHANGED <<callPhase, callAnswer>>
    <2>1. UNCHANGED resp \/ \E r : Return(c, r)
      BY <1>4, Zenon DEF CheckContext, Admit, Select, SelectOnly, SelectRoundRobin,
           StartScan, ScanHost, EndScan, Acquire, Send, Await, ReadBody, Release,
           EndBackoff
    <2>2. UNCHANGED sends \/ \E n : sends' = [sends EXCEPT ![c] = n]
      BY <1>4, Zenon DEF CheckContext, Admit, Select, SelectOnly, SelectRoundRobin,
           StartScan, ScanHost, EndScan, Acquire, Send, Await, ReadBody, Release,
           EndBackoff
    <2>3. \E from, to : Goto(c, from, to) /\ from \in InsideCall /\ to \in InsideCall
      BY <1>4, Zenon DEF CheckContext, Admit, Select, SelectOnly, SelectRoundRobin,
           StartScan, ScanHost, EndScan, Acquire, Send, Await, ReadBody, Release,
           EndBackoff, InsideCall
    <2> QED
      BY <2>1, <2>2, <2>3, InsideStutters
  <1>5. ASSUME NEW c \in Callers, Report(c)
        PROVE  Contract!Answer(c)
    <2>1. /\ pc[c] = "report" /\ pc' = [pc EXCEPT ![c] = "done"] /\ UNCHANGED sends
          /\ resp' = [resp EXCEPT ![c] = applyPolicy(resp[c])]
      BY <1>5 DEF Report, Goto, Return
    <2>2. Held(c)
      BY <2>1 DEF AnswerInv
    <2>3. callPhase[c] = "pending" /\ callPhase' = [callPhase EXCEPT ![c] = "done"]
      BY <2>1 DEF callPhase, TypeOK
    <2>4. callAnswer'[c] =
            [kind |-> applyPolicy(resp[c]).kind, status |-> applyPolicy(resp[c]).status,
             body |-> applyPolicy(resp[c]).body, sent |-> sends[c] > 0]
      BY <2>1 DEF callAnswer, TypeOK
    <2>5. callAnswer'[c] \in Contract!PromisedAnswers
      BY <2>2, <2>4, PolicyPromised
    <2>6. callAnswer' = [callAnswer EXCEPT ![c] = callAnswer'[c]]
      BY <2>1 DEF callAnswer, TypeOK
    <2> QED
      BY <2>3, <2>5, <2>6 DEF Contract!Answer
  <1>6. ASSUME NEW c \in Callers, Finish(c)
        PROVE  Contract!Take(c)
    <2>1. /\ pc[c] = "done" /\ pc' = [pc EXCEPT ![c] = "idle"]
          /\ sends' = [sends EXCEPT ![c] = 0]
          /\ resp' = [resp EXCEPT ![c] = Failed(NoError)]
      BY <1>6 DEF Finish, Goto, Return
    <2>2. callPhase[c] = "done" /\ callPhase' = [callPhase EXCEPT ![c] = "idle"]
      BY <2>1 DEF callPhase, TypeOK
    <2>3. callAnswer' = [callAnswer EXCEPT ![c] = Contract!NoAnswer]
      BY <2>1 DEF callAnswer, Contract!NoAnswer, Contract!NoError, NoError, TypeOK
    <2> QED
      BY <2>2, <2>3 DEF Contract!Take
  <1> QED
    BY <1>1, <1>2, <1>3, <1>4, <1>5, <1>6 DEF Next, Advance, Contract!Next

\* The call path implements the contract of call(): with any number of
\* concurrent callers, hosts and retries, every call gets one answer, the
\* answer is one the classification and the policy allow, and it does not
\* change until the scatter has taken it.
THEOREM ContractTheorem == Spec => CallContract
  <1>1. Init => AnswerInv
    BY DEF Init, AnswerInv
  <1>2. Init => Contract!Init
    BY DEF Init, Contract!Init, Contract!NoAnswer, Contract!NoError, NoError,
           callPhase, callAnswer
  <1>3. Spec => []AnswerInv
    BY <1>1, AnswerStep, TypeCorrect, PTL DEF Spec
  <1> QED
    BY <1>2, <1>3, ContractStep, TypeCorrect, PTL DEF Spec, CallContract, Contract!Spec
=============================================================================
