-------------------------- MODULE DeploymentProofs --------------------------
(* Proofs about the life of the process (module Server), about the         *)
(* configuration it is started on (Config) and about both (Deployment).    *)
EXTENDS Deployment, FiniteSetTheorems, WellFoundedInduction, TLAPS

AfterDrain == {"drain_admin", "close_router", "shutdown_providers", "receive", "join_watcher"}

\* What the shutdown order rests on: from the moment the data server has been
\* drained it admits nobody any more, and nothing is closed before.
DrainInv ==
    /\ "data" \in stopping => shuttingDown
    /\ \A s \in stopping : listener[s] # "serving"
    /\ listener["data"] = "closed" => "data" \in stopping
    /\ main = "stop" => shuttingDown
    /\ main = "drain_data" => "data" \in stopping
    /\ routerClosed \/ providersDown \/ main \in AfterDrain =>
           "data" \in stopping /\ (expired \/ inflight = {})

\* What the exit code rests on: Start returns once, after both servers, and a
\* listener that has ended stays as it is.
ExitInv ==
    /\ main = "boot" => \A s \in Servers : listener[s] = "new"
    /\ main = "exit" => serverErrCh # "none" \/ \A s \in Servers : listener[s] = "new"
    /\ main = "join_watcher" => serverErrCh # "none"
    /\ serverErrCh # "none" =>
           /\ \A s \in Servers : listener[s] \in {"failed", "closed"}
           /\ serverErrCh = "error" <=> \E s \in Servers : listener[s] = "failed"
    /\ main \in {"join_watcher", "exit"} /\ serverErrCh # "none" =>
           (exitCode = 1 <=> serverErrCh = "error")

LEMMA TypeOKInit == Init => TypeOK
  BY DEF Init, TypeOK, MainPCs, Servers

LEMMA TypeOKNext == TypeOK /\ [Next]_vars => TypeOK'
<1> SUFFICES ASSUME TypeOK, [Next]_vars PROVE TypeOK'
  OBVIOUS
<1> USE DEF TypeOK, MainPCs, Servers, Goto, CloseListener
<1>1. ASSUME NEW s \in Servers, Listen(s) PROVE TypeOK'
  BY <1>1 DEF Listen
<1>2. ASSUME NEW s \in Servers, ServeFails(s) PROVE TypeOK'
  BY <1>2 DEF ServeFails
<1>3. CASE StartReturns
  BY <1>3, ZenonT(40) DEF StartReturns
<1>4. ASSUME NEW r \in Requests, Arrive(r) PROVE TypeOK'
  BY <1>4 DEF Arrive
<1>5. ASSUME NEW r \in Requests, Finish(r) PROVE TypeOK'
  BY <1>5 DEF Finish
<1>6. CASE Signal
  BY <1>6 DEF Signal
<1>7. CASE WatcherExits
  BY <1>7 DEF WatcherExits
<1>8. CASE Boot
  BY <1>8 DEF Boot
<1>9. CASE BeginStop
  BY <1>9 DEF BeginStop
<1>18. CASE ShutdownData
  BY <1>18 DEF ShutdownData
<1>10. CASE Expire
  BY <1>10 DEF Expire
<1>11. CASE DrainData
  BY <1>11 DEF DrainData
<1>12. CASE DrainAdmin
  BY <1>12 DEF DrainAdmin
<1>13. CASE CloseRouter
  BY <1>13 DEF CloseRouter
<1>14. CASE ShutdownProviders
  BY <1>14 DEF ShutdownProviders
<1>15. CASE Receive
  BY <1>15 DEF Receive
<1>16. CASE Exit
  BY <1>16 DEF Exit
<1>17. CASE UNCHANGED vars
  BY <1>17 DEF vars
<1> QED
  BY <1>1, <1>2, <1>3, <1>4, <1>5, <1>6, <1>7, <1>8, <1>9, <1>10, <1>11, <1>12,
     <1>13, <1>14, <1>15, <1>16, <1>17, <1>18 DEF Next, Shutdown, Background

LEMMA DrainInvInit == Init => DrainInv
  BY DEF Init, DrainInv, AfterDrain, Servers

LEMMA DrainInvNext == TypeOK /\ DrainInv /\ [Next]_vars => DrainInv'
<1> SUFFICES ASSUME TypeOK, DrainInv, [Next]_vars PROVE DrainInv'
  OBVIOUS
<1> USE DEF TypeOK, DrainInv, AfterDrain, Servers, Goto, CloseListener
<1>1. ASSUME NEW s \in Servers, Listen(s) PROVE DrainInv'
  BY <1>1 DEF Listen
<1>2. ASSUME NEW s \in Servers, ServeFails(s) PROVE DrainInv'
  BY <1>2 DEF ServeFails
<1>3. CASE StartReturns
  BY <1>3 DEF StartReturns
<1>4. ASSUME NEW r \in Requests, Arrive(r) PROVE DrainInv'
  BY <1>4 DEF Arrive
<1>5. ASSUME NEW r \in Requests, Finish(r) PROVE DrainInv'
  BY <1>5 DEF Finish
<1>6. CASE Signal
  BY <1>6 DEF Signal
<1>7. CASE WatcherExits
  BY <1>7 DEF WatcherExits
<1>8. CASE Boot
  BY <1>8 DEF Boot
<1>9. CASE BeginStop
  BY <1>9 DEF BeginStop
<1>18. CASE ShutdownData
  BY <1>18 DEF ShutdownData
<1>10. CASE Expire
  BY <1>10 DEF Expire
<1>11. CASE DrainData
  BY <1>11 DEF DrainData
<1>12. CASE DrainAdmin
  BY <1>12 DEF DrainAdmin
<1>13. CASE CloseRouter
  BY <1>13 DEF CloseRouter
<1>14. CASE ShutdownProviders
  BY <1>14 DEF ShutdownProviders
<1>15. CASE Receive
  BY <1>15 DEF Receive
<1>16. CASE Exit
  BY <1>16 DEF Exit
<1>17. CASE UNCHANGED vars
  BY <1>17 DEF vars
<1> QED
  BY <1>1, <1>2, <1>3, <1>4, <1>5, <1>6, <1>7, <1>8, <1>9, <1>10, <1>11, <1>12,
     <1>13, <1>14, <1>15, <1>16, <1>17, <1>18 DEF Next, Shutdown, Background

LEMMA ExitInvInit == Init => ExitInv
  BY DEF Init, ExitInv, Servers

LEMMA ExitInvNext == TypeOK /\ ExitInv /\ [Next]_vars => ExitInv'
<1> SUFFICES ASSUME TypeOK, ExitInv, [Next]_vars PROVE ExitInv'
  OBVIOUS
<1> USE DEF TypeOK, ExitInv, Servers, Goto, CloseListener
<1>1. ASSUME NEW s \in Servers, Listen(s) PROVE ExitInv'
  BY <1>1 DEF Listen
<1>2. ASSUME NEW s \in Servers, ServeFails(s) PROVE ExitInv'
  BY <1>2 DEF ServeFails
<1>3. CASE StartReturns
  BY <1>3 DEF StartReturns
<1>4. ASSUME NEW r \in Requests, Arrive(r) PROVE ExitInv'
  BY <1>4 DEF Arrive
<1>5. ASSUME NEW r \in Requests, Finish(r) PROVE ExitInv'
  BY <1>5 DEF Finish
<1>6. CASE Signal
  BY <1>6 DEF Signal
<1>7. CASE WatcherExits
  BY <1>7 DEF WatcherExits
<1>8. CASE Boot
  BY <1>8 DEF Boot
<1>9. CASE BeginStop
  BY <1>9 DEF BeginStop
<1>18. CASE ShutdownData
  BY <1>18 DEF ShutdownData
<1>10. CASE Expire
  BY <1>10 DEF Expire
<1>11. CASE DrainData
  BY <1>11 DEF DrainData
<1>12. CASE DrainAdmin
  BY <1>12 DEF DrainAdmin
<1>13. CASE CloseRouter
  BY <1>13 DEF CloseRouter
<1>14. CASE ShutdownProviders
  BY <1>14 DEF ShutdownProviders
<1>15. CASE Receive
  BY <1>15 DEF Receive
<1>16. CASE Exit
  BY <1>16 DEF Exit
<1>17. CASE UNCHANGED vars
  BY <1>17 DEF vars
<1> QED
  BY <1>1, <1>2, <1>3, <1>4, <1>5, <1>6, <1>7, <1>8, <1>9, <1>10, <1>11, <1>12,
     <1>13, <1>14, <1>15, <1>16, <1>17, <1>18 DEF Next, Shutdown, Background

\* Stop's order is right for any number of requests: unless the deadline has
\* passed, none is in flight when the router and the providers are closed.
THEOREM DrainTheorem == Spec => []DrainedBeforeClose
<1>1. DrainInv => DrainedBeforeClose
  BY DEF DrainInv, DrainedBeforeClose
<1> QED
  BY <1>1, TypeOKInit, TypeOKNext, DrainInvInit, DrainInvNext, PTL DEF Spec

\* /__ready turns to 503 before the data port is closed, and a server that
\* was shut down before it listened never starts to serve.
THEOREM ReadyTheorem == Spec => []NotReadyWhenClosed
<1>1. DrainInv => NotReadyWhenClosed
  BY DEF DrainInv, NotReadyWhenClosed
<1> QED
  BY <1>1, TypeOKInit, TypeOKNext, DrainInvInit, DrainInvNext, PTL DEF Spec

\* The exit code of a process that was started tells whether a listener
\* failed, whatever happened first: the failure, a signal or the shutdown.
THEOREM ExitCodeTheorem == Spec => []ExitCodeTells
<1>1. ExitInv => ExitCodeTells
  BY DEF ExitInv, ExitCodeTells
<1> QED
  BY <1>1, TypeOKInit, TypeOKNext, ExitInvInit, ExitInvNext, PTL DEF Spec

\* The state of the process is of its types throughout.
THEOREM ServerTypeTheorem == Spec => []TypeOK
<1> QED
  BY TypeOKInit, TypeOKNext, PTL DEF Spec

-----------------------------------------------------------------------------
\* Whatever file it is started on, and however that file came about, the
\* process behaves as module Server says: a start is a Boot of Server.
THEOREM DeploymentImplementsServer == DeploymentSpec => Spec
<1>1. DeploymentInit => Init
  BY DEF DeploymentInit
<1>2. [DeploymentNext]_deploymentVars => [Next]_vars
  <2> SUFFICES ASSUME [DeploymentNext]_deploymentVars PROVE [Next]_vars
    OBVIOUS
  <2>1. CASE Edit \/ Obtain \/ Export \/ Import
    BY <2>1 DEF Edit, Obtain, Export, Import, Preparing
  <2>2. CASE Start
    BY <2>2 DEF Start, Next
  <2>3. CASE (Shutdown \/ Background) /\ UNCHANGED files
    BY <2>3 DEF Next
  <2>4. CASE UNCHANGED deploymentVars
    BY <2>4 DEF deploymentVars
  <2> QED
    BY <2>1, <2>2, <2>3, <2>4 DEF DeploymentNext
<1> QED
  BY <1>1, <1>2, PTL DEF DeploymentSpec, Spec

\* So what is proved of Server holds of a gateway that is started on any
\* configuration file.
THEOREM DeploymentSafe ==
    DeploymentSpec => [](DrainedBeforeClose /\ NotReadyWhenClosed /\ ExitCodeTells)
<1> QED
  BY DeploymentImplementsServer, DrainTheorem, ReadyTheorem, ExitCodeTheorem, PTL

-----------------------------------------------------------------------------
(* Compilation of the flows of a valid configuration. *)

IsOption(o) == o = <<>> \/ \E v : o = <<v>>

LEMMA PointerIsOption ==
    ASSUME NEW o, IsPointer(o)
    PROVE  IsOption(o)
<1>1. PICK S : o \in Seq(S) /\ Len(o) <= 1
  BY DEF IsPointer, IsSlice
<1>2. Len(o) = 0 \/ Len(o) = 1
  <2>1. PICK l \in Nat : l = Len(o) /\ l <= 1
    BY <1>1
  <2>2. l = 0 \/ l = 1
    BY <2>1
  <2> QED
    BY <2>1, <2>2
<1>3. CASE Len(o) = 0
  BY <1>1, <1>3 DEF IsOption
<1>4. CASE Len(o) = 1
  <2>1. o = <<o[1]>>
    BY <1>1, <1>4
  <2> QED
    BY <2>1 DEF IsOption
<1> QED
  BY <1>2, <1>3, <1>4

LEMMA MinExists ==
    ASSUME NEW I, I \subseteq Nat, I # {}
    PROVE  Min(I) \in I /\ \A j \in I : Min(I) <= j
<1> DEFINE R == OpToRel(<, Nat)
<1>1. IsWellFoundedOn(R, Nat)
  BY NatLessThanWellFounded
<1>2. \A x, y \in Nat : y < x => <<y, x>> \in R
  BY DEF OpToRel
<1> HIDE DEF R
<1>3. \E x \in I : \A y \in I : <<y, x>> \notin R
  BY <1>1, WFMin
<1>4. \E x \in I : \A y \in I : x <= y
  <2>1. PICK x \in I : \A y \in I : <<y, x>> \notin R
    BY <1>3
  <2>2. ASSUME NEW y \in I PROVE x <= y
    <3>1. x \in Nat /\ y \in Nat /\ <<y, x>> \notin R
      BY <2>1
    <3>2. ~(y < x)
      BY <1>2, <3>1, Zenon
    <3> QED
      BY <3>1, <3>2
  <2> QED
    BY <2>2
<1> QED
  BY <1>4 DEF Min

\* searchUpstream finds the first upstream of the name.
LEMMA SearchFirst ==
    ASSUME NEW V, NEW names \in Seq(V), NEW name, searchUpstream(name, names) # 0
    PROVE  /\ searchUpstream(name, names) \in DOMAIN names
           /\ \A j \in 1 .. searchUpstream(name, names) - 1 :
                 names[j] # names[searchUpstream(name, names)]
<1> DEFINE I == {i \in 1 .. Len(names) : names[i] = name}
<1>1. searchUpstream(name, names) = IF I # {} THEN Min(I) ELSE 0
  BY DEF searchUpstream, SelectInSeq
<1>2. I \subseteq Nat /\ I # {}
  BY <1>1
<1>3. Min(I) \in I /\ \A j \in I : Min(I) <= j
  BY <1>2, MinExists
<1>4. searchUpstream(name, names) = Min(I)
  BY <1>1, <1>2
<1>5. DOMAIN names = 1 .. Len(names) /\ Len(names) \in Nat
  OBVIOUS
<1> HIDE DEF I
<1>6. Min(I) \in 1 .. Len(names) /\ names[Min(I)] = name
  BY <1>3 DEF I
<1>7. \A j \in 1 .. Min(I) - 1 : names[j] # name
  <2> SUFFICES ASSUME NEW j \in 1 .. Min(I) - 1, names[j] = name PROVE FALSE
    OBVIOUS
  <2>1. j \in I
    BY <1>5, <1>6 DEF I
  <2> QED
    BY <1>3, <1>6, <2>1
<1> QED
  BY <1>4, <1>5, <1>6, <1>7

\* A result that is no panic: a value of the set, or an allowed refusal.
Safe(out, values, whys) ==
    \/ out.outcome = "ok" /\ out.value \in values
    \/ out.outcome = "error" /\ out.why \in whys

LEMMA BuiltSafe == \A v, values, whys : v \in values => Safe(Built(v), values, whys)
  BY DEF Safe, Built

LEMMA RefusedSafe == \A w, values, whys : w \in whys => Safe(Refused(w), values, whys)
  BY DEF Safe, Refused

LEMMA ConflictSafe ==
    ASSUME NEW bestEffort \in BOOLEAN, NEW c, NEW V, NEW names \in Seq(V), c.policy \in Policies
    PROVE  Safe(compileConflict(bestEffort, c, names), Aggregations(names), {"preferred"})
<1> DEFINE i == searchUpstream(c.upstream, names)
<1>1. CASE c.policy # "prefer"
  <2>1. Aggregation("merge", bestEffort, c.policy, 0) \in Aggregations(names)
    BY <1>1 DEF Aggregations
  <2> QED
    BY <1>1, <2>1, BuiltSafe DEF compileConflict
<1>2. CASE c.policy = "prefer" /\ i = 0
  BY <1>2, RefusedSafe DEF compileConflict
<1>3. CASE c.policy = "prefer" /\ i # 0
  <2>1. compileConflict(bestEffort, c, names) = Built(Aggregation("merge", bestEffort, "prefer", i))
    BY <1>3 DEF compileConflict
  <2>2. i \in DOMAIN names /\ \A j \in 1 .. i - 1 : names[j] # names[i]
    BY <1>3, SearchFirst
  <2> HIDE DEF i
  <2>3. Aggregation("merge", bestEffort, "prefer", i) \in Aggregations(names)
    BY <2>2 DEF Aggregations
  <2> QED
    BY <2>1, <2>3, BuiltSafe
<1> QED
  BY <1>1, <1>2, <1>3

LEMMA ZeroAggregation ==
    ASSUME NEW names
    PROVE  Aggregation("merge", FALSE, "overwrite", 0) \in Aggregations(names)
<1>1. \A b \in BOOLEAN, p \in Policies \ {"prefer"} :
        Aggregation("merge", b, p, 0) \in Aggregations(names)
  BY DEF Aggregations
<1>2. FALSE \in BOOLEAN /\ "overwrite" \in Policies \ {"prefer"}
  BY DEF Policies
<1> QED
  BY <1>1, <1>2, Zenon

LEMMA OneOnly == \A n \in Nat : n >= 1 /\ n <= 1 => n = 1
  OBVIOUS

LEMMA Single == \A v : <<v>> # <<>> /\ <<v>>[1] = v /\ v \in ToSet(<<v>>)
  BY DEF ToSet

LEMMA InitAggregationSafe ==
    ASSUME NEW a, NEW V, NEW names \in Seq(V), a.bestEffort \in BOOLEAN,
           IsOption(a.onConflict), ValidAggregation(a)
    PROVE  Safe(initAggregation(a, names), Aggregations(names), {"preferred"})
<1>1. a.strategy \in Strategies
  BY DEF ValidAggregation
<1>2. CASE a.strategy # "merge"
  <2>1. Aggregation(a.strategy, a.bestEffort, "overwrite", 0) \in Aggregations(names)
    BY <1>1, <1>2 DEF Aggregations, Strategies
  <2> QED
    BY <1>1, <1>2, <2>1, BuiltSafe DEF initAggregation
<1>3. CASE a.strategy = "merge"
  <2>1. PICK c : a.onConflict = <<c>>
    BY <1>3 DEF ValidAggregation, IsOption
  <2>2. a.onConflict # <<>> /\ a.onConflict[1] = c /\ c \in ToSet(a.onConflict)
    BY <2>1, Single
  <2>3. c.policy \in Policies
    BY <2>2 DEF ValidAggregation
  <2>4. initAggregation(a, names) = compileConflict(a.bestEffort, c, names)
    BY <1>1, <1>3, <2>2 DEF initAggregation
  <2> QED
    BY <2>3, <2>4, ConflictSafe
<1> QED
  BY <1>2, <1>3

\* The refusals that depend on more than the file, or on a name in it.
Refusals == {"tls", "plugin", "middleware", "preferred"}

\* Every flow of every valid configuration compiles to a flow the request path
\* can serve, or is refused for one of four reasons; compileFlow never
\* dereferences a nil Aggregation or OnConflict.
THEOREM ValidFlowsCompile ==
    ASSUME NEW cfg, ValidateConfig(cfg), NEW f \in ToSet(cfg.flows), IsFlowConfig(f)
    PROVE  LET out == compileFlow(f)
           IN  \/ out.outcome = "ok" /\ IsFlow(out.value)
               \/ out.outcome = "error" /\ out.why \in Refusals
<1>1. ValidFlow(f)
  <2>1. ValidStruct(cfg)
    BY Zenon DEF ValidateConfig
  <2> QED
    BY <2>1, Zenon DEF ValidStruct
<1>2. /\ f.streaming => Len(f.upstreams) <= 1
      /\ ~f.streaming /\ Len(f.upstreams) > 1 => f.aggregation # <<>>
  BY DEF ValidateConfig, validateFlows
<1>3. PICK S : f.upstreams \in Seq(S)
  BY DEF IsFlowConfig, IsSlice
<1>4. Len(f.upstreams) \in Nat /\ DOMAIN f.upstreams = 1 .. Len(f.upstreams)
        /\ Len(f.upstreams) >= 1
  BY <1>1, <1>3 DEF ValidFlow
<1>5. Len(f.upstreams) <= 1 => Len(f.upstreams) = 1
  BY <1>4, OneOnly, Zenon
<1> DEFINE names == [i \in DOMAIN f.upstreams |-> f.upstreams[i].name]
           agg == compileAggregation(f, names)
           flow == [names |-> names, streaming |-> f.streaming, aggregation |-> agg.value]
<1>6. names \in Seq(ToSet(names)) /\ Len(names) = Len(f.upstreams)
  <2>1. PICK l \in Nat : l = Len(f.upstreams)
    BY <1>4
  <2>2. names = [i \in 1 .. l |-> f.upstreams[i].name]
    BY <1>4, <2>1
  <2> HIDE DEF names
  <2>3. names = [i \in 1 .. l |-> names[i]] /\ DOMAIN names = 1 .. l
    BY <2>2
  <2>4. \A i \in 1 .. l : names[i] \in ToSet(names)
    BY <2>3 DEF ToSet
  <2>5. names \in [1 .. l -> ToSet(names)]
    BY <2>3, <2>4
  <2> QED
    BY <2>1, <2>5
<1> HIDE DEF names
<1>7. Safe(agg, Aggregations(names), {"preferred"})
  <2>1. CASE f.streaming \/ Len(names) <= 1
    <3>1. Aggregation("merge", FALSE, "overwrite", 0) \in Aggregations(names)
      BY <1>6, ZeroAggregation
    <3> QED
      BY <2>1, <3>1, BuiltSafe DEF compileAggregation
  <2>2. CASE ~(f.streaming \/ Len(names) <= 1)
    <3>1. f.aggregation # <<>>
      BY <1>2, <1>4, <1>6, <2>2
    <3>2. PICK a : f.aggregation = <<a>>
      BY <3>1, PointerIsOption DEF IsFlowConfig, IsOption
    <3>3. f.aggregation[1] = a /\ a \in ToSet(f.aggregation)
      BY <3>2, Single
    <3>4. a.bestEffort \in BOOLEAN /\ IsOption(a.onConflict) /\ ValidAggregation(a)
      BY <1>1, <3>3, PointerIsOption DEF IsFlowConfig, IsAggregationConfig, ValidFlow
    <3>5. agg = initAggregation(a, names)
      BY <2>2, <3>1, <3>3 DEF compileAggregation
    <3> QED
      BY <1>6, <3>4, <3>5, InitAggregationSafe
  <2> QED
    BY <2>1, <2>2
<1> HIDE DEF agg
<1>8. agg.outcome = "ok" /\ ~(f.streaming /\ Len(names) # 1) => IsFlow(flow)
  <2> SUFFICES ASSUME agg.outcome = "ok", ~(f.streaming /\ Len(names) # 1) PROVE IsFlow(flow)
    OBVIOUS
  <2>1. agg.value \in Aggregations(names)
    BY <1>7 DEF Safe
  <2>2. flow.names = names /\ flow.streaming = f.streaming /\ flow.aggregation = agg.value
    OBVIOUS
  <2> HIDE DEF flow
  <2> QED
    BY <1>4, <1>6, <2>1, <2>2 DEF IsFlow, IsSlice, IsFlowConfig
<1>9. ~(f.streaming /\ Len(names) # 1)
  BY <1>2, <1>6, <1>5, Zenon
<1>10. \/ compileFlow(f) = Built(flow) /\ agg.outcome = "ok"
       \/ compileFlow(f) = agg /\ agg.outcome # "ok"
       \/ \E w \in Refusals : compileFlow(f) = Refused(w)
  BY <1>9 DEF compileFlow, agg, names, Refusals
<1>11. CASE compileFlow(f) = Built(flow) /\ agg.outcome = "ok"
  <2>1. Built(flow).outcome = "ok" /\ Built(flow).value = flow
    BY DEF Built
  <2> QED
    BY <1>8, <1>9, <1>11, <2>1
<1>12. CASE compileFlow(f) = agg /\ agg.outcome # "ok"
  BY <1>7, <1>12 DEF Safe, Refusals
<1>13. CASE \E w \in Refusals : compileFlow(f) = Refused(w)
  BY <1>13 DEF Refused
<1> QED
  BY <1>10, <1>11, <1>12, <1>13

\* The types of the file's flows: the decoder gives every field its Go type.
FileTyped ==
    \A cfg \in ToSet(LoadConfig(file)) : \A f \in ToSet(cfg.flows) : IsFlowConfig(f)

LEMMA TypedFileCompiles == FileTyped => CompilesOrRefuses
<1> SUFFICES ASSUME FileTyped,
                    NEW cfg \in ToSet(LoadConfig(file)), NEW f \in ToSet(cfg.flows)
             PROVE  LET out == compileFlow(f)
                    IN  \/ out.outcome = "ok" /\ IsFlow(out.value)
                        \/ out.outcome = "error" /\ out.why \in Refusals
  BY Zenon DEF CompilesOrRefuses, Refusals
<1>1. IsFlowConfig(f)
  BY Zenon DEF FileTyped
<1>2. ValidateConfig(cfg)
  <2>1. \A c : cfg \in ToSet(<<c>>) => cfg = c
    BY DEF ToSet
  <2>2. cfg \notin ToSet(<<>>)
    BY DEF ToSet
  <2> QED
    BY <2>1, <2>2, Zenon DEF LoadConfig
<1> QED
  BY <1>1, <1>2, ValidFlowsCompile

-----------------------------------------------------------------------------
(* Slices and records *)

LEMMA Mapped ==
    ASSUME NEW s, IsSlice(s), NEW t, t = [i \in DOMAIN s |-> t[i]]
    PROVE  /\ IsSlice(t) /\ Len(t) = Len(s) /\ DOMAIN t = DOMAIN s
           /\ Len(s) \in Nat /\ DOMAIN s = 1 .. Len(s)
           /\ t = <<>> <=> s = <<>>
           /\ IsPointer(s) => IsPointer(t)
<1>1. PICK S : s \in Seq(S)
  BY DEF IsSlice
<1>2. PICK l \in Nat : l = Len(s) /\ DOMAIN s = 1 .. l
  BY <1>1
<1>3. \A i \in 1 .. l : t[i] \in ToSet(t)
  BY <1>2 DEF ToSet
<1>4. t \in [1 .. l -> ToSet(t)]
  BY <1>2, <1>3
<1>5. t \in Seq(ToSet(t)) /\ Len(t) = l
  BY <1>2, <1>4
<1>6. t = <<>> <=> l = 0
  BY <1>5
<1>7. s = <<>> <=> l = 0
  BY <1>1, <1>2
<1> QED
  BY <1>2, <1>4, <1>5, <1>6, <1>7 DEF IsSlice, IsPointer

LEMMA Slice ==
    ASSUME NEW n \in Nat, NEW t, t = [i \in 1 .. n |-> t[i]]
    PROVE  IsSlice(t) /\ Len(t) = n /\ DOMAIN t = 1 .. n
<1>1. \A i \in 1 .. n : t[i] \in ToSet(t)
  BY DEF ToSet
<1>2. t \in [1 .. n -> ToSet(t)]
  BY <1>1
<1>3. t \in Seq(ToSet(t)) /\ Len(t) = n
  BY <1>2
<1> QED
  BY <1>2, <1>3 DEF IsSlice

LEMMA OptionSet ==
    /\ ToSet(<<>>) = {}
    /\ \A v : ToSet(<<v>>) = {v} /\ <<v>> # <<>> /\ <<v>>[1] = v
    /\ \A v : DOMAIN <<v>> = {1} /\ IsPointer(<<v>>)
    /\ IsPointer(<<>>)
<1>1. ToSet(<<>>) = {} /\ \A v : ToSet(<<v>>) = {v} /\ <<v>> # <<>> /\ <<v>>[1] = v
  BY DEF ToSet
<1>2. \A v : DOMAIN <<v>> = {1}
  OBVIOUS
<1>3. ASSUME NEW v PROVE IsPointer(<<v>>)
  <2>1. v \in ToSet(<<v>>)
    BY <1>1
  <2>2. <<v>> \in Seq(ToSet(<<v>>)) /\ Len(<<v>>) = 1
    BY <2>1
  <2> QED
    BY <2>2 DEF IsPointer, IsSlice
<1>4. IsPointer(<<>>)
  <2>1. <<>> \in Seq(ToSet(<<>>)) /\ Len(<<>>) = 0
    OBVIOUS
  <2> QED
    BY <2>1 DEF IsPointer, IsSlice
<1> QED
  BY <1>1, <1>2, <1>3, <1>4

\* Durations survive being written and parsed; other texts count as zero.
LEMMA DurationParsed ==
    /\ \A d \in Durations : parseDurationOr(DurationText(d)) = d
    /\ \A raw : parseDurationOr(raw) \in Durations
<1>1. \A d, e \in Durations : DurationText(d) = DurationText(e) => d = e
  <2>1. DurationText(0) = "0s" /\ DurationText(3) = "3s" /\ DurationText(7) = "7s" /\ DurationText(90) = "1m30s"
    BY DEF DurationText
  <2> QED
    BY <2>1 DEF Durations
<1>2. ASSUME NEW d \in Durations PROVE parseDurationOr(DurationText(d)) = d
  <2>1. ParseDuration(DurationText(d)) = {d}
    BY <1>1 DEF ParseDuration
  <2> QED
    BY <2>1 DEF parseDurationOr
<1>3. ASSUME NEW raw PROVE parseDurationOr(raw) \in Durations
  <2>1. 0 \in Durations /\ ParseDuration(raw) \subseteq Durations
    BY DEF Durations, ParseDuration
  <2> QED
    BY <2>1 DEF parseDurationOr
<1> QED
  BY <1>2, <1>3

LEMMA TextsDiffer ==
    /\ Unset \notin Http2Modes /\ "auto" \in Http2Modes
    /\ "auto" # "on" /\ Unset # "none" /\ Unset # "v1" /\ Unset # "bad"
  BY Zenon DEF Unset, Http2Modes

-----------------------------------------------------------------------------
(* sortedSlots *)

LEMMA MethodPlaces ==
    /\ DOMAIN methodSlots = FlowMethods
    /\ \A m \in FlowMethods : methodSlots[m] \in Nat
    /\ \A m, n \in FlowMethods : methodSlots[m] = methodSlots[n] => m = n
<1>1. /\ methodSlots["GET"] = 1 /\ methodSlots["PUT"] = 2 /\ methodSlots["POST"] = 3
      /\ methodSlots["DELETE"] = 4 /\ methodSlots["OPTIONS"] = 5 /\ methodSlots["HEAD"] = 6
      /\ methodSlots["PATCH"] = 7 /\ methodSlots["QUERY"] = 8
      /\ DOMAIN methodSlots = FlowMethods
  BY DEF methodSlots, FlowMethods
<1> QED
  BY <1>1 DEF FlowMethods

\* Slots: pairs of a path and a method, where a route stands for one path.
AreSlots(keys) ==
    /\ \A k \in keys : k = <<k[1], k[2]>> /\ k[2] \in FlowMethods
    /\ ArePaths({k[1] : k \in keys})

LEMMA BeforeOrders ==
    ASSUME NEW keys, AreSlots(keys)
    PROVE  /\ \A k \in keys : ~Before(k, k)
           /\ \A k, l \in keys : k = l \/ Before(k, l) \/ Before(l, k)
           /\ \A k, l, m \in keys : Before(k, l) /\ Before(l, m) => Before(k, m)
<1>1. \A k \in keys : k[1].route \in Nat /\ methodSlots[k[2]] \in Nat
  BY MethodPlaces DEF AreSlots, ArePaths
<1>2. \A k, l \in keys : k[1].route = l[1].route => k[1] = l[1]
  BY DEF AreSlots, ArePaths
<1>3. \A k, l \in keys : methodSlots[k[2]] = methodSlots[l[2]] => k[2] = l[2]
  BY MethodPlaces DEF AreSlots
<1>4. \A k, l \in keys : k[1] = l[1] /\ k[2] = l[2] => k = l
  BY Zenon DEF AreSlots
<1>5. \A k \in keys : ~Before(k, k)
  BY <1>1 DEF Before
<1>6. \A k, l \in keys : k = l \/ Before(k, l) \/ Before(l, k)
  <2> SUFFICES ASSUME NEW k \in keys, NEW l \in keys, ~Before(k, l), ~Before(l, k) PROVE k = l
    OBVIOUS
  <2>1. k[1].route = l[1].route /\ methodSlots[k[2]] = methodSlots[l[2]]
    <3>1. PICK a, b, c, d \in Nat : /\ k[1].route = a /\ l[1].route = b
                                    /\ methodSlots[k[2]] = c /\ methodSlots[l[2]] = d
      BY <1>1
    <3> QED
      BY <3>1 DEF Before
  <2> QED
    BY <2>1, <1>2, <1>3, <1>4, Zenon
<1>7. \A k, l, m \in keys : Before(k, l) /\ Before(l, m) => Before(k, m)
  BY <1>1 DEF Before
<1> QED
  BY <1>5, <1>6, <1>7

\* Every slot is at its place and every place has one.
LEMMA SortedSlots ==
    ASSUME NEW keys, IsFiniteSet(keys), AreSlots(keys)
    PROVE  /\ Cardinality(keys) \in Nat
           /\ IsSlice(sortedSlots(keys))
           /\ DOMAIN sortedSlots(keys) = 1 .. Cardinality(keys)
           /\ ToSet(sortedSlots(keys)) = keys
<1> DEFINE Lower(k) == {l \in keys : Before(l, k)}
           Rank(k) == Cardinality(Lower(k))
           n == Cardinality(keys)
           s == sortedSlots(keys)
<1>1. n \in Nat
  BY FS_CardinalityType
<1>2. \A k \in keys : Rank(k) \in Nat /\ Rank(k) < n
  <2> TAKE k \in keys
  <2>1. Lower(k) \in SUBSET keys /\ Lower(k) # keys
    BY BeforeOrders
  <2> HIDE DEF Lower
  <2>2. IsFiniteSet(Lower(k)) /\ Rank(k) <= n /\ Rank(k) # n
    BY <2>1, FS_Subset
  <2>3. Rank(k) \in Nat
    BY <2>2, FS_CardinalityType
  <2> QED
    BY <1>1, <2>2, <2>3
<1>3. \A k, l \in keys : Before(k, l) => Rank(k) < Rank(l)
  <2> SUFFICES ASSUME NEW k \in keys, NEW l \in keys, Before(k, l) PROVE Rank(k) < Rank(l)
    OBVIOUS
  <2>1. Lower(k) \in SUBSET Lower(l) /\ Lower(k) # Lower(l) /\ Lower(l) \in SUBSET keys
    BY BeforeOrders
  <2> HIDE DEF Lower
  <2>2. IsFiniteSet(Lower(l))
    BY <2>1, FS_Subset
  <2>3. Rank(k) <= Rank(l) /\ Rank(k) # Rank(l)
    BY <2>1, <2>2, FS_Subset
  <2>4. Rank(k) \in Nat /\ Rank(l) \in Nat
    BY <1>2
  <2> QED
    BY <2>3, <2>4
<1> HIDE DEF Lower
<1>4. \A k, l \in keys : Rank(k) = Rank(l) => k = l
  BY <1>2, <1>3, BeforeOrders
<1> DEFINE place == [k \in keys |-> Rank(k) + 1]
<1>5. place \in Surjection(keys, 1 .. n)
  <2>1. \A k \in keys : Rank(k) + 1 \in 1 .. n
    BY <1>1, <1>2
  <2>2. place \in [keys -> 1 .. n]
    BY <2>1
  <2>3. \A k, l \in keys : place[k] = place[l] => k = l
    BY <1>2, <1>4
  <2> HIDE DEF place
  <2>4. place \in Injection(keys, 1 .. n)
    BY <2>2, <2>3, Zenon DEF Injection, IsInjective
  <2>5. IsFiniteSet(1 .. n) /\ Cardinality(1 .. n) = n
    <3>1. IsFiniteSet(1 .. n) /\ Cardinality(1 .. n) = IF 1 > n THEN 0 ELSE n - 1 + 1
      BY <1>1, FS_Interval
    <3> QED
      BY <1>1, <3>1
  <2> QED
    BY <2>4, <2>5, FS_Injection
<1>6. \A i \in 1 .. n : s[i] \in keys /\ Rank(s[i]) = i - 1
  <2> TAKE i \in 1 .. n
  <2>1. PICK k \in keys : place[k] = i
    BY <1>5 DEF Surjection
  <2>2. Rank(k) = i - 1
    BY <1>2, <2>1
  <2>3. s[i] = CHOOSE l \in keys : Rank(l) = i - 1
    BY DEF sortedSlots, Lower
  <2> QED
    BY <2>2, <2>3
<1>7. s = [i \in 1 .. n |-> s[i]] /\ DOMAIN s = 1 .. n
  <2> DEFINE At(i) == CHOOSE l \in keys : Cardinality({m \in keys : Before(m, l)}) = i - 1
  <2>1. s = [i \in 1 .. n |-> At(i)]
    BY Zenon DEF sortedSlots
  <2> HIDE DEF At, s
  <2> QED
    BY <2>1
<1>8. \A k \in keys : s[Rank(k) + 1] = k /\ Rank(k) + 1 \in 1 .. n
  <2> TAKE k \in keys
  <2>1. Rank(k) + 1 \in 1 .. n
    BY <1>1, <1>2
  <2>2. PICK i \in 1 .. n : i = Rank(k) + 1
    BY <2>1
  <2>3. s[i] \in keys /\ Rank(s[i]) = i - 1
    BY <1>6
  <2> HIDE DEF s, Rank, n
  <2>4. Rank(s[i]) = Rank(k)
    BY <1>2, <2>2, <2>3
  <2> QED
    BY <1>4, <2>1, <2>2, <2>3, <2>4
<1> HIDE DEF s, Rank
<1>9. ToSet(s) = keys
  <2>1. \A k : k \in ToSet(s) <=> \E i \in 1 .. n : k = s[i]
    BY <1>7 DEF ToSet
  <2> HIDE DEF n
  <2> QED
    BY <1>6, <1>8, <2>1
<1>10. IsSlice(s)
  BY <1>1, <1>7, Slice
<1> QED
  BY <1>1, <1>7, <1>9, <1>10 DEF s

-----------------------------------------------------------------------------
(* One upstream: its defaults, its way through a document, and pruning *)

\* The fields of an upstream, and those that every operation copies.
IsUpstreamRecord(u) ==
    u = [name |-> u.name, hosts |-> u.hosts, target |-> u.target, path |-> u.path,
         timeout |-> u.timeout, forwardHeaders |-> u.forwardHeaders,
         forwardQueries |-> u.forwardQueries, forwardParams |-> u.forwardParams,
         policy |-> u.policy, transport |-> u.transport, tls |-> u.tls]

SameCopied(u, v) ==
    /\ u.hosts = v.hosts /\ u.target = v.target /\ u.path = v.path
    /\ u.forwardHeaders = v.forwardHeaders /\ u.forwardQueries = v.forwardQueries
    /\ u.forwardParams = v.forwardParams /\ u.policy = v.policy

WithTimeout(u, v) == [u EXCEPT !.timeout = v]
WithTransport(u, v) == [u EXCEPT !.transport = v]
WithName(u, v) == [u EXCEPT !.name = v]
WithTLS(u, v) == [u EXCEPT !.tls = v]

\* w is u, but for the four fields that are given.
UpstreamIs(w, u, name, timeout, transport, tls) ==
    /\ IsUpstreamRecord(w) /\ SameCopied(u, w)
    /\ w.name = name /\ w.timeout = timeout /\ w.transport = transport /\ w.tls = tls

LEMMA WithTimeoutFields ==
    ASSUME NEW u, IsUpstreamRecord(u), NEW v, NEW w, w = WithTimeout(u, v)
    PROVE  UpstreamIs(w, u, u.name, v, u.transport, u.tls)
  BY DEF UpstreamIs, IsUpstreamRecord, SameCopied, WithTimeout

LEMMA WithTransportFields ==
    ASSUME NEW u, IsUpstreamRecord(u), NEW v, NEW w, w = WithTransport(u, v)
    PROVE  UpstreamIs(w, u, u.name, u.timeout, v, u.tls)
  BY DEF UpstreamIs, IsUpstreamRecord, SameCopied, WithTransport

LEMMA WithNameFields ==
    ASSUME NEW u, IsUpstreamRecord(u), NEW v, NEW w, w = WithName(u, v)
    PROVE  UpstreamIs(w, u, v, u.timeout, u.transport, u.tls)
  BY DEF UpstreamIs, IsUpstreamRecord, SameCopied, WithName

LEMMA WithTLSFields ==
    ASSUME NEW u, IsUpstreamRecord(u), NEW v, NEW w, w = WithTLS(u, v)
    PROVE  UpstreamIs(w, u, u.name, u.timeout, u.transport, v)
  BY DEF UpstreamIs, IsUpstreamRecord, SameCopied, WithTLS

LEMMA TimeoutTransport ==
    ASSUME NEW u, IsUpstreamRecord(u), NEW v, NEW t, NEW x, NEW w,
           x = WithTimeout(u, v), w = WithTransport(x, t)
    PROVE  UpstreamIs(w, u, u.name, v, t, u.tls)
<1>1. UpstreamIs(x, u, u.name, v, u.transport, u.tls)
  BY WithTimeoutFields, Zenon
<1>2. IsUpstreamRecord(x)
  BY <1>1 DEF UpstreamIs
<1>3. UpstreamIs(w, x, x.name, x.timeout, t, x.tls)
  BY <1>2, WithTransportFields, Zenon
<1> QED
  BY <1>1, <1>3 DEF UpstreamIs, SameCopied

LEMMA DefaultedUpstream ==
    ASSUME NEW u, IsUpstreamConfig(u), NEW d, d = DefaultUpstreamConfig(u)
    PROVE  /\ IsUpstreamConfig(d) /\ SameCopied(u, d)
           /\ d.name = u.name /\ d.tls = u.tls
           /\ d.timeout = OrDefault(u.timeout, 0, 3) /\ d.timeout # 0
           /\ d.transport = [idle |-> OrDefault(u.transport.idle, 0, 100),
                             idleTimeout |-> OrDefault(u.transport.idleTimeout, 0, 90),
                             http2 |-> OrDefault(u.transport.http2, Unset, "auto")]
           /\ d.transport.idle # 0 /\ d.transport.idleTimeout # 0 /\ d.transport.http2 # Unset
<1> DEFINE v == OrDefault(u.timeout, 0, 3)
           t == [idle |-> OrDefault(u.transport.idle, 0, 100),
                 idleTimeout |-> OrDefault(u.transport.idleTimeout, 0, 90),
                 http2 |-> OrDefault(u.transport.http2, Unset, "auto")]
<1>1. DefaultTransport.idle = 100 /\ DefaultTransport.idleTimeout = 90
        /\ DefaultTransport.http2 = "auto"
  BY DEF DefaultTransport
<1>2. PICK x : x = WithTimeout(u, v) /\ d = WithTransport(x, t)
  BY <1>1, Zenon DEF DefaultUpstreamConfig, WithTimeout, WithTransport
<1>3. IsUpstreamRecord(u) /\ u.timeout \in Durations /\ IsPolicy(u.policy)
        /\ IsTransport(u.transport) /\ IsTLS(u.tls)
  BY Zenon DEF IsUpstreamConfig, IsUpstreamRecord
<1>4. v \in Durations /\ v # 0
  BY <1>3 DEF OrDefault, Durations
<1>5. "auto" # Unset
  BY TextsDiffer
<1>6. /\ t = [idle |-> t.idle, idleTimeout |-> t.idleTimeout, http2 |-> t.http2]
      /\ t.idleTimeout \in Durations
      /\ t.idle # 0 /\ t.idleTimeout # 0 /\ t.http2 # Unset
  BY <1>3, <1>5 DEF OrDefault, IsTransport, Durations
<1> HIDE DEF v, t
<1>7. /\ IsUpstreamRecord(d) /\ SameCopied(u, d) /\ d.timeout = v /\ d.transport = t
      /\ d.name = u.name /\ d.tls = u.tls
  <2>1. IsUpstreamRecord(u)
    BY <1>3
  <2>2. UpstreamIs(d, u, u.name, v, t, u.tls)
    BY <1>2, <2>1, TimeoutTransport, Zenon
  <2> QED
    BY <2>2 DEF UpstreamIs
<1>8. IsUpstreamConfig(d)
  <2>1. d.policy = u.policy
    BY <1>7, Zenon DEF SameCopied
  <2>2. IsTransport(d.transport)
    BY <1>6, <1>7, Zenon DEF IsTransport
  <2> QED
    BY <1>3, <1>4, <1>7, <2>1, <2>2, Zenon DEF IsUpstreamConfig, IsUpstreamRecord
<1> QED
  BY <1>4, <1>6, <1>7, <1>8, Zenon DEF v, t

LEMMA KeptText ==
    /\ isZeroNode(Unset)
    /\ \A x : isZeroNode(kept(x)) <=> isZeroNode(x)
    /\ \A x : ~isZeroNode(x) => kept(x) = x
    /\ \A x : isZeroNode(x) => kept(x) = Unset
<1>1. isZeroNode(Unset)
  BY Zenon DEF isZeroNode, ZeroScalars
<1> QED
  BY <1>1, Zenon DEF kept

LEMMA PolicyStored ==
    ASSUME NEW p, IsPolicy(p)
    PROVE  LET stored == policyExtension(p)
           IN  (IF stored = <<>> THEN ZeroPolicy ELSE reconstructPolicy(stored[1])) = p
<1>1. CASE p = ZeroPolicy
  BY <1>1, Zenon DEF policyExtension
<1>2. CASE p # ZeroPolicy
  <2> DEFINE retry == IF p.retry = ZeroRetry THEN <<>>
                      ELSE <<[p.retry EXCEPT !.backoff = DurationText(@)]>>
             breaker == IF p.breaker = ZeroBreaker THEN <<>>
                        ELSE <<[p.breaker EXCEPT !.reset = DurationText(@)]>>
             r == [plain |-> p.plain, retry |-> retry, breaker |-> breaker]
  <2>1. policyExtension(p) = <<r>>
    BY <1>2, Zenon DEF policyExtension
  <2>2. (IF retry = <<>> THEN ZeroRetry
         ELSE [retry[1] EXCEPT !.backoff = parseDurationOr(@)]) = p.retry
    <3>1. CASE p.retry = ZeroRetry
      BY <3>1, Zenon
    <3>2. CASE p.retry # ZeroRetry
      <4>1. PICK m, b : p.retry = [max |-> m, backoff |-> b] /\ b \in Durations
        BY Zenon DEF IsPolicy
      <4>2. PICK x : x = [p.retry EXCEPT !.backoff = DurationText(@)]
        OBVIOUS
      <4>3. retry = <<x>> /\ retry # <<>> /\ retry[1] = x
        BY <3>2, <4>2
      <4>4. x = [max |-> m, backoff |-> DurationText(b)]
        BY <4>1, <4>2
      <4>5. [x EXCEPT !.backoff = parseDurationOr(@)] = [max |-> m, backoff |-> b]
        BY <4>1, <4>4, DurationParsed
      <4> QED
        BY <4>1, <4>3, <4>5, Zenon
    <3> QED
      BY <3>1, <3>2
  <2>3. (IF breaker = <<>> THEN ZeroBreaker
         ELSE [breaker[1] EXCEPT !.reset = parseDurationOr(@)]) = p.breaker
    <3>1. CASE p.breaker = ZeroBreaker
      BY <3>1, Zenon
    <3>2. CASE p.breaker # ZeroBreaker
      <4>1. PICK e, b : p.breaker = [enabled |-> e, reset |-> b] /\ b \in Durations
        BY Zenon DEF IsPolicy
      <4>2. PICK x : x = [p.breaker EXCEPT !.reset = DurationText(@)]
        OBVIOUS
      <4>3. breaker = <<x>> /\ breaker # <<>> /\ breaker[1] = x
        BY <3>2, <4>2
      <4>4. x = [enabled |-> e, reset |-> DurationText(b)]
        BY <4>1, <4>2
      <4>5. [x EXCEPT !.reset = parseDurationOr(@)] = [enabled |-> e, reset |-> b]
        BY <4>1, <4>4, DurationParsed
      <4> QED
        BY <4>1, <4>3, <4>5, Zenon
    <3> QED
      BY <3>1, <3>2
  <2> HIDE DEF retry, breaker
  <2>4. r.plain = p.plain /\ r.retry = retry /\ r.breaker = breaker
    OBVIOUS
  <2> HIDE DEF r
  <2>5. reconstructPolicy(r) = p
    <3>1. reconstructPolicy(r) = [plain |-> p.plain, retry |-> p.retry, breaker |-> p.breaker]
      BY <2>2, <2>3, <2>4, Zenon DEF reconstructPolicy
    <3> QED
      BY <3>1, Zenon DEF IsPolicy
  <2> QED
    BY <2>1, <2>5, OptionSet
<1> QED
  BY <1>1, <1>2

LEMMA SameUpstream ==
    ASSUME NEW u, NEW w, NEW name, NEW timeout, NEW transport, NEW tls, NEW v,
           UpstreamIs(v, u, name, timeout, transport, tls),
           UpstreamIs(w, u, name, timeout, transport, tls)
    PROVE  v = w
  BY DEF UpstreamIs, IsUpstreamRecord, SameCopied

LEMMA ConfigIsRecord ==
    ASSUME NEW u, IsUpstreamConfig(u) PROVE IsUpstreamRecord(u)
  BY Zenon DEF IsUpstreamConfig, IsUpstreamRecord

LEMMA NoFiles ==
    ASSUME NEW b
    PROVE  [NoTLS EXCEPT !.enabled = b] = [enabled |-> b, cert |-> Unset, key |-> Unset, ca |-> Unset,
          verify |-> Unset]
  BY DEF NoTLS

\* Pruning, but for the name.
Texts(u) == [u EXCEPT !.target = kept(@), !.policy = prunePolicy(@)]

\* The fields that pruning leaves alone, and what it makes of an upstream.
SamePlace(w, u) ==
    /\ w.hosts = u.hosts /\ w.path = u.path /\ w.forwardParams = u.forwardParams
    /\ w.timeout = u.timeout /\ w.transport = u.transport /\ w.tls = u.tls

TextsIs(w, u) ==
    /\ IsUpstreamRecord(w) /\ SamePlace(w, u) /\ w.name = u.name
    /\ w.forwardHeaders = u.forwardHeaders /\ w.forwardQueries = u.forwardQueries
    /\ w.target = kept(u.target) /\ w.policy = prunePolicy(u.policy)

LEMMA TextsFields ==
    ASSUME NEW u, IsUpstreamRecord(u), NEW w, w = Texts(u)
    PROVE  TextsIs(w, u)
<1>1. PICK t, p : t = kept(u.target) /\ p = prunePolicy(u.policy)
  OBVIOUS
<1>2. w = [[u EXCEPT !.target = t] EXCEPT !.policy = p]
  <2>1. [u EXCEPT !.target = t].policy = u.policy
    BY DEF IsUpstreamRecord
  <2> QED
    BY <1>1, <2>1 DEF Texts
<1>3. /\ IsUpstreamRecord(w) /\ SamePlace(w, u) /\ w.name = u.name
      /\ w.forwardHeaders = u.forwardHeaders /\ w.forwardQueries = u.forwardQueries
      /\ w.target = t /\ w.policy = p
  BY <1>2 DEF IsUpstreamRecord, SamePlace
<1> QED
  BY <1>1, <1>3 DEF TextsIs

LEMMA PolicyPruned ==
    ASSUME NEW p, IsPolicy(p)
    PROVE  IsPolicy(prunePolicy(p))
<1>1. PICK v : v = kept(p.plain)
  OBVIOUS
<1>2. PICK q : q = [p EXCEPT !.plain = v]
  OBVIOUS
<1>3. p = [plain |-> p.plain, retry |-> p.retry, breaker |-> p.breaker]
  BY Zenon DEF IsPolicy
<1>4. q = [plain |-> v, retry |-> p.retry, breaker |-> p.breaker]
  BY <1>2, <1>3
<1>5. /\ q = [plain |-> q.plain, retry |-> q.retry, breaker |-> q.breaker]
      /\ q.retry = p.retry /\ q.breaker = p.breaker
  BY <1>4
<1>6. IsPolicy(q)
  BY <1>5, Zenon DEF IsPolicy
<1> QED
  BY <1>1, <1>2, <1>6 DEF prunePolicy

LEMMA TextsTyped ==
    ASSUME NEW u, IsUpstreamConfig(u), NEW w, w = Texts(u)
    PROVE  IsUpstreamConfig(w)
<1>1. /\ IsUpstreamRecord(u) /\ u.timeout \in Durations
      /\ IsPolicy(u.policy) /\ IsTransport(u.transport) /\ IsTLS(u.tls)
  BY Zenon DEF IsUpstreamConfig, IsUpstreamRecord
<1>2. TextsIs(w, u)
  BY <1>1, TextsFields, Zenon
<1>3. /\ IsUpstreamRecord(w) /\ w.timeout = u.timeout /\ w.policy = prunePolicy(u.policy)
      /\ w.transport = u.transport /\ w.tls = u.tls
  BY <1>2, Zenon DEF TextsIs, SamePlace
<1>4. IsPolicy(w.policy)
  BY <1>1, <1>3, PolicyPruned
<1> QED
  BY <1>1, <1>3, <1>4, Zenon DEF IsUpstreamConfig, IsUpstreamRecord

LEMMA PrunedUpstream ==
    ASSUME NEW u, IsUpstreamConfig(u), NEW w, w = pruneUpstream(u)
    PROVE  /\ IsUpstreamConfig(w) /\ w.name = kept(u.name) /\ SamePlace(w, u)
           /\ w = WithName(Texts(u), kept(u.name))
<1>1. PICK x : x = Texts(u)
  OBVIOUS
<1>2. TextsIs(x, u) /\ IsUpstreamConfig(x) /\ IsUpstreamRecord(x)
  BY <1>1, TextsFields, TextsTyped, ConfigIsRecord
<1>3. w = WithName(x, kept(u.name))
  BY <1>1, Zenon DEF pruneUpstream, WithName, Texts
<1>4. UpstreamIs(w, x, kept(u.name), x.timeout, x.transport, x.tls)
  BY <1>2, <1>3, WithNameFields, Zenon
<1>5. /\ IsUpstreamRecord(w) /\ w.timeout = x.timeout /\ w.policy = x.policy
      /\ w.transport = x.transport /\ w.tls = x.tls /\ w.name = kept(u.name)
  BY <1>4 DEF UpstreamIs, SameCopied
<1>6. IsUpstreamConfig(w)
  BY <1>2, <1>5, Zenon DEF IsUpstreamConfig, IsUpstreamRecord
<1>7. SamePlace(w, u)
  BY <1>2, <1>4 DEF UpstreamIs, SameCopied, SamePlace, TextsIs
<1> QED
  BY <1>1, <1>3, <1>5, <1>6, <1>7

\* What comes back of an upstream before defaults and pruning.
StoredTransport(t) ==
    IF t \in {ZeroTransport, DefaultTransport} THEN DefaultTransport
    ELSE [idle |-> t.idle, http2 |-> Unset, idleTimeout |-> t.idleTimeout]

LEMMA TransportStored ==
    ASSUME NEW t, IsTransport(t)
    PROVE  LET stored == transportExtension(t)
           IN  (IF stored = <<>> THEN DefaultTransport
                ELSE [idle |-> stored[1].idle, http2 |-> Unset,
                      idleTimeout |-> parseDurationOr(stored[1].idleTimeout)])
               = StoredTransport(t)
<1>1. CASE t \in {ZeroTransport, DefaultTransport}
  BY <1>1, Zenon DEF transportExtension, StoredTransport
<1>2. CASE t \notin {ZeroTransport, DefaultTransport}
  <2>1. PICK x : x = [idle |-> t.idle, idleTimeout |-> DurationText(t.idleTimeout)]
    OBVIOUS
  <2>2. transportExtension(t) = <<x>>
    BY <1>2, <2>1, Zenon DEF transportExtension
  <2>3. <<x>> # <<>> /\ <<x>>[1] = x
    BY OptionSet
  <2>4. x.idle = t.idle /\ parseDurationOr(x.idleTimeout) = t.idleTimeout
    BY <2>1, DurationParsed DEF IsTransport
  <2> QED
    BY <1>2, <2>2, <2>3, <2>4, Zenon DEF StoredTransport
<1> QED
  BY <1>1, <1>2

LEMMA UpstreamStored ==
    ASSUME NEW u, IsUpstreamConfig(u), u.hosts # <<>>,
           NEW r, r = reconstructUpstream(upstreamExtension(u))
    PROVE  UpstreamIs(r, u, u.name, u.timeout, StoredTransport(u.transport),
                      [NoTLS EXCEPT !.enabled = u.tls.enabled])
<1>1. PICK e : e = upstreamExtension(u)
  OBVIOUS
<1>2. /\ e.name = u.name /\ e.hosts = u.hosts /\ e.target = u.target /\ e.path = u.path
      /\ e.timeout = DurationText(u.timeout) /\ e.forwardHeaders = u.forwardHeaders
      /\ e.forwardQueries = u.forwardQueries /\ e.forwardParams = u.forwardParams
      /\ e.tlsEnabled = u.tls.enabled
      /\ e.policy = policyExtension(u.policy) /\ e.transport = transportExtension(u.transport)
  BY <1>1 DEF upstreamExtension
<1>3. u.timeout \in Durations /\ IsPolicy(u.policy) /\ IsTransport(u.transport)
  BY Zenon DEF IsUpstreamConfig
<1>4. parseDurationOr(e.timeout) = u.timeout
  BY <1>2, <1>3, DurationParsed, Zenon
<1>5. (IF e.policy = <<>> THEN ZeroPolicy ELSE reconstructPolicy(e.policy[1])) = u.policy
  BY <1>2, <1>3, PolicyStored, Zenon
<1>6. (IF e.transport = <<>> THEN DefaultTransport
       ELSE [idle |-> e.transport[1].idle, http2 |-> Unset,
             idleTimeout |-> parseDurationOr(e.transport[1].idleTimeout)])
      = StoredTransport(u.transport)
  BY <1>2, <1>3, TransportStored, Zenon
<1>7. (IF e.hosts = <<>> THEN <<placeholderHost>> ELSE e.hosts) = u.hosts
  BY <1>2, Zenon
<1> DEFINE tls == [NoTLS EXCEPT !.enabled = u.tls.enabled]
<1>8. r = [name |-> u.name, target |-> u.target, path |-> u.path, hosts |-> u.hosts, timeout |-> u.timeout,
           forwardHeaders |-> u.forwardHeaders, forwardQueries |-> u.forwardQueries,
           forwardParams |-> u.forwardParams, policy |-> u.policy,
           transport |-> StoredTransport(u.transport), tls |-> tls]
  <2>1. r = reconstructUpstream(e)
    BY <1>1, Zenon
  <2> QED
    BY <2>1, <1>2, <1>4, <1>5, <1>6, <1>7, Zenon DEF reconstructUpstream
<1> HIDE DEF tls
<1>9. UpstreamIs(r, u, u.name, u.timeout, StoredTransport(u.transport), tls)
  BY <1>8 DEF UpstreamIs, IsUpstreamRecord, SameCopied
<1> QED
  BY <1>9, Zenon DEF tls

\* An upstream that has its defaults is what comes back, but for what is lost.
LEMMA UpstreamRestored ==
    ASSUME NEW u, IsUpstreamConfig(u), u.hosts # <<>>, ~isZeroNode(u.name),
           u.timeout # 0, u.transport.idle # 0, u.transport.idleTimeout # 0,
           NEW r, r = reconstructUpstream(upstreamExtension(u)),
           NEW k, k = pruneUpstream(r),
           NEW d, d = DefaultUpstreamConfig(k)
    PROVE  d = RestoredUpstream(u)
<1> DEFINE tls == [NoTLS EXCEPT !.enabled = u.tls.enabled]
           transport == [idle |-> u.transport.idle, idleTimeout |-> u.transport.idleTimeout,
                         http2 |-> "auto"]
           st == StoredTransport(u.transport)
<1>1. /\ IsUpstreamRecord(u) /\ u.timeout \in Durations
      /\ IsPolicy(u.policy) /\ IsTransport(u.transport) /\ IsTLS(u.tls)
  BY Zenon DEF IsUpstreamConfig, IsUpstreamRecord
<1>2. UpstreamIs(r, u, u.name, u.timeout, st, tls)
  BY UpstreamStored, Zenon
<1>3. tls = [enabled |-> u.tls.enabled, cert |-> Unset, key |-> Unset, ca |-> Unset,
          verify |-> Unset]
  BY NoFiles
<1>4. IsTLS(tls)
  BY <1>1, <1>3 DEF IsTLS
<1>5. /\ IsTransport(st)
      /\ st.idle = u.transport.idle /\ st.idleTimeout = u.transport.idleTimeout
      /\ st.http2 = "auto" \/ st.http2 = Unset
  <2>1. u.transport # ZeroTransport
    BY <1>1 DEF ZeroTransport
  <2>2. CASE u.transport = DefaultTransport
    <3>1. st = DefaultTransport
      BY <2>2, Zenon DEF StoredTransport
    <3> QED
      BY <3>1, <2>2 DEF DefaultTransport, IsTransport, Durations
  <2>3. CASE u.transport # DefaultTransport
    <3>1. st = [idle |-> u.transport.idle, http2 |-> Unset, idleTimeout |-> u.transport.idleTimeout]
      BY <2>1, <2>3, Zenon DEF StoredTransport
    <3> QED
      BY <3>1, <1>1 DEF IsTransport
  <2> QED
    BY <2>2, <2>3
<1> HIDE DEF tls, st
<1> PICK v, y : v = Texts(u) /\ y = Texts(r)
  OBVIOUS
<1>a. /\ TextsIs(v, u) /\ IsUpstreamConfig(v)
      /\ v.name = u.name /\ v.timeout = u.timeout /\ v.transport = u.transport
  BY <1>1, TextsFields, TextsTyped DEF TextsIs, SamePlace
<1>b. TextsIs(y, r)
  <2>1. IsUpstreamRecord(r)
    BY <1>2 DEF UpstreamIs
  <2> QED
    BY <2>1, TextsFields
<1>c. UpstreamIs(y, v, u.name, u.timeout, st, tls)
  <2>1. y.policy = v.policy /\ y.target = v.target
    BY <1>2, <1>a, <1>b, Zenon DEF TextsIs, UpstreamIs, SameCopied
  <2> QED
    BY <1>2, <1>a, <1>b, <2>1 DEF TextsIs, UpstreamIs, SameCopied, SamePlace
<1>6. k = WithName(y, u.name)
  <2>1. r.name = u.name
    BY <1>2 DEF UpstreamIs
  <2>2. k = WithName(y, kept(r.name))
    BY Zenon DEF pruneUpstream, WithName, Texts
  <2> QED
    BY <2>1, <2>2, KeptText, Zenon
<1>7. UpstreamIs(k, v, u.name, u.timeout, st, tls)
  <2>1. IsUpstreamRecord(y)
    BY <1>c, Zenon DEF UpstreamIs
  <2>2. UpstreamIs(k, y, u.name, y.timeout, y.transport, y.tls)
    BY <1>6, <2>1, WithNameFields, Zenon
  <2> QED
    BY <1>c, <2>2 DEF UpstreamIs, SameCopied
<1>8. /\ IsUpstreamRecord(k) /\ SameCopied(v, k) /\ k.policy = v.policy
      /\ k.name = u.name /\ k.timeout = u.timeout /\ k.transport = st /\ k.tls = tls
  BY <1>7 DEF UpstreamIs, SameCopied
<1>9. IsUpstreamConfig(k)
  <2>1. IsPolicy(v.policy)
    BY <1>a, Zenon DEF IsUpstreamConfig
  <2> QED
    BY <1>1, <1>4, <1>5, <1>8, <2>1, Zenon DEF IsUpstreamConfig, IsUpstreamRecord
<1>10. UpstreamIs(d, v, u.name, u.timeout, transport, tls)
  <2>1. /\ IsUpstreamConfig(d) /\ SameCopied(k, d)
        /\ d.name = k.name /\ d.tls = k.tls
        /\ d.timeout = OrDefault(k.timeout, 0, 3)
        /\ d.transport = [idle |-> OrDefault(k.transport.idle, 0, 100),
                          idleTimeout |-> OrDefault(k.transport.idleTimeout, 0, 90),
                          http2 |-> OrDefault(k.transport.http2, Unset, "auto")]
    BY <1>9, DefaultedUpstream
  <2>2. IsUpstreamRecord(d)
    BY <2>1, ConfigIsRecord
  <2>3. OrDefault(k.timeout, 0, 3) = u.timeout
    BY <1>8 DEF OrDefault
  <2>4. /\ OrDefault(k.transport.idle, 0, 100) = u.transport.idle
        /\ OrDefault(k.transport.idleTimeout, 0, 90) = u.transport.idleTimeout
        /\ OrDefault(k.transport.http2, Unset, "auto") = "auto"
    BY <1>5, <1>8 DEF OrDefault
  <2>5. d.transport = transport
    BY <2>1, <2>4
  <2> HIDE DEF transport
  <2> QED
    BY <1>8, <2>1, <2>2, <2>3, <2>5 DEF UpstreamIs, SameCopied
<1>11. UpstreamIs(RestoredUpstream(u), v, u.name, u.timeout, transport, tls)
  <2>1. PICK x : x = WithTLS(v, tls)
    OBVIOUS
  <2>2. UpstreamIs(x, v, u.name, u.timeout, u.transport, tls)
    <3>1. IsUpstreamRecord(v)
      BY <1>a DEF TextsIs
    <3>2. UpstreamIs(x, v, v.name, v.timeout, v.transport, tls)
      BY <2>1, <3>1, WithTLSFields, Zenon
    <3> QED
      BY <1>a, <3>2
  <2>3. RestoredUpstream(u) = [x EXCEPT !.transport.http2 = "auto"]
    BY <2>1, Zenon DEF RestoredUpstream, WithTLS, Texts, tls
  <2>4. [x EXCEPT !.transport.http2 = "auto"] = [x EXCEPT !.transport = [@ EXCEPT !.http2 = "auto"]]
    BY Zenon
  <2>5. x.transport = u.transport
    BY <2>2 DEF UpstreamIs
  <2>6. [u.transport EXCEPT !.http2 = "auto"] = transport
    BY <1>1 DEF IsTransport
  <2> HIDE DEF transport
  <2>7. RestoredUpstream(u) = WithTransport(x, transport)
    BY <2>3, <2>4, <2>5, <2>6 DEF WithTransport
  <2>8. IsUpstreamRecord(x)
    BY <2>2 DEF UpstreamIs
  <2>9. UpstreamIs(RestoredUpstream(u), x, x.name, x.timeout, transport, x.tls)
    BY <2>7, <2>8, WithTransportFields, Zenon
  <2> QED
    BY <2>2, <2>9 DEF UpstreamIs, SameCopied
<1> HIDE DEF transport
<1> QED
  BY <1>10, <1>11, SameUpstream, Zenon

\* The types: an extension has its own, and anything imported is a configuration.
LEMMA StoredTyped ==
    ASSUME NEW u, IsUpstreamConfig(u)
    PROVE  IsUpstreamExtension(upstreamExtension(u))
<1>1. PICK e : e = upstreamExtension(u)
  OBVIOUS
<1>2. /\ e.tlsEnabled = u.tls.enabled
      /\ e.policy = policyExtension(u.policy) /\ e.transport = transportExtension(u.transport)
  BY <1>1 DEF upstreamExtension
<1>3. IsPolicy(u.policy) /\ u.tls.enabled \in BOOLEAN
  BY Zenon DEF IsUpstreamConfig, IsTLS
<1>4. IsPointer(e.transport)
  BY <1>2, OptionSet, Zenon DEF transportExtension
<1>5. IsPointer(e.policy)
  BY <1>2, OptionSet, Zenon DEF policyExtension
<1>6. ASSUME NEW p \in ToSet(e.policy)
      PROVE  /\ IsPointer(p.retry) /\ IsPointer(p.breaker)
             /\ \A r \in ToSet(p.retry) : r = [max |-> r.max, backoff |-> r.backoff]
             /\ \A b \in ToSet(p.breaker) : b = [enabled |-> b.enabled, reset |-> b.reset]
  <2> DEFINE retry == IF u.policy.retry = ZeroRetry THEN <<>>
                      ELSE <<[u.policy.retry EXCEPT !.backoff = DurationText(@)]>>
             breaker == IF u.policy.breaker = ZeroBreaker THEN <<>>
                        ELSE <<[u.policy.breaker EXCEPT !.reset = DurationText(@)]>>
  <2>1. p = [plain |-> u.policy.plain, retry |-> retry, breaker |-> breaker]
    <3>1. \A v : p \in ToSet(<<v>>) => p = v
      BY OptionSet
    <3>2. p \notin ToSet(<<>>)
      BY OptionSet
    <3> QED
      BY <1>2, <3>1, <3>2, Zenon DEF policyExtension
  <2>2. IsPointer(retry) /\ IsPointer(breaker)
    BY OptionSet, Zenon
  <2>3. \A r \in ToSet(retry) : r = [max |-> r.max, backoff |-> r.backoff]
    <3>1. PICK m, b : u.policy.retry = [max |-> m, backoff |-> b]
      BY <1>3, Zenon DEF IsPolicy
    <3>2. PICK x : x = [u.policy.retry EXCEPT !.backoff = DurationText(@)]
      OBVIOUS
    <3>3. x = [max |-> x.max, backoff |-> x.backoff]
      BY <3>1, <3>2
    <3>4. ToSet(<<x>>) = {x} /\ ToSet(<<>>) = {}
      BY OptionSet
    <3> QED
      BY <3>2, <3>3, <3>4, Zenon
  <2>4. \A b \in ToSet(breaker) : b = [enabled |-> b.enabled, reset |-> b.reset]
    <3>1. PICK m, b : u.policy.breaker = [enabled |-> m, reset |-> b]
      BY <1>3, Zenon DEF IsPolicy
    <3>2. PICK x : x = [u.policy.breaker EXCEPT !.reset = DurationText(@)]
      OBVIOUS
    <3>3. x = [enabled |-> x.enabled, reset |-> x.reset]
      BY <3>1, <3>2
    <3>4. ToSet(<<x>>) = {x} /\ ToSet(<<>>) = {}
      BY OptionSet
    <3> QED
      BY <3>2, <3>3, <3>4, Zenon
  <2> HIDE DEF retry, breaker
  <2>5. p.retry = retry /\ p.breaker = breaker
    BY <2>1
  <2> QED
    BY <2>2, <2>3, <2>4, <2>5, Zenon
<1>7. e.tlsEnabled \in BOOLEAN
  BY <1>2, <1>3, Zenon
<1> QED
  BY <1>1, <1>4, <1>5, <1>6, <1>7, Zenon DEF IsUpstreamExtension

LEMMA ZeroPolicyTyped == IsPolicy(ZeroPolicy) /\ IsTransport(ZeroTransport)
        /\ IsTransport(DefaultTransport) /\ IsTLS(NoTLS)
<1>1. ZeroPolicy.retry = ZeroRetry /\ ZeroPolicy.breaker = ZeroBreaker
        /\ ZeroPolicy = [plain |-> ZeroPolicy.plain, retry |-> ZeroPolicy.retry, breaker |-> ZeroPolicy.breaker]
  BY DEF ZeroPolicy
<1>2. /\ ZeroRetry = [max |-> ZeroRetry.max, backoff |-> ZeroRetry.backoff]
      /\ ZeroBreaker = [enabled |-> ZeroBreaker.enabled, reset |-> ZeroBreaker.reset]
      /\ ZeroRetry.backoff \in Durations /\ ZeroBreaker.reset \in Durations
  BY DEF ZeroRetry, ZeroBreaker, Durations
<1>3. IsPolicy(ZeroPolicy)
  BY <1>1, <1>2, Zenon DEF IsPolicy
<1>4. IsTransport(ZeroTransport) /\ IsTransport(DefaultTransport)
  BY DEF IsTransport, ZeroTransport, DefaultTransport, Durations
<1>5. IsTLS(NoTLS)
  BY DEF IsTLS, NoTLS
<1> QED
  BY <1>3, <1>4, <1>5

LEMMA ReconstructedTyped ==
    ASSUME NEW e, IsUpstreamExtension(e), NEW r, r = reconstructUpstream(e)
    PROVE  /\ IsUpstreamConfig(r) /\ r.name = e.name
           /\ r.tls = [NoTLS EXCEPT !.enabled = e.tlsEnabled]
<1> DEFINE hosts == IF e.hosts = <<>> THEN <<placeholderHost>> ELSE e.hosts
           policy == IF e.policy = <<>> THEN ZeroPolicy ELSE reconstructPolicy(e.policy[1])
           transport == IF e.transport = <<>> THEN DefaultTransport
                        ELSE [idle |-> e.transport[1].idle, http2 |-> Unset,
                              idleTimeout |-> parseDurationOr(e.transport[1].idleTimeout)]
           tls == [NoTLS EXCEPT !.enabled = e.tlsEnabled]
           timeout == parseDurationOr(e.timeout)
<1>1. r = [name |-> e.name, target |-> e.target, path |-> e.path, hosts |-> hosts, timeout |-> timeout,
           forwardHeaders |-> e.forwardHeaders, forwardQueries |-> e.forwardQueries,
           forwardParams |-> e.forwardParams, policy |-> policy, transport |-> transport,
           tls |-> tls]
  BY Zenon DEF reconstructUpstream
<1>2. timeout \in Durations
  BY DurationParsed, Zenon
<1>3. IsTransport(transport)
  <2>1. CASE e.transport = <<>>
    BY <2>1, ZeroPolicyTyped, Zenon
  <2>2. CASE e.transport # <<>>
    <3>1. PICK i, t : t = parseDurationOr(e.transport[1].idleTimeout) /\ i = e.transport[1].idle
      OBVIOUS
    <3>2. transport = [idle |-> i, http2 |-> Unset, idleTimeout |-> t]
      BY <2>2, <3>1, Zenon
    <3>3. t \in Durations
      BY <3>1, DurationParsed, Zenon
    <3> HIDE DEF transport
    <3> QED
      BY <3>2, <3>3 DEF IsTransport
  <2> QED
    BY <2>1, <2>2
<1>4. IsTLS(tls)
  <2>1. e.tlsEnabled \in BOOLEAN
    BY Zenon DEF IsUpstreamExtension
  <2>2. tls = [enabled |-> e.tlsEnabled, cert |-> Unset, key |-> Unset, ca |-> Unset,
          verify |-> Unset]
    BY NoFiles
  <2> HIDE DEF tls
  <2> QED
    BY <2>1, <2>2 DEF IsTLS
<1>5. IsPolicy(policy)
  <2>1. CASE e.policy = <<>>
    BY <2>1, ZeroPolicyTyped, Zenon
  <2>2. CASE e.policy # <<>>
    <3>1. PICK p : e.policy = <<p>>
      BY <2>2, PointerIsOption DEF IsUpstreamExtension, IsOption
    <3>2. e.policy[1] = p /\ p \in ToSet(e.policy)
      BY <3>1, Single
    <3>3. /\ IsPointer(p.retry) /\ IsPointer(p.breaker)
          /\ \A x \in ToSet(p.retry) : x = [max |-> x.max, backoff |-> x.backoff]
          /\ \A x \in ToSet(p.breaker) : x = [enabled |-> x.enabled, reset |-> x.reset]
      BY <3>2, Zenon DEF IsUpstreamExtension
    <3> DEFINE retry == IF p.retry = <<>> THEN ZeroRetry
                        ELSE [p.retry[1] EXCEPT !.backoff = parseDurationOr(@)]
               breaker == IF p.breaker = <<>> THEN ZeroBreaker
                          ELSE [p.breaker[1] EXCEPT !.reset = parseDurationOr(@)]
    <3>4. policy = [plain |-> p.plain, retry |-> retry, breaker |-> breaker]
      BY <2>2, <3>2, Zenon DEF reconstructPolicy
    <3>5. /\ retry = [max |-> retry.max, backoff |-> retry.backoff] /\ retry.backoff \in Durations
      <4>1. CASE p.retry = <<>>
        BY <4>1 DEF ZeroRetry, Durations
      <4>2. CASE p.retry # <<>>
        <5>1. PICK x : p.retry = <<x>>
          BY <3>3, <4>2, PointerIsOption DEF IsOption
        <5>2. p.retry[1] = x /\ x \in ToSet(p.retry)
          BY <5>1, Single
        <5>3. PICK m, b : x = [max |-> m, backoff |-> b]
          BY <3>3, <5>2, Zenon
        <5>4. retry = [x EXCEPT !.backoff = parseDurationOr(@)]
          BY <4>2, <5>2, Zenon
        <5> HIDE DEF retry
        <5>5. retry = [max |-> m, backoff |-> parseDurationOr(b)]
          BY <5>3, <5>4
        <5> QED
          BY <5>5, DurationParsed
      <4> QED
        BY <4>1, <4>2
    <3>6. /\ breaker = [enabled |-> breaker.enabled, reset |-> breaker.reset] /\ breaker.reset \in Durations
      <4>1. CASE p.breaker = <<>>
        BY <4>1 DEF ZeroBreaker, Durations
      <4>2. CASE p.breaker # <<>>
        <5>1. PICK x : p.breaker = <<x>>
          BY <3>3, <4>2, PointerIsOption DEF IsOption
        <5>2. p.breaker[1] = x /\ x \in ToSet(p.breaker)
          BY <5>1, Single
        <5>3. PICK m, b : x = [enabled |-> m, reset |-> b]
          BY <3>3, <5>2, Zenon
        <5>4. breaker = [x EXCEPT !.reset = parseDurationOr(@)]
          BY <4>2, <5>2, Zenon
        <5> HIDE DEF breaker
        <5>5. breaker = [enabled |-> m, reset |-> parseDurationOr(b)]
          BY <5>3, <5>4
        <5> QED
          BY <5>5, DurationParsed
      <4> QED
        BY <4>1, <4>2
    <3> HIDE DEF policy, retry, breaker
    <3>7. policy.retry = retry /\ policy.breaker = breaker
            /\ policy = [plain |-> policy.plain, retry |-> policy.retry, breaker |-> policy.breaker]
      BY <3>4
    <3> QED
      BY <3>5, <3>6, <3>7, Zenon DEF IsPolicy
  <2> QED
    BY <2>1, <2>2
<1> HIDE DEF hosts, policy, transport, tls, timeout
<1>6. /\ IsUpstreamRecord(r) /\ r.timeout = timeout /\ r.policy = policy
      /\ r.transport = transport /\ r.tls = tls /\ r.name = e.name
  BY <1>1 DEF IsUpstreamRecord
<1>7. IsUpstreamConfig(r)
  BY <1>2, <1>3, <1>4, <1>5, <1>6, Zenon DEF IsUpstreamConfig, IsUpstreamRecord
<1> QED
  BY <1>6, <1>7, Zenon DEF tls

-----------------------------------------------------------------------------
(* One flow *)

LEMMA InToSet == \A s, x : x \in ToSet(s) <=> \E i \in DOMAIN s : x = s[i]
  BY DEF ToSet

\* d is what pruning leaves of c.
IsConflict(c) == c = [policy |-> c.policy, upstream |-> c.upstream]
ConflictIs(d, c) == IsConflict(d) /\ d.policy = c.policy /\ d.upstream = kept(c.upstream)

LEMMA PrunedConflict ==
    ASSUME NEW c, IsConflict(c), NEW d, d = pruneConflict(c)
    PROVE  ConflictIs(d, c)
<1>1. PICK p, u : c = [policy |-> p, upstream |-> u]
  BY Zenon DEF IsConflict
<1>2. d = [c EXCEPT !.upstream = kept(c.upstream)]
  BY Zenon DEF pruneConflict
<1> QED
  BY <1>1, <1>2 DEF ConflictIs, IsConflict

\* b is a with the conflict block of the pruned file.
LEMMA PrunedAggregation ==
    ASSUME NEW a, IsAggregationConfig(a), NEW b, b = pruneAggregation(a)
    PROVE  /\ IsAggregationConfig(b) /\ b.strategy = a.strategy /\ b.bestEffort = a.bestEffort
           /\ b.onConflict = <<>> <=> a.onConflict = <<>>
           /\ \A c \in ToSet(a.onConflict) : \E d \in ToSet(b.onConflict) : ConflictIs(d, c)
           /\ \A d \in ToSet(b.onConflict) : \E c \in ToSet(a.onConflict) : ConflictIs(d, c)
<1> DEFINE t == [k \in DOMAIN a.onConflict |-> pruneConflict(a.onConflict[k])]
<1>1. PICK s, e, o : a = [strategy |-> s, bestEffort |-> e, onConflict |-> o]
  BY Zenon DEF IsAggregationConfig
<1>2. b = [a EXCEPT !.onConflict = t]
  BY Zenon DEF pruneAggregation
<1>3. t = [k \in DOMAIN a.onConflict |-> t[k]] /\ DOMAIN t = DOMAIN a.onConflict
  OBVIOUS
<1>4. \A k \in DOMAIN t : t[k] = pruneConflict(a.onConflict[k])
  OBVIOUS
<1>5. a.onConflict = o /\ a.strategy = s /\ a.bestEffort = e
  BY <1>1
<1> HIDE DEF t
<1>6. b = [strategy |-> s, bestEffort |-> e, onConflict |-> t]
  BY <1>1, <1>2
<1>7. /\ b.strategy = s /\ b.bestEffort = e /\ b.onConflict = t
      /\ b = [strategy |-> b.strategy, bestEffort |-> b.bestEffort, onConflict |-> b.onConflict]
  BY <1>6
<1>8. /\ a.bestEffort \in BOOLEAN /\ IsPointer(a.onConflict)
      /\ \A c \in ToSet(a.onConflict) : IsConflict(c)
  BY Zenon DEF IsAggregationConfig, IsConflict
<1>9. IsPointer(t) /\ (t = <<>> <=> a.onConflict = <<>>)
  BY <1>3, <1>8, Mapped DEF IsPointer
<1>10. \A k \in DOMAIN t : ConflictIs(t[k], a.onConflict[k])
  <2> TAKE k \in DOMAIN t
  <2>1. a.onConflict[k] \in ToSet(a.onConflict)
    BY <1>3, InToSet, Zenon
  <2> QED
    BY <2>1, <1>4, <1>8, PrunedConflict, Zenon
<1>11. \A d \in ToSet(t) : IsConflict(d)
  BY <1>10, InToSet DEF ConflictIs
<1>12. IsAggregationConfig(b)
  BY <1>5, <1>7, <1>8, <1>9, <1>11, Zenon DEF IsAggregationConfig, IsConflict
<1>13. \A c \in ToSet(a.onConflict) : \E d \in ToSet(t) : ConflictIs(d, c)
  <2> TAKE c \in ToSet(a.onConflict)
  <2>1. PICK k \in DOMAIN t : c = a.onConflict[k]
    BY <1>3, InToSet, Zenon
  <2>2. t[k] \in ToSet(t)
    BY InToSet
  <2> QED
    BY <1>10, <2>1, <2>2
<1>14. \A d \in ToSet(t) : \E c \in ToSet(a.onConflict) : ConflictIs(d, c)
  <2> TAKE d \in ToSet(t)
  <2>1. PICK k \in DOMAIN t : d = t[k]
    BY InToSet, Zenon
  <2>2. a.onConflict[k] \in ToSet(a.onConflict)
    BY <1>3, InToSet, Zenon
  <2> QED
    BY <1>10, <2>1, <2>2
<1> QED
  BY <1>5, <1>7, <1>9, <1>12, <1>13, <1>14, Zenon

LEMMA PrunedAggregationValid ==
    ASSUME NEW a, IsAggregationConfig(a), NEW b, b = pruneAggregation(a), ValidAggregation(a),
           \A c \in ToSet(a.onConflict) : c.policy = "prefer" => ~isZeroNode(c.upstream)
    PROVE  ValidAggregation(b)
<1>1. /\ b.strategy = a.strategy
      /\ b.onConflict = <<>> <=> a.onConflict = <<>>
      /\ \A d \in ToSet(b.onConflict) : \E c \in ToSet(a.onConflict) : ConflictIs(d, c)
  BY PrunedAggregation, Zenon
<1>2. ASSUME NEW d \in ToSet(b.onConflict)
      PROVE  d.policy \in Policies /\ (d.policy = "prefer" => d.upstream # Unset)
  <2>1. PICK c \in ToSet(a.onConflict) : d.policy = c.policy /\ d.upstream = kept(c.upstream)
    BY <1>1, <1>2 DEF ConflictIs
  <2>2. c.policy \in Policies /\ (c.policy = "prefer" => c.upstream # Unset)
    BY Zenon DEF ValidAggregation
  <2>3. c.policy = "prefer" => kept(c.upstream) = c.upstream
    BY KeptText
  <2> QED
    BY <2>1, <2>2, <2>3
<1> QED
  BY <1>1, <1>2, Zenon DEF ValidAggregation

\* The fields of a flow; g is f, but for the four fields that are given.
IsFlowRecord(f) ==
    f = [path |-> f.path, method |-> f.method, streaming |-> f.streaming,
         aggregation |-> f.aggregation, upstreams |-> f.upstreams,
         plugins |-> f.plugins, middlewares |-> f.middlewares]
FlowIs(g, f, upstreams, aggregation, plugins, middlewares) ==
    /\ IsFlowRecord(g)
    /\ g.path = f.path /\ g.method = f.method /\ g.streaming = f.streaming
    /\ g.upstreams = upstreams /\ g.aggregation = aggregation
    /\ g.plugins = plugins /\ g.middlewares = middlewares

WithUpstreams(f, v) == [f EXCEPT !.upstreams = v]
WithAggregation(f, v) == [f EXCEPT !.aggregation = v]
WithPlugins(f, v) == [f EXCEPT !.plugins = v]
WithMiddlewares(f, v) == [f EXCEPT !.middlewares = v]

LEMMA SameFlow ==
    ASSUME NEW f, NEW ups, NEW agg, NEW pls, NEW mws, NEW g, NEW h,
           FlowIs(g, f, ups, agg, pls, mws), FlowIs(h, f, ups, agg, pls, mws)
    PROVE  g = h
  BY DEF FlowIs, IsFlowRecord

LEMMA WithUpstreamsFields ==
    ASSUME NEW f, IsFlowRecord(f), NEW v, NEW g, g = WithUpstreams(f, v)
    PROVE  FlowIs(g, f, v, f.aggregation, f.plugins, f.middlewares)
  BY DEF FlowIs, IsFlowRecord, WithUpstreams

LEMMA WithAggregationFields ==
    ASSUME NEW f, IsFlowRecord(f), NEW v, NEW g, g = WithAggregation(f, v)
    PROVE  FlowIs(g, f, f.upstreams, v, f.plugins, f.middlewares)
  BY DEF FlowIs, IsFlowRecord, WithAggregation

LEMMA WithPluginsFields ==
    ASSUME NEW f, IsFlowRecord(f), NEW v, NEW g, g = WithPlugins(f, v)
    PROVE  FlowIs(g, f, f.upstreams, f.aggregation, v, f.middlewares)
  BY DEF FlowIs, IsFlowRecord, WithPlugins

LEMMA WithMiddlewaresFields ==
    ASSUME NEW f, IsFlowRecord(f), NEW v, NEW g, g = WithMiddlewares(f, v)
    PROVE  FlowIs(g, f, f.upstreams, f.aggregation, f.plugins, v)
  BY DEF FlowIs, IsFlowRecord, WithMiddlewares

LEMMA Elements ==
    ASSUME NEW s, NEW t, DOMAIN t = DOMAIN s
    PROVE  /\ \A x \in ToSet(t) : \E i \in DOMAIN s : x = t[i] /\ s[i] \in ToSet(s)
           /\ \A x \in ToSet(s) : \E i \in DOMAIN s : x = s[i] /\ t[i] \in ToSet(t)
           /\ \A i \in DOMAIN s : s[i] \in ToSet(s) /\ t[i] \in ToSet(t)
<1>1. \A i \in DOMAIN s : s[i] \in ToSet(s) /\ t[i] \in ToSet(t)
  BY InToSet
<1>2. \A x \in ToSet(t) : \E i \in DOMAIN s : x = t[i]
  BY InToSet
<1>3. \A x \in ToSet(s) : \E i \in DOMAIN s : x = s[i]
  BY InToSet
<1> QED
  BY <1>1, <1>2, <1>3, Zenon

LEMMA SameSlice ==
    ASSUME NEW s, IsSlice(s), NEW t, t = [i \in DOMAIN s |-> t[i]], \A i \in DOMAIN s : t[i] = s[i]
    PROVE  t = s
<1>1. PICK S : s \in Seq(S)
  BY DEF IsSlice
<1>2. s = [i \in DOMAIN s |-> s[i]]
  BY <1>1
<1> QED
  BY <1>2

LEMMA FlowFieldsTyped ==
    ASSUME NEW f, IsFlowConfig(f)
    PROVE  /\ IsFlowRecord(f) /\ f.streaming \in BOOLEAN
           /\ IsPointer(f.aggregation) /\ \A a \in ToSet(f.aggregation) : IsAggregationConfig(a)
           /\ IsSlice(f.upstreams) /\ \A u \in ToSet(f.upstreams) : IsUpstreamConfig(u)
           /\ IsSlice(f.plugins) /\ IsSlice(f.middlewares)
           /\ FlowIs(f, f, f.upstreams, f.aggregation, f.plugins, f.middlewares)
  BY Zenon DEF IsFlowConfig, IsFlowRecord, FlowIs

LEMMA FlowTyped ==
    ASSUME NEW f, NEW g, NEW ups, NEW agg, NEW pls, NEW mws,
           FlowIs(g, f, ups, agg, pls, mws), f.streaming \in BOOLEAN,
           IsPointer(agg), \A a \in ToSet(agg) : IsAggregationConfig(a),
           IsSlice(ups), \A u \in ToSet(ups) : IsUpstreamConfig(u),
           IsSlice(pls), IsSlice(mws)
    PROVE  IsFlowConfig(g)
<1>1. /\ g.streaming \in BOOLEAN /\ g.aggregation = agg /\ g.upstreams = ups
      /\ g.plugins = pls /\ g.middlewares = mws /\ IsFlowRecord(g)
  BY DEF FlowIs
<1> QED
  BY <1>1, Zenon DEF IsFlowConfig, IsFlowRecord

\* Sequences in which every element is the default of the other's.
DefaultsOf(t, s) ==
    /\ DOMAIN t = DOMAIN s /\ t = [i \in DOMAIN s |-> t[i]]
    /\ \A i \in DOMAIN s : t[i] = DefaultUpstreamConfig(s[i])

LEMMA DefaultedFlow ==
    ASSUME NEW f, IsFlowConfig(f), NEW g, g = DefaultFlowConfig(f)
    PROVE  /\ IsFlowConfig(g)
           /\ FlowIs(g, f, g.upstreams, f.aggregation, f.plugins, f.middlewares)
           /\ DefaultsOf(g.upstreams, f.upstreams)
<1>1. PICK t : t = [j \in DOMAIN f.upstreams |-> DefaultUpstreamConfig(f.upstreams[j])]
  OBVIOUS
<1>2. g = WithUpstreams(f, t)
  BY <1>1, Zenon DEF DefaultFlowConfig, WithUpstreams
<1>3. IsFlowRecord(f) /\ IsSlice(f.upstreams)
  BY FlowFieldsTyped
<1>4. FlowIs(g, f, t, f.aggregation, f.plugins, f.middlewares)
  BY <1>2, <1>3, WithUpstreamsFields, Zenon
<1>5. DefaultsOf(t, f.upstreams)
  BY <1>1 DEF DefaultsOf
<1>6. IsSlice(t)
  BY <1>3, <1>5, Mapped DEF DefaultsOf
<1>7. \A u \in ToSet(t) : IsUpstreamConfig(u)
  <2> TAKE u \in ToSet(t)
  <2>1. PICK i \in DOMAIN f.upstreams : u = t[i] /\ f.upstreams[i] \in ToSet(f.upstreams)
    BY <1>5, InToSet DEF DefaultsOf
  <2>2. u = DefaultUpstreamConfig(f.upstreams[i]) /\ IsUpstreamConfig(f.upstreams[i])
    BY <1>5, <2>1, FlowFieldsTyped DEF DefaultsOf
  <2> QED
    BY <2>2, DefaultedUpstream, Zenon
<1>8. IsFlowConfig(g)
  <2>1. /\ f.streaming \in BOOLEAN /\ IsPointer(f.aggregation)
        /\ \A a \in ToSet(f.aggregation) : IsAggregationConfig(a)
        /\ IsSlice(f.plugins) /\ IsSlice(f.middlewares)
    BY FlowFieldsTyped, Zenon
  <2> QED
    BY <2>1, <1>4, <1>6, <1>7, FlowTyped, Zenon
<1>9. g.upstreams = t
  BY <1>4 DEF FlowIs
<1> QED
  BY <1>4, <1>5, <1>8, <1>9

\* Sequences in which every element is what pruning leaves of the other's.
PrunedOf(t, s) ==
    /\ DOMAIN t = DOMAIN s /\ t = [i \in DOMAIN s |-> t[i]]
    /\ \A i \in DOMAIN s : t[i] = pruneAggregation(s[i])

UpstreamsPrunedOf(t, s) ==
    /\ DOMAIN t = DOMAIN s /\ t = [i \in DOMAIN s |-> t[i]]
    /\ \A i \in DOMAIN s : t[i] = pruneUpstream(s[i])

LEMMA PrunedFlow ==
    ASSUME NEW f, IsFlowConfig(f), NEW g, g = pruneFlow(f)
    PROVE  /\ IsFlowConfig(g)
           /\ FlowIs(g, f, g.upstreams, g.aggregation, f.plugins, f.middlewares)
           /\ PrunedOf(g.aggregation, f.aggregation)
           /\ g.aggregation = <<>> <=> f.aggregation = <<>>
           /\ ZeroNamed(g) <=> ZeroNamed(f)
           /\ UpstreamsPrunedOf(g.upstreams, f.upstreams)
           /\ \A u \in ToSet(g.upstreams) : \E v \in ToSet(f.upstreams) : u.tls = v.tls
<1>1. PICK t : t = [j \in DOMAIN f.upstreams |-> pruneUpstream(f.upstreams[j])]
  OBVIOUS
<1>2. PICK a : a = [j \in DOMAIN f.aggregation |-> pruneAggregation(f.aggregation[j])]
  OBVIOUS
<1>3. /\ IsFlowRecord(f) /\ IsSlice(f.upstreams) /\ IsPointer(f.aggregation)
      /\ \A u \in ToSet(f.upstreams) : IsUpstreamConfig(u)
      /\ \A b \in ToSet(f.aggregation) : IsAggregationConfig(b)
      /\ f.streaming \in BOOLEAN /\ IsSlice(f.plugins) /\ IsSlice(f.middlewares)
  BY FlowFieldsTyped, Zenon
<1>4. FlowIs(g, f, t, a, f.plugins, f.middlewares)
  <2>1. PICK h : h = WithUpstreams(f, t)
    OBVIOUS
  <2>2. FlowIs(h, f, t, f.aggregation, f.plugins, f.middlewares)
    BY <1>3, <2>1, WithUpstreamsFields, Zenon
  <2>3. h.aggregation = f.aggregation /\ IsFlowRecord(h)
    BY <2>2 DEF FlowIs
  <2>4. g = WithAggregation(h, a)
    BY <1>1, <1>2, <2>1, Zenon DEF pruneFlow, WithUpstreams, WithAggregation
  <2>5. FlowIs(g, h, h.upstreams, a, h.plugins, h.middlewares)
    BY <2>3, <2>4, WithAggregationFields, Zenon
  <2> QED
    BY <2>2, <2>5 DEF FlowIs
<1>5. g.upstreams = t /\ g.aggregation = a
  BY <1>4 DEF FlowIs
<1>6. /\ DOMAIN t = DOMAIN f.upstreams /\ t = [i \in DOMAIN f.upstreams |-> t[i]]
      /\ \A i \in DOMAIN f.upstreams : t[i] = pruneUpstream(f.upstreams[i])
  BY <1>1
<1>7. PrunedOf(a, f.aggregation)
  BY <1>2 DEF PrunedOf
<1>8. IsSlice(t)
  BY <1>3, <1>6, Mapped
<1>9. IsPointer(a) /\ (a = <<>> <=> f.aggregation = <<>>)
  <2>1. IsSlice(f.aggregation)
    BY <1>3 DEF IsPointer
  <2> QED
    BY <1>3, <1>7, <2>1, Mapped DEF PrunedOf
<1>10. \A i \in DOMAIN f.upstreams :
         /\ f.upstreams[i] \in ToSet(f.upstreams) /\ t[i] \in ToSet(t)
         /\ IsUpstreamConfig(t[i]) /\ t[i].name = kept(f.upstreams[i].name)
         /\ t[i].tls = f.upstreams[i].tls
  <2> TAKE i \in DOMAIN f.upstreams
  <2>1. f.upstreams[i] \in ToSet(f.upstreams) /\ t[i] \in ToSet(t)
    BY <1>6, Elements
  <2>2. PICK u, w : u = f.upstreams[i] /\ w = t[i]
    OBVIOUS
  <2>3. IsUpstreamConfig(u) /\ w = pruneUpstream(u)
    BY <1>3, <1>6, <2>1, <2>2
  <2>4. IsUpstreamConfig(w) /\ w.name = kept(u.name) /\ w.tls = u.tls
    BY <2>3, PrunedUpstream DEF SamePlace
  <2> QED
    BY <2>1, <2>2, <2>4
<1>11. \A i \in DOMAIN f.aggregation :
         /\ f.aggregation[i] \in ToSet(f.aggregation) /\ a[i] \in ToSet(a)
         /\ IsAggregationConfig(f.aggregation[i]) /\ a[i] = pruneAggregation(f.aggregation[i])
  BY <1>3, <1>7, Elements DEF PrunedOf
<1>12. \A u \in ToSet(t) : \E i \in DOMAIN f.upstreams : u = t[i]
  BY <1>6, InToSet
<1>13. \A b \in ToSet(a) : \E i \in DOMAIN f.aggregation : b = a[i]
  BY <1>7, InToSet DEF PrunedOf
<1>14. \A u \in ToSet(f.upstreams) : \E i \in DOMAIN f.upstreams : u = f.upstreams[i]
  BY InToSet
<1>15. \A b \in ToSet(f.aggregation) : \E i \in DOMAIN f.aggregation : b = f.aggregation[i]
  BY InToSet
<1>16. IsFlowConfig(g)
  <2>1. \A u \in ToSet(t) : IsUpstreamConfig(u)
    BY <1>10, <1>12
  <2>2. \A b \in ToSet(a) : IsAggregationConfig(b)
    BY <1>11, <1>13, PrunedAggregation
  <2> QED
    BY <1>3, <1>4, <1>8, <1>9, <2>1, <2>2, FlowTyped, Zenon
<1>17. (\E u \in ToSet(t) : isZeroNode(u.name)) <=> (\E u \in ToSet(f.upstreams) : isZeroNode(u.name))
  BY <1>10, <1>12, <1>14, KeptText
<1> DEFINE Zero(c) == c.policy = "prefer" /\ isZeroNode(c.upstream)
<1>18. \A c, d : ConflictIs(d, c) => (Zero(d) <=> Zero(c))
  BY KeptText DEF ConflictIs
<1> HIDE DEF Zero
<1>19. \A i \in DOMAIN f.aggregation :
         (\E d \in ToSet(a[i].onConflict) : Zero(d))
         <=> (\E c \in ToSet(f.aggregation[i].onConflict) : Zero(c))
  <2> TAKE i \in DOMAIN f.aggregation
  <2>1. PICK x, y : x = f.aggregation[i] /\ y = a[i]
    OBVIOUS
  <2>2. IsAggregationConfig(x) /\ y = pruneAggregation(x)
    BY <1>11, <2>1
  <2>3. /\ \A c \in ToSet(x.onConflict) : \E d \in ToSet(y.onConflict) : ConflictIs(d, c)
        /\ \A d \in ToSet(y.onConflict) : \E c \in ToSet(x.onConflict) : ConflictIs(d, c)
    BY <2>2, PrunedAggregation
  <2>4. (\E d \in ToSet(y.onConflict) : Zero(d)) <=> (\E c \in ToSet(x.onConflict) : Zero(c))
    BY <2>3, <1>18, Zenon
  <2> QED
    BY <2>1, <2>4
<1>20. (\E b \in ToSet(a) : \E d \in ToSet(b.onConflict) : Zero(d))
       <=> (\E b \in ToSet(f.aggregation) : \E c \in ToSet(b.onConflict) : Zero(c))
  BY <1>11, <1>13, <1>15, <1>19
<1>21. ZeroNamed(g) <=> ZeroNamed(f)
  BY <1>5, <1>17, <1>20, Zenon DEF ZeroNamed, Zero
<1>22. UpstreamsPrunedOf(t, f.upstreams)
  BY <1>6, Zenon DEF UpstreamsPrunedOf
<1>23. \A u \in ToSet(t) : \E v \in ToSet(f.upstreams) : u.tls = v.tls
  BY <1>10, <1>12
<1> QED
  BY <1>4, <1>5, <1>7, <1>9, <1>16, <1>21, <1>22, <1>23, Zenon

-----------------------------------------------------------------------------
(* A configuration: defaults and pruning *)

IsConfigRecord(c) ==
    c = [schema |-> c.schema, port |-> c.port, adminPort |-> c.adminPort,
         http2 |-> c.http2, clientAuth |-> c.clientAuth, tls |-> c.tls,
         metrics |-> c.metrics, tracing |-> c.tracing, limiter |-> c.limiter,
         proxies |-> c.proxies, flows |-> c.flows]

\* d is c, but for the three fields that are given.
SameServer(d, c) ==
    /\ d.schema = c.schema /\ d.port = c.port /\ d.adminPort = c.adminPort
    /\ d.tls = c.tls /\ d.metrics = c.metrics /\ d.tracing = c.tracing
    /\ d.limiter = c.limiter /\ d.proxies = c.proxies
ConfigIs(d, c, http2, clientAuth, flows) ==
    /\ IsConfigRecord(d) /\ SameServer(d, c)
    /\ d.http2 = http2 /\ d.clientAuth = clientAuth /\ d.flows = flows

WithHttp2(c, v) == [c EXCEPT !.http2 = v]
WithClientAuth(c, v) == [c EXCEPT !.clientAuth = v]
WithFlows(c, v) == [c EXCEPT !.flows = v]

LEMMA WithHttp2Fields ==
    ASSUME NEW c, IsConfigRecord(c), NEW v, NEW d, d = WithHttp2(c, v)
    PROVE  ConfigIs(d, c, v, c.clientAuth, c.flows)
  BY DEF ConfigIs, IsConfigRecord, SameServer, WithHttp2

LEMMA WithClientAuthFields ==
    ASSUME NEW c, IsConfigRecord(c), NEW v, NEW d, d = WithClientAuth(c, v)
    PROVE  ConfigIs(d, c, c.http2, v, c.flows)
  BY DEF ConfigIs, IsConfigRecord, SameServer, WithClientAuth

LEMMA WithFlowsFields ==
    ASSUME NEW c, IsConfigRecord(c), NEW v, NEW d, d = WithFlows(c, v)
    PROVE  ConfigIs(d, c, c.http2, c.clientAuth, v)
  BY DEF ConfigIs, IsConfigRecord, SameServer, WithFlows

LEMMA ConfigFieldsTyped ==
    ASSUME NEW c, IsConfig(c)
    PROVE  /\ IsConfigRecord(c) /\ IsSlice(c.flows) /\ \A f \in ToSet(c.flows) : IsFlowConfig(f)
           /\ ArePaths({f.path : f \in ToSet(c.flows)})
  BY Zenon DEF IsConfig, IsConfigRecord

\* The flows of one configuration made of those of another, one by one: the
\* same paths, and flows of the same types.
LEMMA FlowsTyped ==
    ASSUME NEW c, IsConfig(c), NEW flows, flows = [i \in DOMAIN c.flows |-> flows[i]],
           \A i \in DOMAIN c.flows : IsFlowConfig(flows[i]) /\ flows[i].path = c.flows[i].path,
           NEW d, NEW http2, NEW auth, ConfigIs(d, c, http2, auth, flows)
    PROVE  IsConfig(d)
<1>1. IsSlice(c.flows) /\ ArePaths({f.path : f \in ToSet(c.flows)})
  BY ConfigFieldsTyped, Zenon
<1>2. IsSlice(flows) /\ DOMAIN flows = DOMAIN c.flows
  BY <1>1, Mapped
<1>3. \A f \in ToSet(flows) : \E i \in DOMAIN c.flows : f = flows[i]
  BY <1>2, InToSet
<1>4. \A i \in DOMAIN c.flows : c.flows[i] \in ToSet(c.flows)
  BY InToSet
<1>5. \A f \in ToSet(flows) : IsFlowConfig(f)
  BY <1>3
<1>6. \A p : p \in {f.path : f \in ToSet(flows)} => p \in {f.path : f \in ToSet(c.flows)}
  BY <1>3, <1>4
<1>7. ArePaths({f.path : f \in ToSet(flows)})
  <2>1. PICK P : P = {f.path : f \in ToSet(flows)}
    OBVIOUS
  <2>2. PICK Q : Q = {f.path : f \in ToSet(c.flows)}
    OBVIOUS
  <2>3. \A p \in P : p \in Q
    BY <1>6, <2>1, <2>2, Zenon
  <2>4. ArePaths(P)
    BY <1>1, <2>2, <2>3, Zenon DEF ArePaths
  <2> QED
    BY <2>1, <2>4
<1>8. d.flows = flows /\ IsConfigRecord(d)
  BY DEF ConfigIs
<1> QED
  BY <1>2, <1>5, <1>7, <1>8, Zenon DEF IsConfig, IsConfigRecord

\* Flows that have their defaults.
FlowDefaultsOf(t, s) ==
    /\ DOMAIN t = DOMAIN s /\ t = [i \in DOMAIN s |-> t[i]]
    /\ \A i \in DOMAIN s : t[i] = DefaultFlowConfig(s[i])

LEMMA DefaultedConfig ==
    ASSUME NEW c, IsConfig(c), NEW d, d = setDefaults(c)
    PROVE  /\ IsConfig(d)
           /\ ConfigIs(d, c, OrDefault(c.http2, Unset, "auto"),
                       OrDefault(c.clientAuth, Unset, "none"), d.flows)
           /\ FlowDefaultsOf(d.flows, c.flows)
<1>1. PICK t : t = [i \in DOMAIN c.flows |-> DefaultFlowConfig(c.flows[i])]
  OBVIOUS
<1>2. PICK h, a : h = OrDefault(c.http2, Unset, "auto") /\ a = OrDefault(c.clientAuth, Unset, "none")
  OBVIOUS
<1>3. IsConfigRecord(c)
  BY ConfigFieldsTyped, Zenon
<1>4. ConfigIs(d, c, h, a, t)
  <2>1. PICK x : x = WithHttp2(c, h)
    OBVIOUS
  <2>2. ConfigIs(x, c, h, c.clientAuth, c.flows)
    BY <1>3, <2>1, WithHttp2Fields, Zenon
  <2>3. PICK y : y = WithClientAuth(x, a)
    OBVIOUS
  <2>4. IsConfigRecord(x)
    BY <2>2 DEF ConfigIs
  <2>5. ConfigIs(y, x, x.http2, a, x.flows)
    BY <2>3, <2>4, WithClientAuthFields, Zenon
  <2>6. IsConfigRecord(y)
    BY <2>5 DEF ConfigIs
  <2>7. d = WithFlows(y, t)
    BY <1>1, <1>2, <2>1, <2>3, Zenon DEF setDefaults, WithHttp2, WithClientAuth, WithFlows
  <2>8. ConfigIs(d, y, y.http2, y.clientAuth, t)
    BY <2>6, <2>7, WithFlowsFields, Zenon
  <2> QED
    BY <2>2, <2>5, <2>8 DEF ConfigIs, SameServer
<1>5. FlowDefaultsOf(t, c.flows)
  BY <1>1 DEF FlowDefaultsOf
<1>6. d.flows = t
  BY <1>4 DEF ConfigIs
<1>7. \A i \in DOMAIN c.flows : IsFlowConfig(t[i]) /\ t[i].path = c.flows[i].path
  <2> TAKE i \in DOMAIN c.flows
  <2>1. IsFlowConfig(c.flows[i]) /\ t[i] = DefaultFlowConfig(c.flows[i])
    BY <1>5, InToSet, ConfigFieldsTyped DEF FlowDefaultsOf
  <2>2. PICK f, g : f = c.flows[i] /\ g = t[i]
    OBVIOUS
  <2>3. IsFlowConfig(g) /\ FlowIs(g, f, g.upstreams, f.aggregation, f.plugins, f.middlewares)
    BY <2>1, <2>2, DefaultedFlow, Zenon
  <2> QED
    BY <2>2, <2>3 DEF FlowIs
<1>8. t = [i \in DOMAIN c.flows |-> t[i]]
  BY <1>5 DEF FlowDefaultsOf
<1>9. IsConfig(d)
  BY <1>4, <1>7, <1>8, FlowsTyped, Zenon
<1> QED
  BY <1>2, <1>4, <1>5, <1>6, <1>9, Zenon

FlowPrunedOf(t, s) ==
    /\ DOMAIN t = DOMAIN s /\ t = [i \in DOMAIN s |-> t[i]]
    /\ \A i \in DOMAIN s : t[i] = pruneFlow(s[i])

LEMMA PrunedConfig ==
    ASSUME NEW c, IsConfig(c), NEW d, d = pruneZeroNodes(c)
    PROVE  /\ IsConfig(d)
           /\ ConfigIs(d, c, c.http2, c.clientAuth, d.flows)
           /\ FlowPrunedOf(d.flows, c.flows)
           /\ NamedZero(d) <=> NamedZero(c)
<1>1. PICK t : t = [i \in DOMAIN c.flows |-> pruneFlow(c.flows[i])]
  OBVIOUS
<1>2. d = WithFlows(c, t)
  BY <1>1, Zenon DEF pruneZeroNodes, WithFlows
<1>3. IsConfigRecord(c)
  BY ConfigFieldsTyped, Zenon
<1>4. ConfigIs(d, c, c.http2, c.clientAuth, t)
  BY <1>2, <1>3, WithFlowsFields, Zenon
<1>5. FlowPrunedOf(t, c.flows)
  BY <1>1 DEF FlowPrunedOf
<1>6. d.flows = t
  BY <1>4 DEF ConfigIs
<1>7. \A i \in DOMAIN c.flows :
        /\ IsFlowConfig(t[i]) /\ t[i].path = c.flows[i].path
        /\ ZeroNamed(t[i]) <=> ZeroNamed(c.flows[i])
  <2> TAKE i \in DOMAIN c.flows
  <2>1. IsFlowConfig(c.flows[i]) /\ t[i] = pruneFlow(c.flows[i])
    BY <1>5, InToSet, ConfigFieldsTyped DEF FlowPrunedOf
  <2>2. PICK f, g : f = c.flows[i] /\ g = t[i]
    OBVIOUS
  <2>3. /\ IsFlowConfig(g) /\ FlowIs(g, f, g.upstreams, g.aggregation, f.plugins, f.middlewares)
        /\ ZeroNamed(g) <=> ZeroNamed(f)
    BY <2>1, <2>2, PrunedFlow
  <2> QED
    BY <2>2, <2>3 DEF FlowIs
<1>8. t = [i \in DOMAIN c.flows |-> t[i]] /\ DOMAIN t = DOMAIN c.flows
  BY <1>5 DEF FlowPrunedOf
<1>9. IsConfig(d)
  <2>1. \A i \in DOMAIN c.flows : IsFlowConfig(t[i]) /\ t[i].path = c.flows[i].path
    BY <1>7
  <2> QED
    BY <1>4, <2>1, <1>8, FlowsTyped, Zenon
<1>10. NamedZero(d) <=> NamedZero(c)
  <2>1. NamedZero(d) <=> \E i \in DOMAIN c.flows : ZeroNamed(t[i])
    BY <1>6, <1>8, InToSet DEF NamedZero
  <2>2. NamedZero(c) <=> \E i \in DOMAIN c.flows : ZeroNamed(c.flows[i])
    BY InToSet DEF NamedZero
  <2> QED
    BY <1>7, <2>1, <2>2
<1> QED
  BY <1>4, <1>5, <1>6, <1>9, <1>10, Zenon

\* What validation sees of an upstream: pruning and defaults leave it alone.
SameSeen(v, u) ==
    /\ v.name = u.name /\ v.hosts = u.hosts /\ v.path = u.path
    /\ v.forwardParams = u.forwardParams /\ v.transport = u.transport /\ v.tls = u.tls

LEMMA PrunedUpstreamSeen ==
    ASSUME NEW u, IsUpstreamConfig(u), ~isZeroNode(u.name),
           NEW g, g = DefaultUpstreamConfig(u), NEW h, h = DefaultUpstreamConfig(pruneUpstream(u))
    PROVE  SameSeen(h, g)
<1>1. PICK w : w = pruneUpstream(u)
  OBVIOUS
<1>2. IsUpstreamConfig(w) /\ w.name = u.name /\ SamePlace(w, u)
  BY <1>1, PrunedUpstream, KeptText
<1>3. /\ w.hosts = u.hosts /\ w.path = u.path /\ w.forwardParams = u.forwardParams
      /\ w.transport = u.transport /\ w.tls = u.tls
  BY <1>2, Zenon DEF SamePlace
<1> DEFINE T(t) == [idle |-> OrDefault(t.idle, 0, 100),
                    idleTimeout |-> OrDefault(t.idleTimeout, 0, 90),
                    http2 |-> OrDefault(t.http2, Unset, "auto")]
<1>4. SameCopied(u, g) /\ g.name = u.name /\ g.tls = u.tls /\ g.transport = T(u.transport)
  BY DefaultedUpstream
<1>5. SameCopied(w, h) /\ h.name = w.name /\ h.tls = w.tls /\ h.transport = T(w.transport)
  BY <1>1, <1>2, DefaultedUpstream
<1> HIDE DEF T
<1>6. h.transport = g.transport
  BY <1>3, <1>4, <1>5, Zenon
<1> QED
  BY <1>2, <1>3, <1>4, <1>5, <1>6 DEF SameSeen, SameCopied

SeenAlike(t, s) ==
    /\ DOMAIN t = DOMAIN s /\ t = [i \in DOMAIN s |-> t[i]]
    /\ \A i \in DOMAIN s : SameSeen(t[i], s[i])

LEMMA AlikeLength ==
    ASSUME NEW s, IsSlice(s), NEW t, SeenAlike(t, s)
    PROVE  /\ IsSlice(t) /\ Len(t) = Len(s) /\ (t = <<>> <=> s = <<>>)
           /\ \A v \in ToSet(t) : \E u \in ToSet(s) : SameSeen(v, u)
<1>1. DOMAIN t = DOMAIN s /\ t = [i \in DOMAIN s |-> t[i]]
  BY DEF SeenAlike
<1>2. IsSlice(t) /\ Len(t) = Len(s) /\ (t = <<>> <=> s = <<>>)
  BY <1>1, Mapped
<1>3. ASSUME NEW v \in ToSet(t) PROVE \E u \in ToSet(s) : SameSeen(v, u)
  <2>1. PICK i \in DOMAIN s : v = t[i] /\ s[i] \in ToSet(s)
    BY <1>1, <1>3, InToSet
  <2> QED
    BY <2>1 DEF SeenAlike
<1> QED
  BY <1>2, <1>3

LEMMA SeenValid ==
    ASSUME NEW u, NEW v, SameSeen(v, u)
    PROVE  /\ ValidUpstream(u) => ValidUpstream(v)
           /\ \A params : validateUpstreamParams(u, params) => validateUpstreamParams(v, params)
           /\ (u.transport.http2 = "on" => u.tls.enabled) => (v.transport.http2 = "on" => v.tls.enabled)
<1>1. /\ v.name = u.name /\ v.hosts = u.hosts /\ v.path = u.path
      /\ v.forwardParams = u.forwardParams /\ v.transport = u.transport /\ v.tls = u.tls
  BY Zenon DEF SameSeen
<1>2. ValidUpstream(u) => ValidUpstream(v)
  BY <1>1, Zenon DEF ValidUpstream
<1>3. \A params : validateUpstreamParams(u, params) => validateUpstreamParams(v, params)
  BY <1>1, Zenon DEF validateUpstreamParams
<1> QED
  BY <1>1, <1>2, <1>3

\* What validation sees of a flow after pruning: the same but for aggregation.
LEMMA PrunedFlowValid ==
    ASSUME NEW f, IsFlowConfig(f), ~ZeroNamed(f),
           NEW g, g = DefaultFlowConfig(f), NEW h, h = DefaultFlowConfig(pruneFlow(f)),
           ValidFlow(g)
    PROVE  /\ ValidFlow(h) /\ IsFlowConfig(h) /\ IsSlice(g.upstreams)
           /\ h.path = g.path /\ h.streaming = g.streaming /\ SeenAlike(h.upstreams, g.upstreams)
           /\ h.aggregation = <<>> <=> g.aggregation = <<>>
<1>1. PICK p : p = pruneFlow(f)
  OBVIOUS
<1>2. /\ IsFlowConfig(p) /\ FlowIs(p, f, p.upstreams, p.aggregation, f.plugins, f.middlewares)
      /\ PrunedOf(p.aggregation, f.aggregation) /\ UpstreamsPrunedOf(p.upstreams, f.upstreams)
      /\ p.aggregation = <<>> <=> f.aggregation = <<>>
  BY <1>1, PrunedFlow
<1>3. /\ FlowIs(g, f, g.upstreams, f.aggregation, f.plugins, f.middlewares)
      /\ DefaultsOf(g.upstreams, f.upstreams) /\ IsFlowConfig(g)
  BY DefaultedFlow
<1>4. /\ FlowIs(h, p, h.upstreams, p.aggregation, p.plugins, p.middlewares)
      /\ DefaultsOf(h.upstreams, p.upstreams) /\ IsFlowConfig(h)
  BY <1>1, <1>2, DefaultedFlow
<1>5. SeenAlike(h.upstreams, g.upstreams) /\ IsSlice(g.upstreams)
  <2>1. PICK s, x, y, z : s = f.upstreams /\ x = g.upstreams /\ y = h.upstreams /\ z = p.upstreams
    OBVIOUS
  <2>2. DefaultsOf(x, s) /\ DefaultsOf(y, z) /\ UpstreamsPrunedOf(z, s)
    BY <1>2, <1>3, <1>4, <2>1
  <2>3. /\ DOMAIN y = DOMAIN x /\ DOMAIN x = DOMAIN s
        /\ \A i \in DOMAIN s : y[i] = DefaultUpstreamConfig(pruneUpstream(s[i]))
        /\ \A i \in DOMAIN s : x[i] = DefaultUpstreamConfig(s[i])
    BY <2>2, Zenon DEF DefaultsOf, UpstreamsPrunedOf
  <2>4. y = [i \in DOMAIN x |-> y[i]]
    BY <2>2, <2>3, Zenon DEF DefaultsOf, UpstreamsPrunedOf
  <2>5. \A i \in DOMAIN s : IsUpstreamConfig(s[i]) /\ ~isZeroNode(s[i].name)
    BY <2>1, InToSet, FlowFieldsTyped DEF ZeroNamed
  <2>6. \A i \in DOMAIN s : SameSeen(y[i], x[i])
    BY <2>3, <2>5, PrunedUpstreamSeen
  <2>7. SeenAlike(y, x)
    BY <2>3, <2>4, <2>6, Zenon DEF SeenAlike
  <2>8. IsSlice(g.upstreams)
    BY <1>3, FlowFieldsTyped
  <2> QED
    BY <2>1, <2>7, <2>8
<1>6. /\ h.path = g.path /\ h.method = g.method /\ h.streaming = g.streaming
      /\ h.plugins = g.plugins /\ h.middlewares = g.middlewares
      /\ g.aggregation = f.aggregation /\ h.aggregation = p.aggregation
  BY <1>2, <1>3, <1>4 DEF FlowIs
<1>7. \A b \in ToSet(h.aggregation) : ValidAggregation(b)
  <2> TAKE b \in ToSet(h.aggregation)
  <2>1. PICK i \in DOMAIN f.aggregation : b = p.aggregation[i]
    BY <1>2, <1>6, InToSet DEF PrunedOf
  <2>2. PICK a : a = f.aggregation[i]
    OBVIOUS
  <2>3. a \in ToSet(f.aggregation)
    BY <2>2, InToSet
  <2>4. b = pruneAggregation(a)
    BY <1>2, <2>1, <2>2 DEF PrunedOf
  <2>5. IsAggregationConfig(a)
    BY <2>3, FlowFieldsTyped
  <2>6. ValidAggregation(a)
    BY <1>6, <2>3 DEF ValidFlow
  <2>7. \A c \in ToSet(a.onConflict) : c.policy = "prefer" => ~isZeroNode(c.upstream)
    BY <2>3, Zenon DEF ZeroNamed
  <2> QED
    BY <2>4, <2>5, <2>6, <2>7, PrunedAggregationValid, Zenon
<1>8. ValidFlow(h)
  <2>1. /\ g.path.rooted /\ g.method \in FlowMethods
        /\ g.upstreams # <<>> /\ \A u \in ToSet(g.upstreams) : ValidUpstream(u)
        /\ \A q \in ToSet(g.plugins) \union ToSet(g.middlewares) : ValidPlugin(q)
    BY Zenon DEF ValidFlow
  <2>2. h.path.rooted /\ h.method \in FlowMethods
    BY <1>6, <2>1, Zenon
  <2>3. h.upstreams # <<>> /\ \A u \in ToSet(h.upstreams) : ValidUpstream(u)
    BY <1>5, <2>1, AlikeLength, SeenValid
  <2>4. \A q \in ToSet(h.plugins) \union ToSet(h.middlewares) : ValidPlugin(q)
    BY <1>6, <2>1
  <2> QED
    BY <1>7, <2>2, <2>3, <2>4, Zenon DEF ValidFlow
<1> QED
  BY <1>2, <1>4, <1>5, <1>6, <1>8

LEMMA SameServerValid ==
    ASSUME NEW c, NEW d, NEW e, NEW http2, NEW auth, NEW s, NEW t,
           ConfigIs(d, c, http2, auth, s), ConfigIs(e, c, http2, auth, t), ValidServer(d)
    PROVE  ValidServer(e)
<1>1. /\ e.schema = d.schema /\ e.port = d.port /\ e.adminPort = d.adminPort
      /\ e.http2 = d.http2 /\ e.tls = d.tls /\ e.clientAuth = d.clientAuth
      /\ e.metrics = d.metrics /\ e.tracing = d.tracing /\ e.limiter = d.limiter
  BY DEF ConfigIs, SameServer
<1>2. e.schema = "v1"
  BY <1>1 DEF ValidServer
<1>3. {e.port, e.adminPort} \subseteq Ports
  BY <1>1 DEF ValidServer
<1>4. e.http2 \in Http2Modes
  BY <1>1 DEF ValidServer
<1>5. e.tls.enabled => e.tls.cert # Unset /\ e.tls.key # Unset
  BY <1>1 DEF ValidServer
<1>6. e.clientAuth \in {"require", "optional", "none"}
  BY <1>1 DEF ValidServer
<1>7. e.clientAuth # "none" => e.tls.ca # Unset
  BY <1>1 DEF ValidServer
<1>8. /\ e.metrics \in {"off", "otlp", "prometheus"} /\ e.tracing \in {"off", "otlp"}
      /\ e.limiter # "without_config"
  BY <1>1 DEF ValidServer
<1> QED
  BY <1>2, <1>3, <1>4, <1>5, <1>6, <1>7, <1>8 DEF ValidServer

\* What is validated is the configuration before pruning; unless a name reads as
\* zero, what is left is valid, too.
LEMMA PrunedValid ==
    ASSUME NEW c, IsConfig(c), ~NamedZero(c), ValidateConfig(setDefaults(c))
    PROVE  ValidateConfig(setDefaults(pruneZeroNodes(c)))
<1>1. PICK p, d, e : p = pruneZeroNodes(c) /\ d = setDefaults(c) /\ e = setDefaults(p)
  OBVIOUS
<1>2. /\ IsConfig(p) /\ ConfigIs(p, c, c.http2, c.clientAuth, p.flows)
      /\ FlowPrunedOf(p.flows, c.flows)
  BY <1>1, PrunedConfig
<1>3. /\ ConfigIs(d, c, OrDefault(c.http2, Unset, "auto"), OrDefault(c.clientAuth, Unset, "none"), d.flows)
      /\ FlowDefaultsOf(d.flows, c.flows)
  BY <1>1, DefaultedConfig
<1>4. /\ ConfigIs(e, p, OrDefault(p.http2, Unset, "auto"), OrDefault(p.clientAuth, Unset, "none"), e.flows)
      /\ FlowDefaultsOf(e.flows, p.flows)
  BY <1>1, <1>2, DefaultedConfig
<1>5. ConfigIs(e, c, OrDefault(c.http2, Unset, "auto"), OrDefault(c.clientAuth, Unset, "none"), e.flows)
  BY <1>2, <1>4 DEF ConfigIs, SameServer
<1>6. /\ ValidStruct(d) /\ d.port # d.adminPort /\ validateFlows(d) /\ validateHTTP2(d)
  BY <1>1, Zenon DEF ValidateConfig
<1>7. ValidServer(d) /\ d.flows # <<>> /\ \A f \in ToSet(d.flows) : ValidFlow(f)
  BY <1>6, Zenon DEF ValidStruct
<1>8. ValidServer(e)
  <2>1. PICK h, a : /\ h = OrDefault(c.http2, Unset, "auto")
                    /\ a = OrDefault(c.clientAuth, Unset, "none")
    OBVIOUS
  <2>2. ConfigIs(d, c, h, a, d.flows) /\ ConfigIs(e, c, h, a, e.flows)
    BY <1>3, <1>5, <2>1
  <2> QED
    BY <1>7, <2>2, SameServerValid
<1>9. /\ e.port = d.port /\ e.adminPort = d.adminPort /\ e.http2 = d.http2 /\ e.tls = d.tls
  BY <1>3, <1>5 DEF ConfigIs, SameServer
<1>10. DOMAIN e.flows = DOMAIN d.flows /\ DOMAIN d.flows = DOMAIN c.flows /\ DOMAIN p.flows = DOMAIN c.flows
  BY <1>2, <1>3, <1>4 DEF FlowDefaultsOf, FlowPrunedOf
<1>11. \A i \in DOMAIN c.flows :
         /\ d.flows[i] \in ToSet(d.flows)
         /\ ValidFlow(e.flows[i]) /\ e.flows[i].path = d.flows[i].path
         /\ e.flows[i].streaming = d.flows[i].streaming
         /\ IsSlice(d.flows[i].upstreams) /\ SeenAlike(e.flows[i].upstreams, d.flows[i].upstreams)
         /\ e.flows[i].aggregation = <<>> <=> d.flows[i].aggregation = <<>>
  <2> TAKE i \in DOMAIN c.flows
  <2>1. PICK f, g, h : f = c.flows[i] /\ g = d.flows[i] /\ h = e.flows[i]
    OBVIOUS
  <2>2. f \in ToSet(c.flows) /\ g \in ToSet(d.flows)
    BY <1>10, <2>1, InToSet
  <2>3. g = DefaultFlowConfig(f) /\ h = DefaultFlowConfig(pruneFlow(f))
    BY <1>2, <1>3, <1>4, <1>10, <2>1 DEF FlowDefaultsOf, FlowPrunedOf
  <2>4. IsFlowConfig(f) /\ ~ZeroNamed(f)
    BY <2>2, ConfigFieldsTyped DEF NamedZero
  <2>5. ValidFlow(g)
    BY <1>7, <2>2
  <2>6. /\ ValidFlow(h) /\ h.path = g.path /\ h.streaming = g.streaming
        /\ IsSlice(g.upstreams) /\ SeenAlike(h.upstreams, g.upstreams)
        /\ h.aggregation = <<>> <=> g.aggregation = <<>>
    BY <2>3, <2>4, <2>5, PrunedFlowValid
  <2> QED
    BY <2>1, <2>2, <2>6
<1>12. \A h \in ToSet(e.flows) : \E g \in ToSet(d.flows) :
         /\ ValidFlow(h) /\ h.path = g.path /\ h.streaming = g.streaming
         /\ IsSlice(g.upstreams) /\ SeenAlike(h.upstreams, g.upstreams)
         /\ h.aggregation = <<>> <=> g.aggregation = <<>>
  <2> TAKE h \in ToSet(e.flows)
  <2>1. PICK i \in DOMAIN c.flows : h = e.flows[i]
    BY <1>10, InToSet
  <2> QED
    BY <1>11, <2>1
<1>13. e.flows # <<>>
  <2>1. IsSlice(c.flows) /\ d.flows = [i \in DOMAIN c.flows |-> d.flows[i]]
    BY <1>3, ConfigFieldsTyped DEF FlowDefaultsOf
  <2>2. c.flows # <<>>
    BY <1>7, <2>1, Mapped
  <2>3. e.flows = [i \in DOMAIN c.flows |-> e.flows[i]]
    BY <1>4, <1>10 DEF FlowDefaultsOf
  <2> QED
    BY <2>1, <2>2, <2>3, Mapped
<1>14. ValidStruct(e)
  <2>1. \A f \in ToSet(e.flows) : ValidFlow(f)
    BY <1>12
  <2> QED
    BY <1>8, <1>13, <2>1, Zenon DEF ValidStruct
<1>15. validateFlows(e)
  <2> SUFFICES ASSUME NEW h \in ToSet(e.flows)
               PROVE  /\ \A u \in ToSet(h.upstreams) : validateUpstreamParams(u, h.path.params)
                      /\ h.streaming => Len(h.upstreams) <= 1
                      /\ ~h.streaming /\ Len(h.upstreams) > 1 => h.aggregation # <<>>
    BY Zenon DEF validateFlows
  <2>1. PICK g \in ToSet(d.flows) :
          /\ h.path = g.path /\ h.streaming = g.streaming
          /\ IsSlice(g.upstreams) /\ SeenAlike(h.upstreams, g.upstreams)
          /\ h.aggregation = <<>> <=> g.aggregation = <<>>
    BY <1>12
  <2>2. /\ \A u \in ToSet(g.upstreams) : validateUpstreamParams(u, g.path.params)
        /\ g.streaming => Len(g.upstreams) <= 1
        /\ ~g.streaming /\ Len(g.upstreams) > 1 => g.aggregation # <<>>
    BY <1>6, Zenon DEF validateFlows
  <2>3. Len(h.upstreams) = Len(g.upstreams)
    BY <2>1, AlikeLength
  <2>4. ASSUME NEW v \in ToSet(h.upstreams) PROVE validateUpstreamParams(v, h.path.params)
    <3>1. PICK u \in ToSet(g.upstreams) : SameSeen(v, u)
      BY <2>1, <2>4, AlikeLength
    <3> QED
      BY <2>1, <2>2, <3>1, SeenValid
  <2> QED
    BY <2>1, <2>2, <2>3, <2>4
<1>16. validateHTTP2(e)
  <2>1. ASSUME NEW v \in Upstreams(e) PROVE v.transport.http2 = "on" => v.tls.enabled
    <3>1. PICK h \in ToSet(e.flows) : v \in ToSet(h.upstreams)
      BY <2>1 DEF Upstreams
    <3>2. PICK g \in ToSet(d.flows) : IsSlice(g.upstreams) /\ SeenAlike(h.upstreams, g.upstreams)
      BY <1>12, <3>1
    <3>3. PICK u \in ToSet(g.upstreams) : SameSeen(v, u)
      BY <3>1, <3>2, AlikeLength
    <3>4. u \in Upstreams(d)
      BY <3>2, <3>3 DEF Upstreams
    <3>5. u.transport.http2 = "on" => u.tls.enabled
      BY <1>6, <3>4, Zenon DEF validateHTTP2
    <3> QED
      BY <3>3, <3>5, SeenValid
  <2>2. e.http2 = "on" => e.tls.enabled
    BY <1>6, <1>9, Zenon DEF validateHTTP2
  <2> QED
    BY <2>1, <2>2, Zenon DEF validateHTTP2
<1>17. e.port # e.adminPort
  BY <1>6, <1>9
<1>18. ValidateConfig(e)
  BY <1>14, <1>15, <1>16, <1>17, Zenon DEF ValidateConfig
<1> QED
  BY <1>1, <1>18

-----------------------------------------------------------------------------
(* Export *)

\* The flow attachOperation keeps for a method and a path.
First(flows, k) == CHOOSE f \in FirstOfKey(flows) : Key(f) = k
Keys(flows) == {Key(f) : f \in ToSet(flows)}

LEMMA FirstFound ==
    ASSUME NEW flows, IsSlice(flows), NEW k \in Keys(flows)
    PROVE  First(flows, k) \in FirstOfKey(flows) /\ Key(First(flows, k)) = k
<1>1. PICK S : flows \in Seq(S)
  BY DEF IsSlice
<1>2. DOMAIN flows = 1 .. Len(flows) /\ Len(flows) \in Nat
  BY <1>1
<1> DEFINE I == {i \in DOMAIN flows : Key(flows[i]) = k}
<1>3. \E i \in DOMAIN flows : Key(flows[i]) = k
  BY InToSet DEF Keys
<1>4. I \subseteq Nat /\ I # {}
  BY <1>2, <1>3
<1>5. PICK m : m = Min(I)
  OBVIOUS
<1>6. m \in I /\ \A j \in I : m <= j
  BY <1>4, <1>5, MinExists
<1>7. \A j \in 1 .. m - 1 : Key(flows[j]) # Key(flows[m])
  <2> SUFFICES ASSUME NEW j \in 1 .. m - 1, Key(flows[j]) = Key(flows[m]) PROVE FALSE
    OBVIOUS
  <2>1. m \in 1 .. Len(flows) /\ Key(flows[m]) = k
    BY <1>2, <1>6
  <2>2. j \in DOMAIN flows /\ ~(m <= j)
    BY <1>2, <2>1
  <2> QED
    BY <1>6, <2>1, <2>2
<1>8. flows[m] \in FirstOfKey(flows) /\ Key(flows[m]) = k
  BY <1>6, <1>7 DEF FirstOfKey
<1> QED
  BY <1>8, Zenon DEF First

LEMMA FirstUnique ==
    ASSUME NEW flows, IsSlice(flows), NEW f \in FirstOfKey(flows)
    PROVE  /\ First(flows, Key(f)) = f /\ f \in ToSet(flows) /\ Key(f) \in Keys(flows)
<1>1. PICK S : flows \in Seq(S)
  BY DEF IsSlice
<1>2. DOMAIN flows = 1 .. Len(flows) /\ Len(flows) \in Nat
  BY <1>1
<1>3. PICK i \in DOMAIN flows : f = flows[i] /\ \A j \in 1 .. i - 1 : Key(flows[j]) # Key(flows[i])
  BY DEF FirstOfKey
<1>4. f \in ToSet(flows) /\ Key(f) \in Keys(flows)
  BY <1>3, InToSet DEF Keys
<1>5. PICK g : g = First(flows, Key(f))
  OBVIOUS
<1>6. g \in FirstOfKey(flows) /\ Key(g) = Key(f)
  BY <1>4, <1>5, FirstFound
<1>7. PICK l \in DOMAIN flows : g = flows[l] /\ \A j \in 1 .. l - 1 : Key(flows[j]) # Key(flows[l])
  BY <1>6 DEF FirstOfKey
<1>8. ~(i < l) /\ ~(l < i)
  BY <1>2, <1>3, <1>6, <1>7
<1>9. i = l
  BY <1>2, <1>8
<1> QED
  BY <1>3, <1>4, <1>5, <1>7, <1>9

\* What the import sees of an operation: the flow that stored itself, if it did.
OperationOf(op, f, extensions) ==
    /\ op.ext = IF extensions THEN <<flowExtension(f)>> ELSE <<>>
    /\ op.wildcard \in BOOLEAN

LEMMA ExportedOperation ==
    ASSUME NEW f, NEW limited, NEW extensions, NEW op, op = buildOperation(f, limited, extensions)
    PROVE  OperationOf(op, f, extensions)
<1>1. PICK w \in BOOLEAN : w = (f.streaming \/ Len(f.upstreams) = 1)
  BY Zenon
<1>2. PICK e : e = IF extensions THEN <<flowExtension(f)>> ELSE <<>>
  OBVIOUS
<1>3. PICK r : r = flowResponses(f, limited) \union (IF findAuthMiddleware(f) THEN {401} ELSE {})
  OBVIOUS
<1>4. op = [opId |-> operationID(f.method, f.path), parameters |-> buildParameters(f),
            responses |-> r, wildcard |-> w, security |-> findAuthMiddleware(f), ext |-> e]
  BY <1>1, <1>2, <1>3, Zenon DEF buildOperation
<1>5. op.ext = e /\ op.wildcard = w
  BY <1>4
<1> QED
  BY <1>1, <1>2, <1>5, Zenon DEF OperationOf

DocumentOf(doc, flows, extensions) ==
    /\ DOMAIN doc.ops = Keys(flows) /\ doc.generated = TRUE
    /\ \A k \in Keys(flows) : OperationOf(doc.ops[k], First(flows, k), extensions)

LEMMA ExportedDocument ==
    ASSUME NEW cfg, NEW extensions, NEW servers, NEW doc, doc = FromConfig(cfg, extensions, servers)
    PROVE  DocumentOf(doc, cfg.flows, extensions)
<1> DEFINE ops == [k \in Keys(cfg.flows) |->
                      buildOperation(First(cfg.flows, k), cfg.limiter = "on", extensions)]
<1>1. doc = [generated |-> TRUE, schema |-> cfg.schema, servers |-> servers, ops |-> ops]
  BY Zenon DEF FromConfig, Keys, First
<1>2. DOMAIN ops = Keys(cfg.flows)
  OBVIOUS
<1>3. \A k \in Keys(cfg.flows) :
        ops[k] = buildOperation(First(cfg.flows, k), cfg.limiter = "on", extensions)
  OBVIOUS
<1> HIDE DEF ops
<1>4. doc.ops = ops /\ doc.generated = TRUE
  BY <1>1
<1>5. \A k \in Keys(cfg.flows) : OperationOf(ops[k], First(cfg.flows, k), extensions)
  BY <1>3, ExportedOperation, Zenon
<1> QED
  BY <1>2, <1>4, <1>5, Zenon DEF DocumentOf

\* What a flow stores of itself.
ExtensionOf(e, f) ==
    /\ e.streaming = f.streaming /\ e.aggregation = f.aggregation
    /\ e.middlewares = [i \in DOMAIN f.middlewares |-> e.middlewares[i]]
    /\ e.plugins = [i \in DOMAIN f.plugins |-> e.plugins[i]]
    /\ e.upstreams = [i \in DOMAIN f.upstreams |-> e.upstreams[i]]
    /\ DOMAIN e.upstreams = DOMAIN f.upstreams
    /\ \A i \in DOMAIN f.upstreams : e.upstreams[i] = upstreamExtension(f.upstreams[i])

LEMMA ExtensionFields ==
    ASSUME NEW f, NEW e, e = flowExtension(f)
    PROVE  ExtensionOf(e, f)
<1>1. PICK m : m = [i \in DOMAIN f.middlewares |-> f.middlewares[i].name]
  OBVIOUS
<1>2. PICK p : p = [i \in DOMAIN f.plugins |-> f.plugins[i].name]
  OBVIOUS
<1>3. PICK u : u = [i \in DOMAIN f.upstreams |-> upstreamExtension(f.upstreams[i])]
  OBVIOUS
<1>4. e = [streaming |-> f.streaming, aggregation |-> f.aggregation, middlewares |-> m,
           plugins |-> p, upstreams |-> u]
  BY <1>1, <1>2, <1>3, Zenon DEF flowExtension
<1>5. e.streaming = f.streaming /\ e.aggregation = f.aggregation /\ e.middlewares = m
        /\ e.plugins = p /\ e.upstreams = u
  BY <1>4
<1>6. m = [i \in DOMAIN f.middlewares |-> m[i]] /\ p = [i \in DOMAIN f.plugins |-> p[i]]
        /\ u = [i \in DOMAIN f.upstreams |-> u[i]]
  BY <1>1, <1>2, <1>3
<1>7. DOMAIN u = DOMAIN f.upstreams /\ \A i \in DOMAIN f.upstreams : u[i] = upstreamExtension(f.upstreams[i])
  BY <1>3
<1> QED
  BY <1>5, <1>6, <1>7 DEF ExtensionOf

LEMMA ExtensionTyped ==
    ASSUME NEW f, IsFlowConfig(f)
    PROVE  IsExtension(flowExtension(f))
<1>1. PICK e : e = flowExtension(f)
  OBVIOUS
<1>2. /\ e.streaming = f.streaming /\ e.aggregation = f.aggregation
      /\ e.upstreams = [i \in DOMAIN f.upstreams |-> e.upstreams[i]]
      /\ DOMAIN e.upstreams = DOMAIN f.upstreams
      /\ \A i \in DOMAIN f.upstreams : e.upstreams[i] = upstreamExtension(f.upstreams[i])
  <2>1. ExtensionOf(e, f)
    BY <1>1, ExtensionFields, Zenon
  <2> QED
    BY <2>1, Zenon DEF ExtensionOf
<1>3. /\ f.streaming \in BOOLEAN /\ IsPointer(f.aggregation)
      /\ \A a \in ToSet(f.aggregation) : IsAggregationConfig(a)
      /\ IsSlice(f.upstreams) /\ \A u \in ToSet(f.upstreams) : IsUpstreamConfig(u)
  BY FlowFieldsTyped, Zenon
<1>4. IsSlice(e.upstreams)
  BY <1>2, <1>3, Mapped
<1>5. \A u \in ToSet(e.upstreams) : IsUpstreamExtension(u)
  <2> TAKE u \in ToSet(e.upstreams)
  <2>1. PICK i \in DOMAIN f.upstreams : u = e.upstreams[i]
    BY <1>2, InToSet
  <2>2. f.upstreams[i] \in ToSet(f.upstreams)
    BY InToSet
  <2>3. IsUpstreamConfig(f.upstreams[i]) /\ u = upstreamExtension(f.upstreams[i])
    BY <1>2, <1>3, <2>1, <2>2
  <2> QED
    BY <2>3, StoredTyped
<1>6. IsExtension(e)
  BY <1>2, <1>3, <1>4, <1>5, Zenon DEF IsExtension
<1> QED
  BY <1>1, <1>6

LEMMA DocumentTyped ==
    ASSUME NEW cfg, IsConfig(cfg), \A f \in ToSet(cfg.flows) : f.method \in FlowMethods,
           NEW extensions \in BOOLEAN, NEW servers,
           NEW doc, doc = FromConfig(cfg, extensions, servers)
    PROVE  IsDocument(doc)
<1>1. PICK flows : flows = cfg.flows
  OBVIOUS
<1>2. IsSlice(flows) /\ \A f \in ToSet(flows) : IsFlowConfig(f) /\ f.method \in FlowMethods
  BY <1>1, ConfigFieldsTyped
<1>3. /\ DOMAIN doc.ops = Keys(flows)
      /\ \A k \in Keys(flows) : OperationOf(doc.ops[k], First(flows, k), extensions)
  <2>1. DocumentOf(doc, flows, extensions)
    BY <1>1, ExportedDocument, Zenon
  <2> QED
    BY <2>1, Zenon DEF DocumentOf
<1>4. IsFiniteSet(Keys(flows))
  <2>1. PICK S : flows \in Seq(S)
    BY <1>2 DEF IsSlice
  <2>2. PICK n \in Nat : DOMAIN flows = 1 .. n
    BY <2>1
  <2>3. IsFiniteSet(1 .. n)
    BY FS_Interval
  <2>4. PICK g : g = [i \in 1 .. n |-> Key(flows[i])]
    OBVIOUS
  <2>5. \A i \in 1 .. n : Key(flows[i]) \in Keys(flows)
    BY <2>2, InToSet DEF Keys
  <2>6. g \in [1 .. n -> Keys(flows)]
    BY <2>4, <2>5
  <2>7. \A k \in Keys(flows) : \E i \in 1 .. n : g[i] = k
    <3> TAKE k \in Keys(flows)
    <3>1. PICK f \in ToSet(flows) : k = Key(f)
      BY DEF Keys
    <3>2. PICK i \in 1 .. n : f = flows[i]
      BY <2>2, InToSet
    <3> QED
      BY <2>4, <3>1, <3>2
  <2>8. g \in Surjection(1 .. n, Keys(flows))
    BY <2>6, <2>7, Zenon DEF Surjection
  <2> QED
    BY <2>3, <2>8, FS_Surjection
<1>5. \A k \in Keys(flows) :
        /\ k = <<k[1], k[2]>> /\ k[2] \in FlowMethods
        /\ \E f \in ToSet(flows) : k[1] = f.path
  <2> TAKE k \in Keys(flows)
  <2>1. PICK f \in ToSet(flows) : k = <<f.path, f.method>>
    BY DEF Keys, Key
  <2>2. k[1] = f.path /\ k[2] = f.method
    BY <2>1
  <2> QED
    BY <1>2, <2>1, <2>2
<1>6. \A k \in Keys(flows) :
        /\ IsPointer(doc.ops[k].ext) /\ \A ext \in ToSet(doc.ops[k].ext) : IsExtension(ext)
        /\ doc.ops[k].wildcard \in BOOLEAN
  <2> TAKE k \in Keys(flows)
  <2>1. PICK op, f : op = doc.ops[k] /\ f = First(flows, k)
    OBVIOUS
  <2>2. f \in FirstOfKey(flows)
    BY <1>2, <2>1, FirstFound
  <2>3. IsFlowConfig(f)
    BY <1>2, <2>2, FirstUnique
  <2>4. OperationOf(op, f, extensions)
    BY <1>3, <2>1
  <2>5. op.ext = IF extensions THEN <<flowExtension(f)>> ELSE <<>>
    BY <2>4, Zenon DEF OperationOf
  <2>6. op.wildcard \in BOOLEAN
    BY <2>4, Zenon DEF OperationOf
  <2>7. IsExtension(flowExtension(f))
    BY <2>3, ExtensionTyped
  <2>8. PICK x : x = flowExtension(f)
    OBVIOUS
  <2>9. op.ext = <<x>> \/ op.ext = <<>>
    BY <2>5, <2>8
  <2>10. IsPointer(op.ext) /\ \A ext \in ToSet(op.ext) : ext = x
    BY <2>9, OptionSet
  <2> QED
    BY <2>1, <2>6, <2>7, <2>8, <2>10
<1>7. ArePaths({k[1] : k \in Keys(flows)})
  <2>1. PICK P, Q : P = {k[1] : k \in Keys(flows)} /\ Q = {f.path : f \in ToSet(flows)}
    OBVIOUS
  <2>2. ArePaths(Q)
    BY <1>1, <2>1, ConfigFieldsTyped
  <2>3. \A p \in P : p \in Q
    BY <1>5, <2>1
  <2>4. ArePaths(P)
    BY <2>2, <2>3, Zenon DEF ArePaths
  <2> QED
    BY <2>1, <2>4
<1> QED
  <2>1. \A k \in DOMAIN doc.ops :
          /\ k = <<k[1], k[2]>> /\ k[2] \in DOMAIN methodSlots
          /\ IsPointer(doc.ops[k].ext)
          /\ \A ext \in ToSet(doc.ops[k].ext) : IsExtension(ext)
          /\ doc.ops[k].wildcard \in BOOLEAN
    BY <1>3, <1>5, <1>6, MethodPlaces
  <2> QED
    BY <1>3, <1>4, <1>7, <2>1, Zenon DEF IsDocument

-----------------------------------------------------------------------------
(* Import *)

\* What every imported flow is like.
ImportedFlow(f, key) ==
    /\ IsFlowConfig(f) /\ f.path = key[1] /\ f.method = key[2]
    /\ f.plugins = <<>> /\ f.middlewares = <<>>
    /\ \A u \in ToSet(f.upstreams) : u.tls.cert = Unset /\ u.tls.key = Unset /\ u.tls.ca = Unset

\* What reconstructFlow makes of an extension.
ReconstructedOf(f, key, ext) ==
    /\ IsFlowRecord(f) /\ f.path = key[1] /\ f.method = key[2]
    /\ f.streaming = ext.streaming /\ f.aggregation = ext.aggregation
    /\ f.plugins = <<>> /\ f.middlewares = <<>>
    /\ f.upstreams = [i \in DOMAIN ext.upstreams |-> f.upstreams[i]]
    /\ \A i \in DOMAIN ext.upstreams : f.upstreams[i] = reconstructUpstream(ext.upstreams[i])

LEMMA ReconstructedFields ==
    ASSUME NEW key, NEW ext, NEW f, f = reconstructFlow(key, ext)
    PROVE  ReconstructedOf(f, key, ext)
<1>1. PICK u : u = [i \in DOMAIN ext.upstreams |-> reconstructUpstream(ext.upstreams[i])]
  OBVIOUS
<1>2. PICK p, m, s, a : p = key[1] /\ m = key[2] /\ s = ext.streaming /\ a = ext.aggregation
  OBVIOUS
<1>3. f = [path |-> p, method |-> m, streaming |-> s, aggregation |-> a, plugins |-> <<>>,
           middlewares |-> <<>>, upstreams |-> u]
  BY <1>1, <1>2, Zenon DEF reconstructFlow
<1>4. /\ IsFlowRecord(f) /\ f.path = p /\ f.method = m /\ f.streaming = s /\ f.aggregation = a
      /\ f.plugins = <<>> /\ f.middlewares = <<>> /\ f.upstreams = u
  BY <1>3 DEF IsFlowRecord
<1>5. /\ u = [i \in DOMAIN ext.upstreams |-> u[i]]
      /\ \A i \in DOMAIN ext.upstreams : u[i] = reconstructUpstream(ext.upstreams[i])
  BY <1>1
<1> QED
  BY <1>2, <1>4, <1>5, Zenon DEF ReconstructedOf

LEMMA ReconstructedFlow ==
    ASSUME NEW key, NEW ext, IsExtension(ext), NEW f, f = reconstructFlow(key, ext)
    PROVE  ImportedFlow(f, key)
<1>1. ReconstructedOf(f, key, ext)
  BY ReconstructedFields, Zenon
<1>2. /\ IsFlowRecord(f) /\ f.path = key[1] /\ f.method = key[2]
      /\ f.streaming = ext.streaming /\ f.aggregation = ext.aggregation
      /\ f.plugins = <<>> /\ f.middlewares = <<>>
      /\ f.upstreams = [i \in DOMAIN ext.upstreams |-> f.upstreams[i]]
      /\ \A i \in DOMAIN ext.upstreams : f.upstreams[i] = reconstructUpstream(ext.upstreams[i])
  BY <1>1, Zenon DEF ReconstructedOf
<1>3. /\ ext.streaming \in BOOLEAN /\ IsPointer(ext.aggregation)
      /\ \A a \in ToSet(ext.aggregation) : IsAggregationConfig(a)
      /\ IsSlice(ext.upstreams) /\ \A u \in ToSet(ext.upstreams) : IsUpstreamExtension(u)
  BY Zenon DEF IsExtension
<1>4. IsSlice(f.upstreams) /\ DOMAIN f.upstreams = DOMAIN ext.upstreams
  BY <1>2, <1>3, Mapped
<1>5. \A u \in ToSet(f.upstreams) :
        IsUpstreamConfig(u) /\ u.tls.cert = Unset /\ u.tls.key = Unset /\ u.tls.ca = Unset
  <2> TAKE u \in ToSet(f.upstreams)
  <2>1. PICK i \in DOMAIN ext.upstreams : u = f.upstreams[i]
    BY <1>4, InToSet
  <2>2. PICK e : e = ext.upstreams[i]
    OBVIOUS
  <2>3. IsUpstreamExtension(e) /\ u = reconstructUpstream(e)
    BY <1>2, <1>3, <2>1, <2>2, InToSet
  <2>4. IsUpstreamConfig(u) /\ u.tls = [NoTLS EXCEPT !.enabled = e.tlsEnabled]
    BY <2>3, ReconstructedTyped, Zenon
  <2>5. u.tls = [enabled |-> e.tlsEnabled, cert |-> Unset, key |-> Unset, ca |-> Unset,
          verify |-> Unset]
    BY <2>4, NoFiles
  <2> QED
    BY <2>4, <2>5
<1>6. IsPointer(<<>>) /\ IsSlice(<<>>)
  BY OptionSet DEF IsPointer
<1>7. IsFlowConfig(f)
  BY <1>2, <1>3, <1>4, <1>5, <1>6, Zenon DEF IsFlowConfig, IsFlowRecord
<1> QED
  BY <1>2, <1>5, <1>7, Zenon DEF ImportedFlow

\* An upstream that has only its texts set.
Plain(u) ==
    /\ IsUpstreamRecord(u) /\ u.timeout = 0 /\ u.policy = ZeroPolicy
    /\ u.transport = ZeroTransport /\ u.tls = NoTLS

LEMMA PlainTyped ==
    ASSUME NEW u, Plain(u)
    PROVE  IsUpstreamConfig(u) /\ u.tls.cert = Unset /\ u.tls.key = Unset /\ u.tls.ca = Unset
<1>1. 0 \in Durations
  BY DEF Durations
<1>2. IsUpstreamConfig(u)
  BY <1>1, ZeroPolicyTyped, Zenon DEF Plain, IsUpstreamConfig, IsUpstreamRecord
<1>3. u.tls = NoTLS
  BY DEF Plain
<1> QED
  BY <1>2, <1>3 DEF NoTLS

WithHosts(u, v) == [u EXCEPT !.hosts = v]
WithTarget(u, v) == [u EXCEPT !.target = v]
WithPath(u, v) == [u EXCEPT !.path = v]
WithQueries(u, v) == [u EXCEPT !.forwardQueries = v]
WithHeaders(u, v) == [u EXCEPT !.forwardHeaders = v]

LEMMA PlainUpstreams ==
    /\ Plain(ZeroUpstream)
    /\ \A u, v : Plain(u) => Plain(WithName(u, v))
    /\ \A u, v : Plain(u) => Plain(WithHosts(u, v))
    /\ \A u, v : Plain(u) => Plain(WithTarget(u, v))
    /\ \A u, v : Plain(u) => Plain(WithPath(u, v))
    /\ \A u, v : Plain(u) => Plain(WithQueries(u, v))
    /\ \A u, v : Plain(u) => Plain(WithHeaders(u, v))
<1>1. Plain(ZeroUpstream)
  BY DEF Plain, IsUpstreamRecord, ZeroUpstream
<1>2. ASSUME NEW u, NEW v, Plain(u), NEW w, w = WithName(u, v) PROVE Plain(w)
  BY <1>2 DEF Plain, IsUpstreamRecord, WithName
<1>3. ASSUME NEW u, NEW v, Plain(u), NEW w, w = WithHosts(u, v) PROVE Plain(w)
  BY <1>3 DEF Plain, IsUpstreamRecord, WithHosts
<1>4. ASSUME NEW u, NEW v, Plain(u), NEW w, w = WithPath(u, v) PROVE Plain(w)
  BY <1>4 DEF Plain, IsUpstreamRecord, WithPath
<1>5. ASSUME NEW u, NEW v, Plain(u), NEW w, w = WithQueries(u, v) PROVE Plain(w)
  BY <1>5 DEF Plain, IsUpstreamRecord, WithQueries
<1>6. ASSUME NEW u, NEW v, Plain(u), NEW w, w = WithHeaders(u, v) PROVE Plain(w)
  BY <1>6 DEF Plain, IsUpstreamRecord, WithHeaders
<1>7. ASSUME NEW u, NEW v, Plain(u), NEW w, w = WithTarget(u, v) PROVE Plain(w)
  BY <1>7 DEF Plain, IsUpstreamRecord, WithTarget
<1> QED
  BY <1>1, <1>2, <1>3, <1>4, <1>5, <1>6, <1>7, Zenon

LEMMA ScaffoldedFlow ==
    ASSUME NEW doc, NEW key, NEW op, NEW options, op.wildcard \in BOOLEAN,
           NEW f, f = scaffoldFlow(doc, key, op, options)
    PROVE  ImportedFlow(f, key)
<1> DEFINE listed(in) == {p.name : p \in {q \in op.parameters : q.in = in}}
<1>1. PICK u : u = WithHeaders(WithQueries(WithPath(WithTarget(WithHosts(WithName(ZeroUpstream,
                     upstreamNameFor(op, key)), <<resolveScaffoldHost(doc, options)>>), pathText),
                     key[1].params), listed("query")), listed("header"))
  OBVIOUS
<1>2. Plain(u)
  BY <1>1, PlainUpstreams, Zenon
<1>3. PICK s \in BOOLEAN : s = (options.mode = "streaming" \/ op.wildcard)
  BY Zenon
<1>4. PICK p, m : p = key[1] /\ m = key[2]
  OBVIOUS
<1>5. f = [path |-> p, method |-> m, aggregation |-> <<>>, plugins |-> <<>>, middlewares |-> <<>>,
           streaming |-> s, upstreams |-> <<u>>]
  BY <1>1, <1>3, <1>4, Zenon 
     DEF scaffoldFlow, WithHeaders, WithQueries, WithPath, WithTarget, WithHosts, WithName
<1>6. /\ IsFlowRecord(f) /\ f.path = p /\ f.method = m /\ f.streaming = s /\ f.aggregation = <<>>
      /\ f.plugins = <<>> /\ f.middlewares = <<>> /\ f.upstreams = <<u>>
  BY <1>5 DEF IsFlowRecord
<1>7. /\ IsPointer(<<>>) /\ IsSlice(<<>>) /\ IsSlice(<<u>>)
      /\ ToSet(<<>>) = {} /\ ToSet(<<u>>) = {u}
  BY OptionSet DEF IsPointer
<1>8. IsUpstreamConfig(u) /\ u.tls.cert = Unset /\ u.tls.key = Unset /\ u.tls.ca = Unset
  BY <1>2, PlainTyped, Zenon
<1>9. IsFlowConfig(f)
  <2>1. \A x \in ToSet(f.upstreams) : IsUpstreamConfig(x)
    BY <1>6, <1>7, <1>8
  <2>2. \A x \in ToSet(f.aggregation) : IsAggregationConfig(x)
    BY <1>6, <1>7
  <2> QED
    BY <1>3, <1>6, <1>7, <2>1, <2>2, Zenon DEF IsFlowConfig, IsFlowRecord
<1>10. \A x \in ToSet(f.upstreams) : x.tls.cert = Unset /\ x.tls.key = Unset /\ x.tls.ca = Unset
  BY <1>6, <1>7, <1>8
<1> QED
  BY <1>4, <1>6, <1>9, <1>10, Zenon DEF ImportedFlow

\* The flows of an imported configuration: one for each slot, in order.
FlowsOf(flows, doc, options) ==
    LET keys == sortedSlots(DOMAIN doc.ops) IN
    /\ DOMAIN flows = DOMAIN keys /\ flows = [i \in DOMAIN keys |-> flows[i]]
    /\ \A i \in DOMAIN keys :
          flows[i] = convertOperation(doc, keys[i], doc.ops[keys[i]], options)

LEMMA ImportedFields ==
    ASSUME NEW doc, NEW options, NEW c, c = ToConfig(doc, options)
    PROVE  /\ IsConfigRecord(c) /\ FlowsOf(c.flows, doc, options)
           /\ c.tls = NoTLS /\ c.proxies = {}
<1>1. PICK keys : keys = sortedSlots(DOMAIN doc.ops)
  OBVIOUS
<1>2. PICK flows : flows = [i \in DOMAIN keys |->
                              convertOperation(doc, keys[i], doc.ops[keys[i]], options)]
  OBVIOUS
<1>3. PICK s, l : /\ s = (IF doc.schema # Unset THEN doc.schema ELSE "v1")
                  /\ l = (IF RateLimited(doc) THEN "on" ELSE "off")
  OBVIOUS
<1>4. PICK a, b : a = defaultServerPort /\ b = defaultAdminPort
  OBVIOUS
<1>5. c = [schema |-> s, port |-> a, adminPort |-> b, http2 |-> Unset, clientAuth |-> Unset,
           tls |-> NoTLS, metrics |-> "off", tracing |-> "off", proxies |-> {}, limiter |-> l,
           flows |-> flows]
  BY <1>1, <1>2, <1>3, <1>4, Zenon DEF ToConfig
<1>6. IsConfigRecord(c) /\ c.flows = flows /\ c.tls = NoTLS /\ c.proxies = {}
  BY <1>5 DEF IsConfigRecord
<1>7. FlowsOf(flows, doc, options)
  BY <1>1, <1>2 DEF FlowsOf
<1> QED
  BY <1>6, <1>7

LEMMA DocumentFields ==
    ASSUME NEW doc, IsDocument(doc)
    PROVE  /\ IsFiniteSet(DOMAIN doc.ops) /\ AreSlots(DOMAIN doc.ops)
           /\ \A k \in DOMAIN doc.ops :
                 /\ IsPointer(doc.ops[k].ext)
                 /\ \A ext \in ToSet(doc.ops[k].ext) : IsExtension(ext)
                 /\ doc.ops[k].wildcard \in BOOLEAN
<1>1. /\ IsFiniteSet(DOMAIN doc.ops) /\ ArePaths({k[1] : k \in DOMAIN doc.ops})
      /\ \A k \in DOMAIN doc.ops :
          /\ k = <<k[1], k[2]>> /\ k[2] \in DOMAIN methodSlots
          /\ IsPointer(doc.ops[k].ext)
          /\ \A ext \in ToSet(doc.ops[k].ext) : IsExtension(ext)
          /\ doc.ops[k].wildcard \in BOOLEAN
  BY Zenon DEF IsDocument
<1>2. \A k \in DOMAIN doc.ops : k = <<k[1], k[2]>> /\ k[2] \in FlowMethods
  BY <1>1, MethodPlaces, Zenon
<1> QED
  BY <1>1, <1>2, Zenon DEF AreSlots

LEMMA ConvertedFlow ==
    ASSUME NEW doc, NEW key, NEW op, NEW options, op.wildcard \in BOOLEAN,
           IsPointer(op.ext), \A ext \in ToSet(op.ext) : IsExtension(ext),
           NEW f, f = convertOperation(doc, key, op, options)
    PROVE  ImportedFlow(f, key)
<1>1. CASE op.ext = <<>>
  <2>1. f = scaffoldFlow(doc, key, op, options)
    BY <1>1, Zenon DEF convertOperation
  <2> QED
    BY <2>1, ScaffoldedFlow, SMT
<1>2. CASE op.ext # <<>>
  <2>1. PICK x : op.ext = <<x>>
    BY <1>2, PointerIsOption DEF IsOption
  <2>2. op.ext[1] = x /\ x \in ToSet(op.ext)
    BY <2>1, Single
  <2>3. f = reconstructFlow(key, x)
    BY <1>2, <2>2, Zenon DEF convertOperation
  <2> QED
    BY <2>2, <2>3, ReconstructedFlow, Zenon
<1> QED
  BY <1>1, <1>2

\* One flow for each operation.
ConvertedFrom(flows, doc, options) ==
    /\ \A f \in ToSet(flows) : \E k \in DOMAIN doc.ops :
          f = convertOperation(doc, k, doc.ops[k], options)
    /\ \A k \in DOMAIN doc.ops : convertOperation(doc, k, doc.ops[k], options) \in ToSet(flows)

LEMMA ImportedTyped ==
    ASSUME NEW doc, IsDocument(doc), NEW options, NEW c, c = ToConfig(doc, options)
    PROVE  /\ IsConfig(c) /\ c.tls = NoTLS /\ c.proxies = {}
           /\ \A f \in ToSet(c.flows) : \E k \in DOMAIN doc.ops : ImportedFlow(f, k)
           /\ ConvertedFrom(c.flows, doc, options)
<1>1. /\ IsConfigRecord(c) /\ FlowsOf(c.flows, doc, options)
      /\ c.tls = NoTLS /\ c.proxies = {}
  BY ImportedFields, Zenon
<1>2. PICK K : K = DOMAIN doc.ops
  OBVIOUS
<1>3. PICK s : s = sortedSlots(K)
  OBVIOUS
<1>4. /\ IsFiniteSet(K) /\ AreSlots(K)
      /\ \A k \in K : /\ IsPointer(doc.ops[k].ext) /\ doc.ops[k].wildcard \in BOOLEAN
                      /\ \A ext \in ToSet(doc.ops[k].ext) : IsExtension(ext)
  BY <1>2, DocumentFields, Zenon
<1>5. IsSlice(s) /\ ToSet(s) = K
  BY <1>3, <1>4, SortedSlots, Zenon
<1>6. PICK flows : flows = c.flows
  OBVIOUS
<1>7. /\ DOMAIN flows = DOMAIN s /\ flows = [i \in DOMAIN s |-> flows[i]]
      /\ \A i \in DOMAIN s : flows[i] = convertOperation(doc, s[i], doc.ops[s[i]], options)
  BY <1>1, <1>2, <1>3, <1>6, Zenon DEF FlowsOf
<1>8. \A k \in K : \A f : f = convertOperation(doc, k, doc.ops[k], options) => ImportedFlow(f, k)
  <2> TAKE k \in K
  <2> TAKE f
  <2> HAVE f = convertOperation(doc, k, doc.ops[k], options)
  <2>1. PICK op : op = doc.ops[k]
    OBVIOUS
  <2>2. /\ IsPointer(op.ext) /\ op.wildcard \in BOOLEAN
        /\ \A ext \in ToSet(op.ext) : IsExtension(ext)
    BY <1>4, <2>1
  <2>3. f = convertOperation(doc, k, op, options)
    BY <2>1
  <2> QED
    BY <2>2, <2>3, ConvertedFlow, SMT
<1>9. \A f \in ToSet(flows) : \E k \in K :
        ImportedFlow(f, k) /\ f = convertOperation(doc, k, doc.ops[k], options)
  <2> TAKE f \in ToSet(flows)
  <2>1. PICK i \in DOMAIN s : f = flows[i]
    BY <1>7, InToSet
  <2>2. s[i] \in K
    BY <1>5, InToSet
  <2> QED
    BY <1>7, <1>8, <2>1, <2>2
<1>10. \A k \in K : convertOperation(doc, k, doc.ops[k], options) \in ToSet(flows)
  <2> TAKE k \in K
  <2>1. PICK i \in DOMAIN s : k = s[i]
    BY <1>5, InToSet
  <2>2. flows[i] \in ToSet(flows)
    BY <1>7, InToSet
  <2> QED
    BY <1>7, <2>1, <2>2
<1>11. IsSlice(flows)
  BY <1>5, <1>7, Mapped
<1>12. \A f \in ToSet(flows) : IsFlowConfig(f)
  BY <1>9 DEF ImportedFlow
<1>13. ArePaths({f.path : f \in ToSet(flows)})
  <2>1. PICK P, Q : P = {f.path : f \in ToSet(flows)} /\ Q = {k[1] : k \in K}
    OBVIOUS
  <2>2. ArePaths(Q)
    BY <1>4, <2>1, Zenon DEF AreSlots
  <2>3. \A p \in P : p \in Q
    BY <1>9, <2>1 DEF ImportedFlow
  <2>4. ArePaths(P)
    BY <2>2, <2>3, Zenon DEF ArePaths
  <2> QED
    BY <2>1, <2>4
<1>14. IsConfig(c)
  BY <1>1, <1>6, <1>11, <1>12, <1>13, Zenon DEF IsConfig, IsConfigRecord
<1>15. ConvertedFrom(c.flows, doc, options)
  BY <1>2, <1>6, <1>9, <1>10, Zenon DEF ConvertedFrom
<1>16. \A f \in ToSet(c.flows) : \E k \in DOMAIN doc.ops : ImportedFlow(f, k)
  BY <1>2, <1>6, <1>9, Zenon
<1> QED
  BY <1>1, <1>14, <1>15, <1>16

-----------------------------------------------------------------------------
(* The gateway can be built from what is imported *)

\* searchUpstream finds a name if there is one.
LEMMA SearchFails ==
    ASSUME NEW V, NEW names \in Seq(V), NEW name
    PROVE  searchUpstream(name, names) = 0 <=> \A i \in DOMAIN names : names[i] # name
<1> DEFINE I == {i \in 1 .. Len(names) : names[i] = name}
<1>1. searchUpstream(name, names) = IF I # {} THEN Min(I) ELSE 0
  BY DEF searchUpstream, SelectInSeq
<1>2. DOMAIN names = 1 .. Len(names) /\ Len(names) \in Nat
  OBVIOUS
<1>3. I # {} => Min(I) # 0
  <2>1. I \subseteq Nat
    BY <1>2
  <2>2. I # {} => Min(I) \in I
    BY <2>1, MinExists
  <2> QED
    BY <1>2, <2>2
<1>4. I = {} <=> \A i \in DOMAIN names : names[i] # name
  BY <1>2
<1> HIDE DEF I
<1> QED
  BY <1>1, <1>3, <1>4

LEMMA AggregationRefusals ==
    ASSUME NEW f, NEW names, compileAggregation(f, names).outcome = "error"
    PROVE  \/ compileAggregation(f, names).why \in {"policy", "strategy"}
           \/ /\ ~f.streaming /\ ~(Len(names) <= 1) /\ f.aggregation # <<>>
              /\ f.aggregation[1].strategy = "merge" /\ f.aggregation[1].onConflict # <<>>
              /\ f.aggregation[1].onConflict[1].policy = "prefer"
              /\ searchUpstream(f.aggregation[1].onConflict[1].upstream, names) = 0
<1>1. \A v : Built(v).outcome = "ok"
  BY DEF Built
<1>2. \A w : Refused(w).why = w
  BY DEF Refused
<1>3. Panic.outcome = "panic"
  BY DEF Panic
<1>4. \A b, c : compileConflict(b, c, names).outcome = "error" =>
        \/ compileConflict(b, c, names).why \in {"policy", "strategy"}
        \/ c.policy = "prefer" /\ searchUpstream(c.upstream, names) = 0
  BY <1>1, <1>2 DEF compileConflict
<1>5. \A a : initAggregation(a, names).outcome = "error" =>
        \/ initAggregation(a, names).why \in {"policy", "strategy"}
        \/ /\ a.strategy = "merge" /\ a.onConflict # <<>>
           /\ a.onConflict[1].policy = "prefer"
           /\ searchUpstream(a.onConflict[1].upstream, names) = 0
  BY <1>1, <1>2, <1>3, <1>4 DEF initAggregation
<1> QED
  BY <1>1, <1>3, <1>5 DEF compileAggregation

LEMMA PreferredRefused ==
    ASSUME NEW f, NEW names, ~f.streaming, ~(Len(names) <= 1), NEW a, f.aggregation = <<a>>,
           a.strategy = "merge", NEW c, a.onConflict = <<c>>, c.policy = "prefer",
           searchUpstream(c.upstream, names) = 0
    PROVE  compileAggregation(f, names) = Refused("preferred")
<1>1. /\ <<a>> # <<>> /\ <<a>>[1] = a /\ <<c>> # <<>> /\ <<c>>[1] = c
  BY OptionSet
<1>2. "merge" \in Strategies /\ "prefer" \in Policies
  BY DEF Strategies, Policies
<1>3. compileConflict(a.bestEffort, c, names) = Refused("preferred")
  BY <1>2, Zenon DEF compileConflict
<1>4. initAggregation(a, names) = Refused("preferred")
  BY <1>1, <1>2, <1>3, Zenon DEF initAggregation
<1> QED
  BY <1>1, <1>4, Zenon DEF compileAggregation

\* The preferred upstream is missing: as the code finds it.
\* MissingPreferred as compileAggregation comes upon it.
MissingAmong(f, names) ==
    \E a, c : /\ ~f.streaming /\ ~(Len(names) <= 1) /\ f.aggregation = <<a>>
              /\ a.strategy = "merge" /\ a.onConflict = <<c>> /\ c.policy = "prefer"
              /\ searchUpstream(c.upstream, names) = 0

LEMMA MissingFound ==
    ASSUME NEW f, IsFlowConfig(f),
           NEW names, names = [i \in DOMAIN f.upstreams |-> f.upstreams[i].name]
    PROVE  MissingPreferred(f) <=> MissingAmong(f, names)
<1>1. /\ IsSlice(f.upstreams) /\ IsPointer(f.aggregation)
      /\ \A a \in ToSet(f.aggregation) : IsAggregationConfig(a)
  BY FlowFieldsTyped, Zenon
<1>2. /\ names = [i \in DOMAIN f.upstreams |-> names[i]]
      /\ \A i \in DOMAIN f.upstreams : names[i] = f.upstreams[i].name
  OBVIOUS
<1>3. IsSlice(names) /\ Len(names) = Len(f.upstreams) /\ Len(names) \in Nat /\ DOMAIN names = DOMAIN f.upstreams
  BY <1>1, <1>2, Mapped
<1>4. \A name : searchUpstream(name, names) = 0 <=> name \notin {u.name : u \in ToSet(f.upstreams)}
  <2> TAKE name
  <2>1. PICK V : names \in Seq(V)
    BY <1>3 DEF IsSlice
  <2>2. searchUpstream(name, names) = 0 <=> \A i \in DOMAIN names : names[i] # name
    BY <2>1, SearchFails
  <2>3. name \in {u.name : u \in ToSet(f.upstreams)} <=> \E i \in DOMAIN f.upstreams : f.upstreams[i].name = name
    BY InToSet
  <2> QED
    BY <1>2, <1>3, <2>2, <2>3
<1>5. Len(f.upstreams) > 1 <=> ~(Len(names) <= 1)
  BY <1>3
<1>6. \A a : a \in ToSet(f.aggregation) <=> f.aggregation = <<a>>
  BY <1>1, PointerIsOption, OptionSet DEF IsOption
<1>7. \A a \in ToSet(f.aggregation) : \A c : c \in ToSet(a.onConflict) <=> a.onConflict = <<c>>
  BY <1>1, PointerIsOption, OptionSet DEF IsOption, IsAggregationConfig
<1> QED
  BY <1>4, <1>5, <1>6, <1>7, Zenon DEF MissingPreferred, MissingAmong

LEMMA ImportedFlowCompiles ==
    ASSUME NEW cfg, ValidateConfig(cfg), NEW f \in ToSet(cfg.flows), IsFlowConfig(f),
           f.plugins = <<>>, f.middlewares = <<>>,
           \A u \in ToSet(f.upstreams) : u.tls.cert = Unset /\ u.tls.key = Unset /\ u.tls.ca = Unset
    PROVE  IF MissingPreferred(f)
           THEN compileFlow(f).outcome = "error" /\ compileFlow(f).why = "preferred"
           ELSE compileFlow(f).outcome = "ok"
<1> DEFINE names == [i \in DOMAIN f.upstreams |-> f.upstreams[i].name]
           agg == compileAggregation(f, names)
           out == compileFlow(f)
<1>1. out.outcome = "ok" \/ (out.outcome = "error" /\ out.why \in Refusals)
  BY ValidFlowsCompile
<1>2. \A u \in ToSet(f.upstreams) : FilesLoad(u.tls)
  BY TextsDiffer DEF FilesLoad
<1>3. Loads(<<>>)
  BY DEF Loads, FirstOfName
<1>4. \/ out = Refused("streaming") /\ f.streaming
      \/ out = agg /\ agg.outcome # "ok"
      \/ agg.outcome = "ok" /\ \E v : out = Built(v)
  <2>1. ~\E u \in ToSet(f.upstreams) : ~FilesLoad(u.tls)
    BY <1>2
  <2>2. Loads(f.plugins) /\ Loads(f.middlewares)
    BY <1>3
  <2> QED
    BY <2>1, <2>2, Zenon DEF compileFlow
<1>5. MissingPreferred(f) <=>
        \E a, c : /\ ~f.streaming /\ ~(Len(names) <= 1) /\ f.aggregation = <<a>>
                  /\ a.strategy = "merge" /\ a.onConflict = <<c>> /\ c.policy = "prefer"
                  /\ searchUpstream(c.upstream, names) = 0
  <2>1. PICK ns : ns = names
    OBVIOUS
  <2>2. ns = [i \in DOMAIN f.upstreams |-> f.upstreams[i].name]
    BY <2>1
  <2> HIDE DEF names, agg, out
  <2>3. MissingPreferred(f) <=> MissingAmong(f, ns)
    BY <2>2, MissingFound
  <2> QED
    BY <2>1, <2>3 DEF MissingAmong
<1>6. IsPointer(f.aggregation) /\ \A a \in ToSet(f.aggregation) : IsPointer(a.onConflict)
  BY FlowFieldsTyped, Zenon DEF IsAggregationConfig
<1> HIDE DEF names, agg, out
<1>7. CASE out = Refused("streaming")
  <2>1. out.outcome = "error" /\ out.why = "streaming"
    BY <1>7 DEF Refused
  <2> QED
    BY <1>1, <2>1 DEF Refusals
<1>8. CASE out = agg /\ agg.outcome # "ok"
  <2>1. agg.outcome = "error" /\ agg.why \in Refusals
    BY <1>1, <1>8
  <2>2. agg.why \notin {"policy", "strategy"}
    BY <2>1 DEF Refusals
  <2>3. /\ ~f.streaming /\ ~(Len(names) <= 1) /\ f.aggregation # <<>>
        /\ f.aggregation[1].strategy = "merge" /\ f.aggregation[1].onConflict # <<>>
        /\ f.aggregation[1].onConflict[1].policy = "prefer"
        /\ searchUpstream(f.aggregation[1].onConflict[1].upstream, names) = 0
    BY <2>1, <2>2, AggregationRefusals, Zenon DEF agg
  <2>4. PICK a : f.aggregation = <<a>>
    BY <1>6, <2>3, PointerIsOption DEF IsOption
  <2>5. f.aggregation[1] = a /\ a \in ToSet(f.aggregation)
    BY <2>4, Single
  <2>6. PICK c : a.onConflict = <<c>>
    BY <1>6, <2>3, <2>5, PointerIsOption DEF IsOption
  <2>7. a.onConflict[1] = c
    BY <2>6, Single
  <2>8. MissingPreferred(f)
    BY <1>5, <2>3, <2>4, <2>5, <2>6, <2>7, Zenon
  <2>9. agg = Refused("preferred")
    BY <2>3, <2>4, <2>5, <2>6, <2>7, PreferredRefused DEF agg
  <2>10. agg.why = "preferred"
    BY <2>9 DEF Refused
  <2> QED
    BY <1>8, <2>1, <2>8, <2>10 DEF out
<1>9. CASE agg.outcome = "ok" /\ \E v : out = Built(v)
  <2>1. out.outcome = "ok"
    BY <1>9 DEF Built
  <2>2. ~MissingPreferred(f)
    <3> SUFFICES ASSUME MissingPreferred(f) PROVE FALSE
      OBVIOUS
    <3>1. PICK a, c :
            /\ ~f.streaming /\ ~(Len(names) <= 1) /\ f.aggregation = <<a>>
            /\ a.strategy = "merge" /\ a.onConflict = <<c>> /\ c.policy = "prefer"
            /\ searchUpstream(c.upstream, names) = 0
      BY <1>5
    <3>2. agg = Refused("preferred")
      BY <3>1, PreferredRefused DEF agg
    <3> QED
      BY <1>9, <3>2 DEF Refused
  <2> QED
    BY <2>1, <2>2 DEF out
<1> QED
  BY <1>4, <1>7, <1>8, <1>9

\* Pruning and defaults leave it what it was.
LEMMA ImportedKept ==
    ASSUME NEW f, NEW k, ImportedFlow(f, k), NEW g, g = pruneFlow(f),
           NEW h, h = DefaultFlowConfig(g)
    PROVE  ImportedFlow(h, k)
<1>1. /\ IsFlowConfig(f) /\ f.path = k[1] /\ f.method = k[2]
      /\ f.plugins = <<>> /\ f.middlewares = <<>>
      /\ \A u \in ToSet(f.upstreams) : u.tls.cert = Unset /\ u.tls.key = Unset /\ u.tls.ca = Unset
  BY Zenon DEF ImportedFlow
<1>2. /\ IsFlowConfig(g) /\ FlowIs(g, f, g.upstreams, g.aggregation, f.plugins, f.middlewares)
      /\ \A u \in ToSet(g.upstreams) : \E v \in ToSet(f.upstreams) : u.tls = v.tls
  BY <1>1, PrunedFlow
<1>3. /\ IsFlowConfig(h) /\ FlowIs(h, g, h.upstreams, g.aggregation, g.plugins, g.middlewares)
      /\ DefaultsOf(h.upstreams, g.upstreams)
  BY <1>2, DefaultedFlow
<1>4. h.path = k[1] /\ h.method = k[2] /\ h.plugins = <<>> /\ h.middlewares = <<>>
  BY <1>1, <1>2, <1>3 DEF FlowIs
<1>5. ASSUME NEW u \in ToSet(h.upstreams)
      PROVE  u.tls.cert = Unset /\ u.tls.key = Unset /\ u.tls.ca = Unset
  <2>1. PICK i \in DOMAIN g.upstreams : u = h.upstreams[i]
    BY <1>3, InToSet DEF DefaultsOf
  <2>2. PICK w : w = g.upstreams[i]
    OBVIOUS
  <2>3. u = DefaultUpstreamConfig(w) /\ w \in ToSet(g.upstreams)
    BY <1>3, <2>1, <2>2, InToSet DEF DefaultsOf
  <2>4. IsUpstreamConfig(w)
    BY <1>2, <2>3, FlowFieldsTyped
  <2>5. u.tls = w.tls
    BY <2>3, <2>4, DefaultedUpstream
  <2>6. PICK v \in ToSet(f.upstreams) : w.tls = v.tls
    BY <1>2, <2>3
  <2> QED
    BY <1>1, <2>5, <2>6
<1> QED
  BY <1>3, <1>4, <1>5, Zenon DEF ImportedFlow

LEMMA RouterBuilt ==
    ASSUME NEW cfg, IsSlice(cfg.flows), cfg.proxies = {},
           \A f \in ToSet(cfg.flows) :
              IF MissingPreferred(f)
              THEN compileFlow(f).outcome = "error" /\ compileFlow(f).why = "preferred"
              ELSE compileFlow(f).outcome = "ok"
    PROVE  IF \E f \in ToSet(cfg.flows) : MissingPreferred(f)
           THEN NewRouter(cfg).outcome = "error" /\ NewRouter(cfg).why = "preferred"
           ELSE NewRouter(cfg).outcome = "ok"
<1> DEFINE Bad(f) == compileFlow(f).outcome # "ok"
           I == {i \in 1 .. Len(cfg.flows) : Bad(cfg.flows[i])}
           bad == SelectInSeq(cfg.flows, Bad)
<1>1. PICK S : cfg.flows \in Seq(S)
  BY DEF IsSlice
<1>2. DOMAIN cfg.flows = 1 .. Len(cfg.flows) /\ Len(cfg.flows) \in Nat
  BY <1>1
<1>3. bad = IF I # {} THEN Min(I) ELSE 0
  BY Zenon DEF SelectInSeq
<1>4. NewRouter(cfg) = IF bad # 0 THEN compileFlow(cfg.flows[bad]) ELSE Built(registerFlows(cfg.flows))
  BY Zenon DEF NewRouter
<1>5. \A v : Built(v).outcome = "ok"
  BY DEF Built
<1> HIDE DEF bad
<1>6. CASE I = {}
  <2>1. bad = 0
    BY <1>3, <1>6, Zenon
  <2>2. \A f \in ToSet(cfg.flows) : ~Bad(f)
    BY <1>2, <1>6, InToSet
  <2>3. \A f \in ToSet(cfg.flows) : ~MissingPreferred(f)
    BY <2>2
  <2>4. NewRouter(cfg).outcome = "ok"
    BY <1>4, <1>5, <2>1, Zenon
  <2> QED
    BY <2>3, <2>4
<1>7. CASE I # {}
  <2>1. bad = Min(I) /\ I \subseteq Nat
    BY <1>2, <1>3, <1>7
  <2>2. bad \in I
    BY <1>7, <2>1, MinExists
  <2>3. bad \in 1 .. Len(cfg.flows) /\ Bad(cfg.flows[bad])
    BY <2>2, Zenon
  <2>4. bad # 0 /\ cfg.flows[bad] \in ToSet(cfg.flows)
    BY <1>2, <2>3, InToSet
  <2>5. NewRouter(cfg) = compileFlow(cfg.flows[bad])
    BY <1>4, <2>4, Zenon
  <2>6. MissingPreferred(cfg.flows[bad])
    BY <2>3, <2>4
  <2> QED
    BY <2>4, <2>5, <2>6
<1> QED
  BY <1>6, <1>7

\* A name that pruning took away is missed by the validation.
LEMMA ZeroNamedInvalid ==
    ASSUME NEW f, IsFlowConfig(f), NEW g, g = pruneFlow(f), ZeroNamed(g),
           NEW h, h = DefaultFlowConfig(g)
    PROVE  ~ValidFlow(h)
<1>1. /\ IsFlowConfig(g) /\ PrunedOf(g.aggregation, f.aggregation)
      /\ UpstreamsPrunedOf(g.upstreams, f.upstreams)
  BY PrunedFlow
<1>2. /\ FlowIs(h, g, h.upstreams, g.aggregation, g.plugins, g.middlewares)
      /\ DefaultsOf(h.upstreams, g.upstreams)
  BY <1>1, DefaultedFlow
<1>3. CASE \E u \in ToSet(g.upstreams) : isZeroNode(u.name)
  <2>1. PICK i \in DOMAIN g.upstreams : isZeroNode(g.upstreams[i].name)
    BY <1>3, InToSet
  <2>2. PICK u, v, w : u = f.upstreams[i] /\ v = g.upstreams[i] /\ w = h.upstreams[i]
    OBVIOUS
  <2>3. i \in DOMAIN f.upstreams /\ v = pruneUpstream(u) /\ w = DefaultUpstreamConfig(v)
    BY <1>1, <1>2, <2>1, <2>2 DEF UpstreamsPrunedOf, DefaultsOf
  <2>4. IsUpstreamConfig(u)
    BY <2>2, <2>3, InToSet, FlowFieldsTyped
  <2>5. IsUpstreamConfig(v) /\ v.name = kept(u.name)
    BY <2>3, <2>4, PrunedUpstream
  <2>6. w.name = v.name
    BY <2>3, <2>5, DefaultedUpstream
  <2>7. w.name = Unset
    BY <2>1, <2>2, <2>5, <2>6, KeptText
  <2>8. w \in ToSet(h.upstreams)
    BY <1>2, <2>1, <2>2, InToSet DEF DefaultsOf
  <2> QED
    BY <2>7, <2>8, Zenon DEF ValidFlow, ValidUpstream
<1>4. CASE \E b \in ToSet(g.aggregation) : \E c \in ToSet(b.onConflict) :
             c.policy = "prefer" /\ isZeroNode(c.upstream)
  <2>1. PICK i \in DOMAIN g.aggregation :
          \E c \in ToSet(g.aggregation[i].onConflict) : c.policy = "prefer" /\ isZeroNode(c.upstream)
    BY <1>4, InToSet
  <2>2. PICK a, b : a = f.aggregation[i] /\ b = g.aggregation[i]
    OBVIOUS
  <2>3. i \in DOMAIN f.aggregation /\ b = pruneAggregation(a)
    BY <1>1, <2>1, <2>2 DEF PrunedOf
  <2>4. IsAggregationConfig(a)
    BY <2>2, <2>3, InToSet, FlowFieldsTyped
  <2>5. PICK d \in ToSet(b.onConflict) : d.policy = "prefer" /\ isZeroNode(d.upstream)
    BY <2>1, <2>2
  <2>6. PICK c : ConflictIs(d, c)
    BY <2>3, <2>4, <2>5, PrunedAggregation
  <2>7. d.upstream = Unset
    BY <2>5, <2>6, KeptText DEF ConflictIs
  <2>8. ~ValidAggregation(b)
    BY <2>5, <2>7, Zenon DEF ValidAggregation
  <2>9. b \in ToSet(h.aggregation)
    BY <1>2, <2>1, <2>2, InToSet DEF FlowIs
  <2> QED
    BY <2>8, <2>9, Zenon DEF ValidFlow
<1> QED
  BY <1>3, <1>4, Zenon DEF ZeroNamed

LEMMA NamedZeroInvalid ==
    ASSUME NEW c, IsConfig(c), NEW p, p = pruneZeroNodes(c), NamedZero(p),
           NEW e, e = setDefaults(p)
    PROVE  ~ValidateConfig(e)
<1>1. IsConfig(p) /\ FlowPrunedOf(p.flows, c.flows)
  BY PrunedConfig
<1>2. FlowDefaultsOf(e.flows, p.flows)
  BY <1>1, DefaultedConfig
<1>3. PICK i \in DOMAIN p.flows : ZeroNamed(p.flows[i])
  BY InToSet DEF NamedZero
<1>4. PICK f, g, h : f = c.flows[i] /\ g = p.flows[i] /\ h = e.flows[i]
  OBVIOUS
<1>5. i \in DOMAIN c.flows /\ g = pruneFlow(f) /\ h = DefaultFlowConfig(g)
  BY <1>1, <1>2, <1>3, <1>4 DEF FlowPrunedOf, FlowDefaultsOf
<1>6. IsFlowConfig(f)
  BY <1>4, <1>5, InToSet, ConfigFieldsTyped
<1>7. ~ValidFlow(h)
  BY <1>3, <1>4, <1>5, <1>6, ZeroNamedInvalid
<1>8. h \in ToSet(e.flows)
  BY <1>2, <1>3, <1>4, InToSet DEF FlowDefaultsOf
<1> QED
  BY <1>7, <1>8, Zenon DEF ValidateConfig, ValidStruct

\* What runOpenAPIImport writes is accepted, unless a name reads as zero, and
\* the server can be built from it, unless a preferred upstream is missing.
LEMMA ImportedBuilds ==
    ASSUME NEW doc, IsDocument(doc), NEW options, NEW c, c = ToConfig(doc, options),
           ValidateConfig(setDefaults(c)), NEW p, p = pruneZeroNodes(c), ~NamedZero(p),
           NEW e, e = setDefaults(p)
    PROVE  /\ ValidateConfig(e)
           /\ IF \E f \in ToSet(e.flows) : MissingPreferred(f)
              THEN NewServer(e).outcome = "error" /\ NewServer(e).why = "preferred"
              ELSE NewServer(e).outcome = "ok"
<1>1. /\ IsConfig(c) /\ c.tls = NoTLS /\ c.proxies = {}
      /\ \A f \in ToSet(c.flows) : \E k \in DOMAIN doc.ops : ImportedFlow(f, k)
  BY ImportedTyped
<1>2. /\ IsConfig(p) /\ ConfigIs(p, c, c.http2, c.clientAuth, p.flows)
      /\ FlowPrunedOf(p.flows, c.flows) /\ ~NamedZero(c)
  BY <1>1, PrunedConfig
<1>3. ValidateConfig(e)
  BY <1>1, <1>2, PrunedValid
<1>4. /\ IsConfig(e) /\ FlowDefaultsOf(e.flows, p.flows)
      /\ ConfigIs(e, p, OrDefault(p.http2, Unset, "auto"), OrDefault(p.clientAuth, Unset, "none"), e.flows)
  BY <1>2, DefaultedConfig
<1>5. e.tls = NoTLS /\ e.proxies = {}
  BY <1>1, <1>2, <1>4 DEF ConfigIs, SameServer
<1>6. IsSlice(e.flows)
  BY <1>4, ConfigFieldsTyped
<1>7. ASSUME NEW h \in ToSet(e.flows)
      PROVE  IF MissingPreferred(h)
             THEN compileFlow(h).outcome = "error" /\ compileFlow(h).why = "preferred"
             ELSE compileFlow(h).outcome = "ok"
  <2>1. PICK i \in DOMAIN c.flows : h = e.flows[i]
    BY <1>2, <1>4, InToSet DEF FlowDefaultsOf, FlowPrunedOf
  <2>2. PICK f, g : f = c.flows[i] /\ g = p.flows[i]
    OBVIOUS
  <2>3. f \in ToSet(c.flows) /\ g = pruneFlow(f) /\ h = DefaultFlowConfig(g)
    BY <1>2, <1>4, <2>1, <2>2, InToSet DEF FlowDefaultsOf, FlowPrunedOf
  <2>4. PICK k : ImportedFlow(f, k)
    BY <1>1, <2>3
  <2>5. ImportedFlow(h, k)
    BY <2>3, <2>4, ImportedKept
  <2>6. /\ IsFlowConfig(h) /\ h.plugins = <<>> /\ h.middlewares = <<>>
        /\ \A u \in ToSet(h.upstreams) : u.tls.cert = Unset /\ u.tls.key = Unset /\ u.tls.ca = Unset
    BY <2>5, Zenon DEF ImportedFlow
  <2> QED
    BY <1>3, <1>7, <2>6, ImportedFlowCompiles
<1>8. PICK router : router = NewRouter(e)
  OBVIOUS
<1>9. IF \E f \in ToSet(e.flows) : MissingPreferred(f)
      THEN router.outcome = "error" /\ router.why = "preferred"
      ELSE router.outcome = "ok"
  BY <1>5, <1>6, <1>7, <1>8, RouterBuilt
<1>10. ~e.tls.enabled
  BY <1>5 DEF NoTLS
<1>11. NewServer(e) = router
  BY <1>8, <1>10, Zenon DEF NewServer, FilesLoad
<1> QED
  BY <1>3, <1>9, <1>11

-----------------------------------------------------------------------------
(* The round trip *)

\* A flow of a loaded configuration: it has its defaults, and hosts.
LoadedFlow(f) ==
    /\ IsFlowConfig(f)
    /\ \A u \in ToSet(f.upstreams) :
          u.hosts # <<>> /\ u.timeout # 0 /\ u.transport.idle # 0 /\ u.transport.idleTimeout # 0

\* What LoadConfig returns.
LoadedConfig(cfg) ==
    /\ IsConfig(cfg) /\ ValidateConfig(cfg)
    /\ \A f \in ToSet(cfg.flows) : LoadedFlow(f) /\ f.method \in FlowMethods

LEMMA LoadedFlows ==
    ASSUME NEW c, IsConfig(c), NEW d, d = setDefaults(c), ValidateConfig(d)
    PROVE  LoadedConfig(d)
<1>0. SUFFICES \A f \in ToSet(d.flows) : LoadedFlow(f) /\ f.method \in FlowMethods
  BY DefaultedConfig, Zenon DEF LoadedConfig
<1>1. IsConfig(d) /\ FlowDefaultsOf(d.flows, c.flows)
  BY DefaultedConfig
<1>2. \A f \in ToSet(d.flows) : ValidFlow(f)
  BY Zenon DEF ValidateConfig, ValidStruct
<1> TAKE f \in ToSet(d.flows)
<1>3. IsFlowConfig(f)
  BY <1>1, ConfigFieldsTyped
<1>4. f.method \in FlowMethods /\ \A u \in ToSet(f.upstreams) : u.hosts # <<>>
  BY <1>2, Zenon DEF ValidFlow, ValidUpstream
<1>5. PICK i \in DOMAIN c.flows : f = d.flows[i]
  BY <1>1, InToSet DEF FlowDefaultsOf
<1>6. PICK g : g = c.flows[i]
  OBVIOUS
<1>7. IsFlowConfig(g) /\ f = DefaultFlowConfig(g)
  BY <1>1, <1>5, <1>6, InToSet, ConfigFieldsTyped DEF FlowDefaultsOf
<1>8. DefaultsOf(f.upstreams, g.upstreams)
  BY <1>7, DefaultedFlow
<1>9. ASSUME NEW u \in ToSet(f.upstreams)
      PROVE  u.timeout # 0 /\ u.transport.idle # 0 /\ u.transport.idleTimeout # 0
  <2>1. PICK j \in DOMAIN g.upstreams : u = f.upstreams[j]
    BY <1>8, InToSet DEF DefaultsOf
  <2>2. PICK w : w = g.upstreams[j]
    OBVIOUS
  <2>3. IsUpstreamConfig(w) /\ u = DefaultUpstreamConfig(w)
    <3>1. u = DefaultUpstreamConfig(w)
      BY <1>8, <2>1, <2>2 DEF DefaultsOf
    <3>2. w \in ToSet(g.upstreams)
      BY <2>2, InToSet
    <3>3. \A v \in ToSet(g.upstreams) : IsUpstreamConfig(v)
      BY <1>7, FlowFieldsTyped
    <3> QED
      BY <3>1, <3>2, <3>3, Zenon
  <2> QED
    BY <2>3, DefaultedUpstream
<1> QED
  BY <1>3, <1>4, <1>9, Zenon DEF LoadedFlow

LEMMA RestoredFields ==
    ASSUME NEW f, IsFlowRecord(f), NEW ups, NEW agg,
           ups = [i \in DOMAIN f.upstreams |-> RestoredUpstream(f.upstreams[i])],
           agg = [i \in DOMAIN f.aggregation |-> pruneAggregation(f.aggregation[i])]
    PROVE  FlowIs(Restored(f), f, ups, agg, <<>>, <<>>)
<1>1. PICK a : a = WithPlugins(f, <<>>)
  OBVIOUS
<1>2. FlowIs(a, f, f.upstreams, f.aggregation, <<>>, f.middlewares)
  BY <1>1, WithPluginsFields, Zenon
<1>3. PICK b : b = WithMiddlewares(a, <<>>)
  OBVIOUS
<1>4. IsFlowRecord(a)
  BY <1>2 DEF FlowIs
<1>5. FlowIs(b, a, a.upstreams, a.aggregation, a.plugins, <<>>)
  BY <1>3, <1>4, WithMiddlewaresFields, Zenon
<1>6. PICK c : c = WithAggregation(b, agg)
  OBVIOUS
<1>7. IsFlowRecord(b)
  BY <1>5 DEF FlowIs
<1>8. FlowIs(c, b, b.upstreams, agg, b.plugins, b.middlewares)
  BY <1>6, <1>7, WithAggregationFields, Zenon
<1>9. IsFlowRecord(c)
  BY <1>8 DEF FlowIs
<1>10. PICK d : d = WithUpstreams(c, ups)
  OBVIOUS
<1>11. FlowIs(d, c, ups, c.aggregation, c.plugins, c.middlewares)
  BY <1>9, <1>10, WithUpstreamsFields, Zenon
<1>12. d = Restored(f)
  BY <1>1, <1>3, <1>6, <1>10, Zenon
     DEF Restored, WithPlugins, WithMiddlewares, WithAggregation, WithUpstreams
<1>13. FlowIs(d, f, ups, agg, <<>>, <<>>)
  BY <1>2, <1>5, <1>8, <1>11 DEF FlowIs
<1> QED
  BY <1>12, <1>13

LEMMA SameFunction ==
    ASSUME NEW D, NEW s, NEW t, s = [i \in D |-> s[i]], t = [i \in D |-> t[i]],
           \A i \in D : s[i] = t[i]
    PROVE  s = t
  OBVIOUS

\* One flow: stored in the document, reconstructed, pruned, and loaded.
LEMMA FlowRestored ==
    ASSUME NEW f, LoadedFlow(f),
           NEW r, r = reconstructFlow(Key(f), flowExtension(f)),
           NEW g, g = pruneFlow(r), NEW h, h = DefaultFlowConfig(g)
    PROVE  (ZeroNamed(r) <=> ZeroNamed(f)) /\ (~ZeroNamed(f) => h = Restored(f))
<1>1. IsFlowConfig(f)
  BY Zenon DEF LoadedFlow
<1>2. /\ IsFlowRecord(f) /\ IsSlice(f.upstreams)
      /\ \A u \in ToSet(f.upstreams) : IsUpstreamConfig(u)
  BY <1>1, FlowFieldsTyped, Zenon
<1>3. PICK x : x = flowExtension(f)
  OBVIOUS
<1>4. ExtensionOf(x, f) /\ IsExtension(x)
  BY <1>1, <1>3, ExtensionFields, ExtensionTyped
<1>5. PICK k : k = Key(f)
  OBVIOUS
<1>6. k[1] = f.path /\ k[2] = f.method
  BY <1>5 DEF Key
<1>7. ReconstructedOf(r, k, x) /\ ImportedFlow(r, k)
  BY <1>3, <1>4, <1>5, ReconstructedFields, ReconstructedFlow
<1>8. /\ IsFlowConfig(r) /\ r.path = f.path /\ r.method = f.method /\ r.streaming = f.streaming
      /\ r.aggregation = f.aggregation /\ r.plugins = <<>> /\ r.middlewares = <<>>
  BY <1>4, <1>6, <1>7 DEF ImportedFlow, ReconstructedOf, ExtensionOf
<1>9. /\ r.upstreams = [i \in DOMAIN f.upstreams |-> r.upstreams[i]]
      /\ \A i \in DOMAIN f.upstreams :
            r.upstreams[i] = reconstructUpstream(upstreamExtension(f.upstreams[i]))
  BY <1>4, <1>7 DEF ReconstructedOf, ExtensionOf
<1>10. DOMAIN r.upstreams = DOMAIN f.upstreams
  BY <1>2, <1>9, Mapped
<1>11. \A i \in DOMAIN f.upstreams :
         /\ f.upstreams[i] \in ToSet(f.upstreams) /\ r.upstreams[i] \in ToSet(r.upstreams)
         /\ r.upstreams[i].name = f.upstreams[i].name
         /\ ~isZeroNode(f.upstreams[i].name) =>
               DefaultUpstreamConfig(pruneUpstream(r.upstreams[i])) = RestoredUpstream(f.upstreams[i])
  <2> TAKE i \in DOMAIN f.upstreams
  <2>1. PICK u, v : u = f.upstreams[i] /\ v = r.upstreams[i]
    OBVIOUS
  <2>2. u \in ToSet(f.upstreams) /\ v = reconstructUpstream(upstreamExtension(u))
    BY <1>9, <2>1, InToSet
  <2>3. v \in ToSet(r.upstreams)
    BY <1>10, <2>1, InToSet
  <2>4. /\ IsUpstreamConfig(u) /\ u.hosts # <<>> /\ u.timeout # 0
        /\ u.transport.idle # 0 /\ u.transport.idleTimeout # 0
    BY <1>2, <2>2, Zenon DEF LoadedFlow
  <2>5. UpstreamIs(v, u, u.name, u.timeout, StoredTransport(u.transport),
                   [NoTLS EXCEPT !.enabled = u.tls.enabled])
    BY <2>2, <2>4, UpstreamStored, Zenon
  <2>6. v.name = u.name
    BY <2>5, Zenon DEF UpstreamIs
  <2>7. ~isZeroNode(u.name) => DefaultUpstreamConfig(pruneUpstream(v)) = RestoredUpstream(u)
    BY <2>2, <2>4, UpstreamRestored
  <2> QED
    BY <2>1, <2>2, <2>3, <2>6, <2>7
<1>12. ZeroNamed(r) <=> ZeroNamed(f)
  <2>1. (\E u \in ToSet(r.upstreams) : isZeroNode(u.name))
        <=> (\E u \in ToSet(f.upstreams) : isZeroNode(u.name))
    <3>1. \A u \in ToSet(r.upstreams) : \E i \in DOMAIN f.upstreams : u = r.upstreams[i]
      BY <1>10, InToSet
    <3>2. \A u \in ToSet(f.upstreams) : \E i \in DOMAIN f.upstreams : u = f.upstreams[i]
      BY InToSet
    <3> QED
      BY <1>11, <3>1, <3>2
  <2> QED
    BY <1>8, <2>1, Zenon DEF ZeroNamed
<1> SUFFICES ASSUME ~ZeroNamed(f) PROVE h = Restored(f)
  BY <1>12
<1>13. /\ IsFlowConfig(g) /\ FlowIs(g, r, g.upstreams, g.aggregation, r.plugins, r.middlewares)
       /\ PrunedOf(g.aggregation, r.aggregation) /\ UpstreamsPrunedOf(g.upstreams, r.upstreams)
  BY <1>8, PrunedFlow
<1>14. /\ FlowIs(h, g, h.upstreams, g.aggregation, g.plugins, g.middlewares)
       /\ DefaultsOf(h.upstreams, g.upstreams)
  BY <1>13, DefaultedFlow
<1>15. PICK ups, agg : /\ ups = [i \in DOMAIN f.upstreams |-> RestoredUpstream(f.upstreams[i])]
                       /\ agg = [i \in DOMAIN f.aggregation |-> pruneAggregation(f.aggregation[i])]
  OBVIOUS
<1>16. g.aggregation = agg
  <2>1. PICK D, s : D = DOMAIN f.aggregation /\ s = g.aggregation
    OBVIOUS
  <2>2. s = [i \in D |-> s[i]] /\ \A i \in D : s[i] = pruneAggregation(f.aggregation[i])
    BY <1>8, <1>13, <2>1, Zenon DEF PrunedOf
  <2>3. agg = [i \in D |-> agg[i]] /\ \A i \in D : agg[i] = pruneAggregation(f.aggregation[i])
    BY <1>15, <2>1
  <2> QED
    BY <2>1, <2>2, <2>3, SameFunction
<1>17. h.upstreams = ups
  <2>1. PICK D, s : D = DOMAIN f.upstreams /\ s = h.upstreams
    OBVIOUS
  <2>2. /\ s = [i \in D |-> s[i]]
        /\ \A i \in D : s[i] = DefaultUpstreamConfig(pruneUpstream(r.upstreams[i]))
    <3>1. PICK z : z = g.upstreams
      OBVIOUS
    <3>2. DefaultsOf(s, z) /\ UpstreamsPrunedOf(z, r.upstreams) /\ DOMAIN r.upstreams = D
      BY <1>10, <1>13, <1>14, <2>1, <3>1
    <3>3. DOMAIN z = D /\ \A i \in D : z[i] = pruneUpstream(r.upstreams[i])
      BY <3>2, Zenon DEF UpstreamsPrunedOf
    <3>4. s = [i \in D |-> s[i]] /\ \A i \in D : s[i] = DefaultUpstreamConfig(z[i])
      BY <3>2, <3>3, Zenon DEF DefaultsOf
    <3> QED
      BY <3>3, <3>4, Zenon
  <2>3. ups = [i \in D |-> ups[i]] /\ \A i \in D : ups[i] = RestoredUpstream(f.upstreams[i])
    BY <1>15, <2>1
  <2>4. \A i \in D : s[i] = ups[i]
    <3> TAKE i \in D
    <3>1. PICK v : v = r.upstreams[i]
      OBVIOUS
    <3>2. s[i] = DefaultUpstreamConfig(pruneUpstream(v)) /\ ups[i] = RestoredUpstream(f.upstreams[i])
      BY <2>2, <2>3, <3>1, Zenon
    <3>3. f.upstreams[i] \in ToSet(f.upstreams)
      BY <1>11, <2>1
    <3>4. ~isZeroNode(f.upstreams[i].name)
      BY <3>3, Zenon DEF ZeroNamed
    <3>5. DefaultUpstreamConfig(pruneUpstream(v)) = RestoredUpstream(f.upstreams[i])
      BY <1>11, <2>1, <3>1, <3>4, Zenon
    <3> QED
      BY <3>2, <3>5
  <2> QED
    BY <2>1, <2>2, <2>3, <2>4, SameFunction
<1>18. FlowIs(h, f, ups, agg, <<>>, <<>>)
  BY <1>8, <1>13, <1>14, <1>16, <1>17 DEF FlowIs
<1>19. FlowIs(Restored(f), f, ups, agg, <<>>, <<>>)
  BY <1>2, <1>15, RestoredFields, Zenon
<1> QED
  BY <1>18, <1>19, SameFlow, Zenon

\* The document of a loaded configuration.
LEMMA ExportedTyped ==
    ASSUME NEW d, LoadedConfig(d), NEW extensions \in BOOLEAN, NEW servers,
           NEW doc, doc = FromConfig(d, extensions, servers)
    PROVE  IsDocument(doc)
<1>1. IsConfig(d) /\ \A f \in ToSet(d.flows) : f.method \in FlowMethods
  BY Zenon DEF LoadedConfig
<1> QED
  BY <1>1, DocumentTyped

LEMMA TransformedFlows ==
    ASSUME NEW s, NEW t, NEW u, FlowPrunedOf(t, s), FlowDefaultsOf(u, t)
    PROVE  /\ \A h \in ToSet(u) : \E r \in ToSet(s) : h = DefaultFlowConfig(pruneFlow(r))
           /\ \A r \in ToSet(s) : DefaultFlowConfig(pruneFlow(r)) \in ToSet(u)
<1>1. /\ DOMAIN u = DOMAIN s
      /\ \A i \in DOMAIN s : u[i] = DefaultFlowConfig(pruneFlow(s[i]))
  BY Zenon DEF FlowPrunedOf, FlowDefaultsOf
<1>2. \A i \in DOMAIN s : s[i] \in ToSet(s) /\ u[i] \in ToSet(u)
  BY <1>1, InToSet
<1>3. \A h \in ToSet(u) : \E i \in DOMAIN s : h = u[i]
  BY <1>1, InToSet
<1>4. \A r \in ToSet(s) : \E i \in DOMAIN s : r = s[i]
  BY InToSet
<1>5. \A h \in ToSet(u) : \E r \in ToSet(s) : h = DefaultFlowConfig(pruneFlow(r))
  BY <1>1, <1>2, <1>3
<1>6. \A r \in ToSet(s) : DefaultFlowConfig(pruneFlow(r)) \in ToSet(u)
  BY <1>1, <1>2, <1>4
<1> QED
  BY <1>5, <1>6

\* The flows of the document of a configuration: each is made of the first flow
\* of a method and a path.
StoredFlow(f) == reconstructFlow(Key(f), flowExtension(f))
StoredFlows(s, flows) ==
    /\ \A r \in ToSet(s) : \E f \in FirstOfKey(flows) : r = StoredFlow(f)
    /\ \A f \in FirstOfKey(flows) : StoredFlow(f) \in ToSet(s)

LEMMA ReconstructedFlows ==
    ASSUME NEW flows, IsSlice(flows), NEW doc, NEW extensions, extensions,
           DocumentOf(doc, flows, extensions),
           NEW options, NEW s, ConvertedFrom(s, doc, options)
    PROVE  StoredFlows(s, flows)
<1>1. /\ DOMAIN doc.ops = Keys(flows)
      /\ \A k \in Keys(flows) : OperationOf(doc.ops[k], First(flows, k), extensions)
  BY Zenon DEF DocumentOf
<1>2. \A k \in Keys(flows) : First(flows, k) \in FirstOfKey(flows) /\ Key(First(flows, k)) = k
  BY FirstFound
<1>3. \A f \in FirstOfKey(flows) : Key(f) \in Keys(flows) /\ First(flows, Key(f)) = f
  BY FirstUnique
<1>4. ASSUME NEW k \in Keys(flows)
      PROVE  convertOperation(doc, k, doc.ops[k], options) = StoredFlow(First(flows, k))
  <2>1. PICK op, x : op = doc.ops[k] /\ x = flowExtension(First(flows, k))
    OBVIOUS
  <2>2. op.ext = <<x>>
    BY <1>1, <2>1, Zenon DEF OperationOf
  <2>3. op.ext # <<>> /\ op.ext[1] = x
    BY <2>2, OptionSet
  <2>4. convertOperation(doc, k, op, options) = reconstructFlow(k, x)
    BY <2>3, Zenon DEF convertOperation
  <2> QED
    BY <1>2, <2>1, <2>4, Zenon DEF StoredFlow
<1>5. ASSUME NEW r \in ToSet(s) PROVE \E f \in FirstOfKey(flows) : r = StoredFlow(f)
  <2>1. PICK k \in Keys(flows) : r = convertOperation(doc, k, doc.ops[k], options)
    BY <1>1, <1>5, Zenon DEF ConvertedFrom
  <2> QED
    BY <1>2, <1>4, <2>1
<1>6. ASSUME NEW f \in FirstOfKey(flows) PROVE StoredFlow(f) \in ToSet(s)
  <2>1. PICK k \in Keys(flows) : k = Key(f) /\ First(flows, k) = f
    BY <1>3, <1>6
  <2>2. convertOperation(doc, k, doc.ops[k], options) \in ToSet(s)
    BY <1>1, <2>1, Zenon DEF ConvertedFrom
  <2> QED
    BY <1>4, <2>1, <2>2
<1> QED
  BY <1>5, <1>6, Zenon DEF StoredFlows

\* All of its flows, through the document and back.
LEMMA FlowsRestored ==
    ASSUME NEW flows, IsSlice(flows), \A f \in ToSet(flows) : LoadedFlow(f),
           NEW s, StoredFlows(s, flows), NEW t, FlowPrunedOf(t, s), NEW u, FlowDefaultsOf(u, t)
    PROVE  /\ (\E r \in ToSet(s) : ZeroNamed(r)) <=> (\E f \in FirstOfKey(flows) : ZeroNamed(f))
           /\ (\A f \in FirstOfKey(flows) : ~ZeroNamed(f)) =>
                 ToSet(u) = {Restored(f) : f \in FirstOfKey(flows)}
<1>1. /\ \A r \in ToSet(s) : \E f \in FirstOfKey(flows) : r = StoredFlow(f)
      /\ \A f \in FirstOfKey(flows) : StoredFlow(f) \in ToSet(s)
  BY Zenon DEF StoredFlows
<1>2. \A f \in FirstOfKey(flows) : LoadedFlow(f)
  BY FirstUnique
<1>3. \A f \in FirstOfKey(flows) :
        /\ ZeroNamed(StoredFlow(f)) <=> ZeroNamed(f)
        /\ ~ZeroNamed(f) => DefaultFlowConfig(pruneFlow(StoredFlow(f))) = Restored(f)
  <2> TAKE f \in FirstOfKey(flows)
  <2>1. PICK r, g, h : r = StoredFlow(f) /\ g = pruneFlow(r) /\ h = DefaultFlowConfig(g)
    OBVIOUS
  <2>2. r = reconstructFlow(Key(f), flowExtension(f)) /\ LoadedFlow(f)
    BY <1>2, <2>1 DEF StoredFlow
  <2>3. (ZeroNamed(r) <=> ZeroNamed(f)) /\ (~ZeroNamed(f) => h = Restored(f))
    BY <2>1, <2>2, FlowRestored
  <2> QED
    BY <2>1, <2>3
<1>4. (\E r \in ToSet(s) : ZeroNamed(r)) <=> (\E f \in FirstOfKey(flows) : ZeroNamed(f))
  BY <1>1, <1>3
<1> SUFFICES ASSUME \A f \in FirstOfKey(flows) : ~ZeroNamed(f)
             PROVE  ToSet(u) = {Restored(f) : f \in FirstOfKey(flows)}
  BY <1>4
<1>5. /\ \A h \in ToSet(u) : \E r \in ToSet(s) : h = DefaultFlowConfig(pruneFlow(r))
      /\ \A r \in ToSet(s) : DefaultFlowConfig(pruneFlow(r)) \in ToSet(u)
  BY TransformedFlows, Zenon
<1>6. \A h \in ToSet(u) : \E f \in FirstOfKey(flows) : h = Restored(f)
  BY <1>1, <1>3, <1>5
<1>7. \A f \in FirstOfKey(flows) : Restored(f) \in ToSet(u)
  BY <1>1, <1>3, <1>5
<1>8. PICK U : U = ToSet(u)
  OBVIOUS
<1>9. U = {Restored(f) : f \in FirstOfKey(flows)}
  BY <1>6, <1>7, <1>8
<1> QED
  BY <1>8, <1>9

\* The file imported from the document of a configuration.
LEMMA ConfigRestored ==
    ASSUME NEW o, LoadedConfig(o),
           NEW extensions \in BOOLEAN, extensions, NEW servers,
           NEW doc, doc = FromConfig(o, extensions, servers),
           NEW options, NEW c, c = ToConfig(doc, options),
           NEW p, p = pruneZeroNodes(c), NEW e, e = setDefaults(p)
    PROVE  /\ NamedZero(p) <=> \E f \in FirstOfKey(o.flows) : ZeroNamed(f)
           /\ ~NamedZero(p) => ToSet(e.flows) = {Restored(f) : f \in FirstOfKey(o.flows)}
<1>1. IsSlice(o.flows)
  BY ConfigFieldsTyped DEF LoadedConfig
<1>2. \A f \in ToSet(o.flows) : LoadedFlow(f)
  BY Zenon DEF LoadedConfig
<1>3. IsDocument(doc)
  BY ExportedTyped
<1>4. DocumentOf(doc, o.flows, extensions)
  BY ExportedDocument, Zenon
<1>5. IsConfig(c) /\ ConvertedFrom(c.flows, doc, options)
  BY <1>3, ImportedTyped
<1>6. StoredFlows(c.flows, o.flows)
  BY <1>1, <1>4, <1>5, ReconstructedFlows
<1>7. IsConfig(p) /\ FlowPrunedOf(p.flows, c.flows) /\ (NamedZero(p) <=> NamedZero(c))
  BY <1>5, PrunedConfig
<1>8. FlowDefaultsOf(e.flows, p.flows)
  BY <1>7, DefaultedConfig
<1>9. /\ (\E r \in ToSet(c.flows) : ZeroNamed(r)) <=> (\E f \in FirstOfKey(o.flows) : ZeroNamed(f))
      /\ (\A f \in FirstOfKey(o.flows) : ~ZeroNamed(f)) =>
            ToSet(e.flows) = {Restored(f) : f \in FirstOfKey(o.flows)}
  BY <1>1, <1>2, <1>6, <1>7, <1>8, FlowsRestored
<1>10. NamedZero(p) <=> \E f \in FirstOfKey(o.flows) : ZeroNamed(f)
  BY <1>7, <1>9, Zenon DEF NamedZero
<1> QED
  BY <1>9, <1>10, Zenon

-----------------------------------------------------------------------------
(* Warnings *)

LEMMA Warned == \A condition, w : condition => w \in When(condition, w)
  BY DEF When

LEMMA DuplicatesWarned ==
    ASSUME NEW flows, NEW f \in ToSet(flows), f \notin FirstOfKey(flows)
    PROVE  Warning(Key(f), Unset, "duplicate") \in attachWarnings(flows)
<1>1. PICK i \in DOMAIN flows : f = flows[i]
  BY InToSet
<1>2. \E j \in 1 .. i - 1 : Key(flows[j]) = Key(flows[i])
  BY <1>1 DEF FirstOfKey
<1> DEFINE A == UNION {When(g.method = "QUERY", Warning(Key(g), Unset, "query")) : g \in ToSet(flows)}
           I == {l \in DOMAIN flows : \E j \in 1 .. l - 1 : Key(flows[j]) = Key(flows[l])}
<1>3. attachWarnings(flows) = A \union {Warning(Key(flows[l]), Unset, "duplicate") : l \in I}
  BY Zenon DEF attachWarnings
<1>4. i \in I
  BY <1>1, <1>2
<1> HIDE DEF A, I
<1>5. Warning(Key(f), Unset, "duplicate") \in {Warning(Key(flows[l]), Unset, "duplicate") : l \in I}
  BY <1>1, <1>4, Zenon
<1> QED
  BY <1>3, <1>5, Zenon

\* The texts that durations are stored as are parsed.
LEMMA DurationsParse == \A d \in Durations : ~Unparsable(DurationText(d))
  BY DEF Unparsable, ParseDuration

LEMMA StoredDurationsParse ==
    ASSUME NEW u, IsUpstreamConfig(u), NEW e, e = upstreamExtension(u)
    PROVE  ~Unparsable(e.timeout) /\ \A t \in storedDurations(e) : ~Unparsable(t)
<1>1. /\ e.timeout = DurationText(u.timeout)
      /\ e.policy = policyExtension(u.policy) /\ e.transport = transportExtension(u.transport)
  BY DEF upstreamExtension
<1>2. u.timeout \in Durations /\ IsPolicy(u.policy) /\ IsTransport(u.transport)
  BY Zenon DEF IsUpstreamConfig
<1>3. ~Unparsable(e.timeout)
  BY <1>1, <1>2, DurationsParse
<1>4. ASSUME NEW t \in ToSet(e.transport) PROVE ~Unparsable(t.idleTimeout)
  <2>1. PICK x : x = [idle |-> u.transport.idle, idleTimeout |-> DurationText(u.transport.idleTimeout)]
    OBVIOUS
  <2>2. e.transport = <<>> \/ e.transport = <<x>>
    <3>1. CASE u.transport \in {ZeroTransport, DefaultTransport}
      BY <1>1, <3>1, Zenon DEF transportExtension
    <3>2. CASE u.transport \notin {ZeroTransport, DefaultTransport}
      BY <1>1, <2>1, <3>2, Zenon DEF transportExtension
    <3> QED
      BY <3>1, <3>2
  <2>3. t = x
    <3>1. ToSet(<<x>>) = {x} /\ ToSet(<<>>) = {}
      BY OptionSet
    <3> QED
      BY <1>4, <2>2, <3>1, Zenon
  <2>4. u.transport.idleTimeout \in Durations
    BY <1>2, Zenon DEF IsTransport
  <2>5. t.idleTimeout = DurationText(u.transport.idleTimeout)
    BY <2>1, <2>3
  <2> QED
    BY <2>4, <2>5, DurationsParse
<1>5. ASSUME NEW p \in ToSet(e.policy)
      PROVE  /\ \A r \in ToSet(p.retry) : ~Unparsable(r.backoff)
             /\ \A b \in ToSet(p.breaker) : ~Unparsable(b.reset)
  <2> DEFINE retry == IF u.policy.retry = ZeroRetry THEN <<>>
                      ELSE <<[u.policy.retry EXCEPT !.backoff = DurationText(@)]>>
             breaker == IF u.policy.breaker = ZeroBreaker THEN <<>>
                        ELSE <<[u.policy.breaker EXCEPT !.reset = DurationText(@)]>>
  <2>1. p = [plain |-> u.policy.plain, retry |-> retry, breaker |-> breaker]
    <3>1. \A v : p \in ToSet(<<v>>) => p = v
      BY OptionSet
    <3>2. p \notin ToSet(<<>>)
      BY OptionSet
    <3> QED
      BY <1>1, <1>5, <3>1, <3>2, Zenon DEF policyExtension
  <2>2. \A r \in ToSet(retry) : ~Unparsable(r.backoff)
    <3>1. PICK m, b : u.policy.retry = [max |-> m, backoff |-> b] /\ b \in Durations
      BY <1>2, Zenon DEF IsPolicy
    <3>2. PICK x : x = [u.policy.retry EXCEPT !.backoff = DurationText(@)]
      OBVIOUS
    <3>3. x.backoff = DurationText(b)
      BY <3>1, <3>2
    <3>4. ToSet(<<x>>) = {x} /\ ToSet(<<>>) = {}
      BY OptionSet
    <3>5. ~Unparsable(x.backoff)
      BY <3>1, <3>3, DurationsParse
    <3> QED
      BY <3>2, <3>4, <3>5, Zenon
  <2>3. \A r \in ToSet(breaker) : ~Unparsable(r.reset)
    <3>1. PICK m, b : u.policy.breaker = [enabled |-> m, reset |-> b] /\ b \in Durations
      BY <1>2, Zenon DEF IsPolicy
    <3>2. PICK x : x = [u.policy.breaker EXCEPT !.reset = DurationText(@)]
      OBVIOUS
    <3>3. x.reset = DurationText(b)
      BY <3>1, <3>2
    <3>4. ToSet(<<x>>) = {x} /\ ToSet(<<>>) = {}
      BY OptionSet
    <3>5. ~Unparsable(x.reset)
      BY <3>1, <3>3, DurationsParse
    <3> QED
      BY <3>2, <3>4, <3>5, Zenon
  <2> HIDE DEF retry, breaker
  <2>4. p.retry = retry /\ p.breaker = breaker
    BY <2>1
  <2> QED
    BY <2>2, <2>3, <2>4, Zenon
<1>6. ASSUME NEW t \in storedDurations(e) PROVE ~Unparsable(t)
  BY <1>4, <1>5, <1>6, Zenon DEF storedDurations
<1> QED
  BY <1>3, <1>6

\* What reconstructFlow reports of the flow that stored itself.
LEMMA StoredWarned ==
    ASSUME NEW f, LoadedFlow(f), NEW x, x = flowExtension(f),
           NEW w, w = reconstructWarnings(Key(f), x)
    PROVE  w = Reported(f)
<1>0. PICK key : key = Key(f)
  OBVIOUS
<1>1. ExtensionOf(x, f) /\ IsFlowConfig(f)
  BY ExtensionFields, Zenon DEF LoadedFlow
<1>2. /\ x.middlewares = [i \in DOMAIN f.middlewares |-> x.middlewares[i]]
      /\ x.plugins = [i \in DOMAIN f.plugins |-> x.plugins[i]]
      /\ DOMAIN x.upstreams = DOMAIN f.upstreams
      /\ \A i \in DOMAIN f.upstreams : x.upstreams[i] = upstreamExtension(f.upstreams[i])
  BY <1>1, Zenon DEF ExtensionOf
<1>3. IsSlice(f.plugins) /\ IsSlice(f.middlewares)
  BY <1>1, FlowFieldsTyped
<1>4. f.plugins # <<>> <=> x.plugins # <<>>
  <2>1. PICK s, t : s = f.plugins /\ t = x.plugins
    OBVIOUS
  <2>2. IsSlice(s) /\ t = [i \in DOMAIN s |-> t[i]]
    BY <1>2, <1>3, <2>1
  <2>3. t = <<>> <=> s = <<>>
    BY <2>2, Mapped
  <2> QED
    BY <2>1, <2>3
<1>5. f.middlewares # <<>> <=> x.middlewares # <<>>
  <2>1. PICK s, t : s = f.middlewares /\ t = x.middlewares
    OBVIOUS
  <2>2. IsSlice(s) /\ t = [i \in DOMAIN s |-> t[i]]
    BY <1>2, <1>3, <2>1
  <2>3. t = <<>> <=> s = <<>>
    BY <2>2, Mapped
  <2> QED
    BY <2>1, <2>3
<1> DEFINE of(u) ==
           When(u.hosts = <<>>, Warning(key, u.name, "hosts"))
           \union When(Unparsable(u.timeout), Warning(key, u.name, "timeout"))
           \union When(\E t \in storedDurations(u) : Unparsable(t), Warning(key, u.name, "duration"))
           \union When(u.tlsEnabled, Warning(key, u.name, "tls"))
           P == When(x.plugins # <<>>, Warning(key, Unset, "plugins"))
           M == When(x.middlewares # <<>>, Warning(key, Unset, "middlewares"))
           tls(u) == Warning(key, u.name, "tls")
           T == {tls(u) : u \in {v \in ToSet(f.upstreams) : v.tls.enabled}}
           W == UNION {of(e) : e \in ToSet(x.upstreams)}
<1>6. w = W \union P \union M
  <2>1. w = reconstructWarnings(key, x)
    BY <1>0
  <2> QED
    BY <2>1, Zenon DEF reconstructWarnings
<1>7. \A i \in DOMAIN f.upstreams :
        /\ f.upstreams[i] \in ToSet(f.upstreams) /\ x.upstreams[i] \in ToSet(x.upstreams)
        /\ of(x.upstreams[i]) = IF f.upstreams[i].tls.enabled THEN {tls(f.upstreams[i])} ELSE {}
  <2> TAKE i \in DOMAIN f.upstreams
  <2>1. PICK u, e : u = f.upstreams[i] /\ e = x.upstreams[i]
    OBVIOUS
  <2>2. u \in ToSet(f.upstreams) /\ e \in ToSet(x.upstreams) /\ e = upstreamExtension(u)
    BY <1>2, <2>1, InToSet
  <2>3. IsUpstreamConfig(u) /\ u.hosts # <<>>
    BY <1>1, <2>2, FlowFieldsTyped DEF LoadedFlow
  <2>4. e.tlsEnabled = u.tls.enabled /\ e.name = u.name /\ e.hosts = u.hosts
    BY <2>2 DEF upstreamExtension
  <2>5. ~Unparsable(e.timeout) /\ ~\E t \in storedDurations(e) : Unparsable(t)
    BY <2>2, <2>3, StoredDurationsParse
  <2>6. of(e) = When(e.tlsEnabled, Warning(key, e.name, "tls"))
    <3>1. /\ When(e.hosts = <<>>, Warning(key, e.name, "hosts")) = {}
          /\ When(Unparsable(e.timeout), Warning(key, e.name, "timeout")) = {}
          /\ When(\E t \in storedDurations(e) : Unparsable(t), Warning(key, e.name, "duration")) = {}
      BY <2>3, <2>4, <2>5, Zenon DEF When
    <3>2. \A A : {} \union {} \union {} \union A = A
      OBVIOUS
    <3> QED
      BY <3>1, <3>2, Zenon
  <2>7. of(e) = IF u.tls.enabled THEN {tls(u)} ELSE {}
    BY <2>4, <2>6, Zenon DEF When
  <2> HIDE DEF of, tls
  <2> QED
    BY <2>1, <2>2, <2>7
<1> HIDE DEF of, P, M, tls
<1>8. \A y : y \in W <=> \E e \in ToSet(x.upstreams) : y \in of(e)
  OBVIOUS
<1>9. \A y : y \in T <=> \E u \in ToSet(f.upstreams) : u.tls.enabled /\ y = tls(u)
  OBVIOUS
<1> HIDE DEF T, W
<1>10. \A y : y \in W <=> y \in T
  <2>1. \A e \in ToSet(x.upstreams) : \E i \in DOMAIN f.upstreams : e = x.upstreams[i]
    BY <1>2, InToSet
  <2>2. \A u \in ToSet(f.upstreams) : \E i \in DOMAIN f.upstreams : u = f.upstreams[i]
    BY InToSet
  <2>3. ASSUME NEW y \in W PROVE y \in T
    <3>1. PICK i \in DOMAIN f.upstreams : y \in of(x.upstreams[i])
      BY <1>8, <2>1, <2>3
    <3> QED
      BY <1>7, <1>9, <3>1
  <2>4. ASSUME NEW y \in T PROVE y \in W
    <3>1. PICK i \in DOMAIN f.upstreams : f.upstreams[i].tls.enabled /\ y = tls(f.upstreams[i])
      BY <1>9, <2>2, <2>4
    <3> QED
      BY <1>7, <1>8, <3>1
  <2> QED
    BY <2>3, <2>4
<1>11. Reported(f) = P \union M \union T
  BY <1>0, <1>4, <1>5, Zenon DEF Reported, P, M, T, tls, When
<1> QED
  BY <1>6, <1>10, <1>11

LEMMA WarningFlow == \A k, of, about : Warning(k, of, about).flow = k
  BY DEF Warning

LEMMA WhenIn == \A condition, w, y : y \in When(condition, w) => y = w
  BY DEF When

\* What reconstructFlow reports is about its flow.
LEMMA ReportedOf ==
    ASSUME NEW f, NEW y \in Reported(f)
    PROVE  y.flow = Key(f)
<1>1. \/ y = Warning(Key(f), Unset, "plugins") \/ y = Warning(Key(f), Unset, "middlewares")
      \/ \E u \in ToSet(f.upstreams) : y = Warning(Key(f), u.name, "tls")
  BY WhenIn DEF Reported
<1> QED
  BY <1>1, WarningFlow

\* What is reported of an import from the document of a configuration.
LEMMA LossesWarned ==
    ASSUME NEW o, LoadedConfig(o), NEW extensions \in BOOLEAN, NEW servers,
           NEW doc, doc = FromConfig(o, extensions, servers),
           NEW options, NEW w, w = ToConfigWarnings(doc, options)
    PROVE  /\ ~extensions => Warning(<<>>, Unset, "extensions") \in w
           /\ extensions => \A f \in FirstOfKey(o.flows) : {y \in w : y.flow = Key(f)} = Reported(f)
<1>1. PICK flows : flows = o.flows
  OBVIOUS
<1>2. IsSlice(flows) /\ \A f \in ToSet(flows) : LoadedFlow(f)
  BY <1>1, ConfigFieldsTyped DEF LoadedConfig
<1>3. DocumentOf(doc, flows, extensions)
  BY <1>1, ExportedDocument, Zenon
<1>4. /\ DOMAIN doc.ops = Keys(flows) /\ doc.generated = TRUE
      /\ \A k \in Keys(flows) : OperationOf(doc.ops[k], First(flows, k), extensions)
  BY <1>3, Zenon DEF DocumentOf
<1> DEFINE B == When(doc.generated /\ \A k \in DOMAIN doc.ops : doc.ops[k].ext = <<>>,
                     Warning(<<>>, Unset, "extensions"))
           C == When(RateLimited(doc), Warning(<<>>, Unset, "limiter"))
           of(k) == convertWarnings(doc, k, doc.ops[k], options)
           A == UNION {of(k) : k \in DOMAIN doc.ops}
<1>5. w = A \union B \union C
  BY Zenon DEF ToConfigWarnings
<1>6. ASSUME ~extensions PROVE Warning(<<>>, Unset, "extensions") \in w
  <2>1. \A k \in DOMAIN doc.ops : doc.ops[k].ext = <<>>
    BY <1>4, <1>6, Zenon DEF OperationOf
  <2>2. Warning(<<>>, Unset, "extensions") \in B
    BY <1>4, <2>1, Warned, Zenon
  <2> HIDE DEF A, B, C
  <2> QED
    BY <1>5, <2>2, Zenon
<1>7. ASSUME extensions, NEW f \in FirstOfKey(flows)
      PROVE  {y \in w : y.flow = Key(f)} = Reported(f)
  <2>1. \A k \in Keys(flows) : First(flows, k) \in FirstOfKey(flows) /\ Key(First(flows, k)) = k
    BY <1>2, FirstFound
  <2>2. \A g \in FirstOfKey(flows) :
          g \in ToSet(flows) /\ Key(g) \in Keys(flows) /\ First(flows, Key(g)) = g
    BY <1>2, FirstUnique
  <2>3. ASSUME NEW k \in Keys(flows) PROVE of(k) = Reported(First(flows, k))
    <3>1. PICK g, op, x : g = First(flows, k) /\ op = doc.ops[k] /\ x = flowExtension(g)
      OBVIOUS
    <3>2. op.ext = <<x>>
      BY <1>4, <1>7, <2>3, <3>1, Zenon DEF OperationOf
    <3>3. op.ext # <<>> /\ op.ext[1] = x
      BY <3>2, OptionSet
    <3>4. of(k) = reconstructWarnings(k, x)
      BY <3>1, <3>3, Zenon DEF convertWarnings
    <3>5. Key(g) = k /\ LoadedFlow(g)
      BY <1>2, <2>1, <2>2, <2>3, <3>1
    <3> HIDE DEF of
    <3>6. of(k) = Reported(g)
      BY <3>1, <3>4, <3>5, StoredWarned
    <3> QED
      BY <3>1, <3>6
  <2>4. \A y : y \in A <=> \E k \in Keys(flows) : y \in of(k)
    BY <1>4
  <2>5. \A y \in B \union C : y.flow = <<>>
    BY WhenIn, WarningFlow
  <2>6. Key(f) # <<>>
    BY DEF Key
  <2> HIDE DEF A, B, C, of
  <2>7. ASSUME NEW y \in w, y.flow = Key(f) PROVE y \in Reported(f)
    <3>1. y \in A
      BY <1>5, <2>5, <2>6, <2>7
    <3>2. PICK k \in Keys(flows) : y \in Reported(First(flows, k))
      BY <2>3, <2>4, <3>1
    <3>3. y.flow = k
      BY <2>1, <3>2, ReportedOf
    <3>4. First(flows, k) = f
      BY <1>7, <2>2, <2>7, <3>3
    <3> QED
      BY <3>2, <3>4
  <2>8. ASSUME NEW y \in Reported(f) PROVE y \in w /\ y.flow = Key(f)
    <3>1. y.flow = Key(f)
      BY <2>8, ReportedOf
    <3>2. y \in of(Key(f)) /\ Key(f) \in Keys(flows)
      BY <1>7, <2>2, <2>3, <2>8
    <3> QED
      BY <1>5, <2>4, <3>1, <3>2
  <2>9. PICK R : R = Reported(f)
    OBVIOUS
  <2> QED
    BY <2>7, <2>8, <2>9
<1> QED
  BY <1>1, <1>6, <1>7, Zenon

-----------------------------------------------------------------------------
(* The operator's files *)

\* What the document may be, given what it was exported from.
ServerLists == {<<>>} \union {<<h>> : h \in Hosts}
DocumentsOf(from) ==
    IF from = <<>> THEN Documents
    ELSE {FromConfig(from[1].cfg, from[1].extensions, servers) : servers \in ServerLists}

IsOrigin(o) ==
    /\ LoadedConfig(o.cfg) /\ o.extensions \in BOOLEAN
    /\ o.warnings = attachWarnings(o.cfg.flows)
IsFrom(from) == IsPointer(from) /\ \A o \in ToSet(from) : IsOrigin(o)

\* f was written by the import i.
WrittenBy(f, i) ==
    /\ IsFrom(i.from)
    /\ \E d \in DocumentsOf(i.from), options \in ImportOptions :
          /\ ValidateConfig(setDefaults(ToConfig(d, options)))
          /\ f = <<pruneZeroNodes(ToConfig(d, options))>>
          /\ i.warnings = ToConfigWarnings(d, options)

(***************************************************************************)
(* The inductive invariant: what history says of the files.  A document is *)
(* the one of its origin, which was a loaded configuration; an imported    *)
(* file is what pruning left of a configuration that was validated.        *)
(***************************************************************************)
FilesInv ==
    /\ IsPointer(file) /\ \A c \in ToSet(file) : IsConfig(c)
    /\ IsFrom(origin) /\ ToSet(document) \subseteq DocumentsOf(origin)
    /\ document = <<>> => origin = <<>>
    /\ IsPointer(imported) /\ \A i \in ToSet(imported) : WrittenBy(file, i)

LEMMA SourceTyped ==
    ASSUME NEW from, IsFrom(from), NEW d \in DocumentsOf(from)
    PROVE  IsDocument(d)
<1>1. CASE from = <<>>
  BY <1>1, DocumentsAssumption, Zenon DEF DocumentsOf
<1>2. CASE from # <<>>
  <2>1. PICK o : from = <<o>>
    BY <1>2, PointerIsOption DEF IsFrom, IsOption
  <2>2. from[1] = o /\ o \in ToSet(from)
    BY <2>1, Single
  <2>3. LoadedConfig(o.cfg) /\ o.extensions \in BOOLEAN
    BY <2>2, Zenon DEF IsFrom, IsOrigin
  <2>4. PICK servers : d = FromConfig(o.cfg, o.extensions, servers)
    BY <1>2, <2>2, Zenon DEF DocumentsOf
  <2> QED
    BY <2>3, <2>4, ExportedTyped, Zenon
<1> QED
  BY <1>1, <1>2

\* LoadConfig of a file of the right types.
LEMMA LoadedFile ==
    ASSUME NEW f, IsPointer(f), \A c \in ToSet(f) : IsConfig(c), NEW cfg \in ToSet(LoadConfig(f))
    PROVE  LoadedConfig(cfg)
<1>1. CASE f = <<>>
  BY <1>1, OptionSet, Zenon DEF LoadConfig
<1>2. CASE f # <<>>
  <2>1. PICK c : f = <<c>>
    BY <1>2, PointerIsOption DEF IsOption
  <2>2. f[1] = c /\ c \in ToSet(f)
    BY <2>1, Single
  <2>3. PICK d : d = setDefaults(c)
    OBVIOUS
  <2>4. (LoadConfig(f) = <<d>> /\ ValidateConfig(d)) \/ LoadConfig(f) = <<>>
    BY <1>2, <2>2, <2>3, Zenon DEF LoadConfig
  <2>5. cfg = d /\ ValidateConfig(d)
    BY <2>4, OptionSet
  <2> QED
    BY <2>2, <2>3, <2>5, LoadedFlows
<1> QED
  BY <1>1, <1>2

LEMMA FilesInit == DeploymentInit => FilesInv
<1> SUFFICES ASSUME file = <<>>, document = <<>>, origin = <<>>, imported = <<>> PROVE FilesInv
  BY Zenon DEF DeploymentInit
<1>1. ToSet(<<>>) = {} /\ IsPointer(<<>>)
  BY OptionSet
<1> QED
  BY <1>1 DEF FilesInv, IsFrom

LEMMA EditFiles == FilesInv /\ Edit => FilesInv'
<1> SUFFICES ASSUME FilesInv, Edit PROVE FilesInv'
  OBVIOUS
<1>1. PICK c \in Configs : file' = <<c>>
  BY DEF Edit
<1>2. IsPointer(file') /\ \A x \in ToSet(file') : IsConfig(x)
  BY <1>1, OptionSet, ConfigsAssumption
<1>3. file = <<>> /\ document' = document /\ origin' = origin /\ imported' = imported
  BY DEF Edit
<1>4. \A d, options : <<>> # <<pruneZeroNodes(ToConfig(d, options))>>
  BY OptionSet
<1>5. \A i \in ToSet(imported) : FALSE
  BY <1>3, <1>4, Zenon DEF FilesInv, WrittenBy
<1>6. /\ IsFrom(origin') /\ ToSet(document') \subseteq DocumentsOf(origin') /\ IsPointer(imported')
      /\ document' = <<>> => origin' = <<>>
  BY <1>3, Zenon DEF FilesInv
<1> QED
  BY <1>2, <1>3, <1>5, <1>6, Zenon DEF FilesInv

LEMMA ObtainFiles == FilesInv /\ Obtain => FilesInv'
<1> SUFFICES ASSUME FilesInv, Obtain PROVE FilesInv'
  OBVIOUS
<1>1. PICK d \in Documents : document' = <<d>>
  BY DEF Obtain
<1>2. origin = <<>> /\ file' = file /\ origin' = origin /\ imported' = imported
  BY DEF Obtain, FilesInv
<1>3. ToSet(document') = {d} /\ document' # <<>>
  BY <1>1, OptionSet
<1>4. DocumentsOf(origin') = Documents
  BY <1>2, Zenon DEF DocumentsOf
<1>5. ToSet(document') \subseteq DocumentsOf(origin')
  BY <1>3, <1>4
<1>6. /\ IsPointer(file') /\ \A c \in ToSet(file') : IsConfig(c)
      /\ IsFrom(origin') /\ IsPointer(imported') /\ \A i \in ToSet(imported') : WrittenBy(file', i)
  BY <1>2, Zenon DEF FilesInv
<1> QED
  BY <1>3, <1>5, <1>6, Zenon DEF FilesInv

LEMMA ExportFiles == FilesInv /\ Export => FilesInv'
<1> SUFFICES ASSUME FilesInv, Export PROVE FilesInv'
  OBVIOUS
<1>1. file' = file /\ imported' = imported
  BY DEF Export
<1>2. PICK extensions \in BOOLEAN, host \in OptionalHosts :
        LET servers == IF host = Unset THEN <<>> ELSE <<host>>
        IN  \E out \in ToSet(runOpenAPIExport(file, extensions, servers)) :
               /\ document' = <<out.doc>>
               /\ origin' = <<[cfg |-> LoadConfig(file)[1], extensions |-> extensions,
                               warnings |-> out.warnings]>>
  BY Zenon DEF Export
<1>3. PICK servers : servers = IF host = Unset THEN <<>> ELSE <<host>>
  OBVIOUS
<1>4. PICK out \in ToSet(runOpenAPIExport(file, extensions, servers)) :
        /\ document' = <<out.doc>>
        /\ origin' = <<[cfg |-> LoadConfig(file)[1], extensions |-> extensions,
                        warnings |-> out.warnings]>>
  BY <1>2, <1>3, Zenon
<1>5. servers \in ServerLists
  BY <1>3, Zenon DEF ServerLists, OptionalHosts
<1>6. PICK loaded : loaded = LoadConfig(file)
  OBVIOUS
<1>7. PICK i \in DOMAIN loaded : out = [doc |-> FromConfig(loaded[i], extensions, servers),
                                        warnings |-> attachWarnings(loaded[i].flows)]
  <2>1. PICK outs : outs = [i \in DOMAIN loaded |-> [doc |-> FromConfig(loaded[i], extensions, servers),
                                                     warnings |-> attachWarnings(loaded[i].flows)]]
    OBVIOUS
  <2>2. runOpenAPIExport(file, extensions, servers) = outs
    BY <1>6, <2>1, Zenon DEF runOpenAPIExport
  <2>3. out \in ToSet(outs)
    BY <1>4, <2>2, Zenon
  <2>4. PICK i \in DOMAIN outs : out = outs[i]
    BY <2>3, InToSet
  <2> QED
    BY <2>1, <2>4
<1>8. PICK cfg : loaded = <<cfg>>
  <2>1. PICK d : loaded = <<d>> \/ loaded = <<>>
    BY <1>6, Zenon DEF LoadConfig
  <2>2. DOMAIN <<>> = {}
    OBVIOUS
  <2> QED
    BY <1>7, <2>1, <2>2
<1>9. loaded[1] = cfg /\ cfg \in ToSet(loaded) /\ loaded[i] = cfg
  BY <1>7, <1>8, OptionSet
<1>10. LoadedConfig(cfg)
  BY <1>6, <1>9, LoadedFile, Zenon DEF FilesInv
<1>11. PICK o : o = [cfg |-> cfg, extensions |-> extensions, warnings |-> attachWarnings(cfg.flows)]
  OBVIOUS
<1>12. o.cfg = cfg /\ o.extensions = extensions /\ o.warnings = attachWarnings(cfg.flows)
  BY <1>11
<1>13. out.doc = FromConfig(cfg, extensions, servers) /\ out.warnings = attachWarnings(cfg.flows)
  BY <1>7, <1>9
<1>14. origin' = <<o>> /\ document' = <<FromConfig(o.cfg, o.extensions, servers)>>
  BY <1>4, <1>6, <1>9, <1>11, <1>12, <1>13, Zenon
<1>15. /\ IsPointer(origin') /\ ToSet(origin') = {o} /\ origin'[1] = o /\ origin' # <<>>
       /\ ToSet(document') = {FromConfig(o.cfg, o.extensions, servers)} /\ document' # <<>>
  BY <1>14, OptionSet
<1>16. IsOrigin(o)
  BY <1>2, <1>10, <1>12, Zenon DEF IsOrigin
<1>17. IsFrom(origin')
  BY <1>15, <1>16 DEF IsFrom
<1>18. FromConfig(o.cfg, o.extensions, servers) \in DocumentsOf(origin')
  BY <1>5, <1>15, Zenon DEF DocumentsOf
<1>19. ToSet(document') \subseteq DocumentsOf(origin')
  BY <1>15, <1>18
<1>20. /\ IsPointer(file') /\ \A c \in ToSet(file') : IsConfig(c)
       /\ IsPointer(imported') /\ \A x \in ToSet(imported') : WrittenBy(file', x)
  BY <1>1, Zenon DEF FilesInv
<1> QED
  BY <1>15, <1>17, <1>19, <1>20, Zenon DEF FilesInv

LEMMA ImportFiles == FilesInv /\ Import => FilesInv'
<1> SUFFICES ASSUME FilesInv, Import PROVE FilesInv'
  OBVIOUS
<1>1. document' = document /\ origin' = origin
  BY DEF Import
<1>0. PICK options \in ImportOptions, d \in ToSet(document) :
        \E out \in ToSet(runOpenAPIImport(d, options)) :
           file' = <<out.cfg>> /\ imported' = <<[from |-> origin, warnings |-> out.warnings]>>
  BY Zenon DEF Import
<1>2. PICK out \in ToSet(runOpenAPIImport(d, options)) :
        file' = <<out.cfg>> /\ imported' = <<[from |-> origin, warnings |-> out.warnings]>>
  BY <1>0, Zenon
<1>3. PICK c, w : c = pruneZeroNodes(ToConfig(d, options)) /\ w = ToConfigWarnings(d, options)
  OBVIOUS
<1>4. out = [cfg |-> c, warnings |-> w] /\ ValidateConfig(setDefaults(ToConfig(d, options)))
  <2>1. PICK r : r = [cfg |-> c, warnings |-> w]
    OBVIOUS
  <2>2. \/ runOpenAPIImport(d, options) = <<>>
        \/ /\ runOpenAPIImport(d, options) = <<r>>
           /\ ValidateConfig(setDefaults(ToConfig(d, options)))
    BY <1>3, <2>1, Zenon DEF runOpenAPIImport
  <2> QED
    BY <2>1, <2>2, OptionSet
<1>5. out.cfg = c /\ out.warnings = w
  BY <1>4
<1>6. PICK i : i = [from |-> origin, warnings |-> w]
  OBVIOUS
<1>7. i.from = origin /\ i.warnings = w
  BY <1>6
<1>8. file' = <<c>> /\ imported' = <<i>>
  BY <1>2, <1>5, <1>6
<1>9. IsFrom(origin) /\ d \in DocumentsOf(origin)
  BY Zenon DEF FilesInv
<1>10. WrittenBy(file', i)
  BY <1>3, <1>4, <1>7, <1>8, <1>9, Zenon DEF WrittenBy
<1>11. IsConfig(c)
  <2>1. IsDocument(d)
    BY <1>9, SourceTyped
  <2>2. IsConfig(ToConfig(d, options))
    BY <2>1, ImportedTyped
  <2> QED
    BY <1>3, <2>2, PrunedConfig
<1>12. /\ IsPointer(file') /\ ToSet(file') = {c} /\ IsPointer(imported') /\ ToSet(imported') = {i}
  BY <1>8, OptionSet
<1>13. /\ \A x \in ToSet(file') : IsConfig(x)
       /\ \A x \in ToSet(imported') : WrittenBy(file', x)
  BY <1>10, <1>11, <1>12
<1>14. /\ IsFrom(origin') /\ ToSet(document') \subseteq DocumentsOf(origin')
       /\ document' = <<>> => origin' = <<>>
  BY <1>1, Zenon DEF FilesInv
<1> QED
  BY <1>12, <1>13, <1>14, Zenon DEF FilesInv

LEMMA FilesNext == FilesInv /\ [DeploymentNext]_deploymentVars => FilesInv'
<1> SUFFICES ASSUME FilesInv, [DeploymentNext]_deploymentVars PROVE FilesInv'
  OBVIOUS
<1>1. CASE Edit
  BY <1>1, EditFiles
<1>2. CASE Obtain
  BY <1>2, ObtainFiles
<1>3. CASE Export
  BY <1>3, ExportFiles
<1>4. CASE Import
  BY <1>4, ImportFiles
<1>5. CASE Start
  <2>1. file' = <<>> /\ document' = <<>> /\ origin' = <<>> /\ imported' = <<>>
    BY <1>5, Zenon DEF Start
  <2>2. ToSet(<<>>) = {} /\ IsPointer(<<>>)
    BY OptionSet
  <2> QED
    BY <2>1, <2>2 DEF FilesInv, IsFrom
<1>6. CASE UNCHANGED files
  <2>1. file' = file /\ document' = document /\ origin' = origin /\ imported' = imported
    BY <1>6 DEF files
  <2> QED
    BY <2>1, Zenon DEF FilesInv
<1>7. ((Shutdown \/ Background) /\ UNCHANGED files) \/ UNCHANGED deploymentVars => UNCHANGED files
  BY DEF deploymentVars
<1> QED
  BY <1>1, <1>2, <1>3, <1>4, <1>5, <1>6, <1>7, Zenon DEF DeploymentNext

LEMMA FilesAlways == DeploymentSpec => []FilesInv
<1> QED
  BY FilesInit, FilesNext, PTL DEF DeploymentSpec

-----------------------------------------------------------------------------
(* What follows for the file the operator has *)

\* The document an imported file was made from, and the import.
LEMMA ImportSource ==
    ASSUME FilesInv, imported # <<>>
    PROVE  \E d, options :
              /\ IsDocument(d) /\ ValidateConfig(setDefaults(ToConfig(d, options)))
              /\ file = <<pruneZeroNodes(ToConfig(d, options))>>
              /\ imported[1].warnings = ToConfigWarnings(d, options)
              /\ \A o \in ImportedFrom :
                    IsOrigin(o) /\ \E servers : d = FromConfig(o.cfg, o.extensions, servers)
<1>1. PICK i : imported = <<i>>
  BY PointerIsOption DEF FilesInv, IsOption
<1>2. imported[1] = i /\ i \in ToSet(imported)
  BY <1>1, Single
<1>3. WrittenBy(file, i)
  BY <1>2, Zenon DEF FilesInv
<1>4. IsFrom(i.from)
  BY <1>3, Zenon DEF WrittenBy
<1>5. PICK d \in DocumentsOf(i.from), options \in ImportOptions :
        /\ ValidateConfig(setDefaults(ToConfig(d, options)))
        /\ file = <<pruneZeroNodes(ToConfig(d, options))>>
        /\ i.warnings = ToConfigWarnings(d, options)
  BY <1>3, Zenon DEF WrittenBy
<1>6. IsDocument(d)
  BY <1>4, <1>5, SourceTyped
<1>7. ImportedFrom = ToSet(i.from)
  BY <1>2, Zenon DEF ImportedFrom
<1>8. ASSUME NEW o \in ToSet(i.from)
      PROVE  IsOrigin(o) /\ \E servers : d = FromConfig(o.cfg, o.extensions, servers)
  <2>1. i.from # <<>>
    BY <1>8, OptionSet
  <2>2. PICK x : i.from = <<x>>
    BY <1>4, <2>1, PointerIsOption DEF IsFrom, IsOption
  <2>3. i.from[1] = o
    BY <1>8, <2>2, OptionSet
  <2>4. \E servers : d = FromConfig(o.cfg, o.extensions, servers)
    BY <1>5, <2>1, <2>3, Zenon DEF DocumentsOf
  <2>5. IsOrigin(o)
    BY <1>4, <1>8, Zenon DEF IsFrom
  <2> QED
    BY <2>4, <2>5
<1>9. /\ IsDocument(d) /\ ValidateConfig(setDefaults(ToConfig(d, options)))
      /\ file = <<pruneZeroNodes(ToConfig(d, options))>>
      /\ imported[1].warnings = ToConfigWarnings(d, options)
  BY <1>2, <1>5, <1>6
<1>10. \A o \in ImportedFrom :
         IsOrigin(o) /\ \E servers : d = FromConfig(o.cfg, o.extensions, servers)
  BY <1>7, <1>8, Zenon
<1> QED
  BY <1>9, <1>10, Zenon

LEMMA FileLoads ==
    ASSUME NEW p, NEW e, e = setDefaults(p), ValidateConfig(e)
    PROVE  LoadConfig(<<p>>) # <<>> /\ LoadConfig(<<p>>)[1] = e
<1>1. <<p>> # <<>> /\ <<p>>[1] = p /\ <<e>> # <<>> /\ <<e>>[1] = e
  BY OptionSet
<1>2. LoadConfig(<<p>>) = <<e>>
  BY <1>1, Zenon DEF LoadConfig
<1> QED
  BY <1>1, <1>2

LEMMA FileRefused ==
    ASSUME NEW p, ~ValidateConfig(setDefaults(p))
    PROVE  LoadConfig(<<p>>) = <<>>
<1>1. <<p>>[1] = p
  BY OptionSet
<1> QED
  BY <1>1, Zenon DEF LoadConfig

\* ImportAccepted, for every document and configuration: what runOpenAPIImport
\* writes is refused if and only if pruneZeroNodes took away a name, and the
\* server is not built from it if and only if a preferred upstream is missing.
THEOREM ImportAcceptedTheorem == DeploymentSpec => []ImportAccepted
<1>1. FilesInv => ImportAccepted
  <2> SUFFICES ASSUME FilesInv, imported # <<>>, NEW l, l = LoadConfig(file)
               PROVE  /\ l = <<>> <=> NamedZero(file[1])
                      /\ l # <<>> =>
                            IF \E f \in ToSet(l[1].flows) : MissingPreferred(f)
                            THEN NewServer(l[1]).outcome = "error" /\ NewServer(l[1]).why = "preferred"
                            ELSE NewServer(l[1]).outcome = "ok"
    BY Zenon DEF ImportAccepted
  <2>1. PICK d, options :
          /\ IsDocument(d) /\ ValidateConfig(setDefaults(ToConfig(d, options)))
          /\ file = <<pruneZeroNodes(ToConfig(d, options))>>
    BY ImportSource, Zenon
  <2>2. PICK c, p, e : c = ToConfig(d, options) /\ p = pruneZeroNodes(c) /\ e = setDefaults(p)
    OBVIOUS
  <2>3. file = <<p>> /\ file[1] = p
    BY <2>1, <2>2, OptionSet
  <2>4. CASE NamedZero(p)
    <3>1. IsConfig(c)
      BY <2>1, <2>2, ImportedTyped
    <3>2. ~ValidateConfig(e)
      BY <2>2, <2>4, <3>1, NamedZeroInvalid
    <3>3. l = <<>>
      BY <2>2, <2>3, <3>2, FileRefused
    <3> QED
      BY <2>3, <2>4, <3>3
  <2>5. CASE ~NamedZero(p)
    <3>1. /\ ValidateConfig(e)
          /\ IF \E f \in ToSet(e.flows) : MissingPreferred(f)
             THEN NewServer(e).outcome = "error" /\ NewServer(e).why = "preferred"
             ELSE NewServer(e).outcome = "ok"
      BY <2>1, <2>2, <2>5, ImportedBuilds
    <3>2. l # <<>> /\ l[1] = e
      BY <2>2, <2>3, <3>1, FileLoads
    <3> QED
      BY <2>3, <2>5, <3>1, <3>2
  <2> QED
    BY <2>4, <2>5
<1> QED
  BY <1>1, FilesAlways, PTL

\* RoundTrip, for every configuration: after an export with extensions and the
\* import of its document the file does not load if a name reads as zero, and
\* otherwise LoadConfig gives exactly the flows as Restored has them.
THEOREM RoundTripTheorem == DeploymentSpec => []RoundTrip
<1>1. FilesInv => RoundTrip
  <2> SUFFICES ASSUME FilesInv, NEW o \in ImportedFrom, o.extensions,
                      NEW stored, stored = FirstOfKey(o.cfg.flows)
               PROVE  IF \E f \in stored : ZeroNamed(f)
                      THEN LoadConfig(file) = <<>>
                      ELSE /\ LoadConfig(file) # <<>>
                           /\ ToSet(LoadConfig(file)[1].flows) = {Restored(f) : f \in stored}
    BY Zenon DEF RoundTrip
  <2>1. imported # <<>>
    BY Zenon DEF ImportedFrom
  <2>2. PICK d, options :
          /\ IsDocument(d) /\ ValidateConfig(setDefaults(ToConfig(d, options)))
          /\ file = <<pruneZeroNodes(ToConfig(d, options))>>
          /\ \A x \in ImportedFrom :
                IsOrigin(x) /\ \E servers : d = FromConfig(x.cfg, x.extensions, servers)
    BY <2>1, ImportSource, Zenon
  <2>3. PICK servers : IsOrigin(o) /\ d = FromConfig(o.cfg, o.extensions, servers)
    BY <2>2
  <2>4. PICK b, x : b = o.cfg /\ x = o.extensions
    OBVIOUS
  <2>5. LoadedConfig(b) /\ x \in BOOLEAN /\ x /\ d = FromConfig(b, x, servers)
    BY <2>3, <2>4, Zenon DEF IsOrigin
  <2>6. PICK c, p, e : c = ToConfig(d, options) /\ p = pruneZeroNodes(c) /\ e = setDefaults(p)
    OBVIOUS
  <2>7. /\ NamedZero(p) <=> \E f \in FirstOfKey(b.flows) : ZeroNamed(f)
        /\ ~NamedZero(p) => ToSet(e.flows) = {Restored(f) : f \in FirstOfKey(b.flows)}
    BY <2>5, <2>6, ConfigRestored
  <2>8. file = <<p>>
    BY <2>2, <2>6
  <2>9. CASE NamedZero(p)
    <3>1. IsConfig(c)
      BY <2>2, <2>6, ImportedTyped
    <3>2. ~ValidateConfig(e)
      BY <2>6, <2>9, <3>1, NamedZeroInvalid
    <3>3. LoadConfig(file) = <<>>
      BY <2>6, <2>8, <3>2, FileRefused
    <3> QED
      BY <2>4, <2>7, <2>9, <3>3
  <2>10. CASE ~NamedZero(p)
    <3>1. ValidateConfig(e)
      BY <2>2, <2>6, <2>10, ImportedBuilds
    <3>2. LoadConfig(file) # <<>> /\ LoadConfig(file)[1] = e
      BY <2>6, <2>8, <3>1, FileLoads
    <3> QED
      BY <2>4, <2>7, <2>10, <3>2, Zenon
  <2> QED
    BY <2>9, <2>10
<1> QED
  BY <1>1, FilesAlways, PTL

\* ReportedLosses, for every configuration: exactly what the export and the
\* import report of what does not come back; the rest goes without a word.
THEOREM ReportedLossesTheorem == DeploymentSpec => []ReportedLosses
<1>1. FilesInv => ReportedLosses
  <2> SUFFICES ASSUME FilesInv, NEW o \in ImportedFrom, NEW w, w = imported[1].warnings
               PROVE
                 /\ ~o.extensions => Warning(<<>>, Unset, "extensions") \in w
                 /\ o.extensions =>
                       \A f \in FirstOfKey(o.cfg.flows) : {y \in w : y.flow = Key(f)} = Reported(f)
                 /\ \A f \in ToSet(o.cfg.flows) \ FirstOfKey(o.cfg.flows) :
                       Warning(Key(f), Unset, "duplicate") \in o.warnings
    BY Zenon DEF ReportedLosses
  <2>1. imported # <<>>
    BY Zenon DEF ImportedFrom
  <2>2. PICK d, options :
          /\ imported[1].warnings = ToConfigWarnings(d, options)
          /\ \A x \in ImportedFrom :
                IsOrigin(x) /\ \E servers : d = FromConfig(x.cfg, x.extensions, servers)
    BY <2>1, ImportSource, Zenon
  <2>3. PICK servers : IsOrigin(o) /\ d = FromConfig(o.cfg, o.extensions, servers)
    BY <2>2
  <2>4. PICK b, x : b = o.cfg /\ x = o.extensions
    OBVIOUS
  <2>5. /\ LoadedConfig(b) /\ x \in BOOLEAN /\ d = FromConfig(b, x, servers)
        /\ o.warnings = attachWarnings(b.flows)
    BY <2>3, <2>4, Zenon DEF IsOrigin
  <2>6. w = ToConfigWarnings(d, options)
    BY <2>2
  <2>7. /\ ~x => Warning(<<>>, Unset, "extensions") \in w
        /\ x => \A f \in FirstOfKey(b.flows) : {y \in w : y.flow = Key(f)} = Reported(f)
    BY <2>5, <2>6, LossesWarned
  <2>8. \A f \in ToSet(b.flows) \ FirstOfKey(b.flows) :
          Warning(Key(f), Unset, "duplicate") \in o.warnings
    BY <2>5, DuplicatesWarned
  <2> QED
    BY <2>4, <2>7, <2>8, Zenon
<1> QED
  BY <1>1, FilesAlways, PTL

\* CompilesOrRefuses, for every file the operator may have: whatever number of
\* flows and upstreams, names, policies and transports it has.
THEOREM CompilesTheorem == DeploymentSpec => []CompilesOrRefuses
<1>1. FilesInv => FileTyped
  <2> SUFFICES ASSUME FilesInv, NEW cfg \in ToSet(LoadConfig(file)), NEW f \in ToSet(cfg.flows)
               PROVE  IsFlowConfig(f)
    BY Zenon DEF FileTyped
  <2>1. LoadedConfig(cfg)
    BY LoadedFile, Zenon DEF FilesInv
  <2> QED
    BY <2>1, ConfigFieldsTyped DEF LoadedConfig
<1> QED
  BY <1>1, TypedFileCompiles, FilesAlways, PTL
=============================================================================
