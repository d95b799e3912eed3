--------------------------- MODULE GatewayProofs ----------------------------
(* Proofs about the request pipeline of module Gateway. *)
EXTENDS Gateway, FiniteSetTheorems, WellFoundedInduction, TLAPS

\* What AnsweredOnce needs of the places before its last: nothing has been
\* written until the handler ends or has a stream's status to send.
ReplyInv ==
    /\ pc \in PCs
    /\ pc \in PCs \ {"copy", "done"} => reply = <<>>
    /\ pc \in {"copy", "done"} => Len(reply) = 1

LEMMA AppendToEmpty == \A r : Len(Append(<<>>, r)) = 1
  OBVIOUS

LEMMA ReplyInvInit == Init => ReplyInv
  BY DEF Init, ReplyInv, PCs

LEMMA ReplyInvNext == ReplyInv /\ [Next]_vars => ReplyInv'
<1> SUFFICES ASSUME ReplyInv, [Next]_vars PROVE ReplyInv'
  OBVIOUS
<1> USE DEF ReplyInv, PCs, Goto, Write
<1>1. CASE Begin
  BY <1>1 DEF Begin
<1>2. CASE Limit
  <2>1. CASE pc = "limit" /\ pc' = "route" /\ reply' = reply
    BY <2>1
  <2>2. CASE pc = "limit" /\ pc' = "done" /\ \E r : reply' = Append(reply, r)
    BY <2>2, AppendToEmpty
  <2> QED
    BY <1>2, <2>1, <2>2 DEF Limit
<1>3. CASE Route
  <2>1. CASE pc = "route" /\ pc' = "middlewares" /\ reply' = reply
    BY <2>1
  <2>2. CASE pc = "route" /\ pc' = "done" /\ \E r : reply' = Append(reply, r)
    BY <2>2, AppendToEmpty
  <2> QED
    BY <1>3, <2>1, <2>2 DEF Route
<1>12. CASE Middlewares
  <2>1. CASE pc = "middlewares" /\ pc' = "request_plugins" /\ reply' = reply
    BY <2>1
  <2>2. CASE pc = "middlewares" /\ pc' = "done" /\ \E r : reply' = Append(reply, r)
    BY <2>2, AppendToEmpty
  <2> QED
    BY <1>12, <2>1, <2>2 DEF Middlewares
<1>4. CASE RequestPlugins
  BY <1>4, AppendToEmpty, ZenonT(40) DEF RequestPlugins
<1>5. CASE ReadBody
  BY <1>5, AppendToEmpty, ZenonT(40) DEF ReadBody
<1>6. CASE \E i \in running : CallUpstream(i)
  BY <1>6 DEF CallUpstream
<1>7. CASE Dispatch
  <2>1. pc = "scatter" /\ pc' = "response_plugins" /\ reply' = reply
    BY <1>7 DEF Dispatch
  <2> QED
    BY <2>1
<1>8. CASE ResponsePlugins
  <2>1. PICK r : pc = "response_plugins" /\ pc' = "done" /\ reply' = Append(reply, r)
    BY <1>8 DEF ResponsePlugins
  <2> QED
    BY <2>1, AppendToEmpty
<1>9. CASE Connect
  <2>1. CASE pc = "connect" /\ pc' = "copy" /\ \E r : reply' = Append(reply, r)
    BY <2>1, AppendToEmpty
  <2>2. CASE pc = "connect" /\ pc' = "done" /\ \E r : reply' = Append(reply, r)
    BY <2>2, AppendToEmpty
  <2> QED
    BY <1>9, <2>1, <2>2 DEF Connect
<1>10. CASE StreamCopy
  BY <1>10 DEF StreamCopy
<1>11. CASE UNCHANGED vars
  BY <1>11 DEF vars
<1> QED
  BY <1>1, <1>2, <1>3, <1>4, <1>5, <1>6, <1>7, <1>8, <1>9, <1>10, <1>11, <1>12 DEF Next, Step

\* For any set of flows, any number of upstreams and any answers: every way
\* through newFlowHandler, dispatch and handleStreaming writes one response.
THEOREM AnsweredOnceTheorem == Spec => []AnsweredOnce
<1>1. ReplyInv => AnsweredOnce
  <2>1. Len(<<>>) = 0
    OBVIOUS
  <2> SUFFICES ASSUME ReplyInv PROVE AnsweredOnce
    OBVIOUS
  <2>2. CASE pc \in {"copy", "done"}
    <3>1. Len(reply) = 1
      BY <2>2, Zenon DEF ReplyInv
    <3>2. \A n : n = 1 => n <= 1
      OBVIOUS
    <3> QED
      BY <3>1, <3>2, Zenon DEF AnsweredOnce
  <2>3. CASE pc \notin {"copy", "done"}
    <3>1. reply = <<>>
      BY <2>3 DEF ReplyInv
    <3> QED
      BY <2>1, <2>3, <3>1 DEF AnsweredOnce
  <2> QED
    BY <2>2, <2>3
<1> QED
  BY <1>1, ReplyInvInit, ReplyInvNext, PTL DEF Spec

-----------------------------------------------------------------------------
(* What the operators of Aggregator compute *)

\* Every set of naturals has a least element.
LEMMA MinOfSet ==
    ASSUME NEW I, I \subseteq Nat, I # {}
    PROVE  Min(I) \in I /\ \A j \in I : Min(I) <= j
<1> DEFINE R == OpToRel(<, Nat)
<1>1. IsWellFoundedOn(R, Nat)
  BY NatLessThanWellFounded
<1>2. \A x, y \in Nat : y < x => <<y, x>> \in R
  BY DEF OpToRel
<1> HIDE DEF R
<1>3. PICK x \in I : \A y \in I : <<y, x>> \notin R
  BY <1>1, WFMin
<1>4. ASSUME NEW y \in I PROVE x <= y
  <2>1. x \in Nat /\ y \in Nat /\ <<y, x>> \notin R
    BY <1>3
  <2>2. ~(y < x)
    BY <1>2, <2>1, Zenon
  <2> QED
    BY <2>1, <2>2
<1> QED
  BY <1>4 DEF Min

\* Induction along the indices of a loop, for a set of indices.
LEMMA LoopInduction ==
    ASSUME NEW n \in Nat, NEW T, 0 \in T,
           \A i \in 1 .. n : i - 1 \in T => i \in T
    PROVE  \A i \in 0 .. n : i \in T
<1> DEFINE B == {i \in 0 .. n : i \notin T}
<1> SUFFICES ASSUME B # {} PROVE FALSE
  OBVIOUS
<1>1. B \subseteq Nat
  OBVIOUS
<1>2. Min(B) \in B /\ \A j \in B : Min(B) <= j
  BY <1>1, MinOfSet
<1>3. PICK m \in B : \A j \in B : m <= j
  BY <1>2
<1>4. m \in 1 .. n /\ m - 1 \in 0 .. n
  BY <1>3
<1>5. m - 1 \in T
  BY <1>3, <1>4
<1> QED
  BY <1>3, <1>4, <1>5

\* A sequence of naturals in increasing order that are the members of S.
Enumerates(s, S) ==
    /\ s \in Seq(S)
    /\ \A x \in S : \E j \in 1 .. Len(s) : s[j] = x
    /\ \A j, k \in 1 .. Len(s) : j < k => s[j] < s[k]

\* What the loops of aggregator.go collect: the chosen indices, in order.
LEMMA LoopEnumerates ==
    ASSUME NEW n \in Nat, NEW S, S \subseteq 1 .. n
    PROVE  Enumerates(Loop(S, n), S)
<1> DEFINE step(p, i) == IF i \in S THEN Append(p, i) ELSE p
           Rec(g, m) == g = [i \in 0 .. m |-> IF i = 0 THEN <<>> ELSE step(g[i - 1], i)]
           T == {m \in 0 .. n : \E g : Rec(g, m)}
           out == CHOOSE g : Rec(g, n)
<1>0. Loop(S, n) = out[n]
  BY DEF Loop
<1> HIDE DEF step
<1>1. 0 \in T
  <2> DEFINE g == [i \in 0 .. 0 |-> <<>>]
  <2>1. Rec(g, 0)
    OBVIOUS
  <2> HIDE DEF g, Rec
  <2> QED
    BY <2>1
<1>2. ASSUME NEW m \in 1 .. n, m - 1 \in T PROVE m \in T
  <2>1. PICK g : Rec(g, m - 1)
    BY <1>2
  <2> DEFINE h == [i \in 0 .. m |-> IF i = m THEN step(g[m - 1], m) ELSE g[i]]
  <2>2. \A i \in 0 .. (m - 1) : g[i] = IF i = 0 THEN <<>> ELSE step(g[i - 1], i)
    BY <2>1
  <2>3. ASSUME NEW i \in 0 .. m PROVE h[i] = IF i = 0 THEN <<>> ELSE step(h[i - 1], i)
    <3>1. CASE i = m
      BY <3>1
    <3>2. CASE i # m
      BY <2>2, <3>2
    <3> QED
      BY <3>1, <3>2
  <2>4. Rec(h, m)
    BY <2>3
  <2> HIDE DEF h, Rec
  <2> QED
    BY <2>4
<1>3. n \in T
  <2> HIDE DEF T
  <2> QED
    BY <1>1, <1>2, LoopInduction
<1>4. Rec(out, n)
  <2> HIDE DEF Rec
  <2> QED
    BY <1>3
<1> HIDE DEF out
<1>5. out[0] = <<>> /\ \A i \in 1 .. n : out[i] = step(out[i - 1], i)
  BY <1>4
<1> HIDE DEF Rec
<1> DEFINE E == {i \in 0 .. n : Enumerates(out[i], S \cap 1 .. i)}
<1>6. 0 \in E
  <2>1. S \cap 1 .. 0 = {} /\ <<>> \in Seq({}) /\ Len(<<>>) = 0
    OBVIOUS
  <2>2. Enumerates(<<>>, {})
    BY <2>1 DEF Enumerates
  <2> QED
    BY <1>5, <2>1, <2>2
<1>7. ASSUME NEW i \in 1 .. n, i - 1 \in E PROVE i \in E
  <2> DEFINE s == out[i - 1]
             Before == S \cap 1 .. (i - 1)
  <2>1. Enumerates(s, Before)
    BY <1>7
  <2>2. out[i] = IF i \in S THEN Append(s, i) ELSE s
    BY <1>5 DEF step
  <2> HIDE DEF s
  <2>3. CASE i \notin S
    <3>1. S \cap 1 .. i = Before
      BY <2>3
    <3> QED
      BY <2>1, <2>2, <2>3, <3>1
  <2>4. CASE i \in S
    <3>1. S \cap 1 .. i = Before \union {i}
      BY <2>4
    <3>2. s \in Seq(Before) /\ Len(s) \in Nat
      BY <2>1 DEF Enumerates
    <3>3. out[i] = Append(s, i) /\ Append(s, i) \in Seq(Before \union {i})
      BY <2>2, <2>4, <3>2
    <3>4. Len(Append(s, i)) = Len(s) + 1 /\ Append(s, i)[Len(s) + 1] = i
      BY <3>2
    <3>5. \A j \in 1 .. Len(s) : Append(s, i)[j] = s[j] /\ s[j] \in Before
      BY <3>2
    <3>6. \A x \in Before \union {i} : \E j \in 1 .. (Len(s) + 1) : Append(s, i)[j] = x
      BY <2>1, <3>2, <3>4, <3>5 DEF Enumerates
    <3>7. ASSUME NEW j \in 1 .. (Len(s) + 1), NEW k \in 1 .. (Len(s) + 1), j < k
          PROVE  Append(s, i)[j] < Append(s, i)[k]
      <4>1. j \in 1 .. Len(s)
        BY <3>2, <3>7
      <4>2. CASE k = Len(s) + 1
        BY <3>4, <3>5, <4>1, <4>2
      <4>3. CASE k # Len(s) + 1
        <5>1. k \in 1 .. Len(s)
          BY <3>2, <4>3
        <5>2. s[j] < s[k]
          BY <2>1, <3>7, <4>1, <5>1, Zenon DEF Enumerates
        <5>3. Append(s, i)[j] = s[j] /\ Append(s, i)[k] = s[k]
          BY <3>5, <4>1, <5>1, Zenon
        <5> QED
          BY <5>2, <5>3
      <4> QED
        BY <4>2, <4>3
    <3> DEFINE t == Append(s, i)
    <3>8. t \in Seq(Before \union {i}) /\ Len(t) = Len(s) + 1
      BY <3>3, <3>4
    <3> HIDE DEF t
    <3>9. Enumerates(t, Before \union {i})
      BY <3>6, <3>7, <3>8, Zenon DEF Enumerates, t
    <3>10. t = out[i] /\ i \in 0 .. n
      BY <3>3 DEF t
    <3> QED
      BY <3>1, <3>9, <3>10
  <2> QED
    BY <2>3, <2>4
<1>8. n \in E
  <2> HIDE DEF E
  <2> QED
    BY <1>6, <1>7, LoopInduction
<1>9. S \cap 1 .. n = S
  OBVIOUS
<1> QED
  BY <1>0, <1>8, <1>9

\* The upstream a conflict policy names among those that offer a key.
Named(o, offers, agg) ==
    /\ o \in offers
    /\ agg.policy = "overwrite" => \A j \in offers : j <= o
    /\ agg.policy = "prefer" /\ agg.preferred \in offers => o = agg.preferred
    /\ agg.policy # "overwrite" /\ ~(agg.policy = "prefer" /\ agg.preferred \in offers) =>
           \A j \in offers : o <= j

\* What the loop of collectFields and applyConflictPolicy leave in a field.
LEMMA OwnerNamed ==
    ASSUME NEW ans, NEW n \in Nat, Len(ans) = n, NEW k, NEW agg,
           NEW O, O = {i \in 1 .. n : IsObject(ans[i]) /\ k \in ans[i].body.keys}, O # {}
    PROVE  Named(owner(ans, k, agg), O, agg)
<1> DEFINE step(p, i) == IF /\ IsObject(ans[i]) /\ k \in ans[i].body.keys
                            /\ p = 0 \/ Replaces(p, i, agg)
                         THEN i
                         ELSE p
           Rec(g, m) == g = [i \in 0 .. m |-> IF i = 0 THEN 0 ELSE step(g[i - 1], i)]
           T == {m \in 0 .. n : \E g : Rec(g, m)}
           field == CHOOSE g : Rec(g, n)
<1>0. owner(ans, k, agg) = field[n]
  BY DEF owner
<1>1. \A i \in 1 .. n : \A p :
          step(p, i) = IF i \in O /\ (p = 0 \/ Replaces(p, i, agg)) THEN i ELSE p
  OBVIOUS
<1> HIDE DEF step
<1>2. 0 \in T
  <2> DEFINE g == [i \in 0 .. 0 |-> 0]
  <2>1. Rec(g, 0)
    OBVIOUS
  <2> HIDE DEF g, Rec
  <2> QED
    BY <2>1
<1>3. ASSUME NEW m \in 1 .. n, m - 1 \in T PROVE m \in T
  <2>1. PICK g : Rec(g, m - 1)
    BY <1>3
  <2> DEFINE h == [i \in 0 .. m |-> IF i = m THEN step(g[m - 1], m) ELSE g[i]]
  <2>2. \A i \in 0 .. (m - 1) : g[i] = IF i = 0 THEN 0 ELSE step(g[i - 1], i)
    BY <2>1
  <2>3. ASSUME NEW i \in 0 .. m PROVE h[i] = IF i = 0 THEN 0 ELSE step(h[i - 1], i)
    <3>1. CASE i = m
      BY <3>1
    <3>2. CASE i # m
      BY <2>2, <3>2
    <3> QED
      BY <3>1, <3>2
  <2>4. Rec(h, m)
    BY <2>3
  <2> HIDE DEF h, Rec
  <2> QED
    BY <2>4
<1>4. n \in T
  <2> HIDE DEF T
  <2>1. \A i \in 0 .. n : i \in T
    BY <1>2, <1>3, LoopInduction, Zenon
  <2>2. n \in 0 .. n
    OBVIOUS
  <2> QED
    BY <2>1, <2>2, Zenon
<1>5. Rec(field, n)
  <2> HIDE DEF Rec
  <2> QED
    BY <1>4
<1> HIDE DEF field
<1>6. field[0] = 0 /\ \A i \in 1 .. n : field[i] = step(field[i - 1], i)
  BY <1>5
<1> HIDE DEF Rec
<1> DEFINE Seen(i) == O \cap 1 .. i
           E == {i \in 0 .. n : IF Seen(i) = {} THEN field[i] = 0
                                ELSE Named(field[i], Seen(i), agg)}
<1>7. 0 \in E
  BY <1>6
<1>8. ASSUME NEW i \in 1 .. n, i - 1 \in E PROVE i \in E
  <2> DEFINE p == field[i - 1]
             q == field[i]
  <2>1. q = IF i \in O /\ (p = 0 \/ Replaces(p, i, agg)) THEN i ELSE p
    BY <1>1, <1>6
  <2>2. IF Seen(i - 1) = {} THEN p = 0 ELSE Named(p, Seen(i - 1), agg)
    BY <1>8
  <2>3. Seen(i) = Seen(i - 1) \union ({i} \cap O)
    OBVIOUS
  <2>4. \A j \in Seen(i - 1) : j \in Nat /\ j < i /\ j # 0
    OBVIOUS
  <2> HIDE DEF p, q, Seen
  <2>5. CASE i \notin O
    <3>1. Seen(i) = Seen(i - 1) /\ q = p
      BY <2>1, <2>3, <2>5
    <3> QED
      BY <2>2, <3>1 DEF p, q
  <2>6. CASE i \in O /\ Seen(i - 1) = {}
    <3>1. Seen(i) = {i} /\ q = i
      BY <2>1, <2>2, <2>3, <2>6
    <3>2. Named(q, Seen(i), agg)
      BY <3>1 DEF Named
    <3>3. Seen(i) # {}
      BY <3>1
    <3> QED
      BY <3>2, <3>3 DEF q
  <2>7. CASE i \in O /\ Seen(i - 1) # {}
    <3>1. Seen(i) = Seen(i - 1) \union {i} /\ p \in Seen(i - 1) /\ p # 0 /\ p < i
      BY <2>2, <2>3, <2>4, <2>7 DEF Named
    <3>2. q = IF Replaces(p, i, agg) THEN i ELSE p
      BY <2>1, <2>7, <3>1
    <3>3. Named(q, Seen(i), agg)
      <4>1. CASE agg.policy = "overwrite"
        BY <2>4, <3>1, <3>2, <4>1 DEF Named, Replaces
      <4>2. CASE agg.policy = "prefer" /\ agg.preferred \in Seen(i - 1)
        BY <2>2, <2>4, <3>1, <3>2, <4>2 DEF Named, Replaces
      <4>3. CASE agg.policy = "prefer" /\ agg.preferred \notin Seen(i - 1)
        BY <2>2, <2>4, <3>1, <3>2, <4>3 DEF Named, Replaces
      <4>4. CASE agg.policy \notin {"overwrite", "prefer"}
        BY <2>2, <2>4, <3>1, <3>2, <4>4 DEF Named, Replaces
      <4> QED
        BY <4>1, <4>2, <4>3, <4>4
    <3>4. Seen(i) # {}
      BY <3>1
    <3> QED
      BY <3>3, <3>4 DEF q
  <2> QED
    BY <2>5, <2>6, <2>7
<1>9. n \in E
  <2> HIDE DEF E
  <2>1. \A i \in 0 .. n : i \in E
    BY <1>7, <1>8, LoopInduction, Zenon
  <2>2. n \in 0 .. n
    OBVIOUS
  <2> QED
    BY <2>1, <2>2, Zenon
<1>10. Seen(n) = O
  OBVIOUS
<1> QED
  BY <1>0, <1>9, <1>10

LEMMA Enumerated ==
    ASSUME NEW S, NEW s, Enumerates(s, S)
    PROVE  Len(s) \in Nat /\ DOMAIN s = 1 .. Len(s) /\ \A j \in 1 .. Len(s) : s[j] \in S
  BY DEF Enumerates

\* The errors that failures of upstreams are reported as.
UpstreamClientErrors ==
    {"UPSTREAM_UNAVAILABLE", "ABORTED", "UPSTREAM_BODY_TOO_LARGE", "UPSTREAM_ERROR",
     "UPSTREAM_CLIENT_ERROR", "UPSTREAM_REDIRECT", "UPSTREAM_MALFORMED", "INTERNAL"}

LEMMA MappedErrors == \A k : mapUpstreamError(k) \in UpstreamClientErrors
  BY Zenon DEF mapUpstreamError, UpstreamClientErrors

\* The ones these answers can be reported as: ABORTED needs a canceled call.
ReportedErrors(ans) ==
    {e \in UpstreamClientErrors : e = "ABORTED" => \E i \in DOMAIN ans : ans[i].kind = "canceled"}

LEMMA ReportedMapped ==
    ASSUME NEW ans, NEW i \in DOMAIN ans
    PROVE  mapUpstreamError(ans[i].kind) \in ReportedErrors(ans)
<1>1. \A k : mapUpstreamError(k) = "ABORTED" => k = "canceled"
  BY DEF mapUpstreamError
<1> QED
  BY <1>1, MappedErrors, Zenon DEF ReportedErrors

LEMMA ReportedAreErrors ==
    ASSUME NEW ans
    PROVE  /\ \A es \in Seq(ReportedErrors(ans)) : es \in Seq(UpstreamClientErrors)
           /\ {"UPSTREAM_MALFORMED", "INTERNAL"} \subseteq ReportedErrors(ans)
<1>1. ReportedErrors(ans) \subseteq UpstreamClientErrors
  BY DEF ReportedErrors
<1>2. {"UPSTREAM_MALFORMED", "INTERNAL"} \subseteq ReportedErrors(ans)
  BY DEF ReportedErrors, UpstreamClientErrors
<1> QED
  BY <1>1, <1>2

\* The errors of d are those of errs.
SameErrors(d, errs) ==
    /\ \A j \in 1 .. Len(d) : \E i \in 1 .. Len(errs) : d[j] = errs[i]
    /\ \A i \in 1 .. Len(errs) : \E j \in 1 .. Len(d) : d[j] = errs[i]

\* dedupeErrors keeps the errors and drops the repetitions.
LEMMA DedupedErrors ==
    ASSUME NEW V, NEW errs, errs \in Seq(V)
    PROVE  /\ dedupeErrors(errs) \in Seq(V)
           /\ SameErrors(dedupeErrors(errs), errs)
           /\ \A j, k \in 1 .. Len(dedupeErrors(errs)) :
                  j # k => dedupeErrors(errs)[j] # dedupeErrors(errs)[k]
<1> DEFINE n == Len(errs)
           S == {i \in DOMAIN errs : \A j \in 1 .. (i - 1) : errs[j] # errs[i]}
           out == Loop(S, n)
           d == dedupeErrors(errs)
<1>1. n \in Nat /\ DOMAIN errs = 1 .. n /\ S \subseteq 1 .. n
  OBVIOUS
<1>2. Enumerates(out, S)
  BY <1>1, LoopEnumerates
<1>3. d = [j \in DOMAIN out |-> errs[out[j]]]
  BY DEF dedupeErrors
<1>4. \A i \in S : \A j \in 1 .. (i - 1) : errs[j] # errs[i]
  OBVIOUS
<1>5. \A i \in 1 .. n : (\A j \in 1 .. (i - 1) : errs[j] # errs[i]) => i \in S
  BY <1>1
<1> HIDE DEF out, d, S
<1>6. DOMAIN out = 1 .. Len(out) /\ Len(out) \in Nat /\ \A j \in 1 .. Len(out) : out[j] \in S
  BY <1>2, Enumerated
<1>7. \A j \in 1 .. Len(out) : d[j] = errs[out[j]] /\ errs[out[j]] \in V
  <2>1. \A i \in 1 .. n : errs[i] \in V
    OBVIOUS
  <2>2. \A j \in 1 .. Len(out) : out[j] \in 1 .. n
    BY <1>1, <1>6
  <2> QED
    BY <1>3, <1>6, <2>1, <2>2
<1>8. d \in Seq(V) /\ Len(d) = Len(out)
  <2>1. d \in [1 .. Len(out) -> V]
    BY <1>3, <1>6, <1>7
  <2> QED
    BY <1>6, <2>1
<1>9. \A j \in 1 .. Len(d) : \E i \in 1 .. n : d[j] = errs[i]
  BY <1>1, <1>6, <1>7, <1>8
<1>10. ASSUME NEW i \in 1 .. n PROVE \E j \in 1 .. Len(d) : d[j] = errs[i]
  <2> DEFINE same == {j \in 1 .. n : errs[j] = errs[i]}
  <2>1. same \subseteq Nat /\ i \in same
    OBVIOUS
  <2>2. Min(same) \in same /\ \A j \in same : Min(same) <= j
    <3> HIDE DEF same
    <3> QED
      BY <2>1, MinOfSet
  <2>3. PICK m \in same : \A j \in same : m <= j
    BY <2>2
  <2>4. m \in S
    BY <1>1, <1>5, <2>3
  <2>5. PICK j \in 1 .. Len(out) : out[j] = m
    BY <1>2, <2>4 DEF Enumerates
  <2> QED
    BY <1>7, <1>8, <2>3, <2>5
<1>11. ASSUME NEW j \in 1 .. Len(d), NEW k \in 1 .. Len(d), j < k PROVE d[j] # d[k]
  <2>1. j \in 1 .. Len(out) /\ k \in 1 .. Len(out)
    BY <1>8
  <2>2. out[j] \in S /\ out[k] \in S /\ d[j] = errs[out[j]] /\ d[k] = errs[out[k]]
    BY <1>6, <1>7, <2>1
  <2>3. out[j] < out[k]
    BY <1>2, <1>11, <2>1 DEF Enumerates
  <2>4. out[j] \in 1 .. (out[k] - 1)
    <3>1. \A a, b \in 1 .. n : a < b => a \in 1 .. (b - 1)
      BY <1>1
    <3>2. out[j] \in 1 .. n /\ out[k] \in 1 .. n
      BY <1>1, <2>2
    <3> QED
      BY <2>3, <3>1, <3>2, Zenon
  <2> QED
    BY <1>4, <2>2, <2>4
<1>12. ASSUME NEW j \in 1 .. Len(d), NEW k \in 1 .. Len(d), j # k PROVE d[j] # d[k]
  <2>1. j < k \/ k < j
    BY <1>12, <1>6, <1>8
  <2> QED
    BY <1>11, <2>1
<1> QED
  BY <1>8, <1>9, <1>10, <1>12 DEF d, SameErrors

\* One error, however often it occurs, is reported once.
LEMMA DedupedSame ==
    ASSUME NEW V, NEW errs, errs \in Seq(V), errs # <<>>,
           NEW e, \A i \in 1 .. Len(errs) : errs[i] = e
    PROVE  dedupeErrors(errs) = <<e>>
<1> DEFINE d == dedupeErrors(errs)
<1>1. /\ d \in Seq(V)
      /\ SameErrors(d, errs)
      /\ \A j, k \in 1 .. Len(d) : j # k => d[j] # d[k]
  BY DedupedErrors, Zenon
<1> HIDE DEF d
<1>2. \A j \in 1 .. Len(d) : d[j] = e
  BY <1>1 DEF SameErrors
<1>3. Len(errs) \in Nat /\ Len(errs) # 0
  OBVIOUS
<1>4. Len(d) \in Nat /\ Len(d) # 0
  BY <1>1, <1>3 DEF SameErrors
<1>5. Len(d) <= 1
  <2> SUFFICES ASSUME 1 < Len(d) PROVE FALSE
    BY <1>4
  <2>1. 1 \in 1 .. Len(d) /\ 2 \in 1 .. Len(d)
    BY <1>4
  <2> QED
    BY <1>1, <1>2, <2>1
<1>6. Len(d) = 1
  <2>1. \A l \in Nat : l # 0 /\ l <= 1 => l = 1
    OBVIOUS
  <2> QED
    BY <1>4, <1>5, <2>1, Zenon
<1>7. d = <<e>>
  BY <1>1, <1>2, <1>6
<1> QED
  BY <1>7 DEF d

LEMMA DedupedEmpty ==
    ASSUME NEW V, NEW errs, errs \in Seq(V)
    PROVE  dedupeErrors(errs) = <<>> <=> errs = <<>>
<1> DEFINE d == dedupeErrors(errs)
<1>1. d \in Seq(V) /\ SameErrors(d, errs)
  BY DedupedErrors, Zenon
<1> HIDE DEF d
<1>2. d = <<>> <=> errs = <<>>
  BY <1>1 DEF SameErrors
<1> QED
  BY <1>2 DEF d

\* collectErrors reports every failure, and nothing else.
Collected(c, ans) ==
    /\ c \in Seq(ReportedErrors(ans))
    /\ \A j \in 1 .. Len(c) : \E i \in DOMAIN ans :
           IsFailed(ans[i]) /\ c[j] = mapUpstreamError(ans[i].kind)
    /\ \A i \in DOMAIN ans : IsFailed(ans[i]) =>
           \E j \in 1 .. Len(c) : c[j] = mapUpstreamError(ans[i].kind)

LEMMA CollectedErrors ==
    ASSUME NEW ans, NEW n \in Nat, Len(ans) = n, DOMAIN ans = 1 .. n
    PROVE  Collected(collectErrors(ans), ans)
<1> DEFINE S == {i \in DOMAIN ans : IsFailed(ans[i])}
           out == Loop(S, n)
           c == collectErrors(ans)
<1>1. Enumerates(out, S)
  BY LoopEnumerates
<1>2. c = [j \in DOMAIN out |-> mapUpstreamError(ans[out[j]].kind)]
  BY DEF collectErrors
<1>3. \A i : i \in S <=> i \in DOMAIN ans /\ IsFailed(ans[i])
  OBVIOUS
<1> HIDE DEF out, c, S
<1>4. DOMAIN out = 1 .. Len(out) /\ Len(out) \in Nat /\ \A j \in 1 .. Len(out) : out[j] \in S
  BY <1>1, Enumerated
<1>5. \A j \in 1 .. Len(out) : c[j] = mapUpstreamError(ans[out[j]].kind)
  BY <1>2, <1>4
<1>6. c \in Seq(ReportedErrors(ans)) /\ Len(c) = Len(out)
  <2>1. c \in [1 .. Len(out) -> ReportedErrors(ans)]
    BY <1>2, <1>3, <1>4, ReportedMapped
  <2> QED
    BY <1>4, <2>1
<1>7. \A i \in S : \E j \in 1 .. Len(out) : out[j] = i
  BY <1>1 DEF Enumerates
<1>8. ASSUME NEW j \in 1 .. Len(c)
      PROVE  \E i \in DOMAIN ans : IsFailed(ans[i]) /\ c[j] = mapUpstreamError(ans[i].kind)
  BY <1>3, <1>4, <1>5, <1>6
<1>9. ASSUME NEW i \in DOMAIN ans, IsFailed(ans[i])
      PROVE  \E j \in 1 .. Len(c) : c[j] = mapUpstreamError(ans[i].kind)
  <2>1. PICK j \in 1 .. Len(out) : out[j] = i
    BY <1>3, <1>7, <1>9
  <2> QED
    BY <1>5, <1>6, <2>1
<1> QED
  BY <1>6, <1>8, <1>9 DEF c, Collected

\* The status the failures share is a client error they all answered with.
LEMMA SharedStatus ==
    ASSUME NEW ans, \A i \in DOMAIN ans : Promised(ans[i].kind, ans[i].status)
    PROVE  \/ sharedFailureStatus(ans) = 0
           \/ /\ sharedFailureStatus(ans) \in 400 .. 499
              /\ \A i \in DOMAIN ans : IsFailed(ans[i]) =>
                     ans[i].kind = "client_error" /\ ans[i].status = sharedFailureStatus(ans)
<1> DEFINE failed == {a \in ToSet(ans) : IsFailed(a)}
           statuses == {a.status : a \in failed}
           agreed == Cardinality(statuses) = 1 /\ \A a \in failed : a.kind = "client_error"
<1>1. sharedFailureStatus(ans) = IF agreed THEN CHOOSE s \in statuses : TRUE ELSE 0
  BY DEF sharedFailureStatus
<1>2. CASE ~agreed
  BY <1>1, <1>2
<1>3. CASE agreed
  <2>1. \A a \in failed : \E i \in DOMAIN ans : a = ans[i]
    BY DEF ToSet
  <2>2. \A a \in failed : a.status \in 400 .. 499
    BY <1>3, <2>1 DEF Promised
  <2>3. \A i \in DOMAIN ans : IsFailed(ans[i]) => ans[i] \in failed
    BY DEF ToSet
  <2> HIDE DEF failed
  <2>4. statuses \subseteq 400 .. 499
    BY <2>2
  <2> HIDE DEF statuses
  <2>5. IsFiniteSet(statuses)
    <3>1. \E n \in Nat : \A s \in statuses : s <= n
      BY <2>4
    <3>2. statuses \in SUBSET Nat
      BY <2>4
    <3> QED
      BY <3>1, <3>2, FS_BoundedSetOfNaturals, Zenon
  <2>6. PICK s : statuses = {s}
    BY <1>3, <2>5, FS_Singleton
  <2>7. sharedFailureStatus(ans) = s
    BY <1>1, <1>3, <2>6
  <2>8. \A a \in failed : a.status = s /\ a.kind = "client_error"
    BY <1>3, <2>6 DEF statuses
  <2> QED
    BY <2>3, <2>4, <2>6, <2>7, <2>8
<1> QED
  BY <1>2, <1>3

LEMMA PriorityRange == \A e : errorPriority(e) \in 0 .. 100
<1> TAKE e
<1>1. CASE e \in {"RATE_LIMIT_EXCEEDED", "UNAUTHORIZED"}
  BY <1>1 DEF errorPriority
<1>2. CASE e \in {"PAYLOAD_TOO_LARGE", "UPSTREAM_BODY_TOO_LARGE"}
  BY <1>2 DEF errorPriority
<1>3. CASE e \in {"VALUE_CONFLICT", "INTERNAL"}
  BY <1>3 DEF errorPriority
<1>4. CASE e \notin {"RATE_LIMIT_EXCEEDED", "UNAUTHORIZED", "PAYLOAD_TOO_LARGE",
                     "UPSTREAM_BODY_TOO_LARGE", "VALUE_CONFLICT", "INTERNAL"}
  BY <1>4 DEF errorPriority
<1> QED
  BY <1>1, <1>2, <1>3, <1>4

\* The primary error is one of the errors, and none is more urgent.
LEMMA PrimaryError ==
    ASSUME NEW V, NEW errs \in Seq(V), errs # <<>>
    PROVE  \E i \in 1 .. Len(errs) :
              /\ selectPrimaryError(errs) = errs[i]
              /\ \A j \in 1 .. Len(errs) : errorPriority(errs[j]) <= errorPriority(errs[i])
<1> DEFINE first(i) == \A d \in ToSet(errs) : errorPriority(d) <= errorPriority(errs[i])
           I == {i \in 1 .. Len(errs) : first(i)}
           P == {100 - errorPriority(errs[i]) : i \in 1 .. Len(errs)}
<1>1. Len(errs) \in Nat /\ 1 \in 1 .. Len(errs) /\ DOMAIN errs = 1 .. Len(errs)
  OBVIOUS
<1>2. \A i \in 1 .. Len(errs) : errorPriority(errs[i]) \in 0 .. 100
  BY PriorityRange
<1>3. P \subseteq Nat /\ P # {}
  <2>1. \A p \in 0 .. 100 : 100 - p \in Nat
    OBVIOUS
  <2> QED
    BY <1>1, <1>2, <2>1
<1>4. Min(P) \in P /\ \A p \in P : Min(P) <= p
  <2> HIDE DEF P
  <2> QED
    BY <1>3, MinOfSet
<1>5. PICK m \in 1 .. Len(errs) : Min(P) = 100 - errorPriority(errs[m])
  BY <1>4
<1>6. \A j \in 1 .. Len(errs) : 100 - errorPriority(errs[m]) <= 100 - errorPriority(errs[j])
  BY <1>4, <1>5
<1>7. \A j \in 1 .. Len(errs) : errorPriority(errs[j]) <= errorPriority(errs[m])
  <2>1. \A p, q \in 0 .. 100 : 100 - p <= 100 - q => q <= p
    OBVIOUS
  <2> QED
    BY <1>2, <1>6, <2>1, Zenon
<1>8. \A d \in ToSet(errs) : \E j \in 1 .. Len(errs) : d = errs[j]
  BY <1>1 DEF ToSet
<1>9. first(m)
  BY <1>7, <1>8
<1>10. I # {} /\ I \subseteq Nat
  BY <1>1, <1>9
<1>11. selectPrimaryError(errs) = errs[Min(I)]
  BY <1>10 DEF selectPrimaryError, SelectInSeq
<1>12. Min(I) \in I
  <2> HIDE DEF I
  <2> QED
    BY <1>10, MinOfSet
<1>13. \A j \in 1 .. Len(errs) : errs[j] \in ToSet(errs)
  BY <1>1 DEF ToSet
<1> QED
  BY <1>11, <1>12, <1>13

\* The status of a list of errors is the status of one of them.
LEMMA StatusOfErrors ==
    ASSUME NEW V, NEW errs \in Seq(V), errs # <<>>
    PROVE  \E i \in 1 .. Len(errs) : statusFromErrors(errs) = statusForError(errs[i])
  BY PrimaryError DEF statusFromErrors

LEMMA StatusOfUpstreamErrors ==
    ASSUME NEW e \in UpstreamClientErrors
    PROVE  statusForError(e) \in {500, 502, 503} /\ (statusForError(e) = 503 => e = "ABORTED")
<1>1. /\ e \notin {"RATE_LIMIT_EXCEEDED", "PAYLOAD_TOO_LARGE", "VALUE_CONFLICT", "UNAUTHORIZED"}
  BY DEF UpstreamClientErrors
<1>2. CASE e = "ABORTED"
  <2>1. statusForError(e) = 503
    BY <1>2 DEF statusForError
  <2> QED
    BY <1>2, <2>1
<1>3. CASE e = "INTERNAL"
  <2>1. statusForError(e) = 500
    BY <1>3 DEF statusForError
  <2> QED
    BY <2>1
<1>4. CASE e \notin {"ABORTED", "INTERNAL"}
  <2>1. statusForError(e) = 502
    BY <1>1, <1>4 DEF statusForError
  <2> QED
    BY <2>1
<1> QED
  BY <1>2, <1>3, <1>4

-----------------------------------------------------------------------------
(* What a result can be *)

\* The normal return of a strategy: data, and the failures best effort allows.
IsData(r, ans, agg) ==
    /\ r.form \in {"object", "array", "null"} /\ r.status = 0
    /\ r.errors \in Seq(ReportedErrors(ans))
    /\ r.partial = (r.errors # <<>> /\ \E i \in DOMAIN ans : ~IsFailed(ans[i]))
    /\ r.errors # <<>> => agg.bestEffort
    /\ r.errors = <<>> <=> \A i \in DOMAIN ans : ~Useless(ans[i], agg)

\* An early return because of failures, with the status they share if any.
IsFailure(r, ans) ==
    /\ r.form = "none" /\ r.partial = FALSE
    /\ r.errors \in Seq(ReportedErrors(ans)) /\ r.errors # <<>>
    /\ \/ r.status = 0
       \/ r.status = sharedFailureStatus(ans) /\ r.errors = <<"UPSTREAM_CLIENT_ERROR">>

\* The early return of a conflict.
IsConflict(r, agg) ==
    /\ r.form = "none" /\ r.partial = FALSE
    /\ r.errors = <<"VALUE_CONFLICT">> /\ r.status = 0
    /\ agg.strategy = "merge" /\ agg.policy = "error"

\* Answers of n upstreams, as scatter returns them.
Answered(ans, n) ==
    /\ n \in Nat /\ Len(ans) = n /\ DOMAIN ans = 1 .. n
    /\ \A i \in 1 .. n : /\ ans[i].from = i
                         /\ Promised(ans[i].kind, ans[i].status)
                         /\ ans[i].body.form # "object" => ans[i].body.keys = {}

LEMMA ResultFields ==
    \A form, content, errs, status, partial :
        LET r == Result(form, content, errs, status, partial) IN
        /\ r.form = form /\ r.content = content /\ r.errors = errs
        /\ r.status = status /\ r.partial = partial
  BY DEF Result

LEMMA ErrorResultFields ==
    \A errs, status :
        LET r == ErrorResult(errs, status) IN
        r.form = "none" /\ r.errors = errs /\ r.status = status /\ r.partial = FALSE
  BY DEF ErrorResult, Result

LEMMA SingleError ==
    ASSUME NEW V, NEW e \in V
    PROVE  <<e>> \in Seq(V) /\ <<e>> # <<>>
  OBVIOUS

LEMMA SucceedIsData ==
    ASSUME NEW ans, NEW agg, NEW form \in {"object", "array", "null"}, NEW content,
           NEW errs, errs \in Seq(ReportedErrors(ans)), NEW has,
           has = \E i \in DOMAIN ans : ~IsFailed(ans[i]),
           errs # <<>> => agg.bestEffort,
           errs = <<>> <=> \A i \in DOMAIN ans : ~Useless(ans[i], agg)
    PROVE  IsData(Succeed(form, content, errs, has), ans, agg)
<1> DEFINE d == dedupeErrors(errs)
           r == Succeed(form, content, errs, has)
<1>1. d \in Seq(ReportedErrors(ans))
  BY DedupedErrors, Zenon
<1>2. d = <<>> <=> errs = <<>>
  BY DedupedEmpty
<1>3. /\ r.form = form /\ r.errors = d /\ r.status = 0
      /\ r.partial = (errs # <<>> /\ has)
  <2>1. PICK p : p = (errs # <<>> /\ has)
    OBVIOUS
  <2>2. r = Result(form, content, d, 0, p)
    BY <2>1, Zenon DEF Succeed
  <2> HIDE DEF r, d
  <2>3. r.form = form /\ r.errors = d /\ r.status = 0 /\ r.partial = p
    BY <2>2 DEF Result
  <2> QED
    BY <2>1, <2>3, Zenon
<1> HIDE DEF d, r
<1>4. IsData(r, ans, agg)
  BY <1>1, <1>2, <1>3, Zenon DEF IsData
<1> QED
  BY <1>4 DEF r

\* What the early returns of merge and array report of the failures.
LEMMA FailuresReported ==
    ASSUME NEW ans, NEW n, Answered(ans, n), NEW i \in 1 .. n, IsFailed(ans[i]),
           NEW c, c = collectErrors(ans)
    PROVE  /\ IsFailure(ErrorResult(dedupeErrors(c), sharedFailureStatus(ans)), ans)
           /\ IsFailure(ErrorResult(<<c[1]>>, sharedFailureStatus(ans)), ans)
<1> DEFINE s == sharedFailureStatus(ans)
           d == dedupeErrors(c)
<1>1. Collected(c, ans) /\ DOMAIN ans = 1 .. n
  BY CollectedErrors DEF Answered
<1>2. c \in Seq(ReportedErrors(ans)) /\ c # <<>> /\ 1 \in 1 .. Len(c) /\ c[1] \in ReportedErrors(ans)
  BY <1>1 DEF Collected
<1>3. d \in Seq(ReportedErrors(ans)) /\ d # <<>>
  <2>1. d \in Seq(ReportedErrors(ans))
    BY <1>2, DedupedErrors, Zenon
  <2>2. d = <<>> <=> c = <<>>
    BY <1>2, DedupedEmpty
  <2> QED
    BY <1>2, <2>1, <2>2, Zenon
<1>4. ASSUME s # 0
      PROVE  \A j \in 1 .. Len(c) : c[j] = "UPSTREAM_CLIENT_ERROR"
  <2>1. \A k \in 1 .. n : IsFailed(ans[k]) => ans[k].kind = "client_error"
    BY <1>1, <1>4, SharedStatus DEF Answered
  <2>2. mapUpstreamError("client_error") = "UPSTREAM_CLIENT_ERROR"
    BY DEF mapUpstreamError
  <2>3. TAKE j \in 1 .. Len(c)
  <2>4. PICK k \in 1 .. n : IsFailed(ans[k]) /\ c[j] = mapUpstreamError(ans[k].kind)
    BY <1>1, Zenon DEF Collected
  <2> QED
    BY <2>1, <2>2, <2>4, Zenon
<1>5. s # 0 => d = <<"UPSTREAM_CLIENT_ERROR">> /\ c[1] = "UPSTREAM_CLIENT_ERROR"
  BY <1>2, <1>4, DedupedSame, Zenon
<1> HIDE DEF s, d
<1>6. <<c[1]>> \in Seq(ReportedErrors(ans)) /\ <<c[1]>> # <<>>
  BY <1>2, SingleError
<1>7. IsFailure(ErrorResult(d, s), ans)
  <2>1. PICK r : r = ErrorResult(d, s)
    OBVIOUS
  <2>2. r.form = "none" /\ r.errors = d /\ r.status = s /\ r.partial = FALSE
    BY <2>1, ErrorResultFields
  <2>3. \/ r.status = 0
        \/ r.status = sharedFailureStatus(ans) /\ r.errors = <<"UPSTREAM_CLIENT_ERROR">>
    <3>1. CASE s = 0
      BY <2>2, <3>1
    <3>2. CASE s # 0
      <4>1. r.errors = <<"UPSTREAM_CLIENT_ERROR">>
        BY <1>5, <2>2, <3>2, Zenon
      <4>2. r.status = sharedFailureStatus(ans)
        BY <2>2 DEF s
      <4> QED
        BY <4>1, <4>2
    <3> QED
      BY <3>1, <3>2
  <2>4. IsFailure(r, ans)
    BY <1>3, <2>2, <2>3 DEF IsFailure
  <2> QED
    BY <2>1, <2>4
<1>8. IsFailure(ErrorResult(<<c[1]>>, s), ans)
  <2>1. PICK e, r : e = <<c[1]>> /\ r = ErrorResult(e, s)
    OBVIOUS
  <2>2. r.form = "none" /\ r.errors = e /\ r.status = s /\ r.partial = FALSE
    BY <2>1, ErrorResultFields
  <2>3. \/ r.status = 0
        \/ r.status = sharedFailureStatus(ans) /\ r.errors = <<"UPSTREAM_CLIENT_ERROR">>
    <3>1. CASE s = 0
      BY <2>2, <3>1
    <3>2. CASE s # 0
      <4>1. r.errors = <<"UPSTREAM_CLIENT_ERROR">>
        BY <1>5, <2>1, <2>2, <3>2, Zenon
      <4>2. r.status = sharedFailureStatus(ans)
        BY <2>2 DEF s
      <4> QED
        BY <4>1, <4>2
    <3> QED
      BY <3>1, <3>2
  <2>4. e \in Seq(ReportedErrors(ans)) /\ e # <<>>
    BY <1>6, <2>1
  <2>5. IsFailure(r, ans)
    BY <2>2, <2>3, <2>4 DEF IsFailure
  <2> QED
    BY <2>1, <2>5
<1> QED
  BY <1>7, <1>8 DEF s, d

LEMMA MalformedIsFailure ==
    ASSUME NEW ans
    PROVE  IsFailure(respUpstreamMalformedError, ans) /\ IsFailure(respInternalError, ans)
<1>1. "UPSTREAM_MALFORMED" \in ReportedErrors(ans) /\ "INTERNAL" \in ReportedErrors(ans)
  BY ReportedAreErrors
<1>2. ASSUME NEW e \in ReportedErrors(ans) PROVE IsFailure(ErrorResult(<<e>>, 0), ans)
  <2>1. <<e>> \in Seq(ReportedErrors(ans)) /\ <<e>> # <<>>
    BY SingleError
  <2> QED
    BY <2>1, ErrorResultFields, Zenon DEF IsFailure
<1> QED
  BY <1>1, <1>2, Zenon DEF respUpstreamMalformedError, respInternalError

\* The loop of collectFields stops at an answer for one of the reasons it has.
LEMMA EarlyReturn ==
    ASSUME NEW ans, NEW n \in Nat, DOMAIN ans = 1 .. n, NEW agg, NEW i, i = earlyReturn(ans, agg)
    PROVE  \/ /\ i = 0
              /\ \A j \in 1 .. n : /\ agg.bestEffort \/ ~(IsFailed(ans[j]) \/ IsMalformed(ans[j]))
                                   /\ ~Conflicts(ans, j, agg)
           \/ /\ i # 0 /\ i \in 1 .. n
              /\ IsFailed(ans[i]) \/ IsMalformed(ans[i]) \/ Conflicts(ans, i, agg)
<1> DEFINE I == {j \in DOMAIN ans : \/ ~agg.bestEffort /\ (IsFailed(ans[j]) \/ IsMalformed(ans[j]))
                                    \/ Conflicts(ans, j, agg)}
<1>1. i = IF I = {} THEN 0 ELSE Min(I)
  BY DEF earlyReturn
<1>2. CASE I = {}
  BY <1>1, <1>2
<1>3. CASE I # {}
  <2>1. I \subseteq Nat
    OBVIOUS
  <2>2. Min(I) \in I
    <3> HIDE DEF I
    <3> QED
      BY <1>3, <2>1, MinOfSet
  <2> QED
    BY <1>1, <1>3, <2>2
<1> QED
  BY <1>2, <1>3

\* The merged object: its keys, their owners, and no conflict under "error".
IsMerged(r, ans, agg) ==
    /\ r.content = [k \in UNION {a.body.keys : a \in {b \in ToSet(ans) : IsObject(b)}} |->
                       ans[owner(ans, k, agg)].from]
    /\ \A j \in DOMAIN ans : ~Conflicts(ans, j, agg)

LEMMA MergedResult ==
    ASSUME NEW ans, NEW n, Answered(ans, n), NEW agg, agg.strategy = "merge"
    PROVE  \/ IsData(merged(ans, agg), ans, agg) /\ IsMerged(merged(ans, agg), ans, agg)
           \/ IsFailure(merged(ans, agg), ans)
           \/ IsConflict(merged(ans, agg), agg)
<1> DEFINE i == earlyReturn(ans, agg)
           B == {j \in DOMAIN ans : IsFailed(ans[j]) \/ IsMalformed(ans[j])}
           bad == Loop(B, Len(ans))
           errs == [j \in DOMAIN bad |-> IF IsFailed(ans[bad[j]])
                                         THEN mapUpstreamError(ans[bad[j]].kind)
                                         ELSE "UPSTREAM_MALFORMED"]
           keys == UNION {a.body.keys : a \in {b \in ToSet(ans) : IsObject(b)}}
           fields == [k \in keys |-> ans[owner(ans, k, agg)].from]
           has == \E a \in ToSet(ans) : ~IsFailed(a)
           failures == ErrorResult(dedupeErrors(collectErrors(ans)), sharedFailureStatus(ans))
           data == Succeed("object", fields, errs, has)
           r == merged(ans, agg)
<1>1. n \in Nat /\ DOMAIN ans = 1 .. n /\ Len(ans) = n
  BY DEF Answered
<1>2. r = CASE i # 0 /\ IsFailed(ans[i])    -> failures
            [] i # 0 /\ IsMalformed(ans[i]) -> respUpstreamMalformedError
            [] i # 0 /\ IsObject(ans[i])    -> ErrorResult(<<"VALUE_CONFLICT">>, 0)
            [] i = 0                        -> data
  BY DEF merged
<1>3. \A a : ~(IsFailed(a) /\ IsMalformed(a)) /\ ~(IsFailed(a) /\ IsObject(a))
  BY DEF IsMalformed, IsObject
<1>4. \A a : ~(IsMalformed(a) /\ IsObject(a))
  BY DEF IsMalformed, IsObject
<1>5. \/ /\ i = 0
         /\ \A j \in 1 .. n : /\ agg.bestEffort \/ ~(IsFailed(ans[j]) \/ IsMalformed(ans[j]))
                              /\ ~Conflicts(ans, j, agg)
      \/ /\ i # 0 /\ i \in 1 .. n
         /\ IsFailed(ans[i]) \/ IsMalformed(ans[i]) \/ Conflicts(ans, i, agg)
  BY <1>1, EarlyReturn
<1>6. ASSUME NEW j, Conflicts(ans, j, agg) PROVE IsObject(ans[j]) /\ agg.policy = "error"
  BY <1>6 DEF Conflicts
<1> HIDE DEF i, failures, data
<1>7. CASE i # 0 /\ IsFailed(ans[i])
  <2>1. r = failures
    <3> HIDE DEF r
    <3> QED
      BY <1>2, <1>3, <1>7, Zenon
  <2>2. IsFailure(failures, ans)
    BY <1>5, <1>7, FailuresReported, Zenon DEF failures
  <2> QED
    BY <2>1, <2>2, Zenon
<1>8. CASE i # 0 /\ IsMalformed(ans[i])
  <2>1. r = respUpstreamMalformedError
    <3> HIDE DEF r
    <3> QED
      BY <1>2, <1>3, <1>4, <1>8, Zenon
  <2> QED
    BY <2>1, MalformedIsFailure, Zenon
<1>9. CASE i # 0 /\ ~IsFailed(ans[i]) /\ ~IsMalformed(ans[i])
  <2>1. IsObject(ans[i]) /\ agg.policy = "error"
    BY <1>5, <1>6, <1>9, Zenon
  <2>2. r = ErrorResult(<<"VALUE_CONFLICT">>, 0)
    <3> HIDE DEF r
    <3> QED
      BY <1>2, <1>9, <2>1, Zenon
  <2> HIDE DEF r
  <2>3. IsConflict(r, agg)
    BY <2>1, <2>2, ErrorResultFields, Zenon DEF IsConflict
  <2> QED
    BY <2>3 DEF r
<1>10. CASE i = 0
  <2>1. r = data
    <3> HIDE DEF r
    <3> QED
      BY <1>2, <1>10, Zenon
  <2>2. Enumerates(bad, B)
    BY <1>1, LoopEnumerates
  <2> HIDE DEF bad
  <2>3. DOMAIN bad = 1 .. Len(bad) /\ Len(bad) \in Nat /\ \A j \in 1 .. Len(bad) : bad[j] \in B
    <3> HIDE DEF B
    <3> QED
      BY <2>2, Enumerated
  <2>4. errs \in Seq(ReportedErrors(ans)) /\ Len(errs) = Len(bad)
    <3>1. "UPSTREAM_MALFORMED" \in ReportedErrors(ans)
      BY ReportedAreErrors
    <3>2. errs \in [1 .. Len(bad) -> ReportedErrors(ans)]
      BY <2>3, <3>1, ReportedMapped
    <3> QED
      BY <2>3, <3>2
  <2>5. errs # <<>> => agg.bestEffort
    <3> HAVE errs # <<>>
    <3>1. 1 \in 1 .. Len(bad)
      BY <2>3, <2>4
    <3>2. bad[1] \in 1 .. n /\ (IsFailed(ans[bad[1]]) \/ IsMalformed(ans[bad[1]]))
      BY <1>1, <2>3, <3>1
    <3> QED
      BY <1>5, <1>10, <3>2
  <2>6. errs = <<>> <=> \A j \in DOMAIN ans : ~Useless(ans[j], agg)
    <3>1. errs = <<>> <=> Len(bad) = 0
      BY <2>4
    <3>2. Len(bad) = 0 <=> B = {}
      <4> HIDE DEF B
      <4> QED
        BY <2>2, <2>3 DEF Enumerates
    <3>3. B = {} <=> \A j \in DOMAIN ans : ~Useless(ans[j], agg)
      BY DEF Useless
    <3> QED
      BY <3>1, <3>2, <3>3
  <2>7. has = \E j \in DOMAIN ans : ~IsFailed(ans[j])
    BY Zenon DEF ToSet
  <2> HIDE DEF errs, has, fields
  <2>8. IsData(data, ans, agg)
    BY <2>4, <2>5, <2>6, <2>7, SucceedIsData, Zenon DEF data
  <2>9. data.content = fields
    BY DEF data, Succeed, Result
  <2>10. IsMerged(data, ans, agg)
    BY <1>1, <1>5, <1>10, <2>9, Zenon DEF IsMerged, fields
  <2> QED
    BY <2>1, <2>8, <2>10, Zenon
<1> QED
  BY <1>7, <1>8, <1>9, <1>10

\* The array: the bodies of the successful upstreams that sent one, in order.
IsArrayed(r, ans) ==
    LET S == {i \in DOMAIN ans : ~IsFailed(ans[i]) /\ ans[i].body.form # "empty"}
    IN  Enumerates(r.content, S)

LEMMA ArrayedResult ==
    ASSUME NEW ans, NEW n, Answered(ans, n), NEW agg, agg.strategy # "merge"
    PROVE  \/ IsData(arrayed(ans, agg), ans, agg) /\ IsArrayed(arrayed(ans, agg), ans)
           \/ IsFailure(arrayed(ans, agg), ans)
<1> DEFINE errs == collectErrors(ans)
           S == {i \in DOMAIN ans : ~IsFailed(ans[i]) /\ ans[i].body.form # "empty"}
           arr == Loop(S, Len(ans))
           from == [j \in 1 .. Len(arr) |-> ans[arr[j]].from]
           form == IF arr = <<>> THEN "null" ELSE "array"
           has == \E a \in ToSet(ans) : ~IsFailed(a)
           failures == ErrorResult(dedupeErrors(errs), sharedFailureStatus(ans))
           data == Succeed(form, from, errs, has)
           r == arrayed(ans, agg)
           invalid == \E i \in ToSet(arr) : ans[i].body.form = "invalid"
<1>1. n \in Nat /\ DOMAIN ans = 1 .. n /\ Len(ans) = n
  BY DEF Answered
<1>2. r = IF errs # <<>> /\ ~agg.bestEffort THEN failures
          ELSE IF invalid THEN respUpstreamMalformedError
          ELSE data
  BY DEF arrayed
<1>3. Collected(errs, ans)
  BY <1>1, CollectedErrors
<1>4. has = \E j \in DOMAIN ans : ~IsFailed(ans[j])
  BY Zenon DEF ToSet
<1>5. Enumerates(arr, S)
  BY <1>1, LoopEnumerates
<1>6. \A i \in S : i \in 1 .. n
  BY <1>1
<1> HIDE DEF errs, arr, has, failures, data, r, invalid, S
<1>7. CASE errs # <<>> /\ ~agg.bestEffort
  <2>1. \E i \in 1 .. n : IsFailed(ans[i])
    BY <1>1, <1>3, <1>7 DEF Collected
  <2>2. IsFailure(failures, ans)
    BY <2>1, FailuresReported, Zenon DEF failures, errs
  <2> QED
    BY <1>2, <1>7, <2>2, Zenon DEF r
<1>8. CASE ~(errs # <<>> /\ ~agg.bestEffort) /\ invalid
  BY <1>2, <1>8, MalformedIsFailure, Zenon DEF r
<1>9. CASE ~(errs # <<>> /\ ~agg.bestEffort) /\ ~invalid
  <2>1. errs \in Seq(ReportedErrors(ans))
    BY <1>3, Zenon DEF Collected
  <2>2. errs = <<>> <=> \A j \in DOMAIN ans : ~Useless(ans[j], agg)
    BY <1>3 DEF Collected, Useless
  <2>3. form \in {"object", "array", "null"}
    OBVIOUS
  <2> HIDE DEF form
  <2>4. IsData(data, ans, agg)
    BY <1>4, <1>9, <2>1, <2>2, <2>3, SucceedIsData, Zenon DEF data
  <2>5. DOMAIN arr = 1 .. Len(arr) /\ Len(arr) \in Nat /\ \A j \in 1 .. Len(arr) : arr[j] \in S
    BY <1>5, Enumerated
  <2>6. \A j \in 1 .. Len(arr) : from[j] = arr[j]
    BY <1>6, <2>5 DEF Answered
  <2>7. from = arr
    BY <2>5, <2>6, <1>5 DEF Enumerates
  <2> HIDE DEF from
  <2>8. data.content = from
    BY DEF data, Succeed, Result
  <2>9. IsArrayed(data, ans)
    BY <1>5, <2>7, <2>8, Zenon DEF IsArrayed, S
  <2> QED
    BY <1>2, <1>9, <2>4, <2>9, Zenon DEF r
<1> QED
  BY <1>7, <1>8, <1>9

\* The last of an enumeration is its largest.
LEMMA LastEnumerated ==
    ASSUME NEW n \in Nat, NEW S, S \subseteq 1 .. n, S # {}, NEW s, Enumerates(s, S)
    PROVE  Last(s) \in S /\ \A x \in S : x <= Last(s)
<1>1. PICK l : l = Len(s)
  OBVIOUS
<1>2. l \in Nat /\ \A j \in 1 .. l : s[j] \in S
  BY <1>1, Enumerated, Zenon
<1>3. \A x \in S : \E j \in 1 .. l : s[j] = x
  BY <1>1, Zenon DEF Enumerates
<1>4. \A j, k \in 1 .. l : j < k => s[j] < s[k]
  BY <1>1, Zenon DEF Enumerates
<1>5. l \in 1 .. l
  <2>1. PICK j : j \in 1 .. l
    BY <1>3, Zenon
  <2> QED
    BY <1>2, <2>1
<1>6. Last(s) = s[l]
  BY <1>1 DEF Last
<1>7. \A x \in S : x \in Nat
  OBVIOUS
<1>8. ASSUME NEW x \in S PROVE x <= s[l]
  <2>1. PICK j \in 1 .. l : s[j] = x
    BY <1>3
  <2>2. s[l] \in Nat /\ x \in Nat
    BY <1>2, <1>5, <1>7, Zenon
  <2>3. CASE j = l
    BY <2>1, <2>2, <2>3
  <2>4. CASE j # l
    <3>1. j < l
      BY <1>2, <2>4
    <3>2. s[j] < s[l]
      BY <1>4, <1>5, <3>1, Zenon
    <3> QED
      BY <2>1, <2>2, <3>2
  <2> QED
    BY <2>3, <2>4
<1> QED
  BY <1>2, <1>5, <1>6, <1>8

\* The namespaced object: a name has the body of its last successful upstream.
IsNamespaced(r, names, ans) ==
    LET oks == {i \in DOMAIN ans : ~IsFailed(ans[i])} IN
    /\ r.content = [n \in {names[i] : i \in oks} |-> r.content[n]]
    /\ \A n \in {names[i] : i \in oks} : \E last \in {i \in oks : names[i] = n} :
          /\ \A i \in {i \in oks : names[i] = n} : i <= last
          /\ r.content[n] = IF ans[last].body.form # "empty" THEN last ELSE Null

LEMMA NamespacedResult ==
    ASSUME NEW ans, NEW n, Answered(ans, n), NEW agg, agg.strategy # "merge", NEW names
    PROVE  \/ /\ IsData(namespaced(names, ans, agg), ans, agg)
              /\ IsNamespaced(namespaced(names, ans, agg), names, ans)
           \/ IsFailure(namespaced(names, ans, agg), ans)
<1> DEFINE errs == collectErrors(ans)
           oks == {i \in DOMAIN ans : ~IsFailed(ans[i])}
           D == {names[i] : i \in oks}
           Of(m) == {i \in oks : names[i] = m}
           last(m) == Last(Loop(Of(m), Len(ans)))
           result == [m \in D |-> ans[last(m)]]
           content == [m \in DOMAIN result |->
                          IF result[m].body.form = "empty" THEN Null ELSE result[m].from]
           has == oks # {}
           failures == ErrorResult(<<errs[1]>>, sharedFailureStatus(ans))
           invalid == \E m \in DOMAIN result : result[m].body.form = "invalid"
           data == Succeed("object", content, errs, has)
           r == namespaced(names, ans, agg)
<1>1. n \in Nat /\ DOMAIN ans = 1 .. n /\ Len(ans) = n
  BY DEF Answered
<1>2. r = IF errs # <<>> /\ ~agg.bestEffort THEN failures
          ELSE IF invalid THEN respInternalError
          ELSE data
  BY DEF namespaced
<1>3. Collected(errs, ans)
  BY <1>1, CollectedErrors
<1>4. has = \E j \in DOMAIN ans : ~IsFailed(ans[j])
  OBVIOUS
<1>5. ASSUME NEW m \in D
      PROVE  last(m) \in Of(m) /\ \A i \in Of(m) : i <= last(m)
  <2>1. Of(m) \subseteq 1 .. n /\ Of(m) # {}
    BY <1>1
  <2> HIDE DEF Of
  <2>2. Enumerates(Loop(Of(m), n), Of(m))
    BY <1>1, <2>1, LoopEnumerates
  <2> QED
    BY <1>1, <2>1, <2>2, LastEnumerated
<1>6. \A m : \A i \in Of(m) : i \in 1 .. n
  BY <1>1
<1>7. DOMAIN result = D /\ \A m \in D : result[m] = ans[last(m)]
  OBVIOUS
<1>8. content = [m \in D |-> IF result[m].body.form = "empty" THEN Null ELSE result[m].from]
  BY <1>7
<1> HIDE DEF errs, failures, data, r, invalid, has, last, content, result
<1>9. CASE errs # <<>> /\ ~agg.bestEffort
  <2>1. \E i \in 1 .. n : IsFailed(ans[i])
    BY <1>1, <1>3, <1>9 DEF Collected
  <2>2. IsFailure(failures, ans)
    BY <2>1, FailuresReported, Zenon DEF failures, errs
  <2> QED
    BY <1>2, <1>9, <2>2, Zenon DEF r
<1>10. CASE ~(errs # <<>> /\ ~agg.bestEffort) /\ invalid
  BY <1>2, <1>10, MalformedIsFailure, Zenon DEF r
<1>11. CASE ~(errs # <<>> /\ ~agg.bestEffort) /\ ~invalid
  <2>1. errs \in Seq(ReportedErrors(ans))
    BY <1>3, Zenon DEF Collected
  <2>2. errs = <<>> <=> \A j \in DOMAIN ans : ~Useless(ans[j], agg)
    BY <1>3 DEF Collected, Useless
  <2>3. "object" \in {"object", "array", "null"}
    OBVIOUS
  <2>4. IsData(data, ans, agg)
    BY <1>4, <1>11, <2>1, <2>2, <2>3, SucceedIsData, Zenon DEF data
  <2>5. data.content = content
    BY DEF data, Succeed, Result
  <2>6. ASSUME NEW m \in D
        PROVE  /\ last(m) \in Of(m) /\ \A i \in Of(m) : i <= last(m)
               /\ content[m] = IF ans[last(m)].body.form # "empty" THEN last(m) ELSE Null
    <3>1. last(m) \in 1 .. n /\ last(m) \in Of(m) /\ \A i \in Of(m) : i <= last(m)
      BY <1>5, <1>6
    <3>2. ans[last(m)].from = last(m)
      BY <3>1 DEF Answered
    <3>3. content[m] = IF ans[last(m)].body.form = "empty" THEN Null ELSE ans[last(m)].from
      BY <1>7, <1>8
    <3> QED
      BY <3>1, <3>2, <3>3
  <2>7. content = [m \in D |-> content[m]]
    BY <1>8
  <2>8. IsNamespaced(data, names, ans)
    BY <2>5, <2>6, <2>7, Zenon DEF IsNamespaced
  <2> QED
    BY <1>2, <1>11, <2>4, <2>8, Zenon DEF r
<1> QED
  BY <1>9, <1>10, <1>11

\* Data is what its strategy is for.
IsRightData(r, names, ans, agg) ==
    /\ agg.strategy = "merge" => IsMerged(r, ans, agg)
    /\ agg.strategy = "array" => IsArrayed(r, ans)
    /\ agg.strategy = "namespace" => IsNamespaced(r, names, ans)

LEMMA AggregatedResult ==
    ASSUME NEW ans, NEW n, Answered(ans, n), NEW agg, agg.strategy \in Strategies, NEW names
    PROVE  \/ /\ IsData(aggregate(names, ans, agg), ans, agg)
              /\ IsRightData(aggregate(names, ans, agg), names, ans, agg)
           \/ IsFailure(aggregate(names, ans, agg), ans)
           \/ IsConflict(aggregate(names, ans, agg), agg)
<1>1. /\ "merge" # "array" /\ "merge" # "namespace" /\ "array" # "namespace"
      /\ agg.strategy = "merge" \/ agg.strategy = "array" \/ agg.strategy = "namespace"
  BY DEF Strategies
<1>2. CASE agg.strategy = "merge"
  <2>1. aggregate(names, ans, agg) = merged(ans, agg)
    BY <1>1, <1>2, Zenon DEF aggregate
  <2> QED
    BY <1>1, <1>2, <2>1, MergedResult, Zenon DEF IsRightData
<1>3. CASE agg.strategy = "array"
  <2>1. aggregate(names, ans, agg) = arrayed(ans, agg)
    BY <1>1, <1>3, Zenon DEF aggregate
  <2> QED
    BY <1>1, <1>3, <2>1, ArrayedResult, Zenon DEF IsRightData
<1>4. CASE agg.strategy = "namespace"
  <2>1. aggregate(names, ans, agg) = namespaced(names, ans, agg)
    BY <1>1, <1>4, Zenon DEF aggregate
  <2> QED
    BY <1>1, <1>4, <2>1, NamespacedResult, Zenon DEF IsRightData
<1> QED
  BY <1>1, <1>2, <1>3, <1>4

-----------------------------------------------------------------------------
(* What a response can be *)

Complete(p, ans, agg) ==
    p.status = 200 /\ p.body = "data" /\ p.result.errors = <<>> /\ IsData(p.result, ans, agg)

Partial(p, ans, agg) ==
    /\ p.status = 206 /\ p.body = "data" /\ p.result.errors # <<>> /\ agg.bestEffort
    /\ IsData(p.result, ans, agg) /\ \E i \in DOMAIN ans : ~IsFailed(ans[i])

Unavailable(p) ==
    /\ p.status \in {500, 502, 503} /\ p.body = "problem" /\ p.result.errors # <<>>
    /\ p.status = 503 => "ABORTED" \in ToSet(p.result.errors)
    /\ p.result.errors # <<"VALUE_CONFLICT">>

Shared(p, ans) ==
    /\ p.status \in 400 .. 499 /\ p.body = "problem"
    /\ p.result.errors = <<"UPSTREAM_CLIENT_ERROR">> /\ p.status = sharedFailureStatus(ans)

Conflict(p, agg) ==
    /\ p.status = 409 /\ p.body = "problem" /\ p.result.errors = <<"VALUE_CONFLICT">>
    /\ agg.strategy = "merge" /\ agg.policy = "error"

\* The five responses of an aggregating flow.
Outcome(p, ans, agg) ==
    \/ Complete(p, ans, agg) \/ Partial(p, ans, agg) \/ Unavailable(p)
    \/ Shared(p, ans) \/ Conflict(p, agg)

LEMMA ErrorsUnavailable ==
    ASSUME NEW errs, errs \in Seq(UpstreamClientErrors), errs # <<>>
    PROVE  /\ statusFromErrors(errs) \in {500, 502, 503}
           /\ statusFromErrors(errs) = 503 => "ABORTED" \in ToSet(errs)
           /\ errs # <<"VALUE_CONFLICT">>
<1>1. PICK i \in 1 .. Len(errs) : statusFromErrors(errs) = statusForError(errs[i])
  BY StatusOfErrors
<1>2. errs[i] \in UpstreamClientErrors /\ i \in DOMAIN errs
  BY <1>1
<1>3. /\ statusForError(errs[i]) \in {500, 502, 503}
      /\ statusForError(errs[i]) = 503 => errs[i] = "ABORTED"
  BY <1>2, StatusOfUpstreamErrors
<1>4. errs[i] \in ToSet(errs)
  BY <1>2, Zenon DEF ToSet
<1>5. errs # <<"VALUE_CONFLICT">>
  <2> SUFFICES ASSUME errs = <<"VALUE_CONFLICT">> PROVE FALSE
    OBVIOUS
  <2>1. errs[1] = "VALUE_CONFLICT" /\ errs[1] \in UpstreamClientErrors
    OBVIOUS
  <2> QED
    BY <2>1 DEF UpstreamClientErrors
<1> QED
  BY <1>1, <1>3, <1>4, <1>5

LEMMA ResponseFields ==
    \A status, body, result :
        LET p == Response(status, body, result)
        IN  p.status = status /\ p.body = body /\ p.result = result
  BY DEF Response

LEMMA PlainFields ==
    \A status, body : Plain(status, body).status = status /\ Plain(status, body).body = body
  BY ResponseFields DEF Plain

\* buildResponse, for each of the results.
LEMMA BuiltResponse ==
    ASSUME NEW ans, NEW n, Answered(ans, n), NEW agg, NEW r,
           IsData(r, ans, agg) \/ IsFailure(r, ans) \/ IsConflict(r, agg)
    PROVE  Outcome(buildResponse(r), ans, agg) /\ buildResponse(r).result = r
<1> DEFINE p == buildResponse(r)
           s == resolveStatus(r)
<1>1. /\ p.status = s /\ p.result = r
      /\ p.body = IF s \in {204, 304} THEN "none"
                  ELSE IF r.errors # <<>> /\ ~r.partial THEN "problem" ELSE "data"
  BY ResponseFields DEF buildResponse
<1>2. s = IF r.partial THEN 206 ELSE IF r.status # 0 THEN r.status ELSE statusFromErrors(r.errors)
  BY DEF resolveStatus
<1> HIDE DEF p, s
<1>3. ASSUME r.errors \in Seq(ReportedErrors(ans)), r.errors # <<>>, ~r.partial, r.status = 0
      PROVE  Unavailable(p)
  <2>1. /\ s \in {500, 502, 503}
        /\ s = 503 => "ABORTED" \in ToSet(r.errors)
        /\ r.errors # <<"VALUE_CONFLICT">>
    <3>1. s = statusFromErrors(r.errors)
      BY <1>2, <1>3
    <3>2. PICK errs : errs = r.errors
      OBVIOUS
    <3>3. errs \in Seq(UpstreamClientErrors) /\ errs # <<>>
      BY <1>3, <3>2, ReportedAreErrors, Zenon
    <3>4. /\ statusFromErrors(errs) \in {500, 502, 503}
          /\ statusFromErrors(errs) = 503 => "ABORTED" \in ToSet(errs)
          /\ errs # <<"VALUE_CONFLICT">>
      BY <3>3, ErrorsUnavailable
    <3> QED
      BY <3>1, <3>2, <3>4
  <2>2. s \notin {204, 304}
    BY <2>1
  <2> QED
    BY <1>1, <1>3, <2>1, <2>2 DEF Unavailable
<1>4. CASE IsData(r, ans, agg)
  <2>1. r.status = 0 /\ r.errors \in Seq(ReportedErrors(ans)) /\ r.partial \in BOOLEAN
    BY <1>4, Zenon DEF IsData
  <2>2. CASE r.partial
    <3>1. s = 206 /\ 206 \notin {204, 304}
      BY <1>2, <2>2
    <3>2. r.errors # <<>> /\ agg.bestEffort /\ \E i \in DOMAIN ans : ~IsFailed(ans[i])
      BY <1>4, <2>2, Zenon DEF IsData
    <3>3. Partial(p, ans, agg)
      BY <1>1, <1>4, <2>2, <3>1, <3>2 DEF Partial
    <3> QED
      BY <1>1, <3>3, Zenon DEF Outcome, p
  <2>3. CASE ~r.partial /\ r.errors = <<>>
    <3>1. s = 200 /\ 200 \notin {204, 304}
      BY <1>2, <2>1, <2>3 DEF statusFromErrors
    <3>2. Complete(p, ans, agg)
      BY <1>1, <1>4, <2>3, <3>1 DEF Complete
    <3> QED
      BY <1>1, <3>2, Zenon DEF Outcome, p
  <2>4. CASE ~r.partial /\ r.errors # <<>>
    BY <1>1, <1>3, <2>1, <2>4, Zenon DEF Outcome, p
  <2> QED
    BY <2>2, <2>3, <2>4
<1>5. CASE IsFailure(r, ans)
  <2>1. ~r.partial /\ r.errors \in Seq(ReportedErrors(ans)) /\ r.errors # <<>>
    BY <1>5, Zenon DEF IsFailure
  <2>2. CASE r.status = 0
    BY <1>1, <1>3, <2>1, <2>2, Zenon DEF Outcome, p
  <2>3. CASE r.status # 0
    <3>1. r.status = sharedFailureStatus(ans) /\ r.errors = <<"UPSTREAM_CLIENT_ERROR">>
      BY <1>5, <2>3, Zenon DEF IsFailure
    <3>2. s = sharedFailureStatus(ans)
      BY <1>2, <2>1, <2>3, <3>1, Zenon
    <3>3. s \in 400 .. 499
      BY <2>3, <3>1, <3>2, SharedStatus DEF Answered
    <3>4. s \notin {204, 304}
      BY <3>3
    <3>5. Shared(p, ans)
      BY <1>1, <2>1, <3>1, <3>2, <3>3, <3>4, ZenonT(40) DEF Shared
    <3> QED
      BY <1>1, <3>5, Zenon DEF Outcome, p
  <2> QED
    BY <2>2, <2>3
<1>6. CASE IsConflict(r, agg)
  <2>1. ~r.partial /\ r.errors = <<"VALUE_CONFLICT">> /\ r.status = 0
    BY <1>6, Zenon DEF IsConflict
  <2>2. r.errors # <<>> /\ r.errors \in Seq({"VALUE_CONFLICT"}) /\ Len(r.errors) = 1
    BY <2>1
  <2>3. statusFromErrors(r.errors) = statusForError("VALUE_CONFLICT")
    <3>1. PICK i \in 1 .. Len(r.errors) : statusFromErrors(r.errors) = statusForError(r.errors[i])
      BY <2>2, StatusOfErrors
    <3>2. r.errors[i] = "VALUE_CONFLICT"
      BY <2>2, <3>1
    <3> QED
      BY <3>1, <3>2, Zenon
  <2>4. s = 409
    <3>1. statusForError("VALUE_CONFLICT") = 409
      BY DEF statusForError
    <3> QED
      BY <1>2, <2>1, <2>3, <3>1
  <2>5. s \notin {204, 304}
    BY <2>4
  <2>6. Conflict(p, agg)
    BY <1>1, <1>6, <2>1, <2>2, <2>4, <2>5 DEF Conflict, IsConflict
  <2> QED
    BY <1>1, <2>6, Zenon DEF Outcome, p
<1> QED
  BY <1>4, <1>5, <1>6

-----------------------------------------------------------------------------
(* The request pipeline *)

\* Every upstream has answered, and each answer is in its own place.
AllAnswered == \A i \in DOMAIN answers : \E a \in Answers : answers[i] = From(i, a)

\* dispatch has built the response from these answers.
Dispatched ==
    /\ ~flow.streaming /\ AllAnswered
    /\ Len(answers) = 1 => response = buildProxyResponse(answers[1])
    /\ Len(answers) > 1 => response = buildResponse(aggregate(flow.names, answers, flow.aggregation))

\* The responses that come from somewhere else.
Streamed(r) == \E s \in StreamStatuses : r = Plain(s, "upstream")
Refusal(r) ==
    \/ r = Problem("RATE_LIMIT_EXCEEDED", 429)
    \/ r = Plain(404, "text")
    \/ \E s \in {405, 204, 403} : r = Plain(s, "none")
    \/ r = Problem("UNAUTHORIZED", 401) /\ flow \in AuthFlows
    \/ r = Problem("INTERNAL", 500)
    \/ r = Problem("PAYLOAD_TOO_LARGE", 413) /\ ~flow.streaming
    \/ r = Problem("UPSTREAM_UNAVAILABLE", 502)

\* The inductive invariant of the pipeline: answers never change places while
\* goroutines are running, and response and reply say where they come from.
PipelineInv ==
    /\ flow \in Flows /\ pc \in PCs
    /\ answers = [i \in 1 .. Len(flow.names) |-> answers[i]]
    /\ \A i \in 1 .. Len(flow.names) :
          answers[i] \in {NoAnswer} \union {From(j, a) : j \in 1 .. Len(flow.names), a \in Answers}
    /\ running \subseteq 1 .. Len(flow.names)
    /\ pc # "scatter" => running = {}
    /\ pc \in {"read_body", "scatter", "response_plugins"} => ~flow.streaming
    /\ pc = "scatter" => \A i \in DOMAIN answers \ running : \E a \in Answers : answers[i] = From(i, a)
    /\ pc = "response_plugins" => Dispatched
    /\ response = NoResponse \/ (pc \in {"response_plugins", "done"} /\ Dispatched)
    /\ pc \notin {"copy", "done"} => reply = <<>>
    /\ pc = "copy" => \E r : reply = <<r>> /\ Streamed(r)
    /\ pc = "done" => \E r : reply = <<r>> /\ (Refusal(r) \/ Streamed(r) \/ (r = response /\ Dispatched))

LEMMA AppendIsSingle == \A r : Append(<<>>, r) = <<r>>
  OBVIOUS

LEMMA PipelineInit == Init => PipelineInv
<1> SUFFICES ASSUME Init PROVE PipelineInv
  OBVIOUS
<1>1. flow \in Flows /\ pc = "idle" /\ running = {} /\ response = NoResponse /\ reply = <<>>
  BY DEF Init
<1>2. answers = [i \in 1 .. Len(flow.names) |-> NoAnswer]
  BY DEF Init
<1>3. /\ answers = [i \in 1 .. Len(flow.names) |-> answers[i]]
      /\ \A i \in 1 .. Len(flow.names) :
          answers[i] \in {NoAnswer} \union {From(j, a) : j \in 1 .. Len(flow.names), a \in Answers}
  BY <1>2
<1>4. /\ pc \in PCs /\ pc \notin {"read_body", "scatter", "response_plugins"}
      /\ pc \notin {"copy", "done"} /\ pc # "copy" /\ pc # "done"
      /\ pc # "scatter" /\ pc # "response_plugins" /\ running \subseteq 1 .. Len(flow.names)
  BY <1>1 DEF PCs
<1> QED
  BY <1>1, <1>3, <1>4 DEF PipelineInv

LEMMA PipelineNext == PipelineInv /\ [Next]_vars => PipelineInv'
<1> SUFFICES ASSUME PipelineInv, [Next]_vars PROVE PipelineInv'
  OBVIOUS
<1> USE DEF PCs
<1>1. ASSUME UNCHANGED <<flow, answers, response>> PROVE Dispatched' <=> Dispatched
  BY <1>1 DEF Dispatched, AllAnswered
<1>2. ASSUME UNCHANGED flow PROVE \A r : (Refusal(r)' <=> Refusal(r)) /\ (Streamed(r)' <=> Streamed(r))
  BY <1>2 DEF Refusal, Streamed
<1>3. \A r : Append(<<>>, r) = <<r>>
  BY AppendIsSingle
<1>4. ASSUME UNCHANGED <<flow, answers, running, response>>, pc # "scatter", pc' # "scatter",
             pc' \in PCs,
             pc' \in {"read_body", "response_plugins"} => ~flow.streaming,
             pc' # "response_plugins",
             response = NoResponse \/ pc' = "done",
             pc' \notin {"copy", "done"} => reply' = <<>>,
             pc' = "copy" => \E r : reply' = <<r>> /\ Streamed(r),
             pc' = "done" => \E r : reply' = <<r>> /\ (Refusal(r) \/ Streamed(r) \/ (r = response /\ Dispatched))
      PROVE  PipelineInv'
  <2>1. /\ flow' \in Flows /\ pc' \in PCs
        /\ answers' = [i \in 1 .. Len(flow'.names) |-> answers'[i]]
        /\ \A i \in 1 .. Len(flow'.names) :
              answers'[i] \in {NoAnswer} \union {From(j, a) : j \in 1 .. Len(flow'.names), a \in Answers}
        /\ running' \subseteq 1 .. Len(flow'.names)
    BY <1>4 DEF PipelineInv
  <2>2. /\ running' = {} /\ pc' # "scatter" /\ pc' # "response_plugins"
        /\ pc' = "read_body" => ~flow'.streaming
        /\ pc' \notin {"copy", "done"} => reply' = <<>>
    BY <1>4 DEF PipelineInv
  <2>3. response' = NoResponse \/ (pc' = "done" /\ Dispatched')
    BY <1>1, <1>4 DEF PipelineInv
  <2>4. pc' = "copy" => \E r : reply' = <<r>> /\ Streamed(r)'
    BY <1>2, <1>4, Zenon
  <2>5. pc' = "done" =>
            \E r : reply' = <<r>> /\ (Refusal(r)' \/ Streamed(r)' \/ (r = response' /\ Dispatched'))
    BY <1>1, <1>2, <1>4, Zenon
  <2> QED
    BY <2>1, <2>2, <2>3, <2>4, <2>5 DEF PipelineInv
<1>5. CASE Begin
  <2>1. /\ pc' = "limit" /\ response' = NoResponse /\ reply' = <<>>
        /\ UNCHANGED <<flow, running>> /\ pc \in {"idle", "done"}
    BY <1>5 DEF Begin
  <2>2. answers' = [i \in 1 .. Len(flow.names) |-> NoAnswer]
    BY <1>5 DEF Begin, PipelineInv
  <2>3. /\ answers' = [i \in 1 .. Len(flow.names) |-> answers'[i]]
        /\ \A i \in 1 .. Len(flow.names) :
            answers'[i] \in {NoAnswer} \union {From(j, a) : j \in 1 .. Len(flow.names), a \in Answers}
    BY <2>2
  <2> QED
    BY <2>1, <2>3 DEF PipelineInv
<1>6. CASE Limit
  <2>1. /\ UNCHANGED <<flow, answers, running, response>> /\ pc = "limit"
        /\ reply = <<>> /\ response = NoResponse
    BY <1>6 DEF Limit, PipelineInv, Goto
  <2>2. \/ pc' = "route" /\ reply' = reply
        \/ pc' = "done" /\ reply' = Append(reply, Problem("RATE_LIMIT_EXCEEDED", 429))
    BY <1>6 DEF Limit, Goto, Write
  <2> QED
    BY <1>3, <1>4, <2>1, <2>2 DEF Refusal
<1>7. CASE Route
  <2>1. /\ UNCHANGED <<flow, answers, running, response>> /\ pc = "route"
        /\ reply = <<>> /\ response = NoResponse
    BY <1>7 DEF Route, PipelineInv, Goto
  <2>2. \/ pc' = "middlewares" /\ reply' = reply
        \/ pc' = "done" /\ reply' = Append(reply, Plain(404, "text"))
        \/ pc' = "done" /\ reply' = Append(reply, Plain(405, "none"))
    BY <1>7 DEF Route, Goto, Write
  <2> QED
    BY <1>3, <1>4, <2>1, <2>2 DEF Refusal
<1>16. CASE Middlewares
  <2>1. /\ UNCHANGED <<flow, answers, running, response>> /\ pc = "middlewares"
        /\ reply = <<>> /\ response = NoResponse
    BY <1>16 DEF Middlewares, PipelineInv, Goto
  <2>2. \/ pc' = "request_plugins" /\ reply' = reply
        \/ pc' = "done" /\ \E r : reply' = Append(reply, r) /\ Refusal(r)
    BY <1>16 DEF Middlewares, Goto, Write, Refusal
  <2> QED
    BY <1>3, <1>4, <2>1, <2>2
<1>8. CASE RequestPlugins
  <2>1. /\ UNCHANGED <<flow, answers, running, response>> /\ pc = "request_plugins"
        /\ reply = <<>> /\ response = NoResponse
    BY <1>8 DEF RequestPlugins, PipelineInv, Goto
  <2>2. \/ pc' = (IF flow.streaming THEN "connect" ELSE "read_body") /\ reply' = reply
        \/ pc' = "done" /\ reply' = Append(reply, Problem("INTERNAL", 500))
    BY <1>8 DEF RequestPlugins, Goto, Write
  <2> QED
    BY <1>3, <1>4, <2>1, <2>2 DEF Refusal
<1>9. CASE ReadBody
  <2>1. /\ UNCHANGED <<flow, answers, response>> /\ pc = "read_body"
        /\ reply = <<>> /\ response = NoResponse /\ ~flow.streaming
    BY <1>9 DEF ReadBody, PipelineInv, Goto
  <2>2. CASE pc' = "scatter" /\ running' = DOMAIN answers /\ reply' = reply
    <3>1. DOMAIN answers = 1 .. Len(flow.names) /\ running' \subseteq 1 .. Len(flow.names)
      BY <2>2 DEF PipelineInv
    <3>2. DOMAIN answers' \ running' = {}
      BY <2>1, <2>2
    <3> QED
      BY <2>1, <2>2, <3>1, <3>2 DEF PipelineInv
  <2>3. CASE /\ pc' = "done" /\ reply' = Append(reply, Problem("PAYLOAD_TOO_LARGE", 413))
             /\ running' = running
    BY <1>3, <1>4, <2>1, <2>3 DEF Refusal
  <2> QED
    BY <1>9, <2>2, <2>3 DEF ReadBody, Goto, Write
<1>10. CASE \E i \in running : CallUpstream(i)
  <2>1. PICK i \in running : CallUpstream(i)
    BY <1>10
  <2>2. PICK a \in Answers : answers' = [answers EXCEPT ![i] = From(i, a)]
    BY <2>1 DEF CallUpstream
  <2>3. /\ pc = "scatter" /\ running' = running \ {i}
        /\ UNCHANGED <<flow, pc, response, reply>> /\ i \in 1 .. Len(flow.names)
        /\ response = NoResponse /\ reply = <<>> /\ ~flow.streaming
        /\ DOMAIN answers = 1 .. Len(flow.names)
    BY <2>1 DEF CallUpstream, PipelineInv
  <2>4. answers' = [j \in 1 .. Len(flow.names) |-> IF j = i THEN From(i, a) ELSE answers[j]]
    BY <2>2, <2>3
  <2>5. answers' = [j \in 1 .. Len(flow.names) |-> answers'[j]]
    BY <2>4
  <2>6. \A j \in 1 .. Len(flow.names) :
            answers'[j] \in {NoAnswer} \union {From(k, b) : k \in 1 .. Len(flow.names), b \in Answers}
    <3> DEFINE R == {NoAnswer} \union {From(k, b) : k \in 1 .. Len(flow.names), b \in Answers}
    <3>1. \A j \in 1 .. Len(flow.names) : answers[j] \in R
      BY SMTT(40) DEF PipelineInv
    <3>2. From(i, a) \in R
      BY <2>3
    <3> HIDE DEF R
    <3>3. \A j \in 1 .. Len(flow.names) : answers'[j] \in R
      BY <2>4, <3>1, <3>2
    <3> QED
      BY <3>3 DEF R
  <2>7. ASSUME NEW j \in DOMAIN answers' \ running' PROVE \E b \in Answers : answers'[j] = From(j, b)
    <3>1. j \in 1 .. Len(flow.names) /\ (j = i \/ j \in DOMAIN answers \ running)
      BY <2>3, <2>5, <2>7
    <3>2. CASE j = i
      BY <2>4, <3>1, <3>2
    <3>3. CASE j # i /\ j \in DOMAIN answers \ running
      BY <2>3, <2>4, <3>1, <3>3 DEF PipelineInv
    <3> QED
      BY <3>1, <3>2, <3>3
  <2> QED
    BY <2>3, <2>5, <2>6, <2>7 DEF PipelineInv
<1>11. CASE Dispatch
  <2>1. /\ UNCHANGED <<flow, answers, running, reply>> /\ pc = "scatter" /\ pc' = "response_plugins"
        /\ running = {} /\ reply = <<>> /\ ~flow.streaming
    BY <1>11 DEF Dispatch, Goto, PipelineInv
  <2>2. AllAnswered
    BY <2>1 DEF PipelineInv, AllAnswered
  <2>3. /\ Len(answers) = 1 => response' = buildProxyResponse(answers[1])
        /\ Len(answers) > 1 =>
               response' = buildResponse(aggregate(flow.names, answers, flow.aggregation))
    <3>1. \A l : l = 1 => ~(l > 1)
      OBVIOUS
    <3> QED
      BY <1>11, <3>1, Zenon DEF Dispatch
  <2>4. Dispatched'
    BY <2>1, <2>2, <2>3 DEF Dispatched, AllAnswered
  <2> QED
    BY <2>1, <2>4 DEF PipelineInv
<1>12. CASE ResponsePlugins
  <2>1. /\ UNCHANGED <<flow, answers, running, response>> /\ pc = "response_plugins" /\ pc' = "done"
        /\ reply = <<>> /\ Dispatched
    BY <1>12 DEF ResponsePlugins, PipelineInv, Goto
  <2>2. reply' = Append(reply, response) \/ reply' = Append(reply, Problem("INTERNAL", 500))
    BY <1>12 DEF ResponsePlugins, Write
  <2> QED
    BY <1>3, <1>4, <2>1, <2>2 DEF Refusal
<1>13. CASE Connect
  <2>1. /\ UNCHANGED <<flow, answers, running, response>> /\ pc = "connect"
        /\ reply = <<>> /\ response = NoResponse
    BY <1>13 DEF Connect, PipelineInv, Goto
  <2>2. \/ /\ pc' = "copy"
           /\ \E s \in StreamStatuses :
                 reply' = Append(reply, Plain(s, "upstream"))
        \/ pc' = "done" /\ reply' = Append(reply, Problem("UPSTREAM_UNAVAILABLE", 502))
    BY <1>13 DEF Connect, Goto, Write
  <2> QED
    BY <1>3, <1>4, <2>1, <2>2 DEF Refusal, Streamed
<1>14. CASE StreamCopy
  <2>1. /\ UNCHANGED <<flow, answers, running, response, reply>> /\ pc = "copy" /\ pc' = "done"
        /\ \E r : reply = <<r>> /\ Streamed(r)
    BY <1>14 DEF StreamCopy, PipelineInv, Goto
  <2> QED
    BY <1>4, <2>1
<1>15. CASE UNCHANGED vars
  <2>1. /\ flow' = flow /\ pc' = pc /\ answers' = answers /\ running' = running
        /\ response' = response /\ reply' = reply
        /\ Dispatched' <=> Dispatched
        /\ \A r : (Refusal(r)' <=> Refusal(r)) /\ (Streamed(r)' <=> Streamed(r))
    BY <1>1, <1>2, <1>15 DEF vars
  <2>2. /\ flow' \in Flows /\ pc' \in PCs
        /\ answers' = [i \in 1 .. Len(flow'.names) |-> answers'[i]]
        /\ \A i \in 1 .. Len(flow'.names) :
              answers'[i] \in {NoAnswer} \union {From(j, a) : j \in 1 .. Len(flow'.names), a \in Answers}
        /\ running' \subseteq 1 .. Len(flow'.names)
    BY <2>1, SMTT(30) DEF PipelineInv
  <2>3. /\ pc' # "scatter" => running' = {}
        /\ pc' \in {"read_body", "scatter", "response_plugins"} => ~flow'.streaming
        /\ pc' = "scatter" =>
               \A i \in DOMAIN answers' \ running' : \E a \in Answers : answers'[i] = From(i, a)
        /\ pc' \notin {"copy", "done"} => reply' = <<>>
    BY <2>1 DEF PipelineInv
  <2>4. /\ pc' = "response_plugins" => Dispatched'
        /\ response' = NoResponse \/ (pc' \in {"response_plugins", "done"} /\ Dispatched')
    BY <2>1 DEF PipelineInv
  <2>5. /\ pc' = "copy" => \E r : reply' = <<r>> /\ Streamed(r)'
        /\ pc' = "done" =>
               \E r : reply' = <<r>> /\ (Refusal(r)' \/ Streamed(r)' \/ (r = response' /\ Dispatched'))
    BY <2>1 DEF PipelineInv
  <2> QED
    BY <2>2, <2>3, <2>4, <2>5 DEF PipelineInv
<1> QED
  BY <1>5, <1>6, <1>7, <1>8, <1>9, <1>10, <1>11, <1>12, <1>13, <1>14, <1>15, <1>16 DEF Next, Step

-----------------------------------------------------------------------------
(* What the client can rely on *)

\* A flow has upstreams, and one of the aggregations of its names.
LEMMA FlowFields ==
    ASSUME PipelineInv
    PROVE  /\ Len(flow.names) \in Nat /\ Len(flow.names) >= 1
           /\ flow.streaming \in BOOLEAN /\ (flow.streaming => Len(flow.names) = 1)
           /\ flow.aggregation.strategy \in Strategies
           /\ flow.aggregation.bestEffort \in BOOLEAN
           /\ Len(answers) = Len(flow.names) /\ DOMAIN answers = 1 .. Len(answers)
<1>1. IsFlow(flow)
  BY FlowsAssumption DEF PipelineInv
<1>2. PICK l : l = Len(flow.names)
  OBVIOUS
<1>3. l \in Nat /\ l >= 1 /\ flow.streaming \in BOOLEAN /\ (flow.streaming => l = 1)
  BY <1>1, <1>2 DEF IsFlow
<1>4. flow.aggregation \in Aggregations(flow.names)
  BY <1>1 DEF IsFlow
<1>5. \A a \in Aggregations(flow.names) : a.strategy \in Strategies /\ a.bestEffort \in BOOLEAN
  BY DEF Aggregations, Aggregation, Strategies
<1>6. DOMAIN answers = 1 .. l /\ Len(answers) = l
  <2>1. PICK g : g = answers
    OBVIOUS
  <2>2. g = [i \in 1 .. l |-> g[i]]
    BY <1>2, <2>1 DEF PipelineInv
  <2>3. DOMAIN g = 1 .. l /\ Len(g) = l
    BY <1>3, <2>2
  <2> QED
    BY <2>1, <2>3
<1> QED
  BY <1>2, <1>3, <1>4, <1>5, <1>6

LEMMA FromFields ==
    \A i, a : LET b == From(i, a)
              IN  b.kind = a.kind /\ b.status = a.status /\ b.body = a.body /\ b.from = i
  BY DEF From

\* Upstream u's answer is at u, whichever goroutine ended first.
LEMMA AnswersInPlace ==
    ASSUME PipelineInv, AllAnswered
    PROVE  /\ Answered(answers, Len(answers))
           /\ \A u \in DOMAIN answers : AnswerOf(u) = answers[u]
           /\ Successes = {u \in DOMAIN answers : ~IsFailed(answers[u])}
           /\ Delivered = {u \in DOMAIN answers : ~Useless(answers[u], flow.aggregation)}
<1>1. Len(answers) \in Nat /\ DOMAIN answers = 1 .. Len(answers)
  BY FlowFields
<1>2. ASSUME NEW i \in DOMAIN answers
      PROVE  /\ answers[i].from = i /\ Promised(answers[i].kind, answers[i].status)
             /\ answers[i].body.form # "object" => answers[i].body.keys = {}
  <2>1. PICK a \in Answers : answers[i] = From(i, a)
    BY <1>2 DEF AllAnswered
  <2>2. /\ answers[i].from = i /\ answers[i].kind = a.kind
        /\ answers[i].status = a.status /\ answers[i].body = a.body
    BY <2>1, FromFields
  <2> QED
    BY <2>1, <2>2, AnswersAssumption, BodiesAssumption, Zenon
<1>3. Answered(answers, Len(answers))
  BY <1>1, <1>2, Zenon DEF Answered
<1>4. ASSUME NEW u \in DOMAIN answers PROVE AnswerOf(u) = answers[u]
  <2>1. answers[u] \in ToSet(answers) /\ answers[u].from = u
    BY <1>2, Zenon DEF ToSet
  <2>2. \A a \in ToSet(answers) : \E i \in DOMAIN answers : a = answers[i]
    BY Zenon DEF ToSet
  <2>3. ASSUME NEW a \in ToSet(answers), a.from = u PROVE a = answers[u]
    <3>1. PICK i \in DOMAIN answers : a = answers[i]
      BY <2>2
    <3>2. answers[i].from = i
      BY <1>2
    <3> QED
      BY <2>3, <3>1, <3>2
  <2> QED
    BY <2>1, <2>3, Zenon DEF AnswerOf
<1>5. Successes = {u \in DOMAIN answers : ~IsFailed(answers[u])}
  BY <1>4, Zenon DEF Successes
<1>6. Delivered = {u \in DOMAIN answers : ~Useless(answers[u], flow.aggregation)}
  BY <1>4, Zenon DEF Delivered
<1> QED
  BY <1>3, <1>4, <1>5, <1>6

\* What dispatch builds of several answers is one of the five outcomes, and its
\* data is the right data.
LEMMA DispatchedOutcome ==
    ASSUME PipelineInv, Dispatched, Len(answers) > 1
    PROVE  /\ Outcome(response, answers, flow.aggregation)
           /\ \/ /\ IsData(response.result, answers, flow.aggregation)
                 /\ IsRightData(response.result, flow.names, answers, flow.aggregation)
              \/ IsFailure(response.result, answers)
              \/ IsConflict(response.result, flow.aggregation)
<1> DEFINE agg == flow.aggregation
           r == aggregate(flow.names, answers, agg)
<1>1. AllAnswered /\ response = buildResponse(r)
  BY DEF Dispatched
<1>2. Answered(answers, Len(answers)) /\ agg.strategy \in Strategies
  BY <1>1, AnswersInPlace, FlowFields
<1>3. \/ IsData(r, answers, agg) /\ IsRightData(r, flow.names, answers, agg)
      \/ IsFailure(r, answers)
      \/ IsConflict(r, agg)
  BY <1>2, AggregatedResult
<1> HIDE DEF r, agg
<1>4. Outcome(response, answers, agg) /\ response.result = r
  BY <1>1, <1>2, <1>3, BuiltResponse, Zenon
<1> QED
  BY <1>3, <1>4, Zenon DEF agg

\* The reply of an aggregating flow was built by dispatch.
LEMMA AggregatedDispatched ==
    ASSUME PipelineInv, Aggregated
    PROVE  Dispatched /\ AllAnswered /\ Len(answers) > 1
<1>1. pc = "done" /\ Len(answers) > 1 /\ reply = <<response>>
  BY DEF Aggregated
<1>2. Dispatched
  <2> SUFFICES ASSUME ~Dispatched PROVE FALSE
    OBVIOUS
  <2>1. response = NoResponse
    BY DEF PipelineInv
  <2>2. PICK p : reply = <<p>> /\ (Refusal(p) \/ Streamed(p))
    BY <1>1 DEF PipelineInv
  <2>3. p = NoResponse
    BY <1>1, <2>1, <2>2
  <2>4. p.status = 0
    BY <2>3, ResponseFields DEF NoResponse
  <2>5. p.status # 0
    <3>1. CASE Streamed(p)
      <4>1. PICK s \in StreamStatuses : p = Plain(s, "upstream")
        BY <3>1 DEF Streamed
      <4>2. p.status = s
        BY <4>1, PlainFields, Zenon
      <4> QED
        BY <4>1, <4>2, StreamAssumption
    <3>2. CASE Refusal(p)
      BY <3>2, PlainFields, ResponseFields DEF Refusal, Problem
    <3> QED
      BY <2>2, <3>1, <3>2
  <2> QED
    BY <2>4, <2>5
<1> QED
  BY <1>1, <1>2 DEF Dispatched

LEMMA Pipeline == Spec => []PipelineInv
  BY PipelineInit, PipelineNext, PTL DEF Spec

(***************************************************************************)
(* HonestStatus for every set of flows, answers and upstreams: dispatch's  *)
(* status and body never promise more than the upstreams delivered.        *)
(***************************************************************************)
THEOREM HonestStatusTheorem == Spec => []HonestStatus
<1>1. PipelineInv => HonestStatus
  <2> SUFFICES ASSUME PipelineInv, Aggregated PROVE HonestStatus
    BY DEF HonestStatus
  <2> DEFINE agg == flow.aggregation
             p == response
  <2>1. /\ AllAnswered /\ Outcome(p, answers, agg)
        /\ \/ /\ IsData(p.result, answers, agg)
              /\ IsRightData(p.result, flow.names, answers, agg)
           \/ IsFailure(p.result, answers)
           \/ IsConflict(p.result, agg)
    BY AggregatedDispatched, DispatchedOutcome
  <2>2. /\ Delivered = {u \in DOMAIN answers : ~Useless(answers[u], agg)}
        /\ \A u \in DOMAIN answers : AnswerOf(u) = answers[u]
    BY <2>1, AnswersInPlace
  <2>3. CASE Complete(p, answers, agg)
    <3>1. p.status = 200 /\ p.body = "data" /\ p.result.errors = <<>>
      BY <2>3 DEF Complete
    <3>2. \A u \in DOMAIN answers : ~Useless(answers[u], agg)
      BY <2>3, Zenon DEF Complete, IsData
    <3>3. Delivered = DOMAIN answers
      BY <2>2, <3>2
    <3> HIDE DEF p
    <3> QED
      BY <3>1, <3>3 DEF HonestStatus, p
  <2>4. CASE Partial(p, answers, agg)
    <3>1. p.status = 206 /\ p.body = "data" /\ p.result.errors # <<>> /\ agg.bestEffort
      BY <2>4 DEF Partial
    <3>2. PICK v \in DOMAIN answers : ~IsFailed(answers[v])
      BY <2>4, Zenon DEF Partial
    <3>3. \E u \in DOMAIN answers : Useless(answers[u], agg)
      BY <2>4, <3>1, Zenon DEF Partial, IsData
    <3>4. Delivered # DOMAIN answers
      BY <2>2, <3>3
    <3>5. ASSUME Delivered = {}
          PROVE  /\ agg.strategy = "merge" /\ \E u \in DOMAIN answers : IsMalformed(AnswerOf(u))
                 /\ DOMAIN p.result.content = {}
      <4>1. \A u \in DOMAIN answers : Useless(answers[u], agg)
        BY <2>2, <3>5
      <4>2. agg.strategy = "merge" /\ IsMalformed(answers[v])
        BY <3>2, <4>1 DEF Useless
      <4>3. p.result.partial
        BY <2>4, <3>1, <3>2, Zenon DEF Partial, IsData
      <4>4. IsRightData(p.result, flow.names, answers, agg)
        BY <2>1, <4>3, Zenon DEF IsFailure, IsConflict
      <4>5. {b \in ToSet(answers) : IsObject(b)} = {}
        <5>1. \A a : Useless(a, agg) => ~IsObject(a)
          BY DEF Useless, IsObject, IsMalformed
        <5>2. \A b \in ToSet(answers) : \E u \in DOMAIN answers : b = answers[u]
          BY Zenon DEF ToSet
        <5> QED
          BY <4>1, <5>1, <5>2, Zenon
      <4>6. DOMAIN p.result.content = UNION {a.body.keys : a \in {b \in ToSet(answers) : IsObject(b)}}
        BY <4>2, <4>4, Zenon DEF IsRightData, IsMerged
      <4>7. DOMAIN p.result.content = {}
        BY <4>5, <4>6
      <4> QED
        BY <2>2, <4>2, <4>7
    <3> HIDE DEF p, agg
    <3> QED
      BY <3>1, <3>4, <3>5 DEF HonestStatus, p, agg
  <2>5. CASE Unavailable(p) \/ Shared(p, answers) \/ Conflict(p, agg)
    <3>1. p.status \in 400 .. 599 /\ p.body = "problem" /\ p.result.errors # <<>>
      <4>1. <<"UPSTREAM_CLIENT_ERROR">> # <<>> /\ <<"VALUE_CONFLICT">> # <<>>
        OBVIOUS
      <4>2. CASE Unavailable(p)
        BY <4>2 DEF Unavailable
      <4>3. CASE Shared(p, answers)
        BY <4>1, <4>3 DEF Shared
      <4>4. CASE Conflict(p, agg)
        BY <4>1, <4>4 DEF Conflict
      <4> QED
        BY <2>5, <4>2, <4>3, <4>4
    <3>2. \A s \in 400 .. 599 : s # 200 /\ s # 206 /\ s >= 400
      OBVIOUS
    <3>3. p.status # 200 /\ p.status # 206 /\ p.status >= 400
      BY <3>1, <3>2, Zenon
    <3> QED
      BY <3>1, <3>3, Zenon DEF HonestStatus
  <2> QED
    BY <2>1, <2>3, <2>4, <2>5 DEF Outcome
<1> QED
  BY <1>1, Pipeline, PTL

(***************************************************************************)
(* StatusAgreed for every set of flows and answers: a client error is      *)
(* propagated only when every failed upstream agreed on it.                *)
(***************************************************************************)
THEOREM StatusAgreedTheorem == Spec => []StatusAgreed
<1>1. PipelineInv => StatusAgreed
  <2> SUFFICES ASSUME PipelineInv, Aggregated, response.status \in 400 .. 499,
                      response.result.errors # <<"VALUE_CONFLICT">>,
                      NEW u \in DOMAIN answers \ Successes
               PROVE  AnswerOf(u).kind = "client_error" /\ AnswerOf(u).status = response.status
    BY DEF StatusAgreed
  <2>1. AllAnswered /\ Outcome(response, answers, flow.aggregation)
    BY AggregatedDispatched, DispatchedOutcome
  <2>2. AnswerOf(u) = answers[u] /\ IsFailed(answers[u])
    BY <2>1, AnswersInPlace
  <2>3. Shared(response, answers)
    <3>0. PICK s \in 400 .. 499 : s = response.status
      OBVIOUS
    <3>1. ASSUME Complete(response, answers, flow.aggregation) PROVE FALSE
      <4>1. s = 200
        BY <3>0, <3>1 DEF Complete
      <4> QED
        BY <4>1
    <3>2. ASSUME Partial(response, answers, flow.aggregation) PROVE FALSE
      <4>1. s = 206
        BY <3>0, <3>2 DEF Partial
      <4> QED
        BY <4>1
    <3>3. ASSUME Unavailable(response) PROVE FALSE
      <4>1. s \in {500, 502, 503}
        BY <3>0, <3>3 DEF Unavailable
      <4> QED
        BY <4>1
    <3>4. ~Conflict(response, flow.aggregation)
      BY DEF Conflict
    <3> QED
      BY <2>1, <3>1, <3>2, <3>3, <3>4 DEF Outcome
  <2>4. \A i \in DOMAIN answers : Promised(answers[i].kind, answers[i].status)
    BY <2>1, AnswersInPlace DEF Answered
  <2>5. response.status = sharedFailureStatus(answers)
    BY <2>3 DEF Shared
  <2>6. answers[u].kind = "client_error" /\ answers[u].status = response.status
    BY <2>2, <2>4, <2>5, SharedStatus
  <2> QED
    BY <2>2, <2>6
<1> QED
  BY <1>1, Pipeline, PTL

-----------------------------------------------------------------------------
(* Types *)

LEMMA ErrorResultOK ==
    ASSUME NEW errs \in Seq(ClientErrors), NEW s \in 0 .. 599
    PROVE  ResultOK(ErrorResult(errs, s))
<1>1. PICK r : r = ErrorResult(errs, s)
  OBVIOUS
<1>2. r.form = "none" /\ r.errors = errs /\ r.status = s /\ r.partial = FALSE
  BY <1>1, ErrorResultFields, Zenon
<1>3. ResultOK(r)
  BY <1>2, Zenon DEF ResultOK
<1> QED
  BY <1>1, <1>3, Zenon

LEMMA ResponseIsOK ==
    ASSUME NEW s \in 0 .. 599, NEW body \in {"none", "problem", "data", "upstream", "text"},
           NEW r, ResultOK(r)
    PROVE  ResponseOK(Response(s, body, r))
<1>1. PICK p : p = Response(s, body, r)
  OBVIOUS
<1>2. p.status = s /\ p.body = body /\ p.result = r
  BY <1>1, ResponseFields
<1>3. ResponseOK(p)
  BY <1>2, ZenonT(30) DEF ResponseOK
<1> QED
  BY <1>1, <1>3

LEMMA ProblemOK ==
    ASSUME NEW e \in ClientErrors, NEW s \in 0 .. 599
    PROVE  ResponseOK(Problem(e, s))
<1>1. <<e>> \in Seq(ClientErrors) /\ "problem" \in {"none", "problem", "data", "upstream", "text"}
  OBVIOUS
<1>2. ResultOK(ErrorResult(<<e>>, s))
  BY <1>1, ErrorResultOK, Zenon
<1> QED
  BY <1>1, <1>2, ResponseIsOK, Zenon DEF Problem

LEMMA PlainOK ==
    ASSUME NEW body \in {"none", "upstream", "text"}, NEW s \in 0 .. 599
    PROVE  ResponseOK(Plain(s, body))
<1>1. ResultOK(ErrorResult(<<>>, 0))
  <2>1. 0 \in 0 .. 599 /\ <<>> \in Seq(ClientErrors)
    OBVIOUS
  <2> QED
    BY <2>1, ErrorResultOK
<1>2. body \in {"none", "problem", "data", "upstream", "text"}
  OBVIOUS
<1> QED
  BY <1>1, <1>2, ResponseIsOK, Zenon DEF Plain

\* A single upstream's answer is passed on, or reported with a status of
\* statusFromErrors.
LEMMA ProxyResponse ==
    ASSUME NEW a, Promised(a.kind, a.status)
    PROVE  \/ /\ buildProxyResponse(a) = Plain(a.status, "upstream")
              /\ a.status \in 100 .. 499
           \/ \E e \in UpstreamClientErrors, s \in {500, 502, 503} :
                 buildProxyResponse(a) = Problem(e, s) /\ (s = 503 => e = "ABORTED" /\ a.kind = "canceled")
<1>1. CASE IsFailed(a) /\ ~isPropagatable(a.kind)
  <2>1. PICK e \in UpstreamClientErrors : e = mapUpstreamError(a.kind)
    BY MappedErrors
  <2>2. buildProxyResponse(a) = Problem(e, statusFromErrors(<<e>>))
    BY <1>1, <2>1, Zenon DEF buildProxyResponse
  <2>3. PICK es : es = <<e>>
    OBVIOUS
  <2>4. es \in Seq(UpstreamClientErrors) /\ es # <<>> /\ ToSet(es) = {e}
    BY <2>3 DEF ToSet
  <2>5. statusFromErrors(es) \in {500, 502, 503} /\ (statusFromErrors(es) = 503 => e = "ABORTED")
    BY <2>4, ErrorsUnavailable
  <2>8. e = "ABORTED" => a.kind = "canceled"
    BY <2>1 DEF mapUpstreamError
  <2>6. PICK s \in {500, 502, 503} :
            s = statusFromErrors(es) /\ (s = 503 => e = "ABORTED" /\ a.kind = "canceled")
    BY <2>5, <2>8
  <2>7. buildProxyResponse(a) = Problem(e, s)
    BY <2>2, <2>3, <2>6, Zenon
  <2> QED
    BY <2>6, <2>7
<1>2. CASE ~(IsFailed(a) /\ ~isPropagatable(a.kind))
  <2>1. buildProxyResponse(a) = Plain(a.status, "upstream")
    BY <1>2, Zenon DEF buildProxyResponse
  <2>2. a.status \in 100 .. 499
    BY <1>2 DEF Promised, IsFailed, isPropagatable
  <2> QED
    BY <2>1, <2>2, Zenon
<1> QED
  BY <1>1, <1>2

LEMMA DispatchedOK ==
    ASSUME PipelineInv, Dispatched
    PROVE  ResponseOK(response)
<1>1. UpstreamClientErrors \subseteq ClientErrors
  BY DEF UpstreamClientErrors, ClientErrors
<1>2. Answered(answers, Len(answers)) /\ DOMAIN answers = 1 .. Len(answers) /\ Len(answers) \in Nat
  BY AnswersInPlace, FlowFields DEF Dispatched
<1>3. CASE Len(answers) = 1
  <2>1. response = buildProxyResponse(answers[1])
    BY <1>3 DEF Dispatched
  <2>2. Promised(answers[1].kind, answers[1].status)
    BY <1>2, <1>3 DEF Answered
  <2>3. CASE /\ response = Plain(answers[1].status, "upstream")
             /\ answers[1].status \in 100 .. 499
    <3>1. PICK s \in 100 .. 499 : s = answers[1].status
      BY <2>3
    <3>2. s \in 0 .. 599 /\ "upstream" \in {"none", "upstream", "text"}
      OBVIOUS
    <3>3. response = Plain(s, "upstream")
      BY <2>3, <3>1
    <3> QED
      BY <3>2, <3>3, PlainOK, Zenon
  <2>4. CASE \E e \in UpstreamClientErrors, s \in {500, 502, 503} : response = Problem(e, s)
    BY <1>1, <2>4, ProblemOK
  <2>5. PICK a : a = answers[1]
    OBVIOUS
  <2>6. Promised(a.kind, a.status)
    BY <2>2, <2>5
  <2>7. \/ /\ response = Plain(a.status, "upstream")
           /\ a.status \in 100 .. 499
        \/ \E e \in UpstreamClientErrors, s \in {500, 502, 503} : response = Problem(e, s)
    <3>1. response = buildProxyResponse(a)
      BY <2>1, <2>5
    <3> QED
      BY <2>6, <3>1, ProxyResponse
  <2> QED
    BY <2>3, <2>4, <2>5, <2>7, Zenon
<1>4. CASE Len(answers) > 1
  <2> DEFINE agg == flow.aggregation
             r == response.result
  <2>1. /\ Outcome(response, answers, agg)
        /\ IsData(r, answers, agg) \/ IsFailure(r, answers) \/ IsConflict(r, agg)
    BY <1>4, DispatchedOutcome, Zenon
  <2>2. response.status \in 0 .. 599 /\ response.body \in {"data", "problem"}
    <3>1. CASE Complete(response, answers, agg) \/ Partial(response, answers, agg)
      BY <3>1 DEF Complete, Partial
    <3>2. CASE Unavailable(response) \/ Shared(response, answers) \/ Conflict(response, agg)
      BY <3>2 DEF Unavailable, Shared, Conflict
    <3> QED
      BY <2>1, <3>1, <3>2 DEF Outcome
  <2>3. sharedFailureStatus(answers) \in 0 .. 599
    <3>1. \A i \in DOMAIN answers : Promised(answers[i].kind, answers[i].status)
      BY <1>2, Zenon DEF Answered
    <3>2. PICK s : s = sharedFailureStatus(answers)
      OBVIOUS
    <3>3. s = 0 \/ s \in 400 .. 499
      BY <3>1, <3>2, SharedStatus, Zenon
    <3>4. s \in 0 .. 599
      BY <3>3
    <3> QED
      BY <3>2, <3>4
  <2>4. r.form \in {"none", "object", "array", "null"} /\ r.partial \in BOOLEAN
    BY <2>1, Zenon DEF IsData, IsFailure, IsConflict
  <2>5. r.status = 0 \/ r.status = sharedFailureStatus(answers)
    BY <2>1, Zenon DEF IsData, IsFailure, IsConflict
  <2>6. r.status \in 0 .. 599
    BY <2>3, <2>5
  <2>7. r.errors \in Seq(ClientErrors)
    <3>1. \A e \in Seq(UpstreamClientErrors) : e \in Seq(ClientErrors)
      BY <1>1
    <3>2. <<"VALUE_CONFLICT">> \in Seq(ClientErrors)
      BY DEF ClientErrors
    <3>3. r.errors \in Seq(UpstreamClientErrors) \/ r.errors = <<"VALUE_CONFLICT">>
      <4>1. r.errors \in Seq(ReportedErrors(answers)) \/ r.errors = <<"VALUE_CONFLICT">>
        BY <2>1, Zenon DEF IsData, IsFailure, IsConflict
      <4> QED
        BY <4>1, ReportedAreErrors, Zenon
    <3> QED
      BY <3>1, <3>2, <3>3, Zenon
  <2> QED
    BY <2>2, <2>4, <2>6, <2>7, Zenon DEF ResponseOK, ResultOK
<1>5. Len(answers) >= 1
  BY FlowFields
<1> QED
  BY <1>2, <1>3, <1>4, <1>5

\* The refusals and the streams are well formed as well.
LEMMA ElsewhereOK ==
    ASSUME NEW p, Refusal(p) \/ Streamed(p)
    PROVE  ResponseOK(p)
<1>1. {"RATE_LIMIT_EXCEEDED", "INTERNAL", "PAYLOAD_TOO_LARGE", "UPSTREAM_UNAVAILABLE",
       "UNAUTHORIZED"} \subseteq ClientErrors
  BY DEF ClientErrors
<1>2. CASE Streamed(p)
  <2>1. PICK s \in StreamStatuses : p = Plain(s, "upstream")
    BY <1>2 DEF Streamed
  <2>2. s \in 0 .. 599 /\ "upstream" \in {"none", "upstream", "text"}
    BY StreamAssumption
  <2> QED
    BY <2>1, <2>2, PlainOK, Zenon
<1>3. CASE Refusal(p)
  <2>1. {429, 404, 405, 204, 403, 401, 500, 413, 502} \subseteq 0 .. 599
    OBVIOUS
  <2>2. {"text", "none"} \subseteq {"none", "upstream", "text"}
    OBVIOUS
  <2>3. ResponseOK(Plain(404, "text"))
    <3>1. PICK s \in 0 .. 599 : s = 404
      BY <2>1
    <3>2. ResponseOK(Plain(s, "text"))
      BY <2>2, PlainOK, ZenonT(40)
    <3> QED
      BY <3>1, <3>2
  <2>5. ASSUME NEW s \in {405, 204, 403} PROVE ResponseOK(Plain(s, "none"))
    <3>1. PICK t \in 0 .. 599 : t = s
      BY <2>1
    <3>2. ResponseOK(Plain(t, "none"))
      BY <2>2, PlainOK, ZenonT(40)
    <3> QED
      BY <3>1, <3>2
  <2>4. /\ ResponseOK(Problem("RATE_LIMIT_EXCEEDED", 429)) /\ ResponseOK(Problem("INTERNAL", 500))
        /\ ResponseOK(Problem("UNAUTHORIZED", 401))
        /\ ResponseOK(Problem("PAYLOAD_TOO_LARGE", 413))
        /\ ResponseOK(Problem("UPSTREAM_UNAVAILABLE", 502))
    BY <1>1, <2>1, ProblemOK
  <2>6. CASE \E s \in {405, 204, 403} : p = Plain(s, "none")
    <3>1. PICK s \in {405, 204, 403} : p = Plain(s, "none")
      BY <2>6
    <3> QED
      BY <2>5, <3>1
  <2>7. CASE ~\E s \in {405, 204, 403} : p = Plain(s, "none")
    BY <1>3, <2>3, <2>4, <2>7 DEF Refusal
  <2> QED
    BY <2>6, <2>7
<1> QED
  BY <1>2, <1>3

\* The type invariant of the pipeline, for every set of flows and answers.
THEOREM GatewayTypeOK == Spec => []TypeOK
<1>1. PipelineInv => TypeOK
  <2> SUFFICES ASSUME PipelineInv PROVE TypeOK
    OBVIOUS
  <2>1. DOMAIN answers = 1 .. Len(flow.names)
    BY FlowFields
  <2>2. ResponseOK(response)
    <3>1. ResponseOK(NoResponse)
      <4>1. 0 \in 0 .. 599 /\ "none" \in {"none", "upstream", "text"}
        OBVIOUS
      <4> QED
        BY <4>1, PlainOK, Zenon DEF NoResponse, Plain
    <3>2. response = NoResponse \/ Dispatched
      BY DEF PipelineInv
    <3> QED
      BY <3>1, <3>2, DispatchedOK, Zenon
  <2>3. \A i \in DOMAIN reply : ResponseOK(reply[i])
    <3>1. reply = <<>> \/ \E p : reply = <<p>> /\ (Refusal(p) \/ Streamed(p) \/ p = response)
      BY DEF PipelineInv
    <3>2. CASE reply = <<>>
      BY <3>2
    <3>3. CASE reply # <<>>
      <4>1. PICK p : reply = <<p>> /\ ResponseOK(p)
        BY <2>2, <3>1, <3>3, ElsewhereOK
      <4>2. DOMAIN reply = {1} /\ reply[1] = p
        BY <4>1
      <4> QED
        BY <4>1, <4>2, Zenon
    <3> QED
      BY <3>2, <3>3
  <2>4. /\ flow \in Flows /\ pc \in PCs /\ running \subseteq DOMAIN answers
        /\ \A i \in DOMAIN answers :
              answers[i] \in {NoAnswer} \union {From(j, a) : j \in DOMAIN answers, a \in Answers}
    BY <2>1 DEF PipelineInv
  <2> QED
    BY <2>1, <2>2, <2>3, <2>4 DEF TypeOK
<1> QED
  BY <1>1, Pipeline, PTL

-----------------------------------------------------------------------------
(* The documented statuses *)

\* What flowResponses lists, by the kind of flow.
LEMMA FlowResponses ==
    ASSUME PipelineInv
    PROVE  /\ {429, 500, 502} \subseteq flowResponses
           /\ ~flow.streaming => 413 \in flowResponses
           /\ Len(flow.names) > 1 =>
                  /\ 200 \in flowResponses
                  /\ flow.aggregation.bestEffort => 206 \in flowResponses
                  /\ flow.aggregation.strategy = "merge" /\ flow.aggregation.policy = "error" =>
                         409 \in flowResponses
<1>1. PICK l \in Nat : l = Len(flow.names)
  BY FlowFields
<1>2. flow.streaming \in BOOLEAN /\ (flow.streaming => l = 1)
  BY <1>1, FlowFields
<1> DEFINE agg == flow.aggregation
           conflict == agg.strategy = "merge" /\ agg.policy = "error"
<1>3. CASE flow.streaming
  <2>1. flowResponses = streamingResponses(TRUE)
    BY <1>3, Zenon DEF flowResponses
  <2>2. {429, 500, 502} \subseteq streamingResponses(TRUE)
    BY DEF streamingResponses, Limited
  <2>3. ~(l > 1)
    BY <1>2, <1>3
  <2> QED
    BY <1>1, <1>3, <2>1, <2>2, <2>3, ZenonT(40)
<1>4. CASE ~flow.streaming /\ l = 1
  <2>1. flowResponses = proxyResponses(TRUE)
    BY <1>1, <1>4, Zenon DEF flowResponses
  <2>2. {429, 500, 502} \subseteq proxyResponses(TRUE) /\ 413 \in proxyResponses(TRUE)
    BY DEF proxyResponses, Limited
  <2>3. ~(Len(flow.names) > 1)
    BY <1>1, <1>4
  <2>4. {429, 500, 502} \subseteq flowResponses /\ 413 \in flowResponses
    BY <2>1, <2>2, ZenonT(40)
  <2> QED
    BY <2>3, <2>4, Zenon
<1>5. CASE ~flow.streaming /\ l # 1
  <2>1. flowResponses = aggregateResponses(agg.bestEffort, conflict, TRUE)
    BY <1>1, <1>5, Zenon DEF flowResponses
  <2>2. flowResponses = {200, 413, 502, 500} \union {429}
                                  \union (IF agg.bestEffort THEN {206} ELSE {})
                                  \union (IF conflict THEN {409} ELSE {})
    BY <2>1, Zenon DEF aggregateResponses, Limited
  <2> HIDE DEF conflict, agg
  <2>3. /\ {429, 500, 502} \subseteq flowResponses
        /\ 413 \in flowResponses /\ 200 \in flowResponses
        /\ agg.bestEffort => 206 \in flowResponses
        /\ conflict => 409 \in flowResponses
    BY <2>2
  <2> QED
    BY <2>3 DEF conflict, agg
<1> QED
  BY <1>2, <1>3, <1>4, <1>5

LEMMA Documented ==
    ASSUME PipelineInv
    PROVE  /\ {429, 500, 502} \subseteq DocumentedResponses
           /\ flow \in AuthFlows => 401 \in DocumentedResponses
           /\ ~flow.streaming => 413 \in DocumentedResponses
           /\ Len(flow.names) > 1 =>
                  /\ 200 \in DocumentedResponses
                  /\ flow.aggregation.bestEffort => 206 \in DocumentedResponses
                  /\ flow.aggregation.strategy = "merge" /\ flow.aggregation.policy = "error" =>
                         409 \in DocumentedResponses
<1>1. flowResponses \subseteq DocumentedResponses
  BY DEF DocumentedResponses
<1>2. flow \in AuthFlows => 401 \in DocumentedResponses
  BY DEF DocumentedResponses
<1> QED
  BY <1>1, <1>2, FlowResponses

\* DocumentedStatus, of one response.
DocumentedResponse(p) ==
    \/ p.body \in {"upstream", "text", "none"}
    \/ p.status \in DocumentedResponses
    \/ /\ Len(answers) > 1 /\ p.result.errors = <<"UPSTREAM_CLIENT_ERROR">>
       /\ \A u \in DOMAIN answers \ Successes : AnswerOf(u).status = p.status
    \/ /\ p.status = 503 /\ "ABORTED" \in ToSet(p.result.errors)
       /\ \E u \in DOMAIN answers : AnswerOf(u).kind = "canceled"

LEMMA ProblemFields ==
    ASSUME NEW e, NEW s
    PROVE  Problem(e, s).status = s /\ Problem(e, s).result.errors = <<e>>
<1>1. Problem(e, s).status = s /\ Problem(e, s).result = ErrorResult(<<e>>, s)
  BY ResponseFields DEF Problem
<1>2. PICK r : r = ErrorResult(<<e>>, s)
  OBVIOUS
<1>3. r.errors = <<e>>
  BY <1>2, ErrorResultFields
<1> QED
  BY <1>1, <1>2, <1>3

LEMMA ElsewhereDocumented ==
    ASSUME PipelineInv, NEW p, Refusal(p) \/ Streamed(p)
    PROVE  DocumentedResponse(p)
<1>1. CASE Streamed(p) \/ p = Plain(404, "text") \/ \E s \in {405, 204, 403} : p = Plain(s, "none")
  <2>1. p.body \in {"upstream", "text", "none"}
    BY <1>1, ResponseFields DEF Streamed, Plain
  <2> QED
    BY <2>1, Zenon DEF DocumentedResponse
<1>2. CASE \/ p = Problem("RATE_LIMIT_EXCEEDED", 429) \/ p = Problem("INTERNAL", 500)
           \/ p = Problem("PAYLOAD_TOO_LARGE", 413) /\ ~flow.streaming
           \/ p = Problem("UNAUTHORIZED", 401) /\ flow \in AuthFlows
           \/ p = Problem("UPSTREAM_UNAVAILABLE", 502)
  <2>1. \/ p.status \in {429, 500, 502} \/ (p.status = 413 /\ ~flow.streaming)
        \/ (p.status = 401 /\ flow \in AuthFlows)
    BY <1>2, ProblemFields
  <2>2. p.status \in DocumentedResponses
    BY <2>1, Documented
  <2> QED
    BY <2>2, Zenon DEF DocumentedResponse
<1> QED
  BY <1>1, <1>2 DEF Refusal

LEMMA DispatchedDocumented ==
    ASSUME PipelineInv, Dispatched
    PROVE  DocumentedResponse(response)
<1> DEFINE p == response
           agg == flow.aggregation
<1>1. /\ Len(answers) \in Nat /\ Len(answers) >= 1 /\ Len(answers) = Len(flow.names)
      /\ DOMAIN answers = 1 .. Len(answers)
  BY FlowFields
<1>2. Answered(answers, Len(answers))
  BY AnswersInPlace DEF Dispatched
<1>3. CASE Len(answers) = 1
  <2>1. PICK a : a = answers[1]
    OBVIOUS
  <2>2. Promised(a.kind, a.status)
    BY <1>1, <1>2, <1>3, <2>1 DEF Answered
  <2>3. p = buildProxyResponse(a)
    BY <1>3, <2>1 DEF Dispatched
  <2>4. CASE p = Plain(a.status, "upstream")
    <3>1. p.body = "upstream"
      BY <2>4, PlainFields, Zenon
    <3> QED
      BY <3>1, Zenon DEF DocumentedResponse
  <2>5. CASE \E e \in UpstreamClientErrors, s \in {500, 502, 503} :
                p = Problem(e, s) /\ (s = 503 => e = "ABORTED" /\ a.kind = "canceled")
    <3>1. PICK e \in UpstreamClientErrors, s \in {500, 502, 503} :
                p = Problem(e, s) /\ (s = 503 => e = "ABORTED" /\ a.kind = "canceled")
      BY <2>5
    <3>2. p.status = s /\ p.result.errors = <<e>>
      <4>1. Problem(e, s).status = s /\ Problem(e, s).result.errors = <<e>>
        BY ProblemFields
      <4> QED
        BY <3>1, <4>1, Zenon
    <3>3. CASE s = 503
      <4>1. p.result.errors = <<"ABORTED">>
        BY <3>1, <3>2, <3>3
      <4>2. "ABORTED" \in ToSet(<<"ABORTED">>)
        BY DEF ToSet
      <4>3. 1 \in DOMAIN answers /\ AnswerOf(1) = a
        BY <1>1, <1>3, <2>1, AnswersInPlace DEF Dispatched
      <4>4. p.status = 503 /\ AnswerOf(1).kind = "canceled"
        BY <3>1, <3>2, <3>3, <4>3
      <4> QED
        <5>1. /\ p.status = 503 /\ "ABORTED" \in ToSet(p.result.errors)
              /\ \E u \in DOMAIN answers : AnswerOf(u).kind = "canceled"
          <6>1. "ABORTED" \in ToSet(p.result.errors)
            BY <4>1, <4>2
          <6> QED
            BY <4>3, <4>4, <6>1
        <5> QED
          BY <5>1, Zenon DEF DocumentedResponse
    <3>4. CASE s # 503
      <4>1. s \in DocumentedResponses
        BY <3>1, <3>4, Documented
      <4> QED
        BY <3>2, <4>1, Zenon DEF DocumentedResponse
    <3> QED
      BY <3>3, <3>4
  <2> QED
    BY <2>2, <2>3, <2>4, <2>5, ProxyResponse
<1>4. CASE Len(answers) > 1
  <2>1. Outcome(p, answers, agg)
    BY <1>4, DispatchedOutcome
  <2>2. Len(flow.names) > 1
    BY <1>1, <1>4
  <2>3. CASE Complete(p, answers, agg) \/ Partial(p, answers, agg) \/ Conflict(p, agg)
    <3>1. p.status \in DocumentedResponses
      <4>1. CASE Complete(p, answers, agg)
        BY <2>2, <4>1, Documented DEF Complete
      <4>2. CASE Partial(p, answers, agg)
        BY <2>2, <4>2, Documented DEF Partial
      <4>3. CASE Conflict(p, agg)
        BY <2>2, <4>3, Documented DEF Conflict
      <4> QED
        BY <2>3, <4>1, <4>2, <4>3
    <3> QED
      BY <3>1, Zenon DEF DocumentedResponse
  <2>4. CASE Unavailable(p)
    <3>1. PICK s \in {500, 502, 503} : s = p.status /\ (s = 503 => "ABORTED" \in ToSet(p.result.errors))
      BY <2>4 DEF Unavailable
    <3>2. s = 503 \/ s \in DocumentedResponses
      BY <3>1, Documented
    <3>3. p.result.errors \in Seq(ReportedErrors(answers))
      <4>1. p.result.errors # <<"VALUE_CONFLICT">>
        BY <2>4 DEF Unavailable
      <4> QED
        BY <1>4, <4>1, DispatchedOutcome, Zenon DEF IsData, IsFailure, IsConflict
    <3>4. ASSUME "ABORTED" \in ToSet(p.result.errors)
          PROVE  \E u \in DOMAIN answers : AnswerOf(u).kind = "canceled"
      <4>1. PICK es : es = p.result.errors
        OBVIOUS
      <4>2. es \in Seq(ReportedErrors(answers)) /\ "ABORTED" \in ToSet(es)
        BY <3>3, <3>4, <4>1, Zenon
      <4>3. "ABORTED" \in ReportedErrors(answers)
        BY <4>2 DEF ToSet
      <4>4. PICK u \in DOMAIN answers : answers[u].kind = "canceled"
        BY <4>3 DEF ReportedErrors
      <4>5. AnswerOf(u) = answers[u]
        BY AnswersInPlace DEF Dispatched
      <4> QED
        BY <4>4, <4>5
    <3>5. \/ p.status \in DocumentedResponses
          \/ p.status = 503 /\ "ABORTED" \in ToSet(p.result.errors)
      BY <3>1, <3>2
    <3> QED
      BY <3>4, <3>5, Zenon DEF DocumentedResponse
  <2>5. CASE Shared(p, answers)
    <3>1. p.result.errors = <<"UPSTREAM_CLIENT_ERROR">> /\ p.status = sharedFailureStatus(answers)
          /\ p.status \in 400 .. 499
      BY <2>5 DEF Shared
    <3>2. ASSUME NEW u \in DOMAIN answers \ Successes PROVE AnswerOf(u).status = p.status
      <4>1. AnswerOf(u) = answers[u] /\ IsFailed(answers[u])
        BY AnswersInPlace DEF Dispatched
      <4>2. \A i \in DOMAIN answers : Promised(answers[i].kind, answers[i].status)
        BY <1>1, <1>2 DEF Answered
      <4>3. answers[u].status = sharedFailureStatus(answers)
        <5>1. PICK s \in 400 .. 499 : s = sharedFailureStatus(answers)
          BY <3>1
        <5>2. s # 0
          OBVIOUS
        <5> QED
          BY <4>1, <4>2, <5>1, <5>2, SharedStatus
      <4> QED
        BY <3>1, <4>1, <4>3
    <3> QED
      BY <1>4, <3>1, <3>2 DEF DocumentedResponse
  <2> QED
    BY <2>1, <2>3, <2>4, <2>5 DEF Outcome
<1>5. PICK l \in Nat : l = Len(answers) /\ l >= 1
  BY <1>1
<1>6. l = 1 \/ l > 1
  BY <1>5
<1> QED
  BY <1>3, <1>4, <1>5, <1>6

(***************************************************************************)
(* DocumentedStatus for every set of flows, answers and stream statuses:   *)
(* flowResponses lists every status the gateway chooses for a flow.        *)
(***************************************************************************)
THEOREM DocumentedStatusTheorem == Spec => []DocumentedStatus
<1>1. PipelineInv => DocumentedStatus
  <2> SUFFICES ASSUME PipelineInv, pc = "done" PROVE DocumentedStatus
    BY DEF DocumentedStatus
  <2>1. PICK p : reply = <<p>> /\ (Refusal(p) \/ Streamed(p) \/ (p = response /\ Dispatched))
    BY DEF PipelineInv
  <2>2. reply[1] = p
    BY <2>1
  <2>3. DocumentedResponse(p)
    BY <2>1, ElsewhereDocumented, DispatchedDocumented
  <2> QED
    BY <2>2, <2>3, Zenon DEF DocumentedStatus, DocumentedResponse
<1> QED
  BY <1>1, Pipeline, PTL

-----------------------------------------------------------------------------
(* The right data *)

LEMMA LargestIsMax ==
    ASSUME NEW S, S \subseteq Nat, NEW o \in S, \A j \in S : j <= o
    PROVE  Max(S) = o
<1>1. \A x \in S : (\A y \in S : x >= y) => x = o
  OBVIOUS
<1>2. \A y \in S : o >= y
  OBVIOUS
<1> QED
  BY <1>1, <1>2, Zenon DEF Max

LEMMA SmallestIsMin ==
    ASSUME NEW S, S \subseteq Nat, NEW o \in S, \A j \in S : o <= j
    PROVE  Min(S) = o
<1>1. \A x \in S : (\A y \in S : x =< y) => x = o
  OBVIOUS
<1> QED
  BY <1>1, Zenon DEF Min

\* The owners of merged keys.
LEMMA MergedRight ==
    ASSUME PipelineInv, AllAnswered, flow.aggregation.strategy = "merge",
           NEW data, NEW r, data = r.content, IsMerged(r, answers, flow.aggregation)
    PROVE  /\ \A k \in DOMAIN data : data[k] = Owner(k)
           /\ \A u \in Successes : AnswerOf(u).body.keys \subseteq DOMAIN data
           /\ flow.aggregation.policy = "error" =>
                  \A k \in DOMAIN data : Cardinality(Offers(k)) = 1
<1> DEFINE agg == flow.aggregation
           n == Len(answers)
           keys == UNION {a.body.keys : a \in {b \in ToSet(answers) : IsObject(b)}}
           O(k) == {i \in 1 .. n : IsObject(answers[i]) /\ k \in answers[i].body.keys}
<1>1. n \in Nat /\ DOMAIN answers = 1 .. n
  BY FlowFields
<1>2. \A i \in 1 .. n : /\ answers[i].from = i
                        /\ answers[i].body.form # "object" => answers[i].body.keys = {}
  BY AnswersInPlace DEF Answered
<1>3. /\ \A u \in 1 .. n : AnswerOf(u) = answers[u]
      /\ Successes = {u \in 1 .. n : ~IsFailed(answers[u])}
  BY <1>1, AnswersInPlace
<1>4. DOMAIN data = keys /\ \A k \in keys : data[k] = answers[owner(answers, k, agg)].from
  BY DEF IsMerged
<1>5. \A k : k \in keys <=> \E i \in 1 .. n : IsObject(answers[i]) /\ k \in answers[i].body.keys
  BY <1>1 DEF ToSet
<1>6. ASSUME NEW k PROVE Offers(k) = O(k)
  <2>1. ASSUME NEW u \in 1 .. n
        PROVE  (~IsFailed(answers[u]) /\ k \in AnswerOf(u).body.keys)
                 <=> (IsObject(answers[u]) /\ k \in answers[u].body.keys)
    <3>1. AnswerOf(u) = answers[u]
      BY <1>3
    <3>2. k \in answers[u].body.keys => answers[u].body.form = "object"
      BY <1>2
    <3> QED
      BY <3>1, <3>2, Zenon DEF IsObject
  <2> QED
    BY <1>3, <2>1 DEF Offers
<1> HIDE DEF keys
<1>7. ASSUME NEW k \in keys
      PROVE  \E o \in O(k) : o \in 1 .. n /\ Named(o, O(k), agg) /\ data[k] = o
  <2>1. O(k) # {}
    BY <1>5
  <2>2. PICK S : S = O(k)
    OBVIOUS
  <2>3. PICK o : o = owner(answers, k, agg)
    OBVIOUS
  <2>4. Named(o, S, agg)
    BY <1>1, <2>1, <2>2, <2>3, OwnerNamed
  <2>5. o \in S /\ o \in 1 .. n
    BY <2>2, <2>4 DEF Named
  <2>6. data[k] = o
    BY <1>2, <1>4, <2>3, <2>5
  <2> QED
    BY <2>2, <2>4, <2>5, <2>6
<1>8. ASSUME NEW k \in keys PROVE data[k] = Owner(k)
  <2>1. PICK S : S = O(k)
    OBVIOUS
  <2>2. S \subseteq Nat /\ Offers(k) = S
    BY <1>1, <1>6, <2>1
  <2>3. PICK o \in S : Named(o, S, agg) /\ data[k] = o
    BY <1>7, <2>1
  <2> HIDE DEF O
  <2>4. CASE agg.policy = "overwrite"
    <3>1. Max(S) = o
      BY <2>2, <2>3, <2>4, LargestIsMax DEF Named
    <3>2. Owner(k) = Max(S)
      BY <2>2, <2>4, Zenon DEF Owner
    <3> QED
      BY <2>3, <3>1, <3>2
  <2>5. CASE agg.policy = "prefer" /\ agg.preferred \in S
    <3>1. "prefer" # "overwrite"
      OBVIOUS
    <3>2. Owner(k) = agg.preferred
      BY <2>2, <2>5, <3>1, Zenon DEF Owner
    <3> QED
      BY <2>3, <2>5, <3>2, Zenon DEF Named
  <2>6. CASE agg.policy # "overwrite" /\ ~(agg.policy = "prefer" /\ agg.preferred \in S)
    <3>1. Min(S) = o
      BY <2>2, <2>3, <2>6, SmallestIsMin DEF Named
    <3>2. Owner(k) = Min(S)
      BY <2>2, <2>6, Zenon DEF Owner
    <3> QED
      BY <2>3, <3>1, <3>2
  <2> QED
    BY <2>4, <2>5, <2>6
<1>9. ASSUME NEW u \in Successes PROVE AnswerOf(u).body.keys \subseteq DOMAIN data
  <2>1. u \in 1 .. n /\ ~IsFailed(answers[u]) /\ AnswerOf(u) = answers[u]
    BY <1>3
  <2>2. ASSUME NEW k \in answers[u].body.keys PROVE k \in keys
    <3>1. answers[u].body.form = "object"
      BY <1>2, <2>1
    <3>2. IsObject(answers[u])
      BY <2>1, <3>1 DEF IsObject
    <3> QED
      BY <1>5, <2>1, <3>2
  <2> QED
    BY <1>4, <2>1, <2>2
<1>10. ASSUME agg.policy = "error", NEW k \in keys PROVE Cardinality(Offers(k)) = 1
  <2>1. \A i, j \in O(k) : i < j => Conflicts(answers, j, agg)
    <3> TAKE i, j \in O(k)
    <3> HAVE i < j
    <3>1. i \in 1 .. j - 1
      BY <1>1
    <3>2. k \in answers[i].body.keys \cap answers[j].body.keys
      OBVIOUS
    <3>3. answers[i].body.keys \cap answers[j].body.keys # {}
      BY <3>2
    <3> QED
      BY <1>10, <3>1, <3>3, Zenon DEF Conflicts
  <2>2. \A j \in 1 .. n : ~Conflicts(answers, j, agg)
    BY <1>1 DEF IsMerged
  <2>3. PICK o \in O(k) : o \in 1 .. n
    BY <1>7
  <2>4. ASSUME NEW j \in O(k) PROVE j = o
    <3>1. j \in 1 .. n /\ ~(j < o) /\ ~(o < j)
      BY <2>1, <2>2, <2>3
    <3> QED
      BY <1>1, <2>3, <3>1
  <2>5. O(k) = {o}
    BY <2>3, <2>4
  <2>6. Cardinality({o}) = 1
    BY FS_Singleton
  <2> QED
    BY <1>6, <2>5, <2>6
<1> QED
  BY <1>4, <1>8, <1>9, <1>10

\* The order of an array and the bodies in it.
LEMMA ArrayedRight ==
    ASSUME PipelineInv, AllAnswered, NEW data, NEW r, data = r.content, IsArrayed(r, answers)
    PROVE  /\ ToSet(data) = {u \in Successes : AnswerOf(u).body.form # "empty"}
           /\ \A i, j \in DOMAIN data : i < j => data[i] < data[j]
<1> DEFINE S == {i \in DOMAIN answers : ~IsFailed(answers[i]) /\ answers[i].body.form # "empty"}
<1>1. Enumerates(data, S)
  BY Zenon DEF IsArrayed
<1>2. {u \in Successes : AnswerOf(u).body.form # "empty"} = S
  BY AnswersInPlace
<1> HIDE DEF S
<1>3. DOMAIN data = 1 .. Len(data) /\ \A j \in DOMAIN data : data[j] \in S
  BY <1>1, Enumerated
<1>4. \A x \in S : \E j \in DOMAIN data : data[j] = x
  BY <1>1, <1>3 DEF Enumerates
<1>5. ToSet(data) = S
  BY <1>3, <1>4, Zenon DEF ToSet
<1> QED
  BY <1>1, <1>2, <1>3, <1>5, Zenon DEF Enumerates

\* The bodies under the names of a namespaced object.
LEMMA NamespacedRight ==
    ASSUME PipelineInv, AllAnswered, NEW data, NEW r, data = r.content,
           IsNamespaced(r, flow.names, answers)
    PROVE  /\ DOMAIN data = {flow.names[u] : u \in Successes}
           /\ \A n \in DOMAIN data :
                  LET last == Max({u \in Successes : flow.names[u] = n})
                  IN  data[n] = IF last \in {u \in Successes : AnswerOf(u).body.form # "empty"}
                                THEN last ELSE Null
<1> DEFINE filled == {u \in Successes : AnswerOf(u).body.form # "empty"}
           Of(n) == {u \in Successes : flow.names[u] = n}
<1>1. /\ Successes = {i \in DOMAIN answers : ~IsFailed(answers[i])}
      /\ \A u \in DOMAIN answers : AnswerOf(u) = answers[u]
  BY AnswersInPlace
<1>2. Successes \subseteq Nat /\ Successes \subseteq DOMAIN answers
  BY <1>1, FlowFields
<1>3. DOMAIN data = {flow.names[u] : u \in Successes}
  BY <1>1 DEF IsNamespaced
<1>4. ASSUME NEW n \in DOMAIN data
      PROVE  data[n] = IF Max(Of(n)) \in filled THEN Max(Of(n)) ELSE Null
  <2>1. PICK last \in Of(n) :
            /\ \A i \in Of(n) : i <= last
            /\ data[n] = IF answers[last].body.form # "empty" THEN last ELSE Null
    BY <1>1, <1>3 DEF IsNamespaced
  <2>2. Of(n) \subseteq Nat
    BY <1>2
  <2>3. Max(Of(n)) = last
    <3> HIDE DEF Of
    <3> QED
      BY <2>1, <2>2, LargestIsMax
  <2>4. last \in filled <=> answers[last].body.form # "empty"
    BY <1>1, <1>2, <2>1
  <2> HIDE DEF filled
  <2> QED
    BY <2>1, <2>3, <2>4
<1> QED
  BY <1>3, <1>4, Zenon

(***************************************************************************)
(* DataFromRightUpstream for every number of upstreams and every order in  *)
(* which their goroutines end: the loops of merged, arrayed and namespaced *)
(* leave in the data what their strategy and conflict policy are for.      *)
(***************************************************************************)
THEOREM DataFromRightUpstreamTheorem == Spec => []DataFromRightUpstream
<1>1. PipelineInv => DataFromRightUpstream
  <2> SUFFICES ASSUME PipelineInv, Aggregated, response.body = "data"
               PROVE  DataFromRightUpstream
    BY DEF DataFromRightUpstream
  <2> DEFINE agg == flow.aggregation
             r == response.result
             data == r.content
             strategy == agg.strategy
             filled == {u \in Successes : AnswerOf(u).body.form # "empty"}
  <2>1. AllAnswered /\ Dispatched /\ Len(answers) > 1
    BY AggregatedDispatched
  <2>2. IsRightData(r, flow.names, answers, agg)
    <3>1. "data" # "problem"
      OBVIOUS
    <3>2. Complete(response, answers, agg) \/ Partial(response, answers, agg)
      BY <2>1, <3>1, DispatchedOutcome, Zenon DEF Outcome, Unavailable, Shared, Conflict
    <3>3. r.form # "none"
      BY <3>2 DEF Complete, Partial, IsData
    <3>4. ~IsFailure(r, answers) /\ ~IsConflict(r, agg)
      BY <3>3, Zenon DEF IsFailure, IsConflict
    <3> QED
      BY <2>1, <3>4, DispatchedOutcome, Zenon
  <2>3. strategy = "merge" \/ strategy = "array" \/ strategy = "namespace"
    BY FlowFields DEF Strategies
  <2>4. "merge" # "array" /\ "merge" # "namespace" /\ "array" # "namespace"
    OBVIOUS
  <2>5. CASE strategy = "merge"
    <3>1. IsMerged(r, answers, agg)
      BY <2>2, <2>5 DEF IsRightData
    <3>2. /\ \A k \in DOMAIN data : data[k] = Owner(k)
          /\ \A u \in Successes : AnswerOf(u).body.keys \subseteq DOMAIN data
          /\ agg.policy = "error" => \A k \in DOMAIN data : Cardinality(Offers(k)) = 1
      BY <2>1, <2>5, <3>1, MergedRight, Zenon
    <3> QED
      BY <2>4, <2>5, <3>2, Zenon DEF DataFromRightUpstream
  <2>6. CASE strategy = "array"
    <3>1. IsArrayed(r, answers)
      BY <2>2, <2>6 DEF IsRightData
    <3>2. ToSet(data) = filled /\ \A i, j \in DOMAIN data : i < j => data[i] < data[j]
      BY <2>1, <3>1, ArrayedRight, Zenon
    <3> QED
      BY <2>4, <2>6, <3>2, Zenon DEF DataFromRightUpstream
  <2>7. CASE strategy = "namespace"
    <3>1. IsNamespaced(r, flow.names, answers)
      BY <2>2, <2>7 DEF IsRightData
    <3>2. /\ DOMAIN data = {flow.names[u] : u \in Successes}
          /\ \A n \in DOMAIN data :
                 LET last == Max({u \in Successes : flow.names[u] = n})
                 IN  data[n] = IF last \in filled THEN last ELSE Null
      BY <2>1, <3>1, NamespacedRight, Zenon
    <3> QED
      BY <2>4, <2>7, <3>2, Zenon DEF DataFromRightUpstream
  <2> QED
    BY <2>3, <2>5, <2>6, <2>7
<1> QED
  BY <1>1, Pipeline, PTL
=============================================================================
