--------------------------- MODULE RateLimitProofs ---------------------------
(***************************************************************************)
(* Theorems about the rate limiter, for every number of clients, limit,    *)
(* window and time horizon.                                                *)
(***************************************************************************)
EXTENDS RateLimit, TLAPS

\* A quotient and a remainder by a positive number.
LEMMA Division ==
    ASSUME NEW t \in Int, NEW w \in Nat \ {0}
    PROVE  /\ t % w \in 0 .. w - 1 /\ t \div w \in Int
           /\ t = w * (t \div w) + (t % w)
  OBVIOUS

\* Two different multiples of w are at least w apart.
LEMMA Apart ==
    ASSUME NEW w \in Nat \ {0}, NEW p \in Int, NEW q \in Int, p < q
    PROVE  w * p + w <= w * q
<1>1. PICK d \in Nat : q = p + 1 + d
  <2>1. q - p - 1 \in Nat /\ q = p + 1 + (q - p - 1)
    OBVIOUS
  <2> QED
    BY <2>1
<1>2. w * d >= 0
  OBVIOUS
<1>3. w * q = w * p + w + w * d
  BY <1>1
<1> QED
  BY <1>2, <1>3

\* Truncate(t) is the start of the window that t is in.
LEMMA TruncateBounds ==
    ASSUME NEW t \in Int
    PROVE  Truncate(t) \in Int /\ Truncate(t) <= t /\ t < Truncate(t) + Window
<1>1. Window \in Nat \ {0} /\ t % Window \in 0 .. Window - 1
  BY WindowAssumption, Division
<1> QED
  BY <1>1 DEF Truncate

LEMMA TruncateMultiple ==
    ASSUME NEW t \in Int
    PROVE  \E q \in Int : Truncate(t) = Window * q
<1> DEFINE q == t \div Window
<1>1. Window \in Nat \ {0}
  BY WindowAssumption
<1>2. t % Window \in Int /\ q \in Int /\ t = Window * q + (t % Window)
  BY <1>1, Division
<1> HIDE DEF q
<1>3. Window * q \in Int
  BY <1>1, <1>2
<1>4. Truncate(t) = Window * q
  BY <1>2, <1>3 DEF Truncate
<1> QED
  BY <1>2, <1>4

\* Multiples of w in order have their factors in order.
LEMMA Ordered ==
    ASSUME NEW w \in Nat \ {0}, NEW p \in Int, NEW q \in Int, w * p < w * q
    PROVE  p < q
<1>1. w * p \in Int /\ w * q \in Int
  OBVIOUS
<1>2. CASE q < p
  <2>1. w * q + w <= w * p
    BY <1>2, Apart
  <2> QED
    BY <1>1, <2>1
<1>3. CASE q = p
  BY <1>1, <1>3
<1> QED
  BY <1>2, <1>3

\* The starts of two windows differ by a whole number of windows.
LEMMA TruncateApart ==
    ASSUME NEW t \in Int, NEW u \in Int, Truncate(t) < Truncate(u)
    PROVE  \/ Truncate(u) = Truncate(t) + Window
           \/ Truncate(u) >= Truncate(t) + 2 * Window
<1>1. Window \in Nat \ {0}
  BY WindowAssumption
<1>2. PICK p \in Int : Truncate(t) = Window * p
  BY TruncateMultiple
<1>3. PICK q \in Int : Truncate(u) = Window * q
  BY TruncateMultiple
<1>4. Window * p \in Int /\ Window * q \in Int
  BY <1>1
<1>5. p < q
  BY <1>1, <1>2, <1>3, Ordered
<1>6. Window * (p + 1) = Window * p + Window /\ p + 1 \in Int
  BY <1>1
<1>7. CASE q = p + 1
  BY <1>2, <1>3, <1>6, <1>7
<1>8. CASE p + 1 < q
  <2>1. Window * (p + 1) + Window <= Window * q
    BY <1>1, <1>6, <1>8, Apart
  <2> QED
    BY <1>1, <1>2, <1>3, <1>4, <1>6, <2>1
<1> QED
  BY <1>5, <1>7, <1>8

-----------------------------------------------------------------------------
\* The entry Allow(k) works on: the one of k, rolled into the present window.
Rolled(k) == Roll(EntryOf(k, now), now)

LEMMA WindowStartsInt ==
    /\ WindowStarts \subseteq Int
    /\ \A t \in 0 .. MaxTime : Truncate(t) \in WindowStarts
<1>1. \A t \in 0 .. MaxTime : Truncate(t) \in Int
  BY TruncateBounds
<1> QED
  BY <1>1 DEF WindowStarts

LEMMA NowType == TypeOK => now \in 0 .. MaxTime /\ now \in Int
<1>1. TypeOK => now \in 0 .. MaxTime
  BY Zenon DEF TypeOK
<1>2. \A t \in 0 .. MaxTime : t \in Int
  BY MaxTimeAssumption
<1> QED
  BY <1>1, <1>2

LEMMA NowTypePrime == TypeOK' => now' \in Int
<1>1. TypeOK' => now' \in 0 .. MaxTime
  BY Zenon DEF TypeOK
<1>2. \A t \in 0 .. MaxTime : t \in Int
  BY MaxTimeAssumption
<1> QED
  BY <1>1, <1>2

\* A later time lies in the same window or in a later one.
LEMMA TruncateOrdered ==
    ASSUME NEW t \in Int, NEW u \in Int, t <= u
    PROVE  Truncate(t) <= Truncate(u)
<1>1. Window \in Nat \ {0}
  BY WindowAssumption
<1>2. /\ Truncate(t) \in Int /\ Truncate(t) <= t
      /\ Truncate(u) \in Int /\ u < Truncate(u) + Window
  BY TruncateBounds
<1>3. CASE Truncate(u) < Truncate(t)
  <2>1. Truncate(u) + Window <= Truncate(t)
    BY <1>1, <1>2, <1>3, TruncateApart
  <2> QED
    BY <1>1, <1>2, <2>1
<1> QED
  BY <1>2, <1>3

\* It is an entry, and the present time lies before its end.
LEMMA RolledType ==
    ASSUME TypeOK, NEW k \in Keys
    PROVE  Rolled(k) \in Entries /\ now - Rolled(k).windowStart < Window
<1> DEFINE b == EntryOf(k, now)
<1>1. now \in 0 .. MaxTime /\ now \in Int /\ Window \in Nat \ {0}
  BY NowType, WindowAssumption
<1>2. Truncate(now) \in WindowStarts /\ now < Truncate(now) + Window /\ Truncate(now) \in Int
  BY <1>1, WindowStartsInt, TruncateBounds
<1>3. b \in Entries
  BY <1>2 DEF TypeOK, EntryOf, Entries
<1> HIDE DEF b
<1>4. b.windowStart \in Int /\ b.currentCount \in Nat
  BY <1>3, WindowStartsInt DEF Entries
<1>5. CASE now - b.windowStart >= Window
  <2>1. Roll(b, now) \in Entries /\ Roll(b, now).windowStart = Truncate(now)
    BY <1>2, <1>4, <1>5 DEF Roll, Entries
  <2> QED
    BY <1>1, <1>2, <2>1 DEF Rolled, b
<1>6. CASE ~(now - b.windowStart >= Window)
  <2>1. Roll(b, now) = b
    BY <1>6 DEF Roll
  <2> QED
    BY <1>1, <1>3, <1>4, <1>6, <2>1 DEF Rolled, b
<1> QED
  BY <1>5, <1>6

(***************************************************************************)
(* What Estimates promises: never less than what the window has admitted,  *)
(* and at most rounding away from the exact weighted count.                *)
(***************************************************************************)
LEMMA EstimateBounds ==
    ASSUME NEW e \in Entries, NEW t \in Int, t - e.windowStart < Window,
           NEW estimated \in Estimates(e, t)
    PROVE  /\ Weighted(e, t) \in Nat
           /\ estimated \in Int
           /\ e.currentCount <= estimated
           /\ estimated <= e.currentCount + (Weighted(e, t) \div Window)
           /\ \/ estimated = e.currentCount + (Weighted(e, t) \div Window)
              \/ /\ Weighted(e, t) = Window * (Weighted(e, t) \div Window)
                 /\ estimated = (e.currentCount + (Weighted(e, t) \div Window)) - 1
<1> DEFINE wt == Weighted(e, t)
           d == wt \div Window
<1>1. /\ e.currentCount \in Nat /\ e.previousCount \in Nat
      /\ e.windowStart \in Int /\ Window \in Nat \ {0}
  BY WindowStartsInt, WindowAssumption DEF Entries
<1>2. wt \in Nat
  <2>1. Window - (t - e.windowStart) \in Nat
    BY <1>1
  <2> QED
    BY <1>1, <2>1 DEF Weighted
<1>3. wt % Window \in 0 .. Window - 1 /\ d \in Int /\ wt = Window * d + (wt % Window)
  <2>1. \A n \in Int : /\ n % Window \in 0 .. Window - 1 /\ n \div Window \in Int
                       /\ n = Window * (n \div Window) + (n % Window)
    BY <1>1, Division
  <2>2. wt \in Int
    BY <1>2
  <2> HIDE DEF wt
  <2> QED
    BY <2>1, <2>2 DEF d
<1>4. estimated = e.currentCount + d
        \/ (wt % Window = 0 /\ wt > 0 /\ estimated = (e.currentCount + d) - 1)
  <2> DEFINE rounds == wt % Window = 0 /\ wt > 0 /\ t # e.windowStart
  <2>1. estimated \in {e.currentCount + d} \union
                        (IF rounds THEN {(e.currentCount + d) - 1} ELSE {})
    BY Zenon DEF Estimates
  <2>2. rounds => wt % Window = 0 /\ wt > 0
    OBVIOUS
  <2> HIDE DEF rounds, wt, d
  <2>3. estimated = e.currentCount + d \/ (rounds /\ estimated = (e.currentCount + d) - 1)
    BY <2>1
  <2> QED
    BY <2>2, <2>3
<1> HIDE DEF wt, d
<1>5. d >= 0
  <2>1. CASE d < 0
    <3>1. Window * d + Window <= Window * 0
      BY <1>1, <1>3, <2>1, Apart
    <3>2. Window * d \in Int /\ Window * 0 = 0
      BY <1>1, <1>3
    <3> QED
      BY <1>1, <1>2, <1>3, <3>1, <3>2
  <2> QED
    BY <1>3, <2>1
<1>6. wt > 0 /\ wt % Window = 0 => d >= 1
  <2>1. CASE d = 0
    <3>1. Window * d = 0
      BY <1>1, <2>1
    <3> QED
      BY <1>2, <1>3, <3>1
  <2> QED
    BY <1>3, <1>5, <2>1
<1>7. wt % Window = 0 => wt = Window * d
  <2>1. Window * d \in Int
    BY <1>1, <1>3
  <2> QED
    BY <1>2, <1>3, <2>1
<1>8. /\ estimated \in Int /\ e.currentCount <= estimated
      /\ estimated <= e.currentCount + d
  BY <1>1, <1>3, <1>4, <1>5, <1>6
<1> QED
  BY <1>2, <1>4, <1>7, <1>8 DEF wt, d

-----------------------------------------------------------------------------
LEMMA TypeOKInit == Init => TypeOK
<1> SUFFICES ASSUME Init PROVE TypeOK
  OBVIOUS
<1>1. now \in 0 .. MaxTime
  BY MaxTimeAssumption DEF Init
<1> QED
  BY <1>1 DEF Init, TypeOK, NoVerdict

LEMMA OneMoreType == \A n \in Nat : OneMore(n) \in Nat
  BY DEF OneMore

LEMMA TypeOKNext == TypeOK /\ [Next]_vars => TypeOK'
<1> SUFFICES ASSUME TypeOK, [Next]_vars PROVE TypeOK'
  OBVIOUS
<1>0. /\ now \in 0 .. MaxTime
      /\ buckets \in [Keys -> Entries \union {NoEntry}]
      /\ admitted \in [Keys -> [WindowStarts -> Nat]]
  BY Zenon DEF TypeOK
<1>1. ASSUME NEW k \in Keys, Allow(k) PROVE TypeOK'
  <2>1. /\ Rolled(k) \in Entries /\ now - Rolled(k).windowStart < Window
        /\ Rolled(k).currentCount \in Nat
    BY RolledType DEF Entries
  <2>2. Increment(Rolled(k)) \in Entries
    BY <2>1 DEF Increment, Entries
  <2>3. Truncate(now) \in WindowStarts
    BY <1>0, WindowStartsInt
  <2>4. PICK estimated \in Estimates(Rolled(k), now) :
          /\ verdict' = [key |-> k, ok |-> Admits(estimated)]
          /\ IF Admits(estimated)
             THEN /\ buckets' = [buckets EXCEPT ![k] = Increment(Rolled(k))]
                  /\ admitted' = [admitted EXCEPT ![k][Truncate(now)] = OneMore(@)]
             ELSE /\ buckets' = [buckets EXCEPT ![k] = Rolled(k)]
                  /\ UNCHANGED admitted
    BY <1>1 DEF Allow, Rolled
  <2>5. buckets' \in [Keys -> Entries \union {NoEntry}]
    BY <1>0, <2>1, <2>2, <2>4
  <2>6. admitted' \in [Keys -> [WindowStarts -> Nat]]
    <3> DEFINE w == Truncate(now)
               n == OneMore(admitted[k][w])
    <3>1. n \in Nat
      BY <1>0, <2>3, OneMoreType
    <3>2. \/ admitted' = admitted
          \/ admitted' = [admitted EXCEPT ![k] = [admitted[k] EXCEPT ![w] = n]]
      BY <2>4, Zenon
    <3>3. admitted[k] \in [WindowStarts -> Nat] /\ w \in WindowStarts
      BY <1>0, <2>3
    <3> HIDE DEF n, w
    <3>4. [admitted[k] EXCEPT ![w] = n] \in [WindowStarts -> Nat]
      BY <3>1, <3>3
    <3> QED
      BY <1>0, <3>2, <3>4
  <2>7. verdict' \in [key : Keys \union {NoKey}, ok : BOOLEAN]
    <3>1. estimated \in Int
      BY <2>1, <2>4, EstimateBounds, NowType
    <3>2. Admits(estimated) \in BOOLEAN
      BY <3>1, LimitAssumption DEF Admits
    <3> QED
      BY <2>4, <3>2
  <2> QED
    BY <1>1, <2>5, <2>6, <2>7, Zenon DEF Allow, TypeOK
<1>2. NoVerdict \in [key : Keys \union {NoKey}, ok : BOOLEAN]
  BY DEF NoVerdict
<1>3. CASE cleanup
  <2>1. buckets' \in [Keys -> Entries \union {NoEntry}]
    BY <1>0, <1>3 DEF cleanup
  <2> QED
    BY <1>2, <1>3, <2>1, Zenon DEF cleanup, TypeOK
<1>4. CASE Start \/ Stop \/ CleanerExit
  BY <1>2, <1>4 DEF Start, Stop, CleanerExit, TypeOK
<1>5. CASE Tick
  <2>1. now' \in 0 .. MaxTime
    <3>1. now < MaxTime /\ now' = now + 1
      BY <1>5 DEF Tick
    <3> QED
      BY <1>0, <3>1, MaxTimeAssumption
  <2> QED
    BY <1>2, <1>5, <2>1, Zenon DEF Tick, TypeOK
<1>6. CASE StepBack
  <2>1. now' \in 0 .. MaxTime
    <3>1. now' \in 0 .. now - 1
      BY <1>6, Zenon DEF StepBack
    <3> QED
      BY <1>0, <3>1, MaxTimeAssumption
  <2> QED
    BY <1>2, <1>6, <2>1, Zenon DEF StepBack, TypeOK
<1>7. CASE UNCHANGED vars
  BY <1>7 DEF vars, TypeOK
<1> QED
  BY <1>1, <1>3, <1>4, <1>5, <1>6, <1>7 DEF Next

(***************************************************************************)
(* The clock, the entries and the histories keep their types.              *)
(***************************************************************************)
THEOREM TypeTheorem == Spec => []TypeOK
  BY TypeOKInit, TypeOKNext, PTL DEF Spec

-----------------------------------------------------------------------------
\* What a request that Allow(k) admits or rejects does to the state.
LEMMA AllowStep ==
    ASSUME TypeOK, NEW k \in Keys, Allow(k)
    PROVE  \E estimated \in Estimates(Rolled(k), now) :
             /\ estimated \in Int
             /\ Rolled(k).currentCount <= estimated
             /\ now' = now /\ monotonic' = monotonic
             /\ verdict' = [key |-> k, ok |-> estimated < Limit]
             /\ \/ /\ estimated < Limit
                   /\ buckets' = [buckets EXCEPT ![k] = Increment(Rolled(k))]
                   /\ admitted' = [admitted EXCEPT ![k][Truncate(now)] = OneMore(@)]
                \/ /\ ~(estimated < Limit)
                   /\ buckets' = [buckets EXCEPT ![k] = Rolled(k)]
                   /\ admitted' = admitted
<1>1. PICK estimated \in Estimates(Rolled(k), now) :
        /\ verdict' = [key |-> k, ok |-> Admits(estimated)]
        /\ IF Admits(estimated)
           THEN /\ buckets' = [buckets EXCEPT ![k] = Increment(Rolled(k))]
                /\ admitted' = [admitted EXCEPT ![k][Truncate(now)] = OneMore(@)]
           ELSE /\ buckets' = [buckets EXCEPT ![k] = Rolled(k)]
                /\ UNCHANGED admitted
        /\ UNCHANGED <<now, cleaner, stopped, monotonic>>
  BY DEF Allow, Rolled
<1>2. estimated \in Int /\ Rolled(k).currentCount <= estimated
  BY RolledType, NowType, EstimateBounds
<1>3. now' = now /\ monotonic' = monotonic
  BY <1>1
<1>4. verdict' = [key |-> k, ok |-> estimated < Limit]
  BY <1>1, Zenon DEF Admits
<1>5. \/ /\ estimated < Limit
         /\ buckets' = [buckets EXCEPT ![k] = Increment(Rolled(k))]
         /\ admitted' = [admitted EXCEPT ![k][Truncate(now)] = OneMore(@)]
      \/ /\ ~(estimated < Limit)
         /\ buckets' = [buckets EXCEPT ![k] = Rolled(k)]
         /\ admitted' = admitted
  BY <1>1, Zenon DEF Admits
<1> QED
  BY <1>1, <1>2, <1>3, <1>4, <1>5, Zenon

\* Every entry within the limit: the invariant behind QuotaByWindow.
BucketBounded ==
    \A k \in Keys :
        buckets[k] # NoEntry => /\ buckets[k].currentCount <= Limit
                                /\ buckets[k].previousCount <= Limit

\* An entry within the limit stays so when it is rolled.
LEMMA RolledBounded ==
    ASSUME TypeOK, BucketBounded, NEW k \in Keys
    PROVE  Rolled(k).currentCount <= Limit /\ Rolled(k).previousCount <= Limit
<1> DEFINE b == EntryOf(k, now)
<1>1. b.currentCount <= Limit /\ b.previousCount <= Limit
  BY LimitAssumption DEF BucketBounded, EntryOf
<1> HIDE DEF b
<1>2. Roll(b, now).currentCount <= Limit /\ Roll(b, now).previousCount <= Limit
  BY <1>1, LimitAssumption DEF Roll
<1> QED
  BY <1>2 DEF Rolled, b

LEMMA BoundedNext == TypeOK /\ BucketBounded /\ [Next]_vars => BucketBounded'
<1> SUFFICES ASSUME TypeOK, BucketBounded, [Next]_vars PROVE BucketBounded'
  OBVIOUS
<1>0. buckets \in [Keys -> Entries \union {NoEntry}]
  BY Zenon DEF TypeOK
<1>1. ASSUME NEW k \in Keys, Allow(k) PROVE BucketBounded'
  <2>1. /\ Rolled(k) \in Entries /\ Rolled(k).currentCount \in Nat
        /\ Rolled(k).currentCount <= Limit /\ Rolled(k).previousCount <= Limit
    BY RolledType, RolledBounded DEF Entries
  <2>2. PICK estimated \in Int :
          /\ Rolled(k).currentCount <= estimated
          /\ \/ /\ estimated < Limit
                /\ buckets' = [buckets EXCEPT ![k] = Increment(Rolled(k))]
             \/ buckets' = [buckets EXCEPT ![k] = Rolled(k)]
    BY <1>1, AllowStep
  <2>3. estimated < Limit => Rolled(k).currentCount + 1 <= Limit
    BY <2>1, <2>2, LimitAssumption
  <2>4. buckets'[k].currentCount <= Limit /\ buckets'[k].previousCount <= Limit
    BY <1>0, <2>1, <2>2, <2>3 DEF Increment, Entries
  <2>5. \A j \in Keys \ {k} : buckets'[j] = buckets[j]
    BY <1>0, <2>2
  <2> QED
    BY <2>4, <2>5 DEF BucketBounded
<1>2. CASE cleanup
  BY <1>2 DEF cleanup, BucketBounded
<1>3. CASE Start \/ Stop \/ CleanerExit \/ Tick \/ StepBack \/ UNCHANGED vars
  <2>1. buckets' = buckets
    BY <1>3 DEF Start, Stop, CleanerExit, Tick, StepBack, vars
  <2> QED
    BY <2>1 DEF BucketBounded
<1> QED
  BY <1>1, <1>2, <1>3 DEF Next

LEMMA BucketsBounded == Spec => [](TypeOK /\ BucketBounded)
<1>1. Init => BucketBounded
  BY DEF Init, BucketBounded
<1> QED
  BY <1>1, TypeOKInit, TypeOKNext, BoundedNext, PTL DEF Spec

\* Rolling an entry leaves it alone or empties it for a later window.
LEMMA RolledLater ==
    ASSUME TypeOK, NEW k \in Keys, buckets[k] # NoEntry
    PROVE  \/ Rolled(k) = buckets[k]
           \/ Rolled(k).windowStart > buckets[k].windowStart /\ Rolled(k).currentCount = 0
<1> DEFINE e == buckets[k]
<1>1. Rolled(k) = Roll(e, now)
  BY DEF Rolled, EntryOf
<1>2. e \in Entries /\ now \in Int
  BY NowType DEF TypeOK
<1>3. e.windowStart \in Int
  BY <1>2, WindowStartsInt DEF Entries
<1> HIDE DEF e
<1>4. CASE now - e.windowStart >= Window
  <2>1. Rolled(k).windowStart = Truncate(now) /\ Rolled(k).currentCount = 0
    BY <1>1, <1>4 DEF Roll
  <2>2. Truncate(now) \in Int /\ now < Truncate(now) + Window
    BY <1>2, TruncateBounds
  <2>3. Truncate(now) > e.windowStart
    BY <1>2, <1>3, <1>4, <2>2, WindowAssumption
  <2> QED
    BY <2>1, <2>3 DEF e
<1>5. CASE ~(now - e.windowStart >= Window)
  BY <1>1, <1>5 DEF Roll, e
<1> QED
  BY <1>4, <1>5

\* What QuotaByWindow says of one key.
Quota(k) ==
    LET e == buckets[k]
        f == buckets'[k]
        counted == IF verdict' = [key |-> k, ok |-> TRUE] THEN 1 ELSE 0
    IN  f # NoEntry =>
            /\ f.currentCount <= Limit
            /\ e # NoEntry =>
                   \/ f.windowStart > e.windowStart /\ f.currentCount = counted
                   \/ /\ f.windowStart = e.windowStart
                      /\ f.previousCount = e.previousCount
                      /\ f.currentCount = e.currentCount + counted

\* A step that is no request of k keeps the entry of k, or drops it.
LEMMA QuotaKept ==
    ASSUME TypeOK, BucketBounded, NEW k \in Keys,
           buckets'[k] = buckets[k] \/ buckets'[k] = NoEntry,
           verdict' # [key |-> k, ok |-> TRUE]
    PROVE  Quota(k)
<1>1. buckets[k] # NoEntry => buckets[k] \in Entries
  BY DEF TypeOK
<1>2. buckets[k] # NoEntry => buckets[k].currentCount \in Nat /\ buckets[k].currentCount <= Limit
  BY <1>1 DEF BucketBounded, Entries
<1> QED
  BY <1>2 DEF Quota

\* A request of k, admitted or not.
LEMMA QuotaAllow ==
    ASSUME TypeOK, BucketBounded, BucketBounded', NEW k \in Keys, Allow(k)
    PROVE  Quota(k)
<1>0. buckets \in [Keys -> Entries \union {NoEntry}]
  BY Zenon DEF TypeOK
<1>1. Rolled(k) \in Entries /\ Rolled(k).currentCount \in Nat
  BY RolledType DEF Entries
<1>2. \/ /\ verdict' = [key |-> k, ok |-> TRUE]
         /\ buckets' = [buckets EXCEPT ![k] = Increment(Rolled(k))]
      \/ /\ verdict' = [key |-> k, ok |-> FALSE]
         /\ buckets' = [buckets EXCEPT ![k] = Rolled(k)]
  <2>1. PICK estimated :
          /\ verdict' = [key |-> k, ok |-> estimated < Limit]
          /\ \/ estimated < Limit /\ buckets' = [buckets EXCEPT ![k] = Increment(Rolled(k))]
             \/ ~(estimated < Limit) /\ buckets' = [buckets EXCEPT ![k] = Rolled(k)]
    BY AllowStep, Zenon
  <2>2. CASE estimated < Limit
    <3>1. (estimated < Limit) = TRUE
      BY <2>2, Zenon
    <3> QED
      BY <2>1, <2>2, <3>1, Zenon
  <2>3. CASE ~(estimated < Limit)
    <3>1. (estimated < Limit) = FALSE
      BY <2>3
    <3> QED
      BY <2>1, <2>3, <3>1, Zenon
  <2> QED
    BY <2>2, <2>3
<1>3. \/ /\ verdict' = [key |-> k, ok |-> TRUE]
         /\ buckets'[k] = Increment(Rolled(k))
      \/ /\ verdict' # [key |-> k, ok |-> TRUE]
         /\ buckets'[k] = Rolled(k)
  BY <1>0, <1>2
<1>4. buckets'[k] # NoEntry => buckets'[k].currentCount <= Limit
  BY DEF BucketBounded
<1>5. /\ Increment(Rolled(k)).currentCount = Rolled(k).currentCount + 1
      /\ Increment(Rolled(k)).previousCount = Rolled(k).previousCount
      /\ Increment(Rolled(k)).windowStart = Rolled(k).windowStart
  BY <1>1 DEF Increment, Entries
<1> DEFINE counted == IF verdict' = [key |-> k, ok |-> TRUE] THEN 1 ELSE 0
<1>6. /\ buckets'[k].currentCount = Rolled(k).currentCount + counted
      /\ buckets'[k].previousCount = Rolled(k).previousCount
      /\ buckets'[k].windowStart = Rolled(k).windowStart
  BY <1>1, <1>3, <1>5
<1>7. counted \in Int
  OBVIOUS
<1> HIDE DEF counted
<1>8. ASSUME buckets[k] # NoEntry
      PROVE  \/ buckets'[k].windowStart > buckets[k].windowStart /\ buckets'[k].currentCount = counted
             \/ /\ buckets'[k].windowStart = buckets[k].windowStart
                /\ buckets'[k].previousCount = buckets[k].previousCount
                /\ buckets'[k].currentCount = buckets[k].currentCount + counted
  BY <1>6, <1>7, <1>8, RolledLater
<1> QED
  BY <1>4, <1>8 DEF Quota, counted

LEMMA QuotaNext ==
    TypeOK /\ BucketBounded /\ BucketBounded' /\ [Next]_vars => [\A k \in Keys : Quota(k)]_vars
<1> SUFFICES ASSUME TypeOK, BucketBounded, BucketBounded', Next, NEW k \in Keys PROVE Quota(k)
  OBVIOUS
<1>0. buckets \in [Keys -> Entries \union {NoEntry}]
  BY Zenon DEF TypeOK
<1>1. ASSUME NEW j \in Keys, Allow(j), j # k PROVE Quota(k)
  <2>1. PICK ok, b : verdict' = [key |-> j, ok |-> ok] /\ buckets' = [buckets EXCEPT ![j] = b]
    BY <1>1, AllowStep
  <2>2. buckets'[k] = buckets[k] /\ verdict' # [key |-> k, ok |-> TRUE]
    BY <1>0, <1>1, <2>1
  <2> QED
    BY <2>2, QuotaKept
<1>2. CASE cleanup \/ Start \/ Stop \/ CleanerExit \/ Tick \/ StepBack
  <2>1. verdict' = NoVerdict
    BY <1>2 DEF cleanup, Start, Stop, CleanerExit, Tick, StepBack
  <2>2. verdict' # [key |-> k, ok |-> TRUE]
    BY <2>1, NoKeyAssumption DEF NoVerdict
  <2>3. buckets'[k] = buckets[k] \/ buckets'[k] = NoEntry
    BY <1>2 DEF cleanup, Start, Stop, CleanerExit, Tick, StepBack
  <2> QED
    BY <2>2, <2>3, QuotaKept
<1>3. CASE Allow(k)
  BY <1>3, QuotaAllow
<1> QED
  BY <1>1, <1>2, <1>3 DEF Next

(***************************************************************************)
(* However often the wall clock is set back, Allow admits at most Limit    *)
(* requests of a key until its entry gets to a later window, for every     *)
(* limit, window length and number of clients, with float rounding and     *)
(* cleanup: int(estimated) is never below the count of the entry's window. *)
(***************************************************************************)
THEOREM QuotaTheorem == Spec => QuotaByWindow
<1>1. TypeOK /\ BucketBounded /\ BucketBounded' /\ [Next]_vars => [\A k \in Keys : Quota(k)]_vars
  BY QuotaNext
<1> QED
  BY <1>1, BucketsBounded, PTL DEF Spec, QuotaByWindow, Quota

-----------------------------------------------------------------------------
(***************************************************************************)
(* What an entry remembers of the requests admitted to its key: the counts *)
(* of its window and the one before, and there is nothing after it; a key  *)
(* without an entry has nothing in the present and the previous window.    *)
(***************************************************************************)
Remembers(k) ==
    IF buckets[k] = NoEntry
    THEN \A w \in WindowStarts : w >= Truncate(now) - Window => admitted[k][w] = 0
    ELSE /\ buckets[k].windowStart <= Truncate(now)
         /\ buckets[k].currentCount = admitted[k][buckets[k].windowStart]
         /\ buckets[k].previousCount = Admitted(k, buckets[k].windowStart - Window)
         /\ \A w \in WindowStarts : w > buckets[k].windowStart => admitted[k][w] = 0

CountInv == monotonic => \A k \in Keys : Remembers(k)

\* Then the rolled entry is exact, and the present window is the last one.
LEMMA RolledExact ==
    ASSUME TypeOK, NEW k \in Keys, Remembers(k)
    PROVE  /\ Rolled(k).windowStart = Truncate(now)
           /\ Rolled(k).currentCount = Admitted(k, Truncate(now))
           /\ Rolled(k).previousCount = Admitted(k, Truncate(now) - Window)
           /\ \A w \in WindowStarts : w > Truncate(now) => admitted[k][w] = 0
<1> DEFINE T == Truncate(now)
           b == buckets[k]
           s == b.windowStart
<1>1. /\ now \in Int /\ T \in Int /\ T <= now /\ now < T + Window
      /\ Window \in Nat \ {0} /\ T \in WindowStarts
      /\ \A w \in WindowStarts : w \in Int
  BY NowType, TruncateBounds, WindowAssumption, WindowStartsInt
<1>2. CASE b = NoEntry
  <2>1. \A w \in WindowStarts : w >= T - Window => admitted[k][w] = 0
    BY <1>2 DEF Remembers
  <2>2. Admitted(k, T) = 0 /\ Admitted(k, T - Window) = 0
    BY <1>1, <2>1 DEF Admitted
  <2>3. Rolled(k) = [currentCount |-> 0, previousCount |-> 0, windowStart |-> T]
    BY <1>1, <1>2 DEF Rolled, EntryOf, Roll
  <2>4. \A w \in WindowStarts : w > T => admitted[k][w] = 0
    BY <1>1, <2>1
  <2> QED
    BY <2>2, <2>3, <2>4
<1>3. CASE b # NoEntry
  <2>1. /\ s <= T /\ b.currentCount = admitted[k][s]
        /\ b.previousCount = Admitted(k, s - Window)
        /\ \A w \in WindowStarts : w > s => admitted[k][w] = 0
    BY <1>3 DEF Remembers
  <2>2. b \in Entries /\ s \in WindowStarts
    <3>1. buckets \in [Keys -> Entries \union {NoEntry}]
      BY Zenon DEF TypeOK
    <3>2. b \in Entries
      BY <1>3, <3>1
    <3> QED
      BY <3>2 DEF Entries
  <2>3. s \in Int /\ (s < T => T = s + Window \/ T >= s + 2 * Window)
    <3>1. PICK t \in 0 .. MaxTime : s = Truncate(t)
      BY <2>2 DEF WindowStarts
    <3>2. t \in Int
      BY <3>1, MaxTimeAssumption
    <3> QED
      BY <1>1, <2>2, <3>1, <3>2, TruncateApart
  <2>4. Rolled(k) = Roll(b, now)
    BY <1>3 DEF Rolled, EntryOf
  <2> HIDE DEF b, s, T
  <2>5. \A w \in WindowStarts : w > T => admitted[k][w] = 0
    BY <1>1, <2>1, <2>3
  <2>6. CASE s = T
    <3>1. ~(now - s >= Window)
      BY <1>1, <2>6
    <3>2. Rolled(k) = b
      BY <2>4, <3>1 DEF Roll, s
    <3>3. Admitted(k, T) = admitted[k][s]
      BY <1>1, <2>6 DEF Admitted
    <3> QED
      BY <2>1, <2>5, <2>6, <3>2, <3>3 DEF s, T
  <2>7. CASE s < T
    <3>1. now - s >= Window
      BY <1>1, <2>3, <2>7
    <3>2. /\ Rolled(k).windowStart = T /\ Rolled(k).currentCount = 0
          /\ Rolled(k).previousCount =
               IF now - s >= 2 * Window THEN 0 ELSE b.currentCount
      BY <2>4, <3>1 DEF Roll, s, T
    <3>3. Admitted(k, T) = 0
      BY <1>1, <2>1, <2>7 DEF Admitted
    <3>4. CASE now - s >= 2 * Window
      <4>1. T - Window > s
        BY <1>1, <2>3, <3>4
      <4>2. Admitted(k, T - Window) = 0
        BY <1>1, <2>1, <4>1 DEF Admitted
      <4> QED
        BY <2>5, <3>2, <3>3, <3>4, <4>2 DEF T
    <3>5. CASE ~(now - s >= 2 * Window)
      <4>1. T - Window = s
        BY <1>1, <2>3, <2>7, <3>5
      <4>2. Admitted(k, T - Window) = admitted[k][s]
        BY <2>2, <4>1 DEF Admitted, s
      <4> QED
        BY <2>1, <2>5, <3>2, <3>3, <3>5, <4>2 DEF T, s
    <3> QED
      BY <3>4, <3>5
  <2> QED
    BY <1>1, <2>1, <2>3, <2>6, <2>7
<1> QED
  BY <1>2, <1>3

LEMMA CountInit == Init => CountInv
<1> SUFFICES ASSUME Init PROVE \A k \in Keys : Remembers(k)
  BY DEF CountInv
<1> QED
  BY DEF Init, Remembers

\* A key whose entry and history stay the same is remembered at a later time.
LEMMA RemembersLater ==
    ASSUME TypeOK, TypeOK', NEW k \in Keys, Remembers(k), now <= now',
           buckets'[k] = buckets[k], admitted'[k] = admitted[k]
    PROVE  Remembers(k)'
<1>1. now \in Int /\ now' \in Int
  BY NowType, NowTypePrime
<1>2. Truncate(now) \in Int /\ Truncate(now') \in Int /\ Truncate(now) <= Truncate(now')
  BY <1>1, TruncateOrdered, TruncateBounds
<1>3. Window \in Int /\ \A w \in WindowStarts : w \in Int
  BY WindowAssumption, WindowStartsInt
<1>4. CASE buckets[k] = NoEntry
  BY <1>2, <1>3, <1>4 DEF Remembers
<1>5. CASE buckets[k] # NoEntry
  <2>1. buckets[k].windowStart \in Int
    <3>1. buckets \in [Keys -> Entries \union {NoEntry}]
      BY Zenon DEF TypeOK
    <3>2. buckets[k] \in Entries
      BY <1>5, <3>1
    <3> QED
      BY <1>3, <3>2 DEF Entries
  <2>2. Admitted(k, buckets[k].windowStart - Window)'
          = Admitted(k, buckets[k].windowStart - Window)
    BY DEF Admitted
  <2> QED
    BY <1>2, <1>5, <2>1, <2>2 DEF Remembers
<1> QED
  BY <1>4, <1>5

(***************************************************************************)
(* Allow(k), by an exact entry: what is admitted is counted, one by one.   *)
(***************************************************************************)
LEMMA AllowExact ==
    ASSUME TypeOK, TypeOK', NEW k \in Keys, Allow(k), Remembers(k)
    PROVE  \E estimated \in Estimates(Rolled(k), now) :
             LET T == Truncate(now)
                 n == IF estimated < Limit THEN 1 ELSE 0
             IN  /\ estimated \in Int /\ now' = now /\ monotonic' = monotonic
                 /\ verdict' = [key |-> k, ok |-> estimated < Limit]
                 /\ buckets'[k] = [Rolled(k) EXCEPT !.currentCount = @ + n]
                 /\ \A j \in Keys \ {k} : buckets'[j] = buckets[j]
                                           /\ admitted'[j] = admitted[j]
                 /\ admitted'[k][T] = Rolled(k).currentCount + n
                 /\ \A w \in WindowStarts \ {T} : admitted'[k][w] = admitted[k][w]
<1> DEFINE T == Truncate(now)
           e == Rolled(k)
<1>1. PICK estimated \in Estimates(e, now) :
        /\ estimated \in Int
        /\ e.currentCount <= estimated
        /\ now' = now /\ monotonic' = monotonic
        /\ verdict' = [key |-> k, ok |-> estimated < Limit]
        /\ \/ /\ estimated < Limit
              /\ buckets' = [buckets EXCEPT ![k] = Increment(e)]
              /\ admitted' = [admitted EXCEPT ![k][T] = OneMore(@)]
           \/ /\ ~(estimated < Limit)
              /\ buckets' = [buckets EXCEPT ![k] = e]
              /\ admitted' = admitted
  BY AllowStep
<1>2. /\ buckets \in [Keys -> Entries \union {NoEntry}]
      /\ admitted \in [Keys -> [WindowStarts -> Nat]]
      /\ T \in WindowStarts
  <2>1. /\ buckets \in [Keys -> Entries \union {NoEntry}]
        /\ admitted \in [Keys -> [WindowStarts -> Nat]]
        /\ now \in 0 .. MaxTime
    BY Zenon DEF TypeOK
  <2> QED
    BY <2>1, WindowStartsInt
<1>3. /\ e \in Entries /\ e.currentCount \in Nat
      /\ e.currentCount = admitted[k][T]
  <2>1. e.currentCount = Admitted(k, T)
    BY RolledExact
  <2>2. e \in Entries
    BY RolledType
  <2> QED
    BY <1>2, <2>1, <2>2 DEF Admitted, Entries
<1> DEFINE n == IF estimated < Limit THEN 1 ELSE 0
<1> HIDE DEF T, e
<1>4. CASE estimated < Limit
  <2>1. OneMore(admitted[k][T]) = e.currentCount + 1
    BY <1>1, <1>3, <1>4, LimitAssumption DEF OneMore
  <2>2. buckets' = [buckets EXCEPT ![k] = Increment(e)]
    BY <1>1, <1>4
  <2>3. admitted' = [admitted EXCEPT ![k] = [admitted[k] EXCEPT ![T] = e.currentCount + 1]]
    BY <1>1, <1>4, <2>1
  <2>4. Increment(e) = [e EXCEPT !.currentCount = @ + n]
    BY <1>4 DEF Increment
  <2>5. buckets'[k] = [e EXCEPT !.currentCount = @ + n]
    BY <1>2, <2>2, <2>4
  <2>6. admitted'[k] = [admitted[k] EXCEPT ![T] = e.currentCount + 1]
    BY <1>2, <2>3
  <2>7. admitted[k] \in [WindowStarts -> Nat]
    BY <1>2
  <2>8. /\ admitted'[k][T] = e.currentCount + n
        /\ \A w \in WindowStarts \ {T} : admitted'[k][w] = admitted[k][w]
    BY <1>2, <1>4, <2>6, <2>7
  <2>9. \A j \in Keys \ {k} : buckets'[j] = buckets[j] /\ admitted'[j] = admitted[j]
    BY <1>2, <2>2, <2>3
  <2> QED
    BY <1>1, <2>5, <2>8, <2>9, Zenon DEF T, e
<1>5. CASE ~(estimated < Limit)
  <2>1. buckets'[k] = e /\ admitted' = admitted
    BY <1>1, <1>2, <1>5
  <2>2. e = [e EXCEPT !.currentCount = @ + n]
    BY <1>3, <1>5 DEF Entries
  <2>3. admitted'[k][T] = e.currentCount + n
    BY <1>3, <1>5, <2>1
  <2>4. \A j \in Keys \ {k} : buckets'[j] = buckets[j]
    BY <1>1, <1>2, <1>5
  <2>5. buckets'[k] = [e EXCEPT !.currentCount = @ + n]
    BY <2>1, <2>2
  <2> QED
    BY <1>1, <2>1, <2>3, <2>4, <2>5, Zenon DEF T, e
<1> QED
  BY <1>4, <1>5

LEMMA CountNext == TypeOK /\ TypeOK' /\ CountInv /\ [Next]_vars => CountInv'
<1> SUFFICES ASSUME TypeOK, TypeOK', CountInv, [Next]_vars, monotonic',
                    NEW j \in Keys
             PROVE  Remembers(j)'
  BY DEF CountInv
<1>0. /\ now \in Int /\ Truncate(now) \in WindowStarts /\ Truncate(now) \in Int
      /\ Truncate(now) <= now /\ now < Truncate(now) + Window
      /\ Window \in Nat \ {0} /\ \A w \in WindowStarts : w \in Int
      /\ buckets \in [Keys -> Entries \union {NoEntry}]
  <2>1. buckets \in [Keys -> Entries \union {NoEntry}]
    BY Zenon DEF TypeOK
  <2> QED
    BY <2>1, NowType, WindowStartsInt, TruncateBounds, WindowAssumption
<1>1. ASSUME NEW k \in Keys, Allow(k) PROVE Remembers(j)'
  <2> DEFINE T == Truncate(now)
  <2>1. monotonic
    BY <1>1 DEF Allow
  <2>2. Remembers(k) /\ Remembers(j)
    BY <2>1 DEF CountInv
  <2>3. PICK estimated : LET n == IF estimated < Limit THEN 1 ELSE 0
                         IN  /\ now' = now
                             /\ buckets'[k] = [Rolled(k) EXCEPT !.currentCount = @ + n]
                             /\ \A i \in Keys \ {k} : buckets'[i] = buckets[i]
                                                       /\ admitted'[i] = admitted[i]
                             /\ admitted'[k][T] = Rolled(k).currentCount + n
                             /\ \A w \in WindowStarts \ {T} : admitted'[k][w] = admitted[k][w]
    BY <1>1, <2>2, AllowExact, Zenon
  <2>4. CASE j # k
    <3>1. now <= now' /\ buckets'[j] = buckets[j] /\ admitted'[j] = admitted[j]
      BY <1>0, <2>3, <2>4
    <3> QED
      BY <2>2, <3>1, RemembersLater
  <2>5. CASE j = k
    <3> DEFINE n == IF estimated < Limit THEN 1 ELSE 0
    <3>1. /\ Rolled(k) \in Entries /\ Rolled(k).windowStart = T
          /\ Rolled(k).previousCount = Admitted(k, T - Window)
          /\ \A w \in WindowStarts : w > T => admitted[k][w] = 0
      BY <2>2, RolledType, RolledExact
    <3>2. n \in Nat
      OBVIOUS
    <3>3. /\ now' = now /\ buckets'[k] = [Rolled(k) EXCEPT !.currentCount = @ + n]
          /\ admitted'[k][T] = Rolled(k).currentCount + n
          /\ \A w \in WindowStarts \ {T} : admitted'[k][w] = admitted[k][w]
      BY <2>3
    <3> HIDE DEF n, T
    <3>4. /\ buckets'[k].windowStart = T
          /\ buckets'[k].currentCount = Rolled(k).currentCount + n
          /\ buckets'[k].previousCount = Rolled(k).previousCount
          /\ Rolled(k).currentCount + n \in Nat
      BY <3>1, <3>2, <3>3 DEF Entries
    <3>5. buckets'[k] # NoEntry
      BY <3>4 DEF NoEntry
    <3>6. Admitted(k, buckets[k].windowStart - Window)' = Admitted(k, T - Window)
      <4>1. T - Window # T
        BY <1>0 DEF T
      <4> QED
        BY <3>3, <3>4, <4>1 DEF Admitted
    <3>7. \A w \in WindowStarts : w > T => admitted'[k][w] = 0
      BY <1>0, <3>1, <3>3 DEF T
    <3>8. Truncate(now)' = T
      BY <3>3 DEF T
    <3>9. T <= T
      BY <1>0 DEF T
    <3> QED
      BY <2>5, <3>1, <3>3, <3>4, <3>5, <3>6, <3>7, <3>8, <3>9, Zenon DEF Remembers
  <2> QED
    BY <2>4, <2>5
<1>2. CASE cleanup
  <2>1. /\ monotonic /\ now' = now /\ admitted' = admitted
        /\ buckets'[j] = IF Stale(buckets[j]) THEN NoEntry ELSE buckets[j]
    BY <1>2 DEF cleanup
  <2>2. Remembers(j) /\ now <= now'
    BY <1>0, <2>1 DEF CountInv
  <2>3. CASE Stale(buckets[j])
    <3>1. buckets[j] # NoEntry /\ buckets[j].windowStart < now - 2 * Window
      BY <2>3 DEF Stale
    <3>2. buckets[j].windowStart \in Int
      BY <1>0, <3>1 DEF Entries
    <3>3. \A w \in WindowStarts : w > buckets[j].windowStart => admitted[j][w] = 0
      BY <2>2, <3>1 DEF Remembers
    <3>4. \A w \in WindowStarts : w >= Truncate(now) - Window
                                    => w > buckets[j].windowStart
      BY <1>0, <3>1, <3>2
    <3> QED
      BY <2>1, <2>3, <3>3, <3>4 DEF Remembers
  <2>4. CASE ~Stale(buckets[j])
    BY <2>1, <2>2, <2>4, RemembersLater
  <2> QED
    BY <2>3, <2>4
<1>3. CASE Start \/ Stop \/ CleanerExit \/ Tick \/ UNCHANGED vars
  <2>1. monotonic /\ (now' = now \/ now' = now + 1)
        /\ buckets' = buckets /\ admitted' = admitted
    BY <1>3 DEF Start, Stop, CleanerExit, Tick, vars
  <2>2. now <= now' /\ Remembers(j)
    BY <1>0, <2>1 DEF CountInv
  <2> QED
    BY <2>1, <2>2, RemembersLater
<1>4. CASE StepBack
  BY <1>4 DEF StepBack
<1> QED
  BY <1>1, <1>2, <1>3, <1>4 DEF Next

LEMMA CountsFollow == TypeOK /\ CountInv => CountsExact
<1> SUFFICES ASSUME TypeOK, CountInv, monotonic, NEW k \in Keys
             PROVE  /\ Rolled(k).windowStart = Truncate(now)
                    /\ Rolled(k).currentCount = Admitted(k, Truncate(now))
                    /\ Rolled(k).previousCount = Admitted(k, Truncate(now) - Window)
  BY Zenon DEF CountsExact, Rolled
<1>1. Remembers(k)
  BY DEF CountInv
<1> QED
  BY <1>1, RolledExact

(***************************************************************************)
(* Lazy rolling and cleanup lose and invent no request as long as the wall *)
(* clock is not set back, for every limit, window and number of clients.   *)
(***************************************************************************)
THEOREM CountsTheorem == Spec => []CountsExact
  BY TypeOKInit, TypeOKNext, CountInit, CountNext, CountsFollow, PTL DEF Spec

-----------------------------------------------------------------------------
\* Multiplying by w keeps an order.
LEMMA Scaled ==
    ASSUME NEW w \in Nat \ {0}, NEW p \in Int, NEW q \in Int, p <= q
    PROVE  w * p <= w * q
<1>1. w * p \in Int /\ w * q \in Int
  OBVIOUS
<1>2. CASE p < q
  BY <1>1, <1>2, Apart
<1>3. CASE p = q
  BY <1>1, <1>3
<1> QED
  BY <1>2, <1>3

(***************************************************************************)
(* What the two answers of Allow mean for the true counts of the present   *)
(* and the previous window.                                                *)
(***************************************************************************)
LEMMA AnswerMeans ==
    ASSUME NEW e \in Entries, NEW t \in Int,
           e.windowStart <= t, t - e.windowStart < Window,
           NEW estimated \in Estimates(e, t)
    PROVE  /\ estimated < Limit =>
                Window * (e.currentCount + 1)
                  + (Window - (t - e.windowStart)) * e.previousCount
                  <= Window * (Limit + 1)
           /\ ~(estimated < Limit) => e.currentCount + e.previousCount >= Limit
<1> DEFINE cur == e.currentCount
           prev == e.previousCount
           left == Window - (t - e.windowStart)
           wt == Weighted(e, t)
           d == wt \div Window
<1>1. /\ cur \in Nat /\ prev \in Nat /\ e.windowStart \in Int
      /\ Window \in Nat \ {0} /\ Limit \in Nat
  BY WindowStartsInt, WindowAssumption, LimitAssumption DEF Entries
<1>2. left \in 1 .. Window /\ wt = prev * left
  BY <1>1 DEF Weighted
<1>3. /\ wt \in Nat /\ estimated \in Int /\ estimated <= cur + d
      /\ \/ estimated = cur + d
         \/ wt = Window * d /\ estimated = (cur + d) - 1
  BY EstimateBounds
<1>4. wt % Window \in 0 .. Window - 1 /\ d \in Int /\ wt = Window * d + (wt % Window)
  <2>1. \A n \in Int : /\ n % Window \in 0 .. Window - 1 /\ n \div Window \in Int
                       /\ n = Window * (n \div Window) + (n % Window)
    BY <1>1, Division
  <2>2. wt \in Int
    BY <1>3
  <2> HIDE DEF wt
  <2> QED
    BY <2>1, <2>2 DEF d
<1> HIDE DEF cur, prev, left, wt, d
<1>5. wt = left * prev /\ Window * d \in Int /\ Window * (cur + 1) \in Int
  BY <1>1, <1>2, <1>4
<1>6. ASSUME estimated < Limit
      PROVE  Window * (cur + 1) + left * prev <= Window * (Limit + 1)
  <2>1. CASE estimated = cur + d
    <3>1. Window * (cur + d + 2) <= Window * (Limit + 1)
      <4>1. cur + d + 2 \in Int /\ cur + d + 2 <= Limit + 1
        BY <1>1, <1>4, <1>6, <2>1
      <4> QED
        BY <1>1, <4>1, Scaled
    <3>2. Window * (cur + d + 2) = Window * (cur + 1) + Window * d + Window
      BY <1>1, <1>4
    <3>3. wt <= Window * d + Window
      BY <1>1, <1>3, <1>4, <1>5
    <3>4. Window * (Limit + 1) \in Int /\ wt \in Int
      BY <1>1, <1>3
    <3> QED
      BY <1>1, <1>5, <3>1, <3>2, <3>3, <3>4
  <2>2. CASE wt = Window * d /\ estimated = (cur + d) - 1
    <3>1. Window * (cur + d + 1) <= Window * (Limit + 1)
      <4>1. cur + d + 1 \in Int /\ cur + d + 1 <= Limit + 1
        BY <1>1, <1>4, <1>6, <2>2
      <4> QED
        BY <1>1, <4>1, Scaled
    <3>2. Window * (cur + d + 1) = Window * (cur + 1) + Window * d
      BY <1>1, <1>4
    <3> QED
      BY <1>5, <2>2, <3>1, <3>2
  <2> QED
    BY <1>3, <2>1, <2>2
<1>7. ASSUME ~(estimated < Limit) PROVE cur + prev >= Limit
  <2>1. wt <= Window * prev
    <3>1. CASE prev = 0
      BY <1>1, <1>2, <3>1
    <3>2. CASE prev # 0
      <4>1. prev * left <= prev * Window
        BY <1>1, <1>2, <3>2, Scaled
      <4>2. prev * Window = Window * prev
        BY <1>1
      <4> QED
        BY <1>2, <4>1, <4>2
    <3> QED
      BY <3>1, <3>2
  <2>2. d <= prev
    <3>1. CASE prev < d
      <4>1. Window * prev + Window <= Window * d /\ Window * prev \in Int
        BY <1>1, <1>4, <3>1, Apart
      <4> QED
        BY <1>1, <1>3, <1>4, <1>5, <2>1, <4>1
    <3> QED
      BY <1>1, <1>4, <3>1
  <2> QED
    BY <1>1, <1>3, <1>4, <1>7, <2>2
<1> QED
  BY <1>6, <1>7 DEF cur, prev, left

LEMMA AnswerNext ==
    TypeOK /\ TypeOK' /\ CountInv /\ SlidingLimit /\ NoFalseRejection /\ [Next]_vars
      => SlidingLimit' /\ NoFalseRejection'
<1> SUFFICES ASSUME TypeOK, TypeOK', CountInv, SlidingLimit, NoFalseRejection,
                    [Next]_vars
             PROVE  SlidingLimit' /\ NoFalseRejection'
  OBVIOUS
<1>1. ASSUME NEW k \in Keys, Allow(k), monotonic'
      PROVE  SlidingLimit' /\ NoFalseRejection'
  <2> DEFINE T == Truncate(now)
             e == Rolled(k)
  <2>1. monotonic
    BY <1>1 DEF Allow
  <2>2. Remembers(k)
    BY <2>1 DEF CountInv
  <2>3. PICK estimated \in Estimates(e, now) :
          LET n == IF estimated < Limit THEN 1 ELSE 0
          IN  /\ estimated \in Int /\ now' = now
              /\ verdict' = [key |-> k, ok |-> estimated < Limit]
              /\ admitted'[k][T] = e.currentCount + n
              /\ \A w \in WindowStarts \ {T} : admitted'[k][w] = admitted[k][w]
    BY <1>1, <2>2, AllowExact, Zenon
  <2>4. /\ e \in Entries /\ e.windowStart = T /\ now - T < Window
        /\ e.previousCount = Admitted(k, T - Window)
        /\ e.currentCount \in Nat
    BY <2>2, RolledType, RolledExact DEF Entries
  <2>5. /\ now \in Int /\ T \in Int /\ T <= now /\ T \in WindowStarts
        /\ Window \in Nat \ {0}
    BY NowType, TruncateBounds, WindowStartsInt, WindowAssumption
  <2>6. Truncate(now') = T
    BY <2>3
  <2> HIDE DEF T, e
  <2>7. Admitted(k, Truncate(now) - Window)' = e.previousCount
    <3>1. T - Window # T
      BY <2>5
    <3> QED
      BY <2>3, <2>4, <2>6, <3>1 DEF Admitted
  <2>8. Admitted(k, Truncate(now))' = e.currentCount + (IF estimated < Limit THEN 1 ELSE 0)
    BY <2>3, <2>5, <2>6 DEF Admitted
  <2>9. verdict'.key = k /\ verdict'.ok = (estimated < Limit) /\ now' = now
    BY <2>3
  <2>10. /\ estimated < Limit =>
                Window * (e.currentCount + 1) + (Window - (now - T)) * e.previousCount
                  <= Window * (Limit + 1)
         /\ ~(estimated < Limit) => e.currentCount + e.previousCount >= Limit
    BY <2>3, <2>4, <2>5, AnswerMeans
  <2>11. SlidingLimit'
    <3> SUFFICES ASSUME verdict'.ok
                 PROVE  Window * Admitted(k, Truncate(now))'
                          + (Window - (now - T)) * Admitted(k, Truncate(now) - Window)'
                          <= Window * (Limit + 1)
      BY <2>6, <2>9, Zenon DEF SlidingLimit
    <3>1. Admitted(k, Truncate(now))' = e.currentCount + 1
      BY <2>8, <2>9
    <3> QED
      BY <2>7, <2>9, <2>10, <3>1
  <2>12. NoFalseRejection'
    <3> SUFFICES ASSUME ~verdict'.ok
                 PROVE  Admitted(k, Truncate(now))'
                          + Admitted(k, Truncate(now) - Window)' >= Limit
      BY <2>9, Zenon DEF NoFalseRejection
    <3>1. ~(estimated < Limit)
      BY <2>9
    <3>2. Admitted(k, Truncate(now))' = e.currentCount
      BY <2>4, <2>8, <3>1
    <3> QED
      BY <2>7, <2>10, <3>1, <3>2, Zenon
  <2> QED
    BY <2>11, <2>12
<1>2. CASE cleanup \/ Start \/ Stop \/ CleanerExit \/ Tick \/ StepBack
  <2>1. verdict' = NoVerdict
    BY <1>2 DEF cleanup, Start, Stop, CleanerExit, Tick, StepBack
  <2>2. verdict'.key \notin Keys
    BY <2>1, NoKeyAssumption DEF NoVerdict
  <2> QED
    BY <2>2, Zenon DEF SlidingLimit, NoFalseRejection
<1>3. CASE UNCHANGED vars
  BY <1>3 DEF vars, SlidingLimit, NoFalseRejection, Admitted
<1>4. CASE ~monotonic'
  BY <1>4, Zenon DEF SlidingLimit, NoFalseRejection
<1> QED
  BY <1>1, <1>2, <1>3, <1>4 DEF Next

LEMMA AnswerInit == Init => SlidingLimit /\ NoFalseRejection
<1> SUFFICES ASSUME Init PROVE verdict.key \notin Keys
  BY Zenon DEF SlidingLimit, NoFalseRejection
<1> QED
  BY NoKeyAssumption DEF Init, NoVerdict

(***************************************************************************)
(* An admitted request never takes the weighted count above the limit, for *)
(* every limit, window and number of clients.                              *)
(***************************************************************************)
THEOREM SlidingTheorem == Spec => []SlidingLimit
  BY TypeOKInit, TypeOKNext, CountInit, CountNext, AnswerInit, AnswerNext, PTL DEF Spec

(***************************************************************************)
(* A client with fewer than Limit requests admitted in the present and the *)
(* previous window together is never rejected.                             *)
(***************************************************************************)
THEOREM RejectionTheorem == Spec => []NoFalseRejection
  BY TypeOKInit, TypeOKNext, CountInit, CountNext, AnswerInit, AnswerNext, PTL DEF Spec
=============================================================================
