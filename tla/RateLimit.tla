----------------------------- MODULE RateLimit -----------------------------
(***************************************************************************)
(* The per-client-IP rate limiter: internal/ratelimit, called by           *)
(* Router.allowRequest for every request.                                  *)
(*                                                                         *)
(* Allow and cleanup hold the limiter's mutex throughout, so each is one   *)
(* atomic action; requests of all clients and the cleanup goroutine        *)
(* interleave.  Windows are aligned to multiples of the window length and  *)
(* rolled lazily, by the next request of the same key.  Time is in ticks   *)
(* of the wall clock (Truncate drops Go's monotonic reading), which may be *)
(* set back.                                                               *)
(*                                                                         *)
(* The estimate is a float64.  The model computes it exactly and then      *)
(* allows for rounding: when the exact weighted count is an integer that   *)
(* the weight does not give exactly, int() may truncate it to one less.    *)
(***************************************************************************)
EXTENDS Integers

CONSTANTS
    Keys,         \* client IPs
    NoKey,        \* no client
    Limit,        \* requests per window
    Window,       \* window length in ticks
    MaxTime,      \* bound: the clock stops there
    MayStepBack   \* the wall clock may be set back

ASSUME NoKeyAssumption == NoKey \notin Keys
ASSUME LimitAssumption == Limit \in Nat
\* A window that is not positive parses, and then nothing is ever limited
\* (see the README); it is not modelled.
ASSUME WindowAssumption == Window \in Nat \ {0}
ASSUME MaxTimeAssumption == MaxTime \in Nat
ASSUME StepBackAssumption == MayStepBack \in BOOLEAN

VARIABLES
    now,        \* the wall clock
    buckets,    \* the entry of each key, or NoEntry
    cleaner,    \* the cleanup goroutine: "none", "running" or "stopped"
    stopped,    \* stopCh is closed
    admitted,   \* history: requests admitted, by key and start of window
    verdict,    \* history: the last answer of Allow, and to whom
    monotonic   \* history: the clock has never been set back

vars == <<now, buckets, cleaner, stopped, admitted, verdict, monotonic>>

NoEntry == [currentCount |-> -1, previousCount |-> -1, windowStart |-> -1]

NoVerdict == [key |-> NoKey, ok |-> TRUE]

\* now.Truncate(rl.window)
Truncate(t) == t - (t % Window)

WindowStarts == {Truncate(t) : t \in 0 .. MaxTime}

Entries == [currentCount : Nat, previousCount : Nat, windowStart : WindowStarts]

Init ==
    /\ now = 0
    /\ buckets = [k \in Keys |-> NoEntry]
    /\ cleaner = "none"
    /\ stopped = FALSE
    /\ admitted = [k \in Keys |-> [w \in WindowStarts |-> 0]]
    /\ verdict = NoVerdict
    /\ monotonic = TRUE

-----------------------------------------------------------------------------
\* The entry Allow works on: a new one when the key has none.
EntryOf(k, t) ==
    IF buckets[k] = NoEntry
    THEN [currentCount |-> 0, previousCount |-> 0, windowStart |-> Truncate(t)]
    ELSE buckets[k]

\* Mutant of Roll: any other window is a new one, an earlier one too.
RollMutEarlier(e, t) ==
    IF Truncate(t) # e.windowStart
    THEN [currentCount  |-> 0,
          previousCount |-> IF t - e.windowStart >= 2 * Window THEN 0 ELSE e.currentCount,
          windowStart   |-> Truncate(t)]
    ELSE e

\* Roll the entry into the window of t.
Roll(e, t) ==
    LET elapsed == t - e.windowStart
    IN  IF elapsed >= Window
        THEN [currentCount  |-> 0,
              previousCount |-> IF elapsed >= 2 * Window THEN 0 ELSE e.currentCount,
              windowStart   |-> Truncate(t)]
        ELSE e

\* previousCount * weight, times Window.
Weighted(e, t) == e.previousCount * (Window - (t - e.windowStart))

\* Mutant of Estimates: the previous window is not weighed in.
EstimatesMutFixed(e, t) == {e.currentCount}

\* The values int(estimated) can have.
Estimates(e, t) ==
    LET exact == e.currentCount + (Weighted(e, t) \div Window)
        rounds == /\ Weighted(e, t) % Window = 0
                  /\ Weighted(e, t) > 0 /\ t # e.windowStart
    IN  {exact} \union (IF rounds THEN {exact - 1} ELSE {})

\* history: counted up to one above the limit, enough to see it passed
OneMore(n) == IF n > Limit THEN n ELSE n + 1

\* Mutant of Admits: the request itself is counted twice.
AdmitsMutEarly(estimated) == estimated + 1 < Limit

Admits(estimated) == estimated < Limit

Increment(e) == [e EXCEPT !.currentCount = @ + 1]

\* Allow(key), at the current time.
Allow(k) ==
    LET e == Roll(EntryOf(k, now), now)
    IN  \E estimated \in Estimates(e, now) :
          /\ verdict' = [key |-> k, ok |-> Admits(estimated)]
          /\ IF Admits(estimated)
             THEN /\ buckets' = [buckets EXCEPT ![k] = Increment(e)]
                  /\ admitted' = [admitted EXCEPT ![k][Truncate(now)] = OneMore(@)]
             ELSE /\ buckets' = [buckets EXCEPT ![k] = e]
                  /\ UNCHANGED admitted
          /\ UNCHANGED <<now, cleaner, stopped, monotonic>>

\* Mutant of Stale: entries of the previous window are dropped too.
StaleMutWindow(e) == e # NoEntry /\ e.windowStart < now

\* cleanup drops the entries older than two windows.
Stale(e) == e # NoEntry /\ e.windowStart < now - 2 * Window

cleanup ==
    /\ cleaner = "running"
    /\ buckets' = [k \in Keys |-> IF Stale(buckets[k]) THEN NoEntry ELSE buckets[k]]
    /\ verdict' = NoVerdict
    /\ UNCHANGED <<now, cleaner, stopped, admitted, monotonic>>

\* Start spawns the cleanup goroutine; the gateway calls it once.
Start ==
    /\ cleaner = "none"
    /\ cleaner' = "running"
    /\ verdict' = NoVerdict
    /\ UNCHANGED <<now, buckets, stopped, admitted, monotonic>>

\* Stop closes stopCh, once; the goroutine sees it at its next select, where a
\* tick that is ready too may still win.
Stop ==
    /\ stopped' = TRUE
    /\ verdict' = NoVerdict
    /\ UNCHANGED <<now, buckets, cleaner, admitted, monotonic>>

CleanerExit ==
    /\ cleaner = "running" /\ stopped
    /\ cleaner' = "stopped"
    /\ verdict' = NoVerdict
    /\ UNCHANGED <<now, buckets, stopped, admitted, monotonic>>

Tick ==
    /\ now < MaxTime
    /\ now' = now + 1
    /\ verdict' = NoVerdict
    /\ UNCHANGED <<buckets, cleaner, stopped, admitted, monotonic>>

\* The wall clock is set back.
StepBack ==
    /\ MayStepBack
    /\ \E t \in 0 .. now - 1 : now' = t
    /\ verdict' = NoVerdict
    /\ monotonic' = FALSE
    /\ UNCHANGED <<buckets, cleaner, stopped, admitted>>

Next ==
    \/ \E k \in Keys : Allow(k)
    \/ cleanup \/ Start \/ Stop \/ CleanerExit
    \/ Tick \/ StepBack

Spec == Init /\ [][Next]_vars

-----------------------------------------------------------------------------
TypeOK ==
    /\ now \in 0 .. MaxTime
    /\ buckets \in [Keys -> Entries \union {NoEntry}]
    /\ cleaner \in {"none", "running", "stopped"}
    /\ stopped \in BOOLEAN
    /\ admitted \in [Keys -> [WindowStarts -> Nat]]
    /\ verdict \in [key : Keys \union {NoKey}, ok : BOOLEAN]
    /\ monotonic \in BOOLEAN

\* Requests of key k really admitted in the window that starts at w.
Admitted(k, w) == IF w \in WindowStarts THEN admitted[k][w] ELSE 0

(***************************************************************************)
(* Lazy rolling and cleanup lose nothing and invent nothing: the counts    *)
(* the next Allow of a key works with, whatever was rolled, skipped or     *)
(* deleted since its last request, are exactly the requests admitted in    *)
(* the current and in the previous window, as long as the wall clock has   *)
(* not been set back.                                                      *)
(***************************************************************************)
CountsExact ==
    monotonic => \A k \in Keys :
        LET e == Roll(EntryOf(k, now), now)
        IN  /\ e.windowStart = Truncate(now)
            /\ e.currentCount = Admitted(k, Truncate(now))
            /\ e.previousCount = Admitted(k, Truncate(now) - Window)

(***************************************************************************)
(* The sliding limit: an admitted request never takes the requests of this *)
(* window, plus those of the previous one weighed by the part of it still  *)
(* in sight, more than one request above the limit.  The one request is    *)
(* the truncation of int(): what was weighed before the request may be     *)
(* Limit less a fraction, or Limit itself when the float came out below.   *)
(***************************************************************************)
SlidingLimit ==
    monotonic /\ verdict.key \in Keys /\ verdict.ok =>
        LET w == Truncate(now)
        IN  Window * Admitted(verdict.key, w)
              + (Window - (now - w)) * Admitted(verdict.key, w - Window)
              <= Window * (Limit + 1)

(***************************************************************************)
(* Setting the wall clock back, which makes elapsed negative and the       *)
(* weight larger than 1 (ratelimit.go:90, 103), gives no client a second   *)
(* quota: as long as Allow has an entry for a key, the entry's window      *)
(* never moves back, every request it admits is counted, the count does    *)
(* not pass the limit, and it starts again only in a later window.  (That  *)
(* is a bound on what is admitted between two such starts, not on what is  *)
(* admitted in an aligned window: a window the clock enters twice may      *)
(* admit more than Limit requests.)                                        *)
(***************************************************************************)
QuotaByWindow ==
    [][\A k \in Keys :
          LET e == buckets[k]
              f == buckets'[k]
              counted == IF verdict' = [key |-> k, ok |-> TRUE] THEN 1 ELSE 0
          IN  f # NoEntry =>
                  /\ f.currentCount <= Limit
                  /\ e # NoEntry =>
                         \/ f.windowStart > e.windowStart /\ f.currentCount = counted
                         \/ /\ f.windowStart = e.windowStart
                            /\ f.previousCount = e.previousCount
                            /\ f.currentCount = e.currentCount + counted]_vars

(***************************************************************************)
(* A client within its limit is never rejected: a rejected client had at   *)
(* least Limit requests admitted in this and the previous window together. *)
(***************************************************************************)
NoFalseRejection ==
    monotonic /\ verdict.key \in Keys /\ ~verdict.ok =>
        Admitted(verdict.key, Truncate(now))
          + Admitted(verdict.key, Truncate(now) - Window) >= Limit
=============================================================================
