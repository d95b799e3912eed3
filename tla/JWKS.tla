-------------------------------- MODULE JWKS --------------------------------
(***************************************************************************)
(* The key cache of the auth middleware: jwksResolver in                   *)
(* builtin/middlewares/auth/jwks.go, and the Handler that asks it.         *)
(*                                                                         *)
(* Requests look their key up, refresh the cache when it is not there, and *)
(* look it up again; a background goroutine refreshes it by a ticker.      *)
(* Refreshes are not serialized: the key set is fetched without the lock,  *)
(* and only the swap of the map is under it.  A key is its kid.  The       *)
(* issuer (external) publishes a new set of keys now and then, some of     *)
(* which jwk.Export does not turn into an RSA key.  Nothing calls stop     *)
(* while the gateway runs, so the background goroutine goes on for ever.   *)
(***************************************************************************)
EXTENDS Naturals, FiniteSets

CONSTANTS
    Kids,          \* key ids
    Unusable,      \* those of keys that are not RSA keys
    Requests,      \* requests in the middleware at the same time
    Refresher,     \* the background goroutine
    MaxRotations   \* bound: changes of the published set

ASSUME JWKSAssumption ==
    /\ Unusable \subseteq Kids
    /\ Refresher \notin Requests
    /\ MaxRotations \in Nat

Actors == Requests \union {Refresher}

VARIABLES
    published,   \* the issuer's key set
    rotations,   \* how often it has changed
    keys,        \* jwksResolver.keys
    pc,          \* where each actor is
    fetched,     \* newKeys of its refresh
    kid,         \* the key id of the request's token
    outcome,     \* how the request ended
    past,        \* history: what there was to cache, at any time
    stable,      \* history: the request's key was published since it began
    overlapped   \* history: another refresh was stored after the request's own

vars == <<published, rotations, keys, pc, fetched, kid, outcome, past, stable, overlapped>>

RequestPCs == {"idle", "lookup", "fetch", "store", "retry", "done"}
Outcomes == {"none", "served", "invalid_token", "fetch_failed", "key_not_found"}

\* Non-RSA keys are skipped.
Usable(set) == set \ Unusable

\* newJWKSResolver has fetched the first set and started the goroutine.
Init ==
    /\ published \in SUBSET Kids
    /\ rotations = 0
    /\ keys = Usable(published)
    /\ pc = [a \in Actors |-> "idle"]
    /\ fetched = [a \in Actors |-> {}]
    /\ kid \in [Requests -> Kids]
    /\ outcome = [c \in Requests |-> "none"]
    /\ past = {Usable(published)}
    /\ stable = [c \in Requests |-> FALSE]
    /\ overlapped = [c \in Requests |-> FALSE]

Goto(a, from, to) == pc[a] = from /\ pc' = [pc EXCEPT ![a] = to]

\* The request is answered; what was recorded about it is no longer needed.
End(c, how) ==
    /\ outcome' = [outcome EXCEPT ![c] = how]
    /\ stable' = [stable EXCEPT ![c] = FALSE]
    /\ overlapped' = [overlapped EXCEPT ![c] = FALSE]

Continue == UNCHANGED <<outcome, stable, overlapped>>

\* The issuer rotates its keys.
Rotate ==
    /\ rotations < MaxRotations
    /\ rotations' = rotations + 1
    /\ \E set \in (SUBSET Kids) \ {published} :
          /\ published' = set
          /\ past' = past \union {Usable(set)}
          /\ stable' = [c \in Requests |-> stable[c] /\ kid[c] \in set]
    /\ UNCHANGED <<keys, pc, fetched, kid, outcome, overlapped>>

-----------------------------------------------------------------------------
(* Handler and KeyFunc *)

\* A request with a bearer token of the configured algorithm and with a kid;
\* others are answered 401 without touching the cache.
Begin(c) ==
    /\ pc[c] \in {"idle", "done"} /\ pc' = [pc EXCEPT ![c] = "lookup"]
    /\ \E k \in Kids :
          /\ kid' = [kid EXCEPT ![c] = k]
          /\ stable' = [stable EXCEPT ![c] = k \in published]
    /\ outcome' = [outcome EXCEPT ![c] = "none"]
    /\ UNCHANGED <<published, rotations, keys, fetched, past, overlapped>>

\* A key was found.  The signature, the times and the claims are checked (jwt
\* library and validateClaims): the next handler runs, or the answer is 401.
Verify(c, from) ==
    /\ kid[c] \in keys
    /\ Goto(c, from, "done")
    /\ End(c, "served") \/ End(c, "invalid_token")

\* The first lookup, under the read lock.
Lookup(c) ==
    /\ \/ Verify(c, "lookup")
       \/ kid[c] \notin keys /\ Goto(c, "lookup", "fetch") /\ Continue
    /\ UNCHANGED <<published, rotations, keys, fetched, kid, past>>

\* Mutant of Retry: refresh until the key is there.
RetryMutLoop(c) ==
    /\ \/ Verify(c, "retry")
       \/ kid[c] \notin keys /\ Goto(c, "retry", "fetch") /\ Continue
    /\ UNCHANGED <<published, rotations, keys, fetched, kid, past>>

\* Mutant of Retry: the result of the first lookup is used again.
RetryMutFirst(c) ==
    /\ Goto(c, "retry", "done") /\ End(c, "key_not_found")
    /\ UNCHANGED <<published, rotations, keys, fetched, kid, past>>

\* The second lookup, after the refresh.
Retry(c) ==
    /\ \/ Verify(c, "retry")
       \/ kid[c] \notin keys /\ Goto(c, "retry", "done") /\ End(c, "key_not_found")
    /\ UNCHANGED <<published, rotations, keys, fetched, kid, past>>

-----------------------------------------------------------------------------
(* refresh, by a request or by the background goroutine *)

\* start: the ticker fires.
Tick ==
    /\ Goto(Refresher, "idle", "fetch")
    /\ UNCHANGED <<published, rotations, keys, fetched, kid, outcome, past, stable, overlapped>>

\* Mutant of Fetch: a key that cannot be exported fails the refresh.
FetchMutStrict(a) ==
    /\ Goto(a, "fetch", "store") /\ published \cap Unusable = {}
    /\ fetched' = [fetched EXCEPT ![a] = published]
    /\ UNCHANGED <<published, rotations, keys, kid, outcome, past, stable, overlapped>>

\* jwk.Fetch: the issuer answers with what it publishes at this moment.
Fetch(a) ==
    /\ Goto(a, "fetch", "store")
    /\ fetched' = [fetched EXCEPT ![a] = Usable(published)]
    /\ UNCHANGED <<published, rotations, keys, kid, outcome, past, stable, overlapped>>

\* jwk.Fetch fails or times out: a request is refused, the goroutine logs it.
FetchFails(a) ==
    /\ \/ a \in Requests /\ Goto(a, "fetch", "done") /\ End(a, "fetch_failed")
       \/ a = Refresher /\ Goto(a, "fetch", "idle") /\ Continue
    /\ UNCHANGED <<published, rotations, keys, fetched, kid, past>>

\* The requests between the end of their own refresh and the second lookup
\* see the store of actor a.
Overlaps(a) ==
    overlapped' = [c \in Requests |-> overlapped[c] \/ (c # a /\ pc[c] = "retry")]

\* Mutant of Store: the keys are added to the map.
StoreMutMerge(a) ==
    /\ Goto(a, "store", IF a \in Requests THEN "retry" ELSE "idle")
    /\ keys' = keys \union fetched[a]
    /\ fetched' = [fetched EXCEPT ![a] = {}]
    /\ Overlaps(a)
    /\ UNCHANGED <<published, rotations, kid, outcome, past, stable>>

\* r.keys = newKeys, under the lock.
Store(a) ==
    /\ Goto(a, "store", IF a \in Requests THEN "retry" ELSE "idle")
    /\ keys' = fetched[a]
    /\ fetched' = [fetched EXCEPT ![a] = {}]
    /\ Overlaps(a)
    /\ UNCHANGED <<published, rotations, kid, outcome, past, stable>>

refresh(a) == Fetch(a) \/ FetchFails(a) \/ Store(a)
KeyFunc(c) == Lookup(c) \/ refresh(c) \/ Retry(c)

Next ==
    \/ Rotate \/ Tick \/ refresh(Refresher)
    \/ \E c \in Requests : Begin(c) \/ KeyFunc(c)

Spec == Init /\ [][Next]_vars

\* Goroutines are scheduled, every fetch ends (it has a timeout), and the
\* issuer answers the background goroutine again and again.
FairSpec ==
    /\ Spec
    /\ WF_vars(Tick) /\ WF_vars(refresh(Refresher)) /\ SF_vars(Fetch(Refresher))
    /\ \A c \in Requests : WF_vars(KeyFunc(c))

-----------------------------------------------------------------------------
\* Types; the cache holds no key that was not exported.
TypeOK ==
    /\ published \subseteq Kids /\ rotations \in 0 .. MaxRotations
    /\ keys \subseteq Kids \ Unusable
    /\ pc \in [Actors -> RequestPCs]
    /\ fetched \in [Actors -> SUBSET Kids]
    /\ kid \in [Requests -> Kids]
    /\ outcome \in [Requests -> Outcomes]
    /\ past \subseteq SUBSET Kids
    /\ stable \in [Requests -> BOOLEAN] /\ overlapped \in [Requests -> BOOLEAN]

(***************************************************************************)
(* The cache is always one key set the issuer published, as a whole: never *)
(* a mix of two, never half of one, and a refresh that fails leaves it as  *)
(* it was.  So a key the issuer withdrew goes with the next refresh.       *)
(***************************************************************************)
CacheIsPublishedSet == keys \in past

(***************************************************************************)
(* "Refresh JWKS and try again" (jwks.go:51): a request with a key that    *)
(* was published when it arrived, and still is, is refused for an unknown  *)
(* key only if another refresh was stored between its own and its second   *)
(* lookup.  (Then it can be: that refresh may have fetched earlier.)       *)
(***************************************************************************)
FoundUnlessOverlapped ==
    [][\A c \in Requests :
         /\ outcome[c] = "none" /\ outcome'[c] = "key_not_found"
         /\ stable[c] /\ kid[c] \notin Unusable
         => overlapped[c]]_vars

(***************************************************************************)
(* Refreshes that overtake one another do no lasting harm: once the issuer *)
(* no longer changes its keys, the cache becomes what is published and     *)
(* stays so, withdrawn keys gone.                                          *)
(***************************************************************************)
CacheCatchesUp == <>[](keys = Usable(published))

\* Every request is decided, even if its key is never published.
RequestsDecided == \A c \in Requests : (pc[c] = "lookup") ~> (pc[c] = "done")
=============================================================================
