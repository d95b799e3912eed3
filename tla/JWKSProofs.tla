----------------------------- MODULE JWKSProofs -----------------------------
(* Proofs about the key cache of the auth middleware, module JWKS. *)
EXTENDS JWKS, TLAPS

\* What is about to be stored was published as a whole too.
CacheInv ==
    /\ keys \in past
    /\ Usable(published) \in past
    /\ \A a \in Actors : pc[a] = "store" => fetched[a] \in past

\* A request whose key stays published carries the key from its own fetch to
\* the second lookup, unless another store comes between.
CarryInv ==
    \A c \in Requests :
        stable[c] /\ kid[c] \notin Unusable =>
            /\ kid[c] \in published
            /\ pc[c] = "store" => kid[c] \in fetched[c]
            /\ pc[c] = "retry" /\ ~overlapped[c] => kid[c] \in keys

LEMMA TypeOKInit == Init => TypeOK
  BY JWKSAssumption DEF Init, TypeOK, Usable, RequestPCs, Outcomes, Actors

\* The fetched sets are those of usable keys, which TypeOK leaves open.
FetchedInv == \A a \in Actors : fetched[a] \subseteq Kids \ Unusable

LEMMA TypeOKNext == TypeOK /\ FetchedInv /\ [Next]_vars => TypeOK' /\ FetchedInv'
<1> SUFFICES ASSUME TypeOK, FetchedInv, [Next]_vars PROVE TypeOK' /\ FetchedInv'
  OBVIOUS
<1> USE JWKSAssumption
    DEF TypeOK, FetchedInv, RequestPCs, Outcomes, Actors, Goto, End, Continue
<1>1. CASE Rotate
  BY <1>1 DEF Rotate, Usable
<1>2. CASE Tick
  BY <1>2 DEF Tick
<1>3. ASSUME NEW a \in Actors, Fetch(a) PROVE TypeOK' /\ FetchedInv'
  BY <1>3 DEF Fetch, Usable
<1>4. ASSUME NEW a \in Actors, FetchFails(a) PROVE TypeOK' /\ FetchedInv'
  BY <1>4 DEF FetchFails
<1>5. ASSUME NEW a \in Actors, Store(a) PROVE TypeOK' /\ FetchedInv'
  BY <1>5 DEF Store, Overlaps
<1>6. ASSUME NEW c \in Requests, Begin(c) PROVE TypeOK' /\ FetchedInv'
  BY <1>6 DEF Begin
<1>7. ASSUME NEW c \in Requests, Lookup(c) PROVE TypeOK' /\ FetchedInv'
  BY <1>7 DEF Lookup, Verify
<1>8. ASSUME NEW c \in Requests, Retry(c) PROVE TypeOK' /\ FetchedInv'
  BY <1>8 DEF Retry, Verify
<1>9. CASE UNCHANGED vars
  BY <1>9 DEF vars
<1> QED
  BY <1>1, <1>2, <1>3, <1>4, <1>5, <1>6, <1>7, <1>8, <1>9 DEF Next, KeyFunc, refresh

LEMMA CacheInvNext == TypeOK /\ CacheInv /\ [Next]_vars => CacheInv'
<1> SUFFICES ASSUME TypeOK, CacheInv, [Next]_vars PROVE CacheInv'
  OBVIOUS
<1> USE JWKSAssumption DEF TypeOK, CacheInv, Actors, Goto, End, Continue
<1>1. CASE Rotate
  BY <1>1 DEF Rotate
<1>2. CASE Tick
  BY <1>2 DEF Tick
<1>3. ASSUME NEW a \in Actors, Fetch(a) PROVE CacheInv'
  BY <1>3 DEF Fetch
<1>4. ASSUME NEW a \in Actors, FetchFails(a) PROVE CacheInv'
  BY <1>4 DEF FetchFails
<1>5. ASSUME NEW a \in Actors, Store(a) PROVE CacheInv'
  BY <1>5 DEF Store
<1>6. ASSUME NEW c \in Requests, Begin(c) PROVE CacheInv'
  BY <1>6 DEF Begin
<1>7. ASSUME NEW c \in Requests, Lookup(c) PROVE CacheInv'
  BY <1>7 DEF Lookup, Verify
<1>8. ASSUME NEW c \in Requests, Retry(c) PROVE CacheInv'
  BY <1>8 DEF Retry, Verify
<1>9. CASE UNCHANGED vars
  BY <1>9 DEF vars
<1> QED
  BY <1>1, <1>2, <1>3, <1>4, <1>5, <1>6, <1>7, <1>8, <1>9 DEF Next, KeyFunc, refresh

LEMMA CarryInvNext == TypeOK /\ CarryInv /\ [Next]_vars => CarryInv'
<1> SUFFICES ASSUME TypeOK, CarryInv, [Next]_vars PROVE CarryInv'
  OBVIOUS
<1> USE JWKSAssumption DEF TypeOK, CarryInv, Actors, Goto, End, Continue
<1>1. CASE Rotate
  BY <1>1, ZenonT(40) DEF Rotate
<1>2. CASE Tick
  BY <1>2 DEF Tick
<1>3. ASSUME NEW a \in Actors, Fetch(a) PROVE CarryInv'
  BY <1>3 DEF Fetch, Usable
<1>4. ASSUME NEW a \in Actors, FetchFails(a) PROVE CarryInv'
  BY <1>4 DEF FetchFails
<1>5. ASSUME NEW a \in Actors, Store(a) PROVE CarryInv'
  BY <1>5 DEF Store, Overlaps
<1>6. ASSUME NEW c \in Requests, Begin(c) PROVE CarryInv'
  BY <1>6, ZenonT(40) DEF Begin
<1>7. ASSUME NEW c \in Requests, Lookup(c) PROVE CarryInv'
  BY <1>7 DEF Lookup, Verify
<1>8. ASSUME NEW c \in Requests, Retry(c) PROVE CarryInv'
  BY <1>8 DEF Retry, Verify
<1>9. CASE UNCHANGED vars
  BY <1>9 DEF vars
<1> QED
  BY <1>1, <1>2, <1>3, <1>4, <1>5, <1>6, <1>7, <1>8, <1>9 DEF Next, KeyFunc, refresh

\* For any number of requests that refresh concurrently with one another and
\* with the background goroutine, the cache is one published set as a whole.
THEOREM CacheTheorem == Spec => []CacheIsPublishedSet
<1>1. Init => FetchedInv /\ CacheInv
  BY JWKSAssumption DEF Init, FetchedInv, CacheInv, Actors
<1>2. CacheInv => CacheIsPublishedSet
  BY DEF CacheInv, CacheIsPublishedSet
<1> QED
  BY <1>1, <1>2, TypeOKInit, TypeOKNext, CacheInvNext, PTL DEF Spec

\* A request is refused for an unknown key that is published only when another
\* refresh was stored between its own and its second lookup.
THEOREM FoundTheorem == Spec => FoundUnlessOverlapped
<1> DEFINE Found ==
      \A c \in Requests :
         /\ outcome[c] = "none" /\ outcome'[c] = "key_not_found"
         /\ stable[c] /\ kid[c] \notin Unusable
         => overlapped[c]
<1>1. Init => FetchedInv /\ CarryInv
  BY JWKSAssumption DEF Init, FetchedInv, CarryInv, Actors
<1>2. TypeOK /\ CarryInv /\ [Next]_vars => [Found]_vars
  <2> SUFFICES ASSUME TypeOK, CarryInv, Next PROVE Found
    OBVIOUS
  <2> USE JWKSAssumption DEF TypeOK, CarryInv, Actors, Goto, End, Continue
  <2>1. CASE Rotate
    BY <2>1 DEF Rotate
  <2>2. CASE Tick
    BY <2>2 DEF Tick
  <2>3. ASSUME NEW a \in Actors, Fetch(a) PROVE Found
    BY <2>3 DEF Fetch
  <2>4. ASSUME NEW a \in Actors, FetchFails(a) PROVE Found
    BY <2>4 DEF FetchFails
  <2>5. ASSUME NEW a \in Actors, Store(a) PROVE Found
    BY <2>5 DEF Store
  <2>6. ASSUME NEW c \in Requests, Begin(c) PROVE Found
    BY <2>6 DEF Begin
  <2>7. ASSUME NEW c \in Requests, Lookup(c) PROVE Found
    BY <2>7 DEF Lookup, Verify
  <2>8. ASSUME NEW c \in Requests, Retry(c) PROVE Found
    BY <2>8 DEF Retry, Verify
  <2> QED
    BY <2>1, <2>2, <2>3, <2>4, <2>5, <2>6, <2>7, <2>8 DEF Next, KeyFunc, refresh
<1>3. QED
  BY <1>1, <1>2, TypeOKInit, TypeOKNext, CarryInvNext, PTL DEF Spec, FoundUnlessOverlapped
=============================================================================
