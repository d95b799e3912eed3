-------------------------- MODULE ForwardingProofs --------------------------
(* Proofs about module Forwarding: for all addresses, trusted ranges and   *)
(* numbers of hops and claims.                                             *)
EXTENDS Forwarding, TLAPS

(***************************************************************************)
(* Why the scan finds the origin: a request either comes from it directly, *)
(* or from a trusted hop and its list ends in the origin followed by       *)
(* trusted addresses only.                                                 *)
(***************************************************************************)
ListedInv ==
    origin \notin Trusted \union Zoned =>
        \/ request.peer = origin
        \/ /\ request.peer \in Trusted
           /\ \E i \in DOMAIN request.xff : EndsAt(request.xff, i) /\ request.xff[i] = origin

\* The scan ends at one place.
LEMMA EndsOnce ==
    ASSUME NEW xff \in Seq(Texts), NEW i \in DOMAIN xff, EndsAt(xff, i)
    PROVE  (CHOOSE k \in DOMAIN xff : EndsAt(xff, k)) = i
<1>1. \A k \in DOMAIN xff : EndsAt(xff, k) => k = i
  <2> SUFFICES ASSUME NEW k \in DOMAIN xff, EndsAt(xff, k) PROVE k = i
    OBVIOUS
  <2>1. k \in Int /\ i \in Int
    OBVIOUS
  <2>2. ~(k > i) /\ ~(i > k)
    BY DEF EndsAt
  <2> QED
    BY <2>1, <2>2
<1> QED
  BY <1>1

LEMMA ExtractType ==
    ASSUME NEW r \in Requests PROVE extractClientIP(r) \in Addresses
<1>1. ASSUME NEW i \in DOMAIN r.xff, EndsAt(r.xff, i), r.xff[i] \in Parsed
      PROVE  r.xff[CHOOSE k \in DOMAIN r.xff : EndsAt(r.xff, k)] \in Addresses
  <2>1. r.xff \in Seq(Texts)
    BY DEF Requests
  <2>2. (CHOOSE k \in DOMAIN r.xff : EndsAt(r.xff, k)) = i
    BY <1>1, <2>1, EndsOnce
  <2> QED
    BY <1>1, <2>2 DEF Parsed
<1>2. r.peer \in Addresses /\ FromRealIP(r) \in Addresses
  BY DEF Requests, FromRealIP, Parsed
<1> QED
  BY <1>1, <1>2 DEF extractClientIP

\* The origin is found in a list that ends in it.
LEMMA ExtractOrigin ==
    ASSUME NEW r \in Requests, NEW a \in Parsed, a \notin Trusted, r.peer \in Trusted,
           NEW i \in DOMAIN r.xff, EndsAt(r.xff, i), r.xff[i] = a
    PROVE  extractClientIP(r) = a
<1>1. r.xff \in Seq(Texts)
  BY DEF Requests
<1>2. (CHOOSE k \in DOMAIN r.xff : EndsAt(r.xff, k)) = i
  BY <1>1, EndsOnce
<1>3. r.xff[i] \in Parsed
  OBVIOUS
<1> QED
  BY <1>2, <1>3 DEF extractClientIP

LEMMA ListedIsEnough == TypeOK /\ ListedInv => ClientIsNearestUntrusted
<1> SUFFICES ASSUME TypeOK, ListedInv, origin \notin Trusted,
                    origin \in Zoned => request.peer = origin
             PROVE  extractClientIP(request) = origin
  BY DEF ClientIsNearestUntrusted
<1>1. request \in Requests /\ origin \in Addresses
  BY DEF TypeOK
<1>2. CASE request.peer = origin
  BY <1>2 DEF extractClientIP
<1>3. CASE request.peer # origin
  <2>1. origin \in Parsed
    BY <1>1, <1>3 DEF Parsed
  <2> QED
    BY <1>1, <1>3, <2>1, ExtractOrigin DEF ListedInv, Parsed
<1> QED
  BY <1>2, <1>3

-----------------------------------------------------------------------------
\* What one of the two branches makes of the headers for a client that parses.
LEMMA ResolveHeadersType ==
    ASSUME NEW r \in Requests, NEW isTLS \in BOOLEAN, NEW names \in Settings
    PROVE  LET s == resolveHeaders(r, isTLS, names)
               ip == extractClientIP(r)
           IN  /\ s \in Requests
               /\ ip \in Parsed =>
                    /\ s.xff = IF ip \in Trusted THEN Append(r.xff, ip) ELSE <<ip>>
                    /\ s.proto \in Protos /\ s.host \in Hosts /\ s.port \in Ports
                    /\ s.forwarded = [for |-> ip, proto |-> s.proto, host |-> s.host]
               /\ ip \notin Parsed => \A h \in HeaderNames : s[h] \in {r[h], None, <<>>}
<1> DEFINE ip == extractClientIP(r)
           own == [proto |-> IF isTLS THEN "https" ELSE "http", host |-> "site",
                   port |-> resolvePort(isTLS)]
           copied == Copied(r, names)
           s == resolveHeaders(r, isTLS, names)
<1>1. ip \in Addresses /\ ip \in Texts
  BY ExtractType DEF Texts
<1>2. own.proto \in Protos /\ own.host \in Hosts /\ own.port \in Ports
  BY DEF Protos, Hosts, Ports, resolvePort
<1>3. /\ copied \in Requests
      /\ \A h \in HeaderNames : copied[h] \in {r[h], None, <<>>}
  <2> DEFINE xff == IF "xff" \in names THEN r.xff ELSE <<>>
             realIP == IF "realIP" \in names THEN r.realIP ELSE None
             proto == IF "proto" \in names THEN r.proto ELSE None
             host == IF "host" \in names THEN r.host ELSE None
             port == IF "port" \in names THEN r.port ELSE None
             forwarded == IF "forwarded" \in names THEN r.forwarded ELSE None
  <2>1. /\ xff \in Seq(Texts) /\ realIP \in Texts \union {None} /\ proto \in Header(Protos)
        /\ host \in Hosts \union {None} /\ port \in Header(Ports)
        /\ forwarded \in {None} \union [for : Addresses, proto : Protos, host : Hosts]
    <3>1. <<>> \in Seq(Texts)
      OBVIOUS
    <3> QED
      BY <3>1 DEF Requests, Header
  <2>2. /\ xff \in {r.xff, <<>>} /\ realIP \in {r.realIP, None} /\ proto \in {r.proto, None}
        /\ host \in {r.host, None} /\ port \in {r.port, None} /\ forwarded \in {r.forwarded, None}
    OBVIOUS
  <2>3. copied = [r EXCEPT !.xff = xff, !.realIP = realIP, !.proto = proto, !.host = host,
                           !.port = port, !.forwarded = forwarded]
    BY DEF Copied
  <2> HIDE DEF xff, realIP, proto, host, port, forwarded, copied
  <2>4. copied \in Requests
    BY <2>1, <2>3 DEF Requests
  <2>5. /\ copied.xff = xff /\ copied.realIP = realIP /\ copied.proto = proto
        /\ copied.host = host /\ copied.port = port /\ copied.forwarded = forwarded
    BY <2>3 DEF Requests
  <2>6. ASSUME NEW h \in HeaderNames PROVE copied[h] \in {r[h], None, <<>>}
    BY <2>2, <2>5, Zenon DEF HeaderNames
  <2> QED
    BY <2>4, <2>6
<1>4. Append(r.xff, ip) \in Seq(Texts) /\ <<ip>> \in Seq(Texts)
  BY <1>1 DEF Requests
<1>5. s = IF ip \notin Parsed THEN copied
          ELSE IF ip \in Trusted THEN appendTrustedForwardingHeaders(r, copied, ip, own)
          ELSE setUntrustedForwardingHeaders(copied, ip, own)
  BY DEF resolveHeaders
<1> HIDE DEF ip, own, copied, s
<1>6. CASE ip \notin Parsed
  BY <1>3, <1>5, <1>6 DEF ip, s
<1>7. CASE ip \in Parsed /\ ip \in Trusted
  <2> DEFINE proto == IF r.proto \in Protos THEN r.proto ELSE own.proto
             host == IF r.host # None THEN r.host ELSE own.host
             port == IF isValidPort(r.port) THEN r.port ELSE own.port
             hop == [for |-> ip, proto |-> proto, host |-> host]
  <2>1. proto \in Protos /\ host \in Hosts /\ port \in Ports
    BY <1>2 DEF Requests, isValidPort
  <2>2. hop \in [for : Addresses, proto : Protos, host : Hosts]
    BY <1>1, <2>1
  <2>3. s = [copied EXCEPT !.xff = Append(r.xff, ip), !.proto = proto, !.host = host,
                           !.port = port, !.forwarded = hop]
    BY <1>5, <1>7 DEF appendTrustedForwardingHeaders
  <2>4. hop = [for |-> ip, proto |-> proto, host |-> host]
    OBVIOUS
  <2> HIDE DEF proto, host, port, hop
  <2>5. s \in Requests
    BY <1>3, <1>4, <2>1, <2>2, <2>3 DEF Requests, Header
  <2>6. s.xff = Append(r.xff, ip) /\ s.proto = proto /\ s.host = host
          /\ s.port = port /\ s.forwarded = hop
    BY <1>3, <2>3 DEF Requests
  <2> QED
    BY <1>7, <2>1, <2>4, <2>5, <2>6 DEF ip, s
<1>8. CASE ip \in Parsed /\ ip \notin Trusted
  <2> DEFINE hop == [for |-> ip, proto |-> own.proto, host |-> own.host]
  <2>1. hop \in [for : Addresses, proto : Protos, host : Hosts]
    BY <1>1, <1>2
  <2>2. s = [copied EXCEPT !.xff = <<ip>>, !.proto = own.proto, !.host = own.host,
                           !.port = own.port, !.forwarded = hop]
    BY <1>5, <1>8 DEF setUntrustedForwardingHeaders
  <2>3. hop = [for |-> ip, proto |-> own.proto, host |-> own.host]
    OBVIOUS
  <2> HIDE DEF hop
  <2>4. s \in Requests
    BY <1>2, <1>3, <1>4, <2>1, <2>2 DEF Requests, Header
  <2>5. s.xff = <<ip>> /\ s.proto = own.proto /\ s.host = own.host
          /\ s.port = own.port /\ s.forwarded = hop
    BY <1>3, <2>2 DEF Requests
  <2> QED
    BY <1>2, <1>8, <2>3, <2>4, <2>5 DEF ip, s
<1> QED
  BY <1>6, <1>7, <1>8

-----------------------------------------------------------------------------
LEMMA TypeOKInit == Init => TypeOK
<1> SUFFICES ASSUME Init PROVE TypeOK
  OBVIOUS
<1>1. Claims \subseteq Seq(Texts)
  BY BoundAssumption DEF Claims
<1>2. request \in Requests
  BY <1>1 DEF Init, Written, Requests, Header, Protos, Hosts, Ports
<1> QED
  BY <1>2, BoundAssumption DEF Init, TypeOK

LEMMA TypeOKNext == TypeOK /\ [Next]_vars => TypeOK'
<1> SUFFICES ASSUME TypeOK, [Next]_vars PROVE TypeOK'
  OBVIOUS
<1>0. request \in Requests /\ hops \in 0 .. MaxHops /\ origin \in Addresses \ Gateways
  BY DEF TypeOK
<1>1. ASSUME NEW a \in Addresses, Proxy(a) PROVE TypeOK'
  <2>1. PICK realIP \in {request.realIP, request.peer}, proto \in {request.proto, "https"} :
           request' = [request EXCEPT !.peer = a, !.xff = Append(@, request.peer),
                                      !.realIP = realIP, !.proto = proto]
    BY <1>1 DEF Proxy
  <2>2. realIP \in Texts \union {None} /\ proto \in Header(Protos)
    BY <1>0 DEF Requests, Texts, Header, Protos
  <2>3. Append(request.xff, request.peer) \in Seq(Texts)
    BY <1>0 DEF Requests, Texts
  <2>4. request' \in Requests
    BY <1>0, <2>1, <2>2, <2>3 DEF Requests
  <2> QED
    BY <1>0, <1>1, <2>4, BoundAssumption DEF Proxy, TypeOK
<1>2. ASSUME NEW a \in Addresses, Forward(a) PROVE TypeOK'
  <2>1. PICK isTLS \in BOOLEAN, names \in Settings :
           request' = [resolveHeaders(request, isTLS, names) EXCEPT !.peer = a]
    BY <1>2 DEF Forward
  <2>2. resolveHeaders(request, isTLS, names) \in Requests
    BY <1>0, ResolveHeadersType
  <2>3. request' \in Requests
    BY <2>1, <2>2 DEF Requests
  <2> QED
    BY <1>0, <1>2, <2>3, BoundAssumption DEF Forward, TypeOK
<1>3. CASE UNCHANGED vars
  BY <1>3 DEF vars, TypeOK
<1> QED
  BY <1>1, <1>2, <1>3 DEF Next

\* A trusted hop that adds its peer to the list keeps the origin found.
LEMMA AppendEnds ==
    ASSUME NEW xff \in Seq(Texts), NEW p \in Texts, NEW a \in Addresses \ Trusted,
           \/ p = a
           \/ p \in Trusted /\ \E i \in DOMAIN xff : EndsAt(xff, i) /\ xff[i] = a
    PROVE  \E i \in DOMAIN Append(xff, p) : EndsAt(Append(xff, p), i) /\ Append(xff, p)[i] = a
<1> DEFINE ys == Append(xff, p)
<1>1. DOMAIN ys = 1 .. Len(xff) + 1 /\ ys[Len(xff) + 1] = p
        /\ \A i \in 1 .. Len(xff) : ys[i] = xff[i]
  OBVIOUS
<1>2. Len(xff) \in Nat /\ DOMAIN xff = 1 .. Len(xff)
  OBVIOUS
<1> HIDE DEF ys
<1>3. CASE p = a
  <2>1. EndsAt(ys, Len(xff) + 1) /\ ys[Len(xff) + 1] = a /\ Len(xff) + 1 \in DOMAIN ys
    BY <1>1, <1>2, <1>3 DEF EndsAt
  <2> QED
    BY <2>1 DEF ys
<1>4. CASE p # a
  <2>1. PICK i \in DOMAIN xff : EndsAt(xff, i) /\ xff[i] = a
    BY <1>4
  <2>2. p \in Trusted
    BY <1>4
  <2>3. EndsAt(ys, i) /\ ys[i] = a /\ i \in DOMAIN ys
    BY <1>1, <1>2, <2>1, <2>2 DEF EndsAt
  <2> QED
    BY <2>3 DEF ys
<1> QED
  BY <1>3, <1>4

LEMMA ListedInvInit == Init => ListedInv
  BY DEF Init, Written, ListedInv

LEMMA ListedInvNext == TypeOK /\ ListedInv /\ [Next]_vars => ListedInv'
<1> SUFFICES ASSUME TypeOK, ListedInv, [Next]_vars,
                    origin' \notin Trusted \union Zoned
             PROVE  ListedInv'
  BY DEF ListedInv
<1>0. request \in Requests /\ request.xff \in Seq(Texts) /\ request.peer \in Texts
  BY DEF TypeOK, Requests, Texts
<1>1. ASSUME NEW a \in Addresses, Proxy(a) PROVE ListedInv'
  <2>1. request'.peer = a /\ request'.xff = Append(request.xff, request.peer)
    BY <1>0, <1>1 DEF Proxy, Requests
  <2>2. origin' = origin /\ a \in Trusted /\ origin \in Addresses \ (Trusted \union Zoned)
    BY <1>1 DEF Proxy, TypeOK
  <2>3. \E i \in DOMAIN request'.xff : EndsAt(request'.xff, i) /\ request'.xff[i] = origin
    BY <1>0, <2>1, <2>2, AppendEnds DEF ListedInv
  <2> QED
    BY <2>1, <2>2, <2>3 DEF ListedInv, EndsAt
<1>2. ASSUME NEW a \in Addresses, Forward(a) PROVE ListedInv'
  <2>1. PICK isTLS \in BOOLEAN, names \in Settings :
           request' = [resolveHeaders(request, isTLS, names) EXCEPT !.peer = a]
    BY <1>2 DEF Forward
  <2>2. origin' = origin /\ a \in Trusted /\ origin \in Addresses \ (Trusted \union Zoned)
    BY <1>2, AddressAssumption DEF Forward, TypeOK
  <2>3. extractClientIP(request) = origin
    BY <2>2, ListedIsEnough DEF ClientIsNearestUntrusted
  <2>4. /\ resolveHeaders(request, isTLS, names) \in Requests
        /\ resolveHeaders(request, isTLS, names).xff = <<origin>>
    BY <1>0, <2>2, <2>3, ResolveHeadersType DEF Parsed
  <2>5. request'.peer = a /\ request'.xff = <<origin>>
    BY <2>1, <2>4 DEF Requests
  <2>6. 1 \in DOMAIN request'.xff /\ EndsAt(request'.xff, 1) /\ request'.xff[1] = origin
    BY <2>2, <2>5 DEF EndsAt
  <2> QED
    BY <2>2, <2>5, <2>6 DEF ListedInv, EndsAt
<1>3. CASE UNCHANGED vars
  BY <1>3 DEF vars, ListedInv, EndsAt
<1> QED
  BY <1>1, <1>2, <1>3 DEF Next

\* HeadersAgree of one step.
Told ==
    request'.peer \in Gateways /\ hops' # hops =>
         LET client == extractClientIP(request)
             xff == request'.xff
             f == request'.forwarded
         IN  IF client \notin Parsed
             THEN \A h \in HeaderNames : request'[h] \in {request[h], None, <<>>}
             ELSE /\ xff # <<>> /\ xff[Len(xff)] = client
                  /\ SubSeq(xff, 1, Len(xff) - 1) =
                         IF client \in Trusted THEN request.xff ELSE <<>>
                  /\ f = [for |-> client, proto |-> request'.proto, host |-> request'.host]
                  /\ request'.proto \in Protos /\ request'.host # None
                  /\ isValidPort(request'.port)

LEMMA AppendFront ==
    ASSUME NEW xff \in Seq(Texts), NEW ip \in Texts
    PROVE  LET ys == Append(xff, ip) IN
           ys # <<>> /\ ys[Len(ys)] = ip /\ SubSeq(ys, 1, Len(ys) - 1) = xff
  OBVIOUS

LEMMA ToldNext == TypeOK /\ Next => Told
<1> SUFFICES ASSUME TypeOK, Next, request'.peer \in Gateways PROVE Told
  BY DEF Told
<1>0. request \in Requests /\ request.xff \in Seq(Texts)
  BY DEF TypeOK, Requests
<1>1. PICK a \in Addresses : Forward(a)
  <2>1. PICK a \in Addresses : Proxy(a) \/ Forward(a)
    BY DEF Next
  <2>2. ~Proxy(a)
    BY <1>0 DEF Proxy, Requests
  <2> QED
    BY <2>1, <2>2
<1>2. PICK isTLS \in BOOLEAN, names \in Settings :
         request' = [resolveHeaders(request, isTLS, names) EXCEPT !.peer = a]
  BY <1>1 DEF Forward
<1>3. PICK s, ip : s = resolveHeaders(request, isTLS, names) /\ ip = extractClientIP(request)
  OBVIOUS
<1>4. /\ s \in Requests
      /\ ip \in Parsed =>
            /\ s.xff = IF ip \in Trusted THEN Append(request.xff, ip) ELSE <<ip>>
            /\ s.proto \in Protos /\ s.host \in Hosts /\ s.port \in Ports
            /\ s.forwarded = [for |-> ip, proto |-> s.proto, host |-> s.host]
      /\ ip \notin Parsed => \A h \in HeaderNames : s[h] \in {request[h], None, <<>>}
  BY <1>0, <1>3, ResolveHeadersType
<1>5. ip \in Addresses /\ ip \in Texts
  BY <1>0, <1>3, ExtractType DEF Texts
<1>6. \A h \in HeaderNames : request'[h] = s[h]
  BY <1>2, <1>3, <1>4 DEF HeaderNames, Requests
<1>7. CASE ip \notin Parsed
  BY <1>3, <1>4, <1>6, <1>7 DEF Told
<1>8. CASE ip \in Parsed
  <2>1. /\ request'.xff = s.xff /\ request'.proto = s.proto /\ request'.host = s.host
        /\ request'.port = s.port /\ request'.forwarded = s.forwarded
    BY <1>6 DEF HeaderNames
  <2>2. /\ s.xff # <<>> /\ s.xff[Len(s.xff)] = ip
        /\ SubSeq(s.xff, 1, Len(s.xff) - 1) = IF ip \in Trusted THEN request.xff ELSE <<>>
    <3>1. CASE ip \in Trusted
      BY <1>0, <1>4, <1>5, <1>8, <3>1, AppendFront
    <3>2. CASE ip \notin Trusted
      <4>1. s.xff = <<ip>>
        BY <1>4, <1>8, <3>2
      <4>2. <<ip>> # <<>> /\ <<ip>>[Len(<<ip>>)] = ip /\ SubSeq(<<ip>>, 1, Len(<<ip>>) - 1) = <<>>
        OBVIOUS
      <4> QED
        BY <3>2, <4>1, <4>2
    <3> QED
      BY <3>1, <3>2
  <2>3. request'.proto \in Protos /\ request'.host # None /\ isValidPort(request'.port)
    BY <1>4, <1>8, <2>1, AddressAssumption DEF isValidPort
  <2>4. request'.forwarded = [for |-> ip, proto |-> request'.proto, host |-> request'.host]
    BY <1>4, <1>8, <2>1
  <2> QED
    BY <1>3, <1>8, <2>1, <2>2, <2>3, <2>4, Zenon DEF Told
<1> QED
  BY <1>7, <1>8

-----------------------------------------------------------------------------
\* The headers of a request are texts of their kind on all of its way, through
\* both branches of resolveHeaders.
THEOREM TypeTheorem == Spec => []TypeOK
<1> QED
  BY TypeOKInit, TypeOKNext, PTL DEF Spec

\* extractClientIP finds the last hop that is not trusted, for every set of
\* trusted addresses, every header and every number of hops, unless that hop's
\* address has a zone and a proxy wrote it into the list.
THEOREM ClientTheorem == Spec => []ClientIsNearestUntrusted
<1> QED
  BY TypeOKInit, TypeOKNext, ListedInvInit, ListedInvNext, ListedIsEnough, PTL DEF Spec

\* resolveHeaders leaves a consistent set of forwarding headers for every
\* client that parses, overwritten unless the client is trusted, and the copied
\* ones for a client that does not parse.
THEOREM HeadersTheorem == Spec => HeadersAgree
<1>1. TypeOK /\ [Next]_vars => [Told]_vars
  BY ToldNext
<1> QED
  BY <1>1, TypeOKInit, TypeOKNext, PTL DEF Spec, HeadersAgree, Told
=============================================================================
