----------------------------- MODULE Forwarding -----------------------------
(***************************************************************************)
(* Who the client is, and what the upstream is told of it: extractClientIP *)
(* (router.go), whose result is the rate limiter's key, and the forwarding *)
(* headers of resolveHeaders (upstream.go).                                *)
(*                                                                         *)
(* A request travels from hop to hop.  A hop outside the trusted ranges    *)
(* writes any headers, so its way matters from the last such hop on (or    *)
(* from a trusted sender): origin.  A gateway may be followed by another   *)
(* one.  External: a trusted proxy that is no gateway adds its peer to the *)
(* end of the one X-Forwarded-For line and passes or sets other headers.   *)
(*                                                                         *)
(* A hop is known by its address.  net.ParseIP takes no address with a     *)
(* zone (fe80::1%eth0), so that a hop in Zoned is no trusted one and the   *)
(* gateway knows it by the text of RemoteAddr; Junk is any other text that *)
(* does not parse.  The lists of X-Forwarded-For are sequences; of         *)
(* Forwarded only the last element is kept, which is the one a gateway     *)
(* writes.                                                                 *)
(***************************************************************************)
EXTENDS Integers, Sequences

CONSTANTS
    Addresses,   \* all hops
    Trusted,     \* the addresses in trusted_proxies, of every gateway
    Gateways,    \* the addresses of gateways
    Zoned,       \* the addresses that net.ParseIP does not take
    Junk,        \* a header text that is no address
    None,        \* no header, no element, no hop
    Settings,    \* the values of forward_headers, as sets of headers
    MaxClaims,   \* bound: entries a hop may make up in X-Forwarded-For
    MaxHops      \* bound: hops after the first

\* The headers of a request, which are its fields but the peer.
HeaderNames == {"xff", "realIP", "proto", "host", "port", "forwarded"}

\* The valid values of the other headers.
Protos == {"http", "https"}
Hosts == {"site", "proxy"}
Ports == {"80", "443"}

ASSUME AddressAssumption ==
    /\ Trusted \subseteq Addresses /\ Gateways \subseteq Trusted
    /\ Zoned \subseteq Addresses \ Trusted
    /\ Junk \notin Addresses \union Protos \union Hosts \union Ports
    /\ None \notin Addresses \union Protos \union Hosts \union Ports
ASSUME SettingsAssumption == Settings \subseteq SUBSET HeaderNames
ASSUME BoundAssumption == MaxClaims \in Nat /\ MaxHops \in Nat

VARIABLES
    request,    \* the request as it is on its way
    hops,       \* how many hops sent it on
    origin      \* history: where it comes from

vars == <<request, hops, origin>>

Texts == Addresses \union {Junk}

\* What net.ParseIP takes.
Parsed == Addresses \ Zoned

\* The values of a header, with the ones that are not valid.
Header(values) == values \union {Junk, None}

Claims == UNION {[1 .. n -> Texts] : n \in 0 .. MaxClaims}

\* What anybody may have written, on a connection from address a.
Written(a) ==
    [peer : {a}, xff : Claims, realIP : Texts \union {None},
     proto : Header(Protos), host : {"proxy", None}, port : Header({"443"}),
     forwarded : {None}]

-----------------------------------------------------------------------------
(* extractClientIP *)

\* The scan from the right skips trusted addresses and ends at entry i.
EndsAt(xff, i) ==
    /\ i \in DOMAIN xff /\ xff[i] \notin Trusted
    /\ \A j \in DOMAIN xff : j > i => xff[j] \in Trusted

FromRealIP(r) == IF r.realIP \in Parsed THEN r.realIP ELSE r.peer

\* Mutant of extractClientIP: the list is read from the left.
extractClientIPMutLeft(r) ==
    IF r.peer \notin Trusted THEN r.peer
    ELSE IF Len(r.xff) > 0 /\ r.xff[1] \in Parsed \ Trusted THEN r.xff[1]
    ELSE FromRealIP(r)

\* An entry that does not parse ends the scan without a result.
extractClientIP(r) ==
    IF r.peer \notin Trusted THEN r.peer
    ELSE IF \E i \in DOMAIN r.xff : EndsAt(r.xff, i) /\ r.xff[i] \in Parsed
    THEN r.xff[CHOOSE i \in DOMAIN r.xff : EndsAt(r.xff, i)]
    ELSE FromRealIP(r)

-----------------------------------------------------------------------------
(* resolveHeaders.  own is the connection's [proto, host, port]. *)

\* The headers that forward_headers names; the others are not sent on.
Copied(r, names) ==
    [r EXCEPT !.xff = IF "xff" \in names THEN @ ELSE <<>>,
              !.realIP = IF "realIP" \in names THEN @ ELSE None,
              !.proto = IF "proto" \in names THEN @ ELSE None,
              !.host = IF "host" \in names THEN @ ELSE None,
              !.port = IF "port" \in names THEN @ ELSE None,
              !.forwarded = IF "forwarded" \in names THEN @ ELSE None]

setUntrustedForwardingHeaders(target, ip, own) ==
    [target EXCEPT !.xff = <<ip>>, !.proto = own.proto, !.host = own.host, !.port = own.port,
                   !.forwarded = [for |-> ip, proto |-> own.proto, host |-> own.host]]

isValidPort(p) == p \in Ports

\* Mutant of appendTrustedForwardingHeaders: Forwarded has the connection's
\* protocol whatever X-Forwarded-Proto says.
appendTrustedForwardingHeadersMutHop(r, target, ip, own) ==
    LET proto == IF r.proto \in Protos THEN r.proto ELSE own.proto
        host == IF r.host # None THEN r.host ELSE own.host
    IN  [target EXCEPT !.xff = Append(r.xff, ip), !.proto = proto, !.host = host,
                       !.port = IF isValidPort(r.port) THEN r.port ELSE own.port,
                       !.forwarded = [for |-> ip, proto |-> own.proto, host |-> host]]

appendTrustedForwardingHeaders(r, target, ip, own) ==
    LET proto == IF r.proto \in Protos THEN r.proto ELSE own.proto
        host == IF r.host # None THEN r.host ELSE own.host
    IN  [target EXCEPT !.xff = Append(r.xff, ip), !.proto = proto, !.host = host,
                       !.port = IF isValidPort(r.port) THEN r.port ELSE own.port,
                       !.forwarded = [for |-> ip, proto |-> proto, host |-> host]]

\* resolvePort: the port of the Host header, which has none here.
resolvePort(isTLS) == IF isTLS THEN "443" ELSE "80"

\* A client that does not parse leaves the headers as they were copied.
resolveHeaders(r, isTLS, forwardHeaders) ==
    LET ip == extractClientIP(r)
        own == [proto |-> IF isTLS THEN "https" ELSE "http", host |-> "site",
                port |-> resolvePort(isTLS)]
        copied == Copied(r, forwardHeaders)
    IN  IF ip \notin Parsed THEN copied
        ELSE IF ip \in Trusted THEN appendTrustedForwardingHeaders(r, copied, ip, own)
        ELSE setUntrustedForwardingHeaders(copied, ip, own)

-----------------------------------------------------------------------------
(* The way of a request *)

Init ==
    /\ origin \in Addresses \ Gateways
    /\ request \in Written(origin)
    /\ hops = 0

\* A trusted proxy.
Proxy(a) ==
    /\ hops < MaxHops /\ a \in Trusted \ Gateways
    /\ \E realIP \in {request.realIP, request.peer}, proto \in {request.proto, "https"} :
          request' = [request EXCEPT !.peer = a, !.xff = Append(@, request.peer),
                                     !.realIP = realIP, !.proto = proto]
    /\ hops' = hops + 1 /\ UNCHANGED origin

\* ServeHTTP, and the call of an upstream from where the request goes on.
Forward(a) ==
    /\ hops < MaxHops /\ a \in Gateways
    /\ \E isTLS \in BOOLEAN, forwardHeaders \in Settings :
          request' = [resolveHeaders(request, isTLS, forwardHeaders) EXCEPT !.peer = a]
    /\ hops' = hops + 1 /\ UNCHANGED origin

Next == \E a \in Addresses : Proxy(a) \/ Forward(a)

Spec == Init /\ [][Next]_vars

-----------------------------------------------------------------------------
Requests ==
    [peer : Addresses, xff : Seq(Texts), realIP : Texts \union {None},
     proto : Header(Protos), host : Hosts \union {None}, port : Header(Ports),
     forwarded : {None} \union [for : Addresses, proto : Protos, host : Hosts]]

TypeOK ==
    /\ request \in Requests
    /\ hops \in 0 .. MaxHops
    /\ origin \in Addresses \ Gateways

(***************************************************************************)
(* "Per-IP rate limiter. The IP is the one extracted via trusted-proxy     *)
(* resolution" (sample.config.yaml:84), "right-to-left XFF parsing"        *)
(* (CHANGELOG.md:172): wherever a request meets a gateway, the client is   *)
(* the last hop that is not trusted, whatever that hop and any before it   *)
(* wrote, and however many proxies and gateways came after it.  A hop      *)
(* whose address has a zone is known to the gateway it connects to; in a   *)
(* list it does not parse and hides what is left of it.                    *)
(***************************************************************************)
ClientIsNearestUntrusted ==
    origin \notin Trusted /\ (origin \in Zoned => request.peer = origin) =>
        extractClientIP(request) = origin

(***************************************************************************)
(* What a gateway tells its upstream is complete and of one mind: the      *)
(* newest entry of X-Forwarded-For is the client the gateway limited, the  *)
(* newest element of Forwarded says the same as the X-Forwarded headers,   *)
(* and these are valid.  Entries older than that one are the list the      *)
(* gateway got if the client is a trusted address, and none if it is not:  *)
(* what a trusted proxy wrote about a client that is not trusted is        *)
(* overwritten, although sample.config.yaml:78 has the headers of trusted  *)
(* ranges "appended to rather than overwritten".  A client that does not   *)
(* parse has the headers left to forward_headers (upstream.go:525): all of *)
(* them may be what the client made up.                                    *)
(***************************************************************************)
HeadersAgree ==
    [][request'.peer \in Gateways /\ hops' # hops =>
         LET client == extractClientIP(request)
             xff == request'.xff
             f == request'.forwarded
         IN  IF client \notin Parsed
             THEN \A h \in HeaderNames : request'[h] \in {request[h], None, <<>>}
             ELSE /\ xff # <<>> /\ xff[Len(xff)] = client
                  /\ SubSeq(xff, 1, Len(xff) - 1) =
                         IF client \in Trusted THEN request.xff ELSE <<>>
                  /\ f = [for |-> client, proto |-> request'.proto, host |-> request'.host]
                  /\ request'.proto \in Protos /\ request'.host # None
                  /\ isValidPort(request'.port)]_vars
=============================================================================
