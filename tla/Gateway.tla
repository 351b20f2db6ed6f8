------------------------------- MODULE Gateway -------------------------------
(***************************************************************************)
(* Whom a request comes from and where it was sent to: the client's        *)
(* address behind reverse proxies, by which the limiters count, and the    *)
(* base URL that the discovery documents and error answers advertise.      *)
(*                                                                         *)
(* Pure functions of a request.  An address is a value that stands for its *)
(* text; trusted_proxy_networks is the set of the addresses inside it.     *)
(***************************************************************************)
EXTENDS Integers, Sequences

CONSTANTS
    Addresses,      \* what REMOTE_ADDR and X-Forwarded-For may hold
    Trusted,        \* those inside BACKCHANNEL_TRUSTED_PROXIES
    Hosts,          \* what _HOST_RE accepts
    HostName,       \* a host without its port
    BaseURL,        \* BACKCHANNEL_BASE_URL, or Null
    Allowed,        \* BACKCHANNEL_ALLOWED_HOSTS
    Public,         \* the URL of the public instance
    Null            \* an absent or empty header or variable

ASSUME GatewayAssumption ==
    /\ Trusted \subseteq Addresses
    /\ HostName \in [Hosts -> Hosts]
    /\ Allowed \in Seq(Hosts)
    /\ Null \notin Hosts

-----------------------------------------------------------------------------
(* How a request gets here: its client may write any X-Forwarded-For, and  *)
(* each proxy on the way appends the address it was called from.           *)

Peer(client, via) == IF via = <<>> THEN client ELSE via[Len(via)]

ForwardedFor(claims, client, via) ==
    IF via = <<>> THEN claims
    ELSE claims \o <<client>> \o SubSeq(via, 1, Len(via) - 1)

-----------------------------------------------------------------------------
(* _resolve_remote_addr.                                                   *)

Strangers(hops) == {i \in DOMAIN hops : hops[i] \notin Trusted}

\* The address of the connection (a mutant of RemoteAddr).
RemoteAddrOfPeer(peer, hops) == peer

\* From right to left, the first hop that is no trusted proxy.
RemoteAddr(peer, hops) ==
    IF peer \notin Trusted \/ Strangers(hops) = {} THEN peer
    ELSE hops[CHOOSE i \in Strangers(hops) : \A j \in Strangers(hops) : j <= i]

-----------------------------------------------------------------------------
(* _resolve_host, _resolve_scheme, _advertised_base.                       *)

\* A malformed header is dropped, and the next candidate is not tried.
Host(peer, forwarded, header, server) ==
    LET candidate == IF peer \in Trusted /\ forwarded # Null THEN forwarded
                     ELSE IF header # Null THEN header ELSE server
    IN IF candidate \in Hosts THEN candidate ELSE Null

Scheme(peer, forwarded, wsgi) ==
    IF peer \in Trusted /\ forwarded \in {"http", "https"} THEN forwarded
    ELSE IF wsgi \in {"http", "https"} THEN wsgi ELSE "http"

IsAllowed(host) == \E i \in DOMAIN Allowed : Allowed[i] \in {host, HostName[host]}

AdvertisedBase(host, scheme) ==
    IF BaseURL # Null THEN BaseURL
    ELSE IF host = Null THEN Public
    ELSE IF Allowed = <<>> \/ IsAllowed(host) THEN [scheme |-> scheme, host |-> host]
    ELSE [scheme |-> scheme, host |-> Allowed[1]]
=============================================================================
