--------------------------- MODULE Minting_proofs ---------------------------
(***************************************************************************)
(* Theorems about Gateway, for every request and whatever its headers, and *)
(* about Minting, for any number of requests, sources, labels and proxies. *)
(*                                                                         *)
(* A request acts on the switch, the label and the window it looked at     *)
(* before; the inductive invariant says what each of these is still worth  *)
(* at every later place of the handler.                                    *)
(***************************************************************************)
EXTENDS Minting, SequenceTheorems, FiniteSetTheorems, TLAPS

\* What the proxies append after the client's own address is trusted.
LEMMA AppendedIsTrusted ==
    ASSUME NEW client \in Addresses, NEW claims \in Seq(Addresses),
           NEW via \in Seq(Trusted), via # <<>>
    PROVE  LET hops == ForwardedFor(claims, client, via)
               here == Len(claims) + 1
           IN /\ hops \in Seq(Addresses)
              /\ here \in DOMAIN hops
              /\ hops[here] = client
              /\ \A i \in DOMAIN hops : i > here => hops[i] \in Trusted
<1> DEFINE own == claims \o <<client>>
           appended == SubSeq(via, 1, Len(via) - 1)
           hops == own \o appended
<1>1. /\ own \in Seq(Addresses) /\ Len(own) = Len(claims) + 1
      /\ own[Len(claims) + 1] = client
  OBVIOUS
<1>2. /\ appended \in Seq(Trusted) /\ Len(appended) = Len(via) - 1
      /\ \A i \in 1..(Len(via) - 1) : appended[i] \in Trusted
  <2>1. Len(via) \in Nat /\ Len(via) > 0
    OBVIOUS
  <2>2. \A i \in 1..(Len(via) - 1) : via[i] \in Trusted
    BY <2>1
  <2>3. /\ appended \in Seq(Trusted)
        /\ Len(appended) = IF 1 <= Len(via) - 1 THEN Len(via) - 1 - 1 + 1 ELSE 0
        /\ \A i \in 1..(Len(via) - 1 - 1 + 1) : appended[i] = via[1 + i - 1]
    BY <2>1, <2>2, SubSeqProperties
  <2>4. \A i \in 1..(Len(via) - 1) : i \in 1..(Len(via) - 1 - 1 + 1) /\ 1 + i - 1 = i
    BY <2>1
  <2> HIDE DEF appended
  <2>5. \A i \in 1..(Len(via) - 1) : appended[i] \in Trusted
    BY <2>2, <2>3, <2>4
  <2>6. appended \in Seq(Trusted)
    BY <2>3
  <2>7. Len(appended) = Len(via) - 1
    <3> DEFINE n == Len(via)
    <3>1. n \in Int /\ n > 0
      BY <2>1
    <3>2. Len(appended) = IF 1 <= n - 1 THEN n - 1 - 1 + 1 ELSE 0
      BY <2>3
    <3> HIDE DEF n
    <3>3. Len(appended) = n - 1
      BY <3>1, <3>2
    <3> QED
      BY <3>3 DEF n
  <2> QED
    BY <2>5, <2>6, <2>7
<1>3. appended \in Seq(Addresses)
  BY <1>2, GatewayAssumption
<1>4. /\ hops \in Seq(Addresses)
      /\ Len(hops) = Len(own) + Len(appended)
      /\ \A i \in 1..Len(own) : hops[i] = own[i]
      /\ \A i \in 1..Len(hops) : i > Len(own) => hops[i] = appended[i - Len(own)]
  <2> HIDE DEF own, appended
  <2>1. own \in Seq(Addresses) /\ appended \in Seq(Addresses)
    BY <1>1, <1>3
  <2> QED
    BY <2>1
<1>5. \A i \in 1..Len(hops) : i > Len(own) => hops[i] \in Trusted
  <2> SUFFICES ASSUME NEW i \in 1..Len(hops), i > Len(own) PROVE hops[i] \in Trusted
    OBVIOUS
  <2> HIDE DEF own, appended
  <2>1. i - Len(own) \in 1..(Len(via) - 1) /\ hops[i] = appended[i - Len(own)]
    BY <1>1, <1>2, <1>4
  <2> QED
    BY <2>1, <1>2
<1>6. ForwardedFor(claims, client, via) = hops
  BY DEF ForwardedFor
<1> HIDE DEF own, appended, hops
<1>7. DOMAIN hops = 1..Len(hops) /\ Len(claims) \in Nat /\ Len(appended) \in Nat
  BY <1>2, <1>4
<1> QED
  BY <1>1, <1>4, <1>5, <1>6, <1>7

\* The limiters count a request for its client, whichever trusted proxies it
\* came through and whatever X-Forwarded-For it was sent with ("Walk the XFF
\* chain right-to-left, skipping hops that are trusted proxies, and return the
\* first untrusted address", http.py:351).
THEOREM ClientIsRecognised ==
    ASSUME NEW client \in Addresses \ Trusted, NEW claims \in Seq(Addresses),
           NEW via \in Seq(Trusted)
    PROVE  RemoteAddr(Peer(client, via), ForwardedFor(claims, client, via)) = client
<1>1. CASE via = <<>>
  BY <1>1 DEF RemoteAddr, Peer
<1>2. CASE via # <<>>
  <2> DEFINE hops == ForwardedFor(claims, client, via)
             here == Len(claims) + 1
             Rightmost(i) == i \in Strangers(hops) /\ \A j \in Strangers(hops) : j <= i
  <2>1. Peer(client, via) \in Trusted
    BY <1>2 DEF Peer
  <2>2. /\ hops \in Seq(Addresses) /\ here \in DOMAIN hops /\ hops[here] = client
        /\ \A i \in DOMAIN hops : i > here => hops[i] \in Trusted
    BY <1>2, AppendedIsTrusted
  <2> HIDE DEF hops, here
  <2>3. DOMAIN hops \subseteq Int
    BY <2>2
  <2>4. here \in Strangers(hops)
    BY <2>2 DEF Strangers
  <2>5. \A j \in Strangers(hops) : j <= here
    BY <2>2, <2>3 DEF Strangers
  <2>6. \A i : Rightmost(i) => i = here
    <3> SUFFICES ASSUME NEW i, Rightmost(i) PROVE i = here
      OBVIOUS
    <3>1. i \in Int /\ here \in Int /\ i <= here /\ here <= i
      BY <2>3, <2>4, <2>5 DEF Strangers
    <3> QED
      BY <3>1
  <2>7. (CHOOSE i \in Strangers(hops) : \A j \in Strangers(hops) : j <= i) = here
    BY <2>4, <2>5, <2>6
  <2>8. RemoteAddr(Peer(client, via), hops) = client
    BY <2>1, <2>2, <2>4, <2>7 DEF RemoteAddr
  <2> QED
    BY <2>8 DEF hops
<1> QED
  BY <1>1, <1>2

\* With BACKCHANNEL_ALLOWED_HOSTS set, a Host not on the list is not echoed into
\* discovery URLs (http.py:114): what is advertised names a host of the
\* list, or the public instance when the request had no usable host at all.
THEOREM AdvertisesAllowedHost ==
    ASSUME BaseURL = Null, Allowed # <<>>,
           NEW peer, NEW forwarded, NEW header, NEW server, NEW scheme,
           NEW base, base = AdvertisedBase(Host(peer, forwarded, header, server), scheme)
    PROVE  \/ base = Public
           \/ \E i \in DOMAIN Allowed : Allowed[i] \in {base.host, HostName[base.host]}
<1> DEFINE host == Host(peer, forwarded, header, server)
<1>1. 1 \in DOMAIN Allowed
  BY GatewayAssumption
<1>2. CASE host = Null
  BY <1>2 DEF AdvertisedBase
<1>3. CASE host # Null /\ IsAllowed(host)
  <2>1. base = [scheme |-> scheme, host |-> host]
    BY <1>3 DEF AdvertisedBase
  <2>2. base.host = host
    BY <2>1
  <2> QED
    BY <1>3, <2>2 DEF IsAllowed
<1>4. CASE host # Null /\ ~IsAllowed(host)
  <2>1. base = [scheme |-> scheme, host |-> Allowed[1]]
    BY <1>4 DEF AdvertisedBase
  <2>2. base.host = Allowed[1]
    BY <2>1
  <2> QED
    BY <1>1, <2>2
<1> QED
  BY <1>2, <1>3, <1>4

-----------------------------------------------------------------------------
(* What holds of a request wherever it is.                                 *)

\* It is counted for its own client, and its stamp is not of the future.
Recognised ==
    \A r \in Requests : request[r].source = request[r].client /\ request[r].stamp <= now

\* A key was inserted by a request that is over, so it is inserted once.
KeysAreOver == \A r \in keys : request[r].at = "over"

\* Nothing a request saw when it looked its label up has come to life since.
SeenInactive ==
    \A r \in Requests :
        request[r].at = "free" =>
            request[r].seen \subseteq keys /\ request[r].seen \cap active = {}

\* A public request in hand has passed the switch, or seen it change.
GateHeld ==
    \A r \in Requests :
        InHand(r) /\ request[r].kind = "public" => PublicMintingEnabled \/ request[r].closed

IInv ==
    /\ TypeOK
    /\ Recognised
    /\ KeysAreOver
    /\ SeenInactive
    /\ GateHeld
    /\ OwnBucket

LEMMA InitInvariant == Init => IInv
<1> SUFFICES ASSUME Init PROVE IInv
  OBVIOUS
<1>1. \A r \in Requests : /\ request[r] \in Request /\ request[r].at = "idle"
                          /\ request[r].source = request[r].client /\ request[r].stamp = 0
  <2> SUFFICES ASSUME NEW r \in Requests
               PROVE  /\ request[r] \in Request /\ request[r].at = "idle"
                      /\ request[r].source = request[r].client /\ request[r].stamp = 0
    OBVIOUS
  <2>1. request[r] \in Arriving
    BY DEF Init
  <2>2. request[r] \in [at: {"idle"}, kind: Kinds, client: Clients, source: Clients,
                        label: Labels, stamp: {0}, closed: {FALSE}, seen: {{}}]
    BY <2>1 DEF Arriving
  <2>3. request[r].source = request[r].client
    BY <2>1 DEF Arriving
  <2>4. /\ {"idle"} \subseteq Steps /\ Clients \subseteq Addresses /\ {0} \subseteq Nat
        /\ {FALSE} \subseteq BOOLEAN /\ {{}} \subseteq SUBSET Requests
    BY DEF Steps, Clients
  <2>5. request[r] \in Request
    BY <2>2, <2>4 DEF Request
  <2>6. request[r].at = "idle" /\ request[r].stamp = 0
    BY <2>2
  <2> QED BY <2>3, <2>5, <2>6
<1>2. request = [r \in Requests |-> request[r]]
  BY DEF Init
<1>3. request \in [Requests -> Request]
  BY <1>1, <1>2
<1>4. \A s \in Addresses : buckets[s] = <<>>
  BY DEF Init
<1>5. TypeOK
  BY <1>3, <1>4, MintingAssumption DEF Init, TypeOK, Stored
<1>6. Recognised /\ KeysAreOver /\ SeenInactive /\ GateHeld
  BY <1>1 DEF Init, Recognised, KeysAreOver, SeenInactive, GateHeld, InHand
<1>7. OwnBucket
  <2> SUFFICES ASSUME NEW s \in Addresses
               PROVE  Len(buckets[s]) <=
                        Cardinality({i \in 1..Len(admitted) : admitted[i].client = s})
    BY DEF OwnBucket
  <2>1. {i \in 1..Len(admitted) : admitted[i].client = s} = {}
    BY DEF Init
  <2>2. Cardinality({i \in 1..Len(admitted) : admitted[i].client = s}) = 0
    BY <2>1, FS_EmptySet
  <2>3. Len(buckets[s]) = 0
    BY <1>4
  <2> QED BY <2>2, <2>3
<1> QED BY <1>5, <1>6, <1>7 DEF IInv

-----------------------------------------------------------------------------
(* A step of one handler that leaves the limiter and the tables alone.     *)

LEMMA RequestStep ==
    ASSUME IInv, NEW r \in Requests, NEW q \in Request,
           request' = [request EXCEPT ![r] = q],
           UNCHANGED <<now, limiter, tables>>,
           q.source = q.client, q.stamp <= now,
           request[r].at # "over",
           q.at = "free" => q.seen \subseteq keys /\ q.seen \cap active = {},
           q.at \notin {"idle", "over"} /\ q.kind = "public" =>
                PublicMintingEnabled \/ q.closed
    PROVE  IInv'
<1> USE DEF IInv
<1>1. /\ request' \in [Requests -> Request]
      /\ request'[r] = q
      /\ \A o \in Requests \ {r} : request'[o] = request[o]
  BY DEF TypeOK
<1>2. UNCHANGED <<now, setting, keys, active, actors, buckets, ops, admitted>>
  BY DEF limiter, tables
<1>3. TypeOK'
  BY <1>1, <1>2 DEF TypeOK
<1>4. Recognised' /\ SeenInactive'
  BY <1>1, <1>2 DEF Recognised, SeenInactive
<1>5. KeysAreOver'
  <2>1. r \notin keys
    BY DEF KeysAreOver
  <2> QED BY <1>1, <1>2, <2>1 DEF KeysAreOver, TypeOK
<1>6. GateHeld'
  BY <1>1, <1>2 DEF GateHeld, InHand, PublicMintingEnabled
<1>7. OwnBucket'
  BY <1>2 DEF OwnBucket
<1> QED BY <1>3, <1>4, <1>5, <1>6, <1>7

\* What a request that ends turns into.
LEMMA OverIsEnd ==
    ASSUME IInv, NEW r \in Requests
    PROVE  /\ Over(request[r]) \in Request /\ Over(request[r]).at = "over"
           /\ Over(request[r]).source = Over(request[r]).client
           /\ Over(request[r]).stamp = 0
<1>1. request[r] \in Request /\ request[r].source = request[r].client
  BY DEF IInv, TypeOK, Recognised
<1> QED BY <1>1 DEF Over, Request, Steps

LEMMA EndStep ==
    ASSUME IInv, NEW r \in Requests, End(r), request[r].at # "over",
           UNCHANGED <<now, limiter, tables>>
    PROVE  IInv'
<1>1. PICK q : q = Over(request[r])
  OBVIOUS
<1>2. request' = [request EXCEPT ![r] = q]
  BY <1>1 DEF End
<1>3. q \in Request /\ q.at = "over" /\ q.source = q.client /\ q.stamp = 0
  BY <1>1, OverIsEnd
<1>4. 0 <= now
  BY DEF IInv, TypeOK
<1> QED BY <1>2, <1>3, <1>4, RequestStep

LEMMA GateStep ==
    ASSUME IInv, NEW r \in Requests, Gate(r)
    PROVE  IInv'
<1>1. CASE ~PublicMintingEnabled
  BY <1>1, EndStep DEF Gate
<1>2. CASE PublicMintingEnabled
  <2>1. PICK route \in Routes :
          request' = [request EXCEPT
             ![r].at = "open",
             ![r].source = RemoteAddr(Peer(request[r].client, route.via),
                             ForwardedFor(route.claims, request[r].client, route.via))]
    BY <1>2 DEF Gate, Enter
  <2>2. /\ request[r] \in Request /\ request[r].client \in Addresses \ Trusted
        /\ request[r].stamp <= now
    BY DEF IInv, TypeOK, Recognised, Request, Clients
  <2>3. route.claims \in Seq(Addresses) /\ route.via \in Seq(Trusted)
    BY MintingAssumption
  <2>4. RemoteAddr(Peer(request[r].client, route.via),
                   ForwardedFor(route.claims, request[r].client, route.via))
          = request[r].client
    BY <2>2, <2>3, ClientIsRecognised
  <2>5. PICK q : q = [request[r] EXCEPT !.at = "open", !.source = request[r].client]
    OBVIOUS
  <2>6. request' = [request EXCEPT ![r] = q]
    BY <2>1, <2>4, <2>5 DEF IInv, TypeOK
  <2>7. q \in Request /\ q.at = "open" /\ q.source = q.client /\ q.stamp = request[r].stamp
    BY <2>2, <2>5 DEF Request, Steps
  <2> QED BY <1>2, <2>2, <2>6, <2>7, RequestStep DEF Gate
<1> QED BY <1>1, <1>2

\* Only the place of the request changes.
LEMMA GotoStep ==
    ASSUME IInv, NEW r \in Requests, NEW step \in {"admitted"}, Goto(r, step),
           request[r].at = "idle", request[r].kind # "public",
           UNCHANGED <<now, limiter, tables>>
    PROVE  IInv'
<1>1. PICK q : q = [request[r] EXCEPT !.at = "admitted"]
  OBVIOUS
<1>2. /\ request[r] \in Request /\ request[r].source = request[r].client
      /\ request[r].stamp <= now
  BY DEF IInv, TypeOK, Recognised
<1>3. request' = [request EXCEPT ![r] = q]
  BY <1>1 DEF Goto, IInv, TypeOK
<1>4. /\ q \in Request /\ q.at = "admitted" /\ q.source = q.client
      /\ q.stamp = request[r].stamp /\ q.kind = request[r].kind
  BY <1>1, <1>2 DEF Request, Steps
<1> QED BY <1>2, <1>3, <1>4, RequestStep

LEMMA StampStep ==
    ASSUME IInv, NEW r \in Requests, Stamp(r)
    PROVE  IInv'
<1>1. PICK q : q = [request[r] EXCEPT !.at = "stamped", !.stamp = now]
  OBVIOUS
<1>2. /\ request[r] \in Request /\ request[r].source = request[r].client /\ now \in Nat
      /\ request[r].at = "open"
  BY DEF IInv, TypeOK, Recognised, Stamp
<1>3. request' = [request EXCEPT ![r] = q]
  BY <1>1 DEF Stamp, IInv, TypeOK
<1>4. /\ q \in Request /\ q.at = "stamped" /\ q.source = q.client /\ q.stamp = now
      /\ q.kind = request[r].kind /\ q.closed = request[r].closed
  BY <1>1, <1>2 DEF Request, Steps
<1>5. request[r].kind = "public" => PublicMintingEnabled \/ request[r].closed
  BY <1>2 DEF IInv, GateHeld, InHand
<1>6. UNCHANGED <<now, limiter, tables>>
  BY DEF Stamp
<1>7. q.stamp <= now
  BY <1>2, <1>4
<1> QED BY <1>2, <1>3, <1>4, <1>5, <1>6, <1>7, RequestStep

LEMMA CheckLabelStep ==
    ASSUME IInv, NEW r \in Requests, CheckLabel(r)
    PROVE  IInv'
<1>1. CASE InUse(request[r].label)
  BY <1>1, EndStep DEF CheckLabel
<1>2. CASE ~InUse(request[r].label)
  <2>1. PICK q : q = [request[r] EXCEPT !.at = "free", !.seen = SameLabel(r)]
    OBVIOUS
  <2>2. /\ request[r] \in Request /\ request[r].source = request[r].client
        /\ request[r].stamp <= now /\ request[r].at = "admitted"
        /\ SameLabel(r) \in SUBSET Requests
    BY DEF IInv, TypeOK, Recognised, CheckLabel, SameLabel
  <2>3. request' = [request EXCEPT ![r] = q]
    BY <1>2, <2>1 DEF CheckLabel, IInv, TypeOK
  <2>4. /\ q \in Request /\ q.at = "free" /\ q.source = q.client
        /\ q.stamp = request[r].stamp /\ q.seen = SameLabel(r)
        /\ q.kind = request[r].kind /\ q.closed = request[r].closed
    BY <2>1, <2>2 DEF Request, Steps
  <2>5. q.seen \subseteq keys /\ q.seen \cap active = {}
    BY <1>2, <2>4 DEF InUse, SameLabel
  <2>6. request[r].kind = "public" => PublicMintingEnabled \/ request[r].closed
    BY <2>2 DEF IInv, GateHeld, InHand
  <2>7. UNCHANGED <<now, limiter, tables>>
    BY DEF CheckLabel
  <2> QED BY <2>2, <2>3, <2>4, <2>5, <2>6, <2>7, RequestStep
<1> QED BY <1>1, <1>2

-----------------------------------------------------------------------------
(* The limiter.                                                            *)

\* What _prune leaves of a deque is a shorter one of the same events.
LEMMA YoungShrinks ==
    ASSUME NEW S, NEW history \in Seq(S), NEW t
    PROVE  Young(history, t) \in Seq(S) /\ Len(Young(history, t)) <= Len(history)
<1> DEFINE old == {i \in 1..Len(history) : \A j \in 1..i : history[j] <= t - Window}
           k == Cardinality(old)
           n == Len(history)
<1>1. n \in Nat
  OBVIOUS
<1>2. IsFiniteSet(1..n) /\ Cardinality(1..n) = n
  BY <1>1, FS_Interval
<1>3. old \subseteq 1..n
  OBVIOUS
<1>4. IsFiniteSet(old)
  BY <1>2, <1>3, FS_Subset
<1>5. k \in Nat
  BY <1>4, FS_CardinalityType
<1>6. Young(history, t) = SubSeq(history, k + 1, n)
  BY DEF Young, Pruned
<1> HIDE DEF k, n
<1>7. \A i \in (k + 1)..n : history[i] \in S
  BY <1>1, <1>5 DEF n
<1>8. /\ SubSeq(history, k + 1, n) \in Seq(S)
      /\ Len(SubSeq(history, k + 1, n)) = IF k + 1 <= n THEN n - (k + 1) + 1 ELSE 0
  BY <1>1, <1>5, <1>7, SubSeqProperties
<1>9. Len(SubSeq(history, k + 1, n)) <= n
  BY <1>1, <1>5, <1>8
<1> QED BY <1>6, <1>8, <1>9 DEF n

\* How many requests of a client the limiter let through.
Passed(seq, s) == {i \in 1..Len(seq) : seq[i].client = s}

LEMMA PassedIsFinite ==
    ASSUME NEW S, NEW seq \in Seq(S), NEW s
    PROVE  IsFiniteSet(Passed(seq, s)) /\ Cardinality(Passed(seq, s)) \in Nat
<1>1. Len(seq) \in Nat
  OBVIOUS
<1>2. IsFiniteSet(1..Len(seq)) /\ Passed(seq, s) \subseteq 1..Len(seq)
  BY <1>1, FS_Interval DEF Passed
<1> QED BY <1>2, FS_Subset, FS_CardinalityType

\* One more is counted for its client and for nobody else.
LEMMA PassedGrows ==
    ASSUME NEW S, NEW seq \in Seq(S), NEW e \in S, NEW s
    PROVE  Cardinality(Passed(Append(seq, e), s))
             = IF e.client = s THEN Cardinality(Passed(seq, s)) + 1
               ELSE Cardinality(Passed(seq, s))
<1> DEFINE n == Len(seq)
           more == Append(seq, e)
<1>1. /\ n \in Nat /\ Len(more) = n + 1 /\ more[n + 1] = e
      /\ \A i \in 1..n : more[i] = seq[i]
  OBVIOUS
<1> HIDE DEF more
<1>2. \A i \in 1..(n + 1) : i \in 1..n \/ i = n + 1
  BY <1>1
<1>3. \A i \in 1..n : i \in 1..(n + 1) /\ i # n + 1
  BY <1>1
<1>4. n + 1 \in 1..(n + 1) /\ n + 1 \notin Passed(seq, s)
  BY <1>1, <1>3 DEF Passed
<1>5. CASE e.client = s
  <2>1. Passed(more, s) = Passed(seq, s) \cup {n + 1}
    BY <1>1, <1>2, <1>3, <1>4, <1>5 DEF Passed
  <2> QED BY <1>4, <1>5, <2>1, PassedIsFinite, FS_AddElement DEF more
<1>6. CASE e.client # s
  <2>1. Passed(more, s) = Passed(seq, s)
    BY <1>1, <1>2, <1>3, <1>4, <1>6 DEF Passed
  <2> QED BY <1>6, <2>1 DEF more
<1> QED BY <1>5, <1>6

\* The limiter's type, and its bound.
Limited(b) == \A s \in Addresses : b[s] \in Seq(0..now) /\ Len(b[s]) <= Limit

\* No request that Admit handles is public and held by a closed switch unseen.
LEMMA AdmitStep ==
    ASSUME IInv, NEW r \in Requests, Admit(r)
    PROVE  IInv'
<1> USE DEF IInv
<1> DEFINE t == request[r].stamp
           s == request[r].source
           history == Young(buckets[s], t)
<1>1. /\ request[r] \in Request /\ s = request[r].client /\ s \in Addresses
      /\ t \in Nat /\ t <= now /\ now \in Nat /\ request[r].at = "stamped"
  BY DEF TypeOK, Request, Recognised, Admit
<1>2. UNCHANGED <<now, setting, keys, active, actors>>
  BY DEF Admit, tables
<1>3. t \in 0..now /\ buckets[s] \in Seq(0..now) /\ Len(buckets[s]) <= Limit
  BY <1>1 DEF TypeOK
<1>4. history \in Seq(0..now) /\ Len(history) <= Len(buckets[s])
  BY <1>3, YoungShrinks
<1>5. Len(buckets[s]) \in Nat /\ Len(history) \in Nat /\ Limit \in Nat
  BY <1>3, <1>4, MintingAssumption
<1>6. r \notin keys
  BY <1>1 DEF KeysAreOver
<1>7. DOMAIN buckets = Addresses
  BY DEF TypeOK
<1> HIDE DEF t, s, history
<1>8. CASE Len(history) >= Limit
  <2>1. /\ End(r) /\ ops' = ops /\ admitted' = admitted
        /\ buckets' = [buckets EXCEPT ![s] = history]
    BY <1>8 DEF Admit, t, s, history
  <2>2. PICK q : q = Over(request[r])
    OBVIOUS
  <2>3. q \in Request /\ q.at = "over" /\ q.source = q.client /\ q.stamp = 0
    BY <2>2, OverIsEnd
  <2>4. /\ request' \in [Requests -> Request] /\ request'[r] = q
        /\ \A o \in Requests \ {r} : request'[o] = request[o]
    BY <2>1, <2>2, <2>3 DEF End, TypeOK
  <2>5. \A x \in Addresses :
          buckets'[x] = IF x = s THEN history ELSE buckets[x]
    BY <1>7, <2>1
  <2>6. TypeOK'
    <3>1. buckets' \in [Addresses -> Seq(0..now)]
      BY <1>3, <1>4, <2>1 DEF TypeOK
    <3>2. \A x \in Addresses : Len(buckets'[x]) <= Limit
      <4>1. Len(history) <= Limit
        BY <1>3, <1>4, <1>5
      <4> QED BY <2>5, <4>1 DEF TypeOK
    <3> QED BY <1>2, <2>1, <2>4, <3>1, <3>2 DEF TypeOK
  <2>7. Recognised' /\ KeysAreOver' /\ SeenInactive' /\ GateHeld'
    <3>1. Recognised'
      BY <1>1, <1>2, <2>3, <2>4 DEF Recognised
    <3>2. KeysAreOver'
      BY <1>2, <1>6, <2>4 DEF KeysAreOver, TypeOK
    <3>3. SeenInactive'
      BY <1>2, <2>3, <2>4 DEF SeenInactive
    <3>4. GateHeld'
      BY <1>2, <2>3, <2>4 DEF GateHeld, InHand, PublicMintingEnabled
    <3> QED BY <3>1, <3>2, <3>3, <3>4
  <2>8. OwnBucket'
    <3> SUFFICES ASSUME NEW x \in Addresses
                 PROVE  Len(buckets'[x]) <= Cardinality(Passed(admitted, x))
      BY <2>1 DEF OwnBucket, Passed
    <3>1. Len(buckets[x]) <= Cardinality(Passed(admitted, x))
      BY DEF OwnBucket, Passed
    <3>2. Cardinality(Passed(admitted, x)) \in Nat
      BY PassedIsFinite DEF TypeOK
    <3>3. Len(buckets[x]) \in Nat
      BY DEF TypeOK
    <3> QED BY <1>4, <1>5, <2>5, <3>1, <3>2, <3>3
  <2> QED BY <2>6, <2>7, <2>8
<1>9. CASE ~(Len(history) >= Limit)
  <2> DEFINE e == [client |-> request[r].client, source |-> s, stamp |-> t]
             Event == [client: Clients, source: Addresses, stamp: 0..now]
  <2>1. PICK appended : appended = [buckets EXCEPT ![s] = Append(history, t)]
    OBVIOUS
  <2>2. \A x \in Addresses :
          appended[x] = IF x = s THEN Append(history, t) ELSE buckets[x]
    BY <1>7, <2>1
  <2>3. /\ Append(history, t) \in Seq(0..now)
        /\ Len(Append(history, t)) = Len(history) + 1
    BY <1>3, <1>4
  <2>4. /\ request' = [request EXCEPT ![r].at = "admitted", ![r].stamp = 0]
        /\ ops' = (ops + 1) % SweepEvery
        /\ buckets' = IF ops' = 0
                      THEN [x \in Addresses |-> IF Dead(appended[x], t) THEN <<>> ELSE appended[x]]
                      ELSE appended
        /\ admitted' = Append(admitted, e)
    BY <1>9, <2>1 DEF Admit, t, s, history
  <2>5. PICK q : q = [request[r] EXCEPT !.at = "admitted", !.stamp = 0]
    OBVIOUS
  <2>6. /\ q \in Request /\ q.at = "admitted" /\ q.source = q.client /\ q.stamp = 0
        /\ q.kind = request[r].kind /\ q.closed = request[r].closed
    BY <1>1, <2>5 DEF Request, Steps, s
  <2>7. /\ request' \in [Requests -> Request] /\ request'[r] = q
        /\ \A o \in Requests \ {r} : request'[o] = request[o]
    BY <2>4, <2>5, <2>6 DEF TypeOK
  <2>8. \A x \in Addresses : buckets'[x] = <<>> \/ buckets'[x] = appended[x]
    BY <2>4
  <2>9. e \in Event /\ admitted \in Seq(Event)
    BY <1>1, <1>3 DEF TypeOK, Request
  <2>10. admitted' \in Seq(Event)
    BY <2>4, <2>9
  <2>11. \A x \in Addresses :
           buckets'[x] \in Seq(0..now) /\ Len(buckets'[x]) <= Limit
    <3> SUFFICES ASSUME NEW x \in Addresses
                 PROVE  buckets'[x] \in Seq(0..now) /\ Len(buckets'[x]) <= Limit
      OBVIOUS
    <3>1. appended[x] \in Seq(0..now) /\ Len(appended[x]) <= Limit
      <4>1. CASE x = s
        <5>1. appended[x] = Append(history, t)
          BY <2>2, <4>1
        <5>2. Len(history) + 1 <= Limit
          BY <1>5, <1>9
        <5> HIDE DEF t, s, history
        <5> QED BY <2>3, <5>1, <5>2
      <4>2. CASE x # s
        BY <2>2, <4>2 DEF TypeOK
      <4> QED BY <4>1, <4>2
    <3>2. <<>> \in Seq(0..now) /\ Len(<<>>) <= Limit
      BY <1>5
    <3> QED BY <2>8, <3>1, <3>2
  <2>12. ops' \in 0..(SweepEvery - 1)
    BY <2>4, MintingAssumption DEF TypeOK
  <2>14. TypeOK'
    <3>1. buckets' \in [Addresses -> Seq(0..now)]
      <4>1. appended \in [Addresses -> Seq(0..now)]
        BY <2>1, <2>3 DEF TypeOK
      <4>2. buckets' = [x \in Addresses |-> buckets'[x]]
        BY <2>4, <4>1
      <4> QED BY <2>11, <4>2
    <3>2. \A x \in Addresses : Len(buckets'[x]) <= Limit
      BY <2>11
    <3> QED BY <1>2, <2>7, <2>10, <2>12, <3>1, <3>2 DEF TypeOK
  <2>15. Recognised' /\ KeysAreOver' /\ SeenInactive'
    <3>1. Recognised'
      BY <1>1, <1>2, <2>6, <2>7 DEF Recognised
    <3>2. KeysAreOver'
      BY <1>2, <1>6, <2>7 DEF KeysAreOver, TypeOK
    <3>3. SeenInactive'
      BY <1>2, <2>6, <2>7 DEF SeenInactive
    <3> QED BY <3>1, <3>2, <3>3
  <2>16. GateHeld'
    BY <1>1, <1>2, <2>6, <2>7 DEF GateHeld, InHand, PublicMintingEnabled
  <2>17. OwnBucket'
    <3> SUFFICES ASSUME NEW x \in Addresses
                 PROVE  Len(buckets'[x]) <= Cardinality(Passed(admitted', x))
      BY DEF OwnBucket, Passed
    <3>1. Len(buckets[x]) <= Cardinality(Passed(admitted, x))
      BY DEF OwnBucket, Passed
    <3>2. Cardinality(Passed(admitted, x)) \in Nat
      BY <2>9, PassedIsFinite
    <3>3. e.client = s
      BY <1>1 DEF s
    <3>4. Cardinality(Passed(admitted', x))
            = IF x = s THEN Cardinality(Passed(admitted, x)) + 1
              ELSE Cardinality(Passed(admitted, x))
      <4> HIDE DEF e, Event
      <4>1. Cardinality(Passed(Append(admitted, e), x))
              = IF e.client = x THEN Cardinality(Passed(admitted, x)) + 1
                ELSE Cardinality(Passed(admitted, x))
        BY <2>9, PassedGrows
      <4> QED BY <2>4, <3>3, <4>1
    <3>5. Len(buckets[x]) \in Nat
      BY DEF TypeOK
    <3>6. Len(appended[x]) <= Cardinality(Passed(admitted', x))
      <4>1. CASE x = s
        <5>1. Len(appended[x]) = Len(history) + 1
          BY <2>2, <2>3, <4>1
        <5>2. Len(history) <= Len(buckets[x])
          BY <1>4, <4>1
        <5>3. Cardinality(Passed(admitted', x)) = Cardinality(Passed(admitted, x)) + 1
          BY <3>4, <4>1
        <5> QED BY <1>5, <3>1, <3>2, <3>5, <5>1, <5>2, <5>3
      <4>2. CASE x # s
        BY <2>2, <3>1, <3>4, <4>2
      <4> QED BY <4>1, <4>2
    <3>7. Len(<<>>) = 0
      OBVIOUS
    <3>8. 0 <= Cardinality(Passed(admitted', x))
      BY <3>2, <3>4
    <3> QED BY <2>8, <3>6, <3>7, <3>8
  <2> QED BY <2>14, <2>15, <2>16, <2>17
<1> QED BY <1>8, <1>9

-----------------------------------------------------------------------------
(* The tables, and the rest of the world.                                  *)

LEMMA InsertKeyStep ==
    ASSUME IInv, NEW r \in Requests, InsertKey(r)
    PROVE  IInv'
<1> USE DEF IInv
<1>1. /\ request[r].at = "free" /\ End(r)
      /\ keys' = keys \cup {r} /\ active' = active \cup {r} /\ actors' = actors \cup {r}
      /\ UNCHANGED <<now, setting, buckets, ops, admitted>>
  BY DEF InsertKey, limiter, Provisioned
<1>2. PICK q : q = Over(request[r])
  OBVIOUS
<1>3. q \in Request /\ q.at = "over" /\ q.source = q.client /\ q.stamp = 0
  BY <1>2, OverIsEnd
<1>4. /\ request' \in [Requests -> Request] /\ request'[r] = q
      /\ \A o \in Requests \ {r} : request'[o] = request[o]
  BY <1>1, <1>2, <1>3 DEF End, TypeOK
<1>5. TypeOK'
  BY <1>1, <1>4 DEF TypeOK
<1>6. Recognised' /\ KeysAreOver' /\ GateHeld'
  <2>1. 0 <= now
    BY DEF TypeOK
  <2>2. Recognised'
    BY <1>1, <1>3, <1>4, <2>1 DEF Recognised
  <2>3. KeysAreOver'
    BY <1>1, <1>3, <1>4 DEF KeysAreOver, TypeOK
  <2>4. GateHeld'
    BY <1>1, <1>3, <1>4 DEF GateHeld, InHand, PublicMintingEnabled
  <2> QED BY <2>2, <2>3, <2>4
<1>7. r \notin keys
  BY <1>1 DEF KeysAreOver
<1>8. SeenInactive'
  BY <1>1, <1>3, <1>4, <1>7 DEF SeenInactive
<1>9. OwnBucket'
  BY <1>1 DEF OwnBucket
<1> QED BY <1>5, <1>6, <1>8, <1>9

LEMMA ClosedChanges ==
    ASSUME NEW q \in Request, NEW b \in BOOLEAN
    PROVE  /\ [q EXCEPT !.closed = b] \in Request
           /\ [q EXCEPT !.closed = b].closed = b
BY DEF Request

LEMMA SetMintingStep ==
    ASSUME IInv, NEW b \in BOOLEAN, SetMinting(b)
    PROVE  IInv'
<1> USE DEF IInv
<1>1. UNCHANGED <<now, buckets, ops, admitted, keys, active, actors>>
  BY DEF SetMinting, limiter
<1>2. setting' = IF b THEN "true" ELSE "false"
  BY DEF SetMinting
<1>3. /\ request' \in [Requests -> Request]
      /\ \A r \in Requests :
           /\ request'[r].at = request[r].at /\ request'[r].kind = request[r].kind
           /\ request'[r].source = request[r].source /\ request'[r].client = request[r].client
           /\ request'[r].stamp = request[r].stamp /\ request'[r].seen = request[r].seen
           /\ InHand(r) => request'[r].closed = ~b
  <2>1. request' = [r \in Requests |->
          IF InHand(r) THEN [request[r] EXCEPT !.closed = ~b] ELSE request[r]]
    BY DEF SetMinting
  <2>2. PICK no \in BOOLEAN : no = ~b
    OBVIOUS
  <2>3. \A r \in Requests : [request[r] EXCEPT !.closed = no] \in Request
    BY ClosedChanges DEF TypeOK
  <2> QED BY <2>1, <2>2, <2>3 DEF TypeOK, Request
<1>4. TypeOK'
  BY <1>1, <1>2, <1>3 DEF TypeOK, Stored
<1>5. Recognised' /\ SeenInactive'
  BY <1>1, <1>3 DEF Recognised, SeenInactive
<1>6. KeysAreOver'
  BY <1>1, <1>3 DEF KeysAreOver, TypeOK
<1>7. GateHeld'
  BY <1>2, <1>3 DEF GateHeld, InHand, PublicMintingEnabled
<1>8. OwnBucket'
  BY <1>1 DEF OwnBucket
<1> QED BY <1>4, <1>5, <1>6, <1>7, <1>8

LEMMA RestartStep ==
    ASSUME IInv, Restart
    PROVE  IInv'
<1> USE DEF IInv
<1>1. /\ UNCHANGED <<now, setting, keys, active, actors>>
      /\ ops' = 0 /\ admitted' = <<>> /\ buckets' = [s \in Addresses |-> <<>>]
  BY DEF Restart, tables
<1>2. request' = [r \in Requests |-> IF InHand(r) THEN Over(request[r]) ELSE request[r]]
  BY DEF Restart
<1>3. \A r \in Requests :
        IF InHand(r)
        THEN /\ request'[r] \in Request /\ request'[r].at = "over"
             /\ request'[r].source = request'[r].client /\ request'[r].stamp = 0
        ELSE request'[r] = request[r]
  BY <1>2, OverIsEnd
<1>4. request' \in [Requests -> Request]
  BY <1>2, <1>3 DEF TypeOK
<1>5. TypeOK'
  BY <1>1, <1>4, MintingAssumption DEF TypeOK
<1>6. Recognised' /\ KeysAreOver' /\ SeenInactive' /\ GateHeld'
  BY <1>1, <1>3
     DEF Recognised, KeysAreOver, SeenInactive, GateHeld, InHand, PublicMintingEnabled, TypeOK
<1>7. OwnBucket'
  <2> SUFFICES ASSUME NEW s \in Addresses
               PROVE  Len(buckets'[s]) <=
                        Cardinality({i \in 1..Len(admitted') : admitted'[i].client = s})
    BY DEF OwnBucket
  <2>1. {i \in 1..Len(admitted') : admitted'[i].client = s} = {}
    BY <1>1
  <2>2. Cardinality({i \in 1..Len(admitted') : admitted'[i].client = s}) = 0
    BY <2>1, FS_EmptySet
  <2>3. Len(buckets'[s]) = 0
    BY <1>1
  <2> QED BY <2>2, <2>3
<1> QED BY <1>5, <1>6, <1>7

LEMMA RevokeStep ==
    ASSUME IInv, NEW r \in Requests, RevokeKey(r)
    PROVE  IInv'
<1> USE DEF IInv
<1>1. /\ UNCHANGED <<now, setting, buckets, ops, admitted, keys, actors, request>>
      /\ active' \subseteq active
  BY DEF RevokeKey, limiter
<1>2. TypeOK' /\ Recognised' /\ KeysAreOver' /\ SeenInactive'
  BY <1>1 DEF TypeOK, Recognised, KeysAreOver, SeenInactive
<1>3. GateHeld' /\ OwnBucket'
  BY <1>1 DEF GateHeld, InHand, PublicMintingEnabled, OwnBucket
<1> QED BY <1>2, <1>3

LEMMA TickStep ==
    ASSUME IInv, Tick
    PROVE  IInv'
<1> USE DEF IInv
<1>1. now \in Nat /\ now' = now + 1
  BY DEF Tick, TypeOK
<1>2. UNCHANGED <<setting, buckets, ops, admitted, keys, active, actors, request>>
  BY DEF Tick, limiter, tables
<1>3. 0..now \subseteq 0..now'
  BY <1>1
<1>4. \A s \in Addresses : buckets[s] \in Seq(0..now')
  <2> SUFFICES ASSUME NEW s \in Addresses PROVE buckets[s] \in Seq(0..now')
    OBVIOUS
  <2>1. buckets[s] \in Seq(0..now)
    BY DEF TypeOK
  <2> QED BY <1>3, <2>1, SeqMonotonic
<1>5. admitted \in Seq([client: Clients, source: Addresses, stamp: 0..now'])
  <2>1. [client: Clients, source: Addresses, stamp: 0..now]
          \subseteq [client: Clients, source: Addresses, stamp: 0..now']
    BY <1>3
  <2> QED BY <2>1, SeqMonotonic DEF TypeOK
<1>6. TypeOK'
  BY <1>1, <1>2, <1>4, <1>5 DEF TypeOK
<1>7. Recognised'
  BY <1>1, <1>2 DEF Recognised, TypeOK, Request
<1>8. KeysAreOver' /\ SeenInactive' /\ GateHeld' /\ OwnBucket'
  BY <1>2 DEF KeysAreOver, SeenInactive, GateHeld, InHand, PublicMintingEnabled, OwnBucket
<1> QED BY <1>6, <1>7, <1>8

LEMMA Unchanged ==
    ASSUME IInv, UNCHANGED vars
    PROVE  IInv'
BY DEF vars, limiter, tables, IInv, TypeOK, Recognised, KeysAreOver, SeenInactive, GateHeld,
       InHand, PublicMintingEnabled, OwnBucket

-----------------------------------------------------------------------------
(* The limit of the limiter.                                               *)

\* A bucket has stamps of requests that were admitted, in order when they are.
Stamped ==
    \A s \in Addresses : \A j \in 1..Len(buckets[s]) :
        \E i \in 1..Len(admitted) : admitted[i].stamp = buckets[s][j]

Sorted ==
    InOrder => \A s \in Addresses : \A j, k \in 1..Len(buckets[s]) :
        j < k => buckets[s][j] <= buckets[s][k]

\* Those of a client after `x`, and those in its bucket.
After(seq, c, x) == {i \in 1..Len(seq) : seq[i].client = c /\ seq[i].stamp > x}
YoungIn(bucket, x) == {j \in 1..Len(bucket) : bucket[j] > x}
Past(seq, x) == \A i \in 1..Len(seq) : seq[i].stamp - Window <= x

\* Nothing is missing from a bucket that the next admission could still count.
Counted ==
    InOrder => \A c \in Clients, x \in Int :
        Past(admitted, x) =>
            Cardinality(After(admitted, c, x)) <= Cardinality(YoungIn(buckets[c], x))

Within(seq, c, t) ==
    {i \in 1..Len(seq) : seq[i].client = c /\ seq[i].stamp <= t /\ seq[i].stamp > t - Window}

\* LimitHolds, for windows of the future too.
WindowsHold ==
    InOrder => \A c \in Clients, t \in Int : Cardinality(Within(admitted, c, t)) <= Limit

FairInv == Stamped /\ Sorted /\ Counted /\ WindowsHold

\* _prune drops nothing that is younger than its cutoff.
LEMMA YoungCut ==
    ASSUME NEW b \in Seq(Nat), NEW t \in Nat
    PROVE  \E k \in 0..Len(b) :
             /\ Young(b, t) \in Seq(Nat) /\ Len(Young(b, t)) = Len(b) - k
             /\ \A j \in 1..(Len(b) - k) : Young(b, t)[j] = b[j + k]
             /\ \A i \in 1..k : b[i] <= t - Window
<1> DEFINE old == {i \in 1..Len(b) : \A j \in 1..i : b[j] <= t - Window}
           k == Cardinality(old)
           n == Len(b)
<1>1. n \in Nat
  OBVIOUS
<1>2. IsFiniteSet(1..n) /\ Cardinality(1..n) = n /\ old \subseteq 1..n
  BY <1>1, FS_Interval
<1>3. IsFiniteSet(old) /\ k \in Nat /\ k <= n
  BY <1>1, <1>2, FS_Subset, FS_CardinalityType
<1>4. \A i \in old, j \in 1..n : j <= i => j \in old
  BY <1>1
<1>5. k = 0 \/ k \in old
  <2>1. SUFFICES ASSUME k # 0, k \notin old PROVE FALSE
    OBVIOUS
  <2>2. k - 1 \in Nat /\ old \subseteq 1..(k - 1)
    <3> HIDE DEF old
    <3>1. ASSUME NEW i \in old PROVE i \in 1..(k - 1)
      <4> DEFINE m == k
      <4>1. m \in 1..n /\ i \in 1..n /\ m \notin old
        BY <1>1, <1>2, <1>3, <2>1
      <4> HIDE DEF m
      <4>2. ~(m <= i)
        BY <1>4, <4>1
      <4>3. i \in 1..(m - 1)
        BY <1>1, <4>1, <4>2
      <4> QED BY <4>3 DEF m
    <3> QED BY <1>3, <2>1, <3>1
  <2>3. IsFiniteSet(1..(k - 1)) /\ Cardinality(1..(k - 1)) = k - 1
    <3> HIDE DEF k
    <3> QED BY <2>2, FS_Interval
  <2>4. k <= k - 1
    <3>1. Cardinality(old) <= Cardinality(1..(k - 1))
      BY <2>2, <2>3, FS_Subset
    <3> QED BY <2>3, <3>1
  <2> HIDE DEF k
  <2> QED BY <1>3, <2>4
<1>6. \A i \in 1..k : b[i] <= t - Window
  BY <1>3, <1>5
<1>7. Young(b, t) = SubSeq(b, k + 1, n)
  BY DEF Young, Pruned
<1> HIDE DEF k, n, old
<1>8. /\ SubSeq(b, k + 1, n) \in Seq(Nat)
      /\ Len(SubSeq(b, k + 1, n)) = n - k
      /\ \A j \in 1..(n - k) : SubSeq(b, k + 1, n)[j] = b[j + k]
  <2>1. \A i \in (k + 1)..n : b[i] \in Nat
    BY <1>1, <1>3 DEF n
  <2>2. /\ SubSeq(b, k + 1, n) \in Seq(Nat)
        /\ Len(SubSeq(b, k + 1, n)) = IF k + 1 <= n THEN n - (k + 1) + 1 ELSE 0
        /\ \A i \in 1..(n - (k + 1) + 1) : SubSeq(b, k + 1, n)[i] = b[k + 1 + i - 1]
    BY <1>1, <1>3, <2>1, SubSeqProperties
  <2>3. n - (k + 1) + 1 = n - k /\ \A i \in 1..(n - k) : k + 1 + i - 1 = i + k
    BY <1>1, <1>3
  <2> QED BY <1>1, <1>3, <2>2, <2>3
<1>9. k \in 0..n
  BY <1>1, <1>3
<1> QED BY <1>6, <1>7, <1>8, <1>9 DEF n

\* A stamp is one more in a bucket.
LEMMA BucketGrows ==
    ASSUME NEW b \in Seq(Nat), NEW t \in Nat, NEW x \in Int
    PROVE  /\ IsFiniteSet(YoungIn(b, x)) /\ Cardinality(YoungIn(b, x)) \in Nat
           /\ Cardinality(YoungIn(b, x)) <= Len(b)
           /\ Cardinality(YoungIn(Append(b, t), x))
                = Cardinality(YoungIn(b, x)) + (IF t > x THEN 1 ELSE 0)
<1> DEFINE n == Len(b)
           more == Append(b, t)
<1>1. /\ n \in Nat /\ Len(more) = n + 1 /\ more[n + 1] = t
      /\ \A i \in 1..n : more[i] = b[i]
  OBVIOUS
<1>2. IsFiniteSet(1..n) /\ Cardinality(1..n) = n /\ YoungIn(b, x) \subseteq 1..n
  <2>1. YoungIn(b, x) \subseteq 1..n
    BY DEF YoungIn
  <2>2. n \in Nat
    BY <1>1
  <2> HIDE DEF n
  <2>3. IsFiniteSet(1..n) /\ Cardinality(1..n) = n
    BY <2>2, FS_Interval
  <2> QED BY <2>1, <2>3
<1>3. IsFiniteSet(YoungIn(b, x)) /\ Cardinality(YoungIn(b, x)) \in Nat
      /\ Cardinality(YoungIn(b, x)) <= n
  BY <1>2, FS_Subset, FS_CardinalityType
<1> HIDE DEF more
<1>4. n + 1 \notin YoungIn(b, x)
  BY <1>1, <1>2
<1>5. YoungIn(more, x) = IF t > x THEN YoungIn(b, x) \cup {n + 1} ELSE YoungIn(b, x)
  <2>1. \A i \in 1..(n + 1) : i \in 1..n \/ i = n + 1
    BY <1>1
  <2>2. \A i \in 1..n : i \in 1..(n + 1) /\ i # n + 1
    BY <1>1
  <2>3. n + 1 \in 1..(n + 1)
    BY <1>1
  <2> QED BY <1>1, <2>1, <2>2, <2>3 DEF YoungIn
<1>6. Cardinality(YoungIn(b, x) \cup {n + 1}) = Cardinality(YoungIn(b, x)) + 1
  BY <1>3, <1>4, FS_AddElement
<1> QED BY <1>3, <1>5, <1>6 DEF more

\* An admission is one more of its client's after an earlier time.
LEMMA AfterGrows ==
    ASSUME NEW S, NEW seq \in Seq(S), NEW e \in S, NEW c, NEW x \in Int
    PROVE  /\ IsFiniteSet(After(seq, c, x)) /\ Cardinality(After(seq, c, x)) \in Nat
           /\ Cardinality(After(Append(seq, e), c, x))
                = Cardinality(After(seq, c, x)) + (IF e.client = c /\ e.stamp > x THEN 1 ELSE 0)
<1> DEFINE n == Len(seq)
           more == Append(seq, e)
<1>1. /\ n \in Nat /\ Len(more) = n + 1 /\ more[n + 1] = e
      /\ \A i \in 1..n : more[i] = seq[i]
  OBVIOUS
<1>2. IsFiniteSet(1..n) /\ After(seq, c, x) \subseteq 1..n
  BY <1>1, FS_Interval DEF After
<1>3. IsFiniteSet(After(seq, c, x)) /\ Cardinality(After(seq, c, x)) \in Nat
  BY <1>2, FS_Subset, FS_CardinalityType
<1> HIDE DEF more
<1>4. n + 1 \notin After(seq, c, x)
  BY <1>1, <1>2
<1>5. After(more, c, x) = IF e.client = c /\ e.stamp > x THEN After(seq, c, x) \cup {n + 1}
                          ELSE After(seq, c, x)
  <2>1. \A i \in 1..(n + 1) : i \in 1..n \/ i = n + 1
    BY <1>1
  <2>2. \A i \in 1..n : i \in 1..(n + 1) /\ i # n + 1
    BY <1>1
  <2>3. n + 1 \in 1..(n + 1)
    BY <1>1
  <2> QED BY <1>1, <2>1, <2>2, <2>3 DEF After
<1>6. Cardinality(After(seq, c, x) \cup {n + 1}) = Cardinality(After(seq, c, x)) + 1
  BY <1>3, <1>4, FS_AddElement
<1> QED BY <1>3, <1>5, <1>6 DEF more

\* Pruning takes nothing that is younger than `x` if its cutoff is not.
LEMMA PruneKeeps ==
    ASSUME NEW b \in Seq(Nat), NEW t \in Nat, NEW x \in Int, t - Window <= x
    PROVE  Cardinality(YoungIn(b, x)) <= Cardinality(YoungIn(Young(b, t), x))
<1>1. PICK k \in 0..Len(b) :
        /\ Young(b, t) \in Seq(Nat) /\ Len(Young(b, t)) = Len(b) - k
        /\ \A j \in 1..(Len(b) - k) : Young(b, t)[j] = b[j + k]
        /\ \A i \in 1..k : b[i] <= t - Window
  BY YoungCut
<1> DEFINE h == Young(b, t)
           f == [j \in YoungIn(b, x) |-> j - k]
<1>2. k \in Nat /\ Len(b) \in Nat /\ k <= Len(b) /\ Window \in Nat
  BY MintingAssumption
<1> HIDE DEF h
<1>3. ASSUME NEW j \in YoungIn(b, x) PROVE j - k \in YoungIn(h, x)
  <2>1. j \in 1..Len(b) /\ b[j] > x /\ b[j] \in Nat
    BY DEF YoungIn
  <2>2. ~(j <= k)
    BY <1>1, <1>2, <2>1
  <2>3. j - k \in 1..(Len(b) - k) /\ (j - k) + k = j
    BY <1>2, <2>1, <2>2
  <2> QED BY <1>1, <2>1, <2>3 DEF YoungIn, h
<1>4. f \in Injection(YoungIn(b, x), YoungIn(h, x))
  <2>1. f \in [YoungIn(b, x) -> YoungIn(h, x)]
    BY <1>3
  <2>2. \A i, j \in YoungIn(b, x) : f[i] = f[j] => i = j
    BY <1>2 DEF YoungIn
  <2> QED BY <2>1, <2>2 DEF Injection, IsInjective
<1>5. IsFiniteSet(YoungIn(h, x))
  BY <1>1, BucketGrows DEF h
<1> HIDE DEF f
<1> QED BY <1>4, <1>5, FS_Injection DEF h

\* InOrder' in the terms of the step that admits `e`.
LEMMA OrderGrows ==
    ASSUME NEW S, NEW seq \in Seq(S), NEW e \in S, \A x \in S : x.stamp \in Nat,
           admitted = seq, admitted' = Append(seq, e), InOrder'
    PROVE  InOrder /\ \A i \in 1..Len(seq) : seq[i].stamp <= e.stamp
<1> DEFINE n == Len(seq)
           more == Append(seq, e)
<1>1. /\ n \in Nat /\ Len(more) = n + 1 /\ more[n + 1] = e
      /\ \A i \in 1..n : more[i] = seq[i] /\ i \in 1..(n + 1) /\ i < n + 1
      /\ n + 1 \in 1..(n + 1)
  OBVIOUS
<1> HIDE DEF more
<1>2. \A i, j \in 1..(n + 1) : i < j => more[i].stamp <= more[j].stamp
  BY <1>1 DEF InOrder, more
<1>3. \A i \in 1..n : seq[i].stamp <= e.stamp
  BY <1>1, <1>2
<1>4. \A i, j \in 1..n : i < j => seq[i].stamp <= seq[j].stamp
  BY <1>1, <1>2
<1> QED BY <1>3, <1>4 DEF InOrder

\* The limiter's bookkeeping is right after an admission too.
LEMMA AdmitFair ==
    ASSUME IInv, IInv', FairInv, NEW r \in Requests, Admit(r)
    PROVE  FairInv'
<1> DEFINE t == request[r].stamp
           s == request[r].source
           history == Young(buckets[s], t)
           Event == [client: Clients, source: Addresses, stamp: 0..now]
           e == [client |-> request[r].client, source |-> s, stamp |-> t]
<1>1. /\ s = request[r].client /\ s \in Addresses /\ s \in Clients /\ request[r].client \in Clients
      /\ t \in Nat /\ t <= now /\ now \in Nat /\ Window \in Nat \ {0} /\ Limit \in Nat
  BY MintingAssumption DEF IInv, TypeOK, Request, Recognised
<1>2. \A x \in Addresses : buckets[x] \in Seq(Nat) /\ Len(buckets[x]) <= Limit
                           /\ buckets'[x] \in Seq(Nat) /\ Len(buckets'[x]) <= Limit
  <2> SUFFICES ASSUME NEW x \in Addresses
               PROVE  buckets[x] \in Seq(Nat) /\ Len(buckets[x]) <= Limit
                      /\ buckets'[x] \in Seq(Nat) /\ Len(buckets'[x]) <= Limit
    OBVIOUS
  <2>1. /\ buckets[x] \in Seq(0..now) /\ buckets'[x] \in Seq(0..now')
        /\ Len(buckets[x]) <= Limit /\ Len(buckets'[x]) <= Limit
    BY DEF IInv, TypeOK
  <2>2. 0..now \subseteq Nat /\ 0..now' \subseteq Nat
    OBVIOUS
  <2> QED BY <2>1, <2>2, SeqMonotonic
<1>3. e \in Event /\ admitted \in Seq(Event) /\ \A x \in Event : x.stamp \in Nat
      /\ e.client = s /\ e.stamp = t
  BY <1>1 DEF IInv, TypeOK
<1>4. DOMAIN buckets = Addresses
  BY DEF IInv, TypeOK
<1>5. PICK k \in 0..Len(buckets[s]) :
        /\ history \in Seq(Nat) /\ Len(history) = Len(buckets[s]) - k
        /\ \A j \in 1..(Len(buckets[s]) - k) : history[j] = buckets[s][j + k]
        /\ \A i \in 1..k : buckets[s][i] <= t - Window
  BY <1>1, <1>2, YoungCut
<1>6. /\ Len(history) >= Limit =>
           /\ admitted' = admitted /\ buckets' = [buckets EXCEPT ![s] = history]
      /\ ~(Len(history) >= Limit) =>
           /\ admitted' = Append(admitted, e)
           /\ LET appended == [buckets EXCEPT ![s] = Append(history, t)]
              IN  buckets' = IF ops' = 0
                             THEN [x \in Addresses |->
                                     IF Dead(appended[x], t) THEN <<>> ELSE appended[x]]
                             ELSE appended
  BY DEF Admit
<1> HIDE DEF t, s, history, Event, e
\* A request that is turned away leaves its bucket as it was.
<1>7. CASE Len(history) >= Limit
  <2>1. Len(buckets[s]) \in Nat /\ k = 0 /\ Len(history) = Len(buckets[s])
    BY <1>1, <1>2, <1>5, <1>7
  <2>2. history = buckets[s]
    <3>1. \A j \in 1..Len(buckets[s]) : history[j] = buckets[s][j]
      <4>1. \A j \in 1..Len(buckets[s]) : j \in 1..(Len(buckets[s]) - k) /\ j + k = j
        BY <2>1
      <4> QED BY <1>5, <4>1
    <3>2. history \in Seq(Nat) /\ buckets[s] \in Seq(Nat)
      BY <1>1, <1>2, <1>5
    <3> QED BY <2>1, <3>1, <3>2, SeqEqual
  <2>3. buckets' = buckets /\ admitted' = admitted
    BY <1>4, <1>6, <1>7, <2>2 DEF IInv, TypeOK
  <2> QED BY <2>3 DEF FairInv, Stamped, Sorted, Counted, WindowsHold, InOrder
<1>8. CASE ~(Len(history) >= Limit)
  <2>1. PICK appended : appended = [buckets EXCEPT ![s] = Append(history, t)]
    OBVIOUS
  <2>2. /\ appended[s] = Append(history, t)
        /\ \A x \in Addresses \ {s} : appended[x] = buckets[x]
        /\ admitted' = Append(admitted, e)
        /\ \A x \in Addresses : \/ buckets'[x] = appended[x]
                                \/ buckets'[x] = <<>> /\ Dead(appended[x], t)
    BY <1>1, <1>4, <1>6, <1>8, <2>1
  <2>3. /\ Len(history) \in Nat /\ appended[s] \in Seq(Nat)
        /\ Len(appended[s]) = Len(history) + 1 /\ appended[s][Len(history) + 1] = t
        /\ \A j \in 1..Len(history) : appended[s][j] = history[j]
    <3>1. history \in Seq(Nat) /\ t \in Nat
      BY <1>1, <1>5
    <3>2. /\ Len(history) \in Nat /\ Append(history, t) \in Seq(Nat)
          /\ Len(Append(history, t)) = Len(history) + 1
          /\ Append(history, t)[Len(history) + 1] = t
          /\ \A j \in 1..Len(history) : Append(history, t)[j] = history[j]
      BY <3>1
    <3> QED BY <2>2, <3>2
  <2>4. buckets'[s] = appended[s]
    <3>1. Last(appended[s]) = t /\ appended[s] # <<>>
      BY <2>3 DEF Last
    <3>2. ~(t <= t - Window)
      BY <1>1
    <3> QED BY <1>1, <2>2, <3>1, <3>2 DEF Dead
  <2>5. /\ Len(admitted) \in Nat /\ Len(admitted') = Len(admitted) + 1
        /\ admitted'[Len(admitted) + 1] = e
        /\ \A i \in 1..Len(admitted) : admitted'[i] = admitted[i]
        /\ \A i \in 1..Len(admitted) : admitted[i].stamp \in Nat
    BY <1>3, <2>2
  <2>6. InOrder' => InOrder /\ \A i \in 1..Len(admitted) : admitted[i].stamp <= t
    BY <1>3, <2>2, OrderGrows
  <2>7. \A x \in Addresses \ {s} : buckets'[x] \in {<<>>, buckets[x]}
    BY <2>2
  <2>8. Stamped'
    <3> SUFFICES ASSUME NEW x \in Addresses, NEW j \in 1..Len(buckets'[x])
                 PROVE  \E i \in 1..Len(admitted') : admitted'[i].stamp = buckets'[x][j]
      BY DEF Stamped
    <3>1. \A i \in 1..Len(admitted) : i \in 1..Len(admitted')
      BY <2>5
    <3>2. ASSUME NEW y \in Addresses, NEW i \in 1..Len(buckets[y]), buckets[y][i] = buckets'[x][j]
          PROVE  \E l \in 1..Len(admitted') : admitted'[l].stamp = buckets'[x][j]
      BY <2>5, <3>1, <3>2 DEF FairInv, Stamped
    <3>3. CASE x # s
      BY <2>7, <3>2, <3>3
    <3>4. CASE x = s /\ j = Len(history) + 1
      <4>1. Len(admitted) + 1 \in 1..Len(admitted')
        BY <2>5
      <4> QED BY <1>3, <2>3, <2>4, <2>5, <3>4, <4>1
    <3>5. CASE x = s /\ j # Len(history) + 1
      <4>1. j \in 1..Len(history)
        BY <2>3, <2>4, <3>5
      <4>2. j + k \in 1..Len(buckets[s]) /\ history[j] = buckets[s][j + k]
        BY <1>1, <1>2, <1>5, <4>1
      <4>3. buckets'[x][j] = buckets[s][j + k]
        BY <2>3, <2>4, <3>5, <4>1, <4>2
      <4> QED BY <1>1, <3>2, <4>2, <4>3
    <3> QED BY <3>3, <3>4, <3>5
  <2>9. Sorted'
    <3> SUFFICES ASSUME InOrder', NEW x \in Addresses,
                        NEW j \in 1..Len(buckets'[x]), NEW l \in 1..Len(buckets'[x]), j < l
                 PROVE  buckets'[x][j] <= buckets'[x][l]
      BY DEF Sorted
    <3>1. \A y \in Addresses : \A a, b \in 1..Len(buckets[y]) :
            a < b => buckets[y][a] <= buckets[y][b]
      BY <2>6 DEF FairInv, Sorted
    <3>2. \A y \in Addresses : \A a \in 1..Len(buckets[y]) : buckets[y][a] <= t
      BY <2>6 DEF FairInv, Stamped
    <3>3. CASE x # s
      BY <2>7, <3>1, <3>3
    <3>4. CASE x = s
      <4>1. \A a \in 1..Len(history) :
              a + k \in 1..Len(buckets[s]) /\ history[a] = buckets[s][a + k]
        BY <1>1, <1>2, <1>5
      <4>2. j \in 1..Len(history)
        BY <2>3, <2>4, <3>4
      <4>3. CASE l = Len(history) + 1
        BY <1>1, <2>3, <2>4, <3>2, <3>4, <4>1, <4>2, <4>3
      <4>4. CASE l # Len(history) + 1
        <5>1. l \in 1..Len(history)
          BY <2>3, <2>4, <3>4, <4>4
        <5>2. buckets[s][j + k] <= buckets[s][l + k]
          <6>1. j + k < l + k /\ j + k \in 1..Len(buckets[s]) /\ l + k \in 1..Len(buckets[s])
            BY <1>1, <1>2, <1>5, <4>1, <4>2, <5>1
          <6> QED BY <1>1, <3>1, <6>1
        <5> QED BY <2>3, <2>4, <3>4, <4>1, <4>2, <5>1, <5>2
      <4> QED BY <4>3, <4>4
    <3> QED BY <3>3, <3>4
  <2>10. Counted'
    <3> SUFFICES ASSUME InOrder', NEW c \in Clients, NEW x \in Int, Past(admitted', x)
                 PROVE  Cardinality(After(admitted', c, x)) <= Cardinality(YoungIn(buckets'[c], x))
      BY DEF Counted
    <3>1. Past(admitted, x) /\ t - Window <= x
      <4>1. /\ Len(admitted) + 1 \in 1..Len(admitted')
            /\ \A i \in 1..Len(admitted) : i \in 1..Len(admitted')
        BY <2>5
      <4> QED BY <1>3, <2>5, <4>1 DEF Past
    <3>2. Cardinality(After(admitted, c, x)) <= Cardinality(YoungIn(buckets[c], x))
      BY <2>6, <3>1 DEF FairInv, Counted
    <3>3. /\ Cardinality(After(admitted', c, x))
               = Cardinality(After(admitted, c, x)) + (IF s = c /\ t > x THEN 1 ELSE 0)
          /\ Cardinality(After(admitted, c, x)) \in Nat
      BY <1>3, <2>2, AfterGrows
    <3>4. CASE c = s
      <4>1. Cardinality(YoungIn(buckets[s], x)) <= Cardinality(YoungIn(history, x))
        BY <1>1, <1>2, <3>1, PruneKeeps DEF history
      <4>2. /\ Cardinality(YoungIn(buckets'[s], x))
                 = Cardinality(YoungIn(history, x)) + (IF t > x THEN 1 ELSE 0)
            /\ Cardinality(YoungIn(history, x)) \in Nat
            /\ Cardinality(YoungIn(buckets[s], x)) \in Nat
        <5>1. history \in Seq(Nat) /\ buckets[s] \in Seq(Nat) /\ t \in Nat
          BY <1>1, <1>2, <1>5
        <5>2. buckets'[s] = Append(history, t)
          BY <2>2, <2>4
        <5>3. Cardinality(YoungIn(buckets[s], x)) \in Nat
          BY <5>1, BucketGrows
        <5>4. /\ Cardinality(YoungIn(Append(history, t), x))
                   = Cardinality(YoungIn(history, x)) + (IF t > x THEN 1 ELSE 0)
              /\ Cardinality(YoungIn(history, x)) \in Nat
          BY <5>1, BucketGrows
        <5> QED BY <5>2, <5>3, <5>4
      <4> QED BY <3>2, <3>3, <3>4, <4>1, <4>2
    <3>5. CASE c # s /\ buckets'[c] = buckets[c]
      BY <3>2, <3>3, <3>5
    <3>6. CASE c # s /\ buckets'[c] # buckets[c]
      <4>1. c \in Addresses /\ buckets'[c] = <<>> /\ Dead(buckets[c], t)
        BY <2>2, <3>6 DEF Clients
      <4>2. \A j \in 1..Len(buckets[c]) : buckets[c][j] <= t - Window
        <5> DEFINE m == Len(buckets[c])
        <5>1. m \in Nat /\ (m > 0 => buckets[c][m] <= t - Window)
          BY <1>2, <4>1 DEF Dead, Last
        <5>2. \A a, b \in 1..m : a < b => buckets[c][a] <= buckets[c][b]
          BY <2>6, <4>1 DEF FairInv, Sorted
        <5>3. \A j \in 1..m : buckets[c][j] \in Nat
          BY <1>2, <4>1
        <5> HIDE DEF m
        <5>4. \A j \in 1..m : buckets[c][j] <= t - Window
          BY <1>1, <5>1, <5>2, <5>3
        <5> QED BY <5>4 DEF m
      <4>3. \A j \in 1..Len(buckets[c]) : buckets[c][j] \in Nat
        BY <1>2, <4>1
      <4>4. YoungIn(buckets[c], x) = {} /\ YoungIn(buckets'[c], x) = {}
        BY <1>1, <3>1, <4>1, <4>2, <4>3 DEF YoungIn
      <4> QED BY <3>2, <3>3, <3>6, <4>4
    <3> QED BY <3>4, <3>5, <3>6
  <2>11. WindowsHold'
    <3> SUFFICES ASSUME InOrder', NEW c \in Clients, NEW u \in Int
                 PROVE  Cardinality(Within(admitted', c, u)) <= Limit
      BY DEF WindowsHold
    <3>1. CASE u < t
      <4>1. Within(admitted', c, u) = Within(admitted, c, u)
        <5>1. \A i \in 1..(Len(admitted) + 1) : i \in 1..Len(admitted) \/ i = Len(admitted) + 1
          BY <2>5
        <5>2. \A i \in 1..Len(admitted) : i \in 1..(Len(admitted) + 1)
          BY <2>5
        <5>3. ~(t <= u)
          BY <1>1, <3>1
        <5> QED BY <1>3, <2>5, <5>1, <5>2, <5>3 DEF Within
      <4> QED BY <2>6, <4>1 DEF FairInv, WindowsHold
    <3>2. CASE ~(u < t)
      <4> DEFINE x == u - Window
      <4>1. x \in Int /\ t <= u
        BY <1>1, <3>2
      <4>2. \A i \in 1..Len(admitted') : admitted'[i].stamp \in Nat /\ admitted'[i].stamp <= t
        <5>1. \A i \in 1..(Len(admitted) + 1) : i \in 1..Len(admitted) \/ i = Len(admitted) + 1
          BY <2>5
        <5> QED BY <1>1, <1>3, <2>5, <2>6, <5>1
      <4>3. Past(admitted', x)
        BY <1>1, <4>1, <4>2 DEF Past
      <4>4. Within(admitted', c, u) \subseteq After(admitted', c, x)
        BY DEF Within, After
      <4> HIDE DEF x
      <4>5. Cardinality(After(admitted', c, x)) <= Cardinality(YoungIn(buckets'[c], x))
        BY <2>10, <4>1, <4>3 DEF Counted
      <4>6. IsFiniteSet(After(admitted', c, x)) /\ Cardinality(After(admitted', c, x)) \in Nat
        <5>1. admitted' \in Seq([client: Clients, source: Addresses, stamp: 0..now'])
          BY DEF IInv, TypeOK
        <5>2. PICK f \in Event : TRUE
          BY <1>3
        <5>3. admitted' \in Seq(Event) /\ f \in Event
          BY <1>3, <2>2, <5>2
        <5> QED BY <4>1, <5>3, AfterGrows
      <4>7. Cardinality(Within(admitted', c, u)) <= Cardinality(After(admitted', c, x))
            /\ Cardinality(Within(admitted', c, u)) \in Nat
        BY <4>4, <4>6, FS_Subset, FS_CardinalityType
      <4>8. /\ Cardinality(YoungIn(buckets'[c], x)) \in Nat
            /\ Cardinality(YoungIn(buckets'[c], x)) <= Len(buckets'[c])
            /\ Len(buckets'[c]) <= Limit /\ Len(buckets'[c]) \in Nat
        <5>1. c \in Addresses
          BY DEF Clients
        <5>2. buckets'[c] \in Seq(Nat) /\ Len(buckets'[c]) <= Limit
          BY <1>2, <5>1
        <5>3. /\ Cardinality(YoungIn(buckets'[c], x)) \in Nat
              /\ Cardinality(YoungIn(buckets'[c], x)) <= Len(buckets'[c])
          BY <1>1, <4>1, <5>2, BucketGrows
        <5> QED BY <5>2, <5>3
      <4> QED BY <1>1, <4>5, <4>6, <4>7, <4>8
    <3> QED BY <3>1, <3>2
  <2> QED BY <2>8, <2>9, <2>10, <2>11 DEF FairInv
<1> QED BY <1>7, <1>8

LEMMA FairStep == IInv /\ IInv' /\ FairInv /\ [Next]_vars => FairInv'
<1> SUFFICES ASSUME IInv, IInv', FairInv, [Next]_vars PROVE FairInv'
  OBVIOUS
<1>1. ASSUME UNCHANGED <<buckets, admitted>> PROVE FairInv'
  BY <1>1 DEF FairInv, Stamped, Sorted, Counted, WindowsHold, InOrder
<1>2. ASSUME buckets' = [s \in Addresses |-> <<>>], admitted' = <<>> PROVE FairInv'
  <2>1. \A s \in Addresses : buckets'[s] = <<>>
    BY <1>2
  <2>2. Stamped' /\ Sorted'
    BY <2>1 DEF Stamped, Sorted
  <2>3. ASSUME NEW c \in Clients, NEW x \in Int
        PROVE  Cardinality(After(admitted', c, x)) <= Cardinality(YoungIn(buckets'[c], x))
    <3>1. After(admitted', c, x) = {} /\ YoungIn(buckets'[c], x) = {}
      BY <1>2, <2>1 DEF After, YoungIn, Clients
    <3> QED BY <3>1, FS_EmptySet
  <2>4. ASSUME NEW c \in Clients, NEW t \in Int PROVE Cardinality(Within(admitted', c, t)) <= Limit
    <3>1. Within(admitted', c, t) = {}
      BY <1>2 DEF Within
    <3> QED BY <3>1, FS_EmptySet, MintingAssumption
  <2> QED BY <2>2, <2>3, <2>4 DEF FairInv, Counted, WindowsHold
<1>3. ASSUME NEW r \in Requests, Admit(r) PROVE FairInv'
  BY <1>3, AdmitFair
<1>4. CASE Restart
  BY <1>2, <1>4 DEF Restart
<1>5. CASE UNCHANGED vars
  BY <1>1, <1>5 DEF vars, limiter
<1>6. ASSUME NEW r \in Requests,
             \/ Gate(r) \/ AdminGate(r) \/ BotLook(r) \/ Stamp(r)
             \/ CheckLabel(r) \/ InsertKey(r) \/ Die(r) \/ RevokeKey(r)
      PROVE  UNCHANGED <<buckets, admitted>>
  BY <1>6 DEF Gate, AdminGate, BotLook, Stamp, CheckLabel, InsertKey, Die, RevokeKey, limiter
<1>7. CASE Tick \/ \E b \in BOOLEAN : SetMinting(b)
  BY <1>1, <1>7 DEF Tick, SetMinting, limiter
<1> QED BY <1>1, <1>3, <1>4, <1>5, <1>6, <1>7 DEF Next

-----------------------------------------------------------------------------
(* The theorems.                                                           *)

LEMMA NextInvariant == IInv /\ [Next]_vars => IInv'
<1> SUFFICES ASSUME IInv, [Next]_vars PROVE IInv'
  OBVIOUS
<1>1. ASSUME NEW r \in Requests, Gate(r) PROVE IInv'
  BY <1>1, GateStep
<1>2. ASSUME NEW r \in Requests, AdminGate(r) PROVE IInv'
  BY <1>2, GotoStep DEF AdminGate
<1>3. ASSUME NEW r \in Requests, BotLook(r) PROVE IInv'
  BY <1>3, GotoStep, EndStep DEF BotLook
<1>4. ASSUME NEW r \in Requests, Stamp(r) PROVE IInv'
  BY <1>4, StampStep
<1>5. ASSUME NEW r \in Requests, Admit(r) PROVE IInv'
  BY <1>5, AdmitStep
<1>6. ASSUME NEW r \in Requests, CheckLabel(r) PROVE IInv'
  BY <1>6, CheckLabelStep
<1>7. ASSUME NEW r \in Requests, InsertKey(r) PROVE IInv'
  BY <1>7, InsertKeyStep
<1>8. ASSUME NEW r \in Requests, Die(r) PROVE IInv'
  BY <1>8, EndStep DEF Die, InHand
<1>9. ASSUME NEW r \in Requests, RevokeKey(r) PROVE IInv'
  BY <1>9, RevokeStep
<1>10. ASSUME NEW b \in BOOLEAN, SetMinting(b) PROVE IInv'
  BY <1>10, SetMintingStep
<1>11. CASE Restart
  BY <1>11, RestartStep
<1>12. CASE Tick
  BY <1>12, TickStep
<1>13. CASE UNCHANGED vars
  BY <1>13, Unchanged
<1> QED BY <1>1, <1>2, <1>3, <1>4, <1>5, <1>6, <1>7, <1>8, <1>9, <1>10, <1>11, <1>12, <1>13
        DEF Next

\* What a request looked at keeps its worth: the strengthened invariant.
THEOREM Invariance == Spec => []IInv
<1> QED BY InitInvariant, NextInvariant, PTL DEF Spec

\* Every variable keeps its type, and no deque outgrows the limit.
THEOREM TypeCorrect == Spec => []TypeOK
<1>1. IInv => TypeOK
  BY DEF IInv
<1> QED BY <1>1, Invariance, PTL

LEMMA FairInit == Init => FairInv
<1> SUFFICES ASSUME Init PROVE FairInv
  OBVIOUS
<1>1. admitted = <<>> /\ \A s \in Addresses : buckets[s] = <<>>
  BY DEF Init
<1>2. Stamped /\ Sorted
  BY <1>1 DEF Stamped, Sorted
<1>3. ASSUME NEW c \in Clients, NEW x \in Int
      PROVE  Cardinality(After(admitted, c, x)) <= Cardinality(YoungIn(buckets[c], x))
  <2>1. After(admitted, c, x) = {} /\ YoungIn(buckets[c], x) = {}
    BY <1>1 DEF After, YoungIn, Clients
  <2> QED BY <2>1, FS_EmptySet
<1>4. ASSUME NEW c \in Clients, NEW t \in Int PROVE Cardinality(Within(admitted, c, t)) <= Limit
  <2>1. Within(admitted, c, t) = {}
    BY <1>1 DEF Within
  <2> QED BY <2>1, FS_EmptySet, MintingAssumption
<1> QED BY <1>2, <1>3, <1>4 DEF FairInv, Counted, WindowsHold

\* As long as requests get the lock in the order of their stamps, a bucket has
\* every admission of its client that a later one could still count.
THEOREM LimiterInvariance == Spec => []FairInv
<1> QED BY FairInit, FairStep, Invariance, PTL DEF Spec

\* No window of any width admits more of one client than the limit, whatever
\* others make the limiter prune and sweep, and whatever headers it sends.
THEOREM LimiterHolds == Spec => []LimitHolds
<1>1. FairInv /\ TypeOK => LimitHolds
  BY DEF FairInv, WindowsHold, Within, LimitHolds, TypeOK
<1> QED BY <1>1, LimiterInvariance, TypeCorrect, PTL

\* Nothing but what was admitted for an address counts against it, whatever
\* proxies and headers the requests come with.
THEOREM BucketsAreOwn == Spec => []OwnBucket
<1>1. IInv => OwnBucket
  BY DEF IInv
<1> QED BY <1>1, Invariance, PTL

\* A key of an active label is issued only next to one inserted after the look.
THEOREM LabelsStayUnique == Spec => LabelsUnique
<1>1. ASSUME IInv, [Next]_vars
      PROVE  [\A r \in keys' \ keys : active \cap SameLabel(r) \cap request[r].seen = {}]_vars
  <2> SUFFICES ASSUME Next, NEW r \in keys' \ keys
               PROVE  active \cap SameLabel(r) \cap request[r].seen = {}
    BY <1>1
  <2>1. \E q \in Requests : InsertKey(q)
    BY DEF Next, Gate, AdminGate, BotLook, Stamp, Admit, CheckLabel, Die, RevokeKey,
           SetMinting, Restart, Tick, tables
  <2>2. InsertKey(r) /\ r \in Requests
    BY <2>1 DEF InsertKey
  <2> QED BY <1>1, <2>2 DEF IInv, SeenInactive, InsertKey
<1> QED BY <1>1, Invariance, PTL DEF Spec, LabelsUnique

\* A public request that issues a key read the switch before it was closed.
THEOREM ClosingStopsMinting == Spec => ClosedMintingStops
<1>1. ASSUME IInv, [Next]_vars
      PROVE  [\A r \in keys' \ keys :
                 PublicMintingEnabled \/ request[r].kind # "public" \/ request[r].closed]_vars
  <2> SUFFICES ASSUME Next, NEW r \in keys' \ keys
               PROVE  PublicMintingEnabled \/ request[r].kind # "public" \/ request[r].closed
    BY <1>1
  <2>1. \E q \in Requests : InsertKey(q)
    BY DEF Next, Gate, AdminGate, BotLook, Stamp, Admit, CheckLabel, Die, RevokeKey,
           SetMinting, Restart, Tick, tables
  <2>2. InsertKey(r) /\ r \in Requests
    BY <2>1 DEF InsertKey
  <2> QED BY <1>1, <2>2 DEF IInv, GateHeld, InHand, InsertKey
<1> QED BY <1>1, Invariance, PTL DEF Spec, ClosedMintingStops

=============================================================================
