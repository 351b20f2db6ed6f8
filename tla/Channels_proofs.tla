-------------------------- MODULE Channels_proofs ---------------------------
(***************************************************************************)
(* Theorems about Membership, for every number of keys, requests,          *)
(* invitations and threads, and about Tasks, for every number of posts,    *)
(* consumers, servers and names, checked by TLAPS.  The two components     *)
(* share no state and no name; the second part begins with the invariant   *)
(* of Tasks.                                                               *)
(***************************************************************************)
EXTENDS Membership, Tasks, FiniteSetTheorems, TLAPS

-----------------------------------------------------------------------------
(* Membership: the inductive invariant.                                    *)

\* What a handler that is under way has read: whose key, which row.
HandlersSound ==
    \A t \in Threads :
        /\ thread[t].op \in {"ask", "approve", "deny", "join", "add", "remove"}
             => thread[t].key \in Keys
        /\ thread[t].op \in {"approve", "deny"}
             => thread[t].on \in Requests /\ request[thread[t].on].status # "none"
        /\ thread[t].op \in {"join", "revoke"}
             => thread[t].on \in Invitations /\ invitation[thread[t].on] # "none"

RequestsSound ==
    /\ \A q \in Requests : request[q].status # "none" => request[q].key \in Keys
    /\ \A p, q \in Requests :
         request[p].status = "pending" /\ request[q].status = "pending"
           /\ request[p].key = request[q].key => p = q

\* Two resolutions of one request know of each other: what one of them finds
\* already resolved when it writes is a race.
RacesSeen ==
    /\ \A q \in Requests : \A t, u \in Resolving(q) : t # u => q \in raced
    /\ \A q \in Requests : Resolving(q) # {} /\ request[q].status # "pending" => q \in raced
    /\ \A k \in Keys, q \in Requests :
         q \in granted[k] => request[q].status \in {"approved", "denied"}
                             /\ (request[q].status = "denied" => q \in raced)

IInv ==
    /\ TypeOK /\ HandlersSound /\ RequestsSound /\ RacesSeen
    /\ MembershipIsLogged /\ NothingOutlivesChannel

\* The handlers that are going to admit a key by an invitation that has been
\* revoked, and may be counted.
Stale == {t \in Threads : At(t, "join") /\ invitation[thread[t].on] = "revoked"}
StaleBounded == slipped + Cardinality(Stale) < Cardinality(Threads)

LEMMA InvInit == Init => IInv
<1> SUFFICES ASSUME Init PROVE IInv
  OBVIOUS
<1>1. TypeOK
  BY DEF Init, TypeOK, Idle, Handler, Events
<1>2. HandlersSound /\ RequestsSound
  BY DEF Init, HandlersSound, RequestsSound, Idle
<1>3. RacesSeen
  BY DEF Init, RacesSeen, Resolving, Idle
<1>4. MembershipIsLogged /\ NothingOutlivesChannel
  BY DEF Init, MembershipIsLogged, NothingOutlivesChannel
<1>5. QED
  BY <1>1, <1>2, <1>3, <1>4 DEF IInv

-----------------------------------------------------------------------------
(* The shapes a step may have.                                             *)

\* A handler that reads changes no table, and holds what it has read.
LEMMA ReadKeeps ==
    ASSUME IInv, NEW t \in Threads, NEW op, NEW k, NEW on, Read(t, op, k, on),
           [op |-> op, key |-> k, on |-> on] \in Handler,
           op \in {"ask", "approve", "deny", "join", "add", "remove"} => k \in Keys,
           op \in {"approve", "deny"} => on \in Requests /\ request[on].status = "pending",
           op \in {"join", "revoke"} => on \in Invitations /\ invitation[on] # "none",
           granted' = granted, slipped' = slipped,
           raced' = IF op \in {"approve", "deny"} /\ Resolving(on) # {}
                    THEN raced \cup {on} ELSE raced
    PROVE  IInv'
<1> USE DEF IInv
<1>1. thread' \in [Threads -> Handler] /\ thread'[t] = [op |-> op, key |-> k, on |-> on]
      /\ \A u \in Threads \ {t} : thread'[u] = thread[u]
  BY DEF Read, TypeOK
<1>2. /\ exists' = exists /\ hook' = hook /\ open' = open /\ members' = members /\ last' = last
      /\ request' = request /\ invitation' = invitation /\ exists
  BY DEF Read, table
<1>3. raced' \subseteq Requests /\ raced \subseteq raced'
  BY DEF TypeOK
<1>4. TypeOK'
  BY <1>1, <1>2, <1>3 DEF TypeOK
<1>5. HandlersSound'
  BY <1>1, <1>2 DEF HandlersSound
<1>6. RequestsSound'
  BY <1>2 DEF RequestsSound
<1>7. RacesSeen'
  <2>1. ASSUME NEW q \in Requests, NEW u \in Resolving(q)', NEW v \in Resolving(q)', u # v
        PROVE  q \in raced'
    <3>1. CASE u # t /\ v # t
      BY <1>1, <1>3, <2>1, <3>1 DEF Resolving, RacesSeen
    <3>2. CASE u = t \/ v = t
      <4>1. op \in {"approve", "deny"} /\ on = q
        BY <1>1, <2>1, <3>2 DEF Resolving
      <4>2. Resolving(q) # {}
        BY <1>1, <2>1, <3>2 DEF Resolving
      <4>3. QED
        BY <4>1, <4>2
    <3>3. QED
      BY <3>1, <3>2
  <2>2. ASSUME NEW q \in Requests, Resolving(q)' # {}, request'[q].status # "pending"
        PROVE  q \in raced'
    <3>1. ~(op \in {"approve", "deny"} /\ on = q)
      BY <1>2, <2>2
    <3>2. Resolving(q)' \subseteq Resolving(q)
      BY <1>1, <3>1 DEF Resolving
    <3>3. QED
      BY <1>2, <1>3, <2>2, <3>2 DEF RacesSeen
  <2>3. QED
    BY <1>2, <1>3, <2>1, <2>2 DEF RacesSeen
<1>8. MembershipIsLogged' /\ NothingOutlivesChannel'
  BY <1>2 DEF MembershipIsLogged, NothingOutlivesChannel
<1>9. QED
  BY <1>4, <1>5, <1>6, <1>7, <1>8

\* A handler that has ended: what the others have read is as it was.
LEMMA EndKeeps ==
    ASSUME TypeOK, NEW t \in Threads, End(t)
    PROVE  /\ thread' \in [Threads -> Handler] /\ thread'[t] = Idle
           /\ \A u \in Threads \ {t} : thread'[u] = thread[u]
           /\ \A q : Resolving(q)' = Resolving(q) \ {t}
<1>1. /\ thread' \in [Threads -> Handler] /\ thread'[t] = Idle
      /\ \A u \in Threads \ {t} : thread'[u] = thread[u]
  BY DEF TypeOK, End, Handler, Idle
<1>2. QED
  BY <1>1 DEF Resolving, Idle

\* Steps that change neither the requests nor what the members were granted.
LEMMA RacesKept ==
    ASSUME IInv, UNCHANGED <<request, raced, granted>>,
           \A q \in Requests : Resolving(q)' \subseteq Resolving(q)
    PROVE  RacesSeen'
BY DEF IInv, RacesSeen

LEMMA AskWriteKeeps ==
    ASSUME IInv, NEW t \in Threads, AskWrite(t)
    PROVE  IInv'
<1> DEFINE k == thread[t].key
<1> USE DEF IInv
<1>1. PICK q \in Requests :
        /\ request[q].status = "none"
        /\ request' = [request EXCEPT ![q] = [status |-> "pending", key |-> k]]
  BY DEF AskWrite
<1>2. /\ thread' \in [Threads -> Handler] /\ thread'[t] = Idle
      /\ \A u \in Threads \ {t} : thread'[u] = thread[u]
      /\ \A r : Resolving(r)' = Resolving(r) \ {t}
  BY EndKeeps DEF AskWrite
<1>3. k \in Keys /\ At(t, "ask") /\ Pending(k) = {}
  BY DEF AskWrite, HandlersSound, At, PendingIndex
<1>4. /\ request' \in [Requests -> [status: {"none", "pending", "approved", "denied"},
                                   key: Keys \cup {None}]]
      /\ request'[q] = [status |-> "pending", key |-> k]
      /\ \A r \in Requests \ {q} : request'[r] = request[r]
  BY <1>1, <1>3 DEF TypeOK
<1>5. UNCHANGED <<exists, hook, open, members, last, invitation, granted, raced, slipped>>
  BY DEF AskWrite, history
<1>6. TypeOK'
  BY <1>2, <1>4, <1>5 DEF TypeOK
<1>7. HandlersSound'
  BY <1>2, <1>4, <1>5 DEF HandlersSound, Idle
<1>8. RequestsSound'
  BY <1>3, <1>4 DEF RequestsSound, Pending
<1>9. RacesSeen'
  <2>1. Resolving(q) = {}
    BY <1>1 DEF HandlersSound, Resolving
  <2>2. QED
    BY <1>1, <1>2, <1>4, <1>5, <2>1 DEF RacesSeen
<1>10. MembershipIsLogged' /\ NothingOutlivesChannel'
  BY <1>5 DEF MembershipIsLogged, NothingOutlivesChannel
<1>11. QED
  BY <1>6, <1>7, <1>8, <1>9, <1>10

LEMMA ApproveKeeps ==
    ASSUME IInv, NEW t \in Threads, Approve(t)
    PROVE  IInv'
<1> USE DEF IInv
<1>0. PICK k \in Keys, q \in Requests : k = thread[t].key /\ q = thread[t].on
  BY DEF Approve, HandlersSound, At
<1>1. /\ thread' \in [Threads -> Handler] /\ thread'[t] = Idle
      /\ \A u \in Threads \ {t} : thread'[u] = thread[u]
      /\ \A r : Resolving(r)' = Resolving(r) \ {t}
  BY EndKeeps DEF Approve
<1>2. t \in Resolving(q) /\ exists
  BY <1>0 DEF Approve, HandlersSound, At, Resolving, ForeignKey
<1>3. /\ request' = [request EXCEPT ![q].status = "approved"]
      /\ Admit(k, q)
      /\ UNCHANGED <<exists, hook, open, invitation, raced, slipped>>
  BY <1>0 DEF Approve, Requester
<1>4. /\ request' \in [Requests -> [status: {"none", "pending", "approved", "denied"},
                                   key: Keys \cup {None}]]
      /\ request'[q].status = "approved" /\ request'[q].key = request[q].key
      /\ \A r \in Requests \ {q} : request'[r] = request[r]
  BY <1>2, <1>3 DEF TypeOK
<1>5. /\ granted' \in [Keys -> SUBSET Ways]
      /\ \A j \in Keys, r \in Requests : r \in granted'[j] => r \in granted[j] \/ r = q
  BY <1>2, <1>3 DEF TypeOK, Admit, Ways
<1>6. TypeOK'
  BY <1>1, <1>2, <1>3, <1>4, <1>5 DEF TypeOK, Admit, Events
<1>7. HandlersSound'
  BY <1>1, <1>3, <1>4 DEF HandlersSound, Idle
<1>8. RequestsSound'
  <2>1. request[q].status # "none"
    BY <1>2 DEF HandlersSound, Resolving
  <2>2. \A r \in Requests :
            /\ request'[r].key = request[r].key
            /\ request'[r].status = "pending" => request[r].status = "pending"
            /\ request'[r].status # "none" => request[r].status # "none"
    BY <1>4, <2>1
  <2>3. QED
    BY <2>2 DEF RequestsSound
<1>9. RacesSeen'
  <2>1. \A u \in Resolving(q)' : q \in raced
    BY <1>1, <1>2 DEF RacesSeen
  <2>2. QED
    BY <1>1, <1>3, <1>4, <1>5, <2>1 DEF RacesSeen
<1>10. MembershipIsLogged' /\ NothingOutlivesChannel'
  BY <1>2, <1>3 DEF MembershipIsLogged, NothingOutlivesChannel, Admit, TypeOK
<1>11. QED
  BY <1>6, <1>7, <1>8, <1>9, <1>10

LEMMA DenyKeeps ==
    ASSUME IInv, NEW t \in Threads, Deny(t)
    PROVE  IInv'
<1> USE DEF IInv
<1>0. PICK q \in Requests : q = thread[t].on
  BY DEF Deny, HandlersSound, At
<1>1. /\ thread' \in [Threads -> Handler] /\ thread'[t] = Idle
      /\ \A u \in Threads \ {t} : thread'[u] = thread[u]
      /\ \A r : Resolving(r)' = Resolving(r) \ {t}
  BY EndKeeps DEF Deny
<1>2. t \in Resolving(q)
  BY <1>0 DEF Deny, HandlersSound, At, Resolving
<1>3. /\ request' = [request EXCEPT ![q].status = "denied"]
      /\ UNCHANGED <<exists, hook, open, members, last, invitation, granted, raced, slipped>>
  BY <1>0 DEF Deny, history
<1>4. /\ request' \in [Requests -> [status: {"none", "pending", "approved", "denied"},
                                   key: Keys \cup {None}]]
      /\ request'[q].status = "denied" /\ request'[q].key = request[q].key
      /\ \A r \in Requests \ {q} : request'[r] = request[r]
  BY <1>2, <1>3 DEF TypeOK
<1>5. TypeOK'
  BY <1>1, <1>3, <1>4 DEF TypeOK
<1>6. HandlersSound'
  BY <1>1, <1>3, <1>4 DEF HandlersSound, Idle
<1>7. RequestsSound'
  <2>1. request[q].status # "none"
    BY <1>2 DEF HandlersSound, Resolving
  <2>2. \A r \in Requests :
            /\ request'[r].key = request[r].key
            /\ request'[r].status = "pending" => request[r].status = "pending"
            /\ request'[r].status # "none" => request[r].status # "none"
    BY <1>4, <2>1
  <2>3. QED
    BY <2>2 DEF RequestsSound
<1>8. RacesSeen'
  <2>1. \A u \in Resolving(q)' : q \in raced
    BY <1>1, <1>2 DEF RacesSeen
  <2>2. \A k \in Keys : q \in granted[k] => q \in raced
    BY <1>2 DEF RacesSeen
  <2>3. QED
    BY <1>1, <1>3, <1>4, <2>1, <2>2 DEF RacesSeen
<1>9. MembershipIsLogged' /\ NothingOutlivesChannel'
  BY <1>3 DEF MembershipIsLogged, NothingOutlivesChannel
<1>10. QED
  BY <1>5, <1>6, <1>7, <1>8, <1>9

\* A handler that ends without touching a request, or what depends on one.
LEMMA EndedKeeps ==
    ASSUME IInv, NEW t \in Threads, End(t), TypeOK',
           UNCHANGED <<request, raced>>,
           \A k \in Keys : granted'[k] \cap Requests \subseteq granted[k],
           \A i \in Invitations : invitation'[i] = "none" => invitation[i] = "none",
           MembershipIsLogged', NothingOutlivesChannel'
    PROVE  IInv'
<1> USE DEF IInv
<1>1. /\ thread' \in [Threads -> Handler] /\ thread'[t] = Idle
      /\ \A u \in Threads \ {t} : thread'[u] = thread[u]
      /\ \A q : Resolving(q)' = Resolving(q) \ {t}
  BY EndKeeps
<1>2. HandlersSound' /\ RequestsSound'
  BY <1>1 DEF HandlersSound, RequestsSound, Idle
<1>3. RacesSeen'
  BY <1>1 DEF RacesSeen
<1>4. QED
  BY <1>2, <1>3

\* A key is admitted by an invitation or by the owner.
LEMMA AdmitKeeps ==
    ASSUME IInv, NEW t \in Threads, JoinWrite(t) \/ Add(t)
    PROVE  IInv'
<1> USE DEF IInv
<1>1. PICK k \in Keys, way \in Ways \ Requests : Admit(k, way)
  <2>1. CASE JoinWrite(t)
    BY <2>1, MembershipAssumption DEF JoinWrite, HandlersSound, At, Ways
  <2>2. CASE Add(t)
    BY <2>2, MembershipAssumption DEF Add, HandlersSound, At, Ways
  <2>3. QED
    BY <2>1, <2>2
<1>2. /\ End(t) /\ exists /\ slipped' \in Nat
      /\ UNCHANGED <<exists, hook, open, request, invitation, raced>>
  BY DEF JoinWrite, Add, ForeignKey, TypeOK
<1>3. TypeOK'
  BY <1>1, <1>2, EndKeeps DEF TypeOK, Admit, Events
<1>4. \A j \in Keys : granted'[j] \cap Requests \subseteq granted[j]
  BY <1>1 DEF Admit, TypeOK
<1>5. MembershipIsLogged' /\ NothingOutlivesChannel'
  BY <1>1, <1>2 DEF Admit, MembershipIsLogged, NothingOutlivesChannel, TypeOK
<1>6. QED
  BY <1>2, <1>3, <1>4, <1>5, EndedKeeps

LEMMA RemoveKeeps ==
    ASSUME IInv, NEW t \in Threads, Remove(t)
    PROVE  IInv'
<1> USE DEF IInv
<1>1. PICK k \in Keys :
        /\ members' = members \ {k}
        /\ last' = [last EXCEPT ![k] = "out"]
        /\ granted' = [granted EXCEPT ![k] = {}]
  BY DEF Remove, HandlersSound, At, Logged
<1>2. /\ End(t) /\ exists
      /\ UNCHANGED <<exists, hook, open, request, invitation, raced, slipped>>
  BY DEF Remove, ForeignKey
<1>3. TypeOK'
  BY <1>1, <1>2, EndKeeps DEF TypeOK, Events
<1>4. \A j \in Keys : granted'[j] \cap Requests \subseteq granted[j]
  BY <1>1 DEF TypeOK
<1>5. MembershipIsLogged' /\ NothingOutlivesChannel'
  BY <1>1, <1>2 DEF MembershipIsLogged, NothingOutlivesChannel, TypeOK
<1>6. QED
  BY <1>2, <1>3, <1>4, <1>5, EndedKeeps

LEMMA InvitationKeeps ==
    ASSUME IInv, NEW t \in Threads, InviteWrite(t) \/ RevokeWrite(t)
    PROVE  IInv'
<1> USE DEF IInv
<1>1. /\ End(t) /\ exists /\ slipped' \in Nat
      /\ UNCHANGED <<exists, hook, open, members, last, request, granted, raced>>
  BY DEF InviteWrite, RevokeWrite, ForeignKey, history, TypeOK
<1>2. PICK i \in Invitations, state \in {"active", "revoked", "gone"} :
        invitation' = [invitation EXCEPT ![i] = state]
  <2>1. CASE InviteWrite(t)
    BY <2>1 DEF InviteWrite
  <2>2. CASE RevokeWrite(t)
    <3>1. thread[t].on \in Invitations
      BY <2>2 DEF RevokeWrite, HandlersSound, At
    <3>2. CASE invitation[thread[t].on] = "gone"
      BY <2>2, <3>1, <3>2 DEF RevokeWrite
    <3>3. CASE invitation[thread[t].on] # "gone"
      BY <2>2, <3>1, <3>3 DEF RevokeWrite
    <3>4. QED
      BY <3>2, <3>3
  <2>3. QED
    BY <2>1, <2>2
<1>3. TypeOK'
  BY <1>1, <1>2, EndKeeps DEF TypeOK
<1>4. \A j \in Invitations : invitation'[j] = "none" => invitation[j] = "none"
  BY <1>2 DEF TypeOK
<1>5. MembershipIsLogged' /\ NothingOutlivesChannel'
  BY <1>1 DEF MembershipIsLogged, NothingOutlivesChannel
<1>6. QED
  BY <1>1, <1>3, <1>4, <1>5, EndedKeeps

LEMMA AnswerKeeps ==
    ASSUME IInv, NEW t \in Threads, ApproveLocked(t) \/ PatchWrite(t) \/ Die(t)
    PROVE  IInv'
<1> USE DEF IInv
<1>1. /\ End(t) /\ open' \in BOOLEAN
      /\ UNCHANGED <<exists, hook, members, last, request, invitation, history>>
  BY DEF ApproveLocked, PatchWrite, Die, At, table, TypeOK
<1>2. TypeOK'
  BY <1>1, EndKeeps DEF TypeOK, history
<1>3. MembershipIsLogged' /\ NothingOutlivesChannel'
  BY <1>1 DEF MembershipIsLogged, NothingOutlivesChannel
<1>4. QED
  BY <1>1, <1>2, <1>3, EndedKeeps DEF history

\* Time, the cleanup and the deletion of the channel touch no handler.
LEMMA WorldKeeps ==
    ASSUME IInv, (\E i \in Invitations : Lapse(i) \/ Purge(i)) \/ DeleteChannel
    PROVE  IInv'
<1> USE DEF IInv
<1>1. UNCHANGED <<hook, open, request, thread, raced, slipped>>
  BY DEF Lapse, Purge, DeleteChannel, history
<1>2. CASE \E i \in Invitations : Lapse(i) \/ Purge(i)
  <2>1. PICK i \in Invitations, state \in {"expired", "gone"} :
          /\ invitation[i] # "none"
          /\ exists \/ state = "gone"
          /\ invitation' = [invitation EXCEPT ![i] = state]
    BY <1>2 DEF Lapse, Purge, NothingOutlivesChannel
  <2>2. UNCHANGED <<exists, members, last, granted>>
    BY <1>2 DEF Lapse, Purge, history
  <2>3. TypeOK'
    BY <1>1, <2>1, <2>2 DEF TypeOK
  <2>4. HandlersSound'
    BY <1>1, <2>1, <2>2 DEF HandlersSound, TypeOK
  <2>5. RequestsSound' /\ RacesSeen'
    BY <1>1, <2>2 DEF RequestsSound, RacesSeen, Resolving
  <2>6. MembershipIsLogged' /\ NothingOutlivesChannel'
    BY <1>1, <2>1, <2>2 DEF MembershipIsLogged, NothingOutlivesChannel, TypeOK
  <2>7. QED
    BY <2>3, <2>4, <2>5, <2>6
<1>3. CASE DeleteChannel
  <2>1. TypeOK'
    BY <1>1, <1>3 DEF TypeOK, DeleteChannel, Events
  <2>2. HandlersSound'
    BY <1>1, <1>3 DEF HandlersSound, TypeOK, DeleteChannel
  <2>3. RequestsSound' /\ RacesSeen'
    BY <1>1, <1>3 DEF RequestsSound, RacesSeen, Resolving, DeleteChannel
  <2>4. MembershipIsLogged' /\ NothingOutlivesChannel'
    BY <1>3 DEF MembershipIsLogged, NothingOutlivesChannel, DeleteChannel
  <2>5. QED
    BY <2>1, <2>2, <2>3, <2>4
<1>4. QED
  BY <1>2, <1>3

LEMMA ReadsKeep ==
    ASSUME IInv, NEW t \in Threads,
           \/ \E k \in Keys : AskRead(t, k)
           \/ \E q \in Requests, verdict \in {"approve", "deny"} : ResolveRead(t, q, verdict)
           \/ \E k \in Keys, i \in Invitations : JoinRead(t, k, i)
           \/ \E i \in Invitations : RevokeRead(t, i)
           \/ InviteRead(t)
           \/ \E k \in Keys, op \in {"add", "remove"} : OwnerRead(t, op, k)
           \/ \E op \in {"open", "restrict"} : PatchRead(t, op)
    PROVE  IInv'
<1> USE DEF Handler
<1>1. ASSUME NEW k \in Keys, AskRead(t, k) PROVE IInv'
  <2>1. Read(t, "ask", k, None) /\ UNCHANGED history
    BY <1>1 DEF AskRead
  <2>2. QED
    BY <2>1, ReadKeeps DEF history
<1>2. ASSUME NEW q \in Requests, NEW verdict \in {"approve", "deny"}, ResolveRead(t, q, verdict)
      PROVE  IInv'
  <2>1. /\ Read(t, verdict, request[q].key, q) /\ request[q].status = "pending"
        /\ raced' = IF Resolving(q) # {} THEN raced \cup {q} ELSE raced
        /\ UNCHANGED <<granted, slipped>>
    BY <1>2 DEF ResolveRead, Resolvable
  <2>2. request[q].key \in Keys
    BY <2>1 DEF IInv, RequestsSound
  <2>3. QED
    BY <2>1, <2>2, ReadKeeps
<1>3. ASSUME NEW k \in Keys, NEW i \in Invitations, JoinRead(t, k, i) PROVE IInv'
  <2>1. Read(t, "join", k, i) /\ invitation[i] # "none" /\ UNCHANGED history
    BY <1>3 DEF JoinRead, Active
  <2>2. QED
    BY <2>1, ReadKeeps DEF history
<1>4. ASSUME NEW i \in Invitations, RevokeRead(t, i) PROVE IInv'
  <2>1. Read(t, "revoke", None, i) /\ invitation[i] # "none" /\ UNCHANGED history
    BY <1>4 DEF RevokeRead
  <2>2. QED
    BY <2>1, ReadKeeps DEF history
<1>5. CASE InviteRead(t)
  <2>1. Read(t, "invite", None, None) /\ UNCHANGED history
    BY <1>5 DEF InviteRead
  <2>2. QED
    BY <2>1, ReadKeeps DEF history
<1>6. ASSUME NEW k \in Keys, NEW op \in {"add", "remove"}, OwnerRead(t, op, k) PROVE IInv'
  <2>1. Read(t, op, k, None) /\ UNCHANGED history
    BY <1>6 DEF OwnerRead
  <2>2. QED
    BY <2>1, ReadKeeps DEF history
<1>7. ASSUME NEW op \in {"open", "restrict"}, PatchRead(t, op) PROVE IInv'
  <2>1. Read(t, op, None, None) /\ UNCHANGED history
    BY <1>7 DEF PatchRead
  <2>2. QED
    BY <2>1, ReadKeeps DEF history
<1>8. QED
  BY <1>1, <1>2, <1>3, <1>4, <1>5, <1>6, <1>7

LEMMA InvStep == IInv /\ [Next]_vars => IInv'
<1> SUFFICES ASSUME IInv, [Next]_vars PROVE IInv'
  OBVIOUS
<1>1. CASE UNCHANGED vars
  BY <1>1 DEF IInv, TypeOK, HandlersSound, RequestsSound, RacesSeen, Resolving,
     MembershipIsLogged, NothingOutlivesChannel, vars, table, history
<1>2. ASSUME NEW t \in Threads, Step(t) PROVE IInv'
  BY <1>2, ReadsKeep, AskWriteKeeps, ApproveKeeps, DenyKeeps, AdmitKeeps, RemoveKeeps,
     InvitationKeeps, AnswerKeeps
     DEF Step, OnRequests, OnInvitations, OnMembers, OnAccess
<1>3. CASE (\E i \in Invitations : Lapse(i) \/ Purge(i)) \/ DeleteChannel
  BY <1>3, WorldKeeps
<1>4. QED
  BY <1>1, <1>2, <1>3 DEF Next

THEOREM Invariance == Spec => []IInv
<1>1. Init => IInv
  BY InvInit
<1>2. IInv /\ [Next]_vars => IInv'
  BY InvStep
<1>3. QED
  BY <1>1, <1>2, PTL DEF Spec

-----------------------------------------------------------------------------
(* What the runs check, for every instance.                                *)

\* Every variable keeps its type.
THEOREM TypeCorrect == Spec => []TypeOK
<1>1. IInv => TypeOK
  BY DEF IInv
<1>2. QED
  BY <1>1, Invariance, PTL

\* The events about a key tell whether it is a member, however the handlers of
\* add, remove, join, approve and delete overlap.
THEOREM MembershipFollowsLog == Spec => []MembershipIsLogged
<1>1. IInv => MembershipIsLogged
  BY DEF IInv
<1>2. QED
  BY <1>1, Invariance, PTL

\* No handler that is under way when a channel is deleted leaves a member, an
\* invitation or an event of it.
THEOREM DeletionIsComplete == Spec => []NothingOutlivesChannel
<1>1. IInv => NothingOutlivesChannel
  BY DEF IInv
<1>2. QED
  BY <1>1, Invariance, PTL

\* A key has at most one pending request.
THEOREM RequestsUnique == Spec => []OnePendingRequest
<1>1. IInv => OnePendingRequest
  <2> SUFFICES ASSUME IInv, NEW k \in Keys PROVE Cardinality(Pending(k)) <= 1
    BY DEF OnePendingRequest
  <2>1. \A p, q \in Pending(k) : p = q
    BY DEF IInv, RequestsSound, Pending
  <2>2. CASE Pending(k) = {}
    BY <2>2, FS_EmptySet
  <2>3. CASE Pending(k) # {}
    <3>1. PICK q : Pending(k) = {q}
      BY <2>1, <2>3
    <3>2. QED
      BY <3>1, FS_Singleton
  <2>4. QED
    BY <2>2, <2>3
<1>2. QED
  BY <1>1, Invariance, PTL

\* A member that a request admitted has not been denied, unless an approval and
\* a denial had both found the request pending.
THEOREM DenialsStand == Spec => []DenialStands
<1>1. IInv => DenialStands
  BY DEF IInv, RacesSeen, DenialStands, TypeOK
<1>2. QED
  BY <1>1, Invariance, PTL

-----------------------------------------------------------------------------
(* Revoked invitations.                                                    *)

LEMMA ThreadsCount ==
    ASSUME NEW S \in SUBSET Threads
    PROVE  /\ Cardinality(S) \in Nat /\ Cardinality(Threads) \in Nat
           /\ \A U \in SUBSET S : Cardinality(U) \in Nat /\ Cardinality(U) <= Cardinality(S)
           /\ \A t \in S : Cardinality(S \ {t}) = Cardinality(S) - 1
<1>1. IsFiniteSet(Threads) /\ IsFiniteSet(S)
  BY MembershipAssumption, FS_Subset
<1>2. QED
  BY <1>1, FS_CardinalityType, FS_Subset, FS_RemoveElement

\* No handler becomes stale unless an invitation is revoked.
LEMMA StaleShrinks ==
    ASSUME IInv, [Next]_vars, \A t \in Threads : ~RevokeWrite(t)
    PROVE  /\ Stale' \subseteq Stale
           /\ (\A t \in Threads : ~JoinWrite(t)) => slipped' = slipped
<1> USE DEF IInv
<1>1. ASSUME NEW t \in Threads, NEW op, NEW k, NEW on, Read(t, op, k, on),
             op = "join" => invitation[on] # "revoked"
      PROVE  Stale' \subseteq Stale
  BY <1>1 DEF Read, table, Stale, At, TypeOK
<1>2. ASSUME NEW t \in Threads, End(t),
             \A i \in Invitations : invitation'[i] = "revoked" => invitation[i] = "revoked"
      PROVE  Stale' \subseteq Stale
  BY <1>2, EndKeeps DEF Stale, At, HandlersSound, Idle
<1>3. ASSUME thread' = thread,
             \A i \in Invitations : invitation'[i] = "revoked" => invitation[i] = "revoked"
      PROVE  Stale' \subseteq Stale
  BY <1>3 DEF Stale, At, HandlersSound
<1>4. ASSUME NEW t \in Threads, Step(t)
      PROVE  Stale' \subseteq Stale /\ (slipped' = slipped \/ JoinWrite(t))
  <2>1. CASE OnRequests(t)
    <3>1. CASE \/ \E k \in Keys : AskRead(t, k)
               \/ \E q \in Requests, verdict \in {"approve", "deny"} : ResolveRead(t, q, verdict)
      BY <1>1, <3>1 DEF AskRead, ResolveRead, history
    <3>2. CASE AskWrite(t) \/ Approve(t) \/ ApproveLocked(t) \/ Deny(t)
      BY <1>2, <3>2 DEF AskWrite, Approve, ApproveLocked, Deny, table, history
    <3>3. QED
      BY <2>1, <3>1, <3>2 DEF OnRequests
  <2>2. CASE OnInvitations(t)
    <3>1. CASE \/ \E k \in Keys, i \in Invitations : JoinRead(t, k, i)
               \/ \E i \in Invitations : RevokeRead(t, i)
               \/ InviteRead(t)
      BY <1>1, <3>1 DEF JoinRead, RevokeRead, InviteRead, Active, history
    <3>2. CASE InviteWrite(t)
      BY <1>2, <3>2 DEF InviteWrite, history, TypeOK
    <3>3. CASE JoinWrite(t)
      BY <1>2, <3>3 DEF JoinWrite
    <3>4. QED
      BY <2>2, <3>1, <3>2, <3>3 DEF OnInvitations
  <2>3. CASE OnMembers(t)
    BY <1>1, <1>2, <2>3 DEF OnMembers, OwnerRead, Add, Remove, history
  <2>4. CASE OnAccess(t) \/ Die(t)
    BY <1>1, <1>2, <2>4 DEF OnAccess, PatchRead, PatchWrite, Die, table, history
  <2>5. QED
    BY <1>4, <2>1, <2>2, <2>3, <2>4 DEF Step
<1>5. CASE \E i \in Invitations : Lapse(i) \/ Purge(i)
  BY <1>3, <1>5 DEF Lapse, Purge, history, TypeOK
<1>6. CASE DeleteChannel
  BY <1>3, <1>6 DEF DeleteChannel
<1>7. CASE UNCHANGED vars
  BY <1>3, <1>7 DEF vars, table, history
<1>8. QED
  BY <1>4, <1>5, <1>6, <1>7 DEF Next

LEMMA StaleStep == IInv /\ StaleBounded /\ [Next]_vars => StaleBounded'
<1> SUFFICES ASSUME IInv, StaleBounded, [Next]_vars PROVE StaleBounded'
  OBVIOUS
<1> USE DEF IInv
<1>1. Stale \subseteq Threads /\ slipped \in Nat
  BY DEF Stale, TypeOK
<1>2. ASSUME NEW t \in Threads, RevokeWrite(t) PROVE StaleBounded'
  <2>1. PICK i \in Invitations : i = thread[t].on /\ invitation[i] # "none"
    BY <1>2 DEF RevokeWrite, HandlersSound, At
  <2>2. CASE invitation[i] \in {"active", "expired"}
    <3>1. Stale' \subseteq Threads \ {t}
      BY <1>2, EndKeeps DEF RevokeWrite, Stale, At, Idle
    <3>2. slipped' = 0
      BY <1>2, <2>1, <2>2 DEF RevokeWrite
    <3>3. Cardinality(Threads \ {t}) = Cardinality(Threads) - 1
      BY ThreadsCount
    <3>4. Cardinality(Stale') <= Cardinality(Threads \ {t}) /\ Cardinality(Stale') \in Nat
      BY <3>1, ThreadsCount
    <3>5. QED
      BY <3>2, <3>3, <3>4, ThreadsCount DEF StaleBounded
  <2>3. CASE invitation[i] \in {"revoked", "gone"}
    <3>1. invitation' = invitation /\ slipped' = slipped
      BY <1>2, <2>1, <2>3 DEF RevokeWrite, TypeOK
    <3>2. Stale' \subseteq Stale
      BY <1>2, <3>1, EndKeeps DEF RevokeWrite, Stale, At, Idle
    <3>3. Cardinality(Stale') <= Cardinality(Stale) /\ Cardinality(Stale') \in Nat
      BY <1>1, <3>2, ThreadsCount
    <3>4. QED
      BY <1>1, <3>1, <3>3, ThreadsCount DEF StaleBounded
  <2>4. QED
    BY <2>1, <2>2, <2>3 DEF TypeOK
<1>3. ASSUME NEW t \in Threads, JoinWrite(t), slipped' # slipped PROVE StaleBounded'
  <2>1. slipped' = slipped + 1 /\ t \in Stale
    BY <1>3 DEF JoinWrite, Stale
  <2>2. ~RevokeWrite(t) /\ t \notin Stale'
    BY <1>3, EndKeeps DEF JoinWrite, RevokeWrite, At, Stale, Idle
  <2>3. ASSUME NEW u \in Threads, RevokeWrite(u) PROVE FALSE
    <3>1. thread[u].op = "revoke" /\ thread'[u] = Idle
      BY <2>3, EndKeeps DEF RevokeWrite, At
    <3>2. u # t
      BY <2>2, <2>3
    <3>3. thread'[u] = thread[u]
      BY <1>3, <3>2, EndKeeps DEF JoinWrite
    <3>4. QED
      BY <3>1, <3>3 DEF Idle
  <2>4. Stale' \subseteq Stale \ {t}
    BY <2>2, <2>3, StaleShrinks
  <2>5. Cardinality(Stale \ {t}) = Cardinality(Stale) - 1
    BY <1>1, <2>1, ThreadsCount
  <2>6. Cardinality(Stale') <= Cardinality(Stale \ {t}) /\ Cardinality(Stale') \in Nat
    BY <1>1, <2>4, ThreadsCount
  <2>7. QED
    BY <1>1, <2>1, <2>5, <2>6, ThreadsCount DEF StaleBounded
<1>4. CASE slipped' = slipped /\ \A t \in Threads : ~RevokeWrite(t)
  <2>1. Cardinality(Stale') <= Cardinality(Stale) /\ Cardinality(Stale') \in Nat
    BY <1>1, <1>4, StaleShrinks, ThreadsCount
  <2>2. QED
    BY <1>1, <1>4, <2>1, ThreadsCount DEF StaleBounded
<1>5. QED
  BY <1>2, <1>3, <1>4, StaleShrinks

\* After a revocation an invitation admits only keys whose handlers had checked
\* it before, whatever the number of threads.
THEOREM RevocationStops == Spec => []RevokedInvitationStops
<1>1. Init => StaleBounded
  <2> SUFFICES ASSUME Init PROVE StaleBounded
    OBVIOUS
  <2>1. Stale = {} /\ slipped = 0
    BY DEF Init, Stale, At, Idle
  <2>2. PICK t \in Threads : TRUE
    BY MembershipAssumption
  <2>3. Cardinality(Threads \ {t}) = Cardinality(Threads) - 1 /\ Cardinality(Threads \ {t}) \in Nat
    BY ThreadsCount
  <2>4. QED
    BY <2>1, <2>3, FS_EmptySet, ThreadsCount DEF StaleBounded
<1>2. IInv /\ StaleBounded /\ [Next]_vars => StaleBounded'
  BY StaleStep
<1>3. IInv /\ StaleBounded => RevokedInvitationStops
  <2> SUFFICES ASSUME IInv, StaleBounded PROVE RevokedInvitationStops
    OBVIOUS
  <2>1. Stale \subseteq Threads /\ slipped \in Nat
    BY DEF Stale, IInv, TypeOK
  <2>2. QED
    BY <2>1, ThreadsCount DEF StaleBounded, RevokedInvitationStops
<1>4. QED
  BY <1>1, <1>2, <1>3, Invariance, PTL DEF Spec

-----------------------------------------------------------------------------
(* Tasks: the inductive invariant.                                         *)

Queued == Range(queue)

\* What a post's place says of its task, its result channel and the sandbox.
PostsSound ==
    \A p \in Posts :
        /\ kind[p] = "provision" => post[p] \notin {"message", "paired"}
        /\ kind[p] # "provision" => post[p] \notin {"unknown", "conflict"}
        /\ post[p] \in {"idle", "unknown", "channel"} => p \notin Queued
        /\ post[p] = "idle" => p \notin Range(named)
        /\ post[p] \in {"message", "paired"} => p \in Queued
        /\ post[p] = "paired" => p \in results
        /\ post[p] = "conflict" => sandbox # Null
        /\ kind[p] = "provision" /\ post[p] = "done" => sandbox # Null

\* Clients list and work on what is in the queue.
InQueue(client) ==
    /\ client.page \subseteq Queued
    /\ client.at = "working" => client.task \in Queued
ClientsSound ==
    /\ \A c \in Consumers : InQueue(consumer[c])
    /\ \A a \in Agents : InQueue(agent[a])

\* Whoever is told to hold a task holds it, or it was released since.
HoldersTold ==
    /\ \A a \in Agents : agent[a].at = "working" =>
         agent[a].task \in released \/ holder[agent[a].task] = agent[a].name
    /\ \A slot \in replay : slot[2] \in released \/ holder[slot[2]] = slot[1]

TasksInv ==
    TasksTypeOK /\ PostsSound /\ ClientsSound /\ HoldersTold /\ WorkersShareSandbox

\* A sequence without repetition takes a new element.
LEMMA AppendKeeps ==
    ASSUME NEW S, NEW s \in Seq(S), IsInjective(s), NEW x \in S, x \notin Range(s)
    PROVE  /\ Append(s, x) \in Seq(S) /\ IsInjective(Append(s, x))
           /\ Range(Append(s, x)) = Range(s) \cup {x}
<1>1. Append(s, x) \in Seq(S) /\ Len(Append(s, x)) = Len(s) + 1 /\ Len(s) \in Nat
  OBVIOUS
<1>2. \A i \in 1..Len(s) : Append(s, x)[i] = s[i]
  OBVIOUS
<1>3. Append(s, x)[Len(s) + 1] = x
  OBVIOUS
<1>4. DOMAIN s = 1..Len(s) /\ DOMAIN Append(s, x) = 1..(Len(s) + 1)
  OBVIOUS
<1>5. \A i \in 1..(Len(s) + 1) : i = Len(s) + 1 \/ i \in 1..Len(s)
  BY <1>1
<1>6. Range(Append(s, x)) = Range(s) \cup {x}
  <2>1. Range(s) = {s[i] : i \in 1..Len(s)} /\ Range(Append(s, x)) = {Append(s, x)[i] : i \in 1..(Len(s) + 1)}
    BY <1>4 DEF Range
  <2>2. Len(s) + 1 \in 1..(Len(s) + 1) /\ 1..Len(s) \subseteq 1..(Len(s) + 1)
    BY <1>1
  <2>3. QED
    BY <1>2, <1>3, <1>5, <2>1, <2>2
<1>7. IsInjective(Append(s, x))
  <2> SUFFICES ASSUME NEW i \in 1..(Len(s) + 1), NEW j \in 1..(Len(s) + 1),
                      Append(s, x)[i] = Append(s, x)[j]
               PROVE  i = j
    BY <1>4 DEF IsInjective
  <2>1. \A k \in 1..Len(s) : s[k] # x
    BY <1>4 DEF Range
  <2>2. QED
    BY <1>2, <1>3, <1>4, <1>5, <2>1 DEF IsInjective
<1>8. QED
  BY <1>1, <1>6, <1>7

LEMMA TasksInvInit == TasksInit => TasksInv
<1> SUFFICES ASSUME TasksInit PROVE TasksInv
  OBVIOUS
<1> USE TasksAssumption
<1>1. Range(<<>>) = {}
  BY DEF Range
<1>2. (CHOOSE n \in Names : TRUE) \in Names
  OBVIOUS
<1>3. \A n \in Names : Session(n) \in [at: {"idle"}, page: {{}}, task: {Null}, name: Names]
  BY DEF Session
<1>4. /\ consumer \in [Consumers -> [at: {"away", "idle"}, page: {{}}, task: {Null}]]
      /\ agent \in [Agents -> [at: {"away", "idle"}, page: {{}}, task: {Null}, name: Names]]
      /\ kind \in [Posts -> Kinds]
  <2>1. NoTask \in [at: {"idle"}, page: {{}}, task: {Null}]
        /\ [NoTask EXCEPT !.at = "away"] \in [at: {"away"}, page: {{}}, task: {Null}]
    BY DEF NoTask
  <2>2. [Session(CHOOSE n \in Names : TRUE) EXCEPT !.at = "away"]
          \in [at: {"away"}, page: {{}}, task: {Null}, name: Names]
    BY <1>2, <1>3 DEF Session
  <2>3. kind \in [Posts -> Kinds]
    BY DEF TasksInit, Kinds
  <2>4. consumer \in [Consumers -> [at: {"away", "idle"}, page: {{}}, task: {Null}]]
    BY <2>1 DEF TasksInit
  <2>5. agent \in [Agents -> [at: {"away", "idle"}, page: {{}}, task: {Null}, name: Names]]
    BY <1>3, <2>2 DEF TasksInit
  <2>6. QED
    BY <2>3, <2>4, <2>5
<1>5. TasksTypeOK
  <2>1. named \in Seq(Posts) /\ IsInjective(named) /\ queue \in Seq(Posts) /\ IsInjective(queue)
    BY DEF TasksInit, IsInjective
  <2>2. claimed = {}
    BY DEF TasksInit, claimed
  <2>3. post \in [Posts -> Steps]
    BY DEF TasksInit, Steps
  <2>4. QED
    BY <1>4, <2>1, <2>2, <2>3 DEF TasksInit, TasksTypeOK
<1>6. PostsSound
  BY <1>1 DEF TasksInit, PostsSound, Queued
<1>7. ClientsSound
  BY <1>4 DEF ClientsSound, InQueue
<1>8. HoldersTold
  BY <1>4 DEF TasksInit, HoldersTold
<1>9. WorkersShareSandbox
  BY DEF TasksInit, WorkersShareSandbox
<1>10. QED
  BY <1>5, <1>6, <1>7, <1>8, <1>9 DEF TasksInv

\* The steps of a handler that posts: what clients see only grows.
LEMMA ClientsKept ==
    ASSUME TasksInv, UNCHANGED <<claims, clients>>, Queued \subseteq Queued'
    PROVE  ClientsSound' /\ HoldersTold'
BY DEF TasksInv, ClientsSound, InQueue, HoldersTold, claims, clients

LEMMA PosterKeeps ==
    ASSUME TasksInv, NEW p \in Posts, Post(p)
    PROVE  TasksInv'
<1> USE DEF TasksInv
<1> DEFINE Types == /\ post' \in [Posts -> Steps]
                    /\ named' \in Seq(Posts) /\ IsInjective(named')
                    /\ home' \in [Posts -> Posts \cup {Null}]
                    /\ queue' \in Seq(Posts) /\ IsInjective(queue')
                    /\ aliases' \subseteq results' /\ results \subseteq results'
                    /\ results' \subseteq Queued' /\ Queued \subseteq Queued'
                    /\ sandbox' \in Posts \cup {Null}
<1>0. UNCHANGED <<kind, claims, clients>>
  BY DEF Post, CreateChannel, Resolve, Insert, Pair, Alias, PosterDies, LookUp, CreateSandbox,
         AliasSandbox, ResolveAgain
<1>1. ASSUME Types, PostsSound', WorkersShareSandbox'
      PROVE  TasksInv'
  <2>1. TasksTypeOK'
    BY <1>0, <1>1 DEF TasksTypeOK, claims, clients, claimed, Queued
  <2>2. QED
    BY <1>0, <1>1, <2>1, ClientsKept
<1>2. ASSUME NEW step \in Steps, Goto(p, step)
      PROVE  post' \in [Posts -> Steps] /\ post'[p] = step /\ \A q \in Posts \ {p} : post'[q] = post[q]
  BY <1>2 DEF Goto, TasksTypeOK
<1>3. CASE CreateChannel(p)
  <2>1. p \notin Range(named)
    BY <1>3 DEF CreateChannel, PostsSound
  <2>2. named' \in Seq(Posts) /\ IsInjective(named') /\ Range(named') = Range(named) \cup {p}
    BY <1>3, <2>1, AppendKeeps DEF CreateChannel, TasksTypeOK
  <2>3. Goto(p, "channel") /\ UNCHANGED <<kind, queue, results, aliases, sandbox>>
    BY <1>3 DEF CreateChannel
  <2>4. Types
    BY <1>2, <1>3, <2>2, <2>3 DEF CreateChannel, TasksTypeOK, Steps, Queued
  <2>5. PostsSound' /\ WorkersShareSandbox'
    BY <1>2, <1>3, <2>2, <2>3 DEF CreateChannel, PostsSound, WorkersShareSandbox, TasksTypeOK, Steps, Queued
  <2>6. QED
    BY <1>1, <2>4, <2>5
<1>4. CASE Resolve(p)
  <2>1. Newest \in Posts
    BY <1>4 DEF Resolve, Newest, TasksTypeOK
  <2>2. Goto(p, "channel") /\ UNCHANGED <<kind, named, queue, results, aliases, sandbox>>
    BY <1>4 DEF Resolve
  <2>3. Types
    BY <1>2, <1>4, <2>1, <2>2 DEF Resolve, TasksTypeOK, Steps, Queued
  <2>4. PostsSound' /\ WorkersShareSandbox'
    BY <1>2, <1>4, <2>2 DEF Resolve, PostsSound, WorkersShareSandbox, TasksTypeOK, Steps, Queued
  <2>5. QED
    BY <1>1, <2>3, <2>4
<1>5. CASE Insert(p)
  <2>1. p \notin Queued
    BY <1>5 DEF Insert, PostsSound
  <2>2. queue' \in Seq(Posts) /\ IsInjective(queue') /\ Queued' = Queued \cup {p}
    BY <1>5, <2>1, AppendKeeps DEF Insert, TasksTypeOK, Queued
  <2>3. UNCHANGED <<kind, named, home, results, aliases, sandbox>> /\ kind[p] # "provision"
        /\ (Goto(p, "message") \/ Goto(p, "done"))
    BY <1>5 DEF Insert
  <2>4. Types
    BY <1>2, <2>2, <2>3 DEF TasksTypeOK, Steps, Queued
  <2>5. PostsSound' /\ WorkersShareSandbox'
    BY <1>2, <2>2, <2>3 DEF PostsSound, WorkersShareSandbox, TasksTypeOK, Steps
  <2>6. QED
    BY <1>1, <2>4, <2>5
<1>6. CASE Pair(p) \/ Alias(p)
  <2>1. UNCHANGED <<kind, named, home, queue, sandbox>> /\ kind[p] # "provision" /\ p \in Queued
        /\ results \subseteq results' /\ results' \subseteq results \cup {p}
        /\ aliases' \subseteq results'
    BY <1>6 DEF Pair, Alias, PostsSound, TasksTypeOK
  <2>2. (Goto(p, "paired") /\ p \in results') \/ Goto(p, "done")
    BY <1>6 DEF Pair, Alias
  <2>3. Types
    BY <1>2, <2>1, <2>2 DEF TasksTypeOK, Steps, Queued
  <2>4. PostsSound' /\ WorkersShareSandbox'
    BY <1>2, <2>1, <2>2 DEF PostsSound, WorkersShareSandbox, TasksTypeOK, Steps, Queued
  <2>5. QED
    BY <1>1, <2>3, <2>4
<1>7. CASE PosterDies(p)
  <2>1. UNCHANGED <<kind, named, home, queue, results, aliases, sandbox>> /\ Goto(p, "dead")
    BY <1>7 DEF PosterDies
  <2>2. Types
    BY <1>2, <2>1 DEF TasksTypeOK, Steps, Queued
  <2>3. PostsSound' /\ WorkersShareSandbox'
    BY <1>2, <2>1 DEF PostsSound, WorkersShareSandbox, TasksTypeOK, Steps, Queued
  <2>4. QED
    BY <1>1, <2>2, <2>3
<1>8. CASE LookUp(p) \/ CreateSandbox(p) \/ AliasSandbox(p) \/ ResolveAgain(p)
  <2>1. UNCHANGED <<kind, named, queue, results, aliases>> /\ kind[p] = "provision"
    BY <1>8 DEF LookUp, CreateSandbox, AliasSandbox, ResolveAgain, PostsSound
  <2>2. sandbox' = sandbox \/ (sandbox = Null /\ sandbox' = p)
    BY <1>8 DEF LookUp, CreateSandbox, AliasSandbox, ResolveAgain
  <2>3. \/ home' = home /\ post[p] \in {"idle", "unknown"} /\ (Goto(p, "unknown") \/ Goto(p, "channel"))
        \/ home' = home /\ Goto(p, "conflict") /\ sandbox' # Null /\ sandbox' = sandbox
        \/ Given(p, sandbox') /\ sandbox' # Null
    BY <1>8, TasksAssumption DEF LookUp, CreateSandbox, AliasSandbox, ResolveAgain, Winner, PostsSound
  <2>5. \E step \in {"unknown", "channel", "conflict", "done"} :
          /\ Goto(p, step)
          /\ IF step \in {"conflict", "done"} THEN sandbox' # Null ELSE post[p] \in {"idle", "unknown"}
          /\ IF step = "done" THEN home' = [home EXCEPT ![p] = sandbox'] ELSE home' = home
    BY <2>3 DEF Given
  <2>6. PICK step \in {"unknown", "channel", "conflict", "done"} :
          /\ Goto(p, step)
          /\ IF step \in {"conflict", "done"} THEN sandbox' # Null ELSE post[p] \in {"idle", "unknown"}
          /\ IF step = "done" THEN home' = [home EXCEPT ![p] = sandbox'] ELSE home' = home
    BY <2>5
  <2>7. Types
    BY <1>2, <2>1, <2>2, <2>6 DEF TasksTypeOK, Steps, Queued
  <2>8. post' \in [Posts -> Steps] /\ post'[p] = step /\ \A q \in Posts \ {p} : post'[q] = post[q]
    BY <1>2, <2>6 DEF Steps
  <2>9. PostsSound'
    <3>1. sandbox # Null => sandbox' # Null
      BY <2>2
    <3>2. Queued' = Queued
      BY <2>1 DEF Queued
    <3>3. QED
      BY <2>1, <2>6, <2>8, <3>1, <3>2 DEF PostsSound
  <2>10. WorkersShareSandbox'
    <3> SUFFICES ASSUME NEW q \in Posts, kind[q] = "provision", post'[q] = "done"
                 PROVE  home'[q] = sandbox'
      BY <2>1 DEF WorkersShareSandbox
    <3>1. CASE q = p
      BY <2>6, <2>8, <3>1 DEF TasksTypeOK
    <3>2. CASE q # p
      BY <2>2, <2>6, <2>8, <3>2 DEF WorkersShareSandbox, PostsSound, TasksTypeOK
    <3>3. QED
      BY <3>1, <3>2
  <2>11. QED
    BY <1>1, <2>7, <2>9, <2>10
<1>9. QED
  BY <1>3, <1>4, <1>5, <1>6, <1>7, <1>8 DEF Post

\* The steps of clients leave the posts alone.
LEMMA ClientKeeps ==
    ASSUME TasksInv, UNCHANGED posts,
           holder' \in [Posts -> Consumers \cup Names \cup {Null}],
           claimed' \subseteq Queued, acked' \subseteq Queued,
           replay' \subseteq Slots, released' \subseteq Queued,
           published' \subseteq results, received' \subseteq published',
           consumer' \in [Consumers -> [at: {"away", "idle", "listed", "working"},
                                        page: SUBSET Posts, task: Posts \cup {Null}]],
           agent' \in [Agents -> [at: {"away", "idle", "listed", "working"},
                                  page: SUBSET Posts, task: Posts \cup {Null}, name: Names]],
           ClientsSound', HoldersTold'
    PROVE  TasksInv'
<1>1. Queued' = Queued /\ PostsSound' /\ WorkersShareSandbox'
  BY DEF TasksInv, posts, Queued, PostsSound, WorkersShareSandbox
<1>2. TasksTypeOK'
  BY <1>1 DEF TasksInv, TasksTypeOK, posts, Queued
<1>3. QED
  BY <1>1, <1>2 DEF TasksInv

LEMMA PagesQueued ==
    ASSUME NEW w
    PROVE  Listing(w) \subseteq Queued /\ ListingAll(w) \subseteq Queued
BY DEF Listing, ListingAll, FirstOf, Queued

LEMMA ConsumerKeeps ==
    ASSUME TasksInv, NEW c \in Consumers, Consume(c)
    PROVE  TasksInv'
<1> USE DEF TasksInv
<1> DEFINE Client == [at: {"away", "idle", "listed", "working"},
                      page: SUBSET Posts, task: Posts \cup {Null}]
<1>0. /\ UNCHANGED <<posts, acked, replay, released, agent, received>>
      /\ Queued' = Queued /\ Queued \subseteq Posts /\ consumer[c] \in Client
  <2>1. UNCHANGED <<posts, acked, replay, released, agent, received>>
    BY DEF Consume, List, Try, Publish, Leave, ConsumerDies, claims
  <2>2. QED
    BY <2>1 DEF posts, Queued, TasksTypeOK, Range
<1>1. ASSUME NEW h \in Client, consumer' = [consumer EXCEPT ![c] = h], InQueue(h),
             \/ UNCHANGED holder
             \/ \E p \in Queued : p \notin claimed /\ holder' = [holder EXCEPT ![p] = c],
             published' \subseteq results, published \subseteq published'
      PROVE  TasksInv'
  <2>1. /\ holder' \in [Posts -> Consumers \cup Names \cup {Null}]
        /\ claimed' \subseteq Queued
    BY <1>0, <1>1 DEF TasksTypeOK, claimed, Queued
  <2>2. consumer' \in [Consumers -> Client] /\ ClientsSound'
    BY <1>0, <1>1 DEF TasksTypeOK, ClientsSound, InQueue
  <2>3. HoldersTold'
    <3>1. \A p \in Posts : holder[p] # Null => holder'[p] = holder[p]
      BY <1>1 DEF TasksTypeOK, claimed
    <3>2. \A a \in Agents : agent[a].at = "working" => agent[a].task \in Posts /\ agent[a].name # Null
      BY <1>0, TasksAssumption DEF ClientsSound, InQueue, TasksTypeOK
    <3>3. \A slot \in replay : slot[2] \in Posts /\ slot[1] # Null
      BY TasksAssumption DEF TasksTypeOK, Slots
    <3>4. QED
      BY <1>0, <3>1, <3>2, <3>3 DEF HoldersTold
  <2>4. QED
    BY <1>0, <1>1, <2>1, <2>2, <2>3, ClientKeeps DEF TasksTypeOK, Queued, posts
<1>2. NoTask \in Client /\ InQueue(NoTask)
  BY DEF NoTask, InQueue
<1>3. CASE List(c)
  <2> DEFINE h == [NoTask EXCEPT !.at = "listed", !.page = Listing(Newest)]
  <2>1. h \in Client /\ InQueue(h)
    BY <1>0, PagesQueued DEF NoTask, InQueue
  <2>2. QED
    BY <1>1, <1>3, <2>1 DEF List, claims, TasksTypeOK
<1>4. CASE Try(c)
  <2>1. PICK p \in Posts :
          /\ IsHead(p, consumer[c].page)
          /\ IF p \notin claimed
             THEN /\ holder' = [holder EXCEPT ![p] = c]
                  /\ consumer' = [consumer EXCEPT ![c] = [NoTask EXCEPT !.at = "working", !.task = p]]
             ELSE /\ holder' = holder
                  /\ consumer' = [consumer EXCEPT ![c] =
                       IF consumer[c].page = {p} THEN NoTask
                       ELSE [consumer[c] EXCEPT !.page = consumer[c].page \ {p}]]
    BY <1>4 DEF Try
  <2>2. p \in Queued /\ InQueue(consumer[c]) /\ published' = published
    BY <1>4, <2>1 DEF IsHead, ClientsSound, InQueue, Try
  <2>3. CASE p \notin claimed
    <3> DEFINE h == [NoTask EXCEPT !.at = "working", !.task = p]
    <3>1. h \in Client /\ InQueue(h)
      BY <2>2 DEF NoTask, InQueue
    <3>2. QED
      BY <1>1, <2>1, <2>2, <2>3, <3>1 DEF TasksTypeOK
  <2>4. CASE p \in claimed
    <3> DEFINE h == IF consumer[c].page = {p} THEN NoTask
                    ELSE [consumer[c] EXCEPT !.page = consumer[c].page \ {p}]
    <3>1. h \in Client /\ InQueue(h)
      <4>1. CASE consumer[c].page = {p}
        BY <1>2, <4>1
      <4>2. CASE consumer[c].page # {p}
        BY <1>0, <2>2, <4>2 DEF InQueue
      <4>3. QED
        BY <4>1, <4>2
    <3>2. holder' = holder /\ consumer' = [consumer EXCEPT ![c] = h]
      BY <2>1, <2>4
    <3> HIDE DEF h
    <3>3. QED
      BY <1>1, <2>2, <3>1, <3>2 DEF TasksTypeOK
  <2>5. QED
    BY <2>3, <2>4
<1>5. CASE Publish(c)
  <2>1. published' \subseteq results /\ published \subseteq published'
    BY <1>5 DEF Publish, Found, TasksTypeOK
  <2>2. QED
    BY <1>1, <1>2, <1>5, <2>1 DEF Publish, claims
<1>6. CASE Leave(c) \/ ConsumerDies(c)
  BY <1>1, <1>2, <1>6 DEF Leave, ConsumerDies, claims, TasksTypeOK
<1>7. QED
  BY <1>3, <1>4, <1>5, <1>6 DEF Consume

LEMMA ToolKeeps ==
    ASSUME TasksInv, NEW a \in Agents, UseTool(a)
    PROVE  TasksInv'
<1> USE DEF TasksInv
<1> DEFINE Client == [at: {"away", "idle", "listed", "working"},
                      page: SUBSET Posts, task: Posts \cup {Null}, name: Names]
<1> DEFINE n == agent[a].name
<1>0. /\ UNCHANGED <<posts, released, consumer, published, received>>
      /\ Queued' = Queued /\ Queued \subseteq Posts /\ agent[a] \in Client /\ n # Null
  BY TasksAssumption
  DEF UseTool, ToolList, ToolTry, AgentDies, claims, posts, Queued, TasksTypeOK, Range
<1>1. ASSUME NEW step \in {"idle", "listed", "working"}, NEW page \in SUBSET Queued,
             NEW task \in Queued \cup {Null},
             Has(a, step, page, task), step = "working" => task \in Queued,
             step = "working" => task \in released \/ holder'[task] = n,
             \/ UNCHANGED <<holder, replay>>
             \/ /\ replay' = replay \cup {<<n, task>>} /\ step = "working"
                /\ holder' = holder
                   \/ (holder' = [holder EXCEPT ![task] = n] /\ holder[task] \in {Null, n}),
             acked' \subseteq Queued
      PROVE  TasksInv'
  <2> DEFINE h == [agent[a] EXCEPT !.at = step, !.page = page, !.task = task]
  <2>1. h \in Client /\ agent' = [agent EXCEPT ![a] = h] /\ h.name = n /\ h.at = step
        /\ h.page = page /\ h.task = task
    BY <1>0, <1>1 DEF Has, TasksTypeOK
  <2> HIDE DEF h
  <2>2. /\ holder' \in [Posts -> Consumers \cup Names \cup {Null}]
        /\ claimed' \subseteq Queued
        /\ replay' \subseteq Slots
    BY <1>0, <1>1 DEF TasksTypeOK, claimed, Queued, Slots
  <2>3. agent' \in [Agents -> Client] /\ ClientsSound'
    BY <1>0, <1>1, <2>1 DEF TasksTypeOK, ClientsSound, InQueue
  <2>4. HoldersTold'
    <3>1. \A p \in Posts : holder[p] # Null => holder'[p] = holder[p]
      BY <1>1 DEF TasksTypeOK
    <3>2. \A b \in Agents : agent[b].at = "working" => agent[b].task \in Posts /\ agent[b].name # Null
      BY <1>0, TasksAssumption DEF ClientsSound, InQueue, TasksTypeOK
    <3>3. \A slot \in replay : slot[2] \in Posts /\ slot[1] # Null
      BY TasksAssumption DEF TasksTypeOK, Slots
    <3>4. \A slot \in replay' : slot[2] \in released \/ holder'[slot[2]] = slot[1]
      BY <1>1, <3>1, <3>3 DEF HoldersTold
    <3>5. \A b \in Agents : agent'[b].at = "working" =>
            agent'[b].task \in released \/ holder'[agent'[b].task] = agent'[b].name
      BY <1>1, <2>1, <3>1, <3>2 DEF HoldersTold, TasksTypeOK
    <3>6. QED
      BY <1>0, <3>4, <3>5 DEF HoldersTold
  <2>5. QED
    BY <1>0, <1>1, <2>2, <2>3, <2>4, ClientKeeps DEF TasksTypeOK, Queued, posts
<1>2. CASE ToolList(a)
  <2>1. Offered(ListingAll(Newest)) \in SUBSET Queued
    BY PagesQueued DEF Offered
  <2>2. Has(a, "listed", Offered(ListingAll(Newest)), Null) /\ UNCHANGED claims
    BY <1>2 DEF ToolList
  <2>3. QED
    BY <1>1, <2>1, <2>2 DEF claims, TasksTypeOK, Queued
<1>3. CASE ToolTry(a)
  <2> DEFINE replayed(p) == ClaimSlot(n, p) \cap replay # {}
  <2>1. PICK p \in Posts :
          /\ IsHead(p, agent[a].page)
          /\ IF replayed(p) \/ holder[p] \in {Null, n}
             THEN /\ holder' = IF replayed(p) THEN holder ELSE [holder EXCEPT ![p] = n]
                  /\ replay' = replay \cup {<<n, p>>}
                  /\ Has(a, "working", {}, p)
             ELSE /\ UNCHANGED <<holder, replay>>
                  /\ IF agent[a].page = {p} THEN Has(a, "idle", {}, Null)
                     ELSE Has(a, "listed", agent[a].page \ {p}, Null)
    BY <1>3 DEF ToolTry
  <2>2. p \in Queued /\ agent[a].page \ {p} \in SUBSET Queued /\ acked' \subseteq Queued
    BY <1>3, <2>1 DEF IsHead, ClientsSound, InQueue, ToolTry, TasksTypeOK, Queued
  <2>3. CASE replayed(p) \/ holder[p] \in {Null, n}
    <3>1. p \in released \/ holder'[p] = n
      <4>1. CASE replayed(p)
        BY <2>1, <4>1 DEF HoldersTold, ClaimSlot
      <4>2. CASE ~replayed(p)
        BY <2>1, <2>3, <4>2 DEF TasksTypeOK
      <4>3. QED
        BY <4>1, <4>2
    <3>2. Has(a, "working", {}, p) /\ replay' = replay \cup {<<n, p>>}
          /\ (holder' = holder \/ (holder' = [holder EXCEPT ![p] = n] /\ holder[p] \in {Null, n}))
      BY <2>1, <2>3
    <3> HIDE DEF replayed, n
    <3>3. QED
      BY <1>1, <2>2, <3>1, <3>2
  <2>4. CASE ~(replayed(p) \/ holder[p] \in {Null, n})
    <3>1. UNCHANGED <<holder, replay>>
          /\ (Has(a, "idle", {}, Null) \/ Has(a, "listed", agent[a].page \ {p}, Null))
      BY <2>1, <2>4
    <3>2. QED
      BY <1>1, <2>2, <3>1
  <2>5. QED
    BY <2>3, <2>4
<1>4. CASE AgentDies(a)
  <2>1. Has(a, "idle", {}, Null) /\ UNCHANGED <<holder, replay, acked>>
    BY <1>4 DEF AgentDies, claims
  <2>2. QED
    BY <1>1, <2>1 DEF TasksTypeOK, Queued
<1>5. QED
  BY <1>2, <1>3, <1>4 DEF UseTool

LEMMA OthersKeep ==
    ASSUME TasksInv,
           UNCHANGED tasksVars \/ \E p \in Posts : Await(p) \/ Release(p) \/ Ack(p)
    PROVE  TasksInv'
<1> USE DEF TasksInv
<1>1. CASE UNCHANGED tasksVars
  BY <1>1 DEF tasksVars, posts, claims, clients, TasksTypeOK, PostsSound, ClientsSound, InQueue,
              HoldersTold, WorkersShareSandbox, Queued, claimed
<1>2. ASSUME NEW p \in Posts, Await(p)
      PROVE  TasksInv'
  <2>1. UNCHANGED <<posts, claims, consumer, agent, published>> /\ received' \subseteq published
    BY <1>2 DEF Await, TasksTypeOK
  <2>2. ClientsSound' /\ HoldersTold' /\ claimed' = claimed
    BY <2>1 DEF posts, claims, ClientsSound, InQueue, HoldersTold, Queued, claimed
  <2>3. QED
    BY <2>1, <2>2, ClientKeeps DEF TasksTypeOK, claims, Queued
<1>3. ASSUME NEW p \in Posts, Release(p)
      PROVE  TasksInv'
  <2>1. /\ UNCHANGED <<posts, acked, replay, clients>>
        /\ holder' = [holder EXCEPT ![p] = Null] /\ released' = released \cup {p}
    BY <1>3 DEF Release
  <2>2. p \in Queued
    BY <1>3, TasksAssumption DEF Release, TasksTypeOK, claimed, Queued
  <2>3. /\ holder' \in [Posts -> Consumers \cup Names \cup {Null}]
        /\ claimed' \subseteq Queued
    BY <2>1 DEF TasksTypeOK, claimed, Queued
  <2>4. ClientsSound'
    BY <2>1 DEF posts, clients, ClientsSound, InQueue, Queued
  <2>5. HoldersTold'
    BY <2>1 DEF clients, HoldersTold, TasksTypeOK
  <2>6. QED
    BY <2>1, <2>2, <2>3, <2>4, <2>5, ClientKeeps DEF TasksTypeOK, clients, Queued
<1>4. ASSUME NEW p \in Posts, Ack(p)
      PROVE  TasksInv'
  <2>1. /\ UNCHANGED <<posts, holder, replay, released, clients>>
        /\ acked' = acked \cup {p} /\ p \in Queued
    BY <1>4 DEF Ack, Queued
  <2>2. ClientsSound' /\ HoldersTold' /\ claimed' = claimed
    BY <2>1 DEF posts, clients, ClientsSound, InQueue, HoldersTold, Queued, claimed
  <2>3. QED
    BY <2>1, <2>2, ClientKeeps DEF TasksTypeOK, clients, Queued
<1>5. QED
  BY <1>1, <1>2, <1>3, <1>4

THEOREM TasksInvariance == TasksSpec => []TasksInv
<1>1. TasksInv /\ [TasksNext]_tasksVars => TasksInv'
  BY PosterKeeps, ConsumerKeeps, ToolKeeps, OthersKeep DEF TasksNext
<1>2. QED
  BY <1>1, TasksInvInit, PTL DEF TasksSpec

\* The variables of Tasks have their types in every state: no channel is
\* created and no task is posted twice, and what is claimed, acknowledged or
\* has a result was posted.
THEOREM TasksTypeCorrect == TasksSpec => []TasksTypeOK
<1>1. TasksInv => TasksTypeOK
  BY DEF TasksInv
<1>2. QED
  BY <1>1, TasksInvariance, PTL

\* Every worker that starts is given the channel that clients find.
THEOREM SandboxIsShared == TasksSpec => []WorkersShareSandbox
<1>1. TasksInv => WorkersShareSandbox
  BY DEF TasksInv
<1>2. QED
  BY <1>1, TasksInvariance, PTL

\* No two actors are told that they hold one task that was not released.
THEOREM TaskHasOneWorker == TasksSpec => []OneWorker
<1>1. TasksInv => OneWorker
  BY DEF TasksInv, HoldersTold, OneWorker
<1>2. QED
  BY <1>1, TasksInvariance, PTL
=============================================================================
