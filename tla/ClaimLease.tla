----------------------------- MODULE ClaimLease -----------------------------
(***************************************************************************)
(* The claim, lease, acknowledgement and retraction verbs of the message   *)
(* store (backchannel/store.py), as seen by the rows of `messages` of one  *)
(* channel.                                                                *)
(*                                                                         *)
(* A request runs on its own server thread and its own SQLite connection.  *)
(* Python's sqlite3 opens a transaction only at the first INSERT, UPDATE   *)
(* or DELETE, so the SELECTs before it each see their own committed state; *)
(* from the first write to the commit the handler holds the write lock.    *)
(* A handler is therefore a read step, sometimes a second read (the        *)
(* acknowledgement check of a claim), and one atomic write step, and the   *)
(* other threads and the worker run between them.  A reply that changes    *)
(* nothing is a return to the idle state.                                  *)
(***************************************************************************)
EXTENDS Integers, FiniteSets

CONSTANTS
    Messages,       \* the messages under study, all posted at time 0
    Actors,         \* the callers; each acts under one API key of its own
    Tokens,         \* the lease tokens uuid4 may return, each at most once
    Threads,        \* request threads of the server
    LeaseSeconds,   \* the lease lengths callers ask for, in clock ticks
    TTL,            \* the expires_at of every message
    Horizon,        \* bound: the clock stops here
    None            \* SQL NULL

ASSUME SetsAssumption ==
    /\ None \notin Messages \cup Actors \cup Tokens
    /\ None \notin Nat
ASSUME TimesAssumption ==
    /\ LeaseSeconds \subseteq Nat \ {0}
    /\ TTL \in Nat
    /\ Horizon \in Nat

VARIABLES
    now,            \* the clock every handler reads with self.now()
    live,           \* the messages that have a row
    claimedBy,      \* claimed_by_actor_id
    claimedByKey,   \* claimed_by_key_id, named by the actor that key acts for
    leaseToken,     \* lease_token
    leaseExpires,   \* lease_expires_at
    acks,           \* number of 'ack' events of each actor in message_events
    lastClaim,      \* actor of the newest 'claim' event in message_events
    issued,         \* the lease tokens generated so far
    req,            \* per thread, what its handler remembers between steps
    sweep           \* reclaim_expired_leases in progress

row == <<live, claimedBy, claimedByKey, leaseToken, leaseExpires, acks, lastClaim>>
vars == <<now, row, issued, req, sweep>>

Ops == {"claim", "lease", "release", "ack", "heartbeat", "delete"}

\* What a handler remembers: the actor and message of the request, the
\* claim columns it read (prev, until), the time it took (at), the token.
Request ==
    [op: Ops, step: {"decide", "write"}, actor: Actors \cup {None},
     msg: Messages \cup {None}, prev: Actors \cup {None},
     until: Nat \cup {None}, at: Nat, token: Tokens \cup {None}]

Idle == [op |-> "idle"]
Pending(op, step, a, m, p, u, at, k) ==
    [op |-> op, step |-> step, actor |-> a, msg |-> m, prev |-> p,
     until |-> u, at |-> at, token |-> k]

\* The worker's sweep remembers the rows it selected and its `now`.
Pass == [busy: BOOLEAN, rows: SUBSET Messages, at: Nat]
NoPass == [busy |-> FALSE, rows |-> {}, at |-> 0]

Expired(m, t) == TTL <= t
LeaseLapsed(m, t) == leaseExpires[m] # None /\ leaseExpires[m] <= t
Acked(m) == \E a \in Actors : acks[m][a] > 0
NoAcks == [a \in Actors |-> 0]

TypeOK ==
    /\ now \in Nat
    /\ live \subseteq Messages
    /\ claimedBy \in [Messages -> Actors \cup {None}]
    /\ claimedByKey \in [Messages -> Actors \cup {None}]
    /\ leaseToken \in [Messages -> Tokens \cup {None}]
    /\ leaseExpires \in [Messages -> Nat \cup {None}]
    /\ acks \in [Messages -> [Actors -> Nat]]
    /\ lastClaim \in [Messages -> Actors \cup {None}]
    /\ issued \subseteq Tokens
    /\ req \in [Threads -> Request \cup {Idle}]
    /\ sweep \in Pass

Init ==
    /\ now = 0
    /\ live = Messages
    /\ claimedBy = [m \in Messages |-> None]
    /\ claimedByKey = [m \in Messages |-> None]
    /\ leaseToken = [m \in Messages |-> None]
    /\ leaseExpires = [m \in Messages |-> None]
    /\ acks = [m \in Messages |-> NoAcks]
    /\ lastClaim = [m \in Messages |-> None]
    /\ issued = {}
    /\ req = [t \in Threads |-> Idle]
    /\ sweep = NoPass

-----------------------------------------------------------------------------
(* Steps shared by the handlers.                                           *)

Start(t, r) == req[t] = Idle /\ req' = [req EXCEPT ![t] = r]
Finish(t) == req' = [req EXCEPT ![t] = Idle]
At(t, ops, step) == req[t] # Idle /\ req[t].op \in ops /\ req[t].step = step

\* The rows of S leave the table, and their events with them (ON DELETE
\* CASCADE).  A column of a row that is gone reads as NULL.
RemoveRows(S) ==
    /\ live' = live \ S
    /\ acks' = [m \in Messages |-> IF m \in S THEN NoAcks ELSE acks[m]]
    /\ lastClaim' = [m \in Messages |-> IF m \in S THEN None ELSE lastClaim[m]]

Blank(f, S) == [m \in Messages |-> IF m \in S THEN None ELSE f[m]]

\* The claim columns of the rows of S are set to NULL.
ReturnToPool(S) ==
    /\ claimedBy' = Blank(claimedBy, S)
    /\ claimedByKey' = Blank(claimedByKey, S)
    /\ leaseToken' = Blank(leaseToken, S)
    /\ leaseExpires' = Blank(leaseExpires, S)

Readable(m) == m \in live /\ ~Expired(m, now)

-----------------------------------------------------------------------------
(* claim_message and claim_with_lease.                                     *)

\* The message is read and found unexpired.  The channel's mode and the caller's
\* access are read too: whether they let the request pass may change at any
\* time and is left open.
ClaimRead(t, op, a, m) ==
    /\ Readable(m)
    /\ Start(t, Pending(op, "decide", a, m, claimedBy[m], leaseExpires[m], 0, None))
    /\ UNCHANGED <<now, row, issued, sweep>>

\* The claim columns read earlier allow a claim: nobody held the message, or
\* the lease read then has run out and no acknowledgement is on record now.
\* A plain claim by the holder itself is answered without a write.
MayProceed(r) ==
    \/ r.prev = None
    \/ /\ r.op = "claim" => r.prev # r.actor
       /\ r.until # None /\ r.until <= now
       /\ ~Acked(r.msg)

ClaimDecide(t) ==
    /\ At(t, {"claim", "lease"}, "decide")
    /\ req' = [req EXCEPT ![t] =
                 IF MayProceed(req[t])
                 THEN Pending(req[t].op, "write", req[t].actor, req[t].msg,
                              req[t].prev, None, now, None)
                 ELSE Idle]
    /\ UNCHANGED <<now, row, issued, sweep>>

\* Without its WHERE clause on the claim columns (a mutant of CasHolds).
CasUnguarded(m, at) == m \in live

\* The WHERE clause of the UPDATE.
CasHolds(m, at) ==
    /\ m \in live
    /\ claimedBy[m] = None \/ LeaseLapsed(m, at)

\* With the key column forgotten (a mutant of TakeClaim).
TakeClaimKeyless(r, k, e) ==
    /\ claimedBy' = [claimedBy EXCEPT ![r.msg] = r.actor]
    /\ leaseToken' = [leaseToken EXCEPT ![r.msg] = k]
    /\ leaseExpires' = [leaseExpires EXCEPT ![r.msg] = e]
    /\ lastClaim' = [lastClaim EXCEPT ![r.msg] = r.actor]
    /\ UNCHANGED <<live, acks, claimedByKey>>

\* The UPDATE and the 'claim' event of one transaction.
TakeClaim(r, k, e) ==
    /\ claimedBy' = [claimedBy EXCEPT ![r.msg] = r.actor]
    /\ claimedByKey' = [claimedByKey EXCEPT ![r.msg] = r.actor]
    /\ leaseToken' = [leaseToken EXCEPT ![r.msg] = k]
    /\ leaseExpires' = [leaseExpires EXCEPT ![r.msg] = e]
    /\ lastClaim' = [lastClaim EXCEPT ![r.msg] = r.actor]
    /\ UNCHANGED <<live, acks>>

ClaimWrite(t) ==
    LET r == req[t] IN
    /\ At(t, {"claim"}, "write")
    /\ Finish(t)
    /\ IF CasHolds(r.msg, r.at) THEN TakeClaim(r, None, None) ELSE UNCHANGED row
    /\ UNCHANGED <<now, issued, sweep>>

\* The token is generated before the UPDATE, whether or not it is used.
LeaseWrite(t) ==
    LET r == req[t] IN
    /\ At(t, {"lease"}, "write")
    /\ Finish(t)
    /\ \E k \in Tokens \ issued :
         /\ issued' = issued \cup {k}
         /\ IF CasHolds(r.msg, r.at)
            THEN \E s \in LeaseSeconds : TakeClaim(r, k, r.at + s)
            ELSE UNCHANGED row
    /\ UNCHANGED <<now, sweep>>

-----------------------------------------------------------------------------
(* release_message.                                                        *)

ReleaseRead(t, a, m) ==
    /\ Readable(m)
    /\ claimedBy[m] = a
    /\ Start(t, Pending("release", "write", a, m, None, None, 0, None))
    /\ UNCHANGED <<now, row, issued, sweep>>

\* UPDATE ... WHERE id = ?: the holder is not compared again, and the lease
\* columns keep their values.
ReleaseWrite(t) ==
    LET m == req[t].msg IN
    /\ At(t, {"release"}, "write")
    /\ Finish(t)
    /\ claimedBy' = [claimedBy EXCEPT ![m] = None]
    /\ claimedByKey' = [claimedByKey EXCEPT ![m] = None]
    /\ UNCHANGED <<now, live, leaseToken, leaseExpires, acks, lastClaim,
                   issued, sweep>>

-----------------------------------------------------------------------------
(* ack_message: any actor may acknowledge, holder or not, in any mode.     *)

AckRead(t, a, m) ==
    /\ Readable(m)
    /\ acks[m][a] = 0
    /\ Start(t, Pending("ack", "write", a, m, None, None, 0, None))
    /\ UNCHANGED <<now, row, issued, sweep>>

\* The INSERT fails on its foreign key when the message has gone.
AckWrite(t) ==
    LET r == req[t] IN
    /\ At(t, {"ack"}, "write")
    /\ Finish(t)
    /\ acks' = IF r.msg \in live
               THEN [acks EXCEPT ![r.msg][r.actor] = @ + 1]
               ELSE acks
    /\ UNCHANGED <<now, live, claimedBy, claimedByKey, leaseToken,
                   leaseExpires, lastClaim, issued, sweep>>

-----------------------------------------------------------------------------
(* heartbeat_lease: whoever presents the token extends the lease.          *)

HeartbeatRead(t, k) ==
    /\ \E m \in live :
         leaseToken[m] = k /\ leaseExpires[m] # None /\ leaseExpires[m] > now
    /\ Start(t, Pending("heartbeat", "write", None, None, None, None, now, k))
    /\ UNCHANGED <<now, row, issued, sweep>>

HeartbeatWrite(t) ==
    LET r == req[t] IN
    /\ At(t, {"heartbeat"}, "write")
    /\ Finish(t)
    /\ \E s \in LeaseSeconds :
         leaseExpires' = [m \in Messages |->
             IF leaseToken[m] = r.token THEN r.at + s ELSE leaseExpires[m]]
    /\ UNCHANGED <<now, live, claimedBy, claimedByKey, leaseToken, acks,
                   lastClaim, issued, sweep>>

-----------------------------------------------------------------------------
(* delete_message: a retraction, expired or not, of an unclaimed message.  *)

DeleteRead(t, m) ==
    /\ m \in live
    /\ claimedBy[m] = None
    /\ Start(t, Pending("delete", "write", None, m, None, None, 0, None))
    /\ UNCHANGED <<now, row, issued, sweep>>

DeleteWrite(t) ==
    /\ At(t, {"delete"}, "write")
    /\ Finish(t)
    /\ RemoveRows({req[t].msg})
    /\ ReturnToPool({req[t].msg})
    /\ UNCHANGED <<now, issued, sweep>>

-----------------------------------------------------------------------------
(* The worker: reclaim_expired_leases and the lease and message part of    *)
(* _archive_cleanup_transaction.                                           *)

\* The rows a sweep selects.
Reclaimable(t) ==
    {m \in live : claimedBy[m] # None /\ LeaseLapsed(m, t) /\ ~Acked(m)}

SweepSelect ==
    /\ ~sweep.busy
    /\ sweep' = [busy |-> TRUE, rows |-> Reclaimable(now), at |-> now]
    /\ UNCHANGED <<now, row, issued, req>>

\* With the comparison the wrong way round (a mutant of SweepClears).
SweepClearsLive == {m \in sweep.rows : leaseExpires[m] # None /\ leaseExpires[m] > sweep.at}

\* Clearing every selected row unseen (a mutant of SweepClears).
SweepClearsBlindly == sweep.rows

\* Each UPDATE compares the lease again, with the time of the SELECT.
SweepClears == {m \in sweep.rows : LeaseLapsed(m, sweep.at)}

SweepWrite ==
    /\ sweep.busy
    /\ ReturnToPool(SweepClears)
    /\ sweep' = NoPass
    /\ UNCHANGED <<now, live, acks, lastClaim, issued, req>>

(* A cleanup run takes its `now` first and, once it has the write lock,    *)
(* uses it in every statement of one transaction.  Nothing else it read    *)
(* matters to these rows, so the time it carries is any time so far.       *)

\* The lease UPDATE checks the acknowledgements itself and, unlike the
\* sweep, leaves claimed_by_key_id alone; the DELETE takes the expired rows.
CleanupReleases(at) ==
    {m \in live : leaseToken[m] # None /\ LeaseLapsed(m, at) /\ ~Acked(m)}
CleanupPurges(at) == {m \in live : Expired(m, at)}

Cleanup ==
    \E at \in 0..now :
        LET purged == CleanupPurges(at)
            freed == CleanupReleases(at) \cup purged
        IN  /\ claimedBy' = Blank(claimedBy, freed)
            /\ claimedByKey' = Blank(claimedByKey, purged)
            /\ leaseToken' = Blank(leaseToken, freed)
            /\ leaseExpires' = Blank(leaseExpires, freed)
            /\ RemoveRows(purged)
            /\ UNCHANGED <<now, issued, req, sweep>>

-----------------------------------------------------------------------------
(* The rest of the system, as these rows see it.                           *)

\* The ring-buffer DELETE of create_message: the oldest row of the channel
\* goes, claimed or not.
Trim(m) ==
    /\ m \in live
    /\ RemoveRows({m})
    /\ ReturnToPool({m})
    /\ UNCHANGED <<now, issued, req, sweep>>

\* delete_channel: all rows of the channel go (ON DELETE CASCADE).
DeleteChannel ==
    /\ live # {}
    /\ RemoveRows(live)
    /\ ReturnToPool(live)
    /\ UNCHANGED <<now, issued, req, sweep>>

\* A handler that dies before its commit (the server is killed, the write
\* lock is not had within the busy timeout) is rolled back.
Abort(t) ==
    /\ req[t] # Idle
    /\ Finish(t)
    /\ UNCHANGED <<now, row, issued, sweep>>

AbortSweep ==
    /\ sweep.busy
    /\ sweep' = NoPass
    /\ UNCHANGED <<now, row, issued, req>>

Tick ==
    /\ now < Horizon
    /\ now' = now + 1
    /\ UNCHANGED <<row, issued, req, sweep>>

NewCall(t) ==
    \/ \E a \in Actors, m \in Messages :
         \/ \E op \in {"claim", "lease"} : ClaimRead(t, op, a, m)
         \/ ReleaseRead(t, a, m)
         \/ AckRead(t, a, m)
    \/ \E k \in issued : HeartbeatRead(t, k)
    \/ \E m \in Messages : DeleteRead(t, m)

Step(t) ==
    \/ NewCall(t)
    \/ ClaimDecide(t)
    \/ ClaimWrite(t)
    \/ LeaseWrite(t)
    \/ ReleaseWrite(t)
    \/ AckWrite(t)
    \/ HeartbeatWrite(t)
    \/ DeleteWrite(t)
    \/ Abort(t)

Worker ==
    \/ SweepSelect \/ SweepWrite \/ AbortSweep
    \/ Cleanup

Next ==
    \/ \E t \in Threads : Step(t)
    \/ Worker
    \/ \E m \in Messages : Trim(m)
    \/ DeleteChannel
    \/ Tick

Spec == Init /\ [][Next]_vars

\* The worker loop runs a sweep every --lease-interval seconds and keeps
\* going after one that failed; the clock runs.
FairSpec == Spec /\ WF_vars(Tick) /\ WF_vars(SweepSelect) /\ SF_vars(SweepWrite)
-----------------------------------------------------------------------------
(* Properties.                                                             *)

Held(m) == claimedBy[m] # None

\* A request of one of ops on m is in its write step now and ends with it.
Writing(m, ops) ==
    \E t \in Threads : At(t, ops, "write") /\ req[t].msg = m /\ req'[t] = Idle

\* The columns of a claim row fit together: a holder is recorded with the key
\* it called with, a token comes with an expiry, and a row that is gone keeps
\* no claim.  Five UPDATEs write different subsets of these columns.
ClaimRowConsistent ==
    \A m \in Messages :
        /\ Held(m) => claimedByKey[m] = claimedBy[m]
        /\ leaseToken[m] = None <=> leaseExpires[m] = None
        /\ m \notin live => ~Held(m) /\ leaseToken[m] = None

\* heartbeat_lease addresses a row by its token alone, so no two rows may
\* carry the same token, and none a token that was never handed out.
TokenOnOneRow ==
    \A m, n \in Messages :
        leaseToken[m] # None =>
            /\ leaseToken[m] \in issued
            /\ leaseToken[m] = leaseToken[n] => m = n

\* Whoever holds a message is named by its newest 'claim' event, through
\* takeovers, releases, sweeps and re-claims: the audit trail and the row
\* are written in one transaction.
HolderHasClaimEvent == \A m \in Messages : Held(m) => lastClaim[m] = claimedBy[m]

\* A claim that has not lapsed ends only in a release of that message; the
\* message may also leave the table.  No claim, sweep or cleanup, however old
\* the rows it read, takes over or clears a plain claim or a live lease.
ClaimHeldUntilLapse ==
    [][\A m \in Messages :
         (Held(m) /\ ~LeaseLapsed(m, now) /\ m \in live' /\ claimedBy'[m] # claimedBy[m])
            => claimedBy'[m] = None /\ Writing(m, {"release"})]_vars

\* The rows implement the abstract ownership of WorkOwnership: one owner at a
\* time, handed over or collected only when its term has run out, and a lease
\* token that was detached is dead for good.  Requests that only read, lose
\* the race or fail are stuttering steps of it.
Ownership ==
    INSTANCE WorkOwnership WITH
        Fences <- Tokens,
        Terms <- {t + s : t \in 0..Horizon, s \in LeaseSeconds},
        clock <- now, present <- live, owner <- claimedBy,
        term <- leaseExpires, fence <- leaseToken, spent <- issued
ImplementsOwnership == Ownership!Spec

\* The worker's sweep frees every message left behind: whenever a lease has
\* lapsed on a message nobody acknowledged, the message returns to the pool,
\* is taken over, acknowledged or revived, or expires.
LapsedLeaseIsCollected ==
    \A m \in Messages :
        (m \in Reclaimable(now)) ~> (m \notin Reclaimable(now))

-----------------------------------------------------------------------------
(* What the documents and tests say, and the code does not do.             *)

\* "A different actor may only take over a claim whose lease has expired and
\* was never acked" (claim_message), "acked_message_is_never_reclaimed"
\* (tests/test_lease_reclaim.py): an acknowledged claim ends with a release.
AckedNeverTakenAway ==
    [][\A m \in Messages :
         (Held(m) /\ Acked(m) /\ m \in live' /\ claimedBy'[m] # claimedBy[m])
            => Writing(m, {"release"})]_vars

\* "Only the claiming actor can release this message" (release_message).
ReleasedByItsHolder ==
    [][\A m \in Messages :
         (Held(m) /\ Writing(m, {"release"}) /\ claimedBy'[m] = None)
            => \E t \in Threads : At(t, {"release"}, "write") /\ req'[t] = Idle
                                   /\ req[t].actor = claimedBy[m]]_vars

\* "Heartbeats on an expired/cleared lease return 404" (docs/reliability.md):
\* a heartbeat that extends a lease extends that of a claim.
HeartbeatOnHeldLease ==
    [][\A m \in Messages :
         (leaseToken'[m] = leaseToken[m] /\ leaseExpires'[m] # leaseExpires[m])
            => Held(m)]_vars
=============================================================================
