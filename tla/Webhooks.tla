------------------------------ MODULE Webhooks ------------------------------
(***************************************************************************)
(* The table pending_webhooks: queue_webhook, which create_message, the    *)
(* mention dispatch and the approval of an access request call once per    *)
(* event; deliver_pending_webhooks, which the worker calls once per turn   *)
(* of its loop; and the purge of old rows, part of every cleanup run, be   *)
(* it the worker's, the server's or that of the command line.              *)
(*                                                                         *)
(* A round selects the due rows and closes its connection; then, for each  *)
(* row, it POSTs and records the outcome in a transaction of its own.  All *)
(* of it uses the time at which the round began.  The worker may die, or   *)
(* an UPDATE may fail, at any point: the rest of the round is abandoned.   *)
(***************************************************************************)
EXTENDS Integers, FiniteSets

CONSTANTS
    Hooks,          \* the events that are going to be queued
    Malformed,      \* those whose webhook_url urllib refuses to parse
    MaxAttempts,    \* 5
    Limit,          \* 50, the rows of one round
    BackoffBase,    \* 30 seconds, in clock ticks
    BackoffCap,     \* 300 seconds
    Week,           \* 7 * 86400 seconds
    Horizon,        \* bound: the clock stops here
    MaxLost,        \* bound: POSTs of an event that die unrecorded
    None            \* SQL NULL

ASSUME WebhooksAssumption ==
    /\ Malformed \subseteq Hooks
    /\ MaxAttempts \in Nat \ {0}
    /\ Limit \in Nat \ {0}
    /\ BackoffBase \in Nat \ {0}
    /\ BackoffCap \in Nat \ {0}
    /\ Week \in Nat
    /\ None \notin Hooks \cup Nat

VARIABLES
    now,            \* the clock
    queued,         \* the events queue_webhook has been called for
    present,        \* those that have a row
    attempts, due, deliveredAt, createdAt,  \* its columns; due is next_attempt_at
    round,          \* deliver_pending_webhooks in progress
    posts,          \* POSTs sent for each event
    accepted,       \* POSTs answered with a status below 300
    lost            \* POSTs whose outcome was never recorded

columns == <<attempts, due, deliveredAt, createdAt>>
table == <<queued, present, columns>>
endpoints == <<posts, accepted, lost>>
vars == <<now, table, round, endpoints>>

\* What a round remembers: its time, the rows still to be handled with the
\* attempts it read, the row whose POST is out, and its answer.
Round ==
    [busy: BOOLEAN, at: Nat, todo: SUBSET Hooks, tries: [Hooks -> Nat],
     sent: Hooks \cup {None}, ok: BOOLEAN]
NoRound ==
    [busy |-> FALSE, at |-> 0, todo |-> {}, tries |-> [h \in Hooks |-> 0],
     sent |-> None, ok |-> FALSE]

TypeOK ==
    /\ now \in Nat
    /\ present \subseteq queued
    /\ queued \subseteq Hooks
    /\ attempts \in [Hooks -> 0..MaxAttempts]
    /\ due \in [Hooks -> Int]
    /\ deliveredAt \in [Hooks -> Nat \cup {None}]
    /\ createdAt \in [Hooks -> Nat]
    /\ round \in Round
    /\ posts \in [Hooks -> Nat]
    /\ accepted \in [Hooks -> Nat]
    /\ lost \in [Hooks -> Nat]

Init ==
    /\ now = 0
    /\ queued = {}
    /\ present = {}
    /\ attempts = [h \in Hooks |-> 0]
    /\ due = [h \in Hooks |-> 0]
    /\ deliveredAt = [h \in Hooks |-> None]
    /\ createdAt = [h \in Hooks |-> 0]
    /\ round = NoRound
    /\ posts = [h \in Hooks |-> 0]
    /\ accepted = [h \in Hooks |-> 0]
    /\ lost = [h \in Hooks |-> 0]

-----------------------------------------------------------------------------
(* queue_webhook.                                                          *)

Queue(h) ==
    /\ h \notin queued
    /\ queued' = queued \cup {h}
    /\ present' = present \cup {h}
    /\ due' = [due EXCEPT ![h] = now]
    /\ createdAt' = [createdAt EXCEPT ![h] = now]
    /\ UNCHANGED <<now, attempts, deliveredAt, round, endpoints>>

-----------------------------------------------------------------------------
(* deliver_pending_webhooks.                                               *)

\* min(300, 30 * 2 ** n)
Backoff(n) ==
    IF BackoffBase * 2^n <= BackoffCap THEN BackoffBase * 2^n ELSE BackoffCap

\* With delivered rows (a mutant of DueRows).
DueRowsAgain == {h \in present : attempts[h] < MaxAttempts /\ due[h] <= now}

DueRows ==
    {h \in present :
        deliveredAt[h] = None /\ attempts[h] < MaxAttempts /\ due[h] <= now}

\* The newest rows first (a mutant of FirstDue).
LastDue ==
    {S \in SUBSET DueRows :
        /\ Cardinality(S) <= Limit
        /\ Cardinality(S) = Limit \/ S = DueRows
        /\ \A h \in S, g \in DueRows \ S : due[h] >= due[g]}

\* ORDER BY next_attempt_at ASC LIMIT 50.
FirstDue ==
    {S \in SUBSET DueRows :
        /\ Cardinality(S) <= Limit
        /\ Cardinality(S) = Limit \/ S = DueRows
        /\ \A h \in S, g \in DueRows \ S : due[h] <= due[g]}

Select ==
    /\ ~round.busy
    /\ DueRows # {}
    /\ \E S \in FirstDue :
         round' = [busy |-> TRUE, at |-> now, todo |-> S, tries |-> attempts,
                   sent |-> None, ok |-> FALSE]
    /\ UNCHANGED <<now, table, endpoints>>

\* The rows of a round are taken in the order of the query.
IsNext(h) ==
    /\ round.busy /\ round.sent = None
    /\ h \in round.todo
    /\ \A g \in round.todo : due[h] <= due[g]

\* The POST, and its answer: success, or anything else.
Send(h, ok) ==
    /\ IsNext(h)
    /\ h \notin Malformed
    /\ round' = [round EXCEPT !.sent = h, !.ok = ok]
    /\ posts' = [posts EXCEPT ![h] = @ + 1]
    /\ accepted' = IF ok THEN [accepted EXCEPT ![h] = @ + 1] ELSE accepted
    /\ UNCHANGED <<now, table, lost>>

\* The request object is built outside the `try`: its ValueError ends the
\* round and leaves the row as it was.
Raise(h) ==
    /\ IsNext(h)
    /\ h \in Malformed
    /\ round' = NoRound
    /\ UNCHANGED <<now, table, endpoints>>

AfterRecord(h) ==
    IF round.todo = {h}
    THEN NoRound
    ELSE [round EXCEPT !.todo = @ \ {h}, !.sent = None, !.ok = FALSE]

Counted(h) == round.tries[h] + 1

\* An outcome that leaves the count to the failures (a mutant of Record).
RecordFailures(h) ==
    /\ round.busy /\ round.sent = h
    /\ round' = AfterRecord(h)
    /\ IF round.ok
       THEN deliveredAt' = [deliveredAt EXCEPT ![h] = round.at] /\ UNCHANGED <<attempts, due>>
       ELSE /\ attempts' = [attempts EXCEPT ![h] = round.tries[h] + 1]
            /\ due' = [due EXCEPT ![h] = round.at + Backoff(round.tries[h] + 1)]
            /\ UNCHANGED deliveredAt
    /\ UNCHANGED <<now, queued, present, createdAt, endpoints>>

\* The UPDATE; it finds no row when the row has gone.
Record(h) ==
    /\ round.busy /\ round.sent = h
    /\ round' = AfterRecord(h)
    /\ IF h \in present
       THEN /\ attempts' = [attempts EXCEPT ![h] = Counted(h)]
            /\ IF round.ok
               THEN deliveredAt' = [deliveredAt EXCEPT ![h] = round.at] /\ due' = due
               ELSE /\ due' = [due EXCEPT ![h] = round.at + Backoff(Counted(h))]
                    /\ deliveredAt' = deliveredAt
       ELSE UNCHANGED <<attempts, due, deliveredAt>>
    /\ UNCHANGED <<now, queued, present, createdAt, endpoints>>

\* The worker dies, or an UPDATE raises, between two statements of a round.
Abandon ==
    /\ round.busy
    /\ round' = NoRound
    /\ \/ round.sent = None /\ lost' = lost
       \/ \E h \in Hooks :
            /\ round.sent = h
            /\ lost[h] < MaxLost
            /\ lost' = [lost EXCEPT ![h] = @ + 1]
    /\ UNCHANGED <<now, table, posts, accepted>>

-----------------------------------------------------------------------------
(* The purge of a cleanup run, in whatever process.                        *)

\* By age alone (a mutant of Purgeable).
PurgeableByAge == {h \in present : createdAt[h] < now - Week}

Purgeable ==
    {h \in present :
        \/ deliveredAt[h] # None /\ deliveredAt[h] < now - Week
        \/ attempts[h] >= MaxAttempts /\ createdAt[h] < now - Week}

Purge ==
    /\ Purgeable # {}
    /\ present' = present \ Purgeable
    /\ UNCHANGED <<now, queued, columns, round, endpoints>>

-----------------------------------------------------------------------------
Tick ==
    /\ now < Horizon
    /\ now' = now + 1
    /\ UNCHANGED <<table, round, endpoints>>

Next ==
    \/ \E h \in Hooks :
         \/ Queue(h)
         \/ \E ok \in BOOLEAN : Send(h, ok)
         \/ Raise(h)
         \/ Record(h)
    \/ Select \/ Abandon \/ Purge \/ Tick

Spec == Init /\ [][Next]_vars

\* The worker's loop begins a round every turn and survives one that failed;
\* a POST comes to its end (timeout=10); rounds are abandoned, but no event
\* meets its end every time it is tried.
FairSpec ==
    /\ Spec
    /\ WF_vars(Tick) /\ WF_vars(Select)
    /\ \A h \in Hooks :
         /\ WF_vars(Raise(h)) /\ SF_vars(Record(h))
         /\ SF_vars(\E ok \in BOOLEAN : Send(h, ok))

-----------------------------------------------------------------------------
(* Properties.                                                             *)

InFlight(h) == IF round.sent = h THEN 1 ELSE 0

\* The column attempts counts the POSTs of an event: it is short by exactly
\* those whose round was abandoned before its UPDATE, so that an endpoint
\* sees at most five of them and one more for each crash.
AttemptsCounted ==
    \A h \in Hooks : posts[h] = attempts[h] + lost[h] + InFlight(h)

\* An endpoint that answers with success is sent the event again only when a
\* round was abandoned before it could record the answer.
RepeatsOnlyAfterLoss == \A h \in Hooks : accepted[h] <= 1 + lost[h]

\* While a round is under way its rows stay in the table, undelivered, and
\* with the attempts it read, though every cleanup purges rows in between:
\* the UPDATE by id overwrites nothing.
RoundRowsWait ==
    \A h \in round.todo :
        h \in present /\ deliveredAt[h] = None /\ attempts[h] = round.tries[h]

\* What the queue owes an event, in the terms of WebhookPromise.
Settled(h) == deliveredAt[h] # None \/ attempts[h] >= MaxAttempts
Stage(h) ==
    CASE h \notin queued -> "unknown"
      [] h \in queued \ present -> "forgotten"
      [] h \in present /\ Settled(h) -> "settled"
      [] h \in present /\ ~Settled(h) -> "owed"
Promise ==
    INSTANCE WebhookPromise WITH
        clock <- now, since <- createdAt, tries <- posts,
        state <- [h \in Hooks |-> Stage(h)]

\* The queue keeps the promise of WebhookPromise: nothing is sent for an
\* event that was delivered or given up, one is settled only when its
\* endpoint took it or was tried MaxAttempts times, and its row is purged
\* only then and a week after.
KeepsPromise == Promise!Spec

\* A due event is served by a later round, whatever its endpoint answers and
\* however many rows precede it, unless a row that no round can get past is
\* in front of it.
Blocked(h) == \E b \in Malformed \cap present : due[b] <= due[h]
DueIsServed ==
    \A h \in Hooks : (h \in DueRows) ~> (h \notin DueRows \/ Blocked(h))

\* "Delivery is attempted on a background worker with exponential backoff.
\* Maximum 5 attempts per event" (docs/sla.md): an event that is due is tried,
\* delivered or given up, whatever the others are.
DueIsTried == \A h \in Hooks : (h \in DueRows) ~> (h \notin DueRows)
=============================================================================
