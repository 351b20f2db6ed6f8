----------------------------- MODULE Retention ------------------------------
(***************************************************************************)
(* The cleanup of one channel: expired messages and dead invitations are   *)
(* archived and purged, and archived messages are purged in turn when the  *)
(* channel's retention is over; retractions, which archive their message   *)
(* too; the life of the rows until then.                                   *)
(*                                                                         *)
(* A run inserts its row in audit_cleanup_runs, selects what has expired,  *)
(* and only then starts the transaction that archives what it selected and *)
(* deletes what has expired.  The worker and the command line (`cleanup`)  *)
(* may run at once, with each other and with the requests.                 *)
(* The purges of sessions, channel events, webhooks (Webhooks) and of the  *)
(* idempotency cache (Dispatch) in the same transaction are left out.      *)
(***************************************************************************)
EXTENDS Integers

CONSTANTS
    Messages,       \* the messages that are going to be posted
    Invitations,    \* the invitations of the channel
    Worker,         \* the cleaner that runs for ever
    Cleaners,       \* processes that run the cleanup, Worker among them
    Threads,        \* request threads that retract
    TTL,            \* ttl_seconds, in clock ticks
    Retentions,     \* values of retention_days, in clock ticks
    Default,        \* retention of a channel that is gone: 7 days, in clock ticks
    Horizon,        \* bound: the clock stops here
    None

ASSUME RetentionAssumption ==
    /\ Worker \in Cleaners
    /\ TTL \in Nat \ {0} /\ Default \in Nat \ {0}
    /\ Retentions \subseteq Nat \ {0} /\ Retentions # {}
    /\ None \notin Messages

VARIABLES
    now,            \* the clock
    channel,        \* its row: whether it exists, its retention
    message,        \* the rows of messages
    invitation,     \* the rows of channel_invitations
    history,        \* audit_messages, with their audit_message_events
    letters,        \* audit_channel_invitations
    run,            \* the cleaners, and the row of their last run
    retracting      \* the message each thread is retracting, read and unclaimed

vars == <<now, channel, message, invitation, history, letters, run, retracting>>

\* A message: its row; whether an ack is among its events; and (history) what
\* removed it and the stamp the remover took.
Message ==
    [row: {"none", "live", "retracted", "purged", "dropped"}, expires: Nat,
     acked: BOOLEAN, gone: Nat]
\* An archived message: who archived it, archived_at, and its events.
Archived == [msg: Messages, by: Cleaners \cup Threads, at: Nat, acked: BOOLEAN]
\* A cleaner's place, the row of its run, `now` and what it selected.
Run ==
    [at: {"idle", "begun", "selected"}, status: {"none", "running", "completed", "failed"},
     now: Nat, messages: SUBSET Messages, letters: SUBSET Invitations]

TypeOK ==
    /\ now \in Nat
    /\ channel \in [exists: BOOLEAN, retention: Retentions]
    /\ message \in [Messages -> Message]
    /\ invitation \in [Invitations -> [row: {"live", "revoked", "purged", "dropped"},
                                       expires: Nat, late: BOOLEAN]]
    /\ history \subseteq Archived
    /\ letters \subseteq Invitations
    /\ run \in [Cleaners -> Run]
    /\ retracting \in [Threads -> Messages \cup {None}]

Init ==
    /\ now = 0
    /\ channel \in [exists: {TRUE}, retention: Retentions]
    /\ message = [m \in Messages |->
         [row |-> "none", expires |-> 0, acked |-> FALSE, gone |-> 0]]
    /\ invitation = [i \in Invitations |-> [row |-> "live", expires |-> TTL, late |-> FALSE]]
    /\ history = {} /\ letters = {}
    /\ run = [c \in Cleaners |->
         [at |-> "idle", status |-> "none", now |-> 0, messages |-> {}, letters |-> {}]]
    /\ retracting = [t \in Threads |-> None]

Live == {m \in Messages : message[m].row = "live"}
Expired(t) == {m \in Live : message[m].expires <= t}
Dead(t) ==
    {i \in Invitations : \/ invitation[i].row = "revoked"
                         \/ invitation[i].row = "live" /\ invitation[i].expires <= t}

-----------------------------------------------------------------------------
(* archive_and_cleanup_expired_records.                                    *)

\* The row of the run, in a transaction of its own.
Begin(c) ==
    /\ run[c].at = "idle"
    /\ run' = [run EXCEPT ![c].at = "begun", ![c].status = "running", ![c].now = 0]
    /\ UNCHANGED <<now, channel, message, invitation, history, letters, retracting>>

\* The two SELECTs, before anything is locked.
Select(c) ==
    /\ run[c].at = "begun"
    /\ run' = [run EXCEPT ![c].at = "selected", ![c].now = now,
                          ![c].messages = Expired(now), ![c].letters = Dead(now)]
    /\ UNCHANGED <<now, channel, message, invitation, history, letters, retracting>>

Ended(c, status) ==
    run' = [run EXCEPT ![c].at = "idle", ![c].status = status,
                       ![c].messages = {}, ![c].letters = {}]

\* A message that is gone has lost its events with its row (ON DELETE CASCADE).
EventsOf(m) == message[m].row = "live" /\ message[m].acked

\* What was selected, its events as they are now.
ToArchive(c) ==
    {[msg |-> m, by |-> c, at |-> run[c].now, acked |-> EventsOf(m)] : m \in run[c].messages}

\* What has expired by the time of the write (a mutant of Purged).
PurgedByNow(c) == Expired(now)

\* expires_at < now (a mutant of Purged).
PurgedStrictly(c) == {m \in Live : message[m].expires < run[c].now}

\* WHERE expires_at <= now, with the `now` of the selection.
Purged(c) == Expired(run[c].now)

LettersArchived(c) == run[c].letters

Retention == IF channel.exists THEN channel.retention ELSE Default

\* The archived messages past their retention.
Over(r) == r.at + Retention <= now

\* The whole of _archive_cleanup_transaction and the 'completed' of its run.
Write(c) ==
    /\ run[c].at = "selected"
    /\ channel.exists \/ (run[c].messages = {} /\ run[c].letters = {})
    /\ history' = {r \in history \cup ToArchive(c) : ~Over(r)}
    /\ letters' = letters \cup LettersArchived(c)
    /\ message' = [m \in Messages |->
         IF m \in Purged(c)
         THEN [message[m] EXCEPT !.row = "purged", !.gone = run[c].now] ELSE message[m]]
    /\ invitation' = [i \in Invitations |->
         IF i \in Dead(run[c].now) THEN [invitation[i] EXCEPT !.row = "purged"]
         ELSE invitation[i]]
    /\ Ended(c, "completed")
    /\ UNCHANGED <<now, channel, retracting>>

\* The channel of a row it selected is gone, or the lock is not to be had: the
\* transaction is rolled back, and the run marked in another one.
Fail(c) ==
    /\ run[c].at = "selected"
    /\ Ended(c, "failed")
    /\ UNCHANGED <<now, channel, message, invitation, history, letters, retracting>>

\* The process is killed: the row of the run says 'running' until the next.
Crash(c) ==
    /\ run[c].at # "idle"
    /\ Ended(c, "running")
    /\ UNCHANGED <<now, channel, message, invitation, history, letters, retracting>>

-----------------------------------------------------------------------------
(* delete_message.                                                         *)

RetractRead(t, m) ==
    /\ retracting[t] = None
    /\ m \in Live
    /\ retracting' = [retracting EXCEPT ![t] = m]
    /\ UNCHANGED <<now, channel, message, invitation, history, letters, run>>

Kept(t) == {[msg |-> retracting[t], by |-> t, at |-> now, acked |-> FALSE]}

\* It archives the row it read, without its events, and deletes it if it is
\* still there: the archive has it twice if the cleanup was faster.
RetractWrite(t) ==
    LET m == retracting[t]
    IN /\ m # None
       /\ history' = history \cup Kept(t)
       /\ message' = IF m \in Live
                     THEN [message EXCEPT ![m].row = "retracted", ![m].gone = now]
                     ELSE message
       /\ retracting' = [retracting EXCEPT ![t] = None]
       /\ UNCHANGED <<now, channel, invitation, letters, run>>

RetractDies(t) ==
    /\ retracting[t] # None
    /\ retracting' = [retracting EXCEPT ![t] = None]
    /\ UNCHANGED <<now, channel, message, invitation, history, letters, run>>

-----------------------------------------------------------------------------
(* The rest of the world.                                                  *)

Post(m) ==
    /\ channel.exists /\ message[m].row = "none"
    /\ message' = [message EXCEPT ![m].row = "live", ![m].expires = now + TTL]
    /\ UNCHANGED <<now, channel, invitation, history, letters, run, retracting>>

\* ack_message; one that read the message before it expired may still write.
Ack(m) ==
    /\ m \in Live /\ ~message[m].acked
    /\ message' = [message EXCEPT ![m].acked = TRUE]
    /\ UNCHANGED <<now, channel, invitation, history, letters, run, retracting>>

\* The ring buffer of a post, which archives nothing.
Trim(m) ==
    /\ m \in Live
    /\ message' = [message EXCEPT ![m].row = "dropped"]
    /\ UNCHANGED <<now, channel, invitation, history, letters, run, retracting>>

\* revoke_channel_invitation.
Revoke(i) ==
    /\ invitation[i].row = "live"
    /\ invitation' = [invitation EXCEPT
         ![i].row = "revoked",
         ![i].late = \E c \in Cleaners : run[c].at = "selected" /\ i \notin run[c].letters]
    /\ UNCHANGED <<now, channel, message, history, letters, run, retracting>>

\* PATCH retention_days.
SetRetention(days) ==
    /\ channel.exists /\ days # channel.retention
    /\ channel' = [channel EXCEPT !.retention = days]
    /\ UNCHANGED <<now, message, invitation, history, letters, run, retracting>>

\* ON DELETE CASCADE; the archive has no foreign key to the channel.
DeleteChannel ==
    /\ channel.exists
    /\ channel' = [channel EXCEPT !.exists = FALSE]
    /\ message' = [m \in Messages |->
         IF m \in Live THEN [message[m] EXCEPT !.row = "dropped"] ELSE message[m]]
    /\ invitation' = [i \in Invitations |->
         IF invitation[i].row = "purged" THEN invitation[i]
         ELSE [invitation[i] EXCEPT !.row = "dropped"]]
    /\ UNCHANGED <<now, history, letters, run, retracting>>

Tick ==
    /\ now < Horizon
    /\ now' = now + 1
    /\ UNCHANGED <<channel, message, invitation, history, letters, run, retracting>>

Clean(c) == Begin(c) \/ Select(c) \/ Write(c) \/ Fail(c) \/ Crash(c)

Next ==
    \/ \E c \in Cleaners : Clean(c)
    \/ \E t \in Threads : RetractWrite(t) \/ RetractDies(t) \/ \E m \in Messages : RetractRead(t, m)
    \/ \E m \in Messages : Post(m) \/ Ack(m) \/ Trim(m)
    \/ \E i \in Invitations : Revoke(i)
    \/ \E days \in Retentions : SetRetention(days)
    \/ DeleteChannel \/ Tick

Spec == Init /\ [][Next]_vars

\* The worker loops, and not every run of it is killed or finds the database
\* locked for longer than the busy time-out.
FairSpec ==
    /\ Spec
    /\ WF_vars(Begin(Worker)) /\ SF_vars(Select(Worker)) /\ SF_vars(Write(Worker))

-----------------------------------------------------------------------------
(* Properties.                                                             *)

\* "Rows live in audit_messages until the cleanup worker purges them past the
\* channel's retention_days window" (store.py:1306): what a retraction or a
\* cleanup removed is in the archive as long as no retention is over, and if
\* a cleanup removed it, with its acknowledgement.  This must hold over
\* concurrent runs, retractions, changes of the retention and the deletion of
\* the channel.
HistoryKept ==
    \A m \in Messages :
        /\ message[m].row \in {"retracted", "purged"}
        /\ \A days \in Retentions \cup {Default} : now < message[m].gone + days
        => \E r \in history :
             r.msg = m /\ (message[m].row = "purged" /\ message[m].acked => r.acked)

\* A run that says 'completed' has left no message that had expired when it
\* selected.
CompletedMeansPurged ==
    \A c \in Cleaners : run[c].status = "completed" => Expired(run[c].now) = {}

\* A purged invitation is in the archive, unless it was revoked between the
\* selection and the purge of a run.
InvitationsArchived ==
    \A i \in Invitations :
        invitation[i].row = "purged" => i \in letters \/ invitation[i].late

\* "Physically removing expired rows is a periodic maintenance operation"
\* (docs/reliability.md:24): an expired message does not stay for ever, though
\* runs fail and the worker is killed.
ExpiredIsPurged ==
    \A m \in Messages : m \in Expired(now) ~> m \notin Live
=============================================================================
