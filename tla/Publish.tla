------------------------------ MODULE Publish -------------------------------
(***************************************************************************)
(* Posting to one channel: create_message with its abuse controls, the     *)
(* webhook of the channel and the mention webhooks; the operators' kill    *)
(* switch and limits; the worker's heartbeat and its automatic pause.      *)
(*                                                                         *)
(* A post takes its time stamp and reads the channel row; counts the       *)
(* recent rows; inserts and trims in one transaction; reads its row again; *)
(* and then queues its events one transaction at a time.  Any other        *)
(* request may run between two of these steps, and the handler may die.    *)
(* Each member of Posts is one request.                                    *)
(***************************************************************************)
EXTENDS Integers, FiniteSets

CONSTANTS
    Posts,          \* the requests that are going to be made
    Beats,          \* those of them that are the worker's heartbeats
    Agents,         \* the actors a post may mention
    Keeps,          \* values of max_messages, for a channel that has the limit
    Rates,          \* values of max_writes_per_minute, of which one is the largest
    Minute,         \* 60 seconds, in clock ticks
    Quiet,          \* SANDBOX_HEARTBEAT_QUIET_SECONDS, in clock ticks
    Lanes,          \* bound: posts in flight at once
    Until,        \* bound: the clock stops here
    Hook,           \* whether the channel was created with a webhook_url
    Null            \* SQL NULL

ASSUME PublishAssumption ==
    /\ Beats \subseteq Posts
    /\ Keeps \subseteq Nat \ {0} /\ Keeps # {}
    /\ Rates \subseteq Nat \ {0} /\ \E r \in Rates : \A s \in Rates : r >= s
    /\ Minute \in Nat \ {0} /\ Quiet \in Nat /\ Lanes \in Nat \ {0}
    /\ Hook \in BOOLEAN /\ Null \notin Nat

VARIABLES
    time,            \* the clock
    channel,        \* its row: paused, keep (max_messages), rate
    rows,           \* its messages
    inserted,       \* how many messages were ever inserted
    trimmed,        \* (history) the places of those the ring buffer discarded
    posted,         \* (history) every row that was ever inserted
    escaped,        \* (history) created_at of those that were retracted, or
                    \* discarded by a buffer that is too small
    post,           \* the handlers
    lastSent,       \* mention_rate
    announced,      \* the posts queue_webhook was called for
    pushed,         \* the mentions it was called for
    tripped,        \* the worker's auto_tripped
    slipped         \* (history) posts inserted since the channel was paused

messages == <<rows, inserted, trimmed, posted, escaped>>
database == <<channel, messages, lastSent, announced, pushed>>
publishVars == <<time, database, post, tripped, slipped>>

Steps ==
    {"idle", "quiet", "begun", "allowed", "stored", "answered", "mentions", "marking",
     "pushing", "done", "gone", "failed"}
Dispatch == {"mentions", "marking", "pushing", "done", "failed"}
UnderWay == {m \in Posts : post[m].at \notin {"idle", "done", "gone", "failed"}}

\* A handler's locals: the limits it read, the agents it recorded as mentioned
\* and has yet to notify, the one it is notifying, the clock of its dispatch,
\* and (history) the mentions that had been pushed when that began.
Handler ==
    [at: Steps, stamp: Nat, keep: Keeps \cup {Null}, rate: Rates \cup {Null},
     todo: SUBSET Agents, agent: Agents \cup {Null}, clock: Nat, seen: SUBSET (Posts \X Agents)]
At(step) ==
    [at |-> step, stamp |-> 0, keep |-> Null, rate |-> Null, todo |-> {},
     agent |-> Null, clock |-> 0, seen |-> {}]

\* A row: the post, created_at, and its rowid, the place among all insertions.
Row == [post: Posts, at: Nat, nth: Nat]

\* The largest limit, and the posts that may pass the count beside the one
\* that takes the last place.
MaxRate == CHOOSE r \in Rates : \A s \in Rates : r >= s
Ceiling == MaxRate + Lanes - 1

PublishTypeOK ==
    /\ time \in Nat
    /\ channel \in [paused: BOOLEAN, keep: Keeps, rate: Rates]
    /\ inserted \in Nat
    /\ rows \subseteq Row /\ \A r \in rows : r.nth \in 1..inserted
    /\ trimmed \subseteq 1..inserted
    /\ posted \subseteq Row /\ escaped \subseteq Nat
    /\ post \in [Posts -> Handler]
    /\ lastSent \in [Agents -> Nat \cup {Null}]
    /\ announced \subseteq Posts
    /\ pushed \subseteq [post: Posts, agent: Agents, clock: Nat, seen: SUBSET (Posts \X Agents)]
    /\ tripped \in BOOLEAN /\ slipped \in Nat

PublishInit ==
    /\ time = 0
    /\ channel \in [paused: {FALSE}, keep: Keeps, rate: Rates]
    /\ post = [m \in Posts |-> At("idle")]
    /\ rows = {} /\ inserted = 0 /\ trimmed = {}
    /\ posted = {} /\ escaped = {}
    /\ lastSent = [a \in Agents |-> Null]
    /\ announced = {} /\ pushed = {}
    /\ tripped = FALSE /\ slipped = 0

-----------------------------------------------------------------------------
(* create_message.                                                         *)

MayBegin(m) ==
    IF m \in Beats THEN post[m].at = "quiet"
    ELSE post[m].at = "idle" /\ Cardinality(UnderWay) < Lanes

\* Without the kill switch (a mutant of Begin).
BeginUnswitched(m) ==
    /\ MayBegin(m)
    /\ post' = [post EXCEPT ![m] =
         [At("begun") EXCEPT !.stamp = time, !.keep = channel.keep, !.rate = channel.rate]]
    /\ UNCHANGED <<time, database, tripped, slipped>>

\* The time stamp, and _resolve_channel.  A paused channel answers 503.
Begin(m) ==
    /\ MayBegin(m)
    /\ ~channel.paused
    /\ post' = [post EXCEPT ![m] =
         [At("begun") EXCEPT !.stamp = time, !.keep = channel.keep, !.rate = channel.rate]]
    /\ UNCHANGED <<time, database, tripped, slipped>>

\* A heartbeat was due but the channel has since been paused.
BeginPaused(m) ==
    /\ post[m].at = "quiet" /\ channel.paused
    /\ post' = [post EXCEPT ![m] = At("failed")]
    /\ UNCHANGED <<time, database, tripped, slipped>>

\* COUNT(*) over the last minute before the stamp.
Recent(m) == {r \in rows : r.at > post[m].stamp - Minute}

\* One more than the limit (a mutant of Allowed).
AllowedOneMore(m) == Cardinality(Recent(m)) <= post[m].rate

Allowed(m) == Cardinality(Recent(m)) < post[m].rate

\* The count, then the mentions that may read the channel.
Count(m) ==
    /\ post[m].at = "begun"
    /\ IF Allowed(m)
       THEN \E M \in SUBSET Agents :
              /\ m \in Beats => M = {}
              /\ post' = [post EXCEPT ![m].at = "allowed", ![m].todo = M]
       ELSE post' = [post EXCEPT ![m] = At("failed")]
    /\ UNCHANGED <<time, database, tripped, slipped>>

\* In the order of created_at (a mutant of Excess).
ExcessByStamp(all, keep) ==
    {r \in all : Cardinality({x \in all : x.at >= r.at}) > keep}

\* WHERE rowid NOT IN (SELECT rowid ... ORDER BY rowid DESC LIMIT keep).
Excess(all, keep) ==
    {r \in all : Cardinality({x \in all : x.nth >= r.nth}) > keep}

Place == inserted + 1

\* INSERT, ring-buffer DELETE and commit.  The limit is the one it read; it
\* is too small when it cannot hold what the write limit lets in of a minute.
Insert(m) ==
    LET row == [post |-> m, at |-> post[m].stamp, nth |-> Place]
        all == rows \cup {row}
        out == Excess(all, post[m].keep)
    IN /\ post[m].at = "allowed"
       /\ rows' = all \ out
       /\ inserted' = Place
       /\ trimmed' = trimmed \cup {r.nth : r \in out}
       /\ posted' = posted \cup {row}
       /\ escaped' = escaped \cup {r.at : r \in IF post[m].keep < Ceiling THEN out ELSE {}}
       /\ slipped' = IF channel.paused THEN slipped + 1 ELSE slipped
       /\ post' = [post EXCEPT ![m] = [At("stored") EXCEPT !.todo = post[m].todo]]
       /\ UNCHANGED <<time, channel, lastSent, announced, pushed, tripped>>

\* The newest row, not the one of this post (a mutant of Present).
PresentAsNewest(m) == \E r \in rows : r.post = m /\ r.nth = inserted

Present(m) == \E r \in rows : r.post = m

\* _get_message again: 404, and no event, when the row has gone meanwhile.
Reread(m) ==
    /\ post[m].at = "stored"
    /\ IF Present(m)
       THEN post' = [post EXCEPT ![m].at = "answered"]
       ELSE post' = [post EXCEPT ![m] = At("gone")]
    /\ UNCHANGED <<time, database, tripped, slipped>>

\* The mentions pushed so far.
Notified == {<<e.post, e.agent>> : e \in pushed}

\* The dispatch that is left when these agents have not been considered.
Remaining(todo, clock, seen) ==
    IF todo = {} THEN At("done")
    ELSE [At("mentions") EXCEPT !.todo = todo, !.clock = clock, !.seen = seen]

Announced(m) == IF Hook THEN announced \cup {m} ELSE announced

\* queue_webhook for the channel, if it has a webhook; then the clock of
\* _dispatch_mention_webhooks.
Announce(m) ==
    /\ post[m].at = "answered"
    /\ announced' = Announced(m)
    /\ post' = [post EXCEPT ![m] = Remaining(post[m].todo, time, Notified)]
    /\ UNCHANGED <<time, channel, messages, lastSent, pushed, tripped, slipped>>

-----------------------------------------------------------------------------
(* _dispatch_mention_webhooks.                                             *)

\* Whatever the age of the last one (a mutant of Free).
FreeAlways(m, a) == TRUE

\* No mention of this agent in the minute before the dispatch began.
Free(m, a) == lastSent[a] = Null \/ lastSent[a] <= post[m].clock - Minute

Rest(m, a) == Remaining(post[m].todo \ {a}, post[m].clock, post[m].seen)

\* The two SELECTs.  Webhooks of agents come and go at any time, so the first
\* finds one or none; none, or a mention within the minute, ends it here.
Consider(m, a) ==
    /\ post[m].at = "mentions" /\ a \in post[m].todo
    /\ \E registered \in BOOLEAN :
         IF registered /\ Free(m, a)
         THEN post' = [post EXCEPT ![m].at = "marking", ![m].agent = a]
         ELSE post' = [post EXCEPT ![m] = Rest(m, a)]
    /\ UNCHANGED <<time, database, tripped, slipped>>

\* The UPSERT of mention_rate, committed before the event is queued.
Mark(m) ==
    /\ post[m].at = "marking"
    /\ lastSent' = [lastSent EXCEPT ![post[m].agent] = post[m].clock]
    /\ post' = [post EXCEPT ![m].at = "pushing"]
    /\ UNCHANGED <<time, channel, messages, announced, pushed, tripped, slipped>>

Push(m) ==
    LET a == post[m].agent
    IN /\ post[m].at = "pushing"
       /\ pushed' = pushed \cup {[post |-> m, agent |-> a, clock |-> post[m].clock,
                                seen |-> post[m].seen]}
       /\ post' = [post EXCEPT ![m] = Rest(m, a)]
       /\ UNCHANGED <<time, channel, messages, lastSent, announced, tripped, slipped>>

\* The handler dies between two of its transactions.
Die(m) ==
    /\ m \in UnderWay
    /\ post' = [post EXCEPT ![m] = At("failed")]
    /\ UNCHANGED <<time, database, tripped, slipped>>

-----------------------------------------------------------------------------
(* The worker: heartbeats, the automatic pause, a restart.                 *)

\* post_sandbox_heartbeat_if_quiet, up to its call of create_message.
Look(b) ==
    /\ b \in Beats /\ post[b].at = "idle"
    /\ Beats \cap UnderWay = {}
    /\ Cardinality(UnderWay) < Lanes
    /\ ~channel.paused
    /\ \A r \in rows : time - r.at >= Quiet
    /\ post' = [post EXCEPT ![b].at = "quiet"]
    /\ UNCHANGED <<time, database, tripped, slipped>>

Pause(b) ==
    /\ channel' = [channel EXCEPT !.paused = b]
    /\ slipped' = IF b /\ channel.paused THEN slipped ELSE 0

\* The database has outgrown its limit: once per worker process.
AutoTrip ==
    /\ ~tripped
    /\ tripped' = TRUE
    /\ Pause(TRUE)
    /\ UNCHANGED <<time, messages, lastSent, announced, pushed, post>>

\* set_channel_paused (the admin API), or a PATCH of the channel.
SetPaused(b) ==
    /\ channel.paused # b
    /\ Pause(b)
    /\ UNCHANGED <<time, messages, lastSent, announced, pushed, post, tripped>>

\* A PATCH of the limits.
SetLimits(k, r) ==
    /\ <<k, r>> # <<channel.keep, channel.rate>>
    /\ channel' = [channel EXCEPT !.keep = k, !.rate = r]
    /\ UNCHANGED <<time, messages, lastSent, announced, pushed, post, tripped, slipped>>

\* A new worker process: ensure_sandbox_channel applies the limits again and
\* leaves `paused` alone; what the process remembered is gone, and so is a
\* heartbeat it was posting.
Restart(k, r) ==
    /\ tripped' = FALSE
    /\ channel' = [channel EXCEPT !.keep = k, !.rate = r]
    /\ post' = [m \in Posts |->
         IF m \in Beats \cap UnderWay THEN At("failed") ELSE post[m]]
    /\ UNCHANGED <<time, messages, lastSent, announced, pushed, slipped>>

-----------------------------------------------------------------------------
(* The rest of the world.                                                  *)

\* A row is retracted, or expires and is cleaned up.
Vanish(m) ==
    /\ Present(m)
    /\ rows' = {r \in rows : r.post # m}
    /\ escaped' = escaped \cup {r.at : r \in rows \ rows'}
    /\ UNCHANGED <<time, channel, inserted, trimmed, posted, lastSent, announced, pushed,
                   post, tripped, slipped>>

Elapse ==
    /\ time < Until
    /\ time' = time + 1
    /\ UNCHANGED <<database, post, tripped, slipped>>

Handle(m) ==
    \/ Begin(m) \/ BeginPaused(m) \/ Count(m) \/ Insert(m) \/ Reread(m) \/ Announce(m)
    \/ \E a \in Agents : Consider(m, a)
    \/ Mark(m) \/ Push(m)

PublishNext ==
    \/ \E m \in Posts : Handle(m) \/ Die(m) \/ Look(m) \/ Vanish(m)
    \/ AutoTrip
    \/ \E b \in BOOLEAN : SetPaused(b)
    \/ \E k \in Keeps, r \in Rates : SetLimits(k, r) \/ Restart(k, r)
    \/ Elapse

PublishSpec == PublishInit /\ [][PublishNext]_publishVars

-----------------------------------------------------------------------------
(* Properties.                                                             *)

\* "Ordered by rowid (monotonic insertion order) so a burst of messages
\* sharing a created_at timestamp still trims oldest-first" (store.py:1107):
\* a message that is in the channel was inserted after every message the
\* buffer discarded, whatever the order of their stamps.
TrimsOldestFirst == \A r \in rows, n \in trimmed : r.nth > n

\* The messages accepted in the minute up to `t`, still there or not.
AcceptedIn(t) == {r \in posted : r.at <= t /\ r.at > t - Minute}

\* "This channel accepts at most {n} messages per minute" (store.py:1042).
\* The code counts the rows that are left, before it inserts its own: no more
\* are accepted in a minute than the largest limit and the other posts in
\* flight, unless a message of that minute or a later one was retracted, or
\* discarded by a buffer too small to hold so many.  A buffer that can hold
\* them lets no more in, although what it discards is no longer counted.
WriteRateBounded ==
    \A t \in 0..time :
        \/ \E s \in escaped : s > t - Minute
        \/ Cardinality(AcceptedIn(t)) <= Ceiling

\* The sentence as it stands, up to the posts in flight.  Refuted: what was
\* retracted, or discarded by a small buffer, is no longer counted.
AcceptsAtMostRate == \A t \in 0..time : Cardinality(AcceptedIn(t)) <= Ceiling

\* After the kill switch only posts that had read the channel before it are
\* still inserted: at most the posts that were in flight.
PauseStopsPosting == channel.paused => slipped <= Lanes

\* Post `m` has marked the agent with an older clock, or died.
Older(m, a, clock) ==
    \/ \E e \in pushed : e.post = m /\ e.agent = a /\ e.clock < clock
    \/ post[m].at = "pushing" /\ post[m].agent = a /\ post[m].clock < clock
    \/ post[m].at = "failed"

\* "rate-limited to one delivery per minute per (channel, actor)"
\* (store.py:1158): a dispatch that begins after another one pushed to the
\* same agent, less than a minute after it, pushes only if a third post began
\* its dispatch before the first of them and marked the agent while or after
\* that one was dispatched, so that mention_rate went back.
MentionsCoalesced ==
    \A e, f \in pushed :
        /\ e.agent = f.agent /\ <<e.post, e.agent>> \in f.seen
        /\ f.clock < e.clock + Minute
        => \E m \in Posts \ {e.post, f.post} :
             <<m, e.agent>> \notin e.seen /\ Older(m, e.agent, e.clock)

\* What a client is told, and the webhook: while a message is in the channel
\* its sender has not been answered with an error, whatever was inserted,
\* trimmed or retracted between its commit and its second read; and once the
\* sender is answered the event of the channel's webhook is in the queue.
\* Only a handler that died after the commit leaves a message unannounced.
AnsweredIsAnnounced ==
    \A r \in rows :
        /\ post[r.post].at # "gone"
        /\ Hook /\ post[r.post].at = "done" => r.post \in announced
=============================================================================
