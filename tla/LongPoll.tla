------------------------------- MODULE LongPoll -------------------------------
(***************************************************************************)
(* Reading a channel: list_messages with and without wait=, the cursor     *)
(* (`since` / `next_cursor`) its clients loop on, and the in-process       *)
(* notifier (_msg_condition, _channel_versions, _longpoll_sem) by which    *)
(* create_message wakes the waiting requests of the same server process.   *)
(* One channel; a signal of another channel only wakes a reader that finds *)
(* its own version unchanged and waits on.                                 *)
(*                                                                         *)
(* A post takes its created_at first, commits later and signals later      *)
(* still, and not at all when its row has been trimmed away before the     *)
(* handler reads it back; a poster outside the server process (the         *)
(* worker's heartbeat bot) commits and signals nobody here.                *)
(***************************************************************************)
EXTENDS Integers, FiniteSets

CONSTANTS
    Clients,        \* readers, each looping with its own cursor
    Posts,          \* the messages that are going to be posted
    Local,          \* those posted through this server process
    MaxWaiters,     \* BACKCHANNEL_LONGPOLL_MAX_WAITERS
    PageSize,       \* limit=
    Horizon         \* bound: the clock stops here

ASSUME LongPollAssumption ==
    /\ Local \subseteq Posts
    /\ MaxWaiters \in Nat \ {0}
    /\ PageSize \in Nat \ {0}
    /\ Horizon \in Nat \ {0}
    /\ IsFiniteSet(Clients)

VARIABLES
    now,            \* the clock
    post,           \* how far each post has come
    createdAt,      \* its created_at, 0 before it is taken
    live,           \* the posts that have a row, and an unexpired one
    version,        \* _channel_versions of the channel
    step,           \* how far each reader's request has come
    seen,           \* the version its request captured
    cursor,         \* the since= of its request
    delivered,      \* the messages it has been given
    permits         \* what is left of _longpoll_sem

readerVars == <<step, seen, cursor, delivered, permits>>
postVars == <<post, createdAt, live, version>>
vars == <<now, postVars, readerVars>>

PostSteps == {"new", "stamped", "stored", "reread", "done"}
ReadSteps == {"idle", "captured", "empty", "checking", "waiting", "woken", "requery"}

\* A request between these steps holds a permit of the semaphore.
Holding == {"checking", "waiting", "woken", "requery"}
Holders == {c \in Clients : step[c] \in Holding}

TypeOK ==
    /\ now \in Nat
    /\ post \in [Posts -> PostSteps]
    /\ createdAt \in [Posts -> Nat]
    /\ live \subseteq Posts
    /\ version \in Nat
    /\ step \in [Clients -> ReadSteps]
    /\ seen \in [Clients -> Nat]
    /\ cursor \in [Clients -> Nat]
    /\ delivered \in [Clients -> SUBSET Posts]
    /\ permits \in Nat

Init ==
    /\ now = 1
    /\ post = [p \in Posts |-> "new"]
    /\ createdAt = [p \in Posts |-> 0]
    /\ live = {}
    /\ version = 0
    /\ step = [c \in Clients |-> "idle"]
    /\ seen = [c \in Clients |-> 0]
    /\ cursor = [c \in Clients |-> 0]
    /\ delivered = [c \in Clients |-> {}]
    /\ permits = MaxWaiters

-----------------------------------------------------------------------------
(* create_message.                                                         *)

\* created_at = now, before the channel is even resolved.
Stamp(p) ==
    /\ post[p] = "new"
    /\ post' = [post EXCEPT ![p] = "stamped"]
    /\ createdAt' = [createdAt EXCEPT ![p] = now]
    /\ UNCHANGED <<now, live, version, readerVars>>

Commit(p) ==
    /\ post[p] = "stamped"
    /\ post' = [post EXCEPT ![p] = IF p \in Local THEN "stored" ELSE "done"]
    /\ live' = live \cup {p}
    /\ UNCHANGED <<now, createdAt, version, readerVars>>

\* _get_message after the commit: a row trimmed meanwhile is a 404 to the
\* poster, and the handler ends there.
Reread(p) ==
    /\ post[p] = "stored"
    /\ post' = [post EXCEPT ![p] = IF p \in live THEN "reread" ELSE "done"]
    /\ UNCHANGED <<now, createdAt, live, version, readerVars>>

\* A signal that bumps the version and wakes nobody (a mutant of Signal).
SignalSilently(p) ==
    /\ post[p] = "reread"
    /\ post' = [post EXCEPT ![p] = "done"]
    /\ version' = version + 1
    /\ UNCHANGED <<now, createdAt, live, readerVars>>

\* _signal_new_message: the version goes up and every waiter is notified, in
\* one hold of the condition's lock.
Signal(p) ==
    /\ post[p] = "reread"
    /\ post' = [post EXCEPT ![p] = "done"]
    /\ version' = version + 1
    /\ step' = [c \in Clients |-> IF step[c] = "waiting" THEN "woken" ELSE step[c]]
    /\ UNCHANGED <<now, createdAt, live, seen, cursor, delivered, permits>>

\* The row is trimmed, retracted or purged, or expires: no query returns it
\* from now on.
Vanish(p) ==
    /\ p \in live
    /\ live' = live \ {p}
    /\ UNCHANGED <<now, post, createdAt, version, readerVars>>

-----------------------------------------------------------------------------
(* list_messages.                                                          *)

Fresh(c) == {p \in live : createdAt[p] > cursor[c]}

\* Without the ORDER BY (a mutant of Pages).
PagesUnordered(c) ==
    {S \in SUBSET Fresh(c) :
        /\ Cardinality(S) <= PageSize
        /\ Cardinality(S) = PageSize \/ S = Fresh(c)}

\* ORDER BY created_at LIMIT page_size: among equal stamps the choice is open.
Pages(c) ==
    {S \in SUBSET Fresh(c) :
        /\ Cardinality(S) <= PageSize
        /\ Cardinality(S) = PageSize \/ S = Fresh(c)
        /\ \A p \in S, q \in Fresh(c) \ S : createdAt[p] <= createdAt[q]}

\* The client receives the page and keeps next_cursor, the newest stamp in it.
Receive(c, S) ==
    /\ delivered' = [delivered EXCEPT ![c] = @ \cup S]
    /\ \/ S = {} /\ cursor' = cursor
       \/ \E p \in S :
            /\ \A q \in S : createdAt[q] <= createdAt[p]
            /\ cursor' = [cursor EXCEPT ![c] = createdAt[p]]

Goto(c, s) == step' = [step EXCEPT ![c] = s]

\* The version is captured before the query.
Capture(c) ==
    /\ step[c] = "idle"
    /\ Goto(c, "captured")
    /\ seen' = [seen EXCEPT ![c] = version]
    /\ UNCHANGED <<now, postVars, cursor, delivered, permits>>

\* Data, or no wait=: the reply goes out at once.
Reply(c) ==
    /\ step[c] = "captured"
    /\ Goto(c, "idle")
    /\ \E S \in Pages(c) : Receive(c, S)
    /\ UNCHANGED <<now, postVars, seen, permits>>

\* Nothing to give yet, and the request is prepared to wait.
FindNothing(c) ==
    /\ step[c] = "captured"
    /\ Fresh(c) = {}
    /\ Goto(c, "empty")
    /\ UNCHANGED <<now, postVars, seen, cursor, delivered, permits>>

\* With the version captured again after the query (a mutant of Acquire).
AcquireRecapturing(c) ==
    /\ step[c] = "empty"
    /\ IF permits > 0
       THEN permits' = permits - 1 /\ Goto(c, "checking")
       ELSE permits' = permits /\ Goto(c, "idle")
    /\ seen' = [seen EXCEPT ![c] = version]
    /\ UNCHANGED <<now, postVars, cursor, delivered>>

\* A permit to wait with; at capacity the empty result goes out at once.
Acquire(c) ==
    /\ step[c] = "empty"
    /\ IF permits > 0
       THEN permits' = permits - 1 /\ Goto(c, "checking")
       ELSE permits' = permits /\ Goto(c, "idle")
    /\ UNCHANGED <<now, postVars, seen, cursor, delivered>>

\* One pass of the while loop, under the condition's lock: the version moved
\* on, or the lock is given up and the thread waits.
CheckVersion(c) ==
    /\ step[c] \in {"checking", "woken"}
    /\ Goto(c, IF version = seen[c] THEN "waiting" ELSE "requery")
    /\ UNCHANGED <<now, postVars, seen, cursor, delivered, permits>>

\* The deadline passes before or during the wait.
TimeOut(c) ==
    /\ step[c] \in {"checking", "waiting", "woken"}
    /\ Goto(c, "requery")
    /\ UNCHANGED <<now, postVars, seen, cursor, delivered, permits>>

\* A reply that keeps its permit (a mutant of Requery).
RequeryKeeping(c) ==
    /\ step[c] = "requery"
    /\ Goto(c, "idle")
    /\ \E S \in Pages(c) : Receive(c, S)
    /\ UNCHANGED <<now, postVars, seen, permits>>

\* The second query, and the permit handed back.
Requery(c) ==
    /\ step[c] = "requery"
    /\ Goto(c, "idle")
    /\ permits' = permits + 1
    /\ \E S \in Pages(c) : Receive(c, S)
    /\ UNCHANGED <<now, postVars, seen>>

\* The query raises, or the client has gone: `finally` still releases the
\* permit and the client repeats its request with the cursor it had.
Fail(c) ==
    /\ step[c] \in {"captured", "requery"}
    /\ permits' = IF step[c] = "requery" THEN permits + 1 ELSE permits
    /\ Goto(c, "idle")
    /\ UNCHANGED <<now, postVars, seen, cursor, delivered>>

Tick ==
    /\ now < Horizon
    /\ now' = now + 1
    /\ UNCHANGED <<postVars, readerVars>>

Reader(c) ==
    Capture(c) \/ Reply(c) \/ FindNothing(c) \/ Acquire(c) \/ CheckVersion(c)
        \/ TimeOut(c) \/ Requery(c) \/ Fail(c)

Next ==
    \/ \E p \in Posts : Stamp(p) \/ Commit(p) \/ Reread(p) \/ Signal(p) \/ Vanish(p)
    \/ \E c \in Clients : Reader(c)
    \/ Tick

Spec == Init /\ [][Next]_vars

\* Requests proceed and clients loop; nothing is assumed of TimeOut, so that a
\* wait may be as long as the server's cap allows, and a request may fail any
\* number of times as long as not every one of them does.
FairSpec ==
    /\ Spec
    /\ \A p \in Posts : WF_vars(Reread(p)) /\ WF_vars(Signal(p))
    /\ \A c \in Clients :
         /\ WF_vars(Capture(c)) /\ WF_vars(Acquire(c)) /\ WF_vars(CheckVersion(c))
         /\ WF_vars(Reply(c) \/ FindNothing(c))
         /\ SF_vars(Reply(c) /\ Fresh(c) # {}) /\ SF_vars(Requery(c))

-----------------------------------------------------------------------------
(* Properties.                                                             *)

\* The permits handed out and the requests that hold one add up, through
\* replies, time-outs and failures: capacity never leaks away, and at most
\* MaxWaiters requests are held.
PermitsConserved == permits + Cardinality(Holders) = MaxWaiters

\* No lost wakeup (comment in list_messages): a request asleep on the
\* condition has been shown every message whose signal is over, however the
\* post fell between its capture, its query and its wait.
NoLostWakeup ==
    \A c \in Clients : step[c] = "waiting" =>
        \A p \in Local \cap live : post[p] = "done" => createdAt[p] <= cursor[c]

\* A message posted through this process reaches or is passed by every looping
\* client without any wait timing out: the notification alone suffices.
LocalPostsWake ==
    \A p \in Local, c \in Clients :
        (p \in live /\ createdAt[p] > cursor[c])
            ~> (p \notin live \/ createdAt[p] <= cursor[c])

\* What a looping client will not be given any more.
Missed(c) == {p \in live : createdAt[p] <= cursor[c] /\ p \notin delivered[c]}

\* "Read messages from `data`; store `next_cursor` and pass it as `since` on the
\* next poll" (docs/protocol.md:250): a client that does so misses a message
\* only if that commits when the cursor has already passed its stamp, or has
\* the stamp of the last message of a page that was full.
SkipsOnlyLateAndTied ==
    [][\A c \in Clients : \A p \in Missed(c)' \ Missed(c) :
         \/ p \notin live
         \/ createdAt[p] = cursor'[c] /\ Cardinality(Fresh(c)) > PageSize]_vars

\* What the documentation's sentence promises as it stands.  TLC finds both
\* exceptions of SkipsOnlyLateAndTied.
NothingBehindCursor == \A c \in Clients : Missed(c) = {}
=============================================================================
