------------------------------ MODULE Minting -------------------------------
(***************************************************************************)
(* Issuing API keys: the switch that closes public minting, the sliding    *)
(* window limiter in front of it (the limiter of every request and of the  *)
(* invitation pages is the same class), which counts by the address that   *)
(* Gateway finds behind the proxies, the uniqueness of agent labels that   *)
(* issue_api_key checks, and the heartbeat bot's key.                      *)
(*                                                                         *)
(* A request reads the switch, takes its time stamp, and only then the     *)
(* limiter's lock; it looks its label up in one transaction and inserts    *)
(* the key with its actor in the next.  What is then written to the        *)
(* security audit log, and may fail unnoticed, is left out.                *)
(***************************************************************************)
EXTENDS Gateway, FiniteSets, SequencesExt

CONSTANTS
    Requests,       \* the requests that are going to be made
    Routes,         \* how requests come: the header they bring, the proxies they pass
    Labels,         \* agent labels
    BotLabel,       \* HEARTBEAT_BOT_LABEL, or not in Labels
    Limit,          \* keys per window and source
    Window,         \* window_seconds, in clock ticks
    SweepEvery,     \* _SWEEP_EVERY
    Horizon         \* bound: the clock stops here

ASSUME MintingAssumption ==
    /\ Routes \subseteq [claims: Seq(Addresses), via: Seq(Trusted)] /\ Routes # {}
    /\ Limit \in Nat \ {0} /\ Window \in Nat \ {0} /\ SweepEvery \in Nat \ {0}

VARIABLES
    now,            \* the clock
    setting,        \* the row of settings for public_minting_enabled
    buckets,        \* events of the limiter: a deque of stamps for each source
    ops,            \* _ops, modulo SweepEvery
    request,        \* the handlers
    keys,           \* the rows of api_keys: the requests that inserted them
    active,         \* those that have not been revoked
    actors,         \* the actors inserted with them
    admitted        \* history: what the limiter let through, in order

\* Those who make requests, and the addresses they are counted for.
Clients == Addresses \ Trusted

limiter == <<buckets, ops, admitted>>
tables == <<setting, keys, active, actors>>
vars == <<now, limiter, tables, request>>

Steps == {"idle", "open", "stamped", "admitted", "free", "over"}
Kinds == {"public", "admin", "bot"}
Stored == {"unset", "true", "false"}

\* A request's client, and the address found for it; its label; its stamp;
\* whether minting was closed while it was being handled, and the keys there
\* were when it looked its label up.
Request ==
    [at: Steps, kind: Kinds, client: Clients, source: Addresses, label: Labels, stamp: Nat,
     closed: BOOLEAN, seen: SUBSET Requests]

\* The server asks for the bot's label, and nothing keeps a client from it.
Arriving ==
    {q \in [at: {"idle"}, kind: Kinds, client: Clients, source: Clients, label: Labels,
          stamp: {0}, closed: {FALSE}, seen: {{}}] :
        /\ q.source = q.client
        /\ q.kind = "bot" => q.label = BotLabel}

TypeOK ==
    /\ now \in Nat /\ setting \in Stored
    /\ buckets \in [Addresses -> Seq(0..now)]
    /\ \A s \in Addresses : Len(buckets[s]) <= Limit
    /\ ops \in 0..(SweepEvery - 1)
    /\ request \in [Requests -> Request]
    /\ active \subseteq keys /\ keys \subseteq Requests /\ actors = keys
    /\ admitted \in Seq([client: Clients, source: Addresses, stamp: 0..now])

Init ==
    /\ now = 0 /\ setting = "unset"
    /\ buckets = [s \in Addresses |-> <<>>] /\ ops = 0
    /\ request \in [Requests -> Arriving]
    /\ keys = {} /\ active = {} /\ actors = {}
    /\ admitted = <<>>

InHand(r) == request[r].at \notin {"idle", "over"}
Goto(r, step) == request' = [request EXCEPT ![r].at = step]
Over(q) == [q EXCEPT !.at = "over", !.stamp = 0, !.closed = FALSE, !.seen = {}]
End(r) == request' = [request EXCEPT ![r] = Over(@)]

-----------------------------------------------------------------------------
(* issue_key and admin_issue_key, up to the store.                         *)

\* dispatch: the address of the request, over any of the routes.
Enter(r) ==
    \E route \in Routes :
        LET client == request[r].client
        IN request' = [request EXCEPT
             ![r].at = "open",
             ![r].source = RemoteAddr(Peer(client, route.via),
                                      ForwardedFor(route.claims, client, route.via))]

\* get_bool_setting: open by default.
PublicMintingEnabled == setting \in {"unset", "true"}

\* issue_key reads the switch in a transaction of its own.
Gate(r) ==
    /\ request[r].at = "idle" /\ request[r].kind = "public"
    /\ IF PublicMintingEnabled THEN Enter(r) ELSE End(r)
    /\ UNCHANGED <<now, limiter, tables>>

\* The operator's token is asked for instead.
AdminGate(r) ==
    /\ request[r].at = "idle" /\ request[r].kind = "admin"
    /\ Goto(r, "admitted")
    /\ UNCHANGED <<now, limiter, tables>>

\* check: the stamp is taken before the lock.
Stamp(r) ==
    /\ request[r].at = "open"
    /\ request' = [request EXCEPT ![r].at = "stamped", ![r].stamp = now]
    /\ UNCHANGED <<now, limiter, tables>>

\* Without the events up to the first one that is younger than `cutoff`.
Pruned(history, cutoff) ==
    LET old == {i \in 1..Len(history) : \A j \in 1..i : history[j] <= cutoff}
    IN SubSeq(history, Cardinality(old) + 1, Len(history))

\* A window that is one tick short (a mutant of Young).
YoungShort(history, t) == Pruned(history, t - Window + 1)

\* _prune: old events are dropped from the left up to the first young one.
Young(history, t) == Pruned(history, t - Window)

\* _maybe_sweep: the event that was appended last is taken for the newest.
Dead(history, t) == history = <<>> \/ Last(history) <= t - Window

\* check, under the lock.
Admit(r) ==
    LET t == request[r].stamp
        s == request[r].source
        history == Young(buckets[s], t)
        appended == [buckets EXCEPT ![s] = Append(history, t)]
    IN /\ request[r].at = "stamped"
       /\ IF Len(history) >= Limit
          THEN /\ End(r)
               /\ buckets' = [buckets EXCEPT ![s] = history]
               /\ UNCHANGED <<ops, admitted>>
          ELSE /\ request' = [request EXCEPT ![r].at = "admitted", ![r].stamp = 0]
               /\ ops' = (ops + 1) % SweepEvery
               /\ buckets' = IF ops' = 0
                             THEN [x \in Addresses |->
                                     IF Dead(appended[x], t) THEN <<>> ELSE appended[x]]
                             ELSE appended
               /\ admitted' = Append(admitted, [client |-> request[r].client, source |-> s,
                                                stamp |-> t])
       /\ UNCHANGED <<now, tables>>

-----------------------------------------------------------------------------
(* issue_api_key.                                                          *)

\* Never in use (a mutant of InUse).
InUseNever(label) == FALSE

InUse(label) == \E k \in active : request[k].label = label

\* ensure_heartbeat_bot_key: a bot that has its key needs no other.
BotLook(r) ==
    /\ request[r].at = "idle" /\ request[r].kind = "bot"
    /\ IF InUse(BotLabel) THEN End(r) ELSE Goto(r, "admitted")
    /\ UNCHANGED <<now, limiter, tables>>

SameLabel(r) == {k \in keys : request[k].label = request[r].label}

\* The SELECT: 409 label_in_use.
CheckLabel(r) ==
    /\ request[r].at = "admitted"
    /\ IF InUse(request[r].label) THEN End(r)
       ELSE request' = [request EXCEPT ![r].at = "free", ![r].seen = SameLabel(r)]
    /\ UNCHANGED <<now, limiter, tables>>

\* The default actor, named after the label.
Provisioned(r) == {r}

\* The two INSERTs and their commit.
InsertKey(r) ==
    /\ request[r].at = "free"
    /\ keys' = keys \cup {r} /\ active' = active \cup {r} /\ actors' = actors \cup Provisioned(r)
    /\ End(r)
    /\ UNCHANGED <<now, limiter, setting>>

Die(r) ==
    /\ InHand(r)
    /\ End(r)
    /\ UNCHANGED <<now, limiter, tables>>

-----------------------------------------------------------------------------
(* The rest of the world.                                                  *)

\* admin_set_minting, set_bool_setting: an upsert.
SetMinting(b) ==
    /\ setting' = (IF b THEN "true" ELSE "false")
    /\ setting' # setting
    /\ request' = [r \in Requests |->
         IF InHand(r) THEN [request[r] EXCEPT !.closed = ~b] ELSE request[r]]
    /\ UNCHANGED <<now, limiter, keys, active, actors>>

\* revoke_api_key.
RevokeKey(r) ==
    /\ r \in active
    /\ active' = active \ {r}
    /\ UNCHANGED <<now, limiter, setting, keys, actors, request>>

\* The limiter lives in the memory of the process.
Restart ==
    /\ \E s \in Addresses : buckets[s] # <<>>
    /\ buckets' = [s \in Addresses |-> <<>>] /\ ops' = 0 /\ admitted' = <<>>
    /\ request' = [r \in Requests |->
         IF InHand(r) THEN Over(request[r]) ELSE request[r]]
    /\ UNCHANGED <<now, tables>>

Tick ==
    /\ now < Horizon
    /\ now' = now + 1
    /\ UNCHANGED <<limiter, tables, request>>

Next ==
    \/ \E r \in Requests :
         \/ Gate(r) \/ AdminGate(r) \/ BotLook(r) \/ Stamp(r) \/ Admit(r)
         \/ CheckLabel(r) \/ InsertKey(r) \/ Die(r) \/ RevokeKey(r)
    \/ \E b \in BOOLEAN : SetMinting(b)
    \/ Restart \/ Tick

Spec == Init /\ [][Next]_vars

-----------------------------------------------------------------------------
(* Properties.                                                             *)

InOrder == \A i, j \in 1..Len(admitted) : i < j => admitted[i].stamp <= admitted[j].stamp

\* "A single-process deployment (the default) enforces exactly"
\* (docs/reliability.md:36): as long as requests get the lock in the order of
\* their stamps, no window admits more of one client than the limit, over prunings
\* and sweeps that others cause, and whatever it writes in its headers.
LimitHolds ==
    InOrder => \A c \in Clients, t \in 0..now :
        Cardinality({i \in 1..Len(admitted) :
                        /\ admitted[i].client = c
                        /\ admitted[i].stamp <= t /\ admitted[i].stamp > t - Window}) <= Limit

\* Behind a reverse proxy, limiters must not "collapse into one global bucket"
\* (http.py:142): what counts against an address was admitted for its client.
OwnBucket ==
    \A s \in Addresses :
        Len(buckets[s]) <=
            Cardinality({i \in 1..Len(admitted) : admitted[i].client = s})

\* "An active key for this agent label already exists" (store.py:2869): a key
\* is issued next to an active one of its label only if that one was inserted
\* after the label had been looked up.
LabelsUnique ==
    [][\A r \in keys' \ keys : active \cap SameLabel(r) \cap request[r].seen = {}]_vars

\* Once minting is closed, only requests that had read the switch before, or
\* the operator's and the bot's, still issue a key.
ClosedMintingStops ==
    [][\A r \in keys' \ keys :
            PublicMintingEnabled \/ request[r].kind # "public" \/ request[r].closed]_vars
=============================================================================
