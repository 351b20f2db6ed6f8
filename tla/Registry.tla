------------------------------ MODULE Registry -------------------------------
(***************************************************************************)
(* What keys register: actors, found or created by name, with their        *)
(* aliases; sessions, whose state is patched; and tables read in pages.    *)
(*                                                                         *)
(* claim, ack and release find their actor by id, by alias or by its name  *)
(* among the caller's owner's, and create it in their own transaction when *)
(* there is none; POST /v1/actors always creates one, and it is the        *)
(* idempotency cache that makes ensure_actor of the MCP client return the  *)
(* same one again.  Actors are never deleted, and nothing keeps two of     *)
(* them from having one name.  Each member of Ops is one request.          *)
(***************************************************************************)
EXTENDS Integers, FiniteSets, SequencesExt

CONSTANTS
    Ops,            \* the requests about actors; an actor's id is the request that made it
    Keys,           \* API keys
    Owners,         \* owners of keys
    Owner,          \* the owner of each key
    Names,          \* names and aliases that are nobody's id
    Ttl,            \* life of a cached response, in clock ticks
    Horizon,        \* bound: the clock stops here
    Patches,        \* the requests that patch the session, each a field of its own
    Items,          \* rows of a table that is read in pages
    Stamps,         \* what their created_at may be
    PageSize,       \* rows of a page
    None

ASSUME RegistryAssumption ==
    /\ Owner \in [Keys -> Owners]
    /\ Ttl \in Nat \ {0}
    /\ None \notin Ops /\ Keys # {} /\ Names # {} /\ Names \cap Ops = {}
    /\ IsFiniteSet(Items)
    /\ Stamps \subseteq Nat \ {0} /\ PageSize \in Nat \ {0}

VARIABLES
    now,            \* the clock
    actors,         \* the rows of actors, in the order of their INSERTs
    alias,          \* actor_aliases
    cache,          \* idempotency_cache, by key and name
    op,             \* the handlers
    session,        \* the row of the session
    patch,          \* the handlers that patch it
    table,          \* created_at of the rows of a table, 0 of those not there
    reader          \* a client that reads it page by page

registry == <<actors, alias, cache>>
sessions == <<session, patch>>
listing == <<table, reader>>
vars == <<now, registry, op, sessions, listing>>

Kinds == {"use", "create", "alias"}
Steps == {"idle", "creating", "created", "naming", "over"}

\* A request: the actor it found, made or was answered with; the stamp of its
\* row; and (history) the requests that were over when it began, and when it
\* began and ended.
Op ==
    [at: Steps, kind: Kinds, key: Keys, ident: Names \cup Ops, actor: Ops \cup {None},
     stamp: Nat, before: SUBSET Ops, began: Nat, ended: Nat]
Row == [id: Ops, owner: Owners, name: Names \cup Ops, at: Nat]

\* An id is given to claim, ack or release only; whose key names an alias does
\* not matter.
Arriving ==
    {q \in [at: {"idle"}, kind: Kinds, key: Keys, ident: Names \cup Ops, actor: {None},
            stamp: {0}, before: {{}}, began: {0}, ended: {0}] :
        /\ q.kind # "use" => q.ident \in Names
        /\ q.kind = "alias" => q.key = CHOOSE k \in Keys : TRUE}

Rows == ToSet(actors)

\* What is listed, the cursor of the next page (0: none yet), the rows received,
\* and (history) those it may miss: what came behind its cursor and what has the
\* stamp of a page's last row.
Lists == {"events", "history", "channels"}
Reader ==
    [lists: Lists, at: {"reading", "over"}, cursor: Nat, seen: SUBSET Items,
     excused: SUBSET Items]

TypeOK ==
    /\ now \in Nat
    /\ Rows \subseteq Row
    /\ \A r, s \in Rows : r.id = s.id => r = s
    /\ alias \in [Names -> {r.id : r \in Rows} \cup {None}]
    /\ cache \in [Keys \X Names -> [actor: {r.id : r \in Rows} \cup {None}, until: Nat]]
    /\ op \in [Ops -> Op]
    /\ session \in [row: BOOLEAN, fields: SUBSET Patches]
    /\ patch \in [Patches -> [at: {"idle", "read", "done", "failed"}, read: SUBSET Patches,
                              missed: SUBSET Patches]]
    /\ table \in [Items -> Stamps \cup {0}]
    /\ reader \in Reader

Unasked == [(CHOOSE q \in Arriving : TRUE) EXCEPT !.at = "over"]

NoSession ==
    /\ session = [row |-> FALSE, fields |-> {}]
    /\ patch = [p \in Patches |-> [at |-> "failed", read |-> {}, missed |-> {}]]

Starting(list, step) ==
    [lists |-> list, at |-> step, cursor |-> 0, seen |-> {}, excused |-> {}]

NoList ==
    /\ table = [i \in Items |-> 0]
    /\ reader = Starting("events", "over")

\* Actors, sessions and lists share nothing: an instance has requests about one
\* of them.
Init ==
    /\ now = 0
    /\ actors = <<>>
    /\ alias = [n \in Names |-> None]
    /\ cache = [k \in Keys \X Names |-> [actor |-> None, until |-> 0]]
    /\ \/ /\ op \in [Ops -> Arriving]
          /\ NoSession /\ NoList
       \/ /\ op = [o \in Ops |-> Unasked]
          /\ session = [row |-> TRUE, fields |-> {}]
          /\ patch = [p \in Patches |-> [at |-> "idle", read |-> {}, missed |-> {}]]
          /\ NoList
       \/ /\ op = [o \in Ops |-> Unasked]
          /\ NoSession
          /\ table \in [Items -> Stamps \cup {0}]
          /\ \E list \in Lists : reader = Starting(list, "reading")

OwnerOf(o) == Owner[op[o].key]
Begun(o) == [op[o] EXCEPT !.before = {q \in Ops : op[q].at = "over"}, !.began = now]
Over(q, actor) == [q EXCEPT !.at = "over", !.actor = actor, !.ended = now]

-----------------------------------------------------------------------------
(* _resolve_or_create_actor, in claim_message, ack_message, release_message. *)

\* Whoever owns it (a mutant of MayActAs).
MayActAsAny(o, r) == TRUE

\* _assert_actor_owned.
MayActAs(o, r) == r.owner = OwnerOf(o)

ById(o) == {r \in Rows : r.id = op[o].ident}
ByAlias(o) == {r \in Rows : op[o].ident \in Names /\ alias[op[o].ident] = r.id}
ByName(o) == {r \in Rows : r.name = op[o].ident /\ r.owner = OwnerOf(o)}

\* The one that was created last (a mutant of First).
Newest(S) == {r \in S : \A s \in S : s.at <= r.at}

\* ORDER BY created_at LIMIT 1.
First(S) == {r \in S : \A s \in S : r.at <= s.at}

Creating(o) ==
    op' = [op EXCEPT ![o] = [Begun(o) EXCEPT !.at = "creating", !.stamp = now]]

\* An id or an alias of another owner's actor is refused, one's own taken;
\* then the name; then a row is prepared.
Resolve(o) ==
    /\ op[o].at = "idle" /\ op[o].kind = "use"
    /\ LET hit == IF ById(o) # {} THEN ById(o) ELSE ByAlias(o)
       IN \/ \E r \in hit :
               op' = [op EXCEPT ![o] = Over(Begun(o), IF MayActAs(o, r) THEN r.id ELSE None)]
          \/ hit = {} /\ \E r \in First(ByName(o)) : op' = [op EXCEPT ![o] = Over(Begun(o), r.id)]
          \/ hit = {} /\ ByName(o) = {} /\ Creating(o)
    /\ UNCHANGED <<now, registry, sessions, listing>>

Appended(o) ==
    actors' = Append(actors, [id |-> o, owner |-> OwnerOf(o), name |-> op[o].ident,
                              at |-> op[o].stamp])

\* The INSERT and the commit of the transaction it is part of.
Store(o) ==
    /\ op[o].at = "creating" /\ op[o].kind = "use"
    /\ Appended(o)
    /\ op' = [op EXCEPT ![o] = Over(op[o], o)]
    /\ UNCHANGED <<now, alias, cache, sessions, listing>>

\* The claim is refused and its transaction rolled back, or the handler dies.
Die(o) ==
    /\ op[o].at \in {"creating", "created", "naming"}
    /\ op' = [op EXCEPT ![o] = Over(op[o], None)]
    /\ UNCHANGED <<now, registry, sessions, listing>>

-----------------------------------------------------------------------------
(* ensure_actor and create_actor.                                          *)

Slot(o) == <<op[o].key, op[o].ident>>

\* Nothing is replayed (a mutant of Cached).
CachedNever(o) == FALSE

Cached(o) == cache[Slot(o)].until > now

\* The idempotency middleware; then the clock of create_actor.
Ensure(o) ==
    /\ op[o].at = "idle" /\ op[o].kind = "create"
    /\ IF Cached(o) THEN op' = [op EXCEPT ![o] = Over(Begun(o), cache[Slot(o)].actor)]
       ELSE Creating(o)
    /\ UNCHANGED <<now, registry, sessions, listing>>

Create(o) ==
    /\ op[o].at = "creating" /\ op[o].kind = "create"
    /\ Appended(o)
    /\ op' = [op EXCEPT ![o].at = "created"]
    /\ UNCHANGED <<now, alias, cache, sessions, listing>>

\* cache_idempotent_response, INSERT OR REPLACE, and the answer.
Answer(o) ==
    /\ op[o].at = "created"
    /\ cache' = [cache EXCEPT ![Slot(o)] = [actor |-> o, until |-> now + Ttl]]
    /\ op' = [op EXCEPT ![o] = Over(op[o], o)]
    /\ UNCHANGED <<now, actors, alias, sessions, listing>>

-----------------------------------------------------------------------------
(* create_actor_alias.                                                     *)

\* The actor, of whatever owner, and the SELECT of _insert_alias.
AliasRead(o) ==
    /\ op[o].at = "idle" /\ op[o].kind = "alias"
    /\ \E r \in Rows :
         op' = [op EXCEPT ![o] =
                  IF alias[op[o].ident] # None THEN Over(Begun(o), None)
                  ELSE [Begun(o) EXCEPT !.at = "naming", !.actor = r.id]]
    /\ UNCHANGED <<now, registry, sessions, listing>>

AliasFree(o) == alias[op[o].ident] = None

\* The INSERT; one that meets the UNIQUE constraint is answered 500.
AliasWrite(o) ==
    /\ op[o].at = "naming"
    /\ IF AliasFree(o)
       THEN /\ alias' = [alias EXCEPT ![op[o].ident] = op[o].actor]
            /\ op' = [op EXCEPT ![o] = Over(op[o], op[o].actor)]
       ELSE alias' = alias /\ op' = [op EXCEPT ![o] = Over(op[o], None)]
    /\ UNCHANGED <<now, actors, cache, sessions, listing>>

-----------------------------------------------------------------------------
(* patch_session and delete_session.                                       *)

PatchRead(p) ==
    /\ patch[p].at = "idle"
    /\ patch' = [patch EXCEPT ![p] =
         IF session.row THEN [@ EXCEPT !.at = "read", !.read = session.fields]
         ELSE [@ EXCEPT !.at = "failed"]]
    /\ UNCHANGED <<now, registry, op, session, listing>>

\* The patch alone (a mutant of Merged).
MergedNot(p) == {p}

\* {**current_state, **patch}
Merged(p) == patch[p].read \cup {p}

Told(p, step) ==
    [q \in Patches |->
        IF q = p THEN [patch[p] EXCEPT !.at = step, !.read = {}]
        ELSE IF patch[q].at = "read" /\ step = "done"
             THEN [patch[q] EXCEPT !.missed = @ \cup {p}]
        ELSE patch[q]]

\* The UPDATE; when it finds no row, neither does the SELECT after it.
PatchWrite(p) ==
    /\ patch[p].at = "read"
    /\ session' = IF session.row THEN [session EXCEPT !.fields = Merged(p)] ELSE session
    /\ patch' = Told(p, IF session.row THEN "done" ELSE "failed")
    /\ UNCHANGED <<now, registry, op, listing>>

\* delete_session, or the purge of expired sessions.
DeleteSession ==
    /\ session.row
    /\ session' = [row |-> FALSE, fields |-> {}]
    /\ UNCHANGED <<now, registry, op, patch, listing>>

-----------------------------------------------------------------------------
(* list_channel_events, list_channel_history, list_discoverable_channels.  *)

There == {i \in Items : table[i] # 0}

\* Events are read forwards, archived messages and channels backwards: `i` comes
\* before `j` in the order of the list.
Before(i, j) == IF reader.lists = "events" THEN table[i] < table[j] ELSE table[i] > table[j]

\* created_at > since, created_at < cursor.
Beyond(stamp) ==
    \/ reader.cursor = 0
    \/ IF reader.lists = "events" THEN stamp > reader.cursor ELSE stamp < reader.cursor

Ahead == {i \in There : Beyond(table[i])}

\* In no order (a mutant of PagesOf).
PagesOfUnordered(S) == {P \in SUBSET S : Cardinality(P) <= PageSize /\ (P = {}) = (S = {})}

\* ORDER BY created_at LIMIT: among equals, any.
PagesOf(S) ==
    {P \in SUBSET S :
        /\ Cardinality(P) = IF Cardinality(S) < PageSize THEN Cardinality(S) ELSE PageSize
        /\ \A i \in P, j \in S \ P : ~Before(j, i)}

LastOf(P) == CHOOSE i \in P : \A j \in P : ~Before(i, j)

\* The page is received, and its last row's stamp is the next cursor.
Received(P, step) ==
    reader' = IF P = {} THEN [reader EXCEPT !.at = step]
              ELSE [reader EXCEPT !.at = step, !.cursor = table[LastOf(P)],
                      !.seen = @ \cup P,
                      !.excused = @ \cup {i \in There : table[i] = table[LastOf(P)]}]

Reading(list) ==
    /\ reader.at = "reading" /\ reader.lists = list
    /\ UNCHANGED <<now, registry, op, sessions, table>>

\* The cursor stays when there is nothing, and the owner goes on polling.
ReadEvents == Reading("events") /\ \E P \in PagesOf(Ahead) : Received(P, "reading")

\* The client is through when a page is empty...
ReadHistory ==
    /\ Reading("history")
    /\ \E P \in PagesOf(Ahead) : Received(P, IF P = {} THEN "over" ELSE "reading")

\* ... or shorter than it may be.
ReadChannels ==
    /\ Reading("channels")
    /\ \E P \in PagesOf(Ahead) :
         Received(P, IF Cardinality(P) < PageSize THEN "over" ELSE "reading")

\* The row of a channel, an event or a message that is archived: whenever it was
\* stamped.
Appear(i) ==
    /\ reader.at = "reading" /\ i \notin There \cup reader.seen
    /\ \E stamp \in Stamps :
         /\ table' = [table EXCEPT ![i] = stamp]
         /\ reader' = IF Beyond(stamp) THEN reader ELSE [reader EXCEPT !.excused = @ \cup {i}]
    /\ UNCHANGED <<now, registry, op, sessions>>

\* Deleted, expired or purged.
Vanish(i) ==
    /\ reader.at = "reading" /\ i \in There
    /\ table' = [table EXCEPT ![i] = 0]
    /\ UNCHANGED <<now, registry, op, sessions, reader>>

Tick ==
    /\ now < Horizon
    /\ now' = now + 1
    /\ UNCHANGED <<registry, op, sessions, listing>>

-----------------------------------------------------------------------------
Handle(o) ==
    \/ Resolve(o) \/ Store(o) \/ Die(o)
    \/ Ensure(o) \/ Create(o) \/ Answer(o)
    \/ AliasRead(o) \/ AliasWrite(o)

Next ==
    \/ \E o \in Ops : Handle(o)
    \/ \E p \in Patches : PatchRead(p) \/ PatchWrite(p)
    \/ DeleteSession
    \/ ReadEvents \/ ReadHistory \/ ReadChannels
    \/ \E i \in Items : Appear(i) \/ Vanish(i)
    \/ Tick

Spec == Init /\ [][Next]_vars

-----------------------------------------------------------------------------
(* Properties.                                                             *)

RowOf(id) == CHOOSE r \in Rows : r.id = id
Acted(o, kind) == op[o].at = "over" /\ op[o].kind = kind /\ op[o].actor # None

\* "A key may only act as actors its owner registered" (store.py:2223), over
\* ids, aliases that anyone may give, and names.
OwnActorsOnly ==
    \A o \in Ops : Acted(o, "use") => RowOf(op[o].actor).owner = OwnerOf(o)

Overlapped(o, q) == o \notin op[q].before /\ q \notin op[o].before

\* "claim, ack and release just work with a plain name" (store.py:2236): a
\* request that begins after another one of the same name was answered acts
\* as the same actor, unless the name has become an alias, or another actor
\* of that name was being created next to the first request, or in the very
\* instant of its actor.
SameName ==
    \A o, q \in Ops :
        /\ Acted(o, "use") /\ Acted(q, "use")
        /\ OwnerOf(o) = OwnerOf(q) /\ op[o].ident = op[q].ident
        /\ op[o].ident \in Names /\ o \in op[q].before
        => \/ op[q].actor = op[o].actor
           \/ Overlapped(o, op[q].actor)
           \/ alias[op[o].ident] = op[q].actor
           \/ RowOf(op[q].actor).at = RowOf(op[o].actor).at

\* "Create the actor if missing; return the actor id. Idempotent." (mcp_server
\* client.py:216): as long as the answer is cached, a later call is given the
\* same actor, or one that was created next to it.
EnsureAgrees ==
    \A o, q \in Ops :
        /\ Acted(o, "create") /\ op[o].actor = o /\ Acted(q, "create")
        /\ Slot(o) = Slot(q) /\ o \in op[q].before
        /\ op[q].began < op[o].ended + Ttl
        => o \notin op[op[q].actor].before

\* An alias is given once, though two requests may both have found it free:
\* the second answer is never 201, so an alias stands for whom it was given to.
AliasGivenOnce ==
    \A o, q \in Ops :
        Acted(o, "alias") /\ Acted(q, "alias") /\ op[o].ident = op[q].ident
            => o = q /\ alias[op[o].ident] = op[o].actor

\* A patch that was answered is in the session until it is deleted, unless a
\* patch that had read the session before it wrote after it.
PatchesKept ==
    \A p \in Patches :
        patch[p].at = "done" /\ session.row
            => p \in session.fields
               \/ \E q \in Patches : patch[q].at = "done" /\ p \in patch[q].missed

\* "Newest first" and oldest first, by created_at alone (store.py:774, 1729,
\* 1303): the cursor passes over no row that is there, whatever comes and goes
\* between two pages, but what shares the stamp of a page's end or came too
\* late; and who was told that there is no more has received all the rest.
NothingPassedOver ==
    \A i \in There : i \in reader.seen \cup reader.excused \/ (reader.at = "reading" /\ i \in Ahead)

\* A deleted session is not brought back by a patch that had read it.
SessionStaysGone == [][~session.row => ~session'.row]_vars
=============================================================================
