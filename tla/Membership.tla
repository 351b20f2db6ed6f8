----------------------------- MODULE Membership -----------------------------
(***************************************************************************)
(* Who may use one restricted channel: access requests, invitations, the   *)
(* owner's additions and removals, the audit log of all that, changes of   *)
(* the access mode, and the deletion of the channel.                       *)
(*                                                                         *)
(* Every handler first reads (the channel, the access of the caller, the   *)
(* request or the invitation) and then writes in one transaction, without  *)
(* reading again.  Between the two, any other handler may commit.  What is *)
(* enforced when the transaction writes are the constraints of the schema: *)
(* foreign keys to the channel and to the invitation, and one pending      *)
(* request per key.  A refused handler answers and changes nothing.        *)
(***************************************************************************)
EXTENDS Integers, FiniteSets

CONSTANTS
    Keys,           \* API keys, the owner's not among them
    Requests,       \* bound: the rows of channel_access_requests
    Invitations,    \* bound: the rows of channel_invitations
    Threads,        \* request threads
    None

ASSUME MembershipAssumption ==
    /\ None \notin Keys \cup Requests \cup Invitations
    /\ Requests \cap Invitations = {} /\ "added" \notin Requests
    /\ IsFiniteSet(Threads) /\ Threads # {}

VARIABLES
    exists,         \* whether the channel still has its row
    hook,           \* whether it has a webhook_url; it never changes
    open,           \* access = "open"
    members,        \* rows of channel_members, the owner's left out
    last,           \* the last channel_event about each key, if any
    request,        \* channel_access_requests: status and requester
    invitation,     \* channel_invitations: the state of each
    thread,         \* the handlers between their reads and their write
    granted,        \* history: what each member was admitted by
    raced,          \* history: requests that two resolutions found pending
    slipped         \* history: keys admitted by a revoked invitation

table == <<open, members, last, request, invitation>>
history == <<granted, raced, slipped>>
vars == <<exists, hook, table, thread, history>>

Events == {"none", "in", "out"}
Idle == [op |-> "idle", key |-> None, on |-> None]
Handler ==
    [op: {"idle", "ask", "approve", "deny", "invite", "join", "revoke", "add", "remove",
          "open", "restrict"},
     key: Keys \cup {None}, on: Requests \cup Invitations \cup {None}]

\* Who or what admitted a key.
Ways == Requests \cup Invitations \cup {"added"}

TypeOK ==
    /\ exists \in BOOLEAN /\ hook \in BOOLEAN /\ open \in BOOLEAN
    /\ members \subseteq Keys
    /\ last \in [Keys -> Events]
    /\ request \in [Requests -> [status: {"none", "pending", "approved", "denied"},
                                 key: Keys \cup {None}]]
    /\ invitation \in [Invitations -> {"none", "active", "revoked", "expired", "gone"}]
    /\ thread \in [Threads -> Handler]
    /\ granted \in [Keys -> SUBSET Ways] /\ raced \subseteq Requests
    /\ slipped \in Nat

\* create_channel: its owner is its only member.
Init ==
    /\ exists = TRUE /\ hook \in BOOLEAN /\ open = FALSE
    /\ members = {} /\ last = [k \in Keys |-> "none"]
    /\ request = [q \in Requests |-> [status |-> "none", key |-> None]]
    /\ invitation = [i \in Invitations |-> "none"]
    /\ thread = [t \in Threads |-> Idle]
    /\ granted = [k \in Keys |-> {}] /\ raced = {} /\ slipped = 0

HasAccess(k) == open \/ k \in members

\* A handler has read what it needs.
Read(t, op, k, on) ==
    /\ thread[t] = Idle /\ exists
    /\ thread' = [thread EXCEPT ![t] = [op |-> op, key |-> k, on |-> on]]
    /\ UNCHANGED <<exists, hook, table>>

\* A handler writes, or dies, and answers.
At(t, op) == thread[t].op = op
End(t) == thread' = [thread EXCEPT ![t] = Idle]

\* An event on a channel that is gone would leave its row behind (a mutant of
\* ForeignKey).
ForeignKeyOff == TRUE

\* REFERENCES channels(id), with foreign_keys = ON.
ForeignKey == exists

\* INSERT OR IGNORE INTO channel_members, and _record_event.
Admit(k, way) ==
    /\ members' = members \cup {k}
    /\ last' = [last EXCEPT ![k] = "in"]
    /\ granted' = [granted EXCEPT ![k] = @ \cup {way}]

-----------------------------------------------------------------------------
(* Access requests.                                                        *)

Pending(k) == {q \in Requests : request[q].status = "pending" /\ request[q].key = k}

\* create_access_request, its reads.
AskRead(t, k) ==
    /\ ~HasAccess(k) /\ Pending(k) = {}
    /\ Read(t, "ask", k, None)
    /\ UNCHANGED history

\* The unique index over pending requests.
PendingIndex(k) == Pending(k) = {}

\* Its INSERT, which needs no channel.
AskWrite(t) ==
    LET k == thread[t].key
    IN /\ At(t, "ask") /\ PendingIndex(k)
       /\ \E q \in Requests :
            /\ request[q].status = "none"
            /\ request' = [request EXCEPT ![q] = [status |-> "pending", key |-> k]]
       /\ End(t)
       /\ UNCHANGED <<exists, hook, open, members, last, invitation, history>>

\* Whatever its status (a mutant of Resolvable).
ResolvableAlways(q) == request[q].status # "none"

\* 409 access_request_resolved otherwise.
Resolvable(q) == request[q].status = "pending"

Resolving(q) == {t \in Threads : thread[t].op \in {"approve", "deny"} /\ thread[t].on = q}

\* resolve_access_request, its reads.
ResolveRead(t, q, verdict) ==
    /\ Resolvable(q)
    /\ Read(t, verdict, request[q].key, q)
    /\ raced' = IF Resolving(q) # {} THEN raced \cup {q} ELSE raced
    /\ UNCHANGED <<granted, slipped>>

\* requester_key_id.
Requester(t) == thread[t].key

\* The grant, the event and the status in one transaction.
Approve(t) ==
    /\ At(t, "approve") /\ ~hook /\ ForeignKey
    /\ Admit(Requester(t), thread[t].on)
    /\ request' = [request EXCEPT ![thread[t].on].status = "approved"]
    /\ End(t)
    /\ UNCHANGED <<exists, hook, open, invitation, raced, slipped>>

\* With a webhook_url: the transaction holds the write lock while
\* queue_webhook waits for it on a second connection.  After busy_timeout that
\* raises "database is locked", and the approval is rolled back.
ApproveLocked(t) ==
    /\ At(t, "approve") /\ hook
    /\ End(t)
    /\ UNCHANGED <<exists, hook, table, history>>

Deny(t) ==
    /\ At(t, "deny")
    /\ request' = [request EXCEPT ![thread[t].on].status = "denied"]
    /\ End(t)
    /\ UNCHANGED <<exists, hook, open, members, last, invitation, history>>

-----------------------------------------------------------------------------
(* Invitations.                                                            *)

\* create_channel_invitation, by the owner or a member: its reads, its INSERT.
InviteRead(t) ==
    /\ Read(t, "invite", None, None)
    /\ UNCHANGED history

InviteWrite(t) ==
    /\ At(t, "invite") /\ ForeignKey
    /\ \E i \in Invitations :
         /\ invitation[i] = "none"
         /\ invitation' = [invitation EXCEPT ![i] = "active"]
    /\ End(t)
    /\ UNCHANGED <<exists, hook, open, members, last, request, history>>

\* _get_active_invitation.
Active(i) == invitation[i] = "active"

\* get_channel_invitation.
JoinRead(t, k, i) ==
    /\ Active(i)
    /\ Read(t, "join", k, i)
    /\ UNCHANGED history

\* granted_via_invitation_id is a foreign key too, unless the row is ignored.
JoinWrite(t) ==
    LET k == thread[t].key
        i == thread[t].on
    IN /\ At(t, "join") /\ ForeignKey
       /\ invitation[i] # "gone" \/ k \in members
       /\ Admit(k, i)
       /\ slipped' = IF invitation[i] = "revoked" THEN slipped + 1 ELSE slipped
       /\ End(t)
       /\ UNCHANGED <<exists, hook, open, request, invitation, raced>>

\* revoke_channel_invitation, by any key.
RevokeRead(t, i) ==
    /\ invitation[i] \in {"active", "expired"}
    /\ Read(t, "revoke", None, i)
    /\ UNCHANGED history

RevokeWrite(t) ==
    /\ At(t, "revoke") /\ ForeignKey
    /\ invitation' = [invitation EXCEPT ![thread[t].on] = IF @ = "gone" THEN @ ELSE "revoked"]
    /\ slipped' = IF invitation[thread[t].on] \in {"active", "expired"} THEN 0 ELSE slipped
    /\ End(t)
    /\ UNCHANGED <<exists, hook, open, members, last, request, granted, raced>>

\* 24 hours have passed.
Lapse(i) ==
    /\ invitation[i] = "active"
    /\ invitation' = [invitation EXCEPT ![i] = "expired"]
    /\ UNCHANGED <<exists, hook, open, members, last, request, thread, history>>

\* The cleanup archives and deletes it.
Purge(i) ==
    /\ invitation[i] \in {"expired", "revoked"}
    /\ invitation' = [invitation EXCEPT ![i] = "gone"]
    /\ UNCHANGED <<exists, hook, open, members, last, request, thread, history>>

-----------------------------------------------------------------------------
(* The owner's operations and PATCH.                                       *)

\* add_channel_member and remove_channel_member, their reads.
OwnerRead(t, op, k) ==
    /\ op \in {"add", "remove"}
    /\ Read(t, op, k, None)
    /\ UNCHANGED history

Add(t) ==
    /\ At(t, "add") /\ ForeignKey
    /\ Admit(thread[t].key, "added")
    /\ End(t)
    /\ UNCHANGED <<exists, hook, open, request, invitation, raced, slipped>>

\* Without an event (a mutant of Logged).
LoggedNot(k) == last[k]

\* The event is recorded whether or not there was a row to delete.
Logged(k) == "out"

Remove(t) ==
    LET k == thread[t].key
    IN /\ At(t, "remove") /\ ForeignKey
       /\ members' = members \ {k}
       /\ last' = [last EXCEPT ![k] = Logged(k)]
       /\ granted' = [granted EXCEPT ![k] = {}]
       /\ End(t)
       /\ UNCHANGED <<exists, hook, open, request, invitation, raced, slipped>>

\* update_channel, by anyone with access.
PatchRead(t, op) ==
    /\ op \in {"open", "restrict"}
    /\ Read(t, op, None, None)
    /\ UNCHANGED history

\* An UPDATE of a row that is gone changes nothing.
PatchWrite(t) ==
    /\ thread[t].op \in {"open", "restrict"}
    /\ open' = IF exists THEN At(t, "open") ELSE open
    /\ End(t)
    /\ UNCHANGED <<exists, hook, members, last, request, invitation, history>>

\* delete_channel, after its reads; ON DELETE CASCADE.
DeleteChannel ==
    /\ exists
    /\ exists' = FALSE
    /\ members' = {}
    /\ last' = [k \in Keys |-> "none"]
    /\ invitation' = [i \in Invitations |-> IF invitation[i] = "none" THEN "none" ELSE "gone"]
    /\ granted' = [k \in Keys |-> {}]
    /\ UNCHANGED <<hook, open, request, thread, raced, slipped>>

\* A constraint fails, or the handler dies: its transaction is rolled back.
\* An approval is not let die on a channel that exists (it would change what
\* ApproveLocked changes), so that ApprovalAdmits is not about crashes.
Die(t) ==
    /\ thread[t] # Idle
    /\ At(t, "approve") => ~exists
    /\ End(t)
    /\ UNCHANGED <<exists, hook, table, history>>

OnRequests(t) ==
    \/ \E k \in Keys : AskRead(t, k)
    \/ \E q \in Requests, verdict \in {"approve", "deny"} : ResolveRead(t, q, verdict)
    \/ AskWrite(t) \/ Approve(t) \/ ApproveLocked(t) \/ Deny(t)

OnInvitations(t) ==
    \/ \E k \in Keys, i \in Invitations : JoinRead(t, k, i)
    \/ \E i \in Invitations : RevokeRead(t, i)
    \/ InviteRead(t) \/ InviteWrite(t) \/ JoinWrite(t) \/ RevokeWrite(t)

OnMembers(t) ==
    \/ \E k \in Keys, op \in {"add", "remove"} : OwnerRead(t, op, k)
    \/ Add(t) \/ Remove(t)

OnAccess(t) ==
    \/ \E op \in {"open", "restrict"} : PatchRead(t, op)
    \/ PatchWrite(t)

Step(t) == OnRequests(t) \/ OnInvitations(t) \/ OnMembers(t) \/ OnAccess(t) \/ Die(t)

Next ==
    \/ \E t \in Threads : Step(t)
    \/ \E i \in Invitations : Lapse(i) \/ Purge(i)
    \/ DeleteChannel

Spec == Init /\ [][Next]_vars

-----------------------------------------------------------------------------
(* Properties.                                                             *)

\* "Log membership so it shows in GET .../events" (store.py:861): a key is a
\* member exactly if the last event about it admitted it, whatever the order
\* in which handlers that read before each other write.
MembershipIsLogged == \A k \in Keys : k \in members <=> last[k] = "in"

\* "ON DELETE CASCADE handles messages, members, invitations, events"
\* (store.py:1641): a handler that read the channel before it was deleted
\* leaves no member, invitation or event of it afterwards.  Access requests have
\* no foreign key and may outlive it.
NothingOutlivesChannel ==
    ~exists => /\ members = {}
               /\ \A i \in Invitations : invitation[i] \in {"none", "gone"}
               /\ \A k \in Keys : last[k] = "none"

\* idx_access_requests_pending: two requests of one key that both found none
\* pending leave one.
OnePendingRequest == \A k \in Keys : Cardinality(Pending(k)) <= 1

\* "Request already denied" (store.py:857): a member that nothing but a
\* request admitted has that request approved, unless an approval and a denial
\* had both found it pending.
DenialStands ==
    \A k \in members, q \in Requests :
        granted[k] = {q} /\ request[q].status = "denied" => q \in raced

\* "The channel invitation was explicitly revoked" (docs/errors.md:89): after
\* that it only admits keys whose handlers had checked it before, fewer than
\* there are threads.
RevokedInvitationStops == slipped < Cardinality(Threads)

\* An approval that is not refused "fire[s] the channel webhook if one is
\* configured" (store.py:862) and answers approved.
ApprovalAdmits ==
    [][\A t \in Threads :
         At(t, "approve") /\ exists /\ thread'[t] = Idle
             => request'[thread[t].on].status = "approved"]_vars
=============================================================================
