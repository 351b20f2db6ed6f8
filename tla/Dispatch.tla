------------------------------ MODULE Dispatch ------------------------------
(***************************************************************************)
(* What every authenticated write goes through in one server process: the  *)
(* authentication cache of LocalAuthenticator, the scopes of the key, the  *)
(* idempotency cache, the handler itself.  Each of them is a transaction   *)
(* or a memory access of its own, and requests run on threads of their     *)
(* own, so any two requests interleave between any two of them.            *)
(*                                                                         *)
(* All calls are made with one API key.  A request is an operation: what   *)
(* the method, the path and the body (or the Idempotency-Key the client    *)
(* chose) make of the cache key.  The verbs /ack, /claim, /release and     *)
(* /heartbeat have no cache key of their own and always reach their        *)
(* handlers (ClaimLease).  The rate limiter between the scopes and the     *)
(* idempotency cache only refuses; it is modelled in Minting.              *)
(***************************************************************************)
EXTENDS Integers, FiniteSets

CONSTANTS
    Calls,          \* the requests that are going to be made
    Writes,         \* operations that have a cache key
    Revoke,         \* DELETE /v1/keys/me
    Narrow,         \* the change of the key's scopes
    CacheTTL,       \* cache_ttl_seconds of LocalAuthenticator, in clock ticks
    Day,            \* 24 hours, in clock ticks
    Horizon,        \* bound: the clock stops here
    None            \* no entry, no row, never

ASSUME DispatchAssumption ==
    /\ Revoke \notin Writes /\ Narrow \notin Writes /\ Revoke # Narrow
    /\ CacheTTL \in Nat /\ Day \in Nat
    /\ None \notin Nat \cup Calls /\ None \notin [by: Calls, until: Nat]

Ops == Writes \cup {Revoke, Narrow}

VARIABLES
    now,            \* the clock
    active,         \* api_keys.active
    wide,           \* whether the key has no scopes, or those of every write
    entry,          \* the authentication cache: None, or its context and end
    scopes,         \* auth.scopes of the context each call's lookup created,
                    \* and whether a call that arrived after the change set it
    idem,           \* idempotency_cache, by operation
    op,             \* what each call asks for; it never changes
    call,           \* the handlers
    log,            \* security_audit: the revocations that are in it
    executed,       \* the calls whose handler was executed
    revokedAt,      \* when the key was revoked
    underWay,       \* lookups under way at that moment
    emptied,        \* whether the revoking call has emptied the cache
    answered        \* for each operation, when it was last answered and cached

memory == <<entry, scopes, log>>
history == <<executed, revokedAt, underWay, emptied, answered>>
vars == <<now, active, wide, memory, idem, op, call, history>>

Steps ==
    {"idle", "looked", "known", "read", "scoped", "missed", "revoked", "emptied",
     "executed", "over"}

\* A request's locals: the call whose lookup made the context it holds;
\* the scopes it read.  History: whether the scopes had been
\* narrowed when it arrived, and when its operation had last been answered.
Request ==
    [at: Steps, ctx: Calls \cup {None}, wide: BOOLEAN, late: BOOLEAN,
     known: Nat \cup {None}]
At(step) ==
    [at |-> step, ctx |-> None, wide |-> FALSE, late |-> FALSE, known |-> None]

TypeOK ==
    /\ now \in Nat
    /\ active \in BOOLEAN /\ wide \in BOOLEAN
    /\ entry = None \/ entry \in [ctx: Calls, until: Nat]
    /\ scopes \in [Calls -> [wide: BOOLEAN, late: BOOLEAN]]
    /\ \A o \in Ops : idem[o] = None \/ idem[o] \in [by: Calls, until: Nat]
    /\ op \in [Calls -> Ops]
    /\ call \in [Calls -> Request]
    /\ executed \subseteq Calls /\ log \subseteq executed
    /\ revokedAt \in Nat \cup {None}
    /\ underWay \subseteq Calls
    /\ emptied \in BOOLEAN
    /\ answered \in [Ops -> Nat \cup {None}]

\* Bound: at most one revoking call and one that changes the scopes.
Init ==
    /\ now = 0 /\ active = TRUE /\ wide = TRUE
    /\ entry = None
    /\ scopes = [c \in Calls |-> [wide |-> TRUE, late |-> FALSE]]
    /\ idem = [o \in Ops |-> None]
    /\ op \in [Calls -> Ops]
    /\ \A c, d \in Calls : op[c] = op[d] /\ op[c] \in {Revoke, Narrow} => c = d
    /\ call = [c \in Calls |-> At("idle")]
    /\ log = {} /\ executed = {}
    /\ revokedAt = None /\ underWay = {} /\ emptied = FALSE
    /\ answered = [o \in Ops |-> None]

Goto(c, step) == call' = [call EXCEPT ![c].at = step]
\* Answered, replayed, refused or dead.
End(c) == call' = [call EXCEPT ![c] = At("over")]

-----------------------------------------------------------------------------
(* LocalAuthenticator.authenticate.                                        *)

\* A request comes in; what the properties remember of that moment.
Arrived(c) == [call[c] EXCEPT !.late = ~wide, !.known = answered[op[c]]]

\* Whatever its age (a mutant of Fresh).
FreshForEver == entry # None

Fresh == entry # None /\ now < entry.until

Hit(c) ==
    /\ call[c].at = "idle"
    /\ Fresh
    /\ call' = [call EXCEPT ![c] = [Arrived(c) EXCEPT !.at = "known", !.ctx = entry.ctx]]
    /\ UNCHANGED <<now, active, wide, memory, idem, op, history>>

\* lookup_api_key: its SELECT.  A key that is not active answers 401.
LookUp(c) ==
    /\ call[c].at = "idle"
    /\ ~Fresh
    /\ IF active
       THEN call' = [call EXCEPT ![c] = [Arrived(c) EXCEPT !.at = "looked"]]
       ELSE End(c)
    /\ UNCHANGED <<now, active, wide, memory, idem, op, history>>

\* Its UPDATE of last_used_at, and the new context in the cache.
Fill(c) ==
    /\ call[c].at = "looked"
    /\ entry' = [ctx |-> c, until |-> now + CacheTTL]
    /\ call' = [call EXCEPT ![c].at = "known", ![c].ctx = c]
    /\ UNCHANGED <<now, active, wide, scopes, log, idem, op, history>>

-----------------------------------------------------------------------------
(* dispatch: scopes, idempotency, the handler.                             *)

\* The scopes the context already has (a mutant of ReadScopes).
ReadScopesOfContext(c) ==
    /\ call[c].at = "known"
    /\ call' = [call EXCEPT ![c].at = "read", ![c].wide = scopes[call[c].ctx].wide]
    /\ UNCHANGED <<now, active, wide, memory, idem, op, history>>

ReadScopes(c) ==
    /\ call[c].at = "known"
    /\ call' = [call EXCEPT ![c].at = "read", ![c].wide = wide]
    /\ UNCHANGED <<now, active, wide, memory, idem, op, history>>

\* request.auth.scopes = ...: the context is shared by every call that found
\* it in the cache.
SetScopes(c) ==
    /\ call[c].at = "read"
    /\ scopes' = [scopes EXCEPT ![call[c].ctx] = [wide |-> call[c].wide, late |-> call[c].late]]
    /\ call' = [call EXCEPT ![c].at = "scoped", ![c].wide = FALSE]
    /\ UNCHANGED <<now, active, wide, entry, log, idem, op, history>>

Cached(o) == idem[o] # None /\ now < idem[o].until

\* Answered from the cache: nothing is executed and no scope is required.
Replay(c) ==
    /\ call[c].at = "scoped"
    /\ Cached(op[c])
    /\ End(c)
    /\ UNCHANGED <<now, active, wide, memory, idem, op, history>>

Miss(c) ==
    /\ call[c].at = "scoped"
    /\ ~Cached(op[c])
    /\ Goto(c, "missed")
    /\ UNCHANGED <<now, active, wide, memory, idem, op, history>>

\* _require_scope; neither a revocation nor a change of scopes asks for one.
Permitted(c) == op[c] \in Writes => scopes[call[c].ctx].wide

Done(c) == executed' = executed \cup {c}

\* The handler's transaction.
Execute(c) ==
    /\ call[c].at = "missed" /\ op[c] \in Writes
    /\ IF Permitted(c)
       THEN Goto(c, "executed") /\ Done(c)
       ELSE End(c) /\ executed' = executed
    /\ UNCHANGED <<now, active, wide, memory, idem, op, revokedAt, underWay, emptied, answered>>

\* set_key_scopes.
ExecuteNarrow(c) ==
    /\ call[c].at = "missed" /\ op[c] = Narrow
    /\ wide' = FALSE
    /\ Goto(c, "executed") /\ Done(c)
    /\ UNCHANGED <<now, active, memory, idem, op, revokedAt, underWay, emptied, answered>>

LookingUp == {d \in Calls : call[d].at = "looked"}

\* revoke_api_key.
Deactivate ==
    /\ active' = FALSE
    /\ revokedAt' = IF active THEN now ELSE revokedAt
    /\ underWay' = IF active THEN LookingUp ELSE underWay

\* delete_keys_me: the UPDATE ...
ExecuteRevoke(c) ==
    /\ call[c].at = "missed" /\ op[c] = Revoke
    /\ Deactivate
    /\ Goto(c, "revoked") /\ Done(c)
    /\ UNCHANGED <<now, wide, memory, idem, op, emptied, answered>>

Emptied == None

\* ... and the invalidation of the cache.
Invalidate(c) ==
    /\ call[c].at = "revoked"
    /\ entry' = Emptied
    /\ emptied' = TRUE
    /\ Goto(c, "emptied")
    /\ UNCHANGED <<now, active, wide, scopes, log, idem, op, executed, revokedAt, underWay, answered>>

\* record_security_event, which swallows its failures.
Log(c) ==
    /\ call[c].at = "emptied"
    /\ log' \in {log, log \cup {c}}
    /\ Goto(c, "executed")
    /\ UNCHANGED <<now, active, wide, entry, scopes, idem, op, history>>

\* INSERT OR REPLACE with a short life (a mutant of Until).
UntilShort == now

Until == now + Day

\* cache_idempotent_response, and the answer.
Answer(c) ==
    LET o == op[c]
    IN /\ call[c].at = "executed"
       /\ idem' = [idem EXCEPT ![o] = [by |-> c, until |-> Until]]
       /\ answered' = [answered EXCEPT ![o] = now]
       /\ End(c)
       /\ UNCHANGED <<now, active, wide, memory, op, executed, revokedAt, underWay, emptied>>

\* The handler's thread dies, or the process restarts under it.
Die(c) ==
    /\ call[c].at \notin {"idle", "over"}
    /\ End(c)
    /\ UNCHANGED <<now, active, wide, memory, idem, op, history>>

-----------------------------------------------------------------------------
(* The rest of the world.                                                  *)

\* revoke_api_key from a shell (docs/security.md): another process, whose
\* cache is not this one's.
RevokeElsewhere ==
    /\ active
    /\ Deactivate
    /\ UNCHANGED <<now, wide, memory, idem, op, call, executed, emptied, answered>>

\* The cleanup's DELETE of expired rows.
Purge ==
    /\ \E o \in Ops : idem[o] # None /\ idem[o].until <= now
    /\ idem' = [o \in Ops |->
         IF idem[o] # None /\ idem[o].until <= now THEN None ELSE idem[o]]
    /\ UNCHANGED <<now, active, wide, memory, op, call, history>>

Restart ==
    /\ entry # None
    /\ entry' = None
    /\ call' = [c \in Calls |->
         IF call[c].at \in {"idle", "over"}
         THEN call[c] ELSE At("over")]
    /\ UNCHANGED <<now, active, wide, scopes, log, idem, op, history>>

Tick ==
    /\ now < Horizon
    /\ now' = now + 1
    /\ UNCHANGED <<active, wide, memory, idem, op, call, history>>

Handle(c) ==
    \/ Hit(c) \/ LookUp(c) \/ Fill(c)
    \/ ReadScopes(c) \/ SetScopes(c) \/ Replay(c) \/ Miss(c)
    \/ Execute(c) \/ ExecuteNarrow(c) \/ ExecuteRevoke(c) \/ Invalidate(c)
    \/ Log(c) \/ Answer(c) \/ Die(c)

Next ==
    \/ \E c \in Calls : Handle(c)
    \/ RevokeElsewhere \/ Purge \/ Restart \/ Tick

Spec == Init /\ [][Next]_vars

-----------------------------------------------------------------------------
(* Properties.                                                             *)

\* "The auth cache TTL is 60 seconds -- revocation is honored within that
\* window without restart" (docs/security.md:58): a request is let in later
\* than that only by a lookup that was under way when the key was revoked,
\* for an entry lives from the end of its lookup and not from the SELECT.
RevocationHonored ==
    [][\A c \in Calls :
         call'[c].at = "known" /\ call[c].at # "known" /\ ~active /\ now > revokedAt + CacheTTL
             => call'[c].ctx \in underWay]_vars

\* "The key becomes inactive immediately" (delete_keys_me): once the revoking
\* call has emptied the cache, an entry can only be that of a lookup that was
\* under way at the revocation.
RevokedStaysOut == emptied /\ entry # None => entry.ctx \in underWay

Executes(c) == call[c].at = "missed" /\ call'[c].at \in {"executed", "revoked"}

\* A write that arrived after the scopes were narrowed is not executed under
\* the wider ones, unless a call that arrived before had put them back: the
\* context is shared by all calls that found it in the cache.
NarrowedScopesHold ==
    [][\A c \in Calls :
         Executes(c) /\ op[c] \in Writes /\ call[c].late /\ scopes[call[c].ctx].wide
             => ~scopes[call[c].ctx].late]_vars

\* "Repeat the same key within 24h to get the same response without side
\* effects" (http.py:592): a call that arrives after the operation was
\* answered does not execute it again within the day.
RepeatedCallReplays ==
    [][\A c \in Calls :
         Executes(c) /\ call[c].known # None => now >= call[c].known + Day]_vars

\* A row of the idempotency cache holds the answer of an execution of that
\* operation, and no later than a day after it was answered.
CacheIsOfExecutions ==
    \A o \in Ops : idem[o] # None =>
        idem[o].by \in executed /\ op[idem[o].by] = o /\ idem[o].until <= answered[o] + Day

\* "If your request times out, retry with the same key -- you will get the
\* original response, not a duplicate side effect" (http.py:1068).
RetryExecutesOnce ==
    [][\A c \in Calls :
         Executes(c) /\ op[c] \in Writes /\ now < Day
             => \A d \in executed : op[d] # op[c]]_vars
=============================================================================
