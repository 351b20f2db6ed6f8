# Verification of Backchannel

TLA+ models of the Backchannel message service (`src/backchannel`) and of the
clients that rely on its races (`src/mcp_server`), the TLC configurations that
check them on small instances, and TLAPS proofs of the theorems that matter most
for instances of every size.

Backchannel gives agents *channels* of *messages* over HTTP. On a *claimable*
channel a message is a unit of work: an actor claims it, possibly under a lease
it must keep alive, and acknowledges it. Clients read a channel with a cursor
and may wait in a long-poll; channels and actors may have webhooks. One process
serves HTTP with a thread per request (`ThreadingWSGIServer`), a second one, the
worker, purges, reclaims leases and delivers webhooks. They share one SQLite
database in WAL mode and nothing else.

## How the code runs, and what an action is

Every store method opens its own connection. Python's `sqlite3` opens a
transaction only at the first INSERT, UPDATE or DELETE; from there to the commit
the handler holds SQLite's single write lock. Its SELECTs before that point are
not part of the transaction: each sees the state committed at its own moment.
So the models split a handler at these boundaries:

- a *read step* takes what the SELECTs return and what the handler remembers of it;
- a *write step* is one atomic action, from the first write to the commit;
- between two steps every other thread and the worker may run;
- `Abort`, `Die`, `Fail` and their like are the handler that dies between two
  steps: the server is killed, a query raises, the write lock is not had within
  `busy_timeout`. SQLite rolls the open transaction back, so nothing of a write
  step remains.

Where the code uses memory of the process (the authentication cache, the limiter's
deques, the long-poll's condition) a step ends at its lock or at the next
transaction, whichever comes first. Requests that are refused at their read step
change nothing and need no action.

## Inventory

For each component: its state; its operations; what is hard about it; what makes
it correct. The file is `store.py` unless another is named.

| Component | State | Operations | Hard behaviour | Correct when | Module |
|---|---|---|---|---|---|
| Claims and leases | claim columns of `messages`, `message_events` | claim, claim with lease, release, ack, heartbeat, retract, `reclaim_expired_leases` | decisions on rows read earlier; two processes | one holder, taken away only after its lease lapsed | `ClaimLease` |
| Reading and long-poll | `_channel_versions`, `_msg_condition`, `_longpoll_sem`; the client's cursor | `list_messages`, `_signal_new_message` | posts between capture, query and wait; permits; stamps before commits | no lost wakeup, no leaked permit, nothing skipped but latecomers and ties | `LongPoll` |
| Publishing | `messages`, limits and pause flag in `channels`, `mention_rate` | `create_message`, PATCH, kill switch, heartbeat bot | count and flag read before the insert; ring buffer; announcements after the commit | within its limits; an answered message is announced | `Publish` |
| Webhooks | `pending_webhooks`, `agent_webhooks` | `queue_webhook`, `deliver_pending_webhooks`, purge | POST and UPDATE are two steps; crash; backoff | at least once, at most five attempts plus crashes | `Webhooks` |
| Idempotency | `idempotency_cache`; middleware in `http.py` | look up, execute, store, purge | three transactions; retries in flight | a repeated call replays | `Dispatch` |
| Authentication, scopes | cache in `auth.py`; `api_keys`, `key_scopes` | authenticate, revoke, set scopes | 60 s cache and a context shared by threads, against revocation and narrowing | a revoked key is out within a bounded time | `Dispatch` |
| Issuing keys | `settings`, `api_keys`, `actors` | issue (public, operator, bot), revoke, open and close minting | check then insert | one active key per label | `Minting` |
| Rate limiting | deques in `rate_limit.py` | `check` with pruning and sweep | stamps taken before the lock | never more than the limit in a window | `Minting` |
| Proxies, base URL | none (`http.py`) | address, host, scheme, advertised base | headers that clients write and proxies append to | counted by client, advertised from the allow-list | `Gateway` |
| Membership | `channel_members`, `channel_invitations`, `channel_access_requests` | request, approve, deny, invite, join, revoke, add, remove, change access, delete | check and grant apart; approval queues a webhook on a second connection | members are those the log admits; no member, invitation or event outlives the channel | `Membership` |
| Retention | `audit_*`, `audit_cleanup_runs` | cleanup run, retraction, retention change | SELECT and DELETE apart; two cleanups at once | removed means archived; expired is purged | `Retention` |
| Channels by name, tasks, sandbox | `channels`, `channel_aliases` | create, resolve, task verbs, result channels, `ensure_sandbox_channel` | each verb is several transactions | work is drained, results arrive, one sandbox | `Tasks` |
| MCP `claim_task`, `post_task`, `await_result` | idempotency keys of the client | list, filter, claim | replayed answers | one actor works on a task | `Tasks` |
| Actors, aliases, `ensure_actor` | `actors`, `actor_aliases` | resolve or create, create, alias | check then insert; cache expiry | one identity per name and owner, and only one's own | `Registry` |
| Sessions | `sessions` | patch, delete | read, merge and write apart | patches are kept | `Registry` |
| Lists by page | events, history, discoverable channels | page by page | rows come and go; equal stamps | nothing is passed over | `Registry` |
| Worker | loop of `__main__.py` | cleanup, sweep, deliveries, bot, auto-pause | failures in one part must not stop the others | each job keeps being done | the modules of the tables |
| Landing page, documents, OpenAPI, humans | none | text | none | | not modelled |
| Observability | counters, logs | written, never read by the logic | none | | not modelled |
| Web UI, demos, scripts, SDK methods | none beyond the cursor | HTTP calls | none beyond the reader loop of `LongPoll` | | not modelled |

Interactions: publishing wakes the long-poll of its own process (condition
variable), queues webhooks, and trims rows that claims and readers may be using.
Cleanup ends claims, expires messages, and purges webhooks and the idempotency
cache. Membership, keys and actors decide who may call the rest; that decision is
re-read by every request, and the other models leave its outcome open instead of
following it. `Tasks` composes `create_channel`, `create_message`,
`list_messages` and `claim_message` the way the task verbs and the MCP server
do; `Minting` takes the address it counts by from `Gateway`. Modules that share a
table each have their own view of it, and keep the other handlers' effect on it as
an action (`Vanish`, `Trim`, `Purge`, `DeleteChannel`).

## Modules

`M_proofs` has the theorems about `M`, `MCM` the symmetry and the values of
constants that a `.cfg` cannot write. `Posting_proofs` has those about `Publish`
and `Webhooks`, what a post leads to; `Channels_proofs` those about `Membership`
and `Tasks`, who may use a channel and for what. Since one proof module extends
both, the names of `Publish` and `Tasks` carry the module's name where the
neighbour's would clash (`PublishTypeOK`, `TasksSpec`).

### ClaimLease

State: `live` the rows of `messages`; `claimedBy`, `claimedByKey`, `leaseToken`,
`leaseExpires` their columns; `acks` and `lastClaim` what the claim logic and the
audit trail see of `message_events`; `issued` the tokens generated; `req[t]` the
locals of the handler on thread `t`; `sweep` those of the worker's sweep.

| Code | Actions |
|---|---|
| `claim_message` | `ClaimRead`, `ClaimDecide` (the acknowledgement check, a second read), `ClaimWrite` |
| `claim_with_lease` | `ClaimRead`, `ClaimDecide`, `LeaseWrite` |
| `release_message`, `ack_message`, `heartbeat_lease`, `delete_message` | `ReleaseRead`/`Write`, `AckRead`/`Write`, `HeartbeatRead`/`Write`, `DeleteRead`/`Write` |
| `reclaim_expired_leases` | `SweepSelect`, `SweepWrite`, `AbortSweep` |
| the lease and message part of a cleanup | `Cleanup` (one transaction; its `now` may be older than the step) |
| ring buffer, `delete_channel` | `Trim`, `DeleteChannel` |

`WorkOwnership` is what a claimable channel promises, without threads or rows.
One key per actor, which is what `claimedByKey` needs: whether a key column is
forgotten, not which key it was.

### LongPoll

State: how far each post has come, its stamp, the rows a query can return, the
channel's version, the locals of each reader's request, the cursor and what the
client received, the permits.

| Code | Actions |
|---|---|
| `create_message`, in order | `Stamp`, `Commit`, `Reread`, `Signal` |
| `list_messages`, in order | `Capture`, then `Reply` or `FindNothing`, `Acquire`, `CheckVersion` and the wait, `TimeOut`, `Requery` |
| a query that raises, a client that leaves | `Fail` |
| trim, retraction, purge | `Vanish` |

Posts outside `Local` are those of another process, which has a notifier of its
own. The filters `status` and `expiring_before` only narrow the query.

### Publish

State: the channel's flag and limits, its rows (a set of posts, each with its
stamp `at` and its place `nth` in rowid order), the locals of each post (stamp and
limits it read, mentions left), `mention_rate`, what `queue_webhook` was called
for, the worker's memory of having tripped. As history: `posted`, every row that
was inserted; `trimmed`, the places of those the ring buffer discarded;
`escaped`, the stamps of those that were retracted, or discarded by a buffer that
cannot hold what the rate admits; `seen`, the mentions pushed before a dispatch
began; `slipped`, the posts inserted since a pause. A handler ends `done` when it
answers, `gone` when its second read finds no row (the 404), `failed` when it is
refused or dies.

| Code | Actions |
|---|---|
| `create_message` | `Begin`, `Count`, `Insert` (INSERT, trim and commit), `Reread`, `Announce` |
| `_dispatch_mention_webhooks` | `Consider`, `Mark`, `Push` for each agent |
| `post_sandbox_heartbeat_if_quiet` | `Look`, then `Begin` or `BeginPaused` |
| pause, auto-pause, PATCH, restart of the worker | `SetPaused`, `AutoTrip`, `SetLimits`, `Restart` |
| retraction, cleanup of an expired row | `Vanish` |

Agents' webhooks are set and deleted at any time, so `Consider` leaves open
whether its SELECT finds one.

### Webhooks

State: the events queued and their rows with `attempts`, `due`, `deliveredAt`,
`createdAt`; `round`, the locals of `deliver_pending_webhooks`; at the endpoints'
side what was sent and accepted; `lost`, POSTs whose outcome no UPDATE recorded.

| Code | Actions |
|---|---|
| `queue_webhook` | `Queue` |
| `deliver_pending_webhooks` | `Select`, then for each row `Send` and `Record`; `Raise` for a URL that `urllib.request.Request` refuses |
| the worker dies, an UPDATE raises | `Abandon` |
| the two DELETEs of the cleanup | `Purge` |

`WebhookPromise` is what the queue promises of one event.

### Dispatch

State: the key and its scopes, the authentication cache's entry, the context each
lookup created, the idempotency cache, each call's place and what it read.

| Code | Actions |
|---|---|
| `LocalAuthenticator.authenticate` | `Hit`, or `LookUp` and `Fill` |
| `dispatch`: scopes | `ReadScopes`, `SetScopes` (into the shared context) |
| `dispatch`: idempotency | `Replay` or `Miss`, and `Answer` at the end |
| the handler | `Execute`, `ExecuteNarrow` (`set_key_scopes`), `ExecuteRevoke`, `Invalidate`, `Log` (`delete_keys_me`) |
| `revoke_api_key` from a shell, cleanup, restart | `RevokeElsewhere`, `Purge`, `Restart` |

### Minting and Gateway

`Gateway` has `_resolve_remote_addr`, `_resolve_host`, `_resolve_scheme` and
`_advertised_base` as functions of a request, and how proxies build
`X-Forwarded-For`. `Minting`: the switch, the deques, each request's place, stamp
and what it saw, the rows of `api_keys` and `actors`.

| Code | Actions |
|---|---|
| `issue_key`, `admin_issue_key`, the bot's key | `Gate`, `AdminGate`, `BotLook` |
| `SlidingWindowLimiter.check`, `_prune`, `_maybe_sweep` | `Stamp`, `Admit` |
| `issue_api_key` | `CheckLabel`, `InsertKey` |
| minting switch, revocation, restart | `SetMinting`, `RevokeKey`, `Restart` |

### Membership

State: whether the channel exists, its access mode, `channel_members`, the last
event about each key, the access requests, the invitations, each handler between
its reads and its write; who admitted each member, and which requests two
resolutions found pending, as history.

| Code | Actions |
|---|---|
| `create_access_request`, `resolve_access_request` | `AskRead`/`Write`, `ResolveRead`, `Approve`, `ApproveLocked` (with a webhook), `Deny` |
| `create_`, `get_`, `revoke_channel_invitation` | `InviteRead`/`Write`, `JoinRead`/`Write`, `RevokeRead`/`Write`, `Lapse`, `Purge` |
| `add_`, `remove_channel_member` | `OwnerRead`, `Add`, `Remove` |
| PATCH of the access mode, `delete_channel` | `PatchRead`/`Write`, `DeleteChannel` |

Foreign keys and the unique index over pending requests are guards of the write
steps, since they are what the schema still checks there.

### Retention

State: the rows of messages and invitations with what removed them and when, the
archive, each cleaner's run and selection, each thread's retraction.

| Code | Actions |
|---|---|
| `archive_and_cleanup_expired_records` | `Begin` (the run's row), `Select`, `Write` (the whole transaction), `Fail`, `Crash` |
| `delete_message` | `RetractRead`, `RetractWrite`, `RetractDies` |
| post, ack, trim, revoke, retention change, delete | `Post`, `Ack`, `Trim`, `Revoke`, `SetRetention`, `DeleteChannel` |

### Tasks

State: the channels of one name in order of creation, which of them each request
uses, the messages with their holders and acknowledgements, result channels and
their aliases, the sandbox alias, the claims in the idempotency cache, the loops
of consumers and MCP sessions. The page a client works through is the set of the
rows left of it, taken by their order in the queue.

| Code | Actions |
|---|---|
| `task_post`, `task_post_with_result`, `task_broadcast` | `CreateChannel` or `Resolve`, `Insert`, `Pair`, `Alias` |
| `task_claim_verb` | `List`, `Try` for each row of the page |
| `task_publish_result`, `task_await_result` | `Publish`, `Await` |
| MCP `claim_task`, a session that ends | `ToolList`, `ToolTry`, `AgentDies` |
| `ack_message`, `release_message` by some client (they are no tools) | `Ack`, `Release` |
| `ensure_sandbox_channel` | `LookUp`, `CreateSandbox`, `AliasSandbox`, `ResolveAgain` |

### Registry

State: `actors` in order of insertion, `actor_aliases`, the cached creations, the
requests about them; the session and its patches; a table and a client that reads
it in pages.

| Code | Actions |
|---|---|
| `_resolve_or_create_actor` | `Resolve`, `Store` |
| `create_actor` behind the idempotency cache, `ensure_actor` | `Ensure`, `Create`, `Answer` |
| `create_actor_alias` | `AliasRead`, `AliasWrite` |
| `patch_session`, `delete_session` | `PatchRead`, `PatchWrite`, `DeleteSession` |
| `list_channel_events`, `list_channel_history`, `list_discoverable_channels` | `ReadEvents`, `ReadHistory`, `ReadChannels`, with `Appear` and `Vanish` |

## What the runs check

| Run | Instance | Shows |
|---|---|---|
| `claim_safety` | 1 message, 2 actors, 2 threads, 2 tokens, leases of 1 and 2 ticks | `ClaimRowConsistent`, `ClaimHeldUntilLapse` |
| `claim_ownership` | 2 messages, 1 thread and the worker, fair | `ImplementsOwnership` (the refinement), `LapsedLeaseIsCollected` |
| `longpoll` | 2 readers, 1 permit, pages of 1, a local post and one of the worker, fair | `PermitsConserved`, `NoLostWakeup`, `LocalPostsWake`, `SkipsOnlyLateAndTied` |
| `webhooks` | 3 events, one malformed; 2 attempts (5 in the code), 1 row per round (50), 1 lost POST, fair | `AttemptsCounted`, `RepeatsOnlyAfterLoss`, `KeepsPromise` (the refinement), `DueIsServed` |
| `publish` | 2 posts and a heartbeat, 2 in flight, buffers of 1 (smaller than rate and lanes require) and 2 (as large), 1 write per minute of 1 tick | `TrimsOldestFirst`, `WriteRateBounded`, `PauseStopsPosting`, `MentionsCoalesced`, `AnsweredIsAnnounced` |
| `dispatch` | 3 calls of one write, a revocation or a change of scopes; caches of 1 tick | `RevocationHonored`, `NarrowedScopesHold`, `RepeatedCallReplays` |
| `minting` | 3 requests of 2 clients, directly or by a proxy, with a header that names either; limit 1 in 2 ticks, sweep every 2 | `LimitHolds`, `OwnBucket`, `LabelsUnique` |
| `membership` | 1 key, 2 requests, 1 invitation, 3 threads | `MembershipIsLogged`, `NothingOutlivesChannel`, `DenialStands` |
| `retention` | 1 message, 1 invitation, 2 cleaners, 1 retracting thread, retentions of 2 and 3 ticks, fair | `HistoryKept`, `ExpiredIsPurged` |
| `tasks` | 2 posts of any kind, 2 consumers or 2 MCP sessions of any names, pages of 1 (20 in the code), fair | `OneWorker`, `WorkersShareSandbox`, `NewestIsDrained`, `ResultIsReceived` |
| `registry` | 3 requests of 3 keys and 2 owners and 1 name, or 3 patches, or 3 rows in pages of 2 | `OwnActorsOnly`, `SameName`, `EnsureAgrees`, `PatchesKept`, `NothingPassedOver` |
| `claim_acked_taken` (a violation) | as `claim_safety` | `AckedNeverTakenAway` fails: an acknowledgement that commits between a claimer's (or a sweep's) check and its UPDATE does not stop the takeover, though `claim_message` says a claim is taken only if "never acked" |

Why the bounds are enough. The races of the store are between the read and the
write step of one handler and one or two other handlers that commit in between;
a further thread repeats the role of one of them. Rows do not influence one
another except through tokens (two rows in `claim_ownership`), through the order
and the limit of a page or round (three events, three rows, pages of one or two),
and through the ring buffer (three posts, buffers of one and two). Clocks run
as far as the longest time-out needs to end and be followed by one more step:
two ticks let a lease lapse, be taken over and lapse again, let a revoked key
outlive its cache entry, and let a retention end. Limits and attempts of one or
two have a first, a middle and a last outcome. The proofs remove the bounds for
the properties they cover.

Deadlock is not checked where a run of requests ends: the instances of `publish`,
`dispatch`, `minting`, `membership`, `retention`, `tasks` and `registry` have
finitely many requests and a bounded clock, and stop when these are used up.

### Stated in the modules, refuted, and not run

These say what a document, a comment or a test says, in the module of the
component, with the sentence. TLC finds a counterexample to each; the property
that *does* hold stands next to it and is run or proved.

| Definition | What the code does |
|---|---|
| `ClaimLease!ReleasedByItsHolder` | `release_message` compares the holder at its read only and may clear the claim of the next holder |
| `ClaimLease!HeartbeatOnHeldLease` | a release leaves the token behind; heartbeats on it are still answered 200 |
| `LongPoll!NothingBehindCursor` | a post that commits after a later-stamped one, or shares the stamp of a full page's end, is never delivered |
| `Publish!AcceptsAtMostRate` | the write rate counts rows that are left: what was retracted, or discarded by a small buffer, makes room within the minute |
| `Webhooks!DueIsTried` | a URL without a scheme makes `Request` raise outside the `try`; the row stays first in line and nothing behind it is tried |
| `Dispatch!RetryExecutesOnce` | a retry while the first call is in flight, or after a crash before its answer is stored, executes again |
| `Membership!ApprovalAdmits` | an approval on a channel with a `webhook_url` waits for its own write lock until the busy time-out and fails |
| `Tasks!TasksReachable` | `task_post` always creates a channel, so older tasks are no longer found under the name |
| `Tasks!ToolGivesUnclaimed` | `claim_task` lists the oldest messages and tests a field `status` that they do not have, so an actor is given its own claimed task again |

## Fairness

- `ClaimLease!FairSpec`: the worker loop starts a sweep every `--lease-interval`
  seconds and catches whatever one raises (`WF` of `SweepSelect`); a sweep may
  fail any number of times, but not every time (`SF` of `SweepWrite`). The clock
  runs. Nothing is assumed of request threads.
- `LongPoll!FairSpec`: a committed post goes on; a reader's thread is scheduled
  and its client asks again; requests may fail, but not all of them (`SF` of a
  reply with data and of the second query). Nothing is assumed of `TimeOut`: the
  wakeup alone must suffice.
- `Webhooks!FairSpec`: the worker begins a round every turn, whatever the last
  one raised; a POST ends within its time-out; rounds are abandoned, but no event
  meets its end at every try. A round that raises (`Raise`) is no failure that
  goes away: it is what the code does every time.
- `Retention!FairSpec`: the worker's loop begins runs, which fail on a locked
  database or are killed, but not every one (`SF` of `Select` and `Write`). The
  command line's cleaner need never run.
- `Tasks!FairSpec`: clients call the claim verb in a loop, publish what they owe,
  and not all of their calls die; a posting handler goes on or dies; who posted
  awaits. These are assumptions about clients: without them a task may of course
  wait. Nothing is assumed of MCP sessions.

## What is proved

TLAPS checks these for every value of the constants that satisfies the named
assumption of the module (`SetsAssumption` and `TimesAssumption` of `ClaimLease`,
`LongPollAssumption`, `PublishAssumption`, `WebhooksAssumption`,
`DispatchAssumption`, `GatewayAssumption` and `MintingAssumption`,
`MembershipAssumption`, `TasksAssumption`, `RetentionAssumption`,
`RegistryAssumption`): positive limits and times, finite sets where the code
counts, a largest rate limit, NULL different from every value, ids that are
nobody's name. For each module `Invariance` (`PublishInvariance`,
`TasksInvariance`) shows an inductive invariant `IInv`, with one step per action,
and the theorems follow from it; an invariant that only one property needs stands
beside that property and is proved on top of `IInv`. The invariants, type
correctness and the other properties below that no run lists were checked by TLC
on the same instances before they were proved; the theorem covers those instances
and all others. Every safety invariant and action property of the passing runs is
a theorem here.

- `ClaimLease_proofs`: `TypeCorrect`, `RowsConsistent`, `TrailNamesHolder`,
  `TokensUnique`, `HeldUntilLapse`, `OwnershipImplemented`. The write steps act on
  what a handler remembers, so `IInv` adds `PendingSound`: what each handler and
  the sweep remember was taken no later than now, and a token a request carries
  has been issued. The actions fall into five shapes of what they do to a row
  (granted, released, prolonged, collected, untouched); each shape is treated
  once. `HeldUntilLapse` holds because the UPDATEs of a takeover and a sweep
  repeat the lease comparison with a time that is not in the future.
- `LongPoll_proofs`: `TypeCorrect`, `PermitsNeverLeak` (by counting the holders
  before and after each step) and `WakeupNeverLost`, from `WakeSound`: a request
  that captured version v and found nothing has, as long as the version is v, been
  shown every message whose signal is over. That is what capturing the version
  before the query buys. `CursorSkipsLittle` needs only that the rows a query can
  return are finitely many and committed (`LiveSound`): the lemma `PagePasses`
  shows that a page leaves behind its last stamp nothing but rows tied with it,
  and whatever commits later with an older stamp is late.
- `Posting_proofs`, about `Publish`: `PublishTypeCorrect`, `TrimsOldest`,
  `WriteRateHolds`, `PauseHolds`, `AnswersAreSound`, `MentionsAreCoalesced`.
  `PublishInv` adds to the types that no more posts are under way than there are
  lanes. The rate is proved of every message accepted, not of the rows that are
  left. Stamps are taken before the INSERT, but only a handler in flight when a
  row was inserted can follow with an older one (`FewOvertaken`), so what a large
  enough buffer discards is older, but for those few, than all it keeps. Hence,
  when a message of the minute has been discarded and none escaped, as many rows
  of the minute are left as the largest rate, and the count lets nobody pass
  (`CountSuffices`). `RateSafe` charges a handler that has passed its count as its
  row would be: those and the accepted messages of any minute are at most
  `Ceiling`, the largest rate and the lanes less one, since a post that passes
  found fewer rows than its rate and the others past the check fill the remaining
  lanes. So a minute with more messages needs a retraction or a small buffer.
  `PauseSafe` counts likewise: posts that slipped through a pause and those that
  still may were all under way when it was thrown. `AnswerSafe`: a row belongs to
  one post, so that between commit and second read only that row's own removal
  can turn the answer into a 404. `MentionSafe` follows a mark in `mention_rate`
  to its push and beyond: the table shows that mark or a later one, unless a
  dispatch with an older clock has written over it, and so two pushes less than a
  minute apart, one of which saw the other, betray such a third dispatch.
- `Posting_proofs`, about `Webhooks`: `TypeCorrect`, `AttemptsExact`, `RowsWait`,
  `RepeatsExplained`, `PromiseKept`. A row in hand is undelivered, below the bound and older than its
  round (`RoundFresh`), which is why the purge misses it; a delivered row was
  accepted after it was queued (`HistorySound`), which makes it old enough when
  it is purged; every success is on record, on its way or lost
  (`SuccessesCounted`).
- `Dispatch_proofs`: `TypeCorrect`, `ReplaysAreExecutions`, `RevokedKeysStayOut`,
  `RevocationIsHonored`, `RepeatsReplay`, `NarrowingHolds`. An entry made before
  the revocation ends within the cache's life of it, one made after is of a lookup
  that was under way (`EntrySound`); a call that missed the cache came before the
  answer or a day after it (`AnswersSound`); a late call has read narrow scopes, and a
  context it wrote to is wide again only if an earlier call put that back
  (`ScopesSound`).
- `Minting_proofs`: about `Gateway`, `ClientIsRecognised` (through any chain of
  trusted proxies, whatever header the client brings, the address found is the
  client's) and `AdvertisesAllowedHost`; about `Minting`, `TypeCorrect`,
  `BucketsAreOwn`, `LabelsStayUnique`, `ClosingStopsMinting`, `LimiterHolds`. `IInv` says what a
  handler's look is still worth later: the address is the client's
  (`Recognised`), no key it saw under its label is active (`SeenInactive`), and
  it read an open switch or the switch was closed since (`GateHeld`).
  `LimiterHolds` comes from `FairInv`: as long as stamps are admitted in order, a
  bucket is sorted (`Sorted`), and what a prune or a sweep dropped from it is too
  old for the next admission to count (`Counted`), so a full bucket is what every
  window of the limiter's length must find.
- `Channels_proofs`, about `Membership`: `TypeCorrect`, `MembershipFollowsLog`, `DeletionIsComplete`,
  `RequestsUnique`, `DenialsStand`, `RevocationStops`. Two resolutions of one
  request know of each other (`RacesSeen`), so what one finds already resolved
  when it writes is on record as a race. `RevocationStops` counts: what slipped
  through a revoked invitation and what still may are fewer than the threads, for
  the revoking thread is not among them.
- `Channels_proofs`, about `Tasks`: `TasksTypeCorrect`, `TaskHasOneWorker`,
  `SandboxIsShared`. A replayed answer may say "claimed" long after the claim, so
  `HoldersTold` says of every agent at work and every cached claim that the task
  is still held by that name or has been released since. `PostsSound` gives the
  provisioner that lost the race for the sandbox alias a channel to resolve it to.
- `Retention_proofs`: `TypeCorrect`, `ArchiveKeeps`, `CompletedRunsPurge`,
  `LettersAreArchived`. A run removes rows on the strength of a selection older
  than its transaction; `SelectionCovers` and `LettersCover` say that the DELETEs
  find nothing the SELECTs had not, except invitations revoked late.
  `HistoryDated` gives each removed message an archived row whose stamp is no older than
  the removal, so no purge takes it before a retention is over.
- `Registry_proofs`: `TypeCorrect`, `ActorsAreOwned`, `AliasesUnique`,
  `NamesAgree`, `EnsureIsIdempotent`, `PatchesStay`, `PagesAreComplete`,
  `DeletedSessionsStayGone`. A request inserts
  only its own row, and what it acted as belongs to its owner (`OpsSound`); a patch
  that was answered is in what later writers have read or on record as missed
  (`PatchesSound`). That two uses of a name, one after the other, mean one actor needs
  `AgreeInv` on top: what an earlier request acted as is the alias or the oldest
  row of the name among those it could see, and nobody who is about to create an
  actor follows a use that found one (`NamesHeld`); the cached creation is the
  newest answer and outlives each answer's day (`CacheSound`).

Model-checked only:

- liveness (`LapsedLeaseIsCollected`, `LocalPostsWake`, `DueIsServed`,
  `ExpiredIsPurged`, `NewestIsDrained`, `ResultIsReceived`): liveness under
  fairness and ENABLED are out of the prover's reach;
- the one property of the run that expects a violation.

## Not modelled

- `landing.py`, `openapi.py`, `humans.py` and the document routes: text
  generation without state. Together they are nearly a third of the
  implementation's lines.
- `observability.py`: counters and logs that the logic never reads.
- The JSON-schema validator of a channel (`store.py:88-151`): a pure function
  that only refuses; what it decides is open in `Publish`.
- The security audit log but for the revocation's entry in `Dispatch`: it is
  written after the fact, its failures are swallowed, and only its owner reads it.
- The slices of the worker's loop and the size trip's threshold: durations, and
  a file size that nothing in the models determines (`AutoTrip` may happen at any
  time, once per process).
- `task_claim_and_ack` (claim then ack, both in `ClaimLease`),
  `task_create_claimable_session` and `task_subscribe` (single calls of operations
  modelled elsewhere).
- Routing, request parsing, CORS headers, error pages; validation of fields.
- `set_actor_webhook`, `delete_actor_webhook`: `Publish` leaves open what a
  dispatch finds.
- SDK methods, the n8n node, the remaining MCP tools (one HTTP call each), the web
  UI, demos, plugin and scripts.

## Observations

What the models showed of the code besides the refuted sentences above. No run
depends on them.

Claims and tasks
- Two overlapping acknowledgements of one actor are both recorded and both
  answered; `message_events` has no UNIQUE constraint for them.
- `delete_message` deletes by id: a message claimed after its check is retracted
  under its holder.
- The sweep and the takeover skip every message with any `ack` event, also one of
  another actor or from before a release; such a message, leased by an actor that
  crashes, stays held until it expires.
- The cleanup's lease UPDATE leaves `claimed_by_key_id` behind, the sweep's does
  not; `ClaimRowConsistent` therefore speaks of held messages only.
- A claim without lease of a crashed consumer is never reclaimed.
- `claim_and_ack` compares an id with a name: retried by actor name it answers 409
  for the caller's own claim.
- The MCP `claim_task` tests a field `status` that messages do not have, so
  its page of the 20 oldest includes claimed tasks, which starve later ones, and
  an actor gets its own task again until somebody acknowledges it, for which the
  server has no tool; after
  a release a replayed claim still tells the first actor that it holds the task;
  sessions of one actor name get the same task. `await_result` reads the 100
  oldest messages only. `post_task` and `broadcast` expect a 409 that
  `create_channel` never gives.
- A consumer may publish before the result channel exists and is answered 404.

Publishing, reading, webhooks
- The write rate counts surviving rows only, so a ring buffer smaller than the
  rate, or a client that retracts what it posts, raises it without bound. The
  trim uses the limit read at the start of the post. Any key a channel admits may
  PATCH its limits.
- A crash between the mark in `mention_rate` and the queueing loses that minute's
  mention; a crash between a message's commit and its queueing loses its webhook.
- A dispatch that began earlier than another may overwrite its mark with an older
  clock; the next mention of that agent then comes within the minute.
- Two heartbeat bots may both post into one silence.
- A reader does not wake for posts of another process; it sees them when its wait
  times out.
- Webhooks are delivered once per cleanup interval (24 h by default), while the
  backoff is counted in seconds.
- Lists by `created_at` alone skip rows tied with the last row of a page.
- The schema validator accepts `True` for `integer` and `number`.

Requests, keys, identity
- Clients that repeat a legal sequence (PATCH `paused` true, false, true; DELETE,
  POST, DELETE of a member) get the third answer from the automatic idempotency
  cache; a client's own key is not scoped by method and path; a replay does not
  check access or scopes again.
- A cache entry of a key lives from the end of its lookup; scopes are shared by
  all threads of an entry and may be put back by an earlier call.
- Labels can be taken twice in a race (no UNIQUE constraint), nothing keeps a
  client from the bot's label, and a death between INSERT and answer leaves a label
  to a key that nobody has.
- Stamps taken before the lock may stand out of order in a deque; the sweep, which
  looks at the last one, may then evict a live bucket. `LimitHolds` is stated for
  stamps in order.
- A malformed `X-Forwarded-Host` is not followed by a try of `Host`.
- `ensure_actor`, documented as idempotent, creates a second actor after the
  24 h of the cache, or for another key of the owner; concurrent first uses leave two
  actors of one name; an alias equal to another owner's actor name makes that
  owner's requests by the name fail with 403.
- Losers of a race for a unique index are answered 500; so is a patch of a session
  that was deleted meanwhile. Of two concurrent patches one may be lost.

Membership and retention
- Access requests have no foreign key and outlive their channel;
  `NothingOutlivesChannel` speaks of members, invitations and events.
- A message that is retracted and cleaned up at once is archived twice; a
  retraction archives no events; an invitation revoked between SELECT and DELETE
  is purged unarchived; a crashed run stays `running`.
- A provisioner that fails after creating the sandbox channel leaves an orphan.

## Plan

Done: the modules above with their runs, and the proofs of every safety property
they check. What is left, in this order:

1. Statements that hold of `ClaimLease` beside the refuted ones: how many claims a
   release that read too early can clear, and that a retraction under a holder
   leaves no row behind.
2. What the proof modules say of recovery: that an action which dies (`Abandon`,
   `Crash`, `RetractDies`) leaves a state from which each invariant above still
   gives the next run its precondition, as theorems about single steps.
