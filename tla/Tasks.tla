------------------------------- MODULE Tasks --------------------------------
(***************************************************************************)
(* Channels found by name and by alias, and what is built on that: the     *)
(* task verbs, which create a channel, post to it and pair it with a       *)
(* result channel, transaction by transaction; the verb that lists a       *)
(* channel and claims the first task it can; the tool claim_task of the    *)
(* MCP server, which does that from outside, as an actor of its own; and a *)
(* worker's provisioning of the sandbox channel.                           *)
(*                                                                         *)
(* The task requests come from keys of one owner, to whom names are        *)
(* scoped, and ask for one name.  A request stands for itself, its         *)
(* message, the channel it created, if any, and its result channel.  The   *)
(* claim itself is one step here; ClaimLease has its interleavings.        *)
(***************************************************************************)
EXTENDS Integers, Sequences, FiniteSets, Functions

CONSTANTS
    Posts,          \* the requests and workers that create channels or post
    Consumers,      \* request threads that call the claim verb, in a loop
    Agents,         \* MCP servers that call claim_task, with one key
    Names,          \* the actors the agents claim as
    Page,           \* tasks the claim verb and claim_task list (20)
    Null

ASSUME TasksAssumption ==
    /\ Page \in Nat \ {0}
    /\ Names # {}
    /\ Null \notin Posts \cup Consumers \cup Names
    /\ Consumers \cap Names = {}

VARIABLES
    kind,           \* what each post is; it never changes
    post,           \* the handlers that post
    named,          \* the channels of that name, in the order of created_at
    home,           \* the channel each post uses, once it has one
    queue,          \* the messages, in the order of their insertion
    holder,         \* who holds each: a consumer, an actor of agents or Null
    acked,          \* those that were acknowledged
    replay,         \* the idempotency cache: the claims of agents it holds
    results,        \* the posts that have a result channel
    aliases,        \* those whose result channel has its alias
    published,      \* those that have a result
    received,       \* those whose poster has read it
    sandbox,        \* the channel with the alias `sandbox`
    consumer,       \* the handlers of the claim verb
    agent,          \* the sessions of the MCP servers
    released        \* (history) the tasks that were ever released

posts == <<kind, post, named, home, queue, results, aliases, sandbox>>
claims == <<holder, acked, replay, released>>
clients == <<consumer, agent, published, received>>
tasksVars == <<posts, claims, clients>>

Kinds == {"post", "post_with_result", "broadcast", "provision"}
Steps == {"idle", "unknown", "channel", "conflict", "message", "paired", "done", "dead"}
NoTask == [at |-> "idle", page |-> {}, task |-> Null]

\* Idempotency-Key: claim-{message}-{actor}.
Slots == Names \X Posts

claimed == {p \in Posts : holder[p] # Null}

TasksTypeOK ==
    /\ kind \in [Posts -> Kinds] /\ post \in [Posts -> Steps]
    /\ named \in Seq(Posts) /\ IsInjective(named)
    /\ home \in [Posts -> Posts \cup {Null}]
    /\ queue \in Seq(Posts) /\ IsInjective(queue)
    /\ holder \in [Posts -> Consumers \cup Names \cup {Null}]
    /\ claimed \subseteq Range(queue) /\ acked \subseteq Range(queue)
    /\ replay \subseteq Slots /\ released \subseteq Range(queue)
    /\ aliases \subseteq results /\ published \subseteq results
    /\ received \subseteq published
    /\ results \subseteq Range(queue)
    /\ sandbox \in Posts \cup {Null}
    /\ consumer \in [Consumers -> [at: {"away", "idle", "listed", "working"}, page: SUBSET Posts,
                                   task: Posts \cup {Null}]]
    /\ agent \in [Agents -> [at: {"away", "idle", "listed", "working"}, page: SUBSET Posts,
                             task: Posts \cup {Null}, name: Names]]

Session(name) == [at |-> "idle", page |-> {}, task |-> Null, name |-> name]

\* An instance has either clients of the verb or MCP servers, which use no
\* result channels.
TasksInit ==
    /\ post = [p \in Posts |-> "idle"]
    /\ named = <<>> /\ home = [p \in Posts |-> Null]
    /\ queue = <<>> /\ holder = [p \in Posts |-> Null] /\ acked = {}
    /\ replay = {} /\ released = {}
    /\ results = {} /\ aliases = {} /\ published = {} /\ received = {}
    /\ sandbox = Null
    /\ \/ /\ kind \in [Posts -> Kinds]
          /\ consumer = [c \in Consumers |-> NoTask]
          /\ agent = [a \in Agents |-> [Session(CHOOSE n \in Names : TRUE) EXCEPT !.at = "away"]]
       \/ /\ kind \in [Posts -> {"post", "broadcast"}]
          /\ consumer = [c \in Consumers |-> [NoTask EXCEPT !.at = "away"]]
          /\ \E name \in [Agents -> Names] : agent = [a \in Agents |-> Session(name[a])]

\* _resolve_channel by name: ORDER BY created_at DESC LIMIT 1.
Newest == named[Len(named)]

-----------------------------------------------------------------------------
(* task_post, task_post_with_result, task_broadcast.                       *)

Goto(p, step) == post' = [post EXCEPT ![p] = step]

\* create_channel, which never finds that there is one of that name.
CreateChannel(p) ==
    /\ post[p] = "idle" /\ kind[p] \in {"post", "post_with_result"}
    /\ named' = Append(named, p)
    /\ home' = [home EXCEPT ![p] = p]
    /\ Goto(p, "channel")
    /\ UNCHANGED <<kind, queue, results, aliases, sandbox, claims, clients>>

\* A broadcast resolves the name.
Resolve(p) ==
    /\ post[p] = "idle" /\ kind[p] = "broadcast"
    /\ named # <<>>
    /\ home' = [home EXCEPT ![p] = Newest]
    /\ Goto(p, "channel")
    /\ UNCHANGED <<kind, named, queue, results, aliases, sandbox, claims, clients>>

\* Answered without its result channel (a mutant of Insert).
InsertUnpaired(p) ==
    /\ post[p] = "channel" /\ kind[p] # "provision"
    /\ queue' = Append(queue, p)
    /\ Goto(p, "done")
    /\ UNCHANGED <<kind, named, home, results, aliases, sandbox, claims, clients>>

\* create_message.
Insert(p) ==
    /\ post[p] = "channel" /\ kind[p] # "provision"
    /\ queue' = Append(queue, p)
    /\ Goto(p, IF kind[p] = "post_with_result" THEN "message" ELSE "done")
    /\ UNCHANGED <<kind, named, home, results, aliases, sandbox, claims, clients>>

\* The result channel, and in the next transaction its alias.
Pair(p) ==
    /\ post[p] = "message"
    /\ results' = results \cup {p}
    /\ Goto(p, "paired")
    /\ UNCHANGED <<kind, named, home, queue, aliases, sandbox, claims, clients>>

Alias(p) ==
    /\ post[p] = "paired"
    /\ aliases' = aliases \cup {p}
    /\ Goto(p, "done")
    /\ UNCHANGED <<kind, named, home, queue, results, sandbox, claims, clients>>

PosterDies(p) ==
    /\ post[p] \notin {"idle", "done", "dead"}
    /\ Goto(p, "dead")
    /\ UNCHANGED <<kind, named, home, queue, results, aliases, sandbox, claims, clients>>

-----------------------------------------------------------------------------
(* task_claim_verb, task_publish_result.                                   *)

\* In the order of insertion.
Before(p, q) == \E i, j \in DOMAIN queue : i < j /\ queue[i] = p /\ queue[j] = q

FirstOf(S) == {p \in S : Cardinality({q \in S : Before(q, p)}) < Page}
IsHead(p, page) == p \in page /\ \A q \in page : ~Before(q, p)

\* The page, whatever the status (a mutant of Listing).
ListingAll(w) == FirstOf({p \in Range(queue) : home[p] = w})

\* list_messages(status="unclaimed"), oldest first.
Listing(w) == FirstOf({p \in Range(queue) : home[p] = w /\ p \notin claimed})

List(c) ==
    /\ consumer[c].at = "idle" /\ named # <<>>
    /\ Listing(Newest) # {}
    /\ consumer' = [consumer EXCEPT ![c] = [NoTask EXCEPT !.at = "listed", !.page = Listing(Newest)]]
    /\ UNCHANGED <<posts, claims, agent, published, received>>

\* The next of the page; "already_claimed" goes on, and after the last answers
\* {claimed: null}.
Try(c) ==
    /\ consumer[c].at = "listed"
    /\ \E p \in Posts :
         /\ IsHead(p, consumer[c].page)
         /\ IF p \notin claimed
            THEN /\ holder' = [holder EXCEPT ![p] = c]
                 /\ consumer' = [consumer EXCEPT ![c] = [NoTask EXCEPT !.at = "working", !.task = p]]
            ELSE /\ holder' = holder
                 /\ consumer' = [consumer EXCEPT ![c] =
                      IF consumer[c].page = {p} THEN NoTask
                      ELSE [consumer[c] EXCEPT !.page = consumer[c].page \ {p}]]
    /\ UNCHANGED <<posts, acked, replay, released, agent, published, received>>

\* The result channel, by its alias or, for the same owner, by its name.
Found(p) == p \in aliases \/ p \in results

\* 404 as long as it is not there.
Publish(c) ==
    LET p == consumer[c].task
    IN /\ consumer[c].at = "working" /\ kind[p] = "post_with_result"
       /\ Found(p)
       /\ published' = published \cup {p}
       /\ consumer' = [consumer EXCEPT ![c] = NoTask]
       /\ UNCHANGED <<posts, claims, agent, received>>

\* task_await_result, which the poster repeats until it is no longer answered
\* 404: it needs the id of the message, which it knows once it was answered.
Await(p) ==
    /\ post[p] = "done" /\ Found(p)
    /\ p \in published \ received
    /\ received' = received \cup {p}
    /\ UNCHANGED <<posts, claims, consumer, agent, published>>

\* The task needs no result, or the consumer gives up a task whose poster died.
\* It stays claimed.
Leave(c) ==
    LET p == consumer[c].task
    IN /\ consumer[c].at = "working"
       /\ kind[p] # "post_with_result" \/ post[p] = "dead"
       /\ consumer' = [consumer EXCEPT ![c] = NoTask]
       /\ UNCHANGED <<posts, claims, agent, published, received>>

ConsumerDies(c) ==
    /\ consumer[c].at = "listed"
    /\ consumer' = [consumer EXCEPT ![c] = NoTask]
    /\ UNCHANGED <<posts, claims, agent, published, received>>

-----------------------------------------------------------------------------
(* claim_task of the MCP server.                                           *)

Has(a, step, page, task) ==
    agent' = [agent EXCEPT ![a].at = step, ![a].page = page, ![a].task = task]

\* What of a page the tool tries: messages show their acknowledgements, but have
\* no field "status", so those that are claimed are tried as well.
Offered(page) == page \ acked

\* list_messages, then the loop; with nothing to try it answers at once.  A
\* session that was given a task may call the tool again.
ToolList(a) ==
    /\ agent[a].at \in {"idle", "working"} /\ named # <<>>
    /\ LET page == Offered(ListingAll(Newest))
       IN page # {} /\ Has(a, "listed", page, Null)
    /\ UNCHANGED <<posts, claims, consumer, published, received>>

\* claim-{message} (a mutant of ClaimSlot).
ClaimSlotOfMessage(n, p) == Names \X {p}

ClaimSlot(n, p) == {<<n, p>>}

\* The claim of the first of the page: replayed from the cache, made, or found
\* to be the actor's own already; 409 goes on to the next, and after the last
\* the tool answers that there are no unclaimed messages.
ToolTry(a) ==
    /\ agent[a].at = "listed"
    /\ \E p \in Posts :
         LET n == agent[a].name
             replayed == ClaimSlot(n, p) \cap replay # {}
         IN /\ IsHead(p, agent[a].page)
            /\ IF replayed \/ holder[p] \in {Null, n}
               THEN /\ holder' = IF replayed THEN holder ELSE [holder EXCEPT ![p] = n]
                    /\ replay' = replay \cup {<<n, p>>}
                    /\ Has(a, "working", {}, p)
               ELSE /\ UNCHANGED <<holder, replay>>
                    /\ IF agent[a].page = {p} THEN Has(a, "idle", {}, Null)
                       ELSE Has(a, "listed", agent[a].page \ {p}, Null)
    /\ UNCHANGED <<posts, acked, released, consumer, published, received>>

\* The session ends or starts again; its claim has no lease and stays.
AgentDies(a) ==
    /\ agent[a].at \in {"listed", "working"}
    /\ Has(a, "idle", {}, Null)
    /\ UNCHANGED <<posts, claims, consumer, published, received>>

\* release_message, which is no tool: another client of the actor calls it.
Release(p) ==
    /\ holder[p] \in Names /\ p \notin released
    /\ holder' = [holder EXCEPT ![p] = Null]
    /\ released' = released \cup {p}
    /\ UNCHANGED <<posts, acked, replay, clients>>

\* ack_message, which is no tool either: any client with access, whoever holds
\* the message.
Ack(p) ==
    /\ p \in Range(queue) \ acked
    /\ acked' = acked \cup {p}
    /\ UNCHANGED <<posts, holder, replay, released, clients>>

-----------------------------------------------------------------------------
(* ensure_sandbox_channel.                                                 *)

Given(p, channel) ==
    /\ home' = [home EXCEPT ![p] = channel]
    /\ Goto(p, "done")

\* The alias is there, or the channel has to be created.
LookUp(p) ==
    /\ post[p] = "idle" /\ kind[p] = "provision"
    /\ IF sandbox # Null THEN Given(p, sandbox)
       ELSE Goto(p, "unknown") /\ home' = home
    /\ UNCHANGED <<kind, named, queue, results, aliases, sandbox, claims, clients>>

\* create_channel commits; nothing removes the channel if the alias fails.
CreateSandbox(p) ==
    /\ post[p] = "unknown"
    /\ Goto(p, "channel")
    /\ UNCHANGED <<kind, named, home, queue, results, aliases, sandbox, claims, clients>>

\* create_channel_alias: its INSERT commits, or its SELECT finds the alias of
\* another worker and answers 409.  A worker whose INSERT meets the alias only
\* then dies of the UNIQUE constraint, which is no APIError.
AliasSandbox(p) ==
    /\ post[p] = "channel" /\ kind[p] = "provision"
    /\ IF sandbox = Null
       THEN sandbox' = p /\ Given(p, p)
       ELSE Goto(p, "conflict") /\ UNCHANGED <<sandbox, home>>
    /\ UNCHANGED <<kind, named, queue, results, aliases, claims, clients>>

\* The channel it has just created (a mutant of Winner).
WinnerIsSelf(p) == p

\* "A concurrent provisioner won the race -- re-resolve the alias."
Winner(p) == sandbox

ResolveAgain(p) ==
    /\ post[p] = "conflict"
    /\ Given(p, Winner(p))
    /\ UNCHANGED <<kind, named, queue, results, aliases, sandbox, claims, clients>>

-----------------------------------------------------------------------------
Post(p) ==
    \/ CreateChannel(p) \/ Resolve(p) \/ Insert(p) \/ Pair(p) \/ Alias(p) \/ PosterDies(p)
    \/ LookUp(p) \/ CreateSandbox(p) \/ AliasSandbox(p) \/ ResolveAgain(p)

Consume(c) == List(c) \/ Try(c) \/ Publish(c) \/ Leave(c) \/ ConsumerDies(c)

UseTool(a) == ToolList(a) \/ ToolTry(a) \/ AgentDies(a)

TasksNext ==
    \/ \E p \in Posts : Post(p) \/ Await(p) \/ Release(p) \/ Ack(p)
    \/ \E c \in Consumers : Consume(c)
    \/ \E a \in Agents : UseTool(a)

TasksSpec == TasksInit /\ [][TasksNext]_tasksVars

\* Clients keep calling the claim verb, publish the results they owe, and not
\* every call of theirs dies; a handler that posts goes on or dies, and who
\* posted awaits the result.
FairSpec ==
    /\ TasksSpec
    /\ \A c \in Consumers :
         /\ WF_tasksVars(List(c)) /\ SF_tasksVars(Try(c))
         /\ WF_tasksVars(Publish(c)) /\ WF_tasksVars(Leave(c))
    /\ \A p \in Posts : WF_tasksVars(Insert(p) \/ Pair(p) \/ Alias(p)) /\ WF_tasksVars(Await(p))

-----------------------------------------------------------------------------
(* Properties.                                                             *)

\* The name has gone to a newer channel.
Superseded(p) == named # <<>> /\ home[p] # Newest

VerbIsUsed == \A c \in Consumers : consumer[c].at # "away"

Waiting(p) == p \in Range(queue) /\ p \notin claimed

\* "Drain a channel and atomically claim the next unclaimed message"
\* (http.py:1512): a task in the channel that the name stands for does not
\* wait for ever behind the page's limit, though consumers race for the page
\* they listed, unless a newer channel takes the name.
NewestIsDrained ==
    \A p \in Posts : VerbIsUsed /\ Waiting(p) ~> ~Waiting(p) \/ Superseded(p)

\* "The producer can later GET /v1/tasks/{id}/result to await; the consumer
\* POSTs to /v1/tasks/{id}/result to publish" (http.py:1609): the poster of what
\* a living consumer works on receives its result, though the consumer may ask
\* for the result channel before that exists, unless the poster dies.
ResultIsReceived ==
    \A p \in Posts :
        (\E c \in Consumers : consumer[c].at = "working" /\ consumer[c].task = p)
        /\ kind[p] = "post_with_result"
            ~> p \in received \/ post[p] = "dead"

\* "Exactly one other agent can claim it" (mcp_server server.py:99): no two
\* actors are told that they hold one task, unless it was released in between:
\* then the cache still tells the first one that it does.
OneWorker ==
    \A a \in Agents :
        agent[a].at = "working" =>
            LET p == agent[a].task
            IN p \in released \/ \A b \in Agents :
                    agent[b].at = "working" /\ agent[b].task = p => agent[b].name = agent[a].name

\* "A concurrent provisioner won the race -- re-resolve the alias"
\* (store.py:3022): every worker that starts is given the one channel clients
\* find.
WorkersShareSandbox ==
    \A p \in Posts : kind[p] = "provision" /\ post[p] = "done" => home[p] = sandbox

\* "Create the work channel (idempotent -- caller may have created already)"
\* (http.py:1478): a task that waits is in the channel the name stands for.
TasksReachable == \A p \in Posts : Waiting(p) => home[p] = Newest

\* "Reads the most recent unclaimed message and atomically claims it"
\* (mcp_server server.py:142): claim_task gives out what nobody held.
ToolGivesUnclaimed ==
    [][\A a \in Agents :
         agent[a].at = "listed" /\ agent'[a].at = "working" => agent'[a].task \notin claimed]_tasksVars
=============================================================================
