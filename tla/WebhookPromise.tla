--------------------------- MODULE WebhookPromise ---------------------------
(***************************************************************************)
(* What the webhook queue promises of each event it has accepted, without  *)
(* rows or rounds: it is owed to its endpoint until the endpoint has taken *)
(* it or has been tried often enough; nothing is sent once it is settled;  *)
(* and it is forgotten only when it is settled and old enough.             *)
(***************************************************************************)
EXTENDS Integers

CONSTANTS Hooks, MaxAttempts, Week

VARIABLES
    clock,
    state,          \* of each event
    since,          \* when it was queued
    tries,          \* the POSTs sent for it
    accepted        \* those its endpoint answered with success

pvars == <<clock, state, since, tries, accepted>>

Init ==
    /\ clock = 0
    /\ state = [h \in Hooks |-> "unknown"]
    /\ since = [h \in Hooks |-> 0]
    /\ tries = [h \in Hooks |-> 0]
    /\ accepted = [h \in Hooks |-> 0]

Accept(h) ==
    /\ state[h] = "unknown"
    /\ state' = [state EXCEPT ![h] = "owed"]
    /\ since' = [since EXCEPT ![h] = clock]
    /\ UNCHANGED <<clock, tries, accepted>>

Try(h) ==
    /\ state[h] = "owed"
    /\ tries' = [tries EXCEPT ![h] = @ + 1]
    /\ \/ accepted' = [accepted EXCEPT ![h] = @ + 1]
       \/ accepted' = accepted
    /\ UNCHANGED <<clock, state, since>>

Settle(h) ==
    /\ state[h] = "owed"
    /\ accepted[h] > 0 \/ tries[h] >= MaxAttempts
    /\ state' = [state EXCEPT ![h] = "settled"]
    /\ UNCHANGED <<clock, since, tries, accepted>>

Forget(S) ==
    /\ \A h \in S : state[h] = "settled" /\ since[h] + Week < clock
    /\ state' = [h \in Hooks |-> IF h \in S THEN "forgotten" ELSE state[h]]
    /\ UNCHANGED <<clock, since, tries, accepted>>

Pass ==
    /\ clock' = clock + 1
    /\ UNCHANGED <<state, since, tries, accepted>>

Next ==
    \/ \E h \in Hooks : Accept(h) \/ Try(h) \/ Settle(h)
    \/ \E S \in SUBSET Hooks : Forget(S)
    \/ Pass

Spec == Init /\ [][Next]_pvars
=============================================================================
