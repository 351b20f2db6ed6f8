---------------------------- MODULE WorkOwnership ----------------------------
(***************************************************************************)
(* What a claimable channel promises about each of its messages, whatever  *)
(* the interleaving of requests, sweeps and cleanups: a message has at     *)
(* most one owner; ownership passes from one actor to another only when    *)
(* the owner's term has run out; a worker collects a message only then; a  *)
(* fence (lease token) is attached once, to one message, and when it has   *)
(* been detached it is never attached again; a term is prolonged only      *)
(* while its fence is attached.                                            *)
(***************************************************************************)
EXTENDS Integers

CONSTANTS
    Messages, Actors,
    Fences,         \* tokens an owner proves its term with
    Terms,          \* the instants at which a term may end
    None

VARIABLES
    clock,
    present,        \* the messages that still exist
    owner,          \* the owner of each message, or None
    term,           \* the end of the owner's term; None is without end
    fence,          \* the fence attached to each message, or None
    spent           \* the fences handed out so far

avars == <<clock, present, owner, term, fence, spent>>

Init ==
    /\ clock = 0
    /\ present = Messages
    /\ owner = [m \in Messages |-> None]
    /\ term = [m \in Messages |-> None]
    /\ fence = [m \in Messages |-> None]
    /\ spent = {}

Lapsed(m) == term[m] # None /\ term[m] <= clock

\* An actor takes a message that is free or whose owner's term has run out,
\* for good and without a fence, or for a term and with a fresh fence.
Take(m, a, k, e) ==
    /\ m \in present
    /\ owner[m] = None \/ Lapsed(m)
    /\ \/ k = None /\ e = None /\ spent' = spent
       \/ k \in Fences \ spent /\ e \in Terms /\ spent' = spent \cup {k}
    /\ owner' = [owner EXCEPT ![m] = a]
    /\ term' = [term EXCEPT ![m] = e]
    /\ fence' = [fence EXCEPT ![m] = k]
    /\ UNCHANGED <<clock, present>>

Prolong(m, e) ==
    /\ fence[m] # None
    /\ term' = [term EXCEPT ![m] = e]
    /\ UNCHANGED <<clock, present, owner, fence, spent>>

GiveUp(m) ==
    /\ owner' = [owner EXCEPT ![m] = None]
    /\ UNCHANGED <<clock, present, term, fence, spent>>

Cleared(f, S) == [m \in Messages |-> IF m \in S THEN None ELSE f[m]]

\* The messages of D disappear and, in the same step, those of R, whose
\* terms have run out, return to the pool.
Collect(R, D) ==
    /\ \A m \in R : Lapsed(m)
    /\ present' = present \ D
    /\ owner' = Cleared(owner, R \cup D)
    /\ term' = Cleared(term, R \cup D)
    /\ fence' = Cleared(fence, R \cup D)
    /\ UNCHANGED <<clock, spent>>

Waste(k) ==
    /\ spent' = spent \cup {k}
    /\ UNCHANGED <<clock, present, owner, term, fence>>

Pass ==
    /\ clock' = clock + 1
    /\ UNCHANGED <<present, owner, term, fence, spent>>

Next ==
    \/ \E m \in Messages, a \in Actors :
         \/ Take(m, a, None, None)
         \/ \E k \in Fences, e \in Terms : Take(m, a, k, e)
    \/ \E m \in Messages, e \in Terms : Prolong(m, e)
    \/ \E m \in Messages : GiveUp(m)
    \/ \E R, D \in SUBSET Messages : Collect(R, D)
    \/ \E k \in Fences : Waste(k)
    \/ Pass

Spec == Init /\ [][Next]_avars
=============================================================================
