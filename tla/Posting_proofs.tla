--------------------------- MODULE Posting_proofs ---------------------------
(***************************************************************************)
(* Theorems about Publish, for every set of requests, agents and limits,   *)
(* and about Webhooks, the queue its events go to, for every set of        *)
(* events, every limit and every number of crashes, checked by TLAPS.  The *)
(* two components share no state and no name; the second part begins with  *)
(* the invariant of Webhooks.                                              *)
(***************************************************************************)
EXTENDS Publish, Webhooks, FiniteSetTheorems, WellFoundedInduction, TLAPS

-----------------------------------------------------------------------------
(* Publish: types, the rows and the lanes.                                 *)

\* What a handler has read of the limits, and whom it is notifying.
Sound(h) ==
    /\ h.at \in {"begun", "allowed"} => h.keep \in Keeps /\ h.rate \in Rates
    /\ h.at \in {"marking", "pushing"} => h.agent \in h.todo
LocalsSound == \A m \in Posts : Sound(post[m])

\* Posts fill no more than the lanes.
LanesSuffice == IsFiniteSet(UnderWay) /\ Cardinality(UnderWay) <= Lanes

RowsFinite == IsFiniteSet(rows)

PublishInv == PublishTypeOK /\ LocalsSound /\ LanesSuffice /\ RowsFinite

\* A handler's place is one of the steps.
LEMMA AtTyped == \A step \in Steps : At(step) \in Handler
BY PublishAssumption DEF At, Handler

LEMMA RemainingTyped ==
    ASSUME NEW todo \in SUBSET Agents, NEW c \in Nat, NEW seen \in SUBSET (Posts \X Agents)
    PROVE  /\ Remaining(todo, c, seen) \in Handler
           /\ Remaining(todo, c, seen).at \in {"mentions", "done"}
BY PublishAssumption DEF At, Handler, Remaining, Steps

\* Lanes are only taken by a request that begins, while one is free.
LEMMA LanesKept ==
    ASSUME LanesSuffice, NEW m,
           \/ UnderWay' \subseteq UnderWay
           \/ Cardinality(UnderWay) < Lanes /\ UnderWay' \subseteq UnderWay \cup {m}
    PROVE  LanesSuffice'
<1>1. CASE UnderWay' \subseteq UnderWay
  BY <1>1, FS_Subset, FS_CardinalityType, PublishAssumption DEF LanesSuffice
<1>2. CASE Cardinality(UnderWay) < Lanes /\ UnderWay' \subseteq UnderWay \cup {m}
  <2>1. IsFiniteSet(UnderWay \cup {m}) /\ Cardinality(UnderWay \cup {m}) <= Cardinality(UnderWay) + 1
    BY FS_AddElement, FS_CardinalityType DEF LanesSuffice
  <2>2. IsFiniteSet(UnderWay') /\ Cardinality(UnderWay') <= Cardinality(UnderWay \cup {m})
    BY <1>2, <2>1, FS_Subset
  <2>3. Cardinality(UnderWay) \in Nat /\ Cardinality(UnderWay') \in Nat /\ Cardinality(UnderWay \cup {m}) \in Nat
    BY <2>1, <2>2, FS_CardinalityType DEF LanesSuffice
  <2>4. QED
    BY <1>2, <2>1, <2>2, <2>3, PublishAssumption DEF LanesSuffice
<1>3. QED
  BY <1>1, <1>2

LEMMA PublishInvInit == PublishInit => PublishInv
<1> SUFFICES ASSUME PublishInit PROVE PublishInv
  OBVIOUS
<1>1. UnderWay = {}
  BY DEF PublishInit, UnderWay, At
<1>2. LanesSuffice
  BY <1>1, FS_EmptySet, PublishAssumption DEF LanesSuffice
<1>3. RowsFinite
  BY FS_EmptySet DEF PublishInit, RowsFinite
<1>4. post \in [Posts -> Handler]
  BY AtTyped DEF PublishInit, Steps
<1>5. PublishTypeOK
  BY <1>4 DEF PublishInit, PublishTypeOK
<1>6. LocalsSound
  BY DEF PublishInit, LocalsSound, Sound, At
<1>7. QED
  BY <1>2, <1>3, <1>5, <1>6 DEF PublishInv

\* Requests that have the database as it was.
LEMMA HandlerKeeps ==
    ASSUME PublishInv, NEW m \in Posts, UNCHANGED <<time, database, tripped, slipped>>,
           Begin(m) \/ BeginPaused(m) \/ Count(m) \/ Reread(m)
           \/ (\E a \in Agents : Consider(m, a)) \/ Die(m) \/ Look(m)
    PROVE  PublishInv'
<1> USE DEF PublishInv, Sound, messages
<1> DEFINE Moves(h) ==
             /\ post' = [post EXCEPT ![m] = h]
             /\ Sound(h)
             /\ m \in UnderWay \/ h.at \in {"gone", "failed"} \/ Cardinality(UnderWay) < Lanes
<1>1. \E h \in Handler : Moves(h)
  <2>1. CASE Begin(m)
    <3> DEFINE h == [At("begun") EXCEPT !.stamp = time, !.keep = channel.keep, !.rate = channel.rate]
    <3>1. h \in Handler /\ h.at = "begun" /\ h.keep \in Keeps /\ h.rate \in Rates
      BY DEF PublishTypeOK, At, Handler, Steps
    <3>2. QED
      BY <2>1, <3>1 DEF Begin, MayBegin, UnderWay
  <2>2. CASE BeginPaused(m)
    BY <2>2, AtTyped DEF BeginPaused, Steps, At
  <2>3. CASE Count(m)
    <3>1. m \in UnderWay /\ post[m] \in Handler /\ post[m].keep \in Keeps /\ post[m].rate \in Rates
      BY <2>3 DEF Count, UnderWay, LocalsSound, PublishTypeOK
    <3>2. CASE Allowed(m)
      <4>1. PICK M \in SUBSET Agents : post' = [post EXCEPT ![m].at = "allowed", ![m].todo = M]
        BY <2>3, <3>2 DEF Count
      <4> DEFINE h == [post[m] EXCEPT !.at = "allowed", !.todo = M]
      <4>2. post' = [post EXCEPT ![m] = h]
        BY <4>1 DEF PublishTypeOK
      <4>3. h \in Handler /\ h.at = "allowed" /\ h.keep \in Keeps /\ h.rate \in Rates
        BY <3>1 DEF Handler, Steps
      <4>4. QED
        BY <3>1, <4>2, <4>3
    <3>3. CASE ~Allowed(m)
      BY <2>3, <3>1, <3>3, AtTyped DEF Count, Steps, At
    <3>4. QED
      BY <3>2, <3>3
  <2>4. CASE Reread(m)
    <3>1. m \in UnderWay /\ post[m] \in Handler
      BY <2>4 DEF Reread, UnderWay, PublishTypeOK
    <3> DEFINE h == [post[m] EXCEPT !.at = "answered"]
    <3>2. h \in Handler /\ h.at = "answered"
      BY <3>1 DEF Handler, Steps
    <3>3. post' = [post EXCEPT ![m] = h] \/ post' = [post EXCEPT ![m] = At("gone")]
      BY <2>4 DEF Reread, PublishTypeOK
    <3>4. QED
      BY <3>1, <3>2, <3>3, AtTyped DEF Steps, At
  <2>5. ASSUME NEW a \in Agents, Consider(m, a)
        PROVE  \E h \in Handler : Moves(h)
    <3>1. m \in UnderWay /\ post[m] \in Handler
      BY <2>5 DEF Consider, UnderWay, PublishTypeOK
    <3> DEFINE h == [post[m] EXCEPT !.at = "marking", !.agent = a]
    <3>2. h \in Handler /\ h.at = "marking" /\ h.agent \in h.todo
      BY <2>5, <3>1 DEF Consider, Handler, Steps
    <3>3. Rest(m, a) \in Handler /\ Rest(m, a).at \in {"mentions", "done"}
      BY <3>1, RemainingTyped DEF Handler, Rest
    <3>4. post' = [post EXCEPT ![m] = h] \/ post' = [post EXCEPT ![m] = Rest(m, a)]
      BY <2>5 DEF Consider, PublishTypeOK
    <3>5. QED
      BY <3>1, <3>2, <3>3, <3>4
  <2>6. CASE Die(m)
    BY <2>6, AtTyped DEF Die, Steps, At
  <2>7. CASE Look(m)
    <3>1. post[m] \in Handler
      BY DEF PublishTypeOK
    <3> DEFINE h == [post[m] EXCEPT !.at = "quiet"]
    <3>2. h \in Handler /\ h.at = "quiet"
      BY <3>1 DEF Handler, Steps
    <3>3. QED
      BY <2>7, <3>2 DEF Look
  <2>8. QED
    BY <2>1, <2>2, <2>3, <2>4, <2>5, <2>6, <2>7
<1>2. PICK h \in Handler : Moves(h)
  BY <1>1
<1>3. PublishTypeOK' /\ LocalsSound'
  BY <1>2 DEF PublishTypeOK, LocalsSound, database, messages
<1>4. LanesSuffice'
  <2>1. UnderWay' \subseteq UnderWay \cup {m}
    BY <1>2 DEF UnderWay, PublishTypeOK
  <2>2. m \in UnderWay \/ h.at \in {"gone", "failed"} => UnderWay' \subseteq UnderWay
    BY <1>2 DEF UnderWay, PublishTypeOK
  <2>3. QED
    BY <1>2, <2>1, <2>2, LanesKept
<1>5. RowsFinite'
  BY DEF RowsFinite, database
<1>6. QED
  BY <1>3, <1>4, <1>5
\* The four steps of a handler that change the database.
LEMMA WriteKeeps ==
    ASSUME PublishInv, NEW m \in Posts,
           Insert(m) \/ Announce(m) \/ Mark(m) \/ Push(m)
    PROVE  PublishInv'
<1> USE DEF PublishInv, Sound, messages
<1> DEFINE Moves(h) ==
             /\ post' = [post EXCEPT ![m] = h]
             /\ h.at \notin {"begun", "allowed"} /\ Sound(h)
<1>1. m \in UnderWay /\ post[m] \in Handler
  BY DEF Insert, Announce, Mark, Push, UnderWay, PublishTypeOK
<1>2. ASSUME NEW h \in Handler, Moves(h)
      PROVE  post' \in [Posts -> Handler] /\ LocalsSound' /\ LanesSuffice'
  <2>1. post' \in [Posts -> Handler] /\ LocalsSound'
    BY <1>2 DEF PublishTypeOK, LocalsSound, Insert, Announce, Mark, Push
  <2>2. UnderWay' \subseteq UnderWay
    BY <1>1, <1>2 DEF UnderWay, PublishTypeOK
  <2>3. QED
    BY <2>1, <2>2, LanesKept
<1>3. CASE Insert(m)
  <2> DEFINE row == [post |-> m, at |-> post[m].stamp, nth |-> Place]
  <2> DEFINE all == rows \cup {row}
  <2> DEFINE out == Excess(all, post[m].keep)
  <2> DEFINE h == [At("stored") EXCEPT !.todo = post[m].todo]
  <2>1. h \in Handler /\ Moves(h)
    BY <1>1, <1>3, AtTyped DEF Insert, At, Handler, Steps
  <2>2. row \in Row /\ inserted' = inserted + 1 /\ row.nth = inserted'
    BY <1>1, <1>3 DEF Insert, Place, Row, Handler, PublishTypeOK
  <2>3. out \subseteq all
    BY DEF Excess
  <2>4. rows' = all \ out /\ trimmed' = trimmed \cup {r.nth : r \in out}
    BY <1>3 DEF Insert
  <2>5. \A r \in all : r \in Row /\ r.nth \in 1..inserted'
    BY <2>2 DEF PublishTypeOK, Row
  <2>6. inserted' \in Nat /\ rows' \subseteq Row /\ (\A r \in rows' : r.nth \in 1..inserted')
        /\ trimmed' \subseteq 1..inserted'
    <3>1. trimmed \subseteq 1..inserted'
      BY <2>2 DEF PublishTypeOK
    <3> HIDE DEF all, out, row
    <3>2. rows' \subseteq all /\ {r.nth : r \in out} \subseteq 1..inserted'
      BY <2>3, <2>4, <2>5
    <3>3. inserted' \in Nat
      BY <2>2 DEF PublishTypeOK
    <3>4. QED
      BY <2>4, <2>5, <3>1, <3>2, <3>3
  <2>10. posted' \subseteq Row
    BY <1>3, <2>2 DEF Insert, PublishTypeOK
  <2>11. escaped' \subseteq Nat
    <3>1. \A r \in out : r.at \in Nat
      BY <2>3, <2>5 DEF Row
    <3>2. escaped' \subseteq escaped \cup {r.at : r \in out}
      BY <1>3 DEF Insert
    <3> HIDE DEF out
    <3>3. QED
      BY <3>1, <3>2 DEF PublishTypeOK
  <2>7. RowsFinite'
    <3>1. IsFiniteSet(all)
      BY FS_AddElement DEF RowsFinite
    <3>2. QED
      BY <2>4, <3>1, FS_Subset DEF RowsFinite
  <2>8. slipped' \in Nat
    BY <1>3 DEF Insert, PublishTypeOK
  <2>9. QED
    BY <1>2, <1>3, <2>1, <2>6, <2>7, <2>8, <2>10, <2>11 DEF Insert, PublishTypeOK
<1>4. CASE Announce(m)
  <2> DEFINE h == Remaining(post[m].todo, time, Notified)
  <2>5. Notified \subseteq Posts \X Agents /\ time \in Nat /\ post[m].todo \subseteq Agents
    BY <1>1 DEF Handler, Notified, PublishTypeOK
  <2>1. h \in Handler /\ h.at \in {"mentions", "done"}
    BY <2>5, RemainingTyped
  <2>2. Moves(h)
    BY <1>4, <2>1 DEF Announce
  <2>3. announced' \subseteq Posts
    BY <1>4 DEF Announce, Announced, PublishTypeOK
  <2>4. QED
    BY <1>2, <1>4, <2>1, <2>2, <2>3 DEF Announce, PublishTypeOK, RowsFinite
<1>5. CASE Mark(m)
  <2> DEFINE h == [post[m] EXCEPT !.at = "pushing"]
  <2>1. h \in Handler /\ h.at = "pushing" /\ h.agent = post[m].agent /\ h.todo = post[m].todo
    BY <1>1 DEF Handler, Steps
  <2>5. post' = [post EXCEPT ![m] = h] /\ Sound(h)
    BY <1>5, <2>1 DEF Mark, PublishTypeOK, LocalsSound
  <2>2. Moves(h)
    BY <2>1, <2>5
  <2>3. lastSent' \in [Agents -> Nat \cup {Null}]
    BY <1>1, <1>5 DEF Mark, PublishTypeOK, Handler
  <2>4. QED
    BY <1>2, <1>5, <2>1, <2>2, <2>3 DEF Mark, PublishTypeOK, RowsFinite
<1>6. CASE Push(m)
  <2> DEFINE h == Rest(m, post[m].agent)
  <2>1. h \in Handler /\ h.at \in {"mentions", "done"}
    BY <1>1, RemainingTyped DEF Handler, Rest
  <2>2. Moves(h)
    BY <1>6, <2>1 DEF Push
  <2> DEFINE e == [post |-> m, agent |-> post[m].agent, clock |-> post[m].clock,
                   seen |-> post[m].seen]
  <2>5. post[m].agent \in Agents
    BY <1>1, <1>6 DEF Push, LocalsSound, Handler
  <2>6. e \in [post: Posts, agent: Agents, clock: Nat, seen: SUBSET (Posts \X Agents)]
    BY <1>1, <2>5 DEF Handler
  <2>3. pushed' \subseteq [post: Posts, agent: Agents, clock: Nat, seen: SUBSET (Posts \X Agents)]
    BY <1>6, <2>6 DEF Push, PublishTypeOK
  <2>4. QED
    BY <1>2, <1>6, <2>1, <2>2, <2>3 DEF Push, PublishTypeOK, RowsFinite
<1>7. QED
  BY <1>3, <1>4, <1>5, <1>6

\* The operators, the worker and the rest of the world.
LEMMA WorldKeeps ==
    ASSUME PublishInv,
           \/ AutoTrip \/ Elapse
           \/ \E b \in BOOLEAN : SetPaused(b)
           \/ \E k \in Keeps, r \in Rates : SetLimits(k, r) \/ Restart(k, r)
           \/ \E m \in Posts : Vanish(m)
           \/ UNCHANGED publishVars
    PROVE  PublishInv'
<1> USE DEF PublishInv, Sound, messages
<1>1. CASE \E k \in Keeps, r \in Rates : Restart(k, r)
  <2>1. /\ post' \in [Posts -> Handler]
        /\ \A m \in Posts : post'[m] = post[m] \/ post'[m] = At("failed")
    BY <1>1, AtTyped DEF Restart, PublishTypeOK, Steps
  <2>4. LocalsSound' /\ UnderWay' \subseteq UnderWay
    BY <2>1 DEF LocalsSound, UnderWay, At
  <2>2. LanesSuffice'
    BY <2>4, LanesKept
  <2>3. QED
    BY <1>1, <2>1, <2>2, <2>4 DEF Restart, PublishTypeOK, RowsFinite
<1>2. CASE \E m \in Posts : Vanish(m)
  <2>1. RowsFinite' /\ rows' \subseteq rows
    BY <1>2, FS_Subset DEF Vanish, RowsFinite
  <2>3. escaped' \subseteq Nat
    BY <1>2 DEF Vanish, PublishTypeOK, Row
  <2>2. QED
    BY <1>2, <2>1, <2>3 DEF Vanish, PublishTypeOK, LocalsSound, LanesSuffice, UnderWay
<1>3. ASSUME UNCHANGED <<messages, lastSent, announced, pushed, post>>,
             channel' \in [paused: BOOLEAN, keep: Keeps, rate: Rates],
             time' \in Nat, tripped' \in BOOLEAN, slipped' \in Nat
      PROVE  PublishInv'
  <2>1. LocalsSound' /\ LanesSuffice' /\ RowsFinite'
    BY <1>3 DEF LocalsSound, LanesSuffice, RowsFinite, UnderWay
  <2>2. QED
    BY <1>3, <2>1 DEF PublishTypeOK
<1>4. CASE AutoTrip \/ \E b \in BOOLEAN : SetPaused(b)
  <2>1. PICK b \in BOOLEAN : Pause(b)
    BY <1>4 DEF AutoTrip, SetPaused
  <2>2. channel' \in [paused: BOOLEAN, keep: Keeps, rate: Rates] /\ slipped' \in Nat
    BY <2>1 DEF Pause, PublishTypeOK
  <2>3. /\ UNCHANGED <<time, messages, lastSent, announced, pushed, post>>
        /\ tripped' \in BOOLEAN
    BY <1>4 DEF AutoTrip, SetPaused, PublishTypeOK
  <2>4. QED
    BY <1>3, <2>2, <2>3 DEF PublishTypeOK
<1>5. CASE \E k \in Keeps, r \in Rates : SetLimits(k, r)
  <2>1. channel' \in [paused: BOOLEAN, keep: Keeps, rate: Rates]
    BY <1>5 DEF SetLimits, PublishTypeOK
  <2>2. QED
    BY <1>3, <1>5, <2>1 DEF SetLimits, PublishTypeOK
<1>7. CASE Elapse \/ UNCHANGED publishVars
  <2>1. time' \in Nat
    BY <1>7 DEF Elapse, publishVars, PublishTypeOK
  <2>2. UNCHANGED <<channel, messages, lastSent, announced, pushed, post,
                    tripped, slipped>>
    BY <1>7 DEF Elapse, publishVars, database, messages
  <2>3. QED
    BY <1>3, <2>1, <2>2 DEF PublishTypeOK
<1>8. QED
  BY <1>1, <1>2, <1>4, <1>5, <1>7

LEMMA PublishInvStep == PublishInv /\ [PublishNext]_publishVars => PublishInv'
<1> SUFFICES ASSUME PublishInv, [PublishNext]_publishVars PROVE PublishInv'
  OBVIOUS
<1>1. ASSUME NEW m \in Posts,
             Begin(m) \/ BeginPaused(m) \/ Count(m) \/ Reread(m)
             \/ (\E a \in Agents : Consider(m, a)) \/ Die(m) \/ Look(m)
      PROVE  PublishInv'
  <2>1. UNCHANGED <<time, database, tripped, slipped>>
    BY <1>1 DEF Begin, BeginPaused, Count, Reread, Consider, Die, Look
  <2>2. QED
    BY <1>1, <2>1, HandlerKeeps
<1>2. ASSUME NEW m \in Posts, Insert(m) \/ Announce(m) \/ Mark(m) \/ Push(m)
      PROVE  PublishInv'
  BY <1>2, WriteKeeps
<1>3. QED
  BY <1>1, <1>2, WorldKeeps DEF PublishNext, Handle

THEOREM PublishInvariance == PublishSpec => []PublishInv
BY PublishInvInit, PublishInvStep, PTL DEF PublishSpec

\* The variables of Publish have their types in every state.
THEOREM PublishTypeCorrect == PublishSpec => []PublishTypeOK
<1>1. PublishInv => PublishTypeOK
  BY DEF PublishInv
<1>2. QED
  BY <1>1, PublishInvariance, PTL

-----------------------------------------------------------------------------
(* How handlers move.                                                      *)

\* A step moves one handler, or fails some.
LEMMA OneHandlerMoves ==
    ASSUME PublishInv, [PublishNext]_publishVars, NEW m \in Posts
    PROVE  \/ post'[m] = post[m] \/ post'[m] = At("failed")
           \/ Look(m) \/ Begin(m) \/ Count(m) \/ Insert(m) \/ Reread(m) \/ Announce(m)
           \/ (\E a \in Agents : Consider(m, a)) \/ Mark(m) \/ Push(m)
<1> DEFINE Goal == post'[m] = post[m] \/ post'[m] = At("failed")
<1>1. ASSUME NEW n \in Posts, n # m, Handle(n) \/ Die(n) \/ Look(n)
      PROVE  Goal
  BY <1>1 DEF Handle, Look, Begin, BeginPaused, Count, Insert, Reread, Announce, Consider, Mark, Push, Die,
              PublishInv, PublishTypeOK
<1>2. ASSUME BeginPaused(m) \/ Die(m)
      PROVE  Goal
  BY <1>2 DEF BeginPaused, Die, PublishInv, PublishTypeOK
<1>3. ASSUME NEW k \in Keeps, NEW r \in Rates, Restart(k, r)
      PROVE  Goal
  BY <1>3 DEF Restart
<1>4. CASE post' = post
  BY <1>4
<1>5. QED
  BY <1>1, <1>2, <1>3, <1>4
  DEF PublishNext, Handle, Vanish, AutoTrip, SetPaused, SetLimits, Elapse, publishVars

\* Where each step takes its handler.
LEMMA StepsFollow ==
    ASSUME PublishInv, NEW m \in Posts
    PROVE  /\ Look(m) => post[m].at = "idle" /\ post'[m].at = "quiet"
           /\ Begin(m) => post[m].at \in {"idle", "quiet"} /\ post'[m].at = "begun"
           /\ Count(m) => /\ post[m].at = "begun" /\ post'[m].at \in {"allowed", "failed"}
                          /\ post'[m].stamp = post[m].stamp \/ post'[m].at = "failed"
           /\ Insert(m) => post[m].at = "allowed" /\ post'[m].at = "stored"
           /\ Reread(m) => post[m].at = "stored" /\ post'[m].at \in {"answered", "gone"}
           /\ Announce(m) => post[m].at = "answered" /\ post'[m].at \in {"mentions", "done"}
           /\ Mark(m) => /\ post[m].at = "marking"
                         /\ post'[m] = [post[m] EXCEPT !.at = "pushing"]
           /\ Push(m) => post[m].at = "pushing" /\ post'[m].at \in {"mentions", "done"}
           /\ \A a \in Agents : Consider(m, a) =>
                post[m].at = "mentions" /\ post'[m].at \in {"marking", "mentions", "done"}
<1> USE DEF PublishInv, PublishTypeOK
<1>0. post[m] \in Handler
  OBVIOUS
<1>1. Look(m) => post[m].at = "idle" /\ post'[m].at = "quiet"
  BY <1>0 DEF Look, Handler
<1>2. Begin(m) => post[m].at \in {"idle", "quiet"} /\ post'[m].at = "begun"
  BY DEF Begin, MayBegin, At
<1>3. Count(m) => /\ post[m].at = "begun" /\ post'[m].at \in {"allowed", "failed"}
                  /\ post'[m].stamp = post[m].stamp \/ post'[m].at = "failed"
  BY <1>0 DEF Count, At, Handler
<1>4. Insert(m) => post[m].at = "allowed" /\ post'[m].at = "stored"
  BY DEF Insert, At
<1>5. Reread(m) => post[m].at = "stored" /\ post'[m].at \in {"answered", "gone"}
  BY <1>0 DEF Reread, At, Handler
<1>6. Announce(m) => post[m].at = "answered" /\ post'[m].at \in {"mentions", "done"}
  BY DEF Announce, Remaining, At
<1>7. Mark(m) => post[m].at = "marking" /\ post'[m] = [post[m] EXCEPT !.at = "pushing"]
  BY DEF Mark
<1>8. Push(m) => post[m].at = "pushing" /\ post'[m].at \in {"mentions", "done"}
  BY DEF Push, Rest, Remaining, At
<1>9. ASSUME NEW a \in Agents, Consider(m, a)
      PROVE  post[m].at = "mentions" /\ post'[m].at \in {"marking", "mentions", "done"}
  <2>1. Rest(m, a).at \in {"mentions", "done"}
    BY DEF Rest, Remaining, At
  <2>2. [post[m] EXCEPT !.at = "marking", !.agent = a].at = "marking"
    BY <1>0 DEF Handler
  <2>3. \/ post'[m] = Rest(m, a) \/ post'[m] = [post[m] EXCEPT !.at = "marking", !.agent = a]
    BY <1>9 DEF Consider
  <2>4. QED
    BY <1>9, <2>1, <2>2, <2>3 DEF Consider
<1>10. QED
  BY <1>1, <1>2, <1>3, <1>4, <1>5, <1>6, <1>7, <1>8, <1>9

-----------------------------------------------------------------------------
(* The ring buffer.                                                        *)

\* What the buffer keeps was inserted after what it discards.
LEMMA ExcessIsOldest ==
    ASSUME NEW all, IsFiniteSet(all), \A r \in all : r.nth \in Nat, NEW keep \in Nat,
           NEW r \in all \ Excess(all, keep), NEW x \in Excess(all, keep)
    PROVE  r.nth > x.nth
<1> SUFFICES ASSUME r.nth <= x.nth PROVE FALSE
  BY DEF Excess
<1> DEFINE From(y) == {z \in all : z.nth >= y.nth}
<1>1. x \in all /\ Cardinality(From(x)) > keep /\ ~(Cardinality(From(r)) > keep)
  BY DEF Excess
<1>2. From(x) \subseteq From(r)
  BY <1>1
<1>3. IsFiniteSet(From(r)) /\ Cardinality(From(x)) <= Cardinality(From(r))
  <2>1. IsFiniteSet(From(r))
    BY FS_Subset, From(r) \subseteq all
  <2>2. QED
    BY <1>2, <2>1, FS_Subset
<1>4. Cardinality(From(r)) \in Nat /\ Cardinality(From(x)) \in Nat
  BY <1>2, <1>3, FS_CardinalityType, FS_Subset
<1>5. QED
  BY <1>1, <1>3, <1>4

\* A burst that shares a time stamp, or handlers that insert in another order
\* than they took theirs, still trim the oldest first.
THEOREM TrimsOldest == PublishSpec => []TrimsOldestFirst
<1>1. PublishInit => TrimsOldestFirst
  BY DEF PublishInit, TrimsOldestFirst
<1>2. PublishInv /\ TrimsOldestFirst /\ [PublishNext]_publishVars => TrimsOldestFirst'
  <2> SUFFICES ASSUME PublishInv, TrimsOldestFirst, [PublishNext]_publishVars
               PROVE  TrimsOldestFirst'
    OBVIOUS
  <2> USE DEF PublishInv
  <2>1. ASSUME NEW m \in Posts, Insert(m)
        PROVE  TrimsOldestFirst'
    <3> DEFINE row == [post |-> m, at |-> post[m].stamp, nth |-> Place]
    <3> DEFINE all == rows \cup {row}
    <3> DEFINE out == Excess(all, post[m].keep)
    <3>1. rows' = all \ out /\ trimmed' = trimmed \cup {r.nth : r \in out}
      BY <2>1 DEF Insert
    <3>2. IsFiniteSet(all)
      BY FS_AddElement DEF RowsFinite
    <3>3. \A r \in all : r.nth \in Nat
      BY DEF PublishTypeOK, Place, Row
    <3>4. post[m].keep \in Nat
      BY <2>1, PublishAssumption DEF Insert, LocalsSound, Sound
    <3>5. \A r \in all, n \in trimmed : r.nth > n
      BY DEF TrimsOldestFirst, PublishTypeOK, Place
    <3> HIDE DEF row, all
    <3>6. \A r \in rows', x \in out : r.nth > x.nth
      BY <3>1, <3>2, <3>3, <3>4, ExcessIsOldest
    <3>7. QED
      BY <3>1, <3>5, <3>6 DEF TrimsOldestFirst
  <2>2. ASSUME NEW m \in Posts, Vanish(m)
        PROVE  TrimsOldestFirst'
    BY <2>2 DEF Vanish, TrimsOldestFirst
  <2>3. ASSUME ~(\E m \in Posts : Insert(m) \/ Vanish(m))
        PROVE  UNCHANGED <<rows, trimmed>>
    BY <2>3
    DEF PublishNext, Handle, Begin, BeginPaused, Count, Reread, Announce, Consider, Mark, Push, Die,
        Look, AutoTrip, SetPaused, SetLimits, Restart, Elapse, publishVars, database, messages
  <2>4. QED
    BY <2>1, <2>2, <2>3 DEF TrimsOldestFirst
<1>3. QED
  BY <1>1, <1>2, PublishInvariance, PTL DEF PublishSpec
-----------------------------------------------------------------------------
(* What the buffer leaves.                                                 *)

LEMMA OneMore ==
    ASSUME NEW S, IsFiniteSet(S), NEW x
    PROVE  /\ IsFiniteSet(S \cup {x}) /\ Cardinality(S \cup {x}) \in Nat
           /\ Cardinality(S \cup {x}) <= Cardinality(S) + 1
<1>1. /\ IsFiniteSet(S \cup {x})
      /\ Cardinality(S \cup {x}) = IF x \in S THEN Cardinality(S) ELSE Cardinality(S) + 1
  BY FS_AddElement
<1>2. Cardinality(S) \in Nat
  BY FS_CardinalityType
<1>3. QED
  BY <1>1, <1>2

LEMMA SmallerSet ==
    ASSUME NEW S, IsFiniteSet(S), NEW R \in SUBSET S
    PROVE  /\ IsFiniteSet(R) /\ Cardinality(R) \in Nat /\ Cardinality(S) \in Nat
           /\ Cardinality(R) <= Cardinality(S)
BY FS_Subset, FS_CardinalityType

LEMMA LeastOfSet ==
    ASSUME NEW T \in SUBSET Nat, T # {}
    PROVE  \E x \in T : \A y \in T : x <= y
<1> DEFINE R == {ss \in Nat \X Nat : ss[1] < ss[2]}
<1>1. IsWellFoundedOn(R, Nat)
  BY NatLessThanWellFounded DEF OpToRel
<1>2. \A y, x \in Nat : y < x => <<y, x>> \in R
  OBVIOUS
<1> HIDE DEF R
<1>3. PICK x \in T : \A y \in T : ~(<<y, x>> \in R)
  BY <1>1, WFMin
<1>4. x \in Nat /\ T \subseteq Nat
  OBVIOUS
<1>5. \A y \in T : ~(y < x)
  BY <1>2, <1>3, <1>4
<1>6. QED
  BY <1>4, <1>5

\* Of rows with places up to `b` one is the newest.
LEMMA NewestOfRows ==
    ASSUME NEW S, S # {}, NEW b \in Nat, \A r \in S : r.nth \in 1..b
    PROVE  \E y \in S : \A z \in S : z.nth <= y.nth
<1> DEFINE T == {b - r.nth : r \in S}
<1>1. T \in SUBSET Nat /\ T # {}
  OBVIOUS
<1>2. PICK d \in T : \A e \in T : d <= e
  <2> HIDE DEF T
  <2>1. QED
    BY <1>1, LeastOfSet
<1>3. PICK y \in S : d = b - y.nth
  BY <1>2
<1>4. \A z \in S : b - y.nth <= b - z.nth
  BY <1>2, <1>3
<1>5. QED
  BY <1>3, <1>4

\* A buffer that discards anything stays full.
LEMMA StaysFull ==
    ASSUME NEW all, IsFiniteSet(all), NEW b \in Nat, \A r \in all : r.nth \in 1..b,
           \A r, x \in all : r.nth = x.nth => r = x,
           NEW keep \in Nat, Excess(all, keep) # {}
    PROVE  Cardinality(all \ Excess(all, keep)) >= keep
<1> DEFINE out == Excess(all, keep)
<1> DEFINE From(y) == {z \in all : z.nth >= y.nth}
<1>1. out \subseteq all /\ \A r \in out : Cardinality(From(r)) > keep
  BY DEF Excess
<1>2. PICK y \in out : \A z \in out : z.nth <= y.nth
  <2>1. \A r \in out : r.nth \in 1..b
    BY <1>1
  <2> HIDE DEF out
  <2>2. out # {}
    BY DEF out
  <2>3. QED
    BY <2>1, <2>2, NewestOfRows
<1>3. y \in all /\ Cardinality(From(y)) > keep
  BY <1>1, <1>2
<1>4. From(y) \ {y} \subseteq all \ out
  <2>1. ASSUME NEW z \in From(y), z # y, z \in out
        PROVE  FALSE
    <3>1. z.nth <= y.nth /\ z.nth >= y.nth /\ z \in all
      BY <1>2, <2>1
    <3>2. z.nth = y.nth
      BY <1>3, <3>1
    <3>3. QED
      BY <1>3, <2>1, <3>1, <3>2
  <2> HIDE DEF out
  <2>2. QED
    BY <2>1
<1>5. IsFiniteSet(From(y)) /\ Cardinality(From(y)) \in Nat /\ y \in From(y)
  BY <1>3, SmallerSet, From(y) \in SUBSET all
<1>6. Cardinality(From(y) \ {y}) = Cardinality(From(y)) - 1
  BY <1>5, FS_RemoveElement
<1>7. IsFiniteSet(all \ out)
  BY SmallerSet, all \ out \in SUBSET all
<1>8. Cardinality(From(y) \ {y}) <= Cardinality(all \ out) /\ Cardinality(all \ out) \in Nat
  BY <1>4, <1>7, SmallerSet
<1>9. QED
  BY <1>3, <1>5, <1>6, <1>8

-----------------------------------------------------------------------------
(* The write rate.                                                         *)

\* The handlers whose count has let them pass with a stamp of the minute up to
\* t; the rows that a count of that minute sees; whether one of them escaped.
InMinute(s, t) == s <= t /\ s > t - Minute
Admitted(t) == {m \in Posts : post[m].at = "allowed" /\ InMinute(post[m].stamp, t)}
Since(t) == {r \in rows : r.at > t - Minute}
Squeezed(t) == \E s \in escaped : s > t - Minute

\* The rows inserted after `r` with an older stamp, and the handlers that may
\* still insert one.
Overtaken(r) == {x \in posted : x.nth > r.nth /\ x.at < r.at}
Behind(s) == {m \in Posts : post[m].at \in {"begun", "allowed"} /\ post[m].stamp < s}

\* What was ever posted has a place of its own, and was stamped in the past.
PostedSound ==
    /\ IsFiniteSet(posted) /\ rows \subseteq posted
    /\ \A r \in posted : r.nth \in 1..inserted /\ r.at <= time
    /\ \A r, x \in posted : r.nth = x.nth => r = x
    /\ \A m \in Posts : post[m].at \in {"begun", "allowed"} => post[m].stamp <= time

\* Only a handler in flight when a row was inserted can follow with an older stamp.
FewOvertaken ==
    \A r \in posted : Cardinality(Overtaken(r)) + Cardinality(Behind(r.at)) <= Lanes - 1

\* When the buffer discards a row of the minute, and nothing escapes, so many
\* are left that the count lets nobody pass.
CountSuffices ==
    \A t \in Nat :
        ~Squeezed(t) /\ (\E r \in posted \ rows : r.at > t - Minute)
            => Cardinality(Since(t)) >= MaxRate

\* A handler that has passed is charged as its row would be.
RateSafe ==
    \A t \in Nat : ~Squeezed(t) => Cardinality(AcceptedIn(t)) + Cardinality(Admitted(t)) <= Ceiling

RateInv == PostedSound /\ FewOvertaken /\ CountSuffices /\ RateSafe

LEMMA MaxRateIsLargest ==
    MaxRate \in Rates /\ MaxRate \in Nat \ {0} /\ \A r \in Rates : r <= MaxRate
BY PublishAssumption DEF MaxRate

LEMMA CeilingIsNatural == Ceiling \in Nat /\ Lanes \in Nat \ {0} /\ Ceiling = MaxRate + (Lanes - 1)
BY MaxRateIsLargest, PublishAssumption DEF Ceiling

\* The sets that are counted are finite.
LEMMA CountedSets ==
    ASSUME PublishInv, PostedSound
    PROVE  /\ \A t : /\ IsFiniteSet(AcceptedIn(t)) /\ Cardinality(AcceptedIn(t)) \in Nat
                     /\ IsFiniteSet(Since(t)) /\ Cardinality(Since(t)) \in Nat
                     /\ IsFiniteSet(Admitted(t)) /\ Cardinality(Admitted(t)) \in 0..Lanes
           /\ \A s : IsFiniteSet(Behind(s)) /\ Cardinality(Behind(s)) \in Nat
           /\ \A r : IsFiniteSet(Overtaken(r)) /\ Cardinality(Overtaken(r)) \in Nat
<1>1. \A t : AcceptedIn(t) \in SUBSET posted /\ Since(t) \in SUBSET rows /\ Admitted(t) \in SUBSET UnderWay
  BY DEF AcceptedIn, Since, Admitted, UnderWay
<1>2. \A s : Behind(s) \in SUBSET UnderWay
  BY DEF Behind, UnderWay
<1>3. \A r : Overtaken(r) \in SUBSET posted
  BY DEF Overtaken
<1>4. IsFiniteSet(posted) /\ IsFiniteSet(rows) /\ IsFiniteSet(UnderWay)
      /\ Cardinality(UnderWay) <= Lanes /\ Lanes \in Nat
  BY PublishAssumption DEF PostedSound, PublishInv, RowsFinite, LanesSuffice
<1>5. QED
  BY <1>1, <1>2, <1>3, <1>4, SmallerSet

\* What the other steps do to the messages and the handlers.
LEMMA NothingInserted ==
    ASSUME PublishInv, PostedSound, [PublishNext]_publishVars, ~(\E m \in Posts : Insert(m))
    PROVE  /\ posted' = posted /\ inserted' = inserted
           /\ rows' \subseteq rows /\ escaped \subseteq escaped'
           /\ time' \in Nat /\ time <= time'
           /\ (\E m \in Posts : Vanish(m)) \/ UNCHANGED <<rows, escaped>>
           /\ \A m \in Posts : post'[m].at \in {"begun", "allowed"} =>
                \/ post'[m].stamp = time
                \/ post[m].at \in {"begun", "allowed"} /\ post'[m].stamp = post[m].stamp
<1>1. posted' = posted /\ inserted' = inserted /\ rows' \subseteq rows /\ escaped \subseteq escaped'
      /\ ((\E m \in Posts : Vanish(m)) \/ UNCHANGED <<rows, escaped>>)
  BY DEF PublishNext, Handle, Begin, BeginPaused, Count, Reread, Announce, Consider, Mark, Push, Die,
         Look, Vanish, AutoTrip, SetPaused, SetLimits, Restart, Elapse, publishVars, database, messages
<1>2. time' \in Nat /\ time <= time'
  <2>1. time' = time \/ time' = time + 1
    BY DEF PublishNext, Handle, Begin, BeginPaused, Count, Reread, Announce, Consider, Mark, Push, Die,
           Look, Vanish, AutoTrip, SetPaused, SetLimits, Restart, Elapse, publishVars
  <2>2. QED
    BY <2>1 DEF PublishInv, PublishTypeOK
<1>3. ASSUME NEW m \in Posts, post'[m].at \in {"begun", "allowed"}
      PROVE  \/ post'[m].stamp = time
             \/ post[m].at \in {"begun", "allowed"} /\ post'[m].stamp = post[m].stamp
  <2>1. At("failed").at = "failed" /\ post[m] \in Handler
        /\ [post[m] EXCEPT !.at = "pushing"].at = "pushing"
    BY DEF At, PublishInv, PublishTypeOK, Handler
  <2>2. post'[m] = post[m] \/ Begin(m) \/ Count(m)
    BY <1>3, <2>1, OneHandlerMoves, StepsFollow
  <2>3. CASE Begin(m)
    BY <2>3 DEF Begin, At, PublishInv, PublishTypeOK
  <2>4. CASE Count(m)
    BY <1>3, <2>4, StepsFollow
  <2>5. QED
    BY <1>3, <2>2, <2>3, <2>4
<1>4. QED
  BY <1>1, <1>2, <1>3

\* What an insertion does to them.
InsertEffect(m, row) ==
    /\ post[m].at = "allowed" /\ post'[m].at = "stored"
    /\ \A n \in Posts \ {m} : post'[n] = post[n]
    /\ row.post = m /\ row.at = post[m].stamp /\ row.at \in Nat /\ row.nth = inserted + 1
    /\ row.at <= time /\ time' = time /\ time \in Nat
    /\ inserted' = inserted + 1 /\ inserted \in Nat
    /\ posted' = posted \cup {row} /\ row \notin posted
    /\ rows' = (rows \cup {row}) \ Excess(rows \cup {row}, post[m].keep)
    /\ escaped \subseteq escaped'
    /\ post[m].keep < Ceiling => \A x \in Excess(rows \cup {row}, post[m].keep) : x.at \in escaped'
    /\ post[m].keep \in Nat

LEMMA Inserted ==
    ASSUME PublishInv, PostedSound, NEW m \in Posts, Insert(m)
    PROVE  \E row : InsertEffect(m, row)
<1> DEFINE row == [post |-> m, at |-> post[m].stamp, nth |-> inserted + 1]
<1>1. post[m] \in Handler /\ post[m].at = "allowed" /\ post[m].keep \in Nat
  BY PublishAssumption DEF Insert, PublishInv, PublishTypeOK, LocalsSound, Sound
<1>2. inserted \in Nat /\ time \in Nat /\ post \in [Posts -> Handler]
  BY DEF PublishInv, PublishTypeOK
<1>3. row.post = m /\ row.at = post[m].stamp /\ row.at \in Nat /\ row.nth = inserted + 1
  BY <1>1 DEF Handler
<1>4. row \notin posted /\ row.at <= time
  BY <1>1, <1>2, <1>3 DEF PostedSound
<1>5. /\ posted' = posted \cup {row} /\ inserted' = inserted + 1 /\ time' = time
      /\ rows' = (rows \cup {row}) \ Excess(rows \cup {row}, post[m].keep)
  BY DEF Insert, Place
<1>6. /\ escaped \subseteq escaped'
      /\ post[m].keep < Ceiling => \A x \in Excess(rows \cup {row}, post[m].keep) : x.at \in escaped'
  BY DEF Insert, Place
<1>7. post'[m].at = "stored" /\ \A n \in Posts \ {m} : post'[n] = post[n]
  BY <1>2 DEF Insert, At
<1> HIDE DEF row
<1>8. QED
  BY <1>1, <1>2, <1>3, <1>4, <1>5, <1>6, <1>7 DEF InsertEffect

LEMMA HistoryStep == PublishInv /\ PostedSound /\ [PublishNext]_publishVars => PostedSound'
<1> SUFFICES ASSUME PublishInv, PostedSound, [PublishNext]_publishVars PROVE PostedSound'
  OBVIOUS
<1>1. ASSUME NEW m \in Posts, Insert(m)
      PROVE  PostedSound'
  <2>1. PICK row : InsertEffect(m, row)
    BY <1>1, Inserted
  <2>2. IsFiniteSet(posted')
    BY <2>1, OneMore DEF InsertEffect, PostedSound
  <2>3. rows' \subseteq posted'
    BY <2>1 DEF InsertEffect, PostedSound
  <2>4. \A r \in posted' : r.nth \in 1..inserted' /\ r.at <= time'
    BY <2>1 DEF InsertEffect, PostedSound
  <2>5. \A r, x \in posted' : r.nth = x.nth => r = x
    BY <2>1 DEF InsertEffect, PostedSound
  <2>6. \A n \in Posts : post'[n].at \in {"begun", "allowed"} => post'[n].stamp <= time'
    BY <2>1 DEF InsertEffect, PostedSound
  <2>7. QED
    BY <2>2, <2>3, <2>4, <2>5, <2>6 DEF PostedSound
<1>2. CASE ~(\E m \in Posts : Insert(m))
  <2>1. \A r \in posted : r.at \in Int
    BY <1>2, NothingInserted DEF PostedSound, PublishInv, PublishTypeOK, Row
  <2>2. \A m \in Posts : post'[m].at \in {"begun", "allowed"} => post'[m].stamp <= time'
    BY <1>2, NothingInserted DEF PostedSound, PublishInv, PublishTypeOK, Handler
  <2>3. time \in Nat
    BY DEF PublishInv, PublishTypeOK
  <2>4. \A r \in posted : r.at <= time'
    BY <1>2, <2>1, <2>3, NothingInserted DEF PostedSound
  <2>5. QED
    BY <1>2, <2>2, <2>4, NothingInserted DEF PostedSound
<1>3. QED
  BY <1>1, <1>2

LEMMA OvertakenStep ==
    PublishInv /\ PublishInv' /\ RateInv /\ PostedSound' /\ [PublishNext]_publishVars => FewOvertaken'
<1> SUFFICES ASSUME PublishInv, PublishInv', RateInv, PostedSound', [PublishNext]_publishVars,
                    NEW r \in posted'
             PROVE  Cardinality(Overtaken(r)') + Cardinality(Behind(r.at)') <= Lanes - 1
  BY DEF FewOvertaken
<1> DEFINE Goal == Cardinality(Overtaken(r)') + Cardinality(Behind(r.at)') <= Lanes - 1
<1> USE DEF RateInv
<1>1. /\ IsFiniteSet(Overtaken(r)) /\ Cardinality(Overtaken(r)) \in Nat
      /\ IsFiniteSet(Behind(r.at)) /\ Cardinality(Behind(r.at)) \in Nat
      /\ Lanes \in Nat \ {0}
  BY CountedSets, CeilingIsNatural
<1>2. posted \subseteq Row /\ post \in [Posts -> Handler] /\ time \in Nat
  BY DEF PublishInv, PublishTypeOK
<1>3. ASSUME r \in posted, Overtaken(r)' \subseteq Overtaken(r), Behind(r.at)' \subseteq Behind(r.at)
      PROVE  Goal
  <2>1. Cardinality(Overtaken(r)') <= Cardinality(Overtaken(r)) /\ Cardinality(Overtaken(r)') \in Nat
        /\ Cardinality(Behind(r.at)') <= Cardinality(Behind(r.at)) /\ Cardinality(Behind(r.at)') \in Nat
    BY <1>1, <1>3, SmallerSet
  <2>2. Cardinality(Overtaken(r)) + Cardinality(Behind(r.at)) <= Lanes - 1
    BY <1>3 DEF FewOvertaken
  <2>3. QED
    BY <1>1, <2>1, <2>2
<1>4. CASE ~(\E m \in Posts : Insert(m))
  <2>1. posted' = posted
    BY <1>4, NothingInserted
  <2>2. Behind(r.at)' \subseteq Behind(r.at)
    <3> SUFFICES ASSUME NEW m \in Posts, post'[m].at \in {"begun", "allowed"}, post'[m].stamp < r.at
                 PROVE  post[m].at \in {"begun", "allowed"} /\ post[m].stamp < r.at
      BY DEF Behind
    <3>1. r.at <= time /\ r.at \in Nat
      BY <1>2, <2>1 DEF PostedSound, Row
    <3>2. post'[m].stamp # time
      BY <1>2, <3>1
    <3>3. QED
      BY <1>4, <3>2, NothingInserted
  <2>3. QED
    BY <1>3, <2>1, <2>2 DEF Overtaken
<1>5. ASSUME NEW m \in Posts, Insert(m)
      PROVE  Goal
  <2>1. PICK row : InsertEffect(m, row)
    BY <1>5, Inserted
  <2>2. CASE r = row
    <3>1. Overtaken(r)' = {}
      BY <1>2, <2>1, <2>2 DEF InsertEffect, Overtaken, PostedSound, Row
    <3>2. Behind(r.at)' \subseteq UnderWay' \ {m} /\ m \in UnderWay'
      BY <2>1 DEF InsertEffect, Behind, UnderWay
    <3>3. IsFiniteSet(UnderWay') /\ Cardinality(UnderWay') <= Lanes /\ Cardinality(UnderWay') \in Nat
      BY SmallerSet DEF PublishInv, LanesSuffice
    <3>4. IsFiniteSet(UnderWay' \ {m}) /\ Cardinality(UnderWay' \ {m}) = Cardinality(UnderWay') - 1
      BY <3>2, <3>3, FS_RemoveElement
    <3>5. Cardinality(Behind(r.at)') <= Cardinality(UnderWay' \ {m}) /\ Cardinality(Behind(r.at)') \in Nat
      BY <3>2, <3>4, SmallerSet
    <3>6. Cardinality(Overtaken(r)') = 0
      BY <3>1, FS_EmptySet
    <3>7. QED
      BY <1>1, <3>3, <3>4, <3>5, <3>6
  <2>3. CASE r # row /\ ~(row.at < r.at)
    <3>1. r \in posted /\ Overtaken(r)' \subseteq Overtaken(r)
      BY <2>1, <2>3 DEF InsertEffect, Overtaken
    <3>2. Behind(r.at)' \subseteq Behind(r.at)
      BY <2>1 DEF InsertEffect, Behind
    <3>3. QED
      BY <1>3, <3>1, <3>2
  <2>4. CASE r # row /\ row.at < r.at
    <3>1. r \in posted /\ Overtaken(r)' \subseteq Overtaken(r) \cup {row}
      BY <2>1, <2>4 DEF InsertEffect, Overtaken
    <3>2. Behind(r.at)' \subseteq Behind(r.at) \ {m} /\ m \in Behind(r.at)
      BY <2>1, <2>4 DEF InsertEffect, Behind
    <3>3. IsFiniteSet(Behind(r.at) \ {m})
          /\ Cardinality(Behind(r.at) \ {m}) = Cardinality(Behind(r.at)) - 1
      BY <1>1, <3>2, FS_RemoveElement
    <3>4. IsFiniteSet(Overtaken(r) \cup {row}) /\ Cardinality(Overtaken(r) \cup {row}) \in Nat
          /\ Cardinality(Overtaken(r) \cup {row}) <= Cardinality(Overtaken(r)) + 1
      BY <1>1, OneMore
    <3>5. Cardinality(Behind(r.at)') <= Cardinality(Behind(r.at) \ {m}) /\ Cardinality(Behind(r.at)') \in Nat
          /\ Cardinality(Overtaken(r)') <= Cardinality(Overtaken(r) \cup {row})
          /\ Cardinality(Overtaken(r)') \in Nat
      BY <3>1, <3>2, <3>3, <3>4, SmallerSet
    <3>6. Cardinality(Overtaken(r)) + Cardinality(Behind(r.at)) <= Lanes - 1
      BY <3>1 DEF FewOvertaken
    <3>7. QED
      BY <1>1, <3>3, <3>4, <3>5, <3>6
  <2>5. QED
    BY <2>2, <2>3, <2>4
<1>6. QED
  BY <1>4, <1>5

\* A row of the minute is only discarded by a full buffer, of which no more
\* than the other lanes is older.
LEMMA CountStep ==
    PublishInv /\ PublishInv' /\ RateInv /\ PostedSound' /\ FewOvertaken' /\ [PublishNext]_publishVars
        => CountSuffices'
<1> SUFFICES ASSUME PublishInv, PublishInv', RateInv, PostedSound', FewOvertaken',
                    [PublishNext]_publishVars, NEW t \in Nat, ~Squeezed(t)',
                    NEW r \in posted' \ rows', r.at > t - Minute
             PROVE  Cardinality(Since(t)') >= MaxRate
  BY DEF CountSuffices
<1> USE DEF RateInv
<1>1. /\ IsFiniteSet(Since(t)') /\ Cardinality(Since(t)') \in Nat /\ Cardinality(Since(t)) \in Nat
      /\ MaxRate \in Nat /\ Lanes \in Nat \ {0} /\ Ceiling = MaxRate + (Lanes - 1)
  <2>1. IsFiniteSet(Since(t)') /\ Cardinality(Since(t)') \in Nat
    BY SmallerSet, Since(t)' \in SUBSET rows' DEF Since, PublishInv, RowsFinite
  <2>2. QED
    BY <2>1, CountedSets, CeilingIsNatural, MaxRateIsLargest
<1>2. ASSUME ~Squeezed(t), r \in posted \ rows, Since(t) \subseteq Since(t)'
      PROVE  Cardinality(Since(t)') >= MaxRate
  <2>1. Cardinality(Since(t)) >= MaxRate
    BY <1>2 DEF CountSuffices
  <2>2. Cardinality(Since(t)) <= Cardinality(Since(t)')
    BY <1>1, <1>2, SmallerSet
  <2>3. QED
    BY <1>1, <2>1, <2>2
<1>3. CASE ~(\E m \in Posts : Insert(m))
  <2>1. r \in posted /\ escaped \subseteq escaped'
    BY <1>3, NothingInserted
  <2>2. ~Squeezed(t)
    BY <2>1 DEF Squeezed
  <2>3. \A x \in rows \ rows' : ~(x.at > t - Minute)
    <3>1. CASE \E m \in Posts : Vanish(m)
      BY <3>1 DEF Vanish, Squeezed
    <3>2. CASE rows' = rows
      BY <3>2
    <3>3. QED
      BY <1>3, <3>1, <3>2, NothingInserted
  <2>4. r \notin rows /\ Since(t) \subseteq Since(t)'
    BY <2>3 DEF Since
  <2>5. QED
    BY <1>2, <2>1, <2>2, <2>4
<1>4. ASSUME NEW m \in Posts, Insert(m)
      PROVE  Cardinality(Since(t)') >= MaxRate
  <2>1. PICK row : InsertEffect(m, row)
    BY <1>4, Inserted
  <2> DEFINE all == rows \cup {row}
  <2> DEFINE keep == post[m].keep
  <2> DEFINE out == Excess(all, keep)
  <2>2. /\ all \subseteq posted' /\ rows' = all \ out /\ out \subseteq all /\ keep \in Nat
        /\ keep < Ceiling => \A x \in out : x.at \in escaped'
    BY <2>1 DEF InsertEffect, PostedSound, Excess
  <2>3. CASE \E x \in out : x.at > t - Minute
    <3>1. PICK x \in out : x.at > t - Minute
      BY <2>3
    <3>2. keep >= Ceiling
      <4>1. x.at \notin escaped'
        BY <3>1 DEF Squeezed
      <4>2. ~(keep < Ceiling) /\ keep \in Nat /\ Ceiling \in Nat
        BY <2>2, <3>1, <4>1, CeilingIsNatural
      <4> HIDE DEF keep
      <4>3. QED
        BY <4>2
    <3>3. /\ IsFiniteSet(all) /\ inserted' \in Nat /\ \A z \in all : z.nth \in 1..inserted'
          /\ \A y, z \in all : y.nth = z.nth => y = z
      <4>1. IsFiniteSet(all)
        BY OneMore DEF PublishInv, RowsFinite
      <4>2. QED
        BY <2>2, <4>1 DEF PostedSound, PublishInv, PublishTypeOK
    <3> HIDE DEF all, keep
    <3>4. Cardinality(rows') >= keep
      BY <2>2, <3>1, <3>3, StaysFull
    <3>5. \A z \in rows' : z.nth > x.nth
      <4>1. \A z \in all : z.nth \in Nat
        BY <3>3
      <4>2. QED
        BY <2>2, <3>1, <3>3, <4>1, ExcessIsOldest
    <3>6. rows' \ Since(t)' \subseteq Overtaken(x)'
      <4>1. x \in posted' /\ \A z \in posted' : z.at \in Nat
        BY <2>2, <3>1 DEF PublishInv, PublishTypeOK, Row
      <4>2. \A z \in rows' : ~(z.at > t - Minute) => z.at < x.at
        BY <3>1, <4>1, PublishAssumption DEF PostedSound
      <4>3. QED
        BY <3>5, <4>2 DEF Since, Overtaken, PostedSound
    <3>7. Cardinality(Overtaken(x)') <= Lanes - 1 /\ IsFiniteSet(Overtaken(x)')
          /\ Cardinality(Overtaken(x)') \in Nat
      <4>1. x \in posted'
        BY <2>2, <3>1
      <4>2. Overtaken(x)' \in SUBSET posted' /\ Behind(x.at)' \in SUBSET UnderWay'
        BY DEF Overtaken, Behind, UnderWay
      <4>3. /\ IsFiniteSet(Overtaken(x)') /\ Cardinality(Overtaken(x)') \in Nat
            /\ Cardinality(Behind(x.at)') \in Nat
        BY <4>2, SmallerSet DEF PostedSound, PublishInv, LanesSuffice
      <4>4. Cardinality(Overtaken(x)') + Cardinality(Behind(x.at)') <= Lanes - 1
        BY <4>1 DEF FewOvertaken
      <4>5. QED
        BY <1>1, <4>3, <4>4
    <3>8. Cardinality(rows' \ Since(t)') <= Lanes - 1 /\ Cardinality(rows' \ Since(t)') \in Nat
      <4>1. Cardinality(rows' \ Since(t)') <= Cardinality(Overtaken(x)')
            /\ Cardinality(rows' \ Since(t)') \in Nat
        BY <3>6, <3>7, SmallerSet
      <4>2. QED
        BY <1>1, <3>7, <4>1
    <3>9. Cardinality(rows' \ Since(t)') = Cardinality(rows') - Cardinality(Since(t)')
      <4>1. rows' \cap Since(t)' = Since(t)'
        BY DEF Since
      <4>2. IsFiniteSet(rows')
        BY DEF PublishInv, RowsFinite
      <4>3. QED
        BY <4>1, <4>2, FS_Difference
    <3>10. Cardinality(rows') \in Nat
      BY FS_CardinalityType DEF PublishInv, RowsFinite
    <3>11. QED
      BY <1>1, <2>2, <3>2, <3>4, <3>8, <3>9, <3>10
  <2>4. CASE ~(\E x \in out : x.at > t - Minute)
    <3>1. r \in posted \ rows
      BY <2>1, <2>2, <2>4 DEF InsertEffect
    <3>2. Since(t) \subseteq Since(t)'
      BY <2>2, <2>4 DEF Since
    <3>3. ~Squeezed(t)
      BY <2>1 DEF InsertEffect, Squeezed
    <3>4. QED
      BY <1>2, <3>1, <3>2, <3>3
  <2>5. QED
    BY <2>3, <2>4
<1>5. QED
  BY <1>3, <1>4

\* Only two steps put a row or a handler into a minute.
LEMMA RateStep ==
    PublishInv /\ PublishInv' /\ RateInv /\ PostedSound' /\ [PublishNext]_publishVars => RateSafe'
<1> SUFFICES ASSUME PublishInv, PublishInv', RateInv, PostedSound', [PublishNext]_publishVars,
                    NEW t \in Nat, ~Squeezed(t)'
             PROVE  Cardinality(AcceptedIn(t)') + Cardinality(Admitted(t)') <= Ceiling
  BY DEF RateSafe
<1> DEFINE Goal == Cardinality(AcceptedIn(t)') + Cardinality(Admitted(t)') <= Ceiling
<1> USE DEF RateInv
<1>1. /\ IsFiniteSet(AcceptedIn(t)) /\ IsFiniteSet(Admitted(t))
      /\ Cardinality(AcceptedIn(t)) \in Nat /\ Cardinality(Admitted(t)) \in 0..Lanes
      /\ IsFiniteSet(AcceptedIn(t)') /\ IsFiniteSet(Admitted(t)')
      /\ Cardinality(AcceptedIn(t)') \in Nat /\ Cardinality(Admitted(t)') \in 0..Lanes
  <2>1. AcceptedIn(t)' \in SUBSET posted' /\ Admitted(t)' \in SUBSET UnderWay'
    BY DEF AcceptedIn, Admitted, UnderWay
  <2>2. QED
    BY <2>1, CountedSets, CeilingIsNatural, SmallerSet DEF PostedSound, PublishInv, LanesSuffice
<1>2. Lanes \in Nat \ {0} /\ MaxRate \in Nat /\ Ceiling = MaxRate + (Lanes - 1)
  BY CeilingIsNatural, MaxRateIsLargest
<1>3. ~Squeezed(t) /\ Cardinality(AcceptedIn(t)) + Cardinality(Admitted(t)) <= Ceiling
  <2>1. escaped \subseteq escaped'
    <3>1. ASSUME NEW m \in Posts, Insert(m)
          PROVE  escaped \subseteq escaped'
      BY <3>1, Inserted DEF InsertEffect
    <3>2. QED
      BY <3>1, NothingInserted
  <2>2. QED
    BY <2>1 DEF Squeezed, RateSafe
<1>4. ASSUME AcceptedIn(t)' \subseteq AcceptedIn(t), Admitted(t)' \subseteq Admitted(t)
      PROVE  Goal
  <2>1. Cardinality(AcceptedIn(t)') <= Cardinality(AcceptedIn(t))
        /\ Cardinality(Admitted(t)') <= Cardinality(Admitted(t))
    BY <1>1, <1>4, SmallerSet
  <2>2. QED
    BY <1>1, <1>2, <1>3, <2>1
<1>5. ASSUME NEW m \in Posts, Count(m)
      PROVE  Goal
  <2>1. AcceptedIn(t)' = AcceptedIn(t)
    BY <1>5 DEF Count, AcceptedIn, database, messages
  <2>2. CASE Allowed(m) /\ InMinute(post[m].stamp, t)
    <3>1. IsFiniteSet(Recent(m)) /\ Cardinality(Recent(m)) \in Nat
      BY SmallerSet, Recent(m) \in SUBSET rows DEF Recent, PublishInv, RowsFinite
    <3>2. post[m].rate \in Rates
      BY <1>5 DEF Count, PublishInv, LocalsSound, Sound
    <3>3. Cardinality(Recent(m)) < MaxRate
      <4>1. Cardinality(Recent(m)) < post[m].rate /\ post[m].rate <= MaxRate /\ post[m].rate \in Nat
        BY <2>2, <3>2, MaxRateIsLargest, PublishAssumption DEF Allowed
      <4>2. QED
        BY <1>2, <3>1, <4>1
    <3>4. Since(t) \subseteq Recent(m)
      <4>1. post[m].stamp \in Nat /\ post[m].stamp <= t /\ Minute \in Nat
            /\ \A r \in rows : r.at \in Nat
        BY <2>2, PublishAssumption DEF InMinute, PublishInv, PublishTypeOK, Row, Handler
      <4>2. QED
        BY <4>1 DEF Since, Recent
    <3>5. Cardinality(Since(t)) <= Cardinality(Recent(m)) /\ Cardinality(Since(t)) \in Nat
      BY <3>1, <3>4, SmallerSet
    <3>6. ~(\E r \in posted \ rows : r.at > t - Minute)
      BY <1>2, <1>3, <3>1, <3>3, <3>5 DEF CountSuffices
    <3>7. AcceptedIn(t) \subseteq Recent(m)
      BY <3>4, <3>6 DEF AcceptedIn, Since
    <3>8. Cardinality(AcceptedIn(t)) <= Cardinality(Recent(m))
      BY <3>1, <3>7, SmallerSet
    <3>9. QED
      BY <1>1, <1>2, <2>1, <3>1, <3>3, <3>8
  <2>3. CASE ~(Allowed(m) /\ InMinute(post[m].stamp, t))
    <3>1. Admitted(t)' \subseteq Admitted(t)
      BY <1>5, <2>3 DEF Count, Admitted, At, PublishInv, PublishTypeOK, Handler
    <3>2. QED
      BY <1>4, <2>1, <3>1
  <2>4. QED
    BY <2>2, <2>3
<1>6. ASSUME NEW m \in Posts, Insert(m)
      PROVE  Goal
  <2>1. PICK row : InsertEffect(m, row)
    BY <1>6, Inserted
  <2>2. Admitted(t)' \subseteq Admitted(t) \ {m}
    BY <2>1 DEF InsertEffect, Admitted
  <2>3. CASE InMinute(row.at, t)
    <3>1. m \in Admitted(t)
      BY <2>1, <2>3 DEF InsertEffect, Admitted
    <3>2. AcceptedIn(t)' \subseteq AcceptedIn(t) \cup {row}
      BY <2>1 DEF InsertEffect, AcceptedIn
    <3>3. Cardinality(Admitted(t) \ {m}) = Cardinality(Admitted(t)) - 1
          /\ IsFiniteSet(Admitted(t) \ {m})
      BY <1>1, <3>1, FS_RemoveElement
    <3>4. Cardinality(AcceptedIn(t) \cup {row}) <= Cardinality(AcceptedIn(t)) + 1
          /\ IsFiniteSet(AcceptedIn(t) \cup {row}) /\ Cardinality(AcceptedIn(t) \cup {row}) \in Nat
      BY <1>1, OneMore
    <3>5. Cardinality(AcceptedIn(t)') <= Cardinality(AcceptedIn(t) \cup {row})
          /\ Cardinality(Admitted(t)') <= Cardinality(Admitted(t) \ {m})
      BY <2>2, <3>2, <3>3, <3>4, SmallerSet
    <3>6. QED
      BY <1>1, <1>2, <1>3, <3>3, <3>4, <3>5
  <2>4. CASE ~InMinute(row.at, t)
    <3>1. AcceptedIn(t)' \subseteq AcceptedIn(t)
      BY <2>1, <2>4 DEF InsertEffect, AcceptedIn, InMinute
    <3>2. QED
      BY <1>4, <2>2, <3>1
  <2>5. QED
    BY <2>3, <2>4
<1>7. CASE ~(\E m \in Posts : Count(m) \/ Insert(m))
  <2>1. AcceptedIn(t)' = AcceptedIn(t)
    BY <1>7, NothingInserted DEF AcceptedIn
  <2>2. \A m \in Posts : post'[m].at = "allowed" => post'[m] = post[m]
    <3>1. SUFFICES ASSUME NEW m \in Posts, post'[m].at = "allowed" PROVE post'[m] = post[m]
      OBVIOUS
    <3>2. At("failed").at # "allowed"
      BY DEF At
    <3>3. post[m] \in Handler
      BY DEF PublishInv, PublishTypeOK
    <3>4. [post[m] EXCEPT !.at = "pushing"].at # "allowed"
      BY <3>3 DEF Handler
    <3>5. QED
      BY <1>7, <3>1, <3>2, <3>4, OneHandlerMoves, StepsFollow
  <2>3. QED
    BY <1>4, <2>1, <2>2 DEF Admitted
<1>8. QED
  BY <1>5, <1>6, <1>7

\* Whatever the limits are changed to, no minute lets in more messages than the
\* largest limit and the other posts in flight, unless one of them escaped.
THEOREM WriteRateHolds == PublishSpec => []WriteRateBounded
<1>1. PublishInit => RateInv
  <2> SUFFICES ASSUME PublishInit PROVE RateInv
    OBVIOUS
  <2>1. PostedSound
    BY FS_EmptySet DEF PublishInit, PostedSound, At
  <2>2. FewOvertaken /\ CountSuffices
    BY DEF PublishInit, FewOvertaken, CountSuffices
  <2>3. ASSUME NEW t \in Nat
        PROVE  Cardinality(AcceptedIn(t)) + Cardinality(Admitted(t)) <= Ceiling
    <3>1. AcceptedIn(t) = {} /\ Admitted(t) = {}
      BY DEF PublishInit, AcceptedIn, Admitted, At
    <3>2. QED
      BY <3>1, FS_EmptySet, CeilingIsNatural
  <2>4. QED
    BY <2>1, <2>2, <2>3 DEF RateInv, RateSafe
<1>2. PublishInv /\ PublishInv' /\ RateInv /\ [PublishNext]_publishVars => RateInv'
  <2> SUFFICES ASSUME PublishInv, PublishInv', RateInv, [PublishNext]_publishVars PROVE RateInv'
    OBVIOUS
  <2>1. PostedSound'
    BY HistoryStep DEF RateInv
  <2>2. FewOvertaken'
    BY <2>1, OvertakenStep
  <2>3. QED
    BY <2>1, <2>2, CountStep, RateStep DEF RateInv
<1>3. PublishInv /\ RateInv => WriteRateBounded
  <2> SUFFICES ASSUME PublishInv, RateInv, NEW t \in 0..time, ~(\E s \in escaped : s > t - Minute)
               PROVE  Cardinality(AcceptedIn(t)) <= Ceiling
    BY DEF WriteRateBounded
  <2>1. t \in Nat /\ ~Squeezed(t)
    BY DEF PublishInv, PublishTypeOK, Squeezed
  <2>2. Cardinality(AcceptedIn(t)) + Cardinality(Admitted(t)) <= Ceiling
    BY <2>1 DEF RateInv, RateSafe
  <2>3. Cardinality(AcceptedIn(t)) \in Nat /\ Cardinality(Admitted(t)) \in Nat /\ Ceiling \in Nat
    BY CountedSets, CeilingIsNatural DEF RateInv
  <2>4. QED
    BY <2>2, <2>3
<1>4. QED
  BY <1>1, <1>2, <1>3, PublishInvariance, PTL DEF PublishSpec

-----------------------------------------------------------------------------
(* The kill switch.                                                        *)

\* Those who have read the channel may still insert.
Past == {m \in Posts : post[m].at \in {"begun", "allowed"}}
PauseSafe == channel.paused => slipped + Cardinality(Past) <= Lanes

\* Who is past the switch was under way when it was thrown.
LEMMA PauseStep ==
    PublishInv /\ PauseSafe /\ [PublishNext]_publishVars => PauseSafe'
<1> SUFFICES ASSUME PublishInv, PauseSafe, [PublishNext]_publishVars, channel'.paused
             PROVE  slipped' + Cardinality(Past') <= Lanes
  BY DEF PauseSafe
<1> DEFINE Goal == slipped' + Cardinality(Past') <= Lanes
<1>1. /\ IsFiniteSet(Past) /\ Cardinality(Past) \in Nat /\ Cardinality(Past) <= Lanes
      /\ Lanes \in Nat /\ slipped \in Nat
  <2>1. Past \in SUBSET UnderWay
    BY DEF Past, UnderWay
  <2>2. QED
    BY <2>1, SmallerSet, PublishAssumption DEF PublishInv, LanesSuffice, PublishTypeOK
<1>2. ASSUME NEW m \in Posts, Insert(m)
      PROVE  Goal
  <2>1. m \in Past /\ Past' \subseteq Past \ {m}
    BY <1>2 DEF Insert, Past, At, PublishInv, PublishTypeOK
  <2>2. Cardinality(Past \ {m}) = Cardinality(Past) - 1 /\ IsFiniteSet(Past \ {m})
    BY <1>1, <2>1, FS_RemoveElement
  <2>3. Cardinality(Past') <= Cardinality(Past) - 1 /\ Cardinality(Past') \in Nat
    BY <2>1, <2>2, SmallerSet
  <2>4. slipped' = slipped + 1 /\ slipped + Cardinality(Past) <= Lanes
    BY <1>2 DEF Insert, PauseSafe
  <2>5. QED
    BY <1>1, <2>3, <2>4
<1>3. ASSUME NEW m \in Posts, Begin(m)
      PROVE  FALSE
  BY <1>3 DEF Begin, database, messages
<1>4. ASSUME ~(\E m \in Posts : Insert(m) \/ Begin(m))
      PROVE  Goal
  <2>1. Past' \subseteq Past
    <3> SUFFICES ASSUME NEW m \in Posts, post'[m].at \in {"begun", "allowed"}
                 PROVE  post[m].at \in {"begun", "allowed"}
      BY DEF Past
    <3>1. At("failed").at = "failed"
      BY DEF At
    <3>2. post[m] \in Handler
      BY DEF PublishInv, PublishTypeOK
    <3>3. [post[m] EXCEPT !.at = "pushing"].at = "pushing"
      BY <3>2 DEF Handler
    <3>4. QED
      BY <1>4, <3>1, <3>3, OneHandlerMoves, StepsFollow
  <2>2. Cardinality(Past') <= Cardinality(Past) /\ Cardinality(Past') \in Nat
    BY <1>1, <2>1, SmallerSet
  <2>3. slipped' = 0 \/ (slipped' = slipped /\ channel.paused)
    <3>1. ASSUME NEW b \in BOOLEAN, Pause(b)
          PROVE  slipped' = 0 \/ (slipped' = slipped /\ channel.paused)
      BY <3>1 DEF Pause
    <3>2. ASSUME NEW k \in Keeps, NEW r \in Rates, SetLimits(k, r) \/ Restart(k, r)
          PROVE  slipped' = slipped /\ channel.paused
      BY <3>2 DEF SetLimits, Restart, PublishInv, PublishTypeOK
    <3>3. CASE UNCHANGED <<slipped, channel>>
      BY <3>3
    <3>4. QED
      BY <1>4, <3>1, <3>2, <3>3
      DEF PublishNext, Handle, BeginPaused, Count, Reread, Announce, Consider, Mark, Push, Die, Look,
          Vanish, AutoTrip, SetPaused, Elapse, publishVars, database, messages
  <2>4. QED
    BY <1>1, <2>2, <2>3 DEF PauseSafe
<1>5. QED
  BY <1>2, <1>3, <1>4

\* After the kill switch at most the posts that were in flight are inserted.
THEOREM PauseHolds == PublishSpec => []PauseStopsPosting
<1>1. PublishInit => PauseSafe
  BY DEF PublishInit, PauseSafe
<1>2. PublishInv /\ PauseSafe => PauseStopsPosting
  <2> SUFFICES ASSUME PublishInv, PauseSafe, channel.paused
               PROVE  slipped <= Lanes
    BY DEF PauseStopsPosting
  <2>1. Past \in SUBSET UnderWay
    BY DEF Past, UnderWay
  <2>2. Cardinality(Past) \in Nat
    BY <2>1, SmallerSet DEF PublishInv, LanesSuffice
  <2>3. QED
    BY <2>2, PublishAssumption DEF PauseSafe, PublishInv, PublishTypeOK
<1>3. QED
  BY <1>1, <1>2, PauseStep, PublishInvariance, PTL DEF PublishSpec

-----------------------------------------------------------------------------
(* What a client is told, and the webhook of the channel.                  *)

\* A post is announced from its announcement on; what was told to be gone is.
AnswerSafe ==
    \A m \in Posts :
        /\ Hook /\ post[m].at \in {"mentions", "marking", "pushing", "done"} => m \in announced
        /\ post[m].at = "gone" => ~Present(m)

\* Only an insertion brings a row, and it goes on.
LEMMA RowsOfOthers ==
    ASSUME PublishInv, [PublishNext]_publishVars, NEW m \in Posts, ~Present(m), ~Insert(m)
    PROVE  ~Present(m)'
<1>1. CASE \E n \in Posts : Insert(n)
  <2>1. PICK n \in Posts : Insert(n) /\ n # m
    BY <1>1
  <2>2. \A r \in rows' : r \in rows \/ r.post = n
    BY <2>1 DEF Insert
  <2>3. QED
    BY <2>1, <2>2 DEF Present
<1>2. CASE ~(\E n \in Posts : Insert(n))
  <2>1. rows' \subseteq rows
    BY <1>2
    DEF PublishNext, Handle, Begin, BeginPaused, Count, Reread, Announce, Consider, Mark, Push, Die,
        Look, Vanish, AutoTrip, SetPaused, SetLimits, Restart, Elapse, publishVars, database, messages
  <2>2. QED
    BY <2>1 DEF Present
<1>3. QED
  BY <1>1, <1>2

\* Whoever is told 404 has no message in the channel, and a message whose
\* sender was answered has its event in the queue.
THEOREM AnswersAreSound == PublishSpec => []AnsweredIsAnnounced
<1>1. PublishInit => AnswerSafe
  BY DEF PublishInit, AnswerSafe, At
<1>2. PublishInv /\ AnswerSafe /\ [PublishNext]_publishVars => AnswerSafe'
  <2> SUFFICES ASSUME PublishInv, AnswerSafe, [PublishNext]_publishVars, NEW m \in Posts
               PROVE  /\ Hook /\ post'[m].at \in {"mentions", "marking", "pushing", "done"}
                           => m \in announced'
                      /\ post'[m].at = "gone" => ~Present(m)'
    BY DEF AnswerSafe
  <2> DEFINE Late == {"mentions", "marking", "pushing", "done"}
  <2>1. announced \subseteq announced'
    BY DEF PublishNext, Handle, Begin, BeginPaused, Count, Insert, Reread, Announce, Announced,
           Consider, Mark, Push, Die, Look, Vanish, AutoTrip, SetPaused, SetLimits, Restart, Elapse,
           publishVars, database
  <2>2. At("failed").at = "failed"
    BY DEF At
  <2>3. ASSUME Hook, post'[m].at \in Late
        PROVE  m \in announced'
    <3>1. CASE Announce(m)
      BY <2>3, <3>1 DEF Announce, Announced
    <3>2. CASE ~Announce(m)
      <4>1. post[m].at \in Late
        BY <2>2, <2>3, <3>2, OneHandlerMoves, StepsFollow
      <4>2. QED
        BY <2>1, <2>3, <4>1 DEF AnswerSafe
    <3>3. QED
      BY <3>1, <3>2
  <2>4. ASSUME post'[m].at = "gone"
        PROVE  ~Present(m)'
    <3>1. (post[m].at = "gone" /\ post'[m] = post[m]) \/ Reread(m)
      <4>1. post[m] \in Handler /\ [post[m] EXCEPT !.at = "pushing"].at = "pushing"
        BY DEF PublishInv, PublishTypeOK, Handler
      <4>2. QED
        BY <2>2, <2>4, <4>1, OneHandlerMoves, StepsFollow
    <3>2. ~Present(m)
      <4>1. CASE Reread(m) /\ Present(m)
        <5>1. post'[m] = [post[m] EXCEPT !.at = "answered"] /\ post[m] \in Handler
          BY <4>1 DEF Reread, PublishInv, PublishTypeOK
        <5>2. QED
          BY <2>4, <5>1 DEF Handler
      <4>2. QED
        BY <3>1, <4>1 DEF AnswerSafe
    <3>3. ~Insert(m)
      BY <2>4, StepsFollow
    <3>4. QED
      BY <3>2, <3>3, RowsOfOthers
  <2>5. QED
    BY <2>3, <2>4
<1>3. PublishInv /\ AnswerSafe => AnsweredIsAnnounced
  BY DEF AnswerSafe, AnsweredIsAnnounced, Present, PublishInv, PublishTypeOK, Row
<1>4. QED
  BY <1>1, <1>2, <1>3, PublishInvariance, PTL DEF PublishSpec

-----------------------------------------------------------------------------
(* Mentions.                                                               *)

\* A dispatch has settled the agents it no longer has to do.
Considered(m, a) == post[m].at \in Dispatch /\ a \notin post[m].todo

\* One of these dispatches began before `c`, and marked the agent unseen.
Overwritten(others, a, c, seen) ==
    \E m \in others : <<m, a>> \notin seen /\ Older(m, a, c)

\* mention_rate of an agent shows this notification or a later one, unless a
\* dispatch that began earlier has written over it.
Shows(a, m, c, seen) ==
    lastSent[a] # Null /\ (lastSent[a] >= c \/ Overwritten(Posts \ {m}, a, c, seen))

\* A notification that saw another is a minute later, or there was a third.
Apart(m, a, clock, seen) ==
    \A e \in pushed :
        e.agent = a /\ <<e.post, a>> \in seen
            => \/ clock >= e.clock + Minute
               \/ Overwritten(Posts \ {e.post, m}, a, e.clock, e.seen)

\* A notification that was made.
Made(e) ==
    /\ Considered(e.post, e.agent)
    /\ Shows(e.agent, e.post, e.clock, e.seen)
    /\ e.seen \subseteq Notified
    /\ Apart(e.post, e.agent, e.clock, e.seen)

\* A handler that may be making one.
Making(m) ==
    /\ post[m].seen \subseteq Notified
    /\ post[m].at = "pushing" => Shows(post[m].agent, m, post[m].clock, post[m].seen)
    /\ post[m].at \in {"marking", "pushing"}
         => Apart(m, post[m].agent, post[m].clock, post[m].seen)

MentionSafe == (\A e \in pushed : Made(e)) /\ \A m \in Posts : Making(m)

\* A dispatch only goes on: what it has settled or marked stays so.
LEMMA DispatchGoesOn ==
    ASSUME PublishInv, [PublishNext]_publishVars, NEW m \in Posts, NEW a \in Agents
    PROVE  /\ post[m].at \in Dispatch => post'[m].at \in Dispatch
           /\ Considered(m, a) => Considered(m, a)'
<1>1. At("failed").at = "failed" /\ At("failed").todo = {}
  BY DEF At
<1>2. post[m] \in Handler /\ Sound(post[m])
  BY DEF PublishInv, PublishTypeOK, LocalsSound
<1>3. [post[m] EXCEPT !.at = "pushing"].at = "pushing" /\ [post[m] EXCEPT !.at = "pushing"].todo = post[m].todo
  BY <1>2 DEF Handler
<1>4. post[m].at \in Dispatch => post'[m].at \in Dispatch
  BY <1>1, <1>3, OneHandlerMoves, StepsFollow DEF Dispatch
<1>5. \A b : Rest(m, b).todo = post[m].todo \ {b}
  BY DEF Rest, Remaining, At
<1>6. post[m].at \in Dispatch =>
        /\ post'[m].todo \subseteq post[m].todo
        /\ post[m].at = "pushing" =>
             post'[m] = post[m] \/ post'[m] = At("failed") \/ post'[m] = Rest(m, post[m].agent)
  <2>1. ASSUME NEW b \in Agents, Consider(m, b)
        PROVE  post'[m].todo \subseteq post[m].todo /\ post[m].at # "pushing"
    BY <1>2, <1>5, <2>1 DEF Consider, Handler, PublishInv, PublishTypeOK
  <2>2. Push(m) => post'[m] = Rest(m, post[m].agent)
    BY DEF Push, PublishInv, PublishTypeOK
  <2>3. QED
    BY <1>1, <1>3, <1>5, <2>1, <2>2, OneHandlerMoves, StepsFollow DEF Dispatch
<1>7. QED
  BY <1>1, <1>4, <1>5, <1>6 DEF Considered, Dispatch

\* mention_rate and the notifications change in these steps only.
LEMMA MentionTables ==
    ASSUME PublishInv, [PublishNext]_publishVars
    PROVE  /\ pushed \subseteq pushed' /\ Notified \subseteq Notified'
           /\ \A e \in pushed' \ pushed : \E m \in Posts :
                Push(m) /\ e = [post |-> m, agent |-> post[m].agent, clock |-> post[m].clock,
                                seen |-> post[m].seen]
           /\ lastSent' = lastSent \/ \E m \in Posts : Mark(m)
<1>1. CASE \E m \in Posts : Push(m)
  <2>1. PICK m \in Posts : Push(m)
    BY <1>1
  <2>2. pushed' = pushed \cup {[post |-> m, agent |-> post[m].agent, clock |-> post[m].clock,
                                seen |-> post[m].seen]}
        /\ lastSent' = lastSent
    BY <2>1 DEF Push
  <2>3. QED
    BY <2>1, <2>2 DEF Notified
<1>2. CASE ~\E m \in Posts : Push(m)
  <2>1. pushed' = pushed /\ (lastSent' = lastSent \/ \E m \in Posts : Mark(m))
    BY <1>2
    DEF PublishNext, Handle, Begin, BeginPaused, Count, Insert, Reread, Announce, Consider, Mark,
        Die, Look, Vanish, AutoTrip, SetPaused, SetLimits, Restart, Elapse, publishVars,
        database
  <2>2. QED
    BY <2>1 DEF Notified
<1>3. QED
  BY <1>1, <1>2

\* A mark stays older, on its way to the notification and after it.
LEMMA OverwrittenStays ==
    ASSUME PublishInv, [PublishNext]_publishVars, NEW others \in SUBSET Posts, NEW a \in Agents,
           NEW c \in Nat, NEW seen, Overwritten(others, a, c, seen)
    PROVE  Overwritten(others, a, c, seen)'
<1>1. PICK g \in others : <<g, a>> \notin seen /\ Older(g, a, c)
  BY DEF Overwritten
<1>2. At("failed").at = "failed"
  BY DEF At
<1>3. CASE \E e \in pushed : e.post = g /\ e.agent = a /\ e.clock < c
  BY <1>1, <1>3, MentionTables DEF Overwritten, Older
<1>4. CASE post[g].at = "failed"
  BY <1>1, <1>2, <1>4, OneHandlerMoves, StepsFollow DEF Overwritten, Older
<1>5. CASE post[g].at = "pushing" /\ post[g].agent = a /\ post[g].clock < c
  <2>1. CASE Push(g)
    <3> DEFINE e == [post |-> g, agent |-> post[g].agent, clock |-> post[g].clock,
                     seen |-> post[g].seen]
    <3>1. e \in pushed' /\ e.post = g /\ e.agent = a /\ e.clock < c
      BY <1>5, <2>1 DEF Push
    <3>2. Older(g, a, c)'
      BY <3>1 DEF Older
    <3>3. QED
      BY <1>1, <3>2 DEF Overwritten
  <2>2. CASE ~Push(g)
    <3>1. post'[g] = post[g] \/ post'[g] = At("failed")
      BY <1>5, <2>2, OneHandlerMoves, StepsFollow
    <3>2. Older(g, a, c)'
      BY <1>2, <1>5, <3>1 DEF Older
    <3>3. QED
      BY <1>1, <3>2 DEF Overwritten
  <2>3. QED
    BY <2>1, <2>2
<1>6. QED
  BY <1>1, <1>3, <1>4, <1>5 DEF Older

\* A handler notifies nobody twice.
LEMMA NotifiesOnce ==
    ASSUME PublishInv, MentionSafe, NEW m \in Posts, post[m].at \in {"marking", "pushing"}
    PROVE  <<m, post[m].agent>> \notin Notified /\ ~Considered(m, post[m].agent)
           /\ post[m].agent \in Agents
<1>1. post[m].agent \in post[m].todo /\ post[m] \in Handler
  BY DEF PublishInv, PublishTypeOK, LocalsSound, Sound
<1>2. ~Considered(m, post[m].agent)
  BY <1>1 DEF Considered
<1>3. QED
  BY <1>1, <1>2 DEF MentionSafe, Made, Notified, Handler

\* What mention_rate shows of an agent it goes on showing.
LEMMA ShowsStays ==
    ASSUME PublishInv, MentionSafe, [PublishNext]_publishVars, NEW a \in Agents, NEW m \in Posts,
           NEW c \in Nat, NEW seen \in SUBSET Notified, Shows(a, m, c, seen),
           ~(Mark(m) /\ post[m].agent = a)
    PROVE  Shows(a, m, c, seen)'
<1>1. CASE lastSent'[a] = lastSent[a]
  BY <1>1, OverwrittenStays DEF Shows
<1>2. CASE lastSent'[a] # lastSent[a]
  <2>1. PICK g \in Posts : Mark(g)
    BY <1>2, MentionTables
  <2>2. post[g].agent = a /\ lastSent'[a] = post[g].clock /\ post[g] \in Handler
    BY <1>2, <2>1 DEF Mark, PublishInv, PublishTypeOK
  <2>3. lastSent'[a] # Null
    BY <2>2, PublishAssumption DEF Handler
  <2>4. g # m
    BY <2>1, <2>2
  <2>5. lastSent'[a] < c => Older(g, a, c)'
    <3>1. post'[g] = [post[g] EXCEPT !.at = "pushing"]
      BY <2>1, StepsFollow
    <3>2. post'[g].at = "pushing" /\ post'[g].agent = a /\ post'[g].clock = post[g].clock
      BY <2>2, <3>1 DEF Handler
    <3>3. QED
      BY <2>2, <3>2 DEF Older
  <2>6. <<g, a>> \notin seen
    BY <2>1, <2>2, NotifiesOnce DEF Mark
  <2>7. lastSent'[a] \in Nat
    BY <2>2 DEF Handler
  <2>8. QED
    BY <2>3, <2>4, <2>5, <2>6, <2>7 DEF Shows, Overwritten
<1>3. QED
  BY <1>1, <1>2

\* Notifications that are apart stay so: none that was seen is new.
LEMMA ApartStays ==
    ASSUME PublishInv, MentionSafe, [PublishNext]_publishVars, NEW m \in Posts, NEW a \in Agents,
           NEW clock \in Nat, NEW seen \in SUBSET Notified, Apart(m, a, clock, seen)
    PROVE  Apart(m, a, clock, seen)'
<1> SUFFICES ASSUME NEW e \in pushed', e.agent = a, <<e.post, a>> \in seen
             PROVE  \/ clock >= e.clock + Minute
                    \/ Overwritten(Posts \ {e.post, m}, a, e.clock, e.seen)'
  BY DEF Apart
<1>1. CASE e \in pushed
  <2>1. e.clock \in Nat
    BY <1>1 DEF PublishInv, PublishTypeOK
  <2>2. QED
    BY <1>1, <2>1, OverwrittenStays DEF Apart
<1>2. CASE e \notin pushed
  <2>1. PICK g \in Posts : Push(g) /\ e.post = g /\ e.agent = post[g].agent
    BY <1>2, MentionTables
  <2>2. QED
    BY <2>1, NotifiesOnce DEF Push
<1>3. QED
  BY <1>1, <1>2

\* The check of mention_rate before a notification.
LEMMA ConsiderApart ==
    ASSUME PublishInv, MentionSafe, NEW m \in Posts, NEW a \in Agents, Consider(m, a), Free(m, a)
    PROVE  Apart(m, a, post[m].clock, post[m].seen)
<1> SUFFICES ASSUME NEW e \in pushed, e.agent = a
             PROVE  \/ post[m].clock >= e.clock + Minute
                    \/ Overwritten(Posts \ {e.post, m}, a, e.clock, e.seen)
  BY DEF Apart
<1>1. Shows(a, e.post, e.clock, e.seen) /\ e.clock \in Nat
  BY DEF MentionSafe, Made, PublishInv, PublishTypeOK
<1>2. post[m].clock \in Nat /\ lastSent[a] \in Nat /\ Minute \in Nat
  BY <1>1, PublishAssumption DEF PublishInv, PublishTypeOK, Handler, Shows
<1>3. lastSent[a] <= post[m].clock - Minute
  BY <1>1 DEF Free, Shows
<1>4. CASE lastSent[a] >= e.clock
  BY <1>1, <1>2, <1>3, <1>4
<1>5. CASE Overwritten(Posts \ {e.post}, a, e.clock, e.seen)
  <2>1. PICK g \in Posts \ {e.post} : <<g, a>> \notin e.seen /\ Older(g, a, e.clock)
    BY <1>5 DEF Overwritten
  <2>2. ~Considered(m, a) /\ post[m].at = "mentions"
    BY DEF Considered, Consider
  <2>3. g # m
    BY <2>1, <2>2 DEF Older, MentionSafe, Made
  <2>4. QED
    BY <2>1, <2>3 DEF Overwritten
<1>6. QED
  BY <1>1, <1>4, <1>5 DEF Shows

LEMMA MakingStep ==
    ASSUME PublishInv, MentionSafe, [PublishNext]_publishVars, NEW m \in Posts
    PROVE  Making(m)'
<1>1. PICK h \in Handler : h = post[m]
  BY DEF PublishInv, PublishTypeOK
<1>2. h.seen \subseteq Notified /\ Notified \subseteq Notified' /\ h.seen \subseteq Notified'
  BY <1>1, MentionTables DEF MentionSafe, Making
<1>3. h.clock \in Nat
  BY DEF Handler
<1>4. \A b \in Agents : Rest(m, b).seen \in {h.seen, {}} /\ Rest(m, b).at \in {"mentions", "done"}
  BY <1>1 DEF Rest, Remaining, At
<1>5. ASSUME post'[m].at \notin {"marking", "pushing"}, post'[m].seen \subseteq Notified'
      PROVE  Making(m)'
  BY <1>5 DEF Making
<1>6. CASE post'[m] = h
  <2>1. CASE h.at \notin {"marking", "pushing"}
    BY <1>2, <1>5, <1>6, <2>1
  <2>2. CASE h.at \in {"marking", "pushing"}
    <3>1. PICK a \in Agents : a = h.agent
      BY <1>1, <2>2, NotifiesOnce
    <3>2. Apart(m, a, h.clock, h.seen) /\ (h.at = "pushing" => Shows(a, m, h.clock, h.seen))
      BY <1>1, <2>2, <3>1 DEF MentionSafe, Making
    <3>3. Apart(m, a, h.clock, h.seen)'
      BY <1>2, <1>3, <3>2, ApartStays
    <3>4. h.at = "pushing" => Shows(a, m, h.clock, h.seen)'
      <4>1. h.at = "pushing" => ~Mark(m)
        BY <1>1 DEF Mark
      <4>2. QED
        BY <1>2, <1>3, <3>2, <4>1, ShowsStays
    <3>5. QED
      BY <1>2, <1>6, <3>1, <3>3, <3>4 DEF Making, Apart, Shows
  <2>3. QED
    BY <2>1, <2>2
<1>7. CASE Mark(m)
  <2>1. h.at = "marking" /\ post'[m] = [h EXCEPT !.at = "pushing"]
    BY <1>1, <1>7, StepsFollow
  <2>2. PICK a \in Agents : a = h.agent
    BY <1>1, <2>1, NotifiesOnce
  <2>3. Apart(m, a, h.clock, h.seen)
    BY <1>1, <2>1, <2>2 DEF MentionSafe, Making
  <2>4. Apart(m, a, h.clock, h.seen)'
    BY <1>2, <1>3, <2>3, ApartStays
  <2>5. lastSent'[a] = h.clock
    BY <1>1, <1>7, <2>2 DEF Mark, PublishInv, PublishTypeOK
  <2>6. Shows(a, m, h.clock, h.seen)'
    BY <1>3, <2>5, PublishAssumption DEF Shows
  <2>7. post'[m].agent = a /\ post'[m].clock = h.clock /\ post'[m].seen = h.seen
    BY <2>1, <2>2 DEF Handler
  <2>8. QED
    BY <1>2, <2>4, <2>6, <2>7 DEF Making, Apart, Shows
<1>8. ASSUME NEW a \in Agents, Consider(m, a)
      PROVE  Making(m)'
  <2>1. CASE post'[m] = Rest(m, a)
    BY <1>2, <1>4, <1>5, <2>1
  <2>2. CASE post'[m] # Rest(m, a)
    <3>1. Free(m, a) /\ post'[m] = [h EXCEPT !.at = "marking", !.agent = a]
      BY <1>1, <1>8, <2>2 DEF Consider, PublishInv, PublishTypeOK
    <3>2. Apart(m, a, h.clock, h.seen)
      BY <1>1, <1>8, <3>1, ConsiderApart
    <3>3. Apart(m, a, h.clock, h.seen)'
      BY <1>2, <1>3, <3>2, ApartStays
    <3>4. post'[m].at = "marking" /\ post'[m].agent = a /\ post'[m].clock = h.clock
          /\ post'[m].seen = h.seen
      BY <3>1 DEF Handler
    <3>5. QED
      BY <1>2, <3>3, <3>4 DEF Making, Apart
  <2>3. QED
    BY <2>1, <2>2
<1>9. CASE Announce(m)
  <2>1. post'[m].seen \in {Notified, {}} /\ post'[m].at \in {"mentions", "done"}
    BY <1>9 DEF Announce, Remaining, At, PublishInv, PublishTypeOK
  <2>2. QED
    BY <1>2, <1>5, <2>1
<1>10. CASE Push(m)
  <2>1. post'[m] = Rest(m, h.agent) /\ h.agent \in Agents
    BY <1>1, <1>10, NotifiesOnce DEF Push, PublishInv, PublishTypeOK
  <2>2. QED
    BY <1>2, <1>4, <1>5, <2>1
<1>11. CASE Look(m) \/ Begin(m) \/ Count(m) \/ Insert(m) \/ Reread(m) \/ post'[m] = At("failed")
  <2>1. post'[m].at \notin {"marking", "pushing"}
    <3>1. At("failed").at = "failed"
      BY DEF At
    <3>2. QED
      BY <1>11, <3>1, StepsFollow
  <2>2. post'[m].seen \in {h.seen, {}}
    <3>1. CASE Look(m) \/ Begin(m) \/ Insert(m) \/ post'[m] = At("failed")
      <4>1. CASE Look(m)
        BY <1>1, <4>1 DEF Look, PublishInv, PublishTypeOK, Handler
      <4>2. CASE Begin(m)
        BY <4>2 DEF Begin, At, PublishInv, PublishTypeOK
      <4>3. CASE Insert(m)
        BY <4>3 DEF Insert, At, PublishInv, PublishTypeOK
      <4>4. CASE post'[m] = At("failed")
        BY <4>4 DEF At
      <4>5. QED
        BY <3>1, <4>1, <4>2, <4>3, <4>4
    <3>2. CASE Count(m) \/ Reread(m)
      <4>1. CASE Count(m) /\ Allowed(m)
        <5>1. PICK M \in SUBSET Agents : post' = [post EXCEPT ![m].at = "allowed", ![m].todo = M]
          BY <4>1 DEF Count
        <5>2. post'[m] = [h EXCEPT !.at = "allowed", !.todo = M]
          BY <1>1, <5>1 DEF PublishInv, PublishTypeOK
        <5>3. QED
          BY <5>2 DEF Handler
      <4>2. CASE post'[m] = At("failed")
        BY <4>2 DEF At
      <4>3. CASE Reread(m) /\ Present(m)
        BY <1>1, <4>3 DEF Reread, PublishInv, PublishTypeOK, Handler
      <4>4. CASE Reread(m) /\ ~Present(m)
        BY <4>4 DEF Reread, At, PublishInv, PublishTypeOK
      <4>5. QED
        BY <3>2, <4>1, <4>2, <4>3, <4>4 DEF Count, PublishInv, PublishTypeOK
    <3>3. QED
      BY <1>11, <3>1, <3>2
  <2>3. QED
    BY <1>2, <1>5, <2>1, <2>2
<1>12. QED
  BY <1>1, <1>6, <1>7, <1>8, <1>9, <1>10, <1>11, OneHandlerMoves

LEMMA MadeStep ==
    ASSUME PublishInv, MentionSafe, [PublishNext]_publishVars, NEW e \in pushed'
    PROVE  Made(e)'
<1>1. Notified \subseteq Notified'
  BY MentionTables
<1>2. ASSUME NEW m \in Posts, NEW a \in Agents, NEW c \in Nat, NEW seen \in SUBSET Notified,
             e.post = m, e.agent = a, e.clock = c, e.seen = seen,
             Shows(a, m, c, seen), ~(Mark(m) /\ post[m].agent = a), Apart(m, a, c, seen), Considered(m, a)'
      PROVE  Made(e)'
  <2>1. Shows(a, m, c, seen)' /\ Apart(m, a, c, seen)'
    BY <1>2, ShowsStays, ApartStays
  <2>2. QED
    BY <1>1, <1>2, <2>1 DEF Made
<1>3. CASE e \in pushed
  <2>1. e \in [post: Posts, agent: Agents, clock: Nat, seen: SUBSET (Posts \X Agents)] /\ Made(e)
    BY <1>3 DEF PublishInv, PublishTypeOK, MentionSafe
  <2>2. Considered(e.post, e.agent)'
    BY <2>1, DispatchGoesOn DEF Made
  <2>3. ~(Mark(e.post) /\ post[e.post].agent = e.agent)
    BY <2>1, NotifiesOnce DEF Made, Mark
  <2>4. QED
    BY <1>2, <2>1, <2>2, <2>3 DEF Made
<1>4. CASE e \notin pushed
  <2>1. PICK m \in Posts :
          Push(m) /\ e = [post |-> m, agent |-> post[m].agent, clock |-> post[m].clock,
                          seen |-> post[m].seen]
    BY <1>4, MentionTables
  <2>2. PICK h \in Handler : h = post[m]
    BY DEF PublishInv, PublishTypeOK
  <2>3. h.at = "pushing" /\ h.agent \in Agents /\ h.clock \in Nat /\ h.seen \in SUBSET Notified
    BY <2>1, <2>2, NotifiesOnce DEF Push, Handler, MentionSafe, Making
  <2>4. Shows(h.agent, m, h.clock, h.seen) /\ Apart(m, h.agent, h.clock, h.seen)
    BY <2>2, <2>3 DEF MentionSafe, Making
  <2>5. post'[m] = Rest(m, h.agent)
    BY <2>1, <2>2 DEF Push, PublishInv, PublishTypeOK
  <2>6. Considered(m, h.agent)'
    BY <2>5 DEF Considered, Rest, Remaining, At, Dispatch
  <2>7. ~Mark(m)
    BY <2>2, <2>3 DEF Mark
  <2>8. e.post = m /\ e.agent = h.agent /\ e.clock = h.clock /\ e.seen = h.seen
    BY <2>1, <2>2
  <2>9. QED
    BY <1>2, <2>3, <2>4, <2>6, <2>7, <2>8
<1>5. QED
  BY <1>3, <1>4

\* Two notifications of an agent within a minute take a third dispatch.
THEOREM MentionsAreCoalesced == PublishSpec => []MentionsCoalesced
<1>1. PublishInit => MentionSafe
  BY DEF PublishInit, MentionSafe, Making, At
<1>2. PublishInv /\ MentionSafe /\ [PublishNext]_publishVars => MentionSafe'
  <2> SUFFICES ASSUME PublishInv, MentionSafe, [PublishNext]_publishVars PROVE MentionSafe'
    OBVIOUS
  <2>1. \A e \in pushed' : Made(e)'
    BY MadeStep
  <2>2. \A m \in Posts : Making(m)'
    BY MakingStep
  <2>3. QED
    BY <2>1, <2>2 DEF MentionSafe
<1>3. PublishInv /\ MentionSafe => MentionsCoalesced
  <2> SUFFICES ASSUME PublishInv, MentionSafe, NEW e \in pushed, NEW f \in pushed,
                      e.agent = f.agent, <<e.post, e.agent>> \in f.seen,
                      f.clock < e.clock + Minute
               PROVE  Overwritten(Posts \ {e.post, f.post}, e.agent, e.clock, e.seen)
    BY DEF MentionsCoalesced, Overwritten
  <2>1. Apart(f.post, f.agent, f.clock, f.seen)
    BY DEF MentionSafe, Made
  <2>2. e.clock \in Nat /\ f.clock \in Nat /\ Minute \in Nat
    BY PublishAssumption DEF PublishInv, PublishTypeOK
  <2>3. ~(f.clock >= e.clock + Minute)
    BY <2>2
  <2>4. QED
    BY <2>1, <2>3 DEF Apart
<1>4. QED
  BY <1>1, <1>2, <1>3, PublishInvariance, PTL DEF PublishSpec

-----------------------------------------------------------------------------
(* Webhooks: the inductive invariant.                                      *)

\* An idle worker has no rows in hand; the POST that is out is of a row in
\* hand; the round began in the past.
RoundShape ==
    /\ ~round.busy => round.todo = {} /\ round.sent = None
    /\ round.sent # None => round.sent \in round.todo
    /\ round.at <= now

\* The rows in hand are as the round read them: RoundRowsWait, and what makes
\* them untouchable for the purge.
RoundFresh ==
    \A h \in round.todo :
        /\ h \in present /\ deliveredAt[h] = None
        /\ attempts[h] = round.tries[h] /\ attempts[h] < MaxAttempts
        /\ createdAt[h] <= round.at

\* An event that was not queued has a blank history; one that is delivered was
\* accepted, after it was queued.
HistorySound ==
    \A h \in Hooks :
        /\ h \notin queued => deliveredAt[h] = None /\ attempts[h] = 0
        /\ deliveredAt[h] # None => accepted[h] > 0 /\ createdAt[h] <= deliveredAt[h]
        /\ createdAt[h] <= now

\* Every success an endpoint reported is on record, on its way there, or lost.
Success(h) ==
    (IF deliveredAt[h] # None THEN 1 ELSE 0) + (IF round.sent = h /\ round.ok THEN 1 ELSE 0)
SuccessesCounted ==
    \A h \in Hooks :
        /\ accepted[h] <= Success(h) + lost[h]
        /\ round.sent = h /\ round.ok => accepted[h] > 0

IInv ==
    /\ TypeOK
    /\ AttemptsCounted
    /\ RoundShape
    /\ RoundFresh
    /\ HistorySound
    /\ SuccessesCounted

\* The pause before the next attempt is an integer.
LEMMA BackoffType == \A n \in Nat : Backoff(n) \in Int
<1>1. \A n \in Nat : 2^n \in Int
  BY SMT
<1>2. QED
  BY <1>1, WebhooksAssumption DEF Backoff

LEMMA InvInit == Init => IInv
  BY WebhooksAssumption
  DEF Init, IInv, TypeOK, AttemptsCounted, InFlight, RoundShape, RoundFresh, HistorySound,
      SuccessesCounted, Success, NoRound, Round

\* A row taken off the round leaves the rest of the round as it was.
LEMMA AfterRecordShape ==
    ASSUME TypeOK, RoundShape, NEW h \in Hooks, round.busy, round.sent = h
    PROVE  /\ AfterRecord(h) \in Round
           /\ AfterRecord(h).todo = round.todo \ {h}
           /\ AfterRecord(h).sent = None
           /\ AfterRecord(h).ok = FALSE
           /\ AfterRecord(h).at <= now
           /\ AfterRecord(h).todo # {} =>
                AfterRecord(h).at = round.at /\ AfterRecord(h).tries = round.tries
                    /\ AfterRecord(h).busy
<1> USE DEF TypeOK, RoundShape
<1>0. h \in round.todo /\ round.todo \subseteq Hooks /\ h # None
  BY WebhooksAssumption DEF Round
<1>1. CASE round.todo = {h}
  <2>1. AfterRecord(h) = NoRound
    BY <1>1 DEF AfterRecord
  <2>2. QED
    BY <1>1, <2>1 DEF NoRound, Round
<1>2. CASE round.todo # {h}
  <2>1. AfterRecord(h) = [round EXCEPT !.todo = @ \ {h}, !.sent = None, !.ok = FALSE]
    BY <1>2 DEF AfterRecord
  <2>2. QED
    BY <1>0, <1>2, <2>1 DEF Round
<1>3. QED
  BY <1>1, <1>2

-----------------------------------------------------------------------------
(* Each action keeps the invariant.                                        *)

LEMMA QueueStep ==
    ASSUME IInv, NEW h \in Hooks, Queue(h)
    PROVE  IInv'
<1> USE DEF Queue, IInv, endpoints
<1>1. TypeOK'
  BY DEF TypeOK
<1>2. AttemptsCounted'
  BY DEF AttemptsCounted, InFlight
<1>3. RoundShape'
  BY DEF RoundShape
<1>4. h \notin round.todo
  BY DEF RoundFresh, TypeOK
<1>5. RoundFresh'
  BY <1>4 DEF RoundFresh, TypeOK, Round
<1>6. HistorySound'
  BY DEF HistorySound, TypeOK
<1>7. SuccessesCounted'
  BY DEF SuccessesCounted, Success
<1>8. QED
  BY <1>1, <1>2, <1>3, <1>5, <1>6, <1>7

LEMMA SelectStep ==
    ASSUME IInv, Select
    PROVE  IInv'
<1>1. PICK S \in FirstDue :
        round' = [busy |-> TRUE, at |-> now, todo |-> S, tries |-> attempts,
                  sent |-> None, ok |-> FALSE]
  BY DEF Select
<1>2. S \subseteq DueRows
  BY DEF FirstDue
<1>3. UNCHANGED <<now, table, endpoints>> /\ round.sent = None
  BY DEF Select, IInv, RoundShape
<1> USE DEF IInv, table, columns, endpoints
<1>4. TypeOK'
  BY <1>1, <1>2, <1>3 DEF TypeOK, Round, DueRows
<1>5. AttemptsCounted'
  BY <1>1, <1>3, WebhooksAssumption DEF AttemptsCounted, InFlight
<1>6. RoundShape'
  BY <1>1, <1>3 DEF RoundShape, TypeOK
<1>7. RoundFresh'
  BY <1>1, <1>2, <1>3 DEF RoundFresh, DueRows, HistorySound, TypeOK
<1>8. HistorySound'
  BY <1>3 DEF HistorySound
<1>9. SuccessesCounted'
  BY <1>1, <1>3, WebhooksAssumption DEF SuccessesCounted, Success
<1>10. QED
  BY <1>4, <1>5, <1>6, <1>7, <1>8, <1>9

LEMMA SendStep ==
    ASSUME IInv, NEW h \in Hooks, NEW ok \in BOOLEAN, Send(h, ok)
    PROVE  IInv'
<1> USE DEF IInv, table, columns
<1>1. /\ round.busy /\ round.sent = None /\ h \in round.todo /\ h # None
      /\ round' = [round EXCEPT !.sent = h, !.ok = ok]
      /\ posts' = [posts EXCEPT ![h] = @ + 1]
      /\ accepted' = IF ok THEN [accepted EXCEPT ![h] = @ + 1] ELSE accepted
      /\ UNCHANGED <<now, table, lost>>
  BY WebhooksAssumption DEF Send, IsNext
<1>2. /\ round' \in Round
      /\ round'.sent = h /\ round'.ok = ok
      /\ round'.todo = round.todo /\ round'.at = round.at
      /\ round'.tries = round.tries /\ round'.busy
  BY <1>1 DEF TypeOK, Round
<1>3. TypeOK'
  BY <1>1, <1>2 DEF TypeOK
<1>4. AttemptsCounted'
  BY <1>1, <1>2, WebhooksAssumption DEF AttemptsCounted, InFlight, TypeOK
<1>5. RoundShape'
  BY <1>1, <1>2 DEF RoundShape
<1>6. RoundFresh'
  BY <1>1, <1>2 DEF RoundFresh
<1>7. HistorySound'
  BY <1>1 DEF HistorySound, TypeOK
<1>8. SuccessesCounted'
  BY <1>1, <1>2, WebhooksAssumption DEF SuccessesCounted, Success, TypeOK
<1>9. QED
  BY <1>3, <1>4, <1>5, <1>6, <1>7, <1>8

\* A round that ends, with or without a POST that is lost.
LEMMA GiveUpStep ==
    ASSUME IInv, Abandon \/ \E h \in Hooks : Raise(h)
    PROVE  IInv'
<1> USE DEF IInv, table, columns, endpoints
<1>1. /\ round' = NoRound
      /\ UNCHANGED <<now, table, posts, accepted>>
      /\ \/ round.sent = None /\ lost' = lost
         \/ \E h \in Hooks : round.sent = h /\ lost' = [lost EXCEPT ![h] = @ + 1]
  BY DEF Abandon, Raise, IsNext
<1>2. /\ round' \in Round /\ ~round'.busy /\ round'.sent = None
      /\ round'.todo = {} /\ round'.at = 0 /\ round'.ok = FALSE
  BY <1>1 DEF NoRound, Round
<1>3. TypeOK'
  BY <1>1, <1>2 DEF TypeOK
<1>4. AttemptsCounted'
  BY <1>1, <1>2, WebhooksAssumption DEF AttemptsCounted, InFlight, TypeOK
<1>5. RoundShape' /\ RoundFresh'
  BY <1>1, <1>2 DEF RoundShape, RoundFresh, TypeOK
<1>6. HistorySound'
  BY <1>1 DEF HistorySound
<1>7. SuccessesCounted'
  BY <1>1, <1>2, WebhooksAssumption DEF SuccessesCounted, Success, TypeOK
<1>8. QED
  BY <1>3, <1>4, <1>5, <1>6, <1>7

LEMMA RecordStep ==
    ASSUME IInv, NEW h \in Hooks, Record(h)
    PROVE  IInv'
<1> USE DEF IInv, endpoints
<1>1. /\ h \in round.todo /\ h \in present /\ h # None
      /\ deliveredAt[h] = None /\ createdAt[h] <= round.at
      /\ attempts[h] = round.tries[h] /\ attempts[h] < MaxAttempts
      /\ round.sent = h /\ round.busy /\ round.at \in Nat /\ round.at <= now
  BY WebhooksAssumption DEF Record, Counted, RoundShape, RoundFresh, TypeOK, Round
<1>2. /\ round' = AfterRecord(h)
      /\ attempts' = [attempts EXCEPT ![h] = attempts[h] + 1]
      /\ round.ok => deliveredAt' = [deliveredAt EXCEPT ![h] = round.at] /\ due' = due
      /\ ~round.ok => deliveredAt' = deliveredAt
                        /\ due' = [due EXCEPT ![h] = round.at + Backoff(round.tries[h] + 1)]
      /\ UNCHANGED <<now, queued, present, createdAt, endpoints>>
  BY <1>1 DEF Record, Counted
<1>3. /\ round' \in Round
      /\ round'.todo = round.todo \ {h}
      /\ round'.sent = None /\ round'.ok = FALSE
      /\ round'.at <= now
      /\ round'.todo # {} => round'.at = round.at /\ round'.tries = round.tries
                                /\ round'.busy
  BY <1>1, <1>2, AfterRecordShape
<1>4. attempts[h] + 1 \in 0..MaxAttempts /\ round.at + Backoff(round.tries[h] + 1) \in Int
  BY <1>1, BackoffType, WebhooksAssumption DEF TypeOK
<1>5. TypeOK'
  BY <1>1, <1>2, <1>3, <1>4 DEF TypeOK
<1>6. AttemptsCounted'
  BY <1>1, <1>2, <1>3, WebhooksAssumption DEF AttemptsCounted, InFlight, TypeOK
<1>7. RoundShape'
  BY <1>2, <1>3 DEF RoundShape
<1>8. RoundFresh'
  BY <1>1, <1>2, <1>3 DEF RoundFresh, TypeOK, Round
<1>9. HistorySound'
  BY <1>1, <1>2 DEF HistorySound, SuccessesCounted, TypeOK
<1>10. SuccessesCounted'
  BY <1>1, <1>2, <1>3, WebhooksAssumption DEF SuccessesCounted, Success, TypeOK
<1>11. QED
  BY <1>5, <1>6, <1>7, <1>8, <1>9, <1>10

LEMMA PurgeStep ==
    ASSUME IInv, Purge
    PROVE  IInv'
<1> USE DEF IInv, Purge, columns, endpoints
<1>1. \A h \in round.todo : h \notin Purgeable
  BY WebhooksAssumption DEF Purgeable, RoundFresh, TypeOK, Round
<1>2. TypeOK'
  BY DEF TypeOK
<1>3. AttemptsCounted' /\ RoundShape' /\ HistorySound'
  BY DEF AttemptsCounted, InFlight, RoundShape, HistorySound
<1>4. RoundFresh'
  BY <1>1 DEF RoundFresh
<1>5. SuccessesCounted'
  BY DEF SuccessesCounted, Success
<1>6. QED
  BY <1>2, <1>3, <1>4, <1>5

LEMMA TickStep ==
    ASSUME IInv, Tick
    PROVE  IInv'
<1> USE DEF IInv, Tick, table, columns, endpoints
<1>1. TypeOK'
  BY DEF TypeOK
<1>2. AttemptsCounted' /\ RoundFresh' /\ SuccessesCounted'
  BY DEF AttemptsCounted, InFlight, RoundFresh, SuccessesCounted, Success
<1>3. RoundShape' /\ HistorySound'
  BY DEF RoundShape, HistorySound, TypeOK, Round
<1>4. QED
  BY <1>1, <1>2, <1>3

LEMMA InvStep == IInv /\ [Next]_vars => IInv'
<1> SUFFICES ASSUME IInv, [Next]_vars PROVE IInv'
  OBVIOUS
<1>1. CASE Next
  BY <1>1, QueueStep, SelectStep, SendStep, GiveUpStep, RecordStep, PurgeStep, TickStep DEF Next
<1>2. CASE UNCHANGED vars
  BY <1>2 DEF vars, table, columns, endpoints, IInv, TypeOK, AttemptsCounted, InFlight,
              RoundShape, RoundFresh, HistorySound, SuccessesCounted, Success
<1>3. QED
  BY <1>1, <1>2

\* The strengthening holds always.
THEOREM Invariance == Spec => []IInv
<1>1. QED
  BY InvInit, InvStep, PTL DEF Spec

\* Types, and with them that no row is ever tried more than MaxAttempts times
\* by its own count.
THEOREM TypeCorrect == Spec => []TypeOK
<1>1. IInv => TypeOK
  BY DEF IInv
<1>2. QED
  BY <1>1, Invariance, PTL

\* The count of attempts is exact but for the POSTs a crash made it forget.
THEOREM AttemptsExact == Spec => []AttemptsCounted
<1>1. IInv => AttemptsCounted
  BY DEF IInv
<1>2. QED
  BY <1>1, Invariance, PTL

\* No cleanup, in whatever process, touches a row that a round has in hand.
THEOREM RowsWait == Spec => []RoundRowsWait
<1>1. IInv => RoundRowsWait
  BY DEF IInv, RoundFresh, RoundRowsWait
<1>2. QED
  BY <1>1, Invariance, PTL

\* An endpoint that answers with success hears of an event again only after a
\* crash between its answer and the UPDATE.
THEOREM RepeatsExplained == Spec => []RepeatsOnlyAfterLoss
<1>1. ASSUME IInv PROVE RepeatsOnlyAfterLoss
  <2>1. \A h \in Hooks : ~(deliveredAt[h] # None /\ round.sent = h)
    BY <1>1, WebhooksAssumption DEF IInv, RoundShape, RoundFresh
  <2>2. QED
    BY <1>1, <2>1 DEF IInv, SuccessesCounted, Success, RepeatsOnlyAfterLoss, TypeOK
<1>2. QED
  BY <1>1, Invariance, PTL

-----------------------------------------------------------------------------
(* The refinement.                                                         *)

\* The stage of an event follows its row.
LEMMA StageIs ==
    ASSUME NEW h \in Hooks, present \subseteq queued
    PROVE  /\ h \notin queued => Stage(h) = "unknown"
           /\ h \in queued /\ h \notin present => Stage(h) = "forgotten"
           /\ h \in present /\ Settled(h) => Stage(h) = "settled"
           /\ h \in present /\ ~Settled(h) => Stage(h) = "owed"
  BY DEF Stage

\* What a step does not touch keeps its stage.
LEMMA StageStays ==
    ASSUME NEW h \in Hooks,
           h \in queued' <=> h \in queued, h \in present' <=> h \in present,
           deliveredAt'[h] = deliveredAt[h], attempts'[h] = attempts[h]
    PROVE  Stage(h)' = Stage(h)
  BY DEF Stage, Settled

\* A new row is owed.
LEMMA QueueRefines ==
    ASSUME IInv, NEW h \in Hooks, Queue(h)
    PROVE  Promise!Accept(h)
<1> USE DEF IInv, TypeOK, Queue, endpoints
<1>1. deliveredAt[h] = None /\ attempts[h] < MaxAttempts
  BY WebhooksAssumption DEF HistorySound
<1>2. Stage(h) = "unknown"
  BY StageIs
<1>3. Stage(h)' = "owed"
  BY <1>1, WebhooksAssumption DEF Stage, Settled
<1>4. \A g \in Hooks \ {h} : Stage(g)' = Stage(g)
  BY DEF Stage, Settled
<1>5. QED
  BY <1>2, <1>3, <1>4 DEF Promise!Accept

\* A POST is sent for a row in hand, which is owed.
LEMMA SendRefines ==
    ASSUME IInv, NEW h \in Hooks, NEW ok \in BOOLEAN, Send(h, ok)
    PROVE  Promise!Try(h)
<1> USE DEF IInv, Send, table, columns
<1>1. Stage(h) = "owed"
  <2>1. h \in round.todo
    BY DEF IsNext
  <2>2. h \in present /\ ~Settled(h)
    BY <2>1, WebhooksAssumption DEF RoundFresh, Settled, TypeOK
  <2>3. QED
    BY <2>2, StageIs DEF TypeOK
<1>2. \A g \in Hooks : Stage(g)' = Stage(g)
  BY StageStays
<1>3. QED
  BY <1>1, <1>2 DEF Promise!Try

\* An outcome settles the event when it is a success or the last attempt, and
\* is invisible otherwise.
LEMMA RecordRefines ==
    ASSUME IInv, NEW h \in Hooks, Record(h)
    PROVE  Promise!Settle(h) \/ UNCHANGED Promise!pvars
<1> USE DEF IInv, endpoints
<1>1. /\ h \in present /\ round.sent = h /\ round.busy /\ h # None
      /\ deliveredAt[h] = None /\ round.at \in Nat
      /\ attempts[h] = round.tries[h] /\ attempts[h] < MaxAttempts
  BY WebhooksAssumption DEF Record, Counted, RoundShape, RoundFresh, TypeOK, Round
<1>2. /\ attempts' = [attempts EXCEPT ![h] = attempts[h] + 1]
      /\ deliveredAt' = IF round.ok THEN [deliveredAt EXCEPT ![h] = round.at] ELSE deliveredAt
      /\ UNCHANGED <<now, queued, present, createdAt, endpoints>>
  BY <1>1 DEF Record, Counted
<1>3. \A g \in Hooks \ {h} : Stage(g)' = Stage(g)
  BY <1>2, StageStays DEF TypeOK
<1>4. Stage(h) = "owed"
  BY <1>1, StageIs, WebhooksAssumption DEF Settled, TypeOK
<1>5. Stage(h)' = IF round.ok \/ attempts[h] + 1 >= MaxAttempts THEN "settled" ELSE "owed"
  <2>1. Settled(h)' <=> round.ok \/ attempts[h] + 1 >= MaxAttempts
    BY <1>1, <1>2, WebhooksAssumption DEF Settled, TypeOK
  <2>2. h \in queued' /\ h \in present'
    BY <1>1, <1>2 DEF TypeOK
  <2>3. QED
    BY <2>1, <2>2 DEF Stage
<1>6. CASE round.ok \/ attempts[h] + 1 >= MaxAttempts
  <2>1. accepted[h] > 0 \/ posts[h] >= MaxAttempts
    BY <1>1, <1>6, WebhooksAssumption DEF SuccessesCounted, AttemptsCounted, InFlight, TypeOK
  <2>2. QED
    BY <1>2, <1>3, <1>4, <1>5, <1>6, <2>1 DEF Promise!Settle
<1>7. CASE ~(round.ok \/ attempts[h] + 1 >= MaxAttempts)
  <2>1. \A g \in Hooks : Stage(g)' = Stage(g)
    BY <1>3, <1>4, <1>5, <1>7
  <2>2. QED
    BY <1>2, <2>1 DEF Promise!pvars
<1>8. QED
  BY <1>6, <1>7

\* A purged row was settled, and queued more than a week before.
LEMMA PurgeRefines ==
    ASSUME IInv, Purge
    PROVE  Promise!Forget(Purgeable)
<1> USE DEF IInv, TypeOK, Purge, columns, endpoints
<1>1. \A h \in Purgeable : Stage(h) = "settled" /\ createdAt[h] + Week < now
  <2> TAKE h \in Purgeable
  <2>1. h \in Hooks /\ h \in present /\ Settled(h)
    BY DEF Purgeable, Settled
  <2>2. createdAt[h] + Week < now
    BY <2>1, WebhooksAssumption DEF Purgeable, HistorySound
  <2>3. QED
    BY <2>1, <2>2, StageIs
<1>2. \A h \in Hooks : Stage(h)' = IF h \in Purgeable THEN "forgotten" ELSE Stage(h)
  <2> TAKE h \in Hooks
  <2>1. CASE h \in Purgeable
    <3>1. h \in queued' /\ h \notin present'
      BY <2>1 DEF Purgeable
    <3>2. QED
      BY <2>1, <3>1 DEF Stage
  <2>2. CASE h \notin Purgeable
    BY <2>2, StageStays
  <2>3. QED
    BY <2>1, <2>2
<1>3. Purgeable \subseteq Hooks
  BY DEF Purgeable
<1>4. QED
  BY <1>1, <1>2, <1>3 DEF Promise!Forget

\* Every other step is invisible but for the clock.
LEMMA QuietRefines ==
    ASSUME IInv, Select \/ Abandon \/ Tick \/ (\E h \in Hooks : Raise(h)) \/ UNCHANGED vars
    PROVE  Promise!Pass \/ UNCHANGED Promise!pvars
<1>1. \A h \in Hooks : Stage(h)' = Stage(h)
  BY StageStays DEF Select, Abandon, Tick, Raise, vars, table, columns
<1>2. QED
  BY <1>1 DEF Select, Abandon, Tick, Raise, vars, table, columns, endpoints,
              Promise!Pass, Promise!pvars

\* The table implements WebhookPromise: no event is sent once it is settled,
\* settled without an answer or its attempts, or forgotten early, whatever
\* crashes and cleanups come between the POSTs.
THEOREM PromiseKept == Spec => KeepsPromise
<1>1. Init => Promise!Init
  BY DEF Init, Promise!Init, Stage
<1>2. IInv /\ [Next]_vars => [Promise!Next]_(Promise!pvars)
  <2> SUFFICES ASSUME IInv, [Next]_vars PROVE [Promise!Next]_(Promise!pvars)
    OBVIOUS
  <2>1. ASSUME NEW h \in Hooks, Queue(h) PROVE Promise!Next
    BY <2>1, QueueRefines DEF Promise!Next
  <2>2. ASSUME NEW h \in Hooks, NEW ok \in BOOLEAN, Send(h, ok) PROVE Promise!Next
    BY <2>2, SendRefines DEF Promise!Next
  <2>3. ASSUME NEW h \in Hooks, Record(h) PROVE [Promise!Next]_(Promise!pvars)
    BY <2>3, RecordRefines DEF Promise!Next
  <2>4. CASE Purge
    <3>1. Purgeable \in SUBSET Hooks
      BY DEF Purgeable, IInv, TypeOK
    <3>2. QED
      BY <2>4, <3>1, PurgeRefines DEF Promise!Next
  <2>5. CASE Select \/ Abandon \/ Tick \/ (\E h \in Hooks : Raise(h)) \/ UNCHANGED vars
    BY <2>5, QuietRefines DEF Promise!Next
  <2>6. QED
    BY <2>1, <2>2, <2>3, <2>4, <2>5 DEF Next
<1>3. QED
  BY <1>1, <1>2, Invariance, PTL DEF Spec, KeepsPromise, Promise!Spec
=============================================================================
