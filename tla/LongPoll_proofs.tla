--------------------------- MODULE LongPoll_proofs ---------------------------
(***************************************************************************)
(* Theorems about LongPoll for every set of clients and posts, every       *)
(* waiter cap, page size and bound of the clock, checked by TLAPS.         *)
(***************************************************************************)
EXTENDS LongPoll, FiniteSetTheorems, TLAPS

\* A page hands the client messages, and its cursor a stamp.
LEMMA ReceiveType ==
    ASSUME TypeOK, NEW c \in Clients, NEW S \in Pages(c), Receive(c, S)
    PROVE  /\ cursor' \in [Clients -> Nat]
           /\ delivered' \in [Clients -> SUBSET Posts]
<1>1. S \subseteq Posts
  BY DEF Pages, Fresh, TypeOK
<1>2. delivered' \in [Clients -> SUBSET Posts]
  BY <1>1 DEF Receive, TypeOK
<1>3. cursor' \in [Clients -> Nat]
  BY <1>1 DEF Receive, TypeOK
<1>4. QED
  BY <1>2, <1>3

\* A reader holds a permit from Acquire to Requery or Fail; such readers can be
\* counted.
LEMMA HoldersFinite == IsFiniteSet(Holders) /\ Cardinality(Holders) \in Nat
<1>1. Holders \subseteq Clients
  BY DEF Holders
<1>2. IsFiniteSet(Holders)
  BY <1>1, FS_Subset, LongPollAssumption
<1>3. QED
  BY <1>2, FS_CardinalityType

\* A step that moves one reader changes the number of holders by at most one.
LEMMA HoldersMove ==
    ASSUME TypeOK, NEW c \in Clients, NEW s \in ReadSteps, Goto(c, s)
    PROVE  /\ step[c] \in Holding <=> s \in Holding => Holders' = Holders
           /\ step[c] \notin Holding /\ s \in Holding =>
                Cardinality(Holders') = Cardinality(Holders) + 1
           /\ step[c] \in Holding /\ s \notin Holding =>
                Cardinality(Holders') = Cardinality(Holders) - 1
<1>1. /\ step' = [step EXCEPT ![c] = s]
      /\ step \in [Clients -> ReadSteps]
  BY DEF Goto, TypeOK
<1>2. ASSUME step[c] \in Holding <=> s \in Holding
      PROVE  Holders' = Holders
  BY <1>1, <1>2 DEF Holders
<1>3. ASSUME step[c] \notin Holding, s \in Holding
      PROVE  Cardinality(Holders') = Cardinality(Holders) + 1
  <2>1. Holders' = Holders \cup {c} /\ c \notin Holders
    BY <1>1, <1>3 DEF Holders
  <2>2. QED
    BY <2>1, HoldersFinite, FS_AddElement
<1>4. ASSUME step[c] \in Holding, s \notin Holding
      PROVE  Cardinality(Holders') = Cardinality(Holders) - 1
  <2>1. Holders' = Holders \ {c} /\ c \in Holders
    BY <1>1, <1>4 DEF Holders
  <2>2. QED
    BY <2>1, HoldersFinite, FS_RemoveElement
<1>5. QED
  BY <1>2, <1>3, <1>4

\* What a post in progress and a reader on its way to sleep know of each other.
\* A reader that has found nothing has seen every complete local post, unless
\* the version has moved on since it captured it; asleep, it has not.
SeenOf(c) == \A p \in Local \cap live : post[p] = "done" => createdAt[p] <= cursor[c]
WakeSound ==
    \A c \in Clients :
        /\ seen[c] <= version
        /\ step[c] = "waiting" => version = seen[c]
        /\ step[c] \in {"empty", "checking", "waiting", "woken"} => SeenOf(c) \/ version > seen[c]

IInv == TypeOK /\ PermitsConserved /\ WakeSound

LEMMA InvInit == Init => IInv
<1> SUFFICES ASSUME Init PROVE IInv
  OBVIOUS
<1>1. TypeOK
  BY LongPollAssumption DEF Init, TypeOK, PostSteps, ReadSteps
<1>2. Holders = {}
  BY DEF Init, Holders, Holding
<1>3. PermitsConserved
  BY <1>2, FS_EmptySet, LongPollAssumption DEF Init, PermitsConserved
<1>4. WakeSound
  BY DEF Init, WakeSound
<1>5. QED
  BY <1>1, <1>3, <1>4 DEF IInv

LEMMA TypeStep ==
    ASSUME TypeOK, PermitsConserved, [Next]_vars
    PROVE  TypeOK'
<1>0. CASE UNCHANGED vars
  BY <1>0 DEF TypeOK, vars, postVars, readerVars
<1>1. ASSUME NEW p \in Posts, Stamp(p) \/ Commit(p) \/ Reread(p) \/ Vanish(p)
      PROVE  TypeOK'
  BY <1>1 DEF TypeOK, Stamp, Commit, Reread, Vanish, readerVars, PostSteps
<1>2. ASSUME NEW p \in Posts, Signal(p) PROVE TypeOK'
  BY <1>2 DEF TypeOK, Signal, PostSteps, ReadSteps
<1>3. ASSUME NEW c \in Clients,
             Capture(c) \/ FindNothing(c) \/ CheckVersion(c) \/ TimeOut(c)
      PROVE  TypeOK'
  BY <1>3 DEF TypeOK, Capture, FindNothing, CheckVersion, TimeOut, Goto, postVars, ReadSteps
<1>4. ASSUME NEW c \in Clients, Acquire(c) \/ Fail(c) PROVE TypeOK'
  BY <1>4 DEF TypeOK, Acquire, Fail, Goto, postVars, ReadSteps
<1>5. ASSUME NEW c \in Clients, Reply(c) \/ Requery(c) PROVE TypeOK'
  <2>1. PICK S \in Pages(c) : Receive(c, S)
    BY <1>5 DEF Reply, Requery
  <2>2. cursor' \in [Clients -> Nat] /\ delivered' \in [Clients -> SUBSET Posts]
    BY <2>1, ReceiveType
  <2>3. QED
    BY <1>5, <2>2 DEF TypeOK, Reply, Requery, Goto, postVars, ReadSteps
<1>6. CASE Tick
  BY <1>6 DEF TypeOK, Tick, postVars, readerVars
<1>7. QED
  BY <1>0, <1>1, <1>2, <1>3, <1>4, <1>5, <1>6 DEF Next, Reader

LEMMA PermitsStep ==
    ASSUME TypeOK, PermitsConserved, [Next]_vars
    PROVE  PermitsConserved'
<1> USE DEF PermitsConserved
<1>a. permits \in Nat /\ MaxWaiters \in Nat /\ Cardinality(Holders) \in Nat
  BY HoldersFinite, LongPollAssumption DEF TypeOK
<1>0. CASE UNCHANGED vars
  BY <1>0 DEF vars, readerVars, Holders
<1>1. ASSUME NEW p \in Posts, Stamp(p) \/ Commit(p) \/ Reread(p) \/ Vanish(p)
      PROVE  PermitsConserved'
  BY <1>1 DEF Stamp, Commit, Reread, Vanish, readerVars, Holders
<1>2. ASSUME NEW p \in Posts, Signal(p) PROVE PermitsConserved'
  <2>1. Holders' = Holders
    BY <1>2 DEF Signal, Holders, Holding, TypeOK
  <2>2. QED
    BY <1>2, <2>1 DEF Signal
<1>3. ASSUME NEW c \in Clients, NEW s \in ReadSteps, Goto(c, s),
             permits' = permits, step[c] \in Holding <=> s \in Holding
      PROVE  PermitsConserved'
  BY <1>3, HoldersMove
<1>4. ASSUME NEW c \in Clients, NEW s \in ReadSteps, Goto(c, s),
             permits' = permits + 1, step[c] \in Holding, s \notin Holding
      PROVE  PermitsConserved'
  BY <1>a, <1>4, HoldersMove
<1>5. ASSUME NEW c \in Clients, Acquire(c) PROVE PermitsConserved'
  <2>1. CASE permits > 0
    <3>1. Goto(c, "checking") /\ permits' = permits - 1 /\ step[c] = "empty"
      BY <1>5, <2>1 DEF Acquire
    <3>2. Cardinality(Holders') = Cardinality(Holders) + 1
      BY <3>1, HoldersMove DEF Holding, ReadSteps
    <3>3. QED
      BY <1>a, <3>1, <3>2
  <2>2. CASE ~(permits > 0)
    BY <1>3, <1>5, <2>2 DEF Acquire, Holding, ReadSteps
  <2>3. QED
    BY <2>1, <2>2
<1>6. ASSUME NEW c \in Clients,
             Capture(c) \/ Reply(c) \/ FindNothing(c) \/ CheckVersion(c) \/ TimeOut(c)
      PROVE  PermitsConserved'
  <2>1. CASE Capture(c) \/ Reply(c) \/ FindNothing(c)
    BY <1>3, <2>1 DEF Capture, Reply, FindNothing, Holding, ReadSteps
  <2>2. CASE CheckVersion(c) \/ TimeOut(c)
    BY <1>3, <2>2 DEF CheckVersion, TimeOut, Holding, ReadSteps
  <2>3. QED
    BY <1>6, <2>1, <2>2
<1>7. ASSUME NEW c \in Clients, Requery(c) \/ Fail(c) PROVE PermitsConserved'
  <2>1. CASE step[c] = "requery"
    BY <1>4, <1>7, <2>1 DEF Requery, Fail, Holding, ReadSteps
  <2>2. CASE step[c] # "requery"
    BY <1>3, <1>7, <2>2 DEF Requery, Fail, Holding, ReadSteps
  <2>3. QED
    BY <2>1, <2>2
<1>8. CASE Tick
  BY <1>8 DEF Tick, readerVars, Holders
<1>9. QED
  BY <1>0, <1>1, <1>2, <1>5, <1>6, <1>7, <1>8 DEF Next, Reader

LEMMA WakeStep ==
    ASSUME TypeOK, WakeSound, [Next]_vars
    PROVE  WakeSound'
<1> USE DEF WakeSound, SeenOf
<1>0. CASE UNCHANGED vars
  BY <1>0 DEF vars, postVars, readerVars
<1>1. ASSUME NEW p \in Posts, Stamp(p) \/ Commit(p) \/ Reread(p) \/ Vanish(p)
      PROVE  WakeSound'
  BY <1>1 DEF Stamp, Commit, Reread, Vanish, readerVars, TypeOK, PostSteps
<1>2. ASSUME NEW p \in Posts, Signal(p) PROVE WakeSound'
  BY <1>2 DEF Signal, TypeOK, PostSteps
<1>3. ASSUME NEW c \in Clients, Capture(c) PROVE WakeSound'
  BY <1>3 DEF Capture, Goto, postVars, TypeOK
<1>4. ASSUME NEW c \in Clients, FindNothing(c) PROVE WakeSound'
  <2>1. \A p \in Local \cap live : createdAt[p] <= cursor[c]
    BY <1>4, LongPollAssumption DEF FindNothing, Fresh, TypeOK
  <2>2. QED
    BY <1>4, <2>1 DEF FindNothing, Goto, postVars, TypeOK
<1>5. ASSUME NEW c \in Clients, Acquire(c) \/ CheckVersion(c) \/ TimeOut(c) \/ Fail(c)
      PROVE  WakeSound'
  BY <1>5 DEF Acquire, CheckVersion, TimeOut, Fail, Goto, postVars, TypeOK
<1>6. ASSUME NEW c \in Clients, Reply(c) \/ Requery(c) PROVE WakeSound'
  <2>1. \A d \in Clients \ {c} : cursor'[d] = cursor[d]
    BY <1>6 DEF Reply, Requery, Receive, TypeOK
  <2>2. QED
    BY <1>6, <2>1 DEF Reply, Requery, Goto, postVars, TypeOK
<1>7. CASE Tick
  BY <1>7 DEF Tick, postVars, readerVars
<1>8. QED
  BY <1>0, <1>1, <1>2, <1>3, <1>4, <1>5, <1>6, <1>7 DEF Next, Reader

LEMMA InvStep == IInv /\ [Next]_vars => IInv'
  BY TypeStep, PermitsStep, WakeStep DEF IInv

\* The strengthened invariant holds in every behaviour.
THEOREM Invariance == Spec => []IInv
<1>1. IInv /\ [Next]_vars => IInv'
  BY InvStep
<1>2. QED
  BY InvInit, <1>1, PTL DEF Spec

\* Type correctness: among the rest, the semaphore never goes below zero.
THEOREM TypeCorrect == Spec => []TypeOK
<1>1. IInv => TypeOK
  BY DEF IInv
<1>2. QED
  BY Invariance, <1>1, PTL

\* No permit is lost, whatever request fails or times out at whatever step.
THEOREM PermitsNeverLeak == Spec => []PermitsConserved
<1>1. IInv => PermitsConserved
  BY DEF IInv
<1>2. QED
  BY Invariance, <1>1, PTL

\* No request sleeps on a message that its own server process has announced.
THEOREM WakeupNeverLost == Spec => []NoLostWakeup
<1>1. IInv => NoLostWakeup
  BY DEF IInv, TypeOK, WakeSound, SeenOf, NoLostWakeup
<1>2. QED
  BY Invariance, <1>1, PTL

-----------------------------------------------------------------------------
(* What the cursor passes over.                                            *)

\* The rows of the channel are those of posts that committed, finitely many.
LiveSound == IsFiniteSet(live) /\ \A p \in live : post[p] \notin {"new", "stamped"}

LEMMA LiveStep == TypeOK /\ LiveSound /\ [Next]_vars => LiveSound'
<1> SUFFICES ASSUME TypeOK, LiveSound, [Next]_vars PROVE LiveSound'
  OBVIOUS
<1>1. ASSUME NEW p \in Posts, Commit(p) PROVE LiveSound'
  <2>1. IsFiniteSet(live') /\ live' = live \cup {p}
    BY <1>1, FS_AddElement DEF Commit, LiveSound
  <2>2. post' \in [Posts -> PostSteps] /\ post'[p] \in {"stored", "done"}
        /\ \A q \in live \ {p} : post'[q] = post[q]
    BY <1>1 DEF Commit, TypeOK, PostSteps
  <2>3. QED
    BY <2>1, <2>2 DEF LiveSound
<1>2. ASSUME NEW p \in Posts, Vanish(p) PROVE LiveSound'
  BY <1>2, FS_RemoveElement DEF Vanish, LiveSound
<1>3. ASSUME NEW p \in Posts, Stamp(p) \/ Reread(p) \/ Signal(p) PROVE LiveSound'
  <2>1. live' = live /\ (p \in live => post'[p] \in {"reread", "done"})
        /\ \A q \in live \ {p} : post'[q] = post[q]
    BY <1>3 DEF Stamp, Reread, Signal, LiveSound, TypeOK
  <2>2. QED
    BY <2>1 DEF LiveSound
<1>4. CASE UNCHANGED <<post, live>>
  BY <1>4 DEF LiveSound
<1>5. ASSUME NEW c \in Clients, Reader(c) PROVE UNCHANGED <<post, live>>
  BY <1>5 DEF Reader, Capture, Reply, FindNothing, Acquire, CheckVersion, TimeOut, Requery, Fail,
              postVars
<1>6. CASE Tick \/ UNCHANGED vars
  BY <1>4, <1>6 DEF Tick, vars, postVars
<1>7. QED
  BY <1>1, <1>2, <1>3, <1>4, <1>5, <1>6 DEF Next

THEOREM LiveInvariance == Spec => []LiveSound
<1>1. Init => LiveSound
  BY FS_EmptySet DEF Init, LiveSound
<1>2. TypeOK /\ LiveSound /\ [Next]_vars => LiveSound'
  BY LiveStep
<1>3. QED
  BY <1>1, <1>2, TypeCorrect, PTL DEF Spec

\* A page moves the cursor past a message that it leaves out only if the page is
\* full and the message has the stamp of its last one.
LEMMA PagePasses ==
    ASSUME TypeOK, LiveSound, NEW c \in Clients, NEW S \in Pages(c), Receive(c, S),
           NEW p \in Fresh(c), p \notin S, createdAt[p] <= cursor'[c]
    PROVE  createdAt[p] = cursor'[c] /\ Cardinality(Fresh(c)) > PageSize
<1>1. /\ createdAt \in [Posts -> Nat] /\ cursor \in [Clients -> Nat] /\ live \subseteq Posts
      /\ createdAt[p] > cursor[c] /\ p \in live
      /\ S \subseteq Fresh(c) /\ Fresh(c) \subseteq live
      /\ Cardinality(S) = PageSize
      /\ \A s \in S, q \in Fresh(c) \ S : createdAt[s] <= createdAt[q]
  BY DEF TypeOK, Pages, Fresh
<1>2. PICK s \in S : cursor'[c] = createdAt[s]
  <2>1. \/ S = {} /\ cursor' = cursor
        \/ \E s \in S : cursor' = [cursor EXCEPT ![c] = createdAt[s]]
    BY DEF Receive
  <2>2. cursor' # cursor
    BY <1>1
  <2>3. QED
    BY <1>1, <2>1, <2>2
<1>3. createdAt[s] <= createdAt[p] /\ createdAt[s] \in Nat /\ createdAt[p] \in Nat
  BY <1>1, <1>2
<1>4. IsFiniteSet(Fresh(c)) /\ IsFiniteSet(S)
  BY <1>1, FS_Subset DEF LiveSound
<1>5. Cardinality(S \cup {p}) = PageSize + 1
  BY <1>1, <1>4, FS_AddElement
<1>6. Cardinality(S \cup {p}) <= Cardinality(Fresh(c))
  BY <1>1, <1>4, FS_Subset
<1>7. Cardinality(Fresh(c)) \in Nat /\ PageSize \in Nat
  BY <1>4, FS_CardinalityType, LongPollAssumption
<1>8. QED
  BY <1>2, <1>3, <1>5, <1>6, <1>7

\* A client that follows next_cursor misses only what commits behind its cursor
\* and what is tied with the end of a full page, for every page size, however
\* many clients and posts there are.
THEOREM CursorSkipsLittle == Spec => SkipsOnlyLateAndTied
<1> DEFINE Excused == \A c \in Clients : \A p \in Missed(c)' \ Missed(c) :
                        \/ p \notin live
                        \/ createdAt[p] = cursor'[c] /\ Cardinality(Fresh(c)) > PageSize
<1>1. ASSUME TypeOK, LiveSound, Next PROVE Excused
  <2> SUFFICES ASSUME NEW c \in Clients, NEW p \in live, p \in Missed(c)', p \notin Missed(c)
               PROVE  createdAt[p] = cursor'[c] /\ Cardinality(Fresh(c)) > PageSize
    OBVIOUS
  <2> DEFINE Goal == createdAt[p] = cursor'[c] /\ Cardinality(Fresh(c)) > PageSize
  <2>1. createdAt'[p] <= cursor'[c] /\ p \notin delivered'[c]
    BY DEF Missed
  <2>2. createdAt[p] \in Nat /\ cursor[c] \in Nat /\ p \in Posts
    BY <1>1 DEF TypeOK
  <2>3. ASSUME createdAt'[p] = createdAt[p], UNCHANGED <<cursor, delivered>> PROVE FALSE
    BY <2>1, <2>3 DEF Missed
  <2>4. ASSUME NEW q \in Posts, Stamp(q) \/ Commit(q) \/ Reread(q) \/ Signal(q) \/ Vanish(q)
        PROVE  createdAt'[p] = createdAt[p] /\ UNCHANGED <<cursor, delivered>>
    BY <1>1, <2>2, <2>4 DEF Stamp, Commit, Reread, Signal, Vanish, readerVars, LiveSound, TypeOK
  <2>5. ASSUME NEW d \in Clients,
               \/ Capture(d) \/ FindNothing(d) \/ Acquire(d) \/ CheckVersion(d)
               \/ TimeOut(d) \/ Fail(d)
        PROVE  createdAt' = createdAt /\ UNCHANGED <<cursor, delivered>>
    BY <2>5 DEF Capture, FindNothing, Acquire, CheckVersion, TimeOut, Fail, postVars
  <2>6. ASSUME NEW d \in Clients, Reply(d) \/ Requery(d) PROVE Goal
    <3>1. PICK S \in Pages(d) : Receive(d, S)
      BY <2>6 DEF Reply, Requery
    <3>2. createdAt' = createdAt
      BY <2>6 DEF Reply, Requery, postVars
    <3>3. delivered' = [delivered EXCEPT ![d] = @ \cup S]
          /\ delivered \in [Clients -> SUBSET Posts] /\ cursor \in [Clients -> Nat]
      BY <1>1, <3>1 DEF Receive, TypeOK
    <3>4. CASE d # c
      <4>1. cursor'[c] = cursor[c] /\ delivered'[c] = delivered[c]
        BY <3>1, <3>3, <3>4 DEF Receive
      <4>2. QED
        BY <2>1, <3>2, <4>1 DEF Missed
    <3>5. CASE d = c
      <4>1. p \notin S /\ p \notin delivered[c]
        BY <2>1, <3>3, <3>5
      <4>2. p \in Fresh(c)
        BY <2>2, <4>1 DEF Missed, Fresh
      <4>3. QED
        BY <1>1, <2>1, <3>1, <3>2, <3>5, <4>1, <4>2, PagePasses
    <3>6. QED
      BY <3>4, <3>5
  <2>7. CASE Tick
    BY <2>3, <2>7 DEF Tick, postVars, readerVars
  <2>8. QED
    BY <1>1, <2>3, <2>4, <2>5, <2>6, <2>7 DEF Next, Reader
<1>2. TypeOK /\ LiveSound /\ [Next]_vars => [Excused]_vars
  BY <1>1
<1>3. QED
  BY <1>2, TypeCorrect, LiveInvariance, PTL DEF Spec, SkipsOnlyLateAndTied
=============================================================================
