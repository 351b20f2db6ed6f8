-------------------------- MODULE ClaimLease_proofs --------------------------
(***************************************************************************)
(* Theorems about ClaimLease for every set of messages, actors, tokens and *)
(* threads and every bound of the clock, checked by TLAPS.                 *)
(***************************************************************************)
EXTENDS ClaimLease, TLAPS

-----------------------------------------------------------------------------
(* Type correctness.                                                       *)

\* What a handler remembers is well formed, whatever it reads.
LEMMA PendingType ==
    ASSUME NEW op \in Ops, NEW step \in {"decide", "write"},
           NEW a \in Actors \cup {None}, NEW m \in Messages \cup {None},
           NEW p \in Actors \cup {None}, NEW u \in Nat \cup {None},
           NEW at \in Nat, NEW k \in Tokens \cup {None}
    PROVE  Pending(op, step, a, m, p, u, at, k) \in Request
  BY DEF Pending, Request

\* Blanking a column keeps it a column.
LEMMA BlankType ==
    ASSUME NEW T, NEW f \in [Messages -> T \cup {None}], NEW S
    PROVE  Blank(f, S) \in [Messages -> T \cup {None}]
  BY DEF Blank

\* Counting one more acknowledgement keeps the counters.
LEMMA CounterType ==
    ASSUME NEW g \in [Actors -> Nat], NEW a
    PROVE  [g EXCEPT ![a] = g[a] + 1] \in [Actors -> Nat]
<1>1. CASE a \in Actors
  <2>1. g[a] + 1 \in Nat
    BY <1>1
  <2>2. QED
    BY <2>1
<1>2. CASE a \notin Actors
  BY <1>2
<1>3. QED
  BY <1>1, <1>2

\* Removing rows keeps the row variables well typed.
LEMMA RemoveRowsType ==
    ASSUME TypeOK, NEW S, RemoveRows(S)
    PROVE  /\ live' \subseteq Messages
           /\ acks' \in [Messages -> [Actors -> Nat]]
           /\ lastClaim' \in [Messages -> Actors \cup {None}]
  BY DEF TypeOK, RemoveRows, NoAcks

\* The claim UPDATE keeps the row variables well typed.
LEMMA TakeClaimType ==
    ASSUME TypeOK, NEW r \in Request,
           NEW k \in Tokens \cup {None}, NEW e \in Nat \cup {None}, TakeClaim(r, k, e)
    PROVE  /\ live' \subseteq Messages
           /\ claimedBy' \in [Messages -> Actors \cup {None}]
           /\ claimedByKey' \in [Messages -> Actors \cup {None}]
           /\ leaseToken' \in [Messages -> Tokens \cup {None}]
           /\ leaseExpires' \in [Messages -> Nat \cup {None}]
           /\ acks' \in [Messages -> [Actors -> Nat]]
           /\ lastClaim' \in [Messages -> Actors \cup {None}]
  BY DEF TypeOK, TakeClaim, Request

\* Every step of every handler and of the worker keeps the types.
LEMMA TypeStep ==
    ASSUME TypeOK, [Next]_vars
    PROVE  TypeOK'
<1>0. CASE UNCHANGED vars
  BY <1>0 DEF TypeOK, vars, row
<1>1. ASSUME NEW t \in Threads, NEW op \in {"claim", "lease"}, NEW a \in Actors,
             NEW m \in Messages, ClaimRead(t, op, a, m)
      PROVE  TypeOK'
  <2>1. Pending(op, "decide", a, m, claimedBy[m], leaseExpires[m], 0, None) \in Request
    BY PendingType DEF Ops, TypeOK
  <2>2. QED
    BY <1>1, <2>1 DEF TypeOK, ClaimRead, Start, row
<1>2. ASSUME NEW t \in Threads, NEW a \in Actors, NEW m \in Messages,
             ReleaseRead(t, a, m) \/ AckRead(t, a, m)
      PROVE  TypeOK'
  <2>1. /\ Pending("release", "write", a, m, None, None, 0, None) \in Request
        /\ Pending("ack", "write", a, m, None, None, 0, None) \in Request
    BY PendingType DEF Ops
  <2>2. QED
    BY <1>2, <2>1 DEF TypeOK, ReleaseRead, AckRead, Start, row
<1>3. ASSUME NEW t \in Threads, NEW k \in issued, HeartbeatRead(t, k)
      PROVE  TypeOK'
  <2>1. Pending("heartbeat", "write", None, None, None, None, now, k) \in Request
    BY PendingType DEF Ops, TypeOK
  <2>2. QED
    BY <1>3, <2>1 DEF TypeOK, HeartbeatRead, Start, row
<1>4. ASSUME NEW t \in Threads, NEW m \in Messages, DeleteRead(t, m)
      PROVE  TypeOK'
  <2>1. Pending("delete", "write", None, m, None, None, 0, None) \in Request
    BY PendingType DEF Ops
  <2>2. QED
    BY <1>4, <2>1 DEF TypeOK, DeleteRead, Start, row
<1>5. ASSUME NEW t \in Threads, ClaimDecide(t) PROVE TypeOK'
  <2>1. req[t] \in Request
    BY <1>5 DEF TypeOK, ClaimDecide, At
  <2>2. Pending(req[t].op, "write", req[t].actor, req[t].msg,
                req[t].prev, None, now, None) \in Request
    BY <2>1 DEF Request, TypeOK, Pending
  <2>3. QED
    BY <1>5, <2>2 DEF TypeOK, ClaimDecide, row
<1>6. ASSUME NEW t \in Threads, ClaimWrite(t) \/ LeaseWrite(t) PROVE TypeOK'
  <2>1. req[t] \in Request /\ req' \in [Threads -> Request \cup {Idle}]
    BY <1>6 DEF TypeOK, ClaimWrite, LeaseWrite, At, Finish
  <2>2. CASE UNCHANGED row
    BY <1>6, <2>1, <2>2 DEF TypeOK, ClaimWrite, LeaseWrite, row
  <2>3. CASE ~ UNCHANGED row
    <3>1. PICK k \in Tokens \cup {None}, e \in Nat \cup {None} : TakeClaim(req[t], k, e)
      <4>1. CASE ClaimWrite(t)
        BY <2>3, <4>1 DEF ClaimWrite
      <4>2. CASE LeaseWrite(t)
        <5>1. PICK k \in Tokens, s \in LeaseSeconds : TakeClaim(req[t], k, req[t].at + s)
          BY <2>3, <4>2 DEF LeaseWrite
        <5>2. req[t].at + s \in Nat
          BY <2>1, TimesAssumption DEF Request
        <5>3. QED
          BY <5>1, <5>2
      <4>3. QED
        BY <1>6, <4>1, <4>2
    <3>2. /\ issued' \subseteq Tokens
          /\ UNCHANGED <<now, sweep>>
      BY <1>6 DEF TypeOK, ClaimWrite, LeaseWrite
    <3>3. QED
      BY <2>1, <3>1, <3>2, TakeClaimType DEF TypeOK
  <2>4. QED
    BY <2>2, <2>3
<1>7. ASSUME NEW t \in Threads, ReleaseWrite(t) PROVE TypeOK'
  BY <1>7 DEF TypeOK, ReleaseWrite, Finish
<1>8. ASSUME NEW t \in Threads, AckWrite(t) PROVE TypeOK'
  <2>1. acks' \in [Messages -> [Actors -> Nat]]
    <3> DEFINE m == req[t].msg
               a == req[t].actor
               f == [acks[m] EXCEPT ![a] = acks[m][a] + 1]
    <3>1. CASE m \notin live
      BY <1>8, <3>1 DEF TypeOK, AckWrite
    <3>2. CASE m \in live
      <4>1. acks[m] \in [Actors -> Nat]
        BY <3>2 DEF TypeOK
      <4>2. f \in [Actors -> Nat]
        BY <4>1, CounterType
      <4>3. acks' = [acks EXCEPT ![m] = f]
        BY <1>8, <3>2 DEF AckWrite
      <4>4. QED
        BY <4>2, <4>3 DEF TypeOK
    <3>3. QED
      BY <3>1, <3>2
  <2>2. QED
    BY <1>8, <2>1 DEF TypeOK, AckWrite, Finish
<1>9. ASSUME NEW t \in Threads, HeartbeatWrite(t) PROVE TypeOK'
  <2>1. req[t] \in Request
    BY <1>9 DEF TypeOK, HeartbeatWrite, At
  <2>2. \A s \in LeaseSeconds : req[t].at + s \in Nat
    BY <2>1, TimesAssumption DEF Request
  <2>3. leaseExpires' \in [Messages -> Nat \cup {None}]
    BY <1>9, <2>2 DEF TypeOK, HeartbeatWrite
  <2>4. QED
    BY <1>9, <2>3 DEF TypeOK, HeartbeatWrite, Finish
<1>10. ASSUME NEW t \in Threads, DeleteWrite(t) PROVE TypeOK'
  BY <1>10, RemoveRowsType, BlankType DEF TypeOK, DeleteWrite, ReturnToPool, Finish
<1>11. ASSUME NEW t \in Threads, Abort(t) PROVE TypeOK'
  BY <1>11 DEF TypeOK, Abort, Finish, row
<1>12. CASE SweepSelect
  BY <1>12 DEF TypeOK, SweepSelect, Pass, Reclaimable, row
<1>13. CASE SweepWrite
  BY <1>13, BlankType DEF TypeOK, SweepWrite, ReturnToPool, NoPass, Pass
<1>14. CASE AbortSweep
  BY <1>14 DEF TypeOK, AbortSweep, NoPass, Pass, row
<1>15. CASE Cleanup
  <2>1. PICK at \in 0..now :
            LET purged == CleanupPurges(at)
                freed == CleanupReleases(at) \cup purged
            IN  /\ claimedBy' = Blank(claimedBy, freed)
                /\ claimedByKey' = Blank(claimedByKey, purged)
                /\ leaseToken' = Blank(leaseToken, freed)
                /\ leaseExpires' = Blank(leaseExpires, freed)
                /\ RemoveRows(purged)
                /\ UNCHANGED <<now, issued, req, sweep>>
    BY <1>15 DEF Cleanup
  <2>2. QED
    BY <2>1, RemoveRowsType, BlankType DEF TypeOK
<1>16. ASSUME NEW S, RemoveRows(S), ReturnToPool(S), UNCHANGED <<now, issued, req, sweep>>
       PROVE  TypeOK'
  BY <1>16, RemoveRowsType, BlankType DEF TypeOK, ReturnToPool
<1>17. CASE Tick
  BY <1>17 DEF TypeOK, Tick, row
<1>18. QED
  BY <1>0, <1>1, <1>2, <1>3, <1>4, <1>5, <1>6, <1>7, <1>8, <1>9, <1>10, <1>11,
     <1>12, <1>13, <1>14, <1>15, <1>16, <1>17
     DEF Next, Step, NewCall, Worker, Trim, DeleteChannel

\* Every variable keeps its type in every step of the claim, lease,
\* acknowledgement and retraction handlers and of the worker.
THEOREM TypeCorrect == Spec => []TypeOK
<1>1. Init => TypeOK
  BY TimesAssumption DEF Init, TypeOK, NoAcks, NoPass, Pass
<1>2. TypeOK /\ [Next]_vars => TypeOK'
  BY TypeStep
<1>3. QED
  BY <1>1, <1>2, PTL DEF Spec

-----------------------------------------------------------------------------
(* What handlers remember between their steps.                             *)

\* A pending request knows its message and its actor, and neither a request
\* nor the sweep carries a time that is still to come.
PendingSound ==
    /\ \A t \in Threads : req[t] # Idle =>
         /\ req[t].at <= now
         /\ req[t].op # "heartbeat" => req[t].msg \in Messages
         /\ req[t].op \in {"claim", "lease"} => req[t].actor \in Actors
         /\ req[t].op = "heartbeat" => req[t].token \in Tokens
    /\ sweep.at <= now
    /\ now <= Horizon

\* PendingSound holds in every reachable state.
LEMMA PendingSoundStep ==
    ASSUME TypeOK, PendingSound, [Next]_vars
    PROVE  PendingSound'
<1> USE DEF PendingSound
<1>0. CASE UNCHANGED vars
  BY <1>0 DEF vars
<1>1. ASSUME NEW t \in Threads, NEW op \in {"claim", "lease"}, NEW a \in Actors,
             NEW m \in Messages, ClaimRead(t, op, a, m)
      PROVE  PendingSound'
  BY <1>1 DEF TypeOK, ClaimRead, Start, Pending
<1>2. ASSUME NEW t \in Threads, NEW a \in Actors, NEW m \in Messages,
             ReleaseRead(t, a, m) \/ AckRead(t, a, m)
      PROVE  PendingSound'
  BY <1>2 DEF TypeOK, ReleaseRead, AckRead, Start, Pending
<1>3. ASSUME NEW t \in Threads, NEW k \in issued, HeartbeatRead(t, k)
      PROVE  PendingSound'
  BY <1>3 DEF TypeOK, HeartbeatRead, Start, Pending
<1>4. ASSUME NEW t \in Threads, NEW m \in Messages, DeleteRead(t, m)
      PROVE  PendingSound'
  BY <1>4 DEF TypeOK, DeleteRead, Start, Pending
<1>5. ASSUME NEW t \in Threads, ClaimDecide(t) PROVE PendingSound'
  BY <1>5 DEF TypeOK, ClaimDecide, At, Pending
<1>6. ASSUME NEW t \in Threads,
             \/ ClaimWrite(t) \/ LeaseWrite(t) \/ ReleaseWrite(t) \/ AckWrite(t)
             \/ HeartbeatWrite(t) \/ DeleteWrite(t) \/ Abort(t)
      PROVE  PendingSound'
  <2>1. UNCHANGED <<now, sweep>> /\ Finish(t)
    BY <1>6 DEF ClaimWrite, LeaseWrite, ReleaseWrite, AckWrite, HeartbeatWrite,
                DeleteWrite, Abort
  <2>2. QED
    BY <2>1 DEF TypeOK, Finish
<1>7. CASE SweepSelect \/ SweepWrite \/ AbortSweep \/ Cleanup
  <2>1. UNCHANGED <<now, req>>
    BY <1>7 DEF SweepSelect, SweepWrite, AbortSweep, Cleanup
  <2>2. CASE SweepSelect
    BY <2>1, <2>2 DEF SweepSelect, TypeOK
  <2>3. CASE sweep' = NoPass
    BY <2>1, <2>3 DEF NoPass, TypeOK
  <2>4. CASE sweep' = sweep
    BY <2>1, <2>4
  <2>5. QED
    BY <1>7, <2>2, <2>3, <2>4 DEF SweepWrite, AbortSweep, Cleanup
<1>8. ASSUME NEW m \in Messages, Trim(m) PROVE PendingSound'
  BY <1>8 DEF Trim
<1>9. CASE DeleteChannel
  BY <1>9 DEF DeleteChannel
<1>10. CASE Tick
  <2>1. \A t \in Threads : req[t] # Idle => req[t].at \in Nat
    BY DEF TypeOK, Request
  <2>2. sweep.at \in Nat
    BY DEF TypeOK, Pass
  <2>3. QED
    BY <1>10, <2>1, <2>2, TimesAssumption DEF TypeOK, Tick
<1>11. QED
  BY <1>0, <1>1, <1>2, <1>3, <1>4, <1>5, <1>6, <1>7, <1>8, <1>9, <1>10
     DEF Next, Step, NewCall, Worker
-----------------------------------------------------------------------------
(* The five ways in which a step changes the rows.                         *)

\* A claim UPDATE that found the message free or its lease lapsed, with a
\* fresh token or none.
GrantedTo(m, a, k, e) ==
    /\ m \in live
    /\ claimedBy[m] = None \/ LeaseLapsed(m, now)
    /\ \/ k = None /\ e = None /\ issued' = issued
       \/ /\ k \in Tokens \ issued /\ issued' = issued \cup {k}
          /\ e \in {t + s : t \in 0..Horizon, s \in LeaseSeconds}
    /\ claimedBy' = [claimedBy EXCEPT ![m] = a]
    /\ claimedByKey' = [claimedByKey EXCEPT ![m] = a]
    /\ leaseToken' = [leaseToken EXCEPT ![m] = k]
    /\ leaseExpires' = [leaseExpires EXCEPT ![m] = e]
    /\ lastClaim' = [lastClaim EXCEPT ![m] = a]
    /\ UNCHANGED <<now, live, acks>>

Granted ==
    \E m \in Messages, a \in Actors, k \in Tokens \cup {None}, e \in Nat \cup {None} :
        GrantedTo(m, a, k, e)

\* The UPDATE of a release.
Released ==
    \E t \in Threads : LET m == req[t].msg IN
        /\ m \in Messages
        /\ Writing(m, {"release"})
        /\ claimedBy' = [claimedBy EXCEPT ![m] = None]
        /\ claimedByKey' = [claimedByKey EXCEPT ![m] = None]
        /\ UNCHANGED <<now, live, leaseToken, leaseExpires, lastClaim, issued>>

\* The UPDATE of a heartbeat.
ProlongedTo(k, e) ==
    /\ leaseExpires' = [m \in Messages |->
           IF leaseToken[m] = k THEN e ELSE leaseExpires[m]]
    /\ UNCHANGED <<now, live, claimedBy, claimedByKey, leaseToken, lastClaim, issued>>

Prolonged ==
    \E k \in Tokens, e \in {t + s : t \in 0..Horizon, s \in LeaseSeconds} :
        ProlongedTo(k, e)

\* Rows deleted (D), rows whose lapsed lease is cleared (R), and the rows (K)
\* of these whose key column is cleared too.
CollectedRows(R, D, K) ==
    /\ \A m \in R : LeaseLapsed(m, now)
    /\ K \subseteq R \cup D
    /\ live' = live \ D
    /\ claimedBy' = Blank(claimedBy, R \cup D)
    /\ claimedByKey' = Blank(claimedByKey, K)
    /\ leaseToken' = Blank(leaseToken, R \cup D)
    /\ leaseExpires' = Blank(leaseExpires, R \cup D)
    /\ lastClaim' = Blank(lastClaim, D)
    /\ UNCHANGED <<now, issued>>

Collected == \E R, D, K \in SUBSET Messages : CollectedRows(R, D, K)

\* Everything else leaves the claim columns alone.
ClaimsUntouched ==
    /\ UNCHANGED <<live, claimedBy, claimedByKey, leaseToken, leaseExpires, lastClaim>>
    /\ \/ issued' = issued /\ (now' = now \/ now' = now + 1)
       \/ now' = now /\ \E k \in Tokens : issued' = issued \cup {k}

\* Every step is one of the five, in whatever order requests and worker run.
LEMMA RowSteps ==
    ASSUME TypeOK, PendingSound, [Next]_vars
    PROVE  Granted \/ Released \/ Prolonged \/ Collected \/ ClaimsUntouched
<1>0. CASE UNCHANGED vars
  BY <1>0 DEF vars, row, ClaimsUntouched
<1>1. ASSUME NEW t \in Threads, NewCall(t) \/ ClaimDecide(t) \/ Abort(t)
      PROVE  ClaimsUntouched
  BY <1>1 DEF NewCall, ClaimRead, ReleaseRead, AckRead, HeartbeatRead, DeleteRead,
              ClaimDecide, Abort, row, ClaimsUntouched
<1>2. ASSUME NEW t \in Threads, ClaimWrite(t) PROVE Granted \/ ClaimsUntouched
  <2>1. CASE UNCHANGED row
    BY <1>2, <2>1 DEF ClaimWrite, row, ClaimsUntouched
  <2>2. CASE CasHolds(req[t].msg, req[t].at) /\ TakeClaim(req[t], None, None)
    <3>1. /\ req[t].msg \in Messages /\ req[t].actor \in Actors
          /\ req[t].at <= now /\ req[t].at \in Nat
      BY <1>2 DEF ClaimWrite, At, PendingSound, TypeOK, Request
    <3>2. LeaseLapsed(req[t].msg, req[t].at) => LeaseLapsed(req[t].msg, now)
      BY <3>1 DEF LeaseLapsed, TypeOK
    <3>3. GrantedTo(req[t].msg, req[t].actor, None, None)
      BY <1>2, <2>2, <3>1, <3>2 DEF ClaimWrite, CasHolds, TakeClaim, GrantedTo
    <3>4. QED
      BY <3>1, <3>3 DEF Granted
  <2>3. QED
    BY <1>2, <2>1, <2>2 DEF ClaimWrite
<1>3. ASSUME NEW t \in Threads, LeaseWrite(t) PROVE Granted \/ ClaimsUntouched
  <2>1. PICK k \in Tokens \ issued :
           /\ issued' = issued \cup {k}
           /\ IF CasHolds(req[t].msg, req[t].at)
              THEN \E s \in LeaseSeconds : TakeClaim(req[t], k, req[t].at + s)
              ELSE UNCHANGED row
    BY <1>3 DEF LeaseWrite
  <2>2. CASE ~ CasHolds(req[t].msg, req[t].at)
    BY <1>3, <2>1, <2>2 DEF LeaseWrite, row, ClaimsUntouched
  <2>3. CASE CasHolds(req[t].msg, req[t].at)
    <3>1. PICK s \in LeaseSeconds : TakeClaim(req[t], k, req[t].at + s)
      BY <2>1, <2>3
    <3>2. /\ req[t].msg \in Messages /\ req[t].actor \in Actors
          /\ req[t].at <= now /\ req[t].at \in 0..Horizon
      BY <1>3, TimesAssumption DEF LeaseWrite, At, PendingSound, TypeOK, Request
    <3>3. LeaseLapsed(req[t].msg, req[t].at) => LeaseLapsed(req[t].msg, now)
      BY <3>2 DEF LeaseLapsed, TypeOK
    <3>4. /\ req[t].at + s \in {u + v : u \in 0..Horizon, v \in LeaseSeconds}
          /\ req[t].at + s \in Nat
      BY <3>2, TimesAssumption
    <3>5. GrantedTo(req[t].msg, req[t].actor, k, req[t].at + s)
      BY <1>3, <2>1, <2>3, <3>1, <3>2, <3>3, <3>4
         DEF LeaseWrite, CasHolds, TakeClaim, GrantedTo
    <3>6. QED
      BY <3>2, <3>4, <3>5 DEF Granted
  <2>4. QED
    BY <2>2, <2>3
<1>4. ASSUME NEW t \in Threads, ReleaseWrite(t) PROVE Released
  <2>1. req[t].msg \in Messages /\ req'[t] = Idle
    BY <1>4 DEF ReleaseWrite, At, PendingSound, TypeOK, Finish
  <2>2. QED
    BY <1>4, <2>1 DEF ReleaseWrite, Released, Writing
<1>5. ASSUME NEW t \in Threads, AckWrite(t) PROVE ClaimsUntouched
  BY <1>5 DEF AckWrite, ClaimsUntouched
<1>6. ASSUME NEW t \in Threads, HeartbeatWrite(t) PROVE Prolonged \/ ClaimsUntouched
  <2>1. PICK s \in LeaseSeconds :
           leaseExpires' = [m \in Messages |->
               IF leaseToken[m] = req[t].token THEN req[t].at + s ELSE leaseExpires[m]]
    BY <1>6 DEF HeartbeatWrite
  <2>2. /\ req[t].token \in Tokens
        /\ req[t].at \in 0..Horizon
    BY <1>6, TimesAssumption DEF HeartbeatWrite, At, PendingSound, TypeOK, Request
  <2>3. req[t].at + s \in {u + v : u \in 0..Horizon, v \in LeaseSeconds}
    BY <2>2
  <2>4. ProlongedTo(req[t].token, req[t].at + s)
    BY <1>6, <2>1 DEF HeartbeatWrite, ProlongedTo
  <2>5. QED
    BY <2>2, <2>3, <2>4 DEF Prolonged
<1>7. ASSUME NEW t \in Threads, DeleteWrite(t) PROVE Collected
  <2> DEFINE D == {req[t].msg}
  <2>1. D \subseteq Messages
    BY <1>7 DEF DeleteWrite, At, PendingSound, TypeOK
  <2>2. CollectedRows({}, D, D)
    BY <1>7 DEF DeleteWrite, RemoveRows, ReturnToPool, CollectedRows, Blank
  <2>3. QED
    BY <2>1, <2>2 DEF Collected
<1>8. CASE SweepWrite
  <2> DEFINE R == SweepClears
  <2>1. R \subseteq Messages
    BY DEF SweepClears, TypeOK, Pass
  <2>2. \A m \in R : LeaseLapsed(m, now)
    BY <2>1 DEF SweepClears, LeaseLapsed, TypeOK, Pass, PendingSound
  <2>3. lastClaim' = Blank(lastClaim, {}) /\ live' = live \ {}
    BY <1>8 DEF SweepWrite, Blank, TypeOK
  <2>4. CollectedRows(R, {}, R)
    BY <1>8, <2>2, <2>3 DEF SweepWrite, ReturnToPool, CollectedRows
  <2>5. QED
    BY <2>1, <2>4 DEF Collected
<1>9. CASE Cleanup
  <2>1. PICK at \in 0..now :
            LET purged == CleanupPurges(at)
                freed == CleanupReleases(at) \cup purged
            IN  /\ claimedBy' = Blank(claimedBy, freed)
                /\ claimedByKey' = Blank(claimedByKey, purged)
                /\ leaseToken' = Blank(leaseToken, freed)
                /\ leaseExpires' = Blank(leaseExpires, freed)
                /\ RemoveRows(purged)
                /\ UNCHANGED <<now, issued, req, sweep>>
    BY <1>9 DEF Cleanup
  <2> DEFINE R == CleanupReleases(at)
             D == CleanupPurges(at)
  <2>2. R \subseteq Messages /\ D \subseteq Messages
    BY DEF CleanupReleases, CleanupPurges, TypeOK
  <2>3. \A m \in R : LeaseLapsed(m, now)
    BY <2>2 DEF CleanupReleases, LeaseLapsed, TypeOK
  <2>4. CollectedRows(R, D, D)
    BY <2>1, <2>3 DEF CollectedRows, RemoveRows, Blank
  <2>5. QED
    BY <2>2, <2>4 DEF Collected
<1>10. ASSUME NEW D \in SUBSET Messages, RemoveRows(D), ReturnToPool(D),
              UNCHANGED <<now, issued>>
       PROVE  Collected
  <2>1. CollectedRows({}, D, D)
    BY <1>10 DEF RemoveRows, ReturnToPool, CollectedRows, Blank
  <2>2. QED
    BY <2>1 DEF Collected
<1>11. CASE SweepSelect \/ AbortSweep \/ Tick
  BY <1>11 DEF SweepSelect, AbortSweep, Tick, row, ClaimsUntouched
<1>12. ASSUME NEW m \in Messages, Trim(m) PROVE Collected
  <2>1. {m} \in SUBSET Messages
    OBVIOUS
  <2>2. QED
    BY <1>10, <1>12, <2>1 DEF Trim
<1>13. CASE DeleteChannel
  BY <1>10, <1>13 DEF DeleteChannel, TypeOK
<1>14. QED
  BY <1>0, <1>1, <1>2, <1>3, <1>4, <1>5, <1>6, <1>7, <1>8, <1>9, <1>11, <1>12, <1>13
     DEF Next, Step, Worker
-----------------------------------------------------------------------------
(* The invariant.                                                          *)

\* The inductive invariant: the row invariants need each other (a consistent
\* row has its token issued) and PendingSound, without which a stale time
\* could let a claim or a sweep through a live lease.
IInv ==
    /\ TypeOK
    /\ PendingSound
    /\ ClaimRowConsistent
    /\ HolderHasClaimEvent
    /\ TokenOnOneRow

\* The invariant holds initially.
LEMMA InvInit == Init => IInv
  BY TimesAssumption
     DEF Init, IInv, TypeOK, PendingSound, ClaimRowConsistent, HolderHasClaimEvent,
         TokenOnOneRow, Held, NoAcks, NoPass, Pass

\* The row invariants survive each of the five ways to change the rows.
LEMMA RowInvStep ==
    ASSUME IInv, TypeOK', Granted \/ Released \/ Prolonged \/ Collected \/ ClaimsUntouched
    PROVE  ClaimRowConsistent' /\ HolderHasClaimEvent' /\ TokenOnOneRow'
<1> USE SetsAssumption DEF IInv, TypeOK, ClaimRowConsistent, HolderHasClaimEvent, TokenOnOneRow, Held
<1>1. CASE Granted
  <2>1. PICK m \in Messages, a \in Actors, k \in Tokens \cup {None}, e \in Nat \cup {None} :
            GrantedTo(m, a, k, e)
    BY <1>1 DEF Granted
  <2>2. k = None <=> e = None
    BY <2>1, TimesAssumption DEF GrantedTo
  <2>3. ClaimRowConsistent'
    BY <2>1, <2>2 DEF GrantedTo
  <2>4. HolderHasClaimEvent'
    BY <2>1 DEF GrantedTo
  <2>5. TokenOnOneRow'
    BY <2>1 DEF GrantedTo
  <2>6. QED
    BY <2>3, <2>4, <2>5
<1>2. CASE Released
  BY <1>2 DEF Released
<1>3. CASE Prolonged
  <2>1. PICK k \in Tokens, e \in {t + s : t \in 0..Horizon, s \in LeaseSeconds} :
            ProlongedTo(k, e)
    BY <1>3 DEF Prolonged
  <2>2. e # None
    BY <2>1, TimesAssumption
  <2>3. QED
    BY <2>1, <2>2 DEF ProlongedTo
<1>4. CASE Collected
  <2>1. PICK R \in SUBSET Messages, D \in SUBSET Messages, K \in SUBSET Messages :
            CollectedRows(R, D, K)
    BY <1>4 DEF Collected
  <2>2. QED
    BY <2>1 DEF CollectedRows, Blank
<1>5. CASE ClaimsUntouched
  BY <1>5 DEF ClaimsUntouched
<1>6. QED
  BY <1>1, <1>2, <1>3, <1>4, <1>5

\* The invariant survives every step.
LEMMA InvStep == IInv /\ [Next]_vars => IInv'
<1> SUFFICES ASSUME IInv, [Next]_vars PROVE IInv'
  OBVIOUS
<1>1. TypeOK'
  BY TypeStep DEF IInv
<1>2. PendingSound'
  BY PendingSoundStep DEF IInv
<1>3. Granted \/ Released \/ Prolonged \/ Collected \/ ClaimsUntouched
  BY RowSteps DEF IInv
<1>4. QED
  BY <1>1, <1>2, <1>3, RowInvStep DEF IInv

\* The invariant holds in every reachable state.
THEOREM Invariance == Spec => []IInv
<1>1. QED
  BY InvInit, InvStep, PTL DEF Spec

\* The holder, its key and its lease columns agree, whichever handlers and
\* worker passes interleave.
THEOREM RowsConsistent == Spec => []ClaimRowConsistent
<1>1. IInv => ClaimRowConsistent
  BY DEF IInv
<1>2. QED
  BY <1>1, Invariance, PTL

\* The newest claim event of a held message names its holder.
THEOREM TrailNamesHolder == Spec => []HolderHasClaimEvent
<1>1. IInv => HolderHasClaimEvent
  BY DEF IInv
<1>2. QED
  BY <1>1, Invariance, PTL

\* A lease token stands on one row at most.
THEOREM TokensUnique == Spec => []TokenOnOneRow
<1>1. IInv => TokenOnOneRow
  BY DEF IInv
<1>2. QED
  BY <1>1, Invariance, PTL

-----------------------------------------------------------------------------
(* Exclusive ownership.                                                    *)

\* What ClaimHeldUntilLapse says of one step.
LEMMA HeldUntilLapseStep ==
    ASSUME IInv, [Next]_vars, NEW m \in Messages,
           Held(m), ~ LeaseLapsed(m, now), m \in live', claimedBy'[m] # claimedBy[m]
    PROVE  claimedBy'[m] = None /\ Writing(m, {"release"})
<1> USE DEF IInv, TypeOK, Held
<1>1. CASE Granted
  BY <1>1 DEF Granted, GrantedTo
<1>2. CASE Released
  BY <1>2 DEF Released
<1>3. CASE Prolonged
  BY <1>3 DEF Prolonged, ProlongedTo
<1>4. CASE Collected
  BY <1>4 DEF Collected, CollectedRows, Blank
<1>5. CASE ClaimsUntouched
  BY <1>5 DEF ClaimsUntouched
<1>6. QED
  BY <1>1, <1>2, <1>3, <1>4, <1>5, RowSteps DEF IInv

\* A claim that has not lapsed ends only in a release: however stale what a
\* claim, a sweep or a cleanup read, it never takes it over or clears it.
THEOREM HeldUntilLapse == Spec => ClaimHeldUntilLapse
<1>1. IInv /\ [Next]_vars =>
        [\A m \in Messages :
           (Held(m) /\ ~LeaseLapsed(m, now) /\ m \in live' /\ claimedBy'[m] # claimedBy[m])
              => claimedBy'[m] = None /\ Writing(m, {"release"})]_vars
  BY HeldUntilLapseStep
<1>2. QED
  BY <1>1, Invariance, PTL DEF Spec, ClaimHeldUntilLapse

-----------------------------------------------------------------------------
(* The refinement.                                                         *)

\* A heartbeat reaches one row, so it prolongs one term.
LEMMA ProlongOne ==
    ASSUME IInv, NEW k \in Tokens, NEW e, ProlongedTo(k, e),
           NEW m \in Messages, leaseToken[m] = k
    PROVE  Ownership!Prolong(m, e)
<1>1. leaseToken[m] # None
  BY SetsAssumption
<1>2. \A n \in Messages : leaseToken[n] = k <=> n = m
  BY <1>1 DEF IInv, TokenOnOneRow
<1>3. leaseExpires' = [leaseExpires EXCEPT ![m] = e]
  BY <1>2 DEF ProlongedTo, IInv, TypeOK
<1>4. QED
  BY <1>1, <1>3 DEF ProlongedTo, Ownership!Prolong

\* Every step of ClaimLease is a step of WorkOwnership or changes nothing in it.
LEMMA OwnershipStep ==
    ASSUME IInv, [Next]_vars
    PROVE  [Ownership!Next]_(Ownership!avars)
<1> USE SetsAssumption DEF IInv, TypeOK, Ownership!avars
<1>1. CASE Granted
  <2>1. PICK m \in Messages, a \in Actors, k \in Tokens \cup {None}, e \in Nat \cup {None} :
            GrantedTo(m, a, k, e)
    BY <1>1 DEF Granted
  <2>2. Ownership!Take(m, a, k, e)
    BY <2>1 DEF GrantedTo, LeaseLapsed, Ownership!Take, Ownership!Lapsed
  <2>3. CASE k = None
    <3>1. e = None
      BY <2>1, <2>3 DEF GrantedTo
    <3>2. QED
      BY <2>2, <2>3, <3>1 DEF Ownership!Next
  <2>4. CASE k # None
    <3>1. k \in Tokens /\ e \in {t + s : t \in 0..Horizon, s \in LeaseSeconds}
      BY <2>1, <2>4 DEF GrantedTo
    <3>2. QED
      BY <2>2, <3>1 DEF Ownership!Next
  <2>5. QED
    BY <2>3, <2>4
<1>2. CASE Released
  <2>1. PICK t \in Threads :
           /\ req[t].msg \in Messages
           /\ claimedBy' = [claimedBy EXCEPT ![req[t].msg] = None]
           /\ UNCHANGED <<now, live, leaseToken, leaseExpires, issued>>
    BY <1>2 DEF Released
  <2>2. Ownership!GiveUp(req[t].msg)
    BY <2>1 DEF Ownership!GiveUp
  <2>3. QED
    BY <2>1, <2>2 DEF Ownership!Next
<1>3. CASE Prolonged
  <2>1. PICK k \in Tokens, e \in {t + s : t \in 0..Horizon, s \in LeaseSeconds} :
            ProlongedTo(k, e)
    BY <1>3 DEF Prolonged
  <2>2. CASE \A m \in Messages : leaseToken[m] # k
    <3>1. leaseExpires' = leaseExpires
      BY <2>1, <2>2 DEF ProlongedTo
    <3>2. QED
      BY <2>1, <3>1 DEF ProlongedTo
  <2>3. ASSUME NEW m \in Messages, leaseToken[m] = k
        PROVE  [Ownership!Next]_(Ownership!avars)
    <3>1. Ownership!Prolong(m, e)
      BY <2>1, <2>3, ProlongOne
    <3>2. QED
      BY <3>1, <2>1 DEF Ownership!Next
  <2>4. QED
    BY <2>2, <2>3
<1>4. CASE Collected
  <2>1. PICK R \in SUBSET Messages, D \in SUBSET Messages, K \in SUBSET Messages :
            CollectedRows(R, D, K)
    BY <1>4 DEF Collected
  <2>2. Ownership!Collect(R, D)
    BY <2>1 DEF CollectedRows, Blank, LeaseLapsed, Ownership!Collect, Ownership!Cleared,
                Ownership!Lapsed
  <2>3. QED
    BY <2>2 DEF Ownership!Next
<1>5. CASE ClaimsUntouched
  BY <1>5 DEF ClaimsUntouched, Ownership!Next, Ownership!Waste, Ownership!Pass
<1>6. QED
  BY <1>1, <1>2, <1>3, <1>4, <1>5, RowSteps DEF IInv

\* The claim columns implement WorkOwnership: one owner per message, replaced
\* or collected by a worker only when its term is over, under a fence that is
\* never attached again once it was detached.
THEOREM OwnershipImplemented == Spec => ImplementsOwnership
<1>1. Init => Ownership!Init
  BY DEF Init, Ownership!Init
<1>2. IInv /\ [Next]_vars => [Ownership!Next]_(Ownership!avars)
  BY OwnershipStep
<1>3. QED
  BY <1>1, <1>2, Invariance, PTL DEF Spec, ImplementsOwnership, Ownership!Spec
=============================================================================
