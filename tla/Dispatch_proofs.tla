--------------------------- MODULE Dispatch_proofs ---------------------------
(***************************************************************************)
(* Theorems about Dispatch for every number of calls and operations, every *)
(* life of the caches and every bound of the clock, checked by TLAPS.      *)
(***************************************************************************)
EXTENDS Dispatch, TLAPS

\* The order in which a call has done things.
CallsSound ==
    \A c \in Calls :
        /\ call[c].at \in {"executed", "revoked", "emptied"} => c \in executed
        /\ call[c].at \in {"revoked", "emptied"} => ~active
        /\ call[c].at \in {"known", "read", "scoped", "missed"} => call[c].ctx \in Calls
        /\ call[c].at = "looked" /\ ~active => c \in underWay

\* A revoked key is known to the cache for no longer than an entry made before
\* the revocation lives, or by a lookup that was under way.
EntrySound ==
    /\ emptied => ~active
    /\ active => revokedAt = None
    /\ ~active => revokedAt \in Nat
    /\ active /\ entry # None => entry.until <= now + CacheTTL
    /\ ~active /\ entry # None =>
         entry.ctx \in underWay \/ entry.until <= revokedAt + CacheTTL

\* An answer is in the idempotency cache for a day, and a call that has missed
\* it came before it, or a day after it.
AnswersSound ==
    /\ \A o \in Ops : answered[o] # None =>
         /\ answered[o] <= now
         /\ now < answered[o] + Day =>
              idem[o] # None /\ idem[o].until >= answered[o] + Day
    /\ \A o \in Ops : idem[o] # None => answered[o] # None
    /\ \A c \in Calls : call[c].known # None =>
         /\ answered[op[c]] # None /\ call[c].known <= answered[op[c]]
         /\ call[c].at = "missed" => now >= call[c].known + Day

\* A call that came after the change has read narrow scopes, and so has a
\* context that such a call has written to.
ScopesSound ==
    /\ \A c \in Calls : /\ call[c].late => ~wide
                        /\ call[c].late /\ call[c].at = "read" => ~call[c].wide
    /\ \A c \in Calls : scopes[c].late => ~scopes[c].wide

\* TypeOK with the domain of the cache.
IdemType == idem \in [Ops -> [by: Calls, until: Nat] \cup {None}]

IInv ==
    /\ TypeOK /\ IdemType /\ CallsSound /\ EntrySound /\ AnswersSound /\ ScopesSound
    /\ CacheIsOfExecutions /\ RevokedStaysOut

LEMMA InvInit == Init => IInv
<1> SUFFICES ASSUME Init PROVE IInv
  OBVIOUS
<1>1. TypeOK
  BY DEF Init, TypeOK, At, Request, Steps
<1>2. CallsSound /\ EntrySound /\ ScopesSound
  BY DEF Init, CallsSound, EntrySound, ScopesSound, At
<1>3. AnswersSound /\ CacheIsOfExecutions /\ RevokedStaysOut /\ IdemType
  BY DEF Init, AnswersSound, CacheIsOfExecutions, RevokedStaysOut, IdemType, At
<1>4. QED
  BY <1>1, <1>2, <1>3 DEF IInv

\* A step of one call that changes nothing else but what is listed.
LEMMA CallMoves ==
    ASSUME IInv, NEW c \in Calls, NEW x \in Request, call' = [call EXCEPT ![c] = x],
           UNCHANGED <<now, active, wide, scopes, idem, op, executed, revokedAt, underWay,
                       emptied, answered>>,
           log' \subseteq executed,
           entry' = entry \/ entry' = None,
           x.at \in {"executed", "revoked", "emptied"} => c \in executed,
           x.at \in {"revoked", "emptied"} => ~active,
           x.at \in {"known", "read", "scoped", "missed"} => x.ctx \in Calls,
           x.at = "looked" => active,
           x.known # None => /\ answered[op[c]] # None /\ x.known <= answered[op[c]]
                             /\ x.at = "missed" => now >= x.known + Day,
           x.late => ~wide /\ (x.at = "read" => ~x.wide)
    PROVE  IInv'
<1> USE DEF IInv
<1>1. /\ call' \in [Calls -> Request] /\ call'[c] = x
      /\ \A d \in Calls \ {c} : call'[d] = call[d]
  BY DEF TypeOK
<1>2. TypeOK'
  BY <1>1 DEF TypeOK
<1>3. CallsSound'
  BY <1>1 DEF CallsSound
<1>4. EntrySound' /\ RevokedStaysOut'
  BY DEF EntrySound, RevokedStaysOut
<1>5. AnswersSound'
  BY <1>1 DEF AnswersSound
<1>6. ScopesSound'
  BY <1>1 DEF ScopesSound
<1>7. CacheIsOfExecutions' /\ IdemType'
  BY DEF CacheIsOfExecutions, IdemType
<1>8. QED
  BY <1>2, <1>3, <1>4, <1>5, <1>6, <1>7

LEMMA RequestTypes ==
    ASSUME TypeOK, NEW c \in Calls
    PROVE  /\ call[c] \in Request /\ At("over") \in Request
           /\ Arrived(c) \in Request
           /\ \A step \in Steps : [call[c] EXCEPT !.at = step] \in Request
<1>1. call[c] \in Request /\ op[c] \in Ops /\ answered[op[c]] \in Nat \cup {None}
  BY DEF TypeOK
<1>2. At("over") \in Request
  BY DEF At, Request, Steps
<1>3. Arrived(c) \in Request
  BY <1>1 DEF Arrived, Request, TypeOK
<1>4. ASSUME NEW step \in Steps PROVE [call[c] EXCEPT !.at = step] \in Request
  BY <1>1, <1>4 DEF Request
<1>5. QED
  BY <1>1, <1>2, <1>3, <1>4

\* A call that ends, for whatever reason.
LEMMA EndKeeps ==
    ASSUME IInv, NEW c \in Calls, End(c), UNCHANGED <<now, active, wide, memory, idem, op, history>>
    PROVE  IInv'
<1>1. At("over") \in Request
  BY RequestTypes DEF IInv
<1>2. /\ At("over").at = "over" /\ At("over").known = None /\ ~At("over").late
  BY DEF At
<1>3. /\ call' = [call EXCEPT ![c] = At("over")] /\ log' \subseteq executed /\ entry' = entry
      /\ UNCHANGED <<now, active, wide, scopes, idem, op, executed, revokedAt, underWay,
                     emptied, answered>>
  BY DEF End, memory, history, IInv, TypeOK
<1>4. QED
  BY <1>1, <1>2, <1>3, CallMoves

-----------------------------------------------------------------------------
(* Authentication.                                                         *)

\* A request that comes in knows what has been answered.
LEMMA ArrivedKnows ==
    ASSUME IInv, NEW c \in Calls
    PROVE  /\ Arrived(c) \in Request
           /\ Arrived(c).known # None =>
                answered[op[c]] # None /\ Arrived(c).known <= answered[op[c]]
           /\ Arrived(c).late => ~wide
<1>1. Arrived(c) \in Request
  BY RequestTypes DEF IInv
<1>2. Arrived(c).known = answered[op[c]] /\ (Arrived(c).late => ~wide)
  BY RequestTypes DEF Arrived, Request, IInv
<1>3. answered[op[c]] # None => answered[op[c]] <= answered[op[c]]
  BY DEF IInv, TypeOK
<1>4. QED
  BY <1>1, <1>2, <1>3

LEMMA HitKeeps ==
    ASSUME IInv, NEW c \in Calls, Hit(c)
    PROVE  IInv'
<1>1. entry \in [ctx: Calls, until: Nat]
  BY DEF Hit, Fresh, IInv, TypeOK
<1> DEFINE x == [Arrived(c) EXCEPT !.at = "known", !.ctx = entry.ctx]
<1>2. x \in Request /\ x.at = "known" /\ x.ctx \in Calls
      /\ x.known = Arrived(c).known /\ x.late = Arrived(c).late
  BY <1>1, ArrivedKnows DEF Request, Steps
<1>3. /\ call' = [call EXCEPT ![c] = x] /\ log' \subseteq executed /\ entry' = entry
      /\ UNCHANGED <<now, active, wide, scopes, idem, op, executed, revokedAt, underWay,
                     emptied, answered>>
  BY DEF Hit, memory, history, IInv, TypeOK
<1> HIDE DEF x
<1>4. QED
  BY <1>2, <1>3, ArrivedKnows, CallMoves

LEMMA LookUpKeeps ==
    ASSUME IInv, NEW c \in Calls, LookUp(c)
    PROVE  IInv'
<1>1. CASE ~active
  BY <1>1, EndKeeps DEF LookUp
<1>2. CASE active
  <2> DEFINE x == [Arrived(c) EXCEPT !.at = "looked"]
  <2>1. x \in Request /\ x.at = "looked"
        /\ x.known = Arrived(c).known /\ x.late = Arrived(c).late
    BY ArrivedKnows DEF Request, Steps
  <2>4. /\ call' = [call EXCEPT ![c] = x] /\ log' \subseteq executed /\ entry' = entry
        /\ UNCHANGED <<now, active, wide, scopes, idem, op, executed, revokedAt, underWay,
                       emptied, answered>>
    BY <1>2 DEF LookUp, memory, history, IInv, TypeOK
  <2> HIDE DEF x
  <2>5. QED
    BY <1>2, <2>1, <2>4, ArrivedKnows, CallMoves
<1>3. QED
  BY <1>1, <1>2

LEMMA FillKeeps ==
    ASSUME IInv, NEW c \in Calls, Fill(c)
    PROVE  IInv'
<1> USE DEF IInv
<1>1. call[c] \in Request /\ call[c].at = "looked"
  BY RequestTypes DEF Fill
<1>2. /\ call' \in [Calls -> Request] /\ call'[c].at = "known" /\ call'[c].ctx = c
      /\ call'[c].known = call[c].known /\ call'[c].late = call[c].late
      /\ \A d \in Calls \ {c} : call'[d] = call[d]
  BY <1>1 DEF Fill, TypeOK, Request, Steps
<1>3. /\ entry' = [ctx |-> c, until |-> now + CacheTTL]
      /\ UNCHANGED <<now, active, wide, scopes, log, idem, op, executed, revokedAt, underWay,
                     emptied, answered>>
  BY DEF Fill, history
<1>4. TypeOK'
  BY <1>2, <1>3, DispatchAssumption DEF TypeOK
<1>5. CallsSound'
  BY <1>2, <1>3 DEF CallsSound
<1>6. ~active => c \in underWay
  BY <1>1 DEF CallsSound
<1>7. EntrySound' /\ RevokedStaysOut'
  BY <1>3, <1>6, DispatchAssumption DEF EntrySound, RevokedStaysOut, TypeOK
<1>8. AnswersSound' /\ ScopesSound' /\ CacheIsOfExecutions' /\ IdemType'
  BY <1>2, <1>3 DEF AnswersSound, ScopesSound, CacheIsOfExecutions, IdemType
<1>9. QED
  BY <1>4, <1>5, <1>7, <1>8

-----------------------------------------------------------------------------
(* Scopes and the idempotency cache.                                       *)

LEMMA StepKeeps ==
    ASSUME IInv, NEW c \in Calls, ReadScopes(c) \/ Miss(c) \/ Log(c)
    PROVE  IInv'
<1>1. call[c] \in Request /\ call[c].at \in {"known", "scoped", "emptied"}
      /\ op[c] \in Ops /\ wide \in BOOLEAN /\ now \in Nat
      /\ call[c].known \in Nat \cup {None} /\ answered[op[c]] \in Nat \cup {None}
  BY RequestTypes DEF ReadScopes, Miss, Log, IInv, TypeOK, Request
<1>2. PICK x \in Request :
        /\ call' = [call EXCEPT ![c] = x] /\ x = call'[c]
        /\ x.ctx = call[c].ctx /\ x.known = call[c].known /\ x.late = call[c].late
        /\ \/ call[c].at = "known" /\ x.at = "read" /\ x.wide = wide
           \/ call[c].at = "scoped" /\ x.at = "missed" /\ ~Cached(op[c])
           \/ call[c].at = "emptied" /\ x.at = "executed"
  <2>1. CASE ReadScopes(c)
    <3>1. call' = [call EXCEPT ![c] = [call[c] EXCEPT !.at = "read", !.wide = wide]]
          /\ call[c].at = "known"
      BY <2>1 DEF ReadScopes, IInv, TypeOK
    <3>2. [call[c] EXCEPT !.at = "read", !.wide = wide] \in Request
      BY <1>1 DEF Request, Steps
    <3>3. call'[c] = [call[c] EXCEPT !.at = "read", !.wide = wide] /\ call' = [call EXCEPT ![c] = call'[c]]
      BY <3>1 DEF IInv, TypeOK
    <3>4. QED
      BY <1>1, <3>1, <3>2, <3>3 DEF Request
  <2>2. CASE Miss(c)
    <3>1. call' = [call EXCEPT ![c] = [call[c] EXCEPT !.at = "missed"]]
          /\ call[c].at = "scoped" /\ ~Cached(op[c])
      BY <2>2 DEF Miss, Goto, IInv, TypeOK
    <3>2. [call[c] EXCEPT !.at = "missed"] \in Request
      BY <1>1 DEF Request, Steps
    <3>3. call'[c] = [call[c] EXCEPT !.at = "missed"] /\ call' = [call EXCEPT ![c] = call'[c]]
      BY <3>1 DEF IInv, TypeOK
    <3>4. QED
      BY <1>1, <3>1, <3>2, <3>3 DEF Request
  <2>3. CASE Log(c)
    <3>1. call' = [call EXCEPT ![c] = [call[c] EXCEPT !.at = "executed"]]
          /\ call[c].at = "emptied"
      BY <2>3 DEF Log, Goto, IInv, TypeOK
    <3>2. [call[c] EXCEPT !.at = "executed"] \in Request
      BY <1>1 DEF Request, Steps
    <3>3. call'[c] = [call[c] EXCEPT !.at = "executed"] /\ call' = [call EXCEPT ![c] = call'[c]]
      BY <3>1 DEF IInv, TypeOK
    <3>4. QED
      BY <1>1, <3>1, <3>2, <3>3 DEF Request
  <2>4. QED
    BY <2>1, <2>2, <2>3
<1>3. /\ log' \subseteq executed /\ entry' = entry
      /\ UNCHANGED <<now, active, wide, scopes, idem, op, executed, revokedAt, underWay,
                     emptied, answered>>
  <2>1. CASE Log(c)
    BY <2>1 DEF Log, history, IInv, TypeOK, CallsSound
  <2>2. CASE ReadScopes(c) \/ Miss(c)
    BY <2>2 DEF ReadScopes, Miss, memory, history, IInv, TypeOK
  <2>3. QED
    BY <2>1, <2>2
<1>4. /\ x.at \in {"known", "read", "scoped", "missed"} => x.ctx \in Calls
      /\ x.at \in {"executed", "revoked", "emptied"} => c \in executed
      /\ x.late => ~wide /\ (x.at = "read" => ~x.wide)
  BY <1>1, <1>2 DEF IInv, CallsSound, ScopesSound
<1>5. x.known # None => /\ answered[op[c]] # None /\ x.known <= answered[op[c]]
                        /\ x.at = "missed" => now >= x.known + Day
  <2> SUFFICES ASSUME x.known # None
               PROVE  /\ answered[op[c]] # None /\ x.known <= answered[op[c]]
                      /\ x.at = "missed" => now >= x.known + Day
    OBVIOUS
  <2>1. answered[op[c]] # None /\ x.known <= answered[op[c]]
    BY <1>2 DEF IInv, AnswersSound
  <2>2. CASE x.at # "missed"
    BY <2>1, <2>2
  <2>3. CASE x.at = "missed"
    <3>1. ~Cached(op[c])
      BY <1>1, <1>2, <2>3
    <3>2. answered[op[c]] \in Nat /\ x.known \in Nat /\ Day \in Nat
      BY <1>1, <1>2, <2>1, DispatchAssumption
    <3>3. now < answered[op[c]] + Day =>
            idem[op[c]] # None /\ idem[op[c]].until >= answered[op[c]] + Day
      BY <1>1, <2>1 DEF IInv, AnswersSound
    <3>4. idem[op[c]] # None => idem[op[c]].until \in Nat
      BY <1>1 DEF IInv, TypeOK
    <3>5. now >= answered[op[c]] + Day
      BY <1>1, <3>1, <3>2, <3>3, <3>4 DEF Cached
    <3>6. QED
      BY <1>1, <2>1, <3>2, <3>5
  <2>4. QED
    BY <2>2, <2>3
<1>6. QED
  BY <1>1, <1>2, <1>3, <1>4, <1>5, CallMoves

LEMMA SetScopesKeeps ==
    ASSUME IInv, NEW c \in Calls, SetScopes(c)
    PROVE  IInv'
<1> USE DEF IInv
<1>1. call[c] \in Request /\ call[c].at = "read" /\ call[c].ctx \in Calls
  BY RequestTypes DEF SetScopes, CallsSound
<1>2. /\ call' \in [Calls -> Request] /\ call'[c].at = "scoped" /\ call'[c].ctx = call[c].ctx
      /\ call'[c].known = call[c].known /\ call'[c].late = call[c].late
      /\ \A d \in Calls \ {c} : call'[d] = call[d]
  BY <1>1 DEF SetScopes, TypeOK, Request, Steps
<1>3. /\ scopes' = [scopes EXCEPT ![call[c].ctx] = [wide |-> call[c].wide, late |-> call[c].late]]
      /\ UNCHANGED <<now, active, wide, entry, log, idem, op, executed, revokedAt, underWay,
                     emptied, answered>>
  BY DEF SetScopes, history
<1>4. TypeOK'
  <2>1. [wide |-> call[c].wide, late |-> call[c].late] \in [wide: BOOLEAN, late: BOOLEAN]
    BY <1>1 DEF Request
  <2>2. scopes' \in [Calls -> [wide: BOOLEAN, late: BOOLEAN]]
    BY <1>3, <2>1 DEF TypeOK
  <2>3. QED
    BY <1>2, <1>3, <2>2 DEF TypeOK
<1>5. ScopesSound'
  <2>1. call[c].late => ~wide /\ ~call[c].wide
    BY <1>1 DEF ScopesSound
  <2>2. \A d \in Calls : scopes'[d].late => ~scopes'[d].wide
    BY <1>1, <1>3, <2>1 DEF ScopesSound, TypeOK
  <2>3. QED
    BY <1>2, <1>3, <2>2 DEF ScopesSound
<1>6. CallsSound'
  BY <1>1, <1>2, <1>3 DEF CallsSound
<1>7. EntrySound' /\ RevokedStaysOut' /\ CacheIsOfExecutions' /\ IdemType'
  BY <1>3 DEF EntrySound, RevokedStaysOut, CacheIsOfExecutions, IdemType
<1>8. AnswersSound'
  BY <1>2, <1>3 DEF AnswersSound
<1>9. QED
  BY <1>4, <1>5, <1>6, <1>7, <1>8

\* What a call that goes on to `step` looks like.
LEMMA GotoMoves ==
    ASSUME TypeOK, NEW c \in Calls, NEW step \in Steps, Goto(c, step)
    PROVE  /\ call' \in [Calls -> Request] /\ call'[c].at = step
           /\ call'[c].known = call[c].known /\ call'[c].late = call[c].late
           /\ \A d \in Calls \ {c} : call'[d] = call[d]
<1>1. call[c] \in Request /\ [call[c] EXCEPT !.at = step] \in Request
  BY RequestTypes
<1>2. call' = [call EXCEPT ![c] = [call[c] EXCEPT !.at = step]]
  BY DEF Goto, TypeOK
<1>3. QED
  BY <1>1, <1>2 DEF TypeOK, Request

LEMMA ExecuteKeeps ==
    ASSUME IInv, NEW c \in Calls, Execute(c) \/ ExecuteNarrow(c)
    PROVE  IInv'
<1> USE DEF IInv
<1>1. CASE Execute(c) /\ ~Permitted(c)
  BY <1>1, EndKeeps DEF Execute, history
<1>2. CASE (Execute(c) /\ Permitted(c)) \/ ExecuteNarrow(c)
  <2>1. /\ Goto(c, "executed") /\ executed' = executed \cup {c} /\ (wide' = wide \/ wide' = FALSE)
        /\ UNCHANGED <<now, active, entry, scopes, log, idem, op, revokedAt, underWay,
                       emptied, answered>>
    BY <1>2 DEF Execute, ExecuteNarrow, Done, memory
  <2>2. /\ call' \in [Calls -> Request] /\ call'[c].at = "executed"
        /\ call'[c].known = call[c].known /\ call'[c].late = call[c].late
        /\ \A d \in Calls \ {c} : call'[d] = call[d]
    BY <2>1, GotoMoves DEF Steps
  <2>3. TypeOK'
    BY <2>1, <2>2 DEF TypeOK
  <2>4. CallsSound'
    BY <2>1, <2>2 DEF CallsSound
  <2>5. AnswersSound'
    BY <2>1, <2>2 DEF AnswersSound
  <2>6. ScopesSound'
    BY <2>1, <2>2 DEF ScopesSound
  <2>7. EntrySound' /\ RevokedStaysOut' /\ CacheIsOfExecutions' /\ IdemType'
    BY <2>1 DEF EntrySound, RevokedStaysOut, CacheIsOfExecutions, IdemType
  <2>8. QED
    BY <2>3, <2>4, <2>5, <2>6, <2>7
<1>3. QED
  BY <1>1, <1>2

LEMMA AnswerKeeps ==
    ASSUME IInv, NEW c \in Calls, Answer(c)
    PROVE  IInv'
<1> USE DEF IInv
<1>1. c \in executed /\ op[c] \in Ops /\ now + Day \in Nat /\ now \in Nat
  BY DispatchAssumption DEF Answer, CallsSound, TypeOK
<1>2. /\ idem' = [idem EXCEPT ![op[c]] = [by |-> c, until |-> now + Day]]
      /\ answered' = [answered EXCEPT ![op[c]] = now]
      /\ call' = [call EXCEPT ![c] = At("over")]
      /\ UNCHANGED <<now, active, wide, entry, scopes, log, op, executed, revokedAt, underWay,
                     emptied>>
  BY DEF Answer, Until, End, memory
<1>3. /\ call' \in [Calls -> Request] /\ call'[c] = At("over")
      /\ At("over").at = "over" /\ At("over").known = None /\ ~At("over").late
      /\ \A d \in Calls \ {c} : call'[d] = call[d]
  BY <1>2, RequestTypes DEF TypeOK, At
<1>4. /\ answered' \in [Ops -> Nat \cup {None}] /\ answered'[op[c]] = now
      /\ \A o \in Ops \ {op[c]} : answered'[o] = answered[o]
  BY <1>1, <1>2 DEF TypeOK
<1>5. UNCHANGED <<entry, scopes, active, emptied, underWay, revokedAt, now>>
  BY <1>2
<1>6. /\ IdemType' /\ idem'[op[c]] = [by |-> c, until |-> now + Day]
      /\ \A o \in Ops \ {op[c]} : idem'[o] = idem[o]
  BY <1>1, <1>2 DEF IdemType
<1>7. TypeOK'
  <2>1. \A o \in Ops : (idem[o] = None \/ idem[o] \in [by: Calls, until: Nat])'
    BY <1>6 DEF IdemType
  <2>2. QED
    BY <1>2, <1>3, <1>4, <2>1 DEF TypeOK
<1>8. CallsSound' /\ ScopesSound'
  BY <1>2, <1>3 DEF CallsSound, ScopesSound
<1>9. EntrySound' /\ RevokedStaysOut'
  BY <1>2 DEF EntrySound, RevokedStaysOut
<1>10. AnswersSound'
  <2>1. \A o \in Ops : answered[o] # None => answered[o] <= now
    BY DEF AnswersSound
  <2>2. ASSUME NEW d \in Calls, call'[d].known # None
        PROVE  /\ answered'[op[d]] # None /\ call'[d].known <= answered'[op[d]]
               /\ call'[d].at = "missed" => now >= call'[d].known + Day
    <3>1. d # c /\ call'[d] = call[d]
      BY <1>3, <2>2
    <3>2. /\ answered[op[d]] # None /\ call[d].known <= answered[op[d]]
          /\ call[d].at = "missed" => now >= call[d].known + Day
      BY <2>2, <3>1 DEF AnswersSound
    <3>3. call[d].known \in Nat /\ answered[op[d]] \in Nat /\ answered[op[d]] <= now
          /\ op[d] \in Ops /\ now # None
      BY <1>1, <2>1, <2>2, <3>1, <3>2, DispatchAssumption DEF TypeOK, Request
    <3>4. QED
      BY <1>1, <1>4, <3>1, <3>2, <3>3
  <2>3. ASSUME NEW o \in Ops, answered'[o] # None
        PROVE  /\ answered'[o] <= now
               /\ now < answered'[o] + Day => idem'[o] # None /\ idem'[o].until >= answered'[o] + Day
    <3>1. CASE o = op[c]
      <4>0. [by |-> c, until |-> now + Day] \in [by: Calls, until: Nat]
        BY <1>1
      <4>1. idem'[o].until = now + Day /\ idem'[o] # None
        BY <1>6, <3>1, <4>0, DispatchAssumption
      <4>2. QED
        BY <1>1, <1>4, <3>1, <4>1
    <3>2. CASE o # op[c]
      BY <1>4, <1>6, <2>3, <3>2 DEF AnswersSound
    <3>3. QED
      BY <3>1, <3>2
  <2>4. \A o \in Ops : idem'[o] # None => answered'[o] # None
    BY <1>1, <1>4, <1>6, DispatchAssumption DEF AnswersSound
  <2>5. QED
    BY <1>2, <2>2, <2>3, <2>4 DEF AnswersSound
<1>11. CacheIsOfExecutions'
  BY <1>1, <1>2, <1>4, <1>6 DEF CacheIsOfExecutions
<1>12. QED
  BY <1>6, <1>7, <1>8, <1>9, <1>10, <1>11

-----------------------------------------------------------------------------
(* Revocation, and the rest of the world.                                  *)

LEMMA DeactivateKeeps ==
    ASSUME IInv, Deactivate
    PROVE  /\ UNCHANGED <<now, entry, emptied>> => (EntrySound /\ RevokedStaysOut)'
           /\ active' = FALSE /\ revokedAt' \in Nat \cup {None} /\ underWay' \subseteq Calls
           /\ \A c \in Calls : call[c].at = "looked" => c \in underWay'
<1> USE DEF IInv
<1>1. CASE active
  <2>1. active' = FALSE /\ revokedAt' = now /\ underWay' = LookingUp /\ now \in Nat
    BY <1>1 DEF Deactivate, TypeOK
  <2>2. ASSUME UNCHANGED <<now, entry, emptied>> PROVE (EntrySound /\ RevokedStaysOut)'
    BY <1>1, <2>1, <2>2 DEF EntrySound, RevokedStaysOut
  <2>3. QED
    BY <2>1, <2>2 DEF LookingUp
<1>2. CASE ~active
  <2>1. active' = FALSE /\ revokedAt' = revokedAt /\ underWay' = underWay
    BY <1>2 DEF Deactivate
  <2>2. ASSUME UNCHANGED <<now, entry, emptied>> PROVE (EntrySound /\ RevokedStaysOut)'
    BY <1>2, <2>1, <2>2 DEF EntrySound, RevokedStaysOut
  <2>3. QED
    BY <1>2, <2>1, <2>2 DEF CallsSound, TypeOK
<1>3. QED
  BY <1>1, <1>2

LEMMA RevokeKeeps ==
    ASSUME IInv, RevokeElsewhere \/ \E c \in Calls : ExecuteRevoke(c)
    PROVE  IInv'
<1> USE DEF IInv
<1>1. /\ Deactivate
      /\ UNCHANGED <<now, wide, entry, scopes, log, idem, op, emptied, answered>>
  BY DEF RevokeElsewhere, ExecuteRevoke, memory
<1>2. /\ call' \in [Calls -> Request] /\ executed' \subseteq Calls /\ executed \subseteq executed'
      /\ \A d \in Calls : /\ call'[d].known = call[d].known /\ call'[d].late = call[d].late
                          /\ \/ call'[d] = call[d]
                             \/ call'[d].at = "revoked" /\ d \in executed'
  <2>1. CASE RevokeElsewhere
    BY <2>1 DEF RevokeElsewhere, TypeOK
  <2>2. ASSUME NEW c \in Calls, ExecuteRevoke(c)
        PROVE  /\ call' \in [Calls -> Request] /\ executed' = executed \cup {c}
               /\ call'[c].at = "revoked"
               /\ call'[c].known = call[c].known /\ call'[c].late = call[c].late
               /\ \A d \in Calls \ {c} : call'[d] = call[d]
    BY <2>2, GotoMoves DEF ExecuteRevoke, Done, Steps
  <2>3. QED
    BY <2>1, <2>2 DEF TypeOK
<1>3. /\ active' = FALSE /\ revokedAt' \in Nat \cup {None} /\ underWay' \subseteq Calls
      /\ EntrySound' /\ RevokedStaysOut'
      /\ \A d \in Calls : call[d].at = "looked" => d \in underWay'
  BY <1>1, DeactivateKeeps
<1>4. TypeOK'
  BY <1>1, <1>2, <1>3 DEF TypeOK
<1>5. CallsSound'
  BY <1>1, <1>2, <1>3 DEF CallsSound
<1>6. AnswersSound'
  BY <1>1, <1>2 DEF AnswersSound
<1>7. ScopesSound'
  BY <1>1, <1>2 DEF ScopesSound
<1>8. CacheIsOfExecutions' /\ IdemType'
  BY <1>1, <1>2 DEF CacheIsOfExecutions, IdemType
<1>9. QED
  BY <1>3, <1>4, <1>5, <1>6, <1>7, <1>8

LEMMA InvalidateKeeps ==
    ASSUME IInv, NEW c \in Calls, Invalidate(c)
    PROVE  IInv'
<1> USE DEF IInv
<1>1. /\ entry' = None /\ emptied' = TRUE /\ Goto(c, "emptied") /\ ~active /\ c \in executed
      /\ UNCHANGED <<now, active, wide, scopes, log, idem, op, executed, revokedAt, underWay,
                     answered>>
  BY DEF Invalidate, Emptied, CallsSound
<1>2. /\ call' \in [Calls -> Request] /\ call'[c].at = "emptied"
      /\ call'[c].known = call[c].known /\ call'[c].late = call[c].late
      /\ \A d \in Calls \ {c} : call'[d] = call[d]
  BY <1>1, GotoMoves DEF Steps
<1>3. TypeOK' /\ IdemType'
  BY <1>1, <1>2 DEF TypeOK, IdemType
<1>4. CallsSound'
  BY <1>1, <1>2 DEF CallsSound
<1>5. AnswersSound'
  BY <1>1, <1>2 DEF AnswersSound
<1>6. ScopesSound'
  BY <1>1, <1>2 DEF ScopesSound
<1>7. EntrySound' /\ RevokedStaysOut' /\ CacheIsOfExecutions'
  BY <1>1 DEF EntrySound, RevokedStaysOut, CacheIsOfExecutions
<1>8. QED
  BY <1>3, <1>4, <1>5, <1>6, <1>7

LEMMA PurgeKeeps == IInv /\ Purge => IInv'
<1> SUFFICES ASSUME IInv, Purge PROVE IInv'
  OBVIOUS
<1> USE DEF IInv
<1>1. UNCHANGED <<now, active, wide, entry, scopes, log, op, call, executed, revokedAt, underWay,
                  emptied, answered>>
  BY DEF Purge, memory, history
<1>2. \A o \in Ops : idem'[o] = IF idem[o] # None /\ idem[o].until <= now THEN None ELSE idem[o]
  BY DEF Purge
<1>3. IdemType'
  BY DEF Purge, IdemType
<1>4. TypeOK'
  BY <1>1, <1>2 DEF TypeOK
<1>5. AnswersSound'
  <2>1. ASSUME NEW o \in Ops, answered[o] # None, now < answered[o] + Day
        PROVE  idem'[o] # None /\ idem'[o].until >= answered[o] + Day
    <3>1. idem[o] # None /\ idem[o].until >= answered[o] + Day
      BY <2>1 DEF AnswersSound
    <3>2. ~(idem[o].until <= now)
      BY <2>1, <3>1, DispatchAssumption DEF IdemType, TypeOK
    <3>3. QED
      BY <1>2, <3>1, <3>2
  <2>2. QED
    BY <1>1, <1>2, <2>1 DEF AnswersSound
<1>6. CacheIsOfExecutions'
  BY <1>1, <1>2 DEF CacheIsOfExecutions
<1>7. CallsSound' /\ EntrySound' /\ ScopesSound' /\ RevokedStaysOut'
  BY <1>1 DEF CallsSound, EntrySound, ScopesSound, RevokedStaysOut
<1>8. QED
  BY <1>3, <1>4, <1>5, <1>6, <1>7

LEMMA RestartKeeps == IInv /\ Restart => IInv'
<1> SUFFICES ASSUME IInv, Restart PROVE IInv'
  OBVIOUS
<1> USE DEF IInv
<1>1. /\ entry' = None
      /\ UNCHANGED <<now, active, wide, scopes, log, idem, op, executed, revokedAt, underWay,
                     emptied, answered>>
  BY DEF Restart, history
<1>2. /\ call' \in [Calls -> Request]
      /\ \A c \in Calls : call'[c] = call[c] \/ call'[c] = At("over")
  BY RequestTypes DEF Restart, TypeOK
<1>3. At("over").at = "over" /\ At("over").known = None /\ ~At("over").late
  BY DEF At
<1>4. TypeOK' /\ IdemType'
  BY <1>1, <1>2 DEF TypeOK, IdemType
<1>5. CallsSound'
  BY <1>1, <1>2, <1>3 DEF CallsSound
<1>6. AnswersSound'
  BY <1>1, <1>2, <1>3 DEF AnswersSound
<1>7. ScopesSound'
  BY <1>1, <1>2, <1>3 DEF ScopesSound
<1>8. EntrySound' /\ RevokedStaysOut' /\ CacheIsOfExecutions'
  BY <1>1 DEF EntrySound, RevokedStaysOut, CacheIsOfExecutions
<1>9. QED
  BY <1>4, <1>5, <1>6, <1>7, <1>8

LEMMA TickKeeps == IInv /\ Tick => IInv'
<1> SUFFICES ASSUME IInv, Tick PROVE IInv'
  OBVIOUS
<1> USE DEF IInv
<1>1. /\ now \in Nat /\ now' = now + 1
      /\ UNCHANGED <<active, wide, entry, scopes, log, idem, op, call, executed, revokedAt,
                     underWay, emptied, answered>>
  BY DEF Tick, memory, history, TypeOK
<1>2. TypeOK' /\ IdemType' /\ CallsSound' /\ ScopesSound' /\ RevokedStaysOut' /\ CacheIsOfExecutions'
  BY <1>1 DEF TypeOK, IdemType, CallsSound, ScopesSound, RevokedStaysOut, CacheIsOfExecutions
<1>3. EntrySound'
  BY <1>1, DispatchAssumption DEF EntrySound, TypeOK
<1>4. AnswersSound'
  <2>1. ASSUME NEW o \in Ops, answered[o] # None
        PROVE  /\ answered[o] <= now + 1
               /\ now + 1 < answered[o] + Day =>
                    idem[o] # None /\ idem[o].until >= answered[o] + Day
    BY <1>1, <2>1, DispatchAssumption DEF AnswersSound, TypeOK
  <2>2. ASSUME NEW c \in Calls, call[c].known # None, call[c].at = "missed"
        PROVE  now + 1 >= call[c].known + Day
    BY <1>1, <2>2, DispatchAssumption DEF AnswersSound, TypeOK, Request
  <2>3. QED
    BY <1>1, <2>1, <2>2 DEF AnswersSound
<1>5. QED
  BY <1>2, <1>3, <1>4

LEMMA InvStep == IInv /\ [Next]_vars => IInv'
<1> SUFFICES ASSUME IInv, [Next]_vars PROVE IInv'
  OBVIOUS
<1>1. ASSUME NEW c \in Calls, Handle(c) PROVE IInv'
  <2>1. CASE Replay(c) \/ Die(c)
    BY <2>1, EndKeeps DEF Replay, Die
  <2>2. QED
    BY <1>1, <2>1, HitKeeps, LookUpKeeps, FillKeeps, StepKeeps, SetScopesKeeps, ExecuteKeeps,
       RevokeKeeps, InvalidateKeeps, AnswerKeeps DEF Handle
<1>2. CASE RevokeElsewhere \/ Purge \/ Restart \/ Tick
  BY <1>2, RevokeKeeps, PurgeKeeps, RestartKeeps, TickKeeps
<1>3. CASE UNCHANGED vars
  BY <1>3 DEF IInv, TypeOK, IdemType, CallsSound, EntrySound, AnswersSound, ScopesSound,
     CacheIsOfExecutions, RevokedStaysOut, vars, memory, history
<1>4. QED
  BY <1>1, <1>2, <1>3 DEF Next

THEOREM Invariance == Spec => []IInv
<1>1. Init => IInv
  BY InvInit
<1>2. IInv /\ [Next]_vars => IInv'
  BY InvStep
<1>3. QED
  BY <1>1, <1>2, PTL DEF Spec

-----------------------------------------------------------------------------
(* What the run checks, for every instance.                                *)

\* Every variable keeps its type.
THEOREM TypeCorrect == Spec => []TypeOK
<1>1. IInv => TypeOK
  BY DEF IInv
<1>2. QED
  BY <1>1, Invariance, PTL

\* What the idempotency cache replays is the answer of an execution of the same
\* operation, and not for longer than a day after it.
THEOREM ReplaysAreExecutions == Spec => []CacheIsOfExecutions
<1>1. IInv => CacheIsOfExecutions
  BY DEF IInv
<1>2. QED
  BY <1>1, Invariance, PTL

\* After DELETE /v1/keys/me only a lookup that was under way can put the key
\* back into the authentication cache.
THEOREM RevokedKeysStayOut == Spec => []RevokedStaysOut
<1>1. IInv => RevokedStaysOut
  BY DEF IInv
<1>2. QED
  BY <1>1, Invariance, PTL

\* A step that lets a call in is one of its own.
LEMMA LetIn ==
    ASSUME IInv, [Next]_vars, NEW c \in Calls, call'[c].at = "known", call[c].at # "known"
    PROVE  Hit(c) \/ Fill(c)
<1>1. ASSUME NEW d \in Calls, Handle(d), d # c PROVE FALSE
  <2>1. call'[c] = call[c]
    BY <1>1 DEF Handle, Hit, LookUp, Fill, ReadScopes, SetScopes, Replay, Miss, Execute,
       ExecuteNarrow, ExecuteRevoke, Invalidate, Log, Answer, Die, Goto, End, IInv, TypeOK
  <2>2. QED
    BY <2>1
<1>2. ASSUME Handle(c) PROVE Hit(c) \/ Fill(c)
  <2>1. CASE LookUp(c)
    BY <2>1, RequestTypes DEF LookUp, End, At, IInv, TypeOK, Request
  <2>2. CASE ReadScopes(c) \/ SetScopes(c)
    BY <2>2, RequestTypes DEF ReadScopes, SetScopes, IInv, TypeOK, Request
  <2>3. CASE Replay(c) \/ Miss(c) \/ Execute(c) \/ ExecuteNarrow(c) \/ ExecuteRevoke(c)
    BY <2>3, RequestTypes DEF Replay, Miss, Execute, ExecuteNarrow, ExecuteRevoke, Goto, End, At,
       IInv, TypeOK, Request
  <2>4. CASE Invalidate(c) \/ Log(c) \/ Answer(c) \/ Die(c)
    BY <2>4, RequestTypes DEF Invalidate, Log, Answer, Die, Goto, End, At, IInv, TypeOK, Request
  <2>5. QED
    BY <1>2, <2>1, <2>2, <2>3, <2>4 DEF Handle
<1>3. CASE RevokeElsewhere \/ Purge \/ Tick \/ UNCHANGED vars
  BY <1>3 DEF RevokeElsewhere, Purge, Tick, vars
<1>4. CASE Restart
  BY <1>4 DEF Restart, At
<1>5. QED
  BY <1>1, <1>2, <1>3, <1>4 DEF Next

\* However long the cache lives, a revoked key is let in no later than that
\* after its revocation, except by a lookup that was under way.
THEOREM RevocationIsHonored == Spec => RevocationHonored
<1>1. IInv /\ [Next]_vars =>
        \A c \in Calls :
          call'[c].at = "known" /\ call[c].at # "known" /\ ~active /\ now > revokedAt + CacheTTL
            => call'[c].ctx \in underWay
  <2> SUFFICES ASSUME IInv, [Next]_vars, NEW c \in Calls,
                      call'[c].at = "known", call[c].at # "known", ~active,
                      now > revokedAt + CacheTTL
               PROVE  call'[c].ctx \in underWay
    OBVIOUS
  <2>1. call[c] \in Request /\ Arrived(c) \in Request
    BY RequestTypes DEF IInv
  <2>2. CASE Hit(c)
    <3>1. entry # None /\ now < entry.until /\ call'[c].ctx = entry.ctx
      BY <2>1, <2>2 DEF Hit, Fresh, IInv, TypeOK, Request
    <3>2. entry.until \in Nat /\ now \in Nat /\ revokedAt \in Nat
      BY <3>1 DEF IInv, TypeOK, EntrySound
    <3>3. QED
      BY <3>1, <3>2, DispatchAssumption DEF IInv, EntrySound
  <2>3. CASE Fill(c)
    <3>1. call[c].at = "looked" /\ call'[c].ctx = c
      BY <2>1, <2>3 DEF Fill, IInv, TypeOK, Request
    <3>2. QED
      BY <3>1 DEF IInv, CallsSound
  <2>4. QED
    BY <2>2, <2>3, LetIn
<1>2. QED
  BY <1>1, Invariance, PTL DEF Spec, RevocationHonored

\* A write that was answered less than a day before a call arrived is replayed
\* to that call and not executed again, whatever happened in between.
THEOREM RepeatsReplay == Spec => RepeatedCallReplays
<1>1. IInv /\ [Next]_vars =>
        \A c \in Calls : Executes(c) /\ call[c].known # None => now >= call[c].known + Day
  BY DEF IInv, AnswersSound, Executes
<1>2. QED
  BY <1>1, Invariance, PTL DEF Spec, RepeatedCallReplays

\* A write that arrived after the scopes were narrowed is executed under wider
\* ones only if a call that arrived before had put them back.
THEOREM NarrowingHolds == Spec => NarrowedScopesHold
<1>1. IInv /\ [Next]_vars =>
        \A c \in Calls :
          Executes(c) /\ op[c] \in Writes /\ call[c].late /\ scopes[call[c].ctx].wide
            => ~scopes[call[c].ctx].late
  BY DEF IInv, ScopesSound, CallsSound, Executes
<1>2. QED
  BY <1>1, Invariance, PTL DEF Spec, NarrowedScopesHold
=============================================================================
