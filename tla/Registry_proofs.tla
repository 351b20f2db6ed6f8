--------------------------- MODULE Registry_proofs ---------------------------
(***************************************************************************)
(* Theorems about Registry for every number of keys, owners, names,        *)
(* requests, patches and rows, and every page size, checked by TLAPS.      *)
(***************************************************************************)
EXTENDS Registry, FiniteSetTheorems, TLAPS

Ids == {r.id : r \in Rows}

\* What each request has done, against the rows: it inserts its own row once,
\* and acts as an actor of its owner's.
OpsSound ==
    \A o \in Ops :
        /\ op[o].kind # "use" => op[o].ident \in Names
        /\ op[o].at \in {"idle", "creating", "naming"} => o \notin Ids
        /\ op[o].at = "created" => op[o].kind = "create" /\ o \in Ids
        /\ op[o].at = "naming" => op[o].kind = "alias" /\ op[o].actor \in Ids
        /\ Acted(o, "use") => \E r \in Rows : r.id = op[o].actor /\ r.owner = OwnerOf(o)

\* A patch that has been answered is known to those that are going to write
\* after it: in what they have read, or in what they have missed.
PatchesSound ==
    \A p, q \in Patches :
        patch[p].at = "done" /\ patch[q].at = "read" /\ session.row
            => \/ p \in patch[q].read \cup patch[q].missed
               \/ \E u \in Patches : patch[u].at = "done" /\ p \in patch[u].missed

IInv ==
    /\ TypeOK /\ actors \in Seq(Row)
    /\ OpsSound /\ AliasGivenOnce /\ PatchesSound /\ PatchesKept /\ NothingPassedOver

LEMMA ArrivingIsOp == Arriving \subseteq Op /\ Arriving # {} /\ Unasked \in Op
<1>1. Arriving \subseteq Op
  BY DEF Arriving, Op, Steps
<1>2. PICK k \in Keys, n \in Names : TRUE
  BY RegistryAssumption
<1>3. [at |-> "idle", kind |-> "create", key |-> k, ident |-> n, actor |-> None,
       stamp |-> 0, before |-> {}, began |-> 0, ended |-> 0] \in Arriving
  BY <1>2 DEF Arriving, Kinds
<1>4. (CHOOSE q \in Arriving : TRUE) \in Arriving
  BY <1>3
<1>5. QED
  BY <1>1, <1>3, <1>4 DEF Unasked, Op, Steps

LEMMA InvInit == Init => IInv
<1> SUFFICES ASSUME Init PROVE IInv
  OBVIOUS
<1>1. actors = <<>> /\ Rows = {} /\ Ids = {}
  BY DEF Init, Rows, ToSet, Ids
<1>2. \A o \in Ops : /\ op[o] \in Op
                     /\ op[o].at \in {"idle", "over"} /\ op[o].actor = None
                     /\ op[o].kind # "use" => op[o].ident \in Names
  <2>1. ASSUME NEW x \in Arriving
        PROVE  /\ x \in Op /\ x.at = "idle" /\ x.actor = None
               /\ x.kind # "use" => x.ident \in Names
    BY <2>1, ArrivingIsOp DEF Arriving
  <2>2. /\ Unasked \in Op /\ Unasked.at = "over" /\ Unasked.actor = None
        /\ Unasked.kind # "use" => Unasked.ident \in Names
    <3>1. (CHOOSE q \in Arriving : TRUE) \in Arriving
      BY ArrivingIsOp
    <3>2. (CHOOSE q \in Arriving : TRUE) \in Op
      BY <3>1, ArrivingIsOp
    <3>3. QED
      BY <2>1, <3>1, <3>2, ArrivingIsOp DEF Unasked, Op
  <2>3. QED
    BY <2>1, <2>2 DEF Init
<1>3. op \in [Ops -> Op]
  BY <1>2, ArrivingIsOp DEF Init
<1>4. /\ session \in [row: BOOLEAN, fields: SUBSET Patches]
      /\ patch \in [Patches -> [at: {"idle", "read", "done", "failed"}, read: SUBSET Patches,
                                missed: SUBSET Patches]]
      /\ \A p \in Patches : patch[p].at \in {"idle", "failed"}
  <2>1. \E row \in BOOLEAN, step \in {"idle", "failed"} :
          /\ session = [row |-> row, fields |-> {}]
          /\ patch = [p \in Patches |-> [at |-> step, read |-> {}, missed |-> {}]]
    BY DEF Init, NoSession
  <2>2. QED
    BY <2>1
<1>5. table \in [Items -> Stamps \cup {0}] /\ reader \in Reader
      /\ ((reader.at = "reading" /\ reader.cursor = 0) \/ There = {})
  BY DEF Init, NoList, Starting, Reader, Lists, There
<1>6. TypeOK /\ actors \in Seq(Row)
  BY <1>1, <1>3, <1>4, <1>5 DEF Init, TypeOK
<1>7. OpsSound /\ AliasGivenOnce
  BY <1>1, <1>2 DEF OpsSound, AliasGivenOnce, Acted
<1>8. PatchesSound /\ PatchesKept
  BY <1>4 DEF PatchesSound, PatchesKept
<1>9. NothingPassedOver
  BY <1>5 DEF NothingPassedOver, Ahead, Beyond, There
<1>10. QED
  BY <1>6, <1>7, <1>8, <1>9 DEF IInv

-----------------------------------------------------------------------------
(* Actors and aliases.                                                     *)

\* A step of one request, which changes neither rows nor aliases.
LEMMA OpMoves ==
    ASSUME IInv, NEW o \in Ops, NEW x \in Op, op' = [op EXCEPT ![o] = x],
           UNCHANGED <<actors, alias, sessions, listing>>, now' = now,
           cache' \in [Keys \X Names -> [actor: Ids \cup {None}, until: Nat]],
           x.key = op[o].key /\ x.kind = op[o].kind /\ x.ident = op[o].ident,
           op[o].at # "over",
           x.at \in {"idle", "creating", "naming"} => o \notin Ids,
           x.at = "created" => op[o].at = "created",
           x.at = "naming" => x.kind = "alias" /\ x.actor \in Ids,
           x.at = "over" /\ x.actor # None =>
             /\ x.kind = "use" => \E r \in Rows : r.id = x.actor /\ r.owner = OwnerOf(o)
             /\ x.kind # "alias"
    PROVE  IInv'
<1> USE DEF IInv
<1>1. /\ op' \in [Ops -> Op] /\ op'[o] = x /\ \A q \in Ops \ {o} : op'[q] = op[q]
  BY DEF TypeOK
<1>2. UNCHANGED <<actors, alias, session, patch, table, reader, Rows, Ids, now>>
  BY DEF sessions, listing, Rows, Ids
<1>3. TypeOK' /\ (actors \in Seq(Row))'
  BY <1>1, <1>2 DEF TypeOK, Ids
<1>4. OpsSound'
  BY <1>1, <1>2 DEF OpsSound, Acted, OwnerOf
<1>5. AliasGivenOnce'
  BY <1>1, <1>2 DEF AliasGivenOnce, Acted
<1>6. PatchesSound' /\ PatchesKept'
  BY <1>2 DEF PatchesSound, PatchesKept
<1>7. NothingPassedOver'
  BY <1>2 DEF NothingPassedOver, Ahead, Beyond, There
<1>8. QED
  BY <1>3, <1>4, <1>5, <1>6, <1>7

LEMMA BegunType ==
    ASSUME TypeOK, NEW o \in Ops
    PROVE  /\ Begun(o) \in Op
           /\ \A step \in Steps, n \in Nat :
                [Begun(o) EXCEPT !.at = step, !.stamp = n] \in Op
           /\ \A q \in Op, a \in Ops \cup {None} : Over(q, a) \in Op
<1>1. op[o] \in Op /\ now \in Nat
  BY DEF TypeOK
<1>2. Begun(o) \in Op
  BY <1>1 DEF Begun, Op
<1>3. ASSUME NEW step \in Steps, NEW n \in Nat
      PROVE  [Begun(o) EXCEPT !.at = step, !.stamp = n] \in Op
  BY <1>2 DEF Op
<1>4. ASSUME NEW q \in Op, NEW a \in Ops \cup {None} PROVE Over(q, a) \in Op
  BY <1>1, <1>4 DEF Over, Op, Steps
<1>5. QED
  BY <1>2, <1>3, <1>4

LEMMA ResolveKeeps ==
    ASSUME IInv, NEW o \in Ops, Resolve(o)
    PROVE  IInv'
<1> USE DEF IInv
<1>1. op[o] \in Op /\ op[o].at = "idle" /\ op[o].kind = "use" /\ o \notin Ids
  BY DEF Resolve, OpsSound, TypeOK
<1>2. /\ UNCHANGED <<actors, alias, sessions, listing>> /\ now' = now
      /\ cache' \in [Keys \X Names -> [actor: Ids \cup {None}, until: Nat]]
  BY DEF Resolve, registry, TypeOK, Ids
<1>3. Begun(o) \in Op /\ now \in Nat /\ \A a \in Ops \cup {None} : Over(Begun(o), a) \in Op
  BY BegunType DEF TypeOK
<1>4. CASE Creating(o)
  <2> DEFINE x == [Begun(o) EXCEPT !.at = "creating", !.stamp = now]
  <2>1. x \in Op /\ x.at = "creating" /\ x.key = op[o].key /\ x.kind = op[o].kind
        /\ x.ident = op[o].ident
    BY <1>1, <1>3 DEF Begun, Op, Steps
  <2>2. op' = [op EXCEPT ![o] = x]
    BY <1>4 DEF Creating
  <2>3. QED
    BY <1>1, <1>2, <2>1, <2>2, OpMoves
<1>5. ASSUME NEW r \in Rows, NEW a \in {r.id, None},
             a # None => r.owner = OwnerOf(o),
             op' = [op EXCEPT ![o] = Over(Begun(o), a)]
      PROVE  IInv'
  <2>1. a \in Ops \cup {None}
    BY DEF TypeOK, Row
  <2> DEFINE x == Over(Begun(o), a)
  <2>2. x \in Op /\ x.at = "over" /\ x.actor = a /\ x.key = op[o].key /\ x.kind = op[o].kind
        /\ x.ident = op[o].ident
    BY <1>1, <1>3, <2>1 DEF Begun, Over, Op, Steps
  <2>3. QED
    BY <1>1, <1>2, <1>5, <2>2, OpMoves
<1>6. \/ Creating(o)
      \/ \E r \in Rows : /\ r.owner = OwnerOf(o)
                         /\ op' = [op EXCEPT ![o] = Over(Begun(o), r.id)]
      \/ \E r \in Rows : op' = [op EXCEPT ![o] = Over(Begun(o), None)]
  <2> DEFINE hit == IF ById(o) # {} THEN ById(o) ELSE ByAlias(o)
  <2>1. hit \subseteq Rows /\ First(ByName(o)) \subseteq Rows
        /\ \A r \in First(ByName(o)) : r.owner = OwnerOf(o)
    BY DEF ById, ByAlias, ByName, First
  <2>2. ASSUME NEW r \in hit,
               op' = [op EXCEPT ![o] = Over(Begun(o), IF MayActAs(o, r) THEN r.id ELSE None)]
        PROVE  \/ \E s \in Rows : /\ s.owner = OwnerOf(o)
                                  /\ op' = [op EXCEPT ![o] = Over(Begun(o), s.id)]
               \/ \E s \in Rows : op' = [op EXCEPT ![o] = Over(Begun(o), None)]
    <3>1. CASE MayActAs(o, r)
      <4>1. op' = [op EXCEPT ![o] = Over(Begun(o), r.id)]
        BY <2>2, <3>1
      <4>2. QED
        BY <2>1, <3>1, <4>1 DEF MayActAs
    <3>2. CASE ~MayActAs(o, r)
      <4>1. op' = [op EXCEPT ![o] = Over(Begun(o), None)]
        BY <2>2, <3>2
      <4>2. QED
        BY <2>1, <4>1
    <3>3. QED
      BY <3>1, <3>2
  <2>3. \/ \E r \in hit :
             op' = [op EXCEPT ![o] = Over(Begun(o), IF MayActAs(o, r) THEN r.id ELSE None)]
        \/ \E r \in First(ByName(o)) : op' = [op EXCEPT ![o] = Over(Begun(o), r.id)]
        \/ Creating(o)
    BY DEF Resolve
  <2>4. QED
    BY <2>1, <2>2, <2>3
<1>7. QED
  BY <1>4, <1>5, <1>6

\* A row is inserted by the request whose id it has.
LEMMA InsertKeeps ==
    ASSUME IInv, NEW o \in Ops, Store(o) \/ Create(o)
    PROVE  IInv'
<1> USE DEF IInv
<1>1. /\ op[o] \in Op /\ op[o].at = "creating" /\ o \notin Ids
      /\ UNCHANGED <<now, alias, cache, session, patch, table, reader>>
      /\ Appended(o)
  BY DEF Store, Create, OpsSound, TypeOK, sessions, listing
<1>2. PICK row \in Row :
        /\ row.id = o /\ row.owner = OwnerOf(o)
        /\ actors' = Append(actors, row)
  <2>1. [id |-> o, owner |-> OwnerOf(o), name |-> op[o].ident, at |-> op[o].stamp] \in Row
    BY <1>1, RegistryAssumption DEF Row, Op, OwnerOf
  <2>2. QED
    BY <1>1, <2>1 DEF Appended
<1>3. /\ actors' \in Seq(Row) /\ Rows' = Rows \cup {row} /\ Rows \subseteq Row
      /\ Ids' = Ids \cup {o}
  <2>1. actors' \in Seq(Row) /\ DOMAIN actors' = DOMAIN actors \cup {Len(actors) + 1}
        /\ actors'[Len(actors) + 1] = row
        /\ \A i \in DOMAIN actors : actors'[i] = actors[i]
    BY <1>2
  <2>2. Rows' = Rows \cup {row}
    BY <2>1 DEF Rows, ToSet
  <2>3. QED
    BY <1>2, <2>1, <2>2 DEF Ids, TypeOK
<1>4. /\ op' \in [Ops -> Op] /\ \A q \in Ops \ {o} : op'[q] = op[q]
      /\ op'[o].key = op[o].key /\ op'[o].kind = op[o].kind /\ op'[o].ident = op[o].ident
      /\ \/ op'[o].kind = "use" /\ op'[o].at = "over" /\ op'[o].actor = o
         \/ op'[o].kind = "create" /\ op'[o].at = "created"
  <2>1. CASE Store(o)
    <3>1. op' = [op EXCEPT ![o] = Over(op[o], o)] /\ op[o].kind = "use" /\ Over(op[o], o) \in Op
      BY <1>1, <2>1, BegunType DEF Store
    <3>2. /\ Over(op[o], o).key = op[o].key /\ Over(op[o], o).kind = op[o].kind
          /\ Over(op[o], o).ident = op[o].ident
          /\ Over(op[o], o).at = "over" /\ Over(op[o], o).actor = o
      BY <1>1 DEF Over, Op
    <3>3. QED
      BY <3>1, <3>2 DEF TypeOK
  <2>2. CASE Create(o)
    <3>1. op' = [op EXCEPT ![o] = [op[o] EXCEPT !.at = "created"]] /\ op[o].kind = "create"
      BY <2>2 DEF Create
    <3>2. QED
      BY <1>1, <3>1 DEF TypeOK, Op, Steps
  <2>3. QED
    BY <2>1, <2>2
<1>6. TypeOK'
  <2>1. \A r, s \in Rows' : r.id = s.id => r = s
    BY <1>1, <1>2, <1>3 DEF TypeOK, Ids
  <2>2. /\ alias' \in [Names -> Ids' \cup {None}]
        /\ cache' \in [Keys \X Names -> [actor: Ids' \cup {None}, until: Nat]]
    BY <1>1, <1>3 DEF TypeOK, Ids
  <2>3. QED
    BY <1>1, <1>3, <1>4, <2>1, <2>2 DEF TypeOK, Ids
<1>7. OpsSound'
  <2>1. \A q \in Ops : OwnerOf(q)' = OwnerOf(q)
    BY <1>4 DEF OwnerOf
  <2>2. QED
    BY <1>1, <1>2, <1>3, <1>4, <2>1 DEF OpsSound, Acted
<1>8. AliasGivenOnce'
  BY <1>1, <1>4 DEF AliasGivenOnce, Acted
<1>9. PatchesSound' /\ PatchesKept' /\ NothingPassedOver'
  BY <1>1 DEF PatchesSound, PatchesKept, NothingPassedOver, Ahead, Beyond, There
<1>10. QED
  BY <1>3, <1>6, <1>7, <1>8, <1>9

LEMMA EnsureKeeps ==
    ASSUME IInv, NEW o \in Ops, Ensure(o)
    PROVE  IInv'
<1> USE DEF IInv
<1>1. /\ op[o] \in Op /\ op[o].at = "idle" /\ op[o].kind = "create" /\ o \notin Ids
      /\ UNCHANGED <<actors, alias, sessions, listing>> /\ now' = now
      /\ cache' \in [Keys \X Names -> [actor: Ids \cup {None}, until: Nat]]
      /\ cache[Slot(o)].actor \in Ops \cup {None}
  <2>1. op[o] \in Op /\ op[o].at = "idle" /\ op[o].kind = "create" /\ o \notin Ids
    BY DEF Ensure, OpsSound, TypeOK
  <2>2. Slot(o) \in Keys \X Names
    BY <2>1 DEF Slot, OpsSound, Op
  <2>3. cache[Slot(o)].actor \in Ids \cup {None}
    BY <2>2 DEF TypeOK, Ids
  <2>4. QED
    BY <2>1, <2>3 DEF Ensure, registry, TypeOK, Ids, Row
<1>2. Begun(o) \in Op /\ now \in Nat /\ \A a \in Ops \cup {None} : Over(Begun(o), a) \in Op
  BY BegunType DEF TypeOK
<1>3. CASE op' = [op EXCEPT ![o] = Over(Begun(o), cache[Slot(o)].actor)]
  <2> DEFINE x == Over(Begun(o), cache[Slot(o)].actor)
  <2>1. x \in Op /\ x.at = "over" /\ x.key = op[o].key /\ x.kind = op[o].kind
        /\ x.ident = op[o].ident
    BY <1>1, <1>2 DEF Begun, Over, Op, Steps
  <2>2. QED
    BY <1>1, <1>3, <2>1, OpMoves
<1>4. CASE Creating(o)
  <2> DEFINE x == [Begun(o) EXCEPT !.at = "creating", !.stamp = now]
  <2>1. x \in Op /\ x.at = "creating" /\ x.key = op[o].key /\ x.kind = op[o].kind
        /\ x.ident = op[o].ident
    BY <1>1, <1>2 DEF Begun, Op, Steps
  <2>2. op' = [op EXCEPT ![o] = x]
    BY <1>4 DEF Creating
  <2>3. QED
    BY <1>1, <2>1, <2>2, OpMoves
<1>5. QED
  BY <1>3, <1>4 DEF Ensure

LEMMA AnswerKeeps ==
    ASSUME IInv, NEW o \in Ops, Answer(o)
    PROVE  IInv'
<1> USE DEF IInv
<1>1. op[o] \in Op /\ op[o].at = "created" /\ o \in Ids
  BY DEF Answer, OpsSound, TypeOK
<1>2. cache' \in [Keys \X Names -> [actor: Ids \cup {None}, until: Nat]]
  <2>1. now + Ttl \in Nat
    BY RegistryAssumption DEF TypeOK
  <2>2. cache \in [Keys \X Names -> [actor: Ids \cup {None}, until: Nat]]
    BY DEF TypeOK, Ids
  <2>3. QED
    BY <1>1, <2>1, <2>2 DEF Answer
<1>3. CASE op[o].kind = "create"
  <2> DEFINE x == Over(op[o], o)
  <2>1. x \in Op
    BY <1>1, BegunType
  <2>2. x.at = "over" /\ x.key = op[o].key /\ x.kind = "create" /\ x.ident = op[o].ident
    BY <1>1, <1>3 DEF Over, Op
  <2>3. op' = [op EXCEPT ![o] = x] /\ UNCHANGED <<actors, alias, sessions, listing>>
        /\ now' = now
    BY DEF Answer
  <2> HIDE DEF x
  <2>4. QED
    BY <1>1, <1>2, <1>3, <2>1, <2>2, <2>3, OpMoves
<1>4. QED
  BY <1>1, <1>3 DEF OpsSound

LEMMA DieKeeps ==
    ASSUME IInv, NEW o \in Ops, Die(o)
    PROVE  IInv'
<1> USE DEF IInv
<1> DEFINE x == Over(op[o], None)
<1>1. x \in Op
  BY BegunType DEF TypeOK
<1>2. /\ x.at = "over" /\ x.actor = None
      /\ x.key = op[o].key /\ x.kind = op[o].kind /\ x.ident = op[o].ident
  BY DEF Over, Op, TypeOK
<1>3. /\ op' = [op EXCEPT ![o] = x] /\ op[o].at # "over"
      /\ UNCHANGED <<actors, alias, sessions, listing>> /\ now' = now
      /\ cache' \in [Keys \X Names -> [actor: Ids \cup {None}, until: Nat]]
  BY DEF Die, registry, TypeOK, Ids
<1> HIDE DEF x
<1>4. QED
  BY <1>1, <1>2, <1>3, OpMoves

LEMMA AliasReadKeeps ==
    ASSUME IInv, NEW o \in Ops, AliasRead(o)
    PROVE  IInv'
<1> USE DEF IInv
<1>1. /\ op[o] \in Op /\ op[o].at = "idle" /\ op[o].kind = "alias" /\ o \notin Ids
      /\ UNCHANGED <<actors, alias, sessions, listing>> /\ now' = now
      /\ cache' \in [Keys \X Names -> [actor: Ids \cup {None}, until: Nat]]
  BY DEF AliasRead, OpsSound, registry, TypeOK, Ids
<1>2. Begun(o) \in Op
  BY BegunType
<1>3. CASE op' = [op EXCEPT ![o] = Over(Begun(o), None)]
  <2>1. Over(Begun(o), None) \in Op
    BY <1>2, BegunType
  <2> DEFINE x == Over(Begun(o), None)
  <2>2. x.at = "over" /\ x.actor = None
        /\ x.key = op[o].key /\ x.kind = op[o].kind /\ x.ident = op[o].ident
    BY <1>1, <1>2 DEF Over, Begun, Op
  <2>3. QED
    BY <1>1, <1>3, <2>1, <2>2, OpMoves
<1>4. ASSUME NEW r \in Rows, op' = [op EXCEPT ![o] = [Begun(o) EXCEPT !.at = "naming", !.actor = r.id]]
      PROVE  IInv'
  <2> DEFINE x == [Begun(o) EXCEPT !.at = "naming", !.actor = r.id]
  <2>1. r.id \in Ops /\ r.id \in Ids
    BY DEF TypeOK, Row, Ids
  <2>2. x \in Op /\ x.at = "naming" /\ x.actor = r.id
        /\ x.key = op[o].key /\ x.kind = op[o].kind /\ x.ident = op[o].ident
    BY <1>1, <1>2, <2>1 DEF Begun, Op, Steps
  <2>3. QED
    BY <1>1, <1>4, <2>1, <2>2, OpMoves
<1>5. PICK r \in Rows :
        op' = [op EXCEPT ![o] = IF alias[op[o].ident] # None THEN Over(Begun(o), None)
                                ELSE [Begun(o) EXCEPT !.at = "naming", !.actor = r.id]]
  BY DEF AliasRead
<1>6. CASE alias[op[o].ident] # None
  <2>1. op' = [op EXCEPT ![o] = Over(Begun(o), None)]
    BY <1>5, <1>6
  <2>2. QED
    BY <1>3, <2>1
<1>7. CASE alias[op[o].ident] = None
  <2>1. op' = [op EXCEPT ![o] = [Begun(o) EXCEPT !.at = "naming", !.actor = r.id]]
    BY <1>5, <1>7
  <2>2. QED
    BY <1>4, <2>1
<1>8. QED
  BY <1>6, <1>7

LEMMA AliasWriteKeeps ==
    ASSUME IInv, NEW o \in Ops, AliasWrite(o)
    PROVE  IInv'
<1> USE DEF IInv
<1>1. /\ op[o] \in Op /\ op[o].at = "naming" /\ op[o].kind = "alias" /\ op[o].ident \in Names
      /\ op[o].actor \in Ids
      /\ UNCHANGED <<now, actors, cache, session, patch, table, reader, Rows, Ids>>
  BY DEF AliasWrite, OpsSound, TypeOK, sessions, listing, Rows, Ids
<1>2. CASE ~AliasFree(o)
  <2> DEFINE x == Over(op[o], None)
  <2>1. x \in Op
    BY <1>1, BegunType
  <2>2. x.at = "over" /\ x.actor = None
        /\ x.key = op[o].key /\ x.kind = op[o].kind /\ x.ident = op[o].ident
    BY <1>1 DEF Over, Op
  <2>3. /\ op' = [op EXCEPT ![o] = x] /\ UNCHANGED <<actors, alias, sessions, listing>>
        /\ cache' \in [Keys \X Names -> [actor: Ids \cup {None}, until: Nat]]
    BY <1>1, <1>2 DEF AliasWrite, TypeOK, Ids
  <2> HIDE DEF x
  <2>4. QED
    BY <1>1, <2>1, <2>2, <2>3, OpMoves
<1>3. CASE AliasFree(o)
  <2> DEFINE x == Over(op[o], op[o].actor)
  <2>1. op[o].actor \in Ops /\ op[o].actor # None
    BY <1>1, RegistryAssumption DEF Ids, TypeOK, Row
  <2>2. x \in Op
    BY <1>1, <2>1, BegunType
  <2>3. x.at = "over" /\ x.actor = op[o].actor
        /\ x.key = op[o].key /\ x.kind = op[o].kind /\ x.ident = op[o].ident
    BY <1>1 DEF Over, Op
  <2>4. op' = [op EXCEPT ![o] = x] /\ alias' = [alias EXCEPT ![op[o].ident] = op[o].actor]
        /\ alias[op[o].ident] = None
    BY <1>3 DEF AliasWrite, AliasFree
  <2> HIDE DEF x
  <2>5. /\ op' \in [Ops -> Op] /\ op'[o] = x /\ \A q \in Ops \ {o} : op'[q] = op[q]
    BY <2>2, <2>4 DEF TypeOK
  <2>6. TypeOK' /\ (actors \in Seq(Row))'
    <3>1. alias' \in [Names -> Ids \cup {None}]
      BY <1>1, <2>4 DEF TypeOK, Ids
    <3>2. QED
      BY <1>1, <2>5, <3>1 DEF TypeOK, Ids
  <2>7. OpsSound'
    BY <1>1, <2>3, <2>5 DEF OpsSound, Acted, OwnerOf
  <2>8. AliasGivenOnce'
    <3>1. ASSUME NEW q \in Ops, Acted(q, "alias"), op[q].ident = op[o].ident PROVE FALSE
      BY <2>4, <3>1 DEF AliasGivenOnce, Acted
    <3>2. ASSUME NEW q \in Ops, Acted(q, "alias")' PROVE
            \/ q = o
            \/ q # o /\ Acted(q, "alias") /\ op'[q] = op[q] /\ op[q].ident # op[o].ident
      BY <2>5, <3>1, <3>2 DEF Acted
    <3>3. alias'[op[o].ident] = op[o].actor
          /\ \A n \in Names \ {op[o].ident} : alias'[n] = alias[n]
      BY <1>1, <2>4 DEF TypeOK
    <3>4. \A q \in Ops : Acted(q, "alias") => op[q].ident \in Names
      BY DEF OpsSound, Acted
    <3>5. QED
      BY <2>3, <2>5, <3>2, <3>3, <3>4 DEF AliasGivenOnce
  <2>9. PatchesSound' /\ PatchesKept' /\ NothingPassedOver'
    BY <1>1 DEF PatchesSound, PatchesKept, NothingPassedOver, Ahead, Beyond, There
  <2>10. QED
    BY <1>1, <2>6, <2>7, <2>8, <2>9
<1>4. QED
  BY <1>2, <1>3

-----------------------------------------------------------------------------
(* The session.                                                            *)

LEMMA PatchMoves ==
    ASSUME NEW u \in [at: {"idle", "read", "done", "failed"},
                      read: SUBSET Patches, missed: SUBSET Patches],
           NEW S \in SUBSET Patches
    PROVE  /\ [u EXCEPT !.at = "read", !.read = S] \in
                [at: {"idle", "read", "done", "failed"},
                 read: SUBSET Patches, missed: SUBSET Patches]
           /\ [u EXCEPT !.at = "failed"] \in
                [at: {"idle", "read", "done", "failed"},
                 read: SUBSET Patches, missed: SUBSET Patches]
  OBVIOUS

LEMMA SessionKeeps ==
    ASSUME IInv, DeleteSession \/ \E p \in Patches : PatchRead(p) \/ PatchWrite(p)
    PROVE  IInv'
<1> USE DEF IInv
<1>1. UNCHANGED <<now, actors, alias, cache, op, table, reader, Rows, Ids>>
  BY DEF DeleteSession, PatchRead, PatchWrite, registry, listing, Rows, Ids
<1>2. (actors \in Seq(Row))' /\ OpsSound' /\ AliasGivenOnce' /\ NothingPassedOver'
  BY <1>1 DEF OpsSound, AliasGivenOnce, Acted, OwnerOf, NothingPassedOver, Ahead, Beyond, There
<1>3. ASSUME session' \in [row: BOOLEAN, fields: SUBSET Patches],
             patch' \in [Patches -> [at: {"idle", "read", "done", "failed"},
                                     read: SUBSET Patches, missed: SUBSET Patches]]
      PROVE  TypeOK'
  BY <1>1, <1>3 DEF TypeOK, Ids
<1>4. CASE DeleteSession
  <2>1. TypeOK'
    BY <1>3, <1>4 DEF DeleteSession, TypeOK
  <2>2. PatchesSound' /\ PatchesKept'
    BY <1>4 DEF DeleteSession, PatchesSound, PatchesKept
  <2>3. QED
    BY <1>2, <2>1, <2>2
<1>5. ASSUME NEW p \in Patches, PatchRead(p) PROVE IInv'
  <2>0. patch \in [Patches -> [at: {"idle", "read", "done", "failed"},
                               read: SUBSET Patches, missed: SUBSET Patches]]
        /\ session.fields \in SUBSET Patches
    BY DEF TypeOK
  <2> DEFINE x == IF session.row THEN [patch[p] EXCEPT !.at = "read", !.read = session.fields]
                  ELSE [patch[p] EXCEPT !.at = "failed"]
  <2>a. patch[p].at = "idle" /\ session' = session /\ patch' = [patch EXCEPT ![p] = x]
    BY <1>5 DEF PatchRead
  <2>b. x \in [at: {"idle", "read", "done", "failed"},
               read: SUBSET Patches, missed: SUBSET Patches]
    <3>1. patch[p] \in [at: {"idle", "read", "done", "failed"},
                        read: SUBSET Patches, missed: SUBSET Patches]
      BY <2>0
    <3>2. CASE session.row
      <4>1. x = [patch[p] EXCEPT !.at = "read", !.read = session.fields]
        BY <3>2
      <4> HIDE DEF x
      <4>2. QED
        BY <2>0, <3>1, <4>1, PatchMoves
    <3>3. CASE ~session.row
      <4>1. x = [patch[p] EXCEPT !.at = "failed"]
        BY <3>3
      <4> HIDE DEF x
      <4>2. QED
        BY <3>1, <4>1, PatchMoves
    <3>4. QED
      BY <3>2, <3>3
  <2>c. /\ patch' \in [Patches -> [at: {"idle", "read", "done", "failed"},
                                   read: SUBSET Patches, missed: SUBSET Patches]]
        /\ patch'[p] = x /\ \A q \in Patches \ {p} : patch'[q] = patch[q]
    <3> HIDE DEF x
    <3>1. QED
      BY <2>0, <2>a, <2>b
  <2>1. /\ patch[p].at = "idle" /\ session' = session
        /\ patch'[p] = IF session.row THEN [patch[p] EXCEPT !.at = "read", !.read = session.fields]
                       ELSE [patch[p] EXCEPT !.at = "failed"]
        /\ \A q \in Patches \ {p} : patch'[q] = patch[q]
        /\ patch' \in [Patches -> [at: {"idle", "read", "done", "failed"},
                                   read: SUBSET Patches, missed: SUBSET Patches]]
    BY <2>a, <2>c
  <2> HIDE DEF x
  <2>2. TypeOK'
    BY <1>3, <2>1 DEF TypeOK
  <2>3. \A q \in Patches : /\ patch'[q].at = "done" <=> patch[q].at = "done"
                           /\ patch'[q].missed = patch[q].missed
    <3>1. patch[p] \in [at: {"idle", "read", "done", "failed"},
                        read: SUBSET Patches, missed: SUBSET Patches]
      BY DEF TypeOK
    <3>2. /\ patch'[p].at # "done" /\ patch[p].at # "done"
          /\ patch'[p].missed = patch[p].missed
      BY <2>1, <3>1
    <3>3. QED
      BY <2>1, <3>2
  <2>4. PatchesKept'
    BY <2>1, <2>3 DEF PatchesKept
  <2>5. PatchesSound'
    <3> SUFFICES ASSUME NEW u \in Patches, NEW q \in Patches,
                        patch'[u].at = "done", patch'[q].at = "read", session'.row
                 PROVE  \/ u \in patch'[q].read \cup patch'[q].missed
                        \/ \E w \in Patches : patch'[w].at = "done" /\ u \in patch'[w].missed
      BY DEF PatchesSound
    <3>1. CASE q = p
      BY <2>1, <2>3, <3>1 DEF PatchesKept, TypeOK
    <3>2. CASE q # p
      BY <2>1, <2>3, <3>2 DEF PatchesSound
    <3>3. QED
      BY <3>1, <3>2
  <2>6. QED
    BY <1>2, <2>2, <2>4, <2>5
<1>6. ASSUME NEW p \in Patches, PatchWrite(p) PROVE IInv'
  <2>0. PICK step \in {"done", "failed"} :
          patch' = Told(p, step) /\ step = IF session.row THEN "done" ELSE "failed"
    BY <1>6 DEF PatchWrite
  <2>1. /\ patch' \in [Patches -> [at: {"idle", "read", "done", "failed"},
                                   read: SUBSET Patches, missed: SUBSET Patches]]
        /\ patch[p].at = "read"
        /\ patch'[p].at = step /\ patch'[p].missed = patch[p].missed
        /\ \A q \in Patches \ {p} :
             /\ patch'[q].at = patch[q].at /\ patch'[q].read = patch[q].read
             /\ patch'[q].missed = IF patch[q].at = "read" /\ step = "done"
                                   THEN patch[q].missed \cup {p} ELSE patch[q].missed
    <3> DEFINE new(q) == IF q = p THEN [patch[p] EXCEPT !.at = step, !.read = {}]
                         ELSE IF patch[q].at = "read" /\ step = "done"
                              THEN [patch[q] EXCEPT !.missed = @ \cup {p}]
                         ELSE patch[q]
    <3>1. patch' = [q \in Patches |-> new(q)]
      BY <2>0 DEF Told
    <3>2. ASSUME NEW q \in Patches
          PROVE  new(q) \in [at: {"idle", "read", "done", "failed"},
                             read: SUBSET Patches, missed: SUBSET Patches]
      <4>1. patch[q] \in [at: {"idle", "read", "done", "failed"},
                          read: SUBSET Patches, missed: SUBSET Patches]
            /\ patch[p] \in [at: {"idle", "read", "done", "failed"},
                             read: SUBSET Patches, missed: SUBSET Patches]
        BY DEF TypeOK
      <4>2. QED
        BY <4>1
    <3>3. new(p).at = step /\ new(p).missed = patch[p].missed /\ patch[p].at = "read"
      BY <1>6 DEF PatchWrite, TypeOK
    <3>4. ASSUME NEW q \in Patches \ {p}
          PROVE  /\ new(q).at = patch[q].at /\ new(q).read = patch[q].read
                 /\ new(q).missed = IF patch[q].at = "read" /\ step = "done"
                                    THEN patch[q].missed \cup {p} ELSE patch[q].missed
      <4>1. patch[q] \in [at: {"idle", "read", "done", "failed"},
                          read: SUBSET Patches, missed: SUBSET Patches]
        BY DEF TypeOK
      <4>2. QED
        BY <4>1
    <3> HIDE DEF new
    <3>5. QED
      BY <3>1, <3>2, <3>3, <3>4
  <2>2. session' = IF session.row THEN [session EXCEPT !.fields = patch[p].read \cup {p}] ELSE session
    BY <1>6 DEF PatchWrite, Merged
  <2>3. TypeOK'
    BY <1>3, <2>1, <2>2 DEF TypeOK
  <2>4. CASE ~session.row
    BY <1>2, <2>2, <2>3, <2>4 DEF PatchesSound, PatchesKept
  <2>5. CASE session.row
    <3>1. session'.row /\ session'.fields = patch[p].read \cup {p}
      BY <2>2, <2>5 DEF TypeOK
    <3>2. \A q \in Patches : patch'[q].at = "done" <=> patch[q].at = "done" \/ q = p
      BY <2>0, <2>1, <2>5
    <3>3. \A q, u \in Patches : u \in patch[q].missed => u \in patch'[q].missed
      BY <2>1
    <3>4. PatchesKept'
      BY <2>1, <2>5, <3>1, <3>2, <3>3 DEF PatchesSound, PatchesKept
    <3>5. ASSUME NEW u \in Patches, NEW q \in Patches, patch'[u].at = "done", patch'[q].at = "read"
          PROVE  \/ u \in patch'[q].read \cup patch'[q].missed
                 \/ \E w \in Patches : patch'[w].at = "done" /\ u \in patch'[w].missed
      <4>1. q # p /\ patch[q].at = "read" /\ patch'[q].read = patch[q].read /\ step = "done"
        BY <2>0, <2>1, <2>5, <3>5
      <4>2. CASE u = p
        BY <2>1, <4>1, <4>2
      <4>3. CASE u # p
        <5>1. \/ u \in patch[q].read \cup patch[q].missed
              \/ \E w \in Patches : patch[w].at = "done" /\ u \in patch[w].missed
          BY <2>5, <3>2, <3>5, <4>1, <4>3 DEF PatchesSound
        <5>2. QED
          BY <3>2, <3>3, <4>1, <5>1
      <4>4. QED
        BY <4>2, <4>3
    <3>6. QED
      BY <1>2, <2>3, <3>4, <3>5 DEF PatchesSound
  <2>6. QED
    BY <2>4, <2>5
<1>7. QED
  BY <1>4, <1>5, <1>6

-----------------------------------------------------------------------------
(* Reading in pages.                                                       *)

\* A page that is not empty has a last row: else there would be a smallest set
\* of rows without one, and it would have one when a row is put back.
LEMMA LastExists ==
    ASSUME TypeOK, NEW P \in SUBSET There, P # {}
    PROVE  LastOf(P) \in P /\ \A j \in P : ~Before(LastOf(P), j)
<1> DEFINE Final(i, Q) == \A j \in Q : ~Before(i, j)
           Lacking == {Q \in SUBSET Items : Q \subseteq There /\ Q # {} /\ \A i \in Q : ~Final(i, Q)}
<1>1. \A i, j, k \in There : /\ ~Before(i, i)
                             /\ ~Before(i, j) /\ ~Before(j, k) => ~Before(i, k)
                             /\ ~Before(i, j) \/ ~Before(j, i)
  <2>1. \A i \in There : table[i] \in Nat
    BY RegistryAssumption DEF TypeOK, There
  <2>2. QED
    BY <2>1 DEF Before
<1>2. Lacking = {}
  <2>1. SUFFICES ASSUME Lacking # {} PROVE FALSE
    OBVIOUS
  <2>2. IsWellFoundedOn(StrictSubsetOrdering(Items), SUBSET Items)
    BY RegistryAssumption, FS_StrictSubsetOrderingWellFounded, FS_FiniteSubsetsOfFinite
  <2>3. PICK Q \in Lacking : \A U \in Lacking : <<U, Q>> \notin StrictSubsetOrdering(Items)
    BY <2>1, <2>2, WFMin
  <2>4. PICK i \in Q : TRUE
    BY <2>3
  <2>5. Q \ {i} \notin Lacking
    BY <2>3, <2>4 DEF StrictSubsetOrdering
  <2>6. CASE Q \ {i} = {}
    BY <1>1, <2>3, <2>4, <2>6
  <2>7. CASE Q \ {i} # {}
    <3>1. PICK j \in Q \ {i} : Final(j, Q \ {i})
      BY <2>3, <2>5, <2>7
    <3>2. Q \subseteq There /\ i \in Q /\ j \in Q
      BY <2>3, <2>4, <3>1
    <3>3. Final(i, Q) \/ Final(j, Q)
      BY <1>1, <3>1, <3>2
    <3>4. QED
      BY <2>3, <3>2, <3>3
  <2>8. QED
    BY <2>6, <2>7
<1>3. \E i \in P : \A j \in P : ~Before(i, j)
  <2>1. P \notin Lacking /\ P \in SUBSET Items
    BY <1>2 DEF There
  <2>2. QED
    BY <2>1
<1>4. QED
  BY <1>3 DEF LastOf

\* The rows behind the cursor of the next page are received or excused.
LEMMA PageKeeps ==
    ASSUME IInv, NEW list, Reading(list), NEW P \in PagesOf(Ahead),
           NEW step \in {"reading", "over"}, Received(P, step),
           step = "over" => P = Ahead
    PROVE  IInv'
<1> USE DEF IInv
<1>1. UNCHANGED <<now, actors, alias, cache, op, session, patch, table, Rows, Ids, There>>
  BY DEF Reading, registry, sessions, Rows, Ids, There
<1>2. P \subseteq Ahead /\ Ahead \subseteq There /\ There \subseteq Items
  BY DEF PagesOf, Ahead, There
<1>3. OpsSound' /\ AliasGivenOnce' /\ PatchesSound' /\ PatchesKept' /\ (actors \in Seq(Row))'
  BY <1>1 DEF OpsSound, AliasGivenOnce, Acted, OwnerOf, PatchesSound, PatchesKept
<1>4. ASSUME reader' \in Reader PROVE TypeOK'
  BY <1>1, <1>4 DEF TypeOK, Ids
<1>5. reader \in Reader /\ reader.at = "reading" /\ table \in [Items -> Nat]
  <2>1. reader \in Reader /\ reader.at = "reading"
    BY DEF TypeOK, Reading
  <2>2. table \in [Items -> Stamps \cup {0}] /\ Stamps \cup {0} \subseteq Nat
    BY RegistryAssumption DEF TypeOK
  <2>3. QED
    BY <2>1, <2>2
<1>6. CASE P = {}
  <2>1. reader' = [reader EXCEPT !.at = step]
    BY <1>6 DEF Received
  <2>2. reader' \in Reader /\ reader'.at = step /\ reader'.cursor = reader.cursor
        /\ reader'.seen = reader.seen /\ reader'.excused = reader.excused
        /\ reader'.lists = reader.lists
    BY <1>5, <2>1 DEF Reader
  <2>3. Ahead' = Ahead
    BY <1>1, <2>2 DEF Ahead, Beyond
  <2>4. NothingPassedOver'
    BY <1>1, <1>5, <1>6, <2>2, <2>3 DEF NothingPassedOver
  <2>5. QED
    BY <1>3, <1>4, <2>2, <2>4
<1>7. CASE P # {}
  <2> DEFINE e == LastOf(P)
  <2>1. e \in P /\ e \in Ahead /\ e \in There /\ \A j \in P : ~Before(e, j)
    BY <1>2, <1>7, LastExists
  <2>2. reader' = [reader EXCEPT !.at = step, !.cursor = table[e], !.seen = @ \cup P,
                      !.excused = @ \cup {i \in There : table[i] = table[e]}]
    BY <1>7 DEF Received
  <2> HIDE DEF e
  <2>3. /\ reader'.at = step /\ reader'.cursor = table[e] /\ reader'.lists = reader.lists
        /\ reader'.seen = reader.seen \cup P
        /\ reader'.excused = reader.excused \cup {i \in There : table[i] = table[e]}
        /\ reader' \in Reader
    BY <1>2, <1>5, <2>1, <2>2 DEF Reader
  <2>4. NothingPassedOver'
    <3> SUFFICES ASSUME NEW i \in There
                 PROVE  i \in reader'.seen \cup reader'.excused \/ (step = "reading" /\ i \in Ahead')
      BY <1>1, <2>3 DEF NothingPassedOver
    <3>1. CASE i \notin Ahead
      BY <2>3, <3>1 DEF NothingPassedOver
    <3>2. CASE i \in P
      BY <2>3, <3>2
    <3>3. CASE i \in Ahead /\ i \notin P
      <4>1. step = "reading"
        BY <3>3
      <4>2. ~Before(i, e)
        BY <2>1, <3>3 DEF PagesOf
      <4>3. table[i] \in Nat /\ table[e] \in Nat
        BY <1>2, <1>5, <2>1
      <4>4. CASE table[i] = table[e]
        BY <2>3, <4>4
      <4>5. CASE table[i] # table[e]
        <5>1. i \in Ahead'
          BY <1>1, <2>3, <4>2, <4>3, <4>5 DEF Before, Ahead, Beyond
        <5>2. QED
          BY <4>1, <5>1
      <4>6. QED
        BY <4>4, <4>5
    <3>4. QED
      BY <3>1, <3>2, <3>3
  <2>5. QED
    BY <1>3, <1>4, <2>3, <2>4
<1>8. QED
  BY <1>6, <1>7

LEMMA ListingKeeps ==
    ASSUME IInv,
           \/ ReadEvents \/ ReadHistory \/ ReadChannels
           \/ \E i \in Items : Appear(i) \/ Vanish(i)
    PROVE  IInv'
<1> USE DEF IInv
<1>1. IsFiniteSet(Ahead)
  <2>1. Ahead \subseteq Items
    BY DEF Ahead, There
  <2>2. QED
    BY <2>1, RegistryAssumption, FS_Subset
<1>2. ASSUME NEW P \in PagesOf(Ahead), Cardinality(P) < PageSize PROVE P = Ahead
  <2>1. P \subseteq Ahead /\ Cardinality(P) = Cardinality(Ahead)
    BY <1>2, <1>1, FS_CardinalityType, RegistryAssumption DEF PagesOf
  <2>2. QED
    BY <1>1, <2>1, FS_Subset
<1>3. CASE ReadEvents
  BY <1>3, PageKeeps DEF ReadEvents
<1>4. CASE ReadHistory
  <2>1. PICK P \in PagesOf(Ahead) : Received(P, IF P = {} THEN "over" ELSE "reading")
    BY <1>4 DEF ReadHistory
  <2>2. P = {} => P = Ahead
    BY <1>2, FS_EmptySet, RegistryAssumption
  <2>3. QED
    BY <1>4, <2>1, <2>2, PageKeeps DEF ReadHistory
<1>5. CASE ReadChannels
  <2>1. PICK P \in PagesOf(Ahead) :
          Received(P, IF Cardinality(P) < PageSize THEN "over" ELSE "reading")
    BY <1>5 DEF ReadChannels
  <2>2. Cardinality(P) < PageSize => P = Ahead
    BY <1>2
  <2>3. QED
    BY <1>5, <2>1, <2>2, PageKeeps DEF ReadChannels
<1>6. ASSUME NEW i \in Items, Appear(i) \/ Vanish(i) PROVE IInv'
  <2>1. UNCHANGED <<now, actors, alias, cache, op, session, patch, Rows, Ids>>
    BY <1>6 DEF Appear, Vanish, registry, sessions, Rows, Ids
  <2>2. OpsSound' /\ AliasGivenOnce' /\ PatchesSound' /\ PatchesKept' /\ (actors \in Seq(Row))'
    BY <2>1 DEF OpsSound, AliasGivenOnce, Acted, OwnerOf, PatchesSound, PatchesKept
  <2>3. table' \in [Items -> Stamps \cup {0}] /\ reader' \in Reader
    <3>1. CASE Appear(i)
      <4>1. PICK stamp \in Stamps :
              /\ table' = [table EXCEPT ![i] = stamp]
              /\ reader' = IF Beyond(stamp) THEN reader
                          ELSE [reader EXCEPT !.excused = @ \cup {i}]
        BY <3>1 DEF Appear
      <4>2. table \in [Items -> Stamps \cup {0}] /\ reader \in Reader
        BY DEF TypeOK
      <4>3. table' \in [Items -> Stamps \cup {0}]
        BY <4>1, <4>2
      <4>4. [reader EXCEPT !.excused = @ \cup {i}] \in Reader
        BY <4>2 DEF Reader
      <4>5. QED
        BY <4>1, <4>2, <4>3, <4>4
    <3>2. CASE Vanish(i)
      BY <3>2 DEF Vanish, TypeOK
    <3>3. QED
      BY <1>6, <3>1, <3>2
  <2>4. TypeOK'
    BY <2>1, <2>3 DEF TypeOK, Ids
  <2>5. /\ reader'.at = reader.at /\ reader'.cursor = reader.cursor /\ reader'.lists = reader.lists
        /\ reader'.seen = reader.seen /\ reader.excused \subseteq reader'.excused
        /\ reader.at = "reading"
        /\ \A j \in Items \ {i} : table'[j] = table[j]
        /\ table'[i] = 0 \/ Beyond(table'[i]) \/ i \in reader'.excused
    BY <1>6 DEF Appear, Vanish, TypeOK, Reader
  <2>6. NothingPassedOver'
    BY <2>5 DEF NothingPassedOver, Ahead, Beyond, There
  <2>7. QED
    BY <2>2, <2>4, <2>6
<1>7. QED
  BY <1>3, <1>4, <1>5, <1>6

-----------------------------------------------------------------------------
(* One actor of a name.                                                    *)

\* The order of the requests: what was over when one began had ended by then,
\* and a row bears the moment at which the request that made it began.
Ordered ==
    /\ \A q \in Ops :
         /\ op[q].began <= now /\ op[q].ended <= now
         /\ op[q].at = "creating" => op[q].stamp = op[q].began
         /\ \A o \in op[q].before : op[o].at = "over" /\ op[o].ended <= op[q].began
    /\ \A r \in Rows : r.at = op[r.id].began

\* Who acts by a name acts as the oldest actor that had it for certain.
Oldest(o, b) ==
    /\ b \in ByName(o) /\ b.id = op[o].actor /\ b.at <= op[o].ended
    /\ \A r \in ByName(o) : r.id \in op[o].before => b.at <= r.at

SameUse(o, q) ==
    /\ Acted(o, "use") /\ op[o].ident \in Names
    /\ OwnerOf(o) = OwnerOf(q) /\ op[o].ident = op[q].ident

\* Who is about to create an actor by a name follows nobody who acted by it.
NamesHeld ==
    \A q \in Ops :
        /\ Acted(q, "use") /\ op[q].ident \in Names
             => alias[op[q].ident] = op[q].actor \/ \E b \in Rows : Oldest(q, b)
        /\ op[q].at = "creating" /\ op[q].kind = "use" =>
             /\ \A r \in ByName(q) : r.id \notin op[q].before
             /\ \A o \in op[q].before : ~SameUse(o, q)

Answered(o) == Acted(o, "create") /\ op[o].actor = o

\* What is cached is the newest answer, and outlives every answer's time; who
\* creates an actor began when the answers it follows had expired; who did not
\* was given one that had begun before it.
CacheSound ==
    /\ \A s \in Keys \X Names :
         cache[s].actor # None => Answered(cache[s].actor) /\ Slot(cache[s].actor) = s
    /\ \A o \in Ops : Answered(o) => op[o].ended + Ttl <= cache[Slot(o)].until
    /\ \A o, q \in Ops :
         /\ Answered(o) /\ o \in op[q].before /\ Slot(o) = Slot(q) /\ op[q].kind = "create"
         /\ op[q].at \in {"creating", "created"} \/ Answered(q)
         => op[o].ended + Ttl <= op[q].began
    /\ \A q \in Ops :
         Acted(q, "create") /\ op[q].actor # q =>
           /\ Answered(op[q].actor) /\ Slot(op[q].actor) = Slot(q)
           /\ op[op[q].actor].began <= op[q].began

AgreeInv == Ordered /\ NamesHeld /\ SameName /\ CacheSound

\* What one step of a request may do to the requests, the rows and the aliases.
LEMMA Frame ==
    ASSUME IInv, NEW o \in Ops, Handle(o)
    PROVE  /\ now' = now /\ \A q \in Ops \ {o} : op'[q] = op[q]
           /\ op[o].at # "over"
           /\ op'[o].kind = op[o].kind /\ op'[o].key = op[o].key /\ op'[o].ident = op[o].ident
           /\ IF op[o].at = "idle"
              THEN op'[o].before = {q \in Ops : op[q].at = "over"} /\ op'[o].began = now
              ELSE op'[o].before = op[o].before /\ op'[o].began = op[o].began
           /\ op'[o].ended = IF op'[o].at = "over" THEN now ELSE op[o].ended
           /\ op'[o].at = "creating" => op'[o].stamp = now /\ op[o].at = "idle"
           /\ Rows \subseteq Rows'
           /\ \A r \in Rows' \ Rows : /\ r.id = o /\ op[o].at = "creating"
                                      /\ r.at = op[o].stamp
           /\ \A n \in Names : alias[n] # None => alias'[n] = alias[n]
<1> USE DEF IInv
<1>0. op \in [Ops -> Op] /\ op[o] \in Op
  BY DEF TypeOK
<1>1. /\ Begun(o).kind = op[o].kind /\ Begun(o).key = op[o].key /\ Begun(o).ident = op[o].ident
      /\ Begun(o).before = {q \in Ops : op[q].at = "over"} /\ Begun(o).began = now
      /\ Begun(o).ended = op[o].ended /\ Begun(o).at = op[o].at
      /\ Begun(o) \in Op
  BY <1>0, BegunType DEF Begun, Op
<1>2. ASSUME NEW x, op' = [op EXCEPT ![o] = x]
      PROVE  op'[o] = x /\ \A q \in Ops \ {o} : op'[q] = op[q]
  BY <1>0, <1>2
<1>3. ASSUME NEW q \in Op, NEW a
      PROVE  /\ Over(q, a).kind = q.kind /\ Over(q, a).key = q.key /\ Over(q, a).ident = q.ident
             /\ Over(q, a).before = q.before /\ Over(q, a).began = q.began
             /\ Over(q, a).at = "over" /\ Over(q, a).ended = now
  BY <1>3 DEF Over, Op
<1> DEFINE Still == UNCHANGED <<actors, alias>>
           Moved(x) == /\ op' = [op EXCEPT ![o] = x]
                       /\ x.kind = op[o].kind /\ x.key = op[o].key /\ x.ident = op[o].ident
                       /\ IF op[o].at = "idle"
                          THEN x.before = {q \in Ops : op[q].at = "over"} /\ x.began = now
                          ELSE x.before = op[o].before /\ x.began = op[o].began
                       /\ x.ended = IF x.at = "over" THEN now ELSE op[o].ended
                       /\ x.at = "creating" => x.stamp = now /\ op[o].at = "idle"
<1>4. ASSUME op[o].at # "over", now' = now, Rows \subseteq Rows', NEW x, Moved(x),
             \A r \in Rows' \ Rows : r.id = o /\ op[o].at = "creating" /\ r.at = op[o].stamp,
             \A n \in Names : alias[n] # None => alias'[n] = alias[n]
      PROVE  /\ now' = now /\ \A q \in Ops \ {o} : op'[q] = op[q]
             /\ op[o].at # "over"
             /\ op'[o].kind = op[o].kind /\ op'[o].key = op[o].key /\ op'[o].ident = op[o].ident
             /\ IF op[o].at = "idle"
                THEN op'[o].before = {q \in Ops : op[q].at = "over"} /\ op'[o].began = now
                ELSE op'[o].before = op[o].before /\ op'[o].began = op[o].began
             /\ op'[o].ended = IF op'[o].at = "over" THEN now ELSE op[o].ended
             /\ op'[o].at = "creating" => op'[o].stamp = now /\ op[o].at = "idle"
             /\ Rows \subseteq Rows'
             /\ \A r \in Rows' \ Rows : r.id = o /\ op[o].at = "creating" /\ r.at = op[o].stamp
             /\ \A n \in Names : alias[n] # None => alias'[n] = alias[n]
  <2>1. op'[o] = x /\ \A q \in Ops \ {o} : op'[q] = op[q]
    BY <1>2, <1>4
  <2>2. QED
    BY <1>4, <2>1
<1>5. Still => Rows' = Rows /\ alias' = alias
  BY DEF Rows
<1>6. ASSUME NEW a PROVE  /\ op[o].at = "idle" /\ op' = [op EXCEPT ![o] = Over(Begun(o), a)]
                               => Moved(Over(Begun(o), a))
                          /\ op[o].at # "idle" /\ op' = [op EXCEPT ![o] = Over(op[o], a)]
                               => Moved(Over(op[o], a))
  BY <1>0, <1>1, <1>3
<1>7. op[o].at = "idle" /\ Creating(o) => Moved([Begun(o) EXCEPT !.at = "creating", !.stamp = now])
  BY <1>0, <1>1 DEF Creating, Op
<1>8. ASSUME NEW a, op[o].at = "idle",
             op' = [op EXCEPT ![o] = [Begun(o) EXCEPT !.at = "naming", !.actor = a]]
      PROVE  Moved([Begun(o) EXCEPT !.at = "naming", !.actor = a])
  BY <1>0, <1>1, <1>8 DEF Op
<1>9. op[o].at = "creating" /\ op' = [op EXCEPT ![o] = [op[o] EXCEPT !.at = "created"]]
        => Moved([op[o] EXCEPT !.at = "created"])
  BY <1>0 DEF Op
<1>10. ASSUME Appended(o), op[o].at = "creating"
       PROVE  /\ Rows \subseteq Rows'
              /\ \A r \in Rows' \ Rows : r.id = o /\ op[o].at = "creating" /\ r.at = op[o].stamp
  <2> DEFINE row == [id |-> o, owner |-> OwnerOf(o), name |-> op[o].ident, at |-> op[o].stamp]
  <2>1. actors \in Seq(Row) /\ row \in Row
    BY <1>0, RegistryAssumption DEF Row, Op, OwnerOf
  <2>2. actors' = Append(actors, row)
    BY <1>10 DEF Appended
  <2>3. row.id = o /\ row.at = op[o].stamp
    OBVIOUS
  <2> HIDE DEF row
  <2>4. DOMAIN actors' = DOMAIN actors \cup {Len(actors) + 1}
        /\ actors'[Len(actors) + 1] = row
        /\ \A i \in DOMAIN actors : actors'[i] = actors[i]
    BY <2>1, <2>2
  <2>5. Rows' = Rows \cup {row}
    BY <2>4 DEF Rows, ToSet
  <2>6. QED
    BY <1>10, <2>3, <2>5
<1> HIDE DEF Moved, Still
<1>11. ASSUME op[o].at = "idle", Still, now' = now,
              \/ Creating(o)
              \/ \E a : op' = [op EXCEPT ![o] = Over(Begun(o), a)]
              \/ \E a : op' = [op EXCEPT ![o] = [Begun(o) EXCEPT !.at = "naming", !.actor = a]]
       PROVE  \E x : Moved(x)
  BY <1>6, <1>7, <1>8, <1>11
<1>12. CASE Resolve(o) \/ Ensure(o) \/ AliasRead(o)
  <2>1. op[o].at = "idle" /\ Still /\ now' = now
    BY <1>12 DEF Resolve, Ensure, AliasRead, Still, registry
  <2>2. \/ Creating(o)
        \/ \E a : op' = [op EXCEPT ![o] = Over(Begun(o), a)]
        \/ \E a : op' = [op EXCEPT ![o] = [Begun(o) EXCEPT !.at = "naming", !.actor = a]]
    <3>1. CASE Resolve(o)
      BY <3>1 DEF Resolve
    <3>2. CASE Ensure(o)
      BY <3>2 DEF Ensure
    <3>3. CASE AliasRead(o)
      <4>1. PICK r \in Rows :
              op' = [op EXCEPT ![o] = IF alias[op[o].ident] # None THEN Over(Begun(o), None)
                                      ELSE [Begun(o) EXCEPT !.at = "naming", !.actor = r.id]]
        BY <3>3 DEF AliasRead
      <4>2. CASE alias[op[o].ident] # None
        BY <4>1, <4>2
      <4>3. CASE alias[op[o].ident] = None
        BY <4>1, <4>3
      <4>4. QED
        BY <4>2, <4>3
    <3>4. QED
      BY <1>12, <3>1, <3>2, <3>3
  <2>3. PICK x : Moved(x)
    BY <1>11, <2>1, <2>2
  <2>4. QED
    BY <1>4, <1>5, <2>1, <2>3
<1>13. CASE Store(o) \/ Create(o)
  <2>1. op[o].at = "creating" /\ Appended(o) /\ now' = now /\ alias' = alias
    BY <1>13 DEF Store, Create
  <2>2. \E x : Moved(x)
    BY <1>6, <1>9, <1>13, <2>1 DEF Store, Create
  <2>3. PICK x : Moved(x)
    BY <2>2
  <2>4. QED
    BY <1>4, <1>10, <2>1, <2>3
<1>14. CASE Die(o) \/ Answer(o)
  <2>1. op[o].at \notin {"idle", "over"} /\ Still /\ now' = now
        /\ \E a : op' = [op EXCEPT ![o] = Over(op[o], a)]
    BY <1>14 DEF Die, Answer, registry, Still
  <2>2. PICK x : Moved(x)
    BY <1>6, <2>1
  <2>3. QED
    BY <1>4, <1>5, <2>1, <2>2
<1>15. CASE AliasWrite(o)
  <2>1. op[o].at = "naming" /\ now' = now /\ Rows' = Rows
        /\ \E a : op' = [op EXCEPT ![o] = Over(op[o], a)]
    BY <1>15 DEF AliasWrite, Rows
  <2>2. PICK x : Moved(x)
    BY <1>6, <2>1
  <2>3. \A n \in Names : alias[n] # None => alias'[n] = alias[n]
    BY <1>15 DEF AliasWrite, AliasFree, TypeOK
  <2>4. QED
    BY <1>4, <2>1, <2>2, <2>3
<1>16. QED
  BY <1>12, <1>13, <1>14, <1>15 DEF Handle

LEMMA OrderedKeeps ==
    ASSUME IInv, Ordered, NEW o \in Ops, Handle(o)
    PROVE  Ordered' /\ \A q \in Ops : o \notin op'[q].before
<1>1. /\ now' = now /\ \A q \in Ops \ {o} : op'[q] = op[q]
      /\ op[o].at # "over"
      /\ IF op[o].at = "idle"
         THEN op'[o].before = {q \in Ops : op[q].at = "over"} /\ op'[o].began = now
         ELSE op'[o].before = op[o].before /\ op'[o].began = op[o].began
      /\ op'[o].ended = IF op'[o].at = "over" THEN now ELSE op[o].ended
      /\ op'[o].at = "creating" => op'[o].stamp = now /\ op[o].at = "idle"
      /\ \A r \in Rows' \ Rows : r.id = o /\ op[o].at = "creating" /\ r.at = op[o].stamp
  BY Frame
<1>2. now \in Nat /\ \A q \in Ops : op[q] \in Op /\ op[q].before \in SUBSET Ops
  BY DEF IInv, TypeOK, Op
<1>3. \A q \in Ops : o \notin op'[q].before
  BY <1>1 DEF Ordered
<1>4. \A q \in Ops : op'[q].began <= now /\ op'[q].ended <= now
  BY <1>1, <1>2 DEF Ordered
<1>5. \A q \in Ops : op'[q].at = "creating" => op'[q].stamp = op'[q].began
  BY <1>1 DEF Ordered
<1>6. ASSUME NEW q \in Ops, NEW p \in op'[q].before
      PROVE  op'[p].at = "over" /\ op'[p].ended <= op'[q].began
  <2>1. p \in Ops \ {o} /\ op[p].at = "over" /\ op'[p] = op[p]
    BY <1>1, <1>2, <1>3, <1>6 DEF Ordered
  <2>2. op[p].ended <= op'[q].began
    BY <1>1, <1>2, <2>1 DEF Ordered
  <2>3. QED
    BY <2>1, <2>2
<1>7. ASSUME NEW r \in Rows' PROVE r.at = op'[r.id].began
  <2>1. CASE r \in Rows
    <3>1. r.id \in Ids /\ r.id \in Ops /\ op[r.id].at # "idle"
      BY <2>1 DEF IInv, TypeOK, OpsSound, Row, Ids
    <3>2. QED
      BY <1>1, <2>1, <3>1 DEF Ordered
  <2>2. CASE r \notin Rows
    BY <1>1, <2>2 DEF Ordered
  <2>3. QED
    BY <2>1, <2>2
<1>8. QED
  BY <1>1, <1>3, <1>4, <1>5, <1>6, <1>7 DEF Ordered

\* What a request that acts by a name is answered, or that it prepares a row.
LEMMA ResolveOutcome ==
    ASSUME IInv, NEW o \in Ops, Resolve(o)
    PROVE  /\ op'[o].at = "over" /\ op'[o].actor # None /\ op[o].ident \in Names =>
                \/ alias[op[o].ident] = op'[o].actor
                \/ /\ alias[op[o].ident] = None
                   /\ \E b \in First(ByName(o)) : b.id = op'[o].actor
           /\ op'[o].at = "creating" =>
                /\ ByName(o) = {}
                /\ op[o].ident \in Names => alias[op[o].ident] = None
           /\ op'[o].at \in {"creating", "over"}
<1> USE DEF IInv
<1>0. op \in [Ops -> Op] /\ op[o] \in Op
  BY DEF TypeOK
<1>1. /\ \A a \in Ops \cup {None} : /\ Over(Begun(o), a).at = "over"
                                    /\ Over(Begun(o), a).actor = a
      /\ [Begun(o) EXCEPT !.at = "creating", !.stamp = now].at = "creating"
  BY <1>0 DEF Begun, Over, Op
<1>2. ASSUME NEW x, op' = [op EXCEPT ![o] = x] PROVE op'[o] = x
  BY <1>0, <1>2
<1>3. \A r \in Rows : r.id \in Ops
  BY DEF TypeOK, Row
<1>4. ASSUME op[o].ident \in Names
      PROVE  ById(o) = {} /\ (ByAlias(o) = {} => alias[op[o].ident] = None)
  <2>1. alias[op[o].ident] \in Ids \cup {None}
    BY <1>4 DEF TypeOK, Ids
  <2>2. QED
    BY <1>3, <1>4, <2>1, RegistryAssumption DEF ById, ByAlias, Ids
<1>5. ASSUME NEW r \in ById(o) \cup ByAlias(o), NEW a \in {r.id, None},
             op' = [op EXCEPT ![o] = Over(Begun(o), a)]
      PROVE  /\ op'[o].at = "over"
             /\ op[o].ident \in Names /\ op'[o].actor # None => alias[op[o].ident] = op'[o].actor
  <2>1. a \in Ops \cup {None}
    BY <1>3 DEF ById, ByAlias
  <2>2. op'[o].at = "over" /\ op'[o].actor = a
    BY <1>1, <1>2, <1>5, <2>1
  <2>3. QED
    BY <1>4, <1>5, <2>2 DEF ByAlias
<1> DEFINE hit == IF ById(o) # {} THEN ById(o) ELSE ByAlias(o)
<1>6. CASE \E r \in hit : op' = [op EXCEPT ![o] = Over(Begun(o), IF MayActAs(o, r) THEN r.id ELSE None)]
  <2>1. PICK r \in hit : op' = [op EXCEPT ![o] = Over(Begun(o), IF MayActAs(o, r) THEN r.id ELSE None)]
    BY <1>6
  <2>2. r \in ById(o) \cup ByAlias(o)
    BY <2>1
  <2>3. PICK a \in {r.id, None} : op' = [op EXCEPT ![o] = Over(Begun(o), a)]
    <3>1. CASE MayActAs(o, r)
      BY <2>1, <3>1
    <3>2. CASE ~MayActAs(o, r)
      BY <2>1, <3>2
    <3>3. QED
      BY <3>1, <3>2
  <2>4. /\ op'[o].at = "over"
        /\ op[o].ident \in Names /\ op'[o].actor # None => alias[op[o].ident] = op'[o].actor
    BY <1>5, <2>2, <2>3
  <2>5. QED
    BY <2>4
<1>7. CASE hit = {} /\ \E r \in First(ByName(o)) : op' = [op EXCEPT ![o] = Over(Begun(o), r.id)]
  <2>1. PICK r \in First(ByName(o)) : op' = [op EXCEPT ![o] = Over(Begun(o), r.id)]
    BY <1>7
  <2>2. r.id \in Ops
    BY <1>3, <2>1 DEF First, ByName
  <2>3. op'[o].at = "over" /\ op'[o].actor = r.id
    BY <1>1, <1>2, <2>1, <2>2
  <2>4. QED
    BY <1>4, <1>7, <2>1, <2>3
<1>8. CASE hit = {} /\ ByName(o) = {} /\ Creating(o)
  <2>1. op'[o].at = "creating"
    BY <1>1, <1>2, <1>8 DEF Creating
  <2>2. QED
    BY <1>4, <1>8, <2>1
<1>9. QED
  BY <1>6, <1>7, <1>8 DEF Resolve

\* What a step of one request leaves of the others.
LEMMA OthersStay ==
    ASSUME IInv, IInv', Ordered, NEW o \in Ops, Handle(o)
    PROVE  /\ \A q \in Ops : OwnerOf(q)' = OwnerOf(q) /\ Slot(q)' = Slot(q)
           /\ \A q \in Ops \ {o} : \A kind \in Kinds : Acted(q, kind)' = Acted(q, kind)
           /\ \A q \in Ops : ByName(q) \subseteq ByName(q)'
           /\ \A q \in Ops : \A r \in ByName(q)' \ ByName(q) : r.id = o /\ op[o].at = "creating"
           /\ \A r \in Rows : RowOf(r.id) = r /\ RowOf(r.id)' = r
           /\ \A r \in Rows : op[r.id].at # "idle" /\ op'[r.id].before = op[r.id].before
<1>1. /\ \A q \in Ops \ {o} : op'[q] = op[q]
      /\ op'[o].kind = op[o].kind /\ op'[o].key = op[o].key /\ op'[o].ident = op[o].ident
      /\ op[o].at # "idle" => op'[o].before = op[o].before
      /\ Rows \subseteq Rows'
      /\ \A r \in Rows' \ Rows : r.id = o /\ op[o].at = "creating"
  BY Frame
<1>2. \A q \in Ops : OwnerOf(q)' = OwnerOf(q) /\ Slot(q)' = Slot(q)
  BY <1>1 DEF OwnerOf, Slot
<1>3. \A q \in Ops \ {o} : \A kind \in Kinds : Acted(q, kind)' = Acted(q, kind)
  BY <1>1 DEF Acted
<1>4. \A q \in Ops : /\ ByName(q) \subseteq ByName(q)'
                     /\ \A r \in ByName(q)' \ ByName(q) : r.id = o /\ op[o].at = "creating"
  BY <1>1, <1>2 DEF ByName
<1>5. ASSUME NEW r \in Rows PROVE RowOf(r.id) = r /\ RowOf(r.id)' = r
  <2>1. (\A s \in Rows : s.id = r.id => s = r) /\ (\A s \in Rows' : s.id = r.id => s = r)
    BY <1>1 DEF IInv, TypeOK
  <2>2. QED
    BY <1>1, <2>1 DEF RowOf
<1>6. ASSUME NEW r \in Rows PROVE op[r.id].at # "idle" /\ op'[r.id].before = op[r.id].before
  <2>1. r.id \in Ids /\ r.id \in Ops
    BY DEF Ids, IInv, TypeOK, Row
  <2>2. op[r.id].at # "idle"
    BY <2>1 DEF IInv, OpsSound
  <2>3. QED
    BY <1>1, <2>1, <2>2
<1>7. QED
  BY <1>2, <1>3, <1>4, <1>5, <1>6

\* Two that ask for one name: an actor that is older than the one that was used
\* was being created next to its first use.
LEMMA OlderIsNew ==
    ASSUME IInv, Ordered, NEW p \in Ops, op[p].at = "over", NEW b \in Rows, Oldest(p, b),
           NEW a \in ByName(p), a.at < b.at
    PROVE  Overlapped(p, a.id)
<1>1. a.id \in Ops /\ a.at = op[a.id].began /\ a.at \in Nat /\ b.at \in Nat
      /\ op[p].ended \in Nat
  BY DEF ByName, Ordered, IInv, TypeOK, Row, Op
<1>2. b.at <= op[p].ended /\ ~(b.at <= a.at)
  BY <1>1 DEF Oldest
<1>3. a.id \notin op[p].before
  BY <1>2 DEF Oldest
<1>4. p \notin op[a.id].before
  BY <1>1, <1>2 DEF Ordered
<1>5. QED
  BY <1>3, <1>4 DEF Overlapped

LEMMA NamesKeep ==
    ASSUME IInv, IInv', Ordered, NamesHeld, SameName, NEW o \in Ops, Handle(o)
    PROVE  NamesHeld' /\ SameName'
<1> DEFINE NewRow(id) == CHOOSE s \in Rows' : s.id = id
           Apart(p, id) == p \notin op'[id].before /\ id \notin op'[p].before
<1>0. \A r \in Rows : NewRow(r.id) = r
  BY OthersStay DEF RowOf
<1> HIDE DEF NewRow
<1>1. /\ \A q \in Ops \ {o} : op'[q] = op[q]
      /\ op[o].at # "over" /\ now' = now
      /\ op'[o].kind = op[o].kind /\ op'[o].key = op[o].key /\ op'[o].ident = op[o].ident
      /\ op[o].at = "idle" => op'[o].before = {q \in Ops : op[q].at = "over"}
      /\ op[o].at # "idle" => op'[o].before = op[o].before /\ op'[o].began = op[o].began
      /\ op'[o].at = "over" => op'[o].ended = now
      /\ op'[o].at = "creating" => op[o].at = "idle"
      /\ Rows \subseteq Rows'
      /\ \A n \in Names : alias[n] # None => alias'[n] = alias[n]
  BY Frame
<1>2. /\ \A q \in Ops : OwnerOf(q)' = OwnerOf(q)
      /\ \A q \in Ops \ {o} : Acted(q, "use")' = Acted(q, "use")
      /\ \A q \in Ops : ByName(q) \subseteq ByName(q)'
      /\ \A q \in Ops : \A r \in ByName(q)' \ ByName(q) : r.id = o /\ op[o].at = "creating"
      /\ \A r \in Rows : RowOf(r.id) = r /\ RowOf(r.id)' = r
      /\ \A r \in Rows : op[r.id].at # "idle" /\ op'[r.id].before = op[r.id].before
  BY OthersStay DEF Kinds
<1>3. Ordered' /\ \A q \in Ops : o \notin op'[q].before
  BY OrderedKeeps
<1>4. \A q \in Ops : op[q].before \subseteq Ops /\ \A p \in op[q].before : op[p].at = "over"
  BY DEF IInv, TypeOK, Op, Ordered
<1>5. ASSUME NEW p \in Ops \ {o}, NEW b \in Rows, Oldest(p, b) PROVE Oldest(p, b)'
  <2>1. b \in ByName(p)' /\ b.id = op'[p].actor /\ b.at <= op'[p].ended
    BY <1>1, <1>2, <1>5 DEF Oldest
  <2>2. ASSUME NEW r \in ByName(p)', r.id \in op'[p].before PROVE b.at <= r.at
    BY <1>1, <1>2, <1>3, <1>5, <2>2 DEF Oldest
  <2>3. QED
    BY <2>1, <2>2 DEF Oldest
<1>6. \A p, q \in Ops : p # o => (SameUse(p, q)' <=> SameUse(p, q))
  BY <1>1, <1>2 DEF SameUse
<1>7. \A p \in Ops : Acted(p, "use") => op[p].actor \in Ids /\ op[p].actor # None
  BY DEF IInv, OpsSound, Acted, Ids
<1>8. ASSUME Acted(o, "use")' \/ (op'[o].at = "creating" /\ op'[o].kind = "use")
      PROVE  Resolve(o) \/ Store(o)
  <2>1. op[o].kind = "use" /\ op'[o].at \in {"creating", "over"}
    BY <1>1, <1>8 DEF Acted
  <2>2. op[o].at \notin {"created", "naming"}
    BY <2>1 DEF IInv, OpsSound
  <2>3. CASE Die(o)
    <3>1. op' = [op EXCEPT ![o] = Over(op[o], None)] /\ op[o].at # "idle"
      BY <2>3 DEF Die
    <3>2. op'[o].actor = None /\ op'[o].at = "over"
      BY <3>1 DEF Over, IInv, TypeOK, Op
    <3>3. QED
      BY <1>8, <3>2 DEF Acted
  <2>4. QED
    BY <2>1, <2>2, <2>3 DEF Handle, Ensure, Create, Answer, AliasRead, AliasWrite
\* Who has resolved its name follows the uses of that name it began after.
<1>9. ASSUME Resolve(o), NEW p \in op'[o].before, SameUse(p, o)
      PROVE  \/ alias[op[o].ident] = op[p].actor /\ op[p].actor # None
             \/ \E b \in ByName(o) : Oldest(p, b)
  <2>1. p \in Ops \ {o}
    BY <1>1, <1>3, <1>4
  <2>2. op[p].ident \in Names /\ Acted(p, "use") /\ ByName(p) = ByName(o)
    BY <1>9 DEF SameUse, ByName
  <2>3. QED
    BY <1>7, <1>9, <2>1, <2>2 DEF NamesHeld, Oldest, SameUse
<1>10. /\ Resolve(o) => op[o].at = "idle" /\ alias' = alias /\ Rows' = Rows
       /\ Store(o) => op[o].at = "creating" /\ op[o].kind = "use" /\ alias' = alias
                      /\ op'[o].actor = o /\ op'[o].at = "over"
  <2>1. ASSUME Store(o) PROVE op'[o].actor = o /\ op'[o].at = "over"
    <3>1. op' = [op EXCEPT ![o] = Over(op[o], o)]
      BY <2>1 DEF Store
    <3>2. QED
      BY <3>1 DEF Over, IInv, TypeOK, Op
  <2>2. QED
    BY <2>1 DEF Resolve, Store, registry, Rows
<1>11. /\ Resolve(o) /\ op'[o].at = "over" /\ op'[o].actor # None /\ op[o].ident \in Names =>
            \/ alias[op[o].ident] = op'[o].actor
            \/ /\ alias[op[o].ident] = None
               /\ \E b \in First(ByName(o)) : b.id = op'[o].actor
       /\ Resolve(o) /\ op'[o].at = "creating" =>
            ByName(o) = {} /\ (op[o].ident \in Names => alias[op[o].ident] = None)
  BY ResolveOutcome
<1>12. ASSUME NEW q \in Ops, Acted(q, "use")', op'[q].ident \in Names
       PROVE  alias'[op'[q].ident] = op'[q].actor \/ \E b \in Rows' : Oldest(q, b)'
  <2>1. CASE q # o
    BY <1>1, <1>2, <1>5, <1>7, <1>12, <2>1 DEF NamesHeld
  <2>2. CASE q = o /\ Resolve(o)
    <3>1. op'[o].at = "over" /\ op'[o].actor # None /\ op[o].ident \in Names
      BY <1>1, <1>12, <2>2 DEF Acted
    <3>2. CASE alias[op[o].ident] = op'[o].actor
      BY <1>1, <1>10, <2>2, <3>2
    <3>3. CASE \E b \in First(ByName(o)) : b.id = op'[o].actor
      <4>1. PICK b \in First(ByName(o)) : b.id = op'[o].actor
        BY <3>3
      <4>2. b \in ByName(o) /\ \A r \in ByName(o) : b.at <= r.at
        BY <4>1 DEF First
      <4>3. b \in Rows /\ b.at <= now
        <5>1. b \in Rows /\ b.id \in Ops
          BY <4>2 DEF ByName, IInv, TypeOK, Row
        <5>2. QED
          BY <5>1 DEF Ordered
      <4>4. ByName(o)' = ByName(o)
        BY <1>1, <1>2, <1>10, <2>2 DEF ByName
      <4>5. Oldest(o, b)'
        BY <1>1, <3>1, <4>1, <4>2, <4>3, <4>4 DEF Oldest
      <4>6. QED
        BY <1>1, <2>2, <4>3, <4>5
    <3>4. QED
      BY <1>11, <2>2, <3>1, <3>2, <3>3
  <2>3. CASE q = o /\ Store(o)
    <3>1. /\ op[o].at = "creating" /\ op[o].kind = "use" /\ op'[o].actor = o
          /\ op'[o].before = op[o].before /\ op'[o].began = op[o].began /\ op'[o].ended = now
      BY <1>1, <1>10, <2>3
    <3>2. PICK r \in Rows' : r.id = o /\ r.owner = OwnerOf(o) /\ r.name = op[o].ident
      <4> DEFINE row == [id |-> o, owner |-> OwnerOf(o), name |-> op[o].ident, at |-> op[o].stamp]
      <4>1. row.id = o /\ row.owner = OwnerOf(o) /\ row.name = op[o].ident
            /\ actors' = Append(actors, row) /\ actors \in Seq(Row) /\ op[o] \in Op
        BY <2>3 DEF Store, Appended, IInv, TypeOK
      <4>2. row \in Row
        BY <4>1, RegistryAssumption DEF Row, Op, OwnerOf
      <4> HIDE DEF row
      <4>3. Len(actors) + 1 \in DOMAIN actors' /\ actors'[Len(actors) + 1] = row
        BY <4>1, <4>2
      <4>4. row \in Rows'
        BY <4>3 DEF Rows, ToSet
      <4>5. QED
        BY <4>1, <4>4
    <3>3. r \in ByName(o)' /\ r.id = op'[o].actor
      BY <1>1, <1>2, <3>1, <3>2 DEF ByName
    <3>4. r.at <= op'[o].ended
      BY <1>1, <1>3, <3>1, <3>2 DEF Ordered
    <3>5. \A s \in ByName(o)' : s.id \notin op'[o].before
      BY <1>2, <1>3, <3>1 DEF NamesHeld
    <3>6. QED
      BY <2>3, <3>2, <3>3, <3>4, <3>5 DEF Oldest
  <2>4. q = o => Resolve(o) \/ Store(o)
    BY <1>8, <1>12 DEF Acted
  <2>5. QED
    BY <2>1, <2>2, <2>3, <2>4
<1>13. ASSUME NEW q \in Ops, op'[q].at = "creating", op'[q].kind = "use"
       PROVE  /\ \A r \in ByName(q)' : r.id \notin op'[q].before
              /\ \A p \in op'[q].before : ~SameUse(p, q)'
  <2>1. CASE q # o
    <3>1. op'[q] = op[q] /\ \A p \in op[q].before : p \in Ops /\ p # o
      BY <1>1, <1>3, <1>4, <2>1
    <3>2. QED
      BY <1>2, <1>3, <1>6, <1>13, <3>1 DEF NamesHeld
  <2>2. CASE q = o
    <3>1. Resolve(o)
      BY <1>1, <1>8, <1>10, <1>13, <2>2
    <3>2. ByName(o) = {} /\ (op[o].ident \in Names => alias[op[o].ident] = None)
      BY <1>11, <1>13, <2>2, <3>1
    <3>3. ByName(o)' = {}
      BY <1>1, <1>2, <1>10, <3>1, <3>2 DEF ByName
    <3>4. ASSUME NEW p \in op'[o].before, SameUse(p, o) PROVE FALSE
      <4>1. op[o].ident \in Names
        BY <3>4 DEF SameUse
      <4>2. QED
        BY <1>9, <3>1, <3>2, <3>4, <4>1
    <3>5. \A p \in op'[o].before : p \in Ops /\ p # o
      BY <1>1, <1>3, <1>4
    <3>6. QED
      BY <1>6, <2>2, <3>3, <3>4, <3>5
  <2>3. QED
    BY <2>1, <2>2
<1>14. NamesHeld'
  BY <1>12, <1>13 DEF NamesHeld
<1>15. ASSUME NEW p \in Ops, NEW q \in Ops, p \in op'[q].before,
              Acted(p, "use")', Acted(q, "use")',
              OwnerOf(p)' = OwnerOf(q)', op'[p].ident = op'[q].ident, op'[p].ident \in Names
       PROVE  \/ op'[q].actor = op'[p].actor
              \/ Apart(p, op'[q].actor)
              \/ alias'[op'[p].ident] = op'[q].actor
              \/ NewRow(op'[q].actor).at = NewRow(op'[p].actor).at
  <2>1. p # o /\ op'[p] = op[p] /\ Acted(p, "use") /\ SameUse(p, q)
    BY <1>1, <1>2, <1>3, <1>15 DEF SameUse
  <2>2. PICK b \in Rows : b.id = op[p].actor /\ NewRow(op[p].actor) = b /\ RowOf(op[p].actor) = b
    BY <1>2, <1>7, <1>0, <2>1 DEF Ids
  <2>3. ASSUME NEW a \in Rows, Overlapped(p, a.id) PROVE Apart(p, a.id)
    BY <1>2, <2>1, <2>3 DEF Overlapped
  <2>4. CASE q # o
    <3>1. Acted(q, "use") /\ op'[q] = op[q]
      BY <1>1, <1>2, <1>15, <2>4
    <3>2. PICK a \in Rows : a.id = op[q].actor /\ NewRow(op[q].actor) = a /\ RowOf(op[q].actor) = a
      BY <1>0, <1>2, <1>7, <3>1 DEF Ids
    <3>3. \/ op[q].actor = op[p].actor
          \/ Overlapped(p, op[q].actor)
          \/ alias[op[p].ident] = op[q].actor
          \/ RowOf(op[q].actor).at = RowOf(op[p].actor).at
      BY <1>2, <1>15, <2>1, <3>1 DEF SameName
    <3>4. alias[op[p].ident] = op[q].actor => alias'[op[p].ident] = op[q].actor
      BY <1>1, <1>7, <1>15, <2>1, <3>1
    <3>5. Overlapped(p, op[q].actor) => Apart(p, op[q].actor)
      BY <2>3, <3>1, <3>2
    <3>6. QED
      BY <2>1, <2>2, <3>1, <3>2, <3>3, <3>4, <3>5
  <2>5. CASE q = o /\ Store(o)
    BY <1>1, <1>10, <1>15, <2>1, <2>5 DEF NamesHeld
  <2>6. CASE q = o /\ Resolve(o)
    <3>1. op'[o].at = "over" /\ op'[o].actor # None /\ op[o].ident \in Names
      BY <1>1, <1>15, <2>6 DEF Acted
    <3>2. CASE alias[op[o].ident] = op'[o].actor
      BY <1>1, <1>10, <1>15, <2>6, <3>2
    <3>3. CASE alias[op[o].ident] = None /\ \E a \in First(ByName(o)) : a.id = op'[o].actor
      <4>1. PICK a \in First(ByName(o)) : a.id = op'[o].actor
        BY <3>3
      <4>2. PICK c \in ByName(o) : Oldest(p, c)
        BY <1>9, <1>15, <2>1, <2>6, <3>3
      <4>3. c = b
        BY <2>2, <4>2 DEF Oldest, ByName, IInv, TypeOK
      <4>4. a \in ByName(o) /\ a.at <= b.at /\ a \in Rows /\ a.at \in Nat /\ b.at \in Nat
        BY <4>1, <4>2, <4>3 DEF First, ByName, IInv, TypeOK, Row
      <4>5. ByName(p) = ByName(o)
        BY <2>1, <2>6 DEF SameUse, ByName
      <4>6. CASE a.at = b.at
        BY <1>0, <2>1, <2>2, <4>1, <4>4, <4>6, <2>6
      <4>7. CASE a.at < b.at
        <5>1. Overlapped(p, a.id)
          BY <2>1, <4>2, <4>3, <4>4, <4>5, <4>7, OlderIsNew DEF Acted
        <5>2. QED
          BY <2>3, <2>6, <4>1, <4>4, <5>1
      <4>8. QED
        BY <4>4, <4>6, <4>7
    <3>4. QED
      BY <1>11, <2>6, <3>1, <3>2, <3>3
  <2>7. q = o => Resolve(o) \/ Store(o)
    BY <1>8, <1>15 DEF Acted
  <2>8. QED
    BY <2>4, <2>5, <2>6, <2>7
<1>16. SameName'
  <2> USE DEF NewRow
  <2> QED BY <1>15 DEF SameName, RowOf, Overlapped
<1>17. QED
  BY <1>14, <1>16

LEMMA CacheKeeps ==
    ASSUME IInv, IInv', Ordered, CacheSound, NEW o \in Ops, Handle(o)
    PROVE  CacheSound'
<1>1. /\ \A q \in Ops \ {o} : op'[q] = op[q]
      /\ op[o].at # "over" /\ now' = now /\ now \in Nat /\ Ttl \in Nat
      /\ op'[o].kind = op[o].kind /\ op'[o].key = op[o].key /\ op'[o].ident = op[o].ident
      /\ op[o].at = "idle" => op'[o].before = {q \in Ops : op[q].at = "over"} /\ op'[o].began = now
      /\ op[o].at # "idle" => op'[o].before = op[o].before /\ op'[o].began = op[o].began
      /\ op'[o].at = "over" => op'[o].ended = now
      /\ op'[o].at = "creating" => op[o].at = "idle"
  BY Frame, RegistryAssumption DEF IInv, TypeOK
<1>2. \A q \in Ops : Slot(q)' = Slot(q)
  BY OthersStay
<1>3. \A q \in Ops : o \notin op'[q].before
  BY OrderedKeeps
<1>4. \A q \in Ops : /\ op[q].kind \in Kinds /\ op[q].began \in Nat /\ op[q].ended \in Nat
                     /\ op[q].began <= now /\ op[q].ended <= now
                     /\ op[q].kind = "create" => Slot(q) \in Keys \X Names
  BY DEF IInv, TypeOK, Op, Ordered, OpsSound, Slot
<1>5. \A s \in Keys \X Names : cache[s].until \in Nat
  BY DEF IInv, TypeOK
<1>6. ~Answered(o) /\ \A q \in Ops \ {o} : (Answered(q)' <=> Answered(q))
  BY <1>1 DEF Answered, Acted
<1>7. \A q \in Ops : Answered(q) => Slot(q) \in Keys \X Names
  BY <1>4 DEF Answered, Acted
<1>8. /\ op' \in [Ops -> Op] /\ op[o] \in Op /\ op \in [Ops -> Op]
      /\ cache \in [Keys \X Names -> [actor: Ops \cup {None}, until: Nat]]
  BY DEF IInv, TypeOK, Row
\* What a request to create an actor does in a step.
<1>9. ASSUME op[o].kind = "create"
      PROVE  \/ /\ Ensure(o) /\ Cached(o) /\ op'[o].at = "over"
                /\ op'[o].actor = cache[Slot(o)].actor
             \/ Ensure(o) /\ ~Cached(o) /\ op'[o].at = "creating"
             \/ op'[o].at = "created" /\ op[o].at = "creating" /\ cache' = cache
             \/ Answer(o) /\ op'[o].at = "over" /\ op'[o].actor = o
             \/ op'[o].at = "over" /\ op'[o].actor = None /\ cache' = cache
  <2>1. CASE Ensure(o) /\ Cached(o)
    <3>1. op' = [op EXCEPT ![o] = Over(Begun(o), cache[Slot(o)].actor)]
      BY <2>1 DEF Ensure
    <3>2. QED
      BY <1>8, <2>1, <3>1 DEF Over, Begun, Op
  <2>2. CASE Ensure(o) /\ ~Cached(o)
    <3>1. op' = [op EXCEPT ![o] = [Begun(o) EXCEPT !.at = "creating", !.stamp = now]]
      BY <2>2 DEF Ensure, Creating
    <3>2. QED
      BY <1>8, <2>2, <3>1 DEF Begun, Op
  <2>3. CASE Create(o)
    <3>1. op' = [op EXCEPT ![o] = [op[o] EXCEPT !.at = "created"]]
          /\ op[o].at = "creating" /\ cache' = cache
      BY <2>3 DEF Create
    <3>2. QED
      BY <1>8, <3>1 DEF Op
  <2>4. CASE Answer(o)
    <3>1. op' = [op EXCEPT ![o] = Over(op[o], o)]
      BY <2>4 DEF Answer
    <3>2. QED
      BY <1>8, <2>4, <3>1 DEF Over, Op
  <2>5. CASE Die(o)
    <3>1. op' = [op EXCEPT ![o] = Over(op[o], None)] /\ cache' = cache
      BY <2>5 DEF Die, registry
    <3>2. QED
      BY <1>8, <3>1 DEF Over, Op
  <2>6. ~Resolve(o) /\ ~Store(o) /\ ~AliasRead(o) /\ ~AliasWrite(o)
    BY <1>9 DEF Resolve, Store, AliasRead, AliasWrite, IInv, OpsSound
  <2>7. QED
    BY <2>1, <2>2, <2>3, <2>4, <2>5, <2>6 DEF Handle
<1>10. /\ Ensure(o) => op[o].at = "idle" /\ op[o].kind = "create" /\ cache' = cache
       /\ Answer(o) => /\ op[o].at = "created" /\ op[o].kind = "create"
                       /\ cache' = [cache EXCEPT ![Slot(o)] = [actor |-> o, until |-> now + Ttl]]
       /\ ~Answer(o) => cache' = cache
  BY DEF Handle, Resolve, Store, Die, Ensure, Create, Answer, AliasRead, AliasWrite, registry,
         IInv, OpsSound
<1>11. ASSUME Answered(o)' PROVE Answer(o)
  <2>1. op[o].kind = "create" /\ op'[o].at = "over" /\ op'[o].actor = o /\ o # None
    BY <1>1, <1>11, RegistryAssumption DEF Answered, Acted
  <2>2. ASSUME Ensure(o), op'[o].actor = cache[Slot(o)].actor PROVE FALSE
    BY <1>4, <1>6, <2>1, <2>2 DEF CacheSound
  <2>3. QED
    BY <1>9, <2>1, <2>2
<1>12. ASSUME Answer(o)
       PROVE  /\ cache'[Slot(o)] = [actor |-> o, until |-> now + Ttl] /\ Slot(o) \in Keys \X Names
              /\ \A s \in Keys \X Names : s # Slot(o) => cache'[s] = cache[s]
              /\ Answered(o)' /\ op'[o].ended = now
  <2>1. op'[o].at = "over" /\ op'[o].actor = o /\ op[o].kind = "create"
    <3>1. op' = [op EXCEPT ![o] = Over(op[o], o)]
      BY <1>12 DEF Answer
    <3>2. QED
      BY <1>8, <1>10, <1>12, <3>1 DEF Over, Op
  <2>2. o # None
    BY RegistryAssumption
  <2>3. QED
    BY <1>1, <1>4, <1>8, <1>10, <1>12, <2>1, <2>2 DEF Answered, Acted
<1>13. ASSUME NEW s \in Keys \X Names, cache'[s].actor # None
       PROVE  cache'[s].actor \in Ops /\ Answered(cache[s].actor)' /\ Slot(cache'[s].actor) = s
  <2>1. CASE Answer(o) /\ s = Slot(o)
    <3>1. cache'[s].actor = o
      BY <1>12, <2>1
    <3>2. QED
      BY <1>12, <2>1, <3>1 DEF Answered, Acted
  <2>2. CASE ~(Answer(o) /\ s = Slot(o))
    <3>1. cache'[s] = cache[s]
      BY <1>10, <1>12, <2>2
    <3>2. PICK c \in Ops : c = cache[s].actor /\ Answered(c) /\ Slot(c) = s
      BY <1>8, <1>13, <3>1 DEF CacheSound
    <3>3. Answered(c)'
      BY <1>6, <3>2
    <3>4. QED
      BY <3>1, <3>2, <3>3 DEF Answered, Acted
  <2>3. QED
    BY <2>1, <2>2
<1>14. ASSUME NEW p \in Ops, Answered(p)'
       PROVE  op'[p].ended + Ttl <= cache'[Slot(p)].until
  <2>1. CASE p = o
    BY <1>1, <1>11, <1>12, <1>14, <2>1
  <2>2. CASE p # o
    <3>1. Answered(p) /\ op'[p] = op[p] /\ Slot(p) \in Keys \X Names
          /\ op[p].ended + Ttl <= cache[Slot(p)].until
      BY <1>1, <1>6, <1>7, <1>14, <2>2 DEF CacheSound
    <3>2. CASE Answer(o) /\ Slot(p) = Slot(o)
      BY <1>1, <1>4, <1>12, <3>1, <3>2
    <3>3. CASE ~(Answer(o) /\ Slot(p) = Slot(o))
      BY <1>10, <1>12, <3>1, <3>3
    <3>4. QED
      BY <3>2, <3>3
  <2>3. QED
    BY <2>1, <2>2
<1>15. ASSUME NEW p \in Ops, NEW q \in Ops, Answered(p)', p \in op'[q].before, Slot(p) = Slot(q),
              op'[q].kind = "create", op'[q].at \in {"creating", "created"} \/ Answered(q)'
       PROVE  op'[p].ended + Ttl <= op'[q].began
  <2>1. p # o /\ Answered(p) /\ op'[p] = op[p]
    BY <1>1, <1>3, <1>6, <1>15
  <2>2. CASE q # o
    BY <1>1, <1>6, <1>15, <2>1, <2>2 DEF CacheSound
  <2>3. CASE q = o /\ op[o].at \in {"creating", "created"}
    BY <1>1, <1>15, <2>1, <2>3 DEF CacheSound
  <2>4. CASE q = o /\ op[o].at \notin {"creating", "created"}
    <3>1. ~Answer(o)
      BY <1>10, <2>4
    <3>2. Ensure(o) /\ ~Cached(o)
      BY <1>1, <1>9, <1>11, <1>15, <2>4, <3>1
    <3>3. op'[o].began = now /\ cache[Slot(o)].until <= now
      BY <1>1, <1>4, <1>5, <1>10, <3>2 DEF Cached
    <3>4. op[p].ended + Ttl <= cache[Slot(o)].until
      BY <1>15, <2>1, <2>4 DEF CacheSound
    <3>5. op[p].ended + Ttl \in Nat /\ cache[Slot(o)].until \in Nat
      BY <1>1, <1>4, <1>5, <1>10, <3>2
    <3>6. QED
      BY <1>1, <2>1, <2>4, <3>3, <3>4, <3>5
  <2>5. QED
    BY <2>2, <2>3, <2>4
<1>16. ASSUME NEW q \in Ops, Acted(q, "create")', op'[q].actor # q
       PROVE  \E c \in Ops : /\ c = op'[q].actor /\ Answered(c)' /\ Slot(c) = Slot(q)
                             /\ op'[c].began <= op'[q].began
  <2>1. CASE q # o
    <3>1. Acted(q, "create") /\ op'[q] = op[q] /\ op[q].actor # q
      BY <1>1, <1>16, <2>1 DEF Acted
    <3>2. PICK c \in Ops : c = op[q].actor
      BY <1>8, <3>1 DEF Acted, Op
    <3>3. Answered(c) /\ Slot(c) = Slot(q) /\ op[c].began <= op[q].began
      BY <3>1, <3>2 DEF CacheSound
    <3>4. c # o
      BY <1>6, <3>3
    <3>5. QED
      BY <1>1, <1>6, <3>1, <3>2, <3>3, <3>4
  <2>2. CASE q = o
    <3>1. op[o].kind = "create" /\ op'[o].at = "over" /\ op'[o].actor # None /\ op'[o].actor # o
      BY <1>1, <1>16, <2>2 DEF Acted
    <3>2. Ensure(o) /\ op'[o].actor = cache[Slot(o)].actor
      BY <1>9, <3>1
    <3>3. PICK c \in Ops : c = cache[Slot(o)].actor
      BY <1>4, <1>8, <3>1, <3>2
    <3>4. Answered(c) /\ Slot(c) = Slot(o) /\ c # o
      BY <1>4, <1>6, <3>1, <3>2, <3>3 DEF CacheSound
    <3>5. op'[c].began <= op'[o].began
      BY <1>1, <1>4, <1>10, <3>2, <3>4
    <3>6. QED
      BY <1>6, <2>2, <3>2, <3>3, <3>4, <3>5
  <2>3. QED
    BY <2>1, <2>2
<1>17. CacheSound'
  <2> DEFINE NewlyAnswered(q) == op'[q].at = "over" /\ op'[q].kind = "create" /\ op'[q].actor # None
                                 /\ op'[q].actor = q
             NewSlot(q) == <<op'[q].key, op'[q].ident>>
  <2>1. \A q \in Ops : (NewlyAnswered(q) <=> Answered(q)') /\ NewSlot(q) = Slot(q)
    BY <1>2 DEF Answered, Acted, Slot
  <2>2. \A s \in Keys \X Names : cache'[s].actor # None =>
          NewlyAnswered(cache'[s].actor) /\ NewSlot(cache'[s].actor) = s
    BY <1>13, <2>1 DEF Answered, Acted
  <2>3. \A q \in Ops : NewlyAnswered(q) => op'[q].ended + Ttl <= cache'[NewSlot(q)].until
    BY <1>14, <2>1
  <2>4. \A p, q \in Ops :
          /\ NewlyAnswered(p) /\ p \in op'[q].before /\ NewSlot(p) = NewSlot(q)
          /\ op'[q].kind = "create"
          /\ op'[q].at \in {"creating", "created"} \/ NewlyAnswered(q)
          => op'[p].ended + Ttl <= op'[q].began
    BY <1>15, <2>1
  <2>5. \A q \in Ops :
          /\ op'[q].at = "over" /\ op'[q].kind = "create" /\ op'[q].actor # None
          /\ op'[q].actor # q
          => /\ NewlyAnswered(op'[q].actor) /\ NewSlot(op'[q].actor) = NewSlot(q)
             /\ op'[op'[q].actor].began <= op'[q].began
    BY <1>16, <2>1 DEF Acted
  <2>6. QED
    BY <2>2, <2>3, <2>4, <2>5 DEF CacheSound, Answered, Acted, Slot
<1>18. QED
  BY <1>17

-----------------------------------------------------------------------------
(* Every step.                                                             *)

LEMMA InvStep == IInv /\ [Next]_vars => IInv'
<1> SUFFICES ASSUME IInv, [Next]_vars PROVE IInv'
  OBVIOUS
<1>1. ASSUME NEW o \in Ops, Handle(o) PROVE IInv'
  BY <1>1, ResolveKeeps, InsertKeeps, DieKeeps, EnsureKeeps, AnswerKeeps, AliasReadKeeps,
     AliasWriteKeeps DEF Handle
<1>2. CASE DeleteSession \/ \E p \in Patches : PatchRead(p) \/ PatchWrite(p)
  BY <1>2, SessionKeeps
<1>3. CASE \/ ReadEvents \/ ReadHistory \/ ReadChannels
           \/ \E i \in Items : Appear(i) \/ Vanish(i)
  BY <1>3, ListingKeeps
<1>4. CASE Tick \/ UNCHANGED vars
  <2>1. /\ now' \in Nat
        /\ UNCHANGED <<actors, alias, cache, op, session, patch, table, reader, Rows, Ids>>
    BY <1>4 DEF IInv, TypeOK, Tick, vars, registry, sessions, listing, Rows, Ids
  <2>2. TypeOK' /\ (actors \in Seq(Row))'
    BY <2>1 DEF IInv, TypeOK, Ids
  <2>3. OpsSound' /\ AliasGivenOnce' /\ PatchesSound' /\ PatchesKept' /\ NothingPassedOver'
    BY <2>1 DEF IInv, OpsSound, AliasGivenOnce, Acted, OwnerOf, PatchesSound, PatchesKept,
       NothingPassedOver, Ahead, Beyond, There
  <2>4. QED
    BY <2>2, <2>3 DEF IInv
<1>5. QED
  BY <1>1, <1>2, <1>3, <1>4 DEF Next

THEOREM Invariance == Spec => []IInv
<1>1. Init => IInv
  BY InvInit
<1>2. IInv /\ [Next]_vars => IInv'
  BY InvStep
<1>3. QED
  BY <1>1, <1>2, PTL DEF Spec

LEMMA AgreeInit == Init => AgreeInv
<1> SUFFICES ASSUME Init PROVE AgreeInv
  OBVIOUS
<1>1. now = 0 /\ Rows = {} /\ \A s \in Keys \X Names : cache[s].actor = None
  BY DEF Init, Rows, ToSet
<1>2. \A x \in Arriving : x.at = "idle" /\ x.actor = None /\ x.before = {} /\ x.began = 0 /\ x.ended = 0
  BY DEF Arriving
<1>3. /\ Unasked.at = "over" /\ Unasked.actor = None /\ Unasked.before = {}
      /\ Unasked.began = 0 /\ Unasked.ended = 0
  <2>1. (CHOOSE q \in Arriving : TRUE) \in Arriving
    BY ArrivingIsOp
  <2>2. (CHOOSE q \in Arriving : TRUE) \in Op
    BY <2>1, ArrivingIsOp
  <2>3. QED
    BY <1>2, <2>1, <2>2 DEF Unasked, Op
<1>4. \A o \in Ops : /\ op[o].at \in {"idle", "over"} /\ op[o].actor = None /\ op[o].before = {}
                     /\ op[o].began = 0 /\ op[o].ended = 0
  BY <1>2, <1>3, ArrivingIsOp DEF Init
<1>5. Ordered
  BY <1>1, <1>4 DEF Ordered
<1>6. NamesHeld /\ SameName
  BY <1>4 DEF NamesHeld, SameName, Acted
<1>7. CacheSound
  BY <1>1, <1>4 DEF CacheSound, Answered, Acted
<1>8. QED
  BY <1>5, <1>6, <1>7 DEF AgreeInv

LEMMA AgreeStep == IInv /\ IInv' /\ AgreeInv /\ [Next]_vars => AgreeInv'
<1> SUFFICES ASSUME IInv, IInv', AgreeInv, [Next]_vars PROVE AgreeInv'
  OBVIOUS
<1>1. ASSUME NEW o \in Ops, Handle(o) PROVE AgreeInv'
  BY <1>1, OrderedKeeps, NamesKeep, CacheKeeps DEF AgreeInv
<1>2. CASE ~\E o \in Ops : Handle(o)
  <2>1. UNCHANGED <<op, actors, alias, cache>> /\ now <= now' /\ now \in Nat /\ now' \in Nat
    <3>1. now \in Nat /\ now' \in Nat
      BY DEF IInv, TypeOK
    <3>2. CASE \E p \in Patches : PatchRead(p) \/ PatchWrite(p)
      BY <3>1, <3>2 DEF PatchRead, PatchWrite, registry
    <3>3. CASE DeleteSession \/ ReadEvents \/ ReadHistory \/ ReadChannels
      BY <3>1, <3>3 DEF DeleteSession, ReadEvents, ReadHistory, ReadChannels, Reading, registry
    <3>4. CASE \E i \in Items : Appear(i) \/ Vanish(i)
      BY <3>1, <3>4 DEF Appear, Vanish, registry
    <3>5. CASE Tick \/ UNCHANGED vars
      BY <3>1, <3>5 DEF Tick, vars, registry
    <3>6. QED
      BY <1>2, <3>2, <3>3, <3>4, <3>5 DEF Next
  <2>2. Rows' = Rows
    BY <2>1 DEF Rows
  <2>3. \A q \in Ops : op[q].began \in Nat /\ op[q].ended \in Nat
    BY DEF IInv, TypeOK, Op
  <2>4. Ordered'
    BY <2>1, <2>2, <2>3 DEF AgreeInv, Ordered
  <2>5. NamesHeld' /\ SameName'
    BY <2>1, <2>2 DEF AgreeInv, NamesHeld, SameName, Oldest, SameUse, ByName, OwnerOf, Acted,
                     Overlapped, RowOf
  <2>6. CacheSound'
    BY <2>1 DEF AgreeInv, CacheSound, Answered, Acted, Slot
  <2>7. QED
    BY <2>4, <2>5, <2>6 DEF AgreeInv
<1>3. QED
  BY <1>1, <1>2

THEOREM AgreeInvariance == Spec => []AgreeInv
<1>1. Init => AgreeInv
  BY AgreeInit
<1>2. IInv /\ IInv' /\ AgreeInv /\ [Next]_vars => AgreeInv'
  BY AgreeStep
<1>3. QED
  BY <1>1, <1>2, Invariance, PTL DEF Spec

-----------------------------------------------------------------------------
(* What the runs check, for every instance.                                *)

\* Every variable keeps its type, and no two actors have one id.
THEOREM TypeCorrect == Spec => []TypeOK
<1>1. IInv => TypeOK
  BY DEF IInv
<1>2. QED
  BY <1>1, Invariance, PTL

\* Whatever names and aliases exist, no request acts as an actor of another
\* owner.
THEOREM ActorsAreOwned == Spec => []OwnActorsOnly
<1>1. IInv => OwnActorsOnly
  <2> SUFFICES ASSUME IInv, NEW o \in Ops, Acted(o, "use")
               PROVE  RowOf(op[o].actor).owner = OwnerOf(o)
    BY DEF OwnActorsOnly
  <2>1. PICK r \in Rows : r.id = op[o].actor /\ r.owner = OwnerOf(o)
    BY DEF IInv, OpsSound
  <2>2. RowOf(op[o].actor) = r
    BY <2>1 DEF RowOf, IInv, TypeOK
  <2>3. QED
    BY <2>1, <2>2
<1>2. QED
  BY <1>1, Invariance, PTL

\* Who asks for a name after another was answered acts as the same actor, but
\* for an alias, an actor that was being created then, or one of that instant:
\* for every number of requests, keys and actors of the name.
THEOREM NamesAgree == Spec => []SameName
<1>1. AgreeInv => SameName
  BY DEF AgreeInv
<1>2. QED
  BY <1>1, AgreeInvariance, PTL

\* While the answer of ensure_actor is cached, nobody is given an actor whose
\* creation began after that answer, however many keys and names fill the cache.
THEOREM EnsureIsIdempotent == Spec => []EnsureAgrees
<1>1. IInv /\ AgreeInv => EnsureAgrees
  <2> SUFFICES ASSUME IInv, AgreeInv, NEW o \in Ops, NEW q \in Ops,
                      Answered(o), Acted(q, "create"), Slot(o) = Slot(q), o \in op[q].before,
                      op[q].began < op[o].ended + Ttl
               PROVE  o \notin op[op[q].actor].before
    BY DEF EnsureAgrees, Answered
  <2>1. \A p \in Ops : op[p].began \in Nat /\ op[p].ended \in Nat
    BY DEF IInv, TypeOK, Op
  <2>2. ~(op[o].ended + Ttl <= op[q].began)
    BY <2>1, RegistryAssumption
  <2>3. op[q].actor # q
    BY <2>2 DEF AgreeInv, CacheSound, Answered, Acted
  <2>4. PICK c \in Ops : c = op[q].actor
    BY DEF IInv, TypeOK, Op, Acted
  <2>5. Answered(c) /\ Slot(c) = Slot(q) /\ op[c].began <= op[q].began
    BY <2>3, <2>4 DEF AgreeInv, CacheSound
  <2>6. ASSUME o \in op[c].before PROVE FALSE
    <3>1. op[o].ended + Ttl <= op[c].began
      BY <2>5, <2>6 DEF AgreeInv, CacheSound, Answered, Acted
    <3>2. QED
      BY <2>1, <2>2, <2>5, <3>1, RegistryAssumption
  <2>7. QED
    BY <2>4, <2>6
<1>2. QED
  BY <1>1, Invariance, AgreeInvariance, PTL

\* An alias is given to one actor, by one request.
THEOREM AliasesUnique == Spec => []AliasGivenOnce
<1>1. IInv => AliasGivenOnce
  BY DEF IInv
<1>2. QED
  BY <1>1, Invariance, PTL

\* A patch is lost only to a patch that had read the session before it.
THEOREM PatchesStay == Spec => []PatchesKept
<1>1. IInv => PatchesKept
  BY DEF IInv
<1>2. QED
  BY <1>1, Invariance, PTL

\* No row is passed over by the cursor of a list, for every number of rows,
\* every page size and every order of the stamps.
THEOREM PagesAreComplete == Spec => []NothingPassedOver
<1>1. IInv => NothingPassedOver
  BY DEF IInv
<1>2. QED
  BY <1>1, Invariance, PTL

\* A session that was deleted stays deleted, whatever patches had read it.
THEOREM DeletedSessionsStayGone == Spec => SessionStaysGone
<1>1. [Next]_vars => [~session.row => ~session'.row]_vars
  <2> SUFFICES ASSUME Next, ~session.row PROVE session' = session
    BY DEF vars
  <2>1. ASSUME NEW o \in Ops, Handle(o) PROVE session' = session
    BY <2>1 DEF Handle, Resolve, Store, Die, Ensure, Create, Answer, AliasRead, AliasWrite,
                sessions
  <2>2. ASSUME NEW p \in Patches, PatchRead(p) \/ PatchWrite(p) PROVE session' = session
    BY <2>2 DEF PatchRead, PatchWrite
  <2>3. ~DeleteSession
    BY DEF DeleteSession
  <2>4. CASE ReadEvents \/ ReadHistory \/ ReadChannels
    BY <2>4 DEF ReadEvents, ReadHistory, ReadChannels, Reading, sessions
  <2>5. ASSUME NEW i \in Items, Appear(i) \/ Vanish(i) PROVE session' = session
    BY <2>5 DEF Appear, Vanish, sessions
  <2>6. CASE Tick
    BY <2>6 DEF Tick, sessions
  <2> QED BY <2>1, <2>2, <2>3, <2>4, <2>5, <2>6 DEF Next
<1>2. QED
  BY <1>1, PTL DEF Spec, SessionStaysGone
=============================================================================
