--------------------------- MODULE LazyFst_proofs ---------------------------
(***************************************************************************)
(* Proofs about LazyFst, for any number of threads, any operation and any  *)
(* machine.                                                                *)
(***************************************************************************)
EXTENDS LazyFst, StateTable_proofs

-----------------------------------------------------------------------------
(* num_known_states.                                                       *)

LEMMA RaisedCovers ==
    ASSUME NEW known \in Nat, NEW ids \in SUBSET Nat, NEW n \in Nat,
           known <= n, \A i \in ids : i < n
    PROVE  /\ Raised(known, ids) \in known .. n
           /\ \A i \in ids : i < Raised(known, ids)
BY MaxCovers DEF Raised

-----------------------------------------------------------------------------
(* What is said of a table stays true of a table that extends it.          *)

LEMMA IsStartExtends ==
    ASSUME NEW old, NEW new, Extends(old, new),
           NEW first, NEW id, IsStart(old, first, id)
    PROVE  IsStart(new, first, id)
BY DEF Extends, IsStart

LEMMA DecodesExtends ==
    ASSUME NEW old, NEW new, Extends(old, new),
           NEW tuple, NEW trs, Decodes(old, tuple, trs)
    PROVE  Decodes(new, tuple, trs)
BY DEF Extends, Decodes

LEMMA DecodesPrefixExtends ==
    ASSUME NEW old, NEW new, Extends(old, new),
           NEW tuple, NEW trs, DecodesPrefix(old, tuple, trs)
    PROVE  DecodesPrefix(new, tuple, trs)
BY DEF Extends, DecodesPrefix

LEMMA SoundExtends ==
    ASSUME NEW old, NEW new, Extends(old, new),
           NEW first, NEW c, Sound(old, first, c)
    PROVE  Sound(new, first, c)
<1>1. c.start.data # NotComputed => IsStart(new, first, c.start.data)
  BY IsStartExtends DEF Sound
<1>2. \A id \in DOMAIN c.trs.data :
        /\ id \in Allocated(new)
        /\ Decodes(new, FindTuple(new, id), c.trs.data[id])
  <2> TAKE id \in DOMAIN c.trs.data
  <2>1. id \in Allocated(old) /\ Decodes(old, FindTuple(old, id), c.trs.data[id])
    BY DEF Sound
  <2>2. id \in Allocated(new) /\ FindTuple(new, id) = FindTuple(old, id)
    BY <2>1 DEF Extends
  <2> QED  BY <2>1, <2>2, DecodesExtends
<1>3. \A id \in DOMAIN c.final.data :
        /\ id \in Allocated(new)
        /\ c.final.data[id] = Final[FindTuple(new, id)]
  BY DEF Sound, Extends
<1> QED  BY <1>1, <1>2, <1>3 DEF Sound

LEMMA CoversExtends ==
    ASSUME NEW old \in TableType, NEW new \in TableType, Extends(old, new),
           NEW c, Covers(old, c)
    PROVE  Covers(new, c)
<1>1. /\ Len(old.id_to_tuple) \in Nat
      /\ Len(new.id_to_tuple) \in Nat
      /\ Len(old.id_to_tuple) <= Len(new.id_to_tuple)
  BY DEF TableType, Extends
<1>2. ASSUME NEW part \in {"start", "trs", "final"}
      PROVE  c[part].known \in 0 .. Len(new.id_to_tuple)
  <2>1. c[part].known \in 0 .. Len(old.id_to_tuple)
    BY DEF Covers
  <2> QED  BY <1>1, <2>1
<1> QED  BY <1>2 DEF Covers

\* What a call knows survives any step of another thread.
LEMMA CallInvStable ==
    ASSUME NEW t, CallInv(t), table \in TableType, table' \in TableType,
           Extends(table, table'), origin' = origin,
           pc'[t] = pc[t], cur'[t] = cur[t], tup'[t] = tup[t],
           arcs'[t] = arcs[t], weight'[t] = weight[t], snap'[t] = snap[t]
    PROVE  CallInv(t)'
<1>1. \A id \in Allocated(table) : /\ id \in Allocated(table')
                                   /\ FindTuple(table', id) = FindTuple(table, id)
  BY DEF Extends
<1>2. pc[t] \in AboutAState => /\ cur[t] \in Allocated(table')
                              /\ FindTuple(table', cur[t]) = FindTuple(table, cur[t])
  BY <1>1 DEF CallInv
<1>3. pc[t] \in {"insert_start", "got_start"} => IsStart(table', origin, cur[t])
  BY IsStartExtends DEF CallInv
<1>4. pc[t] = "intern" => DecodesPrefix(table', tup[t], arcs[t])
  BY DecodesPrefixExtends DEF CallInv
<1>5. pc[t] = "got_trs" => Decodes(table', FindTuple(table', cur[t]), arcs[t])
  BY <1>2, DecodesExtends DEF CallInv, AboutAState
<1>6. pc[t] = "clone" => \/ snap[t] = Nothing
                        \/ /\ DOMAIN snap[t] = {"cache"}
                           /\ Sound(table', origin, snap[t]["cache"])
                           /\ Covers(table', snap[t]["cache"])
  BY SoundExtends, CoversExtends DEF CallInv
<1> QED
  BY <1>2, <1>3, <1>4, <1>5, <1>6 DEF CallInv, AboutAState

-----------------------------------------------------------------------------
(* The inductive invariant.  Inv is preserved by a step of thread t that   *)
(* extends the table, leaves the cache typed, sound and covered, leaves t  *)
(* with what the rest of its call relies on, and touches no other thread.  *)

CacheTypeOK ==
    /\ cstart.data \in Allocated(table) \cup {NoState, NotComputed}
    /\ cstart.known \in Nat
    /\ DOMAIN ctrs.data \subseteq Allocated(table)
    /\ ctrs.data \in [DOMAIN ctrs.data -> Seq(Nat)]
    /\ ctrs.known \in Nat
    /\ DOMAIN cfinal.data \subseteq Allocated(table)
    /\ cfinal.data \in [DOMAIN cfinal.data -> Weights]
    /\ cfinal.known \in Nat

LocalsTypeOK ==
    /\ pc \in [Threads -> Pcs]
    /\ cur \in [Threads -> Nat \cup {NoState}]
    /\ tup \in [Threads -> Tuples \cup {NoTuple}]
    /\ arcs \in [Threads -> Seq(Nat)]
    /\ weight \in [Threads -> Weights]
    /\ DOMAIN snap = Threads

LEMMA TypeOKParts ==
    TypeOK <=> /\ origin \in Tuples \cup {NoTuple}
               /\ table \in TableType
               /\ CacheTypeOK
               /\ LocalsTypeOK
BY DEF TypeOK, CacheTypeOK, LocalsTypeOK

\* The locals of the other threads.
OthersUnchanged(t) ==
    \A u \in Threads \ {t} :
        /\ pc'[u] = pc[u] /\ cur'[u] = cur[u] /\ tup'[u] = tup[u]
        /\ arcs'[u] = arcs[u] /\ weight'[u] = weight[u] /\ snap'[u] = snap[u]

LEMMA StepInv ==
    ASSUME Inv, NEW t \in Threads, origin' = origin,
           table' \in TableType, Bijective(table'), Extends(table, table'),
           CacheTypeOK', Sound(table', origin, TheCache'), Covers(table', TheCache'),
           LocalsTypeOK', OthersUnchanged(t), CallInv(t)'
    PROVE  Inv'
<1>1. TypeOK'
  BY TypeOKParts DEF Inv, TypeOK, CacheTypeOK, LocalsTypeOK
<1>2. \A u \in Threads : CallInv(u)'
  <2> TAKE u \in Threads
  <2>1. CASE u = t
    BY <2>1
  <2>2. CASE u # t
    BY <2>2, CallInvStable DEF Inv, TypeOK, OthersUnchanged
  <2> QED  BY <2>1, <2>2
<1> QED  BY <1>1, <1>2 DEF Inv, TableBijective, CacheSound, KnownCovers

\* A step that leaves the cache alone, and may extend the table.
LEMMA CacheKeptInv ==
    ASSUME Inv, NEW t \in Threads, origin' = origin, cache' = cache,
           table' \in TableType, Bijective(table'), Extends(table, table'),
           LocalsTypeOK', OthersUnchanged(t), CallInv(t)'
    PROVE  Inv'
<1>1. TheCache' = TheCache
  BY DEF TheCache, cache
<1>2. Sound(table', origin, TheCache') /\ Covers(table', TheCache')
  BY <1>1, SoundExtends, CoversExtends DEF Inv, TypeOK, CacheSound, KnownCovers
<1>3. CacheTypeOK'
  BY DEF Inv, TypeOK, CacheTypeOK, Extends, cache
<1> QED  BY <1>2, <1>3, StepInv

\* A step that leaves the table and the cache alone.
LEMMA LocalStepInv ==
    ASSUME Inv, NEW t \in Threads, UNCHANGED <<origin, table, cache>>,
           LocalsTypeOK', OthersUnchanged(t), CallInv(t)'
    PROVE  Inv'
<1>1. table' \in TableType /\ Bijective(table') /\ Extends(table, table')
  BY ExtendsItself DEF Inv, TypeOK, TableBijective
<1> QED  BY <1>1, CacheKeptInv

LEMMA InitInv == Init => Inv
<1> SUFFICES ASSUME Init PROVE Inv
  OBVIOUS
<1>1. PICK names \in InitNames : table = TableOf(names)
  BY DEF Init
<1>2. table \in TableType /\ Bijective(table)
  BY <1>1, TableOfBijective, TableAssumption
<1>3. /\ cstart.data = NotComputed /\ cstart.known = 0
      /\ DOMAIN ctrs.data = {} /\ ctrs.known = 0
      /\ DOMAIN cfinal.data = {} /\ cfinal.known = 0
      /\ ctrs.data \in [{} -> Seq(Nat)] /\ cfinal.data \in [{} -> Weights]
  BY DEF Init, NewCache, Nothing
<1>4. TypeOK
  BY <1>2, <1>3, MachineAssumption
     DEF Init, TypeOK, Pcs, NoId
<1>5. CacheSound
  BY <1>3 DEF CacheSound, Sound, TheCache
<1>6. KnownCovers
  <2>1. Len(table.id_to_tuple) \in Nat
    BY <1>2 DEF TableType
  <2> QED  BY <1>3, <2>1 DEF KnownCovers, Covers, TheCache, NotComputed
<1>7. \A t \in Threads : CallInv(t)
  BY DEF Init, CallInv, AboutAState
<1> QED  BY <1>2, <1>4, <1>5, <1>6, <1>7 DEF Inv, TableBijective

-----------------------------------------------------------------------------
(* One lemma per action.                                                   *)

LEMMA CallStartInv ==
    ASSUME Inv, NEW t \in Threads, CallStart(t) PROVE Inv'
<1>1. LocalsTypeOK'
  BY DEF Inv, TypeOK, LocalsTypeOK, CallStart, Call, Goto, Pcs
<1>2. OthersUnchanged(t)
  BY DEF Inv, TypeOK, OthersUnchanged, CallStart, Call, Goto
<1>3. CallInv(t)'
  BY DEF Inv, TypeOK, CallInv, AboutAState, CallStart, Call, Goto
<1> QED  BY <1>1, <1>2, <1>3, LocalStepInv DEF CallStart, Call

LEMMA CallTrsInv ==
    ASSUME Inv, NEW t \in Threads, NEW id \in Allocated(table), CallTrs(t, id)
    PROVE  Inv'
<1>1. id \in Nat
  BY DEF Inv, TypeOK, Allocated, TableType
<1>2. LocalsTypeOK'
  BY <1>1 DEF Inv, TypeOK, LocalsTypeOK, CallTrs, Call, Goto, Pcs
<1>3. OthersUnchanged(t)
  BY DEF Inv, TypeOK, OthersUnchanged, CallTrs, Call, Goto
<1>4. CallInv(t)'
  BY DEF Inv, TypeOK, CallInv, AboutAState, CallTrs, Call, Goto
<1> QED  BY <1>2, <1>3, <1>4, LocalStepInv DEF CallTrs, Call

LEMMA CallFinalInv ==
    ASSUME Inv, NEW t \in Threads, NEW id \in Allocated(table), CallFinal(t, id)
    PROVE  Inv'
<1>1. id \in Nat
  BY DEF Inv, TypeOK, Allocated, TableType
<1>2. LocalsTypeOK'
  BY <1>1 DEF Inv, TypeOK, LocalsTypeOK, CallFinal, Call, Goto, Pcs
<1>3. OthersUnchanged(t)
  BY DEF Inv, TypeOK, OthersUnchanged, CallFinal, Call, Goto
<1>4. CallInv(t)'
  BY DEF Inv, TypeOK, CallInv, AboutAState, CallFinal, Call, Goto
<1> QED  BY <1>2, <1>3, <1>4, LocalStepInv DEF CallFinal, Call

LEMMA CallCloneInv ==
    ASSUME Inv, NEW t \in Threads, CallClone(t) PROVE Inv'
<1>1. LocalsTypeOK'
  BY DEF Inv, TypeOK, LocalsTypeOK, CallClone, Call, Goto, Pcs
<1>2. OthersUnchanged(t)
  BY DEF Inv, TypeOK, OthersUnchanged, CallClone, Call, Goto
<1>3. CallInv(t)'
  BY DEF Inv, TypeOK, CallInv, AboutAState, CallClone, Call, Goto
<1> QED  BY <1>1, <1>2, <1>3, LocalStepInv DEF CallClone, Call

LEMMA FinishInv ==
    ASSUME Inv, NEW t \in Threads, Finish(t) PROVE Inv'
<1>1. LocalsTypeOK'
  BY MachineAssumption
     DEF Inv, TypeOK, LocalsTypeOK, Finish, Pcs, NoId
<1>2. OthersUnchanged(t)
  BY DEF Inv, TypeOK, OthersUnchanged, Finish
<1>3. CallInv(t)'
  BY DEF Inv, TypeOK, CallInv, AboutAState, Finish
<1> QED  BY <1>1, <1>2, <1>3, LocalStepInv DEF Finish

LEMMA StartHitInv ==
    ASSUME Inv, NEW t \in Threads, StartHit(t) PROVE Inv'
<1>1. cstart.data \in Nat \cup {NoState}
  BY DEF Inv, TypeOK, Allocated, TableType, StartHit
<1>2. LocalsTypeOK'
  BY <1>1 DEF Inv, TypeOK, LocalsTypeOK, StartHit, Goto, Pcs, Answered
<1>3. OthersUnchanged(t)
  BY DEF Inv, TypeOK, OthersUnchanged, StartHit, Goto
<1>4. IsStart(table, origin, cstart.data)
  BY DEF Inv, CacheSound, Sound, TheCache, StartHit
<1>5. CallInv(t)'
  BY <1>4 DEF Inv, TypeOK, CallInv, AboutAState, StartHit, Goto
<1> QED  BY <1>2, <1>3, <1>5, LocalStepInv DEF StartHit

LEMMA StartMissInv ==
    ASSUME Inv, NEW t \in Threads, StartMiss(t) PROVE Inv'
<1>1. LocalsTypeOK'
  BY DEF Inv, TypeOK, LocalsTypeOK, StartMiss, Goto, Pcs, locals
<1>2. OthersUnchanged(t)
  BY DEF Inv, TypeOK, OthersUnchanged, StartMiss, Goto, locals
<1>3. CallInv(t)'
  BY DEF Inv, TypeOK, CallInv, AboutAState, StartMiss, Goto, locals
<1> QED  BY <1>1, <1>2, <1>3, LocalStepInv DEF StartMiss

LEMMA ComputeStartInv ==
    ASSUME Inv, NEW t \in Threads, ComputeStart(t) PROVE Inv'
<1> DEFINE id == IF origin = NoTuple THEN NoState ELSE FindId(table, origin)
<1>1. /\ pc[t] = "compute_start"
      /\ pc' = [pc EXCEPT ![t] = "insert_start"]
      /\ cur' = [cur EXCEPT ![t] = id]
      /\ table' = IF origin = NoTuple THEN table ELSE Interned(table, origin)
      /\ UNCHANGED <<origin, cache, tup, arcs, weight, snap>>
  BY DEF ComputeStart, Goto
<1>2. table \in TableType /\ Bijective(table) /\ origin \in Tuples \cup {NoTuple}
  BY DEF Inv, TypeOK, TableBijective
<1>3. table' \in TableType /\ Bijective(table') /\ Extends(table, table')
  BY <1>1, <1>2, ExtendsItself, InternedExtends
<1>4. IsStart(table', origin, id)
  <2>1. CASE origin = NoTuple
    BY <2>1 DEF IsStart
  <2>2. CASE origin # NoTuple
    <3>1. /\ id \in Allocated(Interned(table, origin))
          /\ FindTuple(Interned(table, origin), id) = origin
      BY <1>2, <2>2, InternedExtends
    <3> QED  BY <1>1, <2>2, <3>1 DEF IsStart
  <2> QED  BY <2>1, <2>2
<1>5. id \in Nat \cup {NoState}
  BY <1>3, <1>4 DEF IsStart, Allocated, TableType
<1>6. LocalsTypeOK'
  <2> HIDE DEF id
  <2> QED  BY <1>1, <1>5 DEF Inv, TypeOK, LocalsTypeOK, Pcs
<1>7. OthersUnchanged(t)
  BY <1>1 DEF Inv, TypeOK, OthersUnchanged
<1>8. CallInv(t)'
  <2> HIDE DEF id
  <2> QED  BY <1>1, <1>4 DEF Inv, TypeOK, CallInv, AboutAState
<1> QED  BY <1>1, <1>3, <1>6, <1>7, <1>8, CacheKeptInv

LEMMA InsertStartInv ==
    ASSUME Inv, NEW t \in Threads, InsertStart(t) PROVE Inv'
<1> DEFINE n == Len(table.id_to_tuple)
           ids == {cur[t]} \ {NoState}
<1>1. /\ pc[t] = "insert_start"
      /\ pc' = [pc EXCEPT ![t] = "got_start"]
      /\ cstart' = [data |-> cur[t], known |-> Raised(cstart.known, ids)]
      /\ UNCHANGED <<origin, table, ctrs, cfinal, cur, tup, arcs, weight, snap>>
  BY DEF InsertStart, Goto, locals
<1>2. IsStart(table, origin, cur[t])
  BY <1>1 DEF Inv, CallInv
<1>3. n \in Nat /\ cur[t] \in 0 .. n - 1 \cup {NoState}
  BY <1>2 DEF Inv, TypeOK, TableType, IsStart, Allocated
<1>4. cstart.known \in Nat /\ cstart.known <= n
  BY DEF Inv, KnownCovers, Covers, TheCache
<1>5. /\ Raised(cstart.known, ids) \in cstart.known .. n
      /\ \A i \in ids : i < Raised(cstart.known, ids)
  <2>1. ids \in SUBSET Nat /\ \A i \in ids : i < n
    BY <1>3
  <2> HIDE DEF ids, n
  <2> QED  BY <1>3, <1>4, <2>1, RaisedCovers
<1>6. table' \in TableType /\ Bijective(table') /\ Extends(table, table')
  BY <1>1, ExtendsItself DEF Inv, TypeOK, TableBijective
<1>7. CacheTypeOK'
  BY <1>1, <1>3, <1>4, <1>5 DEF Inv, TypeOK, CacheTypeOK, Allocated
<1>8. Sound(table', origin, TheCache')
  BY <1>1, <1>2 DEF Inv, CacheSound, Sound, TheCache
<1>9. Covers(table', TheCache')
  <2>1. cur[t] >= 0 => cur[t] < Raised(cstart.known, ids)
    <3>1. cur[t] >= 0 => cur[t] \in ids
      BY <1>3 DEF NoState
    <3> QED  BY <3>1, <1>5
  <2>2. Raised(cstart.known, ids) \in 0 .. n
    BY <1>3, <1>4, <1>5
  <2> HIDE DEF ids
  <2> QED  BY <1>1, <2>1, <2>2 DEF Inv, KnownCovers, Covers, TheCache
<1>10. LocalsTypeOK'
  BY <1>1 DEF Inv, TypeOK, LocalsTypeOK, Pcs, Answered
<1>11. OthersUnchanged(t)
  BY <1>1 DEF Inv, TypeOK, OthersUnchanged
<1>12. CallInv(t)'
  BY <1>1, <1>2 DEF Inv, TypeOK, CallInv, AboutAState
<1> QED  BY <1>1, <1>6, <1>7, <1>8, <1>9, <1>10, <1>11, <1>12, StepInv

LEMMA TrsHitInv ==
    ASSUME Inv, NEW t \in Threads, TrsHit(t) PROVE Inv'
<1>1. /\ ctrs.data[cur[t]] \in Seq(Nat)
      /\ Decodes(table, FindTuple(table, cur[t]), ctrs.data[cur[t]])
  BY DEF Inv, TypeOK, CacheSound, Sound, TheCache, TrsHit
<1>2. LocalsTypeOK'
  BY <1>1 DEF Inv, TypeOK, LocalsTypeOK, TrsHit, Goto, Pcs, Answered
<1>3. OthersUnchanged(t)
  BY DEF Inv, TypeOK, OthersUnchanged, TrsHit, Goto
<1>4. CallInv(t)'
  BY <1>1 DEF Inv, TypeOK, CallInv, AboutAState, TrsHit, Goto
<1> QED  BY <1>2, <1>3, <1>4, LocalStepInv DEF TrsHit

LEMMA TrsMissInv ==
    ASSUME Inv, NEW t \in Threads, TrsMiss(t) PROVE Inv'
<1>1. LocalsTypeOK'
  BY DEF Inv, TypeOK, LocalsTypeOK, TrsMiss, Goto, Pcs, locals
<1>2. OthersUnchanged(t)
  BY DEF Inv, TypeOK, OthersUnchanged, TrsMiss, Goto, locals
<1>3. CallInv(t)'
  BY DEF Inv, TypeOK, CallInv, AboutAState, TrsMiss, Goto, locals
<1> QED  BY <1>1, <1>2, <1>3, LocalStepInv DEF TrsMiss

LEMMA FindTrsTupleInv ==
    ASSUME Inv, NEW t \in Threads, FindTrsTuple(t) PROVE Inv'
<1>1. cur[t] \in Allocated(table)
  BY DEF Inv, CallInv, AboutAState, FindTrsTuple, Goto
<1>2. FindTuple(table, cur[t]) \in Tuples
  BY <1>1, NamedTuple DEF Inv, TypeOK
<1>3. LocalsTypeOK'
  BY <1>2 DEF Inv, TypeOK, LocalsTypeOK, FindTrsTuple, Goto, Pcs
<1>4. OthersUnchanged(t)
  BY DEF Inv, TypeOK, OthersUnchanged, FindTrsTuple, Goto
<1>5. arcs[t] = <<>> /\ DecodesPrefix(table, FindTuple(table, cur[t]), <<>>)
  <2>1. arcs[t] = <<>>
    BY DEF Inv, CallInv, FindTrsTuple, Goto
  <2>2. Len(Succ[FindTuple(table, cur[t])]) \in Nat
    BY <1>2, MachineAssumption
  <2> QED  BY <2>1, <2>2 DEF DecodesPrefix
<1>6. CallInv(t)'
  BY <1>1, <1>5 DEF Inv, TypeOK, CallInv, AboutAState, FindTrsTuple, Goto
<1> QED  BY <1>3, <1>4, <1>6, LocalStepInv DEF FindTrsTuple

\* One more transition of the tuple is named.
LEMMA DecodesAppend ==
    ASSUME NEW tbl, NEW tuple \in Tuples, NEW trs \in Seq(Nat),
           DecodesPrefix(tbl, tuple, trs), Len(trs) < Len(Succ[tuple]),
           NEW id \in Nat, id \in Allocated(tbl),
           FindTuple(tbl, id) = Succ[tuple][Len(trs) + 1]
    PROVE  DecodesPrefix(tbl, tuple, Append(trs, id))
<1>1. Len(Succ[tuple]) \in Nat
  BY MachineAssumption
<1>2. Len(Append(trs, id)) = Len(trs) + 1
  OBVIOUS
<1>3. ASSUME NEW k \in DOMAIN Append(trs, id)
      PROVE  /\ Append(trs, id)[k] \in Allocated(tbl)
             /\ FindTuple(tbl, Append(trs, id)[k]) = Succ[tuple][k]
  <2>1. CASE k = Len(trs) + 1
    BY <2>1
  <2>2. CASE k # Len(trs) + 1
    <3>1. k \in DOMAIN trs /\ Append(trs, id)[k] = trs[k]
      BY <2>2
    <3> QED  BY <3>1 DEF DecodesPrefix
  <2> QED  BY <2>1, <2>2
<1> QED  BY <1>1, <1>2, <1>3 DEF DecodesPrefix

LEMMA InternNextInv ==
    ASSUME Inv, NEW t \in Threads, InternNext(t) PROVE Inv'
<1> DEFINE u == tup[t]
           next == Succ[u][Len(arcs[t]) + 1]
           id == FindId(table, next)
<1>1. /\ pc[t] = "intern"
      /\ pc' = [pc EXCEPT ![t] = "intern"]
      /\ Len(arcs[t]) < Len(Succ[u])
      /\ arcs' = [arcs EXCEPT ![t] = Append(@, id)]
      /\ table' = Interned(table, next)
      /\ UNCHANGED <<origin, cache, cur, tup, weight, snap>>
  BY DEF InternNext, Goto
<1>2. /\ cur[t] \in Allocated(table)
      /\ u = FindTuple(table, cur[t])
      /\ DecodesPrefix(table, u, arcs[t])
  BY <1>1 DEF Inv, CallInv, AboutAState
<1>3. table \in TableType /\ Bijective(table) /\ arcs[t] \in Seq(Nat)
  BY DEF Inv, TypeOK, TableBijective
<1>4. u \in Tuples
  BY <1>2, <1>3, NamedTuple
<1>5. next \in Tuples
  <2>1. Succ[u] \in Seq(Tuples)
    BY <1>4, MachineAssumption
  <2>2. Len(arcs[t]) + 1 \in 1 .. Len(Succ[u])
    BY <1>1, <1>3, <2>1
  <2> QED  BY <2>1, <2>2
<1>6. /\ table' \in TableType /\ Bijective(table') /\ Extends(table, table')
      /\ id \in Allocated(table')
      /\ FindTuple(table', id) = next
  <2> HIDE DEF next
  <2> QED  BY <1>1, <1>3, <1>5, InternedExtends
<1>7. id \in Nat
  BY <1>6 DEF Allocated, TableType
<1>8. DecodesPrefix(table', u, arcs'[t])
  <2>1. DecodesPrefix(table', u, arcs[t])
    BY <1>2, <1>6, DecodesPrefixExtends
  <2>2. DecodesPrefix(table', u, Append(arcs[t], id))
    <3> HIDE DEF id, u
    <3> QED  BY <1>1, <1>3, <1>4, <1>6, <1>7, <2>1, DecodesAppend
  <2> QED  BY <1>1, <2>2 DEF Inv, TypeOK
<1>9. u = FindTuple(table', cur[t]) /\ cur[t] \in Allocated(table')
  BY <1>2, <1>6 DEF Extends
<1>10. LocalsTypeOK'
  <2> HIDE DEF id
  <2> QED  BY <1>1, <1>3, <1>7 DEF Inv, TypeOK, LocalsTypeOK, Pcs
<1>11. OthersUnchanged(t)
  BY <1>1 DEF Inv, TypeOK, OthersUnchanged
<1>12. CallInv(t)'
  <2>1. pc'[t] = "intern" /\ cur'[t] = cur[t] /\ tup'[t] = u /\ snap'[t] = Nothing
    BY <1>1 DEF Inv, TypeOK, CallInv
  <2> HIDE DEF u
  <2> QED  BY <1>8, <1>9, <2>1 DEF CallInv, AboutAState
<1> QED  BY <1>1, <1>6, <1>10, <1>11, <1>12, CacheKeptInv

\* The transitions built are all those of the tuple, and name known states.
LEMMA InsertTrsInv ==
    ASSUME Inv, NEW t \in Threads, InsertTrs(t) PROVE Inv'
<1> DEFINE n == Len(table.id_to_tuple)
           trs == arcs[t]
           ids == Range(trs)
           u == FindTuple(table, cur[t])
<1>1. /\ pc[t] = "intern"
      /\ pc' = [pc EXCEPT ![t] = "got_trs"]
      /\ Len(trs) = Len(Succ[tup[t]])
      /\ ctrs' = [data |-> Insert(ctrs.data, cur[t], trs),
                  known |-> Raised(ctrs.known, ids)]
      /\ UNCHANGED <<origin, table, cstart, cfinal, cur, tup, arcs, weight, snap>>
  BY DEF InsertTrs, Goto, locals
<1>2. cur[t] \in Allocated(table) /\ trs \in Seq(Nat) /\ n \in Nat
  BY <1>1 DEF Inv, TypeOK, TableType, CallInv, AboutAState
<1>3. Decodes(table, u, trs)
  BY <1>1 DEF Inv, CallInv, DecodesPrefix, Decodes
<1>4. ids \in SUBSET Nat /\ \A i \in ids : i < n
  BY <1>2, <1>3 DEF Decodes, Range, Allocated
<1>5. ctrs.known \in Nat /\ ctrs.known <= n
  BY DEF Inv, KnownCovers, Covers, TheCache
<1>6. /\ Raised(ctrs.known, ids) \in ctrs.known .. n
      /\ \A i \in ids : i < Raised(ctrs.known, ids)
  <2> HIDE DEF ids, n
  <2> QED  BY <1>2, <1>4, <1>5, RaisedCovers
<1>7. /\ DOMAIN ctrs'.data = DOMAIN ctrs.data \cup {cur[t]}
      /\ \A i \in DOMAIN ctrs'.data :
           ctrs'.data[i] = IF i = cur[t] THEN trs ELSE ctrs.data[i]
  BY <1>1 DEF Insert
<1>8. table' \in TableType /\ Bijective(table') /\ Extends(table, table')
  BY <1>1, ExtendsItself DEF Inv, TypeOK, TableBijective
<1>9. CacheTypeOK'
  <2>1. ctrs'.known \in Nat
    BY <1>1, <1>2, <1>5, <1>6
  <2>2. /\ DOMAIN ctrs'.data \subseteq Allocated(table)
        /\ ctrs'.data \in [DOMAIN ctrs'.data -> Seq(Nat)]
    BY <1>1, <1>2, <1>7 DEF Inv, TypeOK, Insert
  <2> QED  BY <1>1, <2>1, <2>2 DEF Inv, TypeOK, CacheTypeOK
<1>10. Sound(table', origin, TheCache')
  <2>1. ASSUME NEW i \in DOMAIN ctrs'.data
        PROVE  i \in Allocated(table) /\ Decodes(table, FindTuple(table, i), ctrs'.data[i])
    <3>1. CASE i = cur[t]
      BY <1>2, <1>3, <1>7, <3>1
    <3>2. CASE i # cur[t]
      BY <1>7, <3>2 DEF Inv, CacheSound, Sound, TheCache
    <3> QED  BY <3>1, <3>2
  <2> QED  BY <1>1, <2>1 DEF Inv, CacheSound, Sound, TheCache
<1>11. Covers(table', TheCache')
  <2>1. ctrs'.known \in 0 .. n /\ ctrs.known <= ctrs'.known
    BY <1>1, <1>2, <1>5, <1>6
  <2>2. ASSUME NEW i \in DOMAIN ctrs'.data, NEW k \in DOMAIN ctrs'.data[i]
        PROVE  ctrs'.data[i][k] < ctrs'.known
    <3>1. CASE i = cur[t]
      <4>1. trs[k] \in ids
        BY <1>7, <3>1 DEF Range
      <4> QED  BY <1>1, <1>6, <1>7, <3>1, <4>1
    <3>2. CASE i # cur[t]
      <4>1. i \in DOMAIN ctrs.data /\ k \in DOMAIN ctrs.data[i]
        BY <1>7, <3>2
      <4>2. ctrs.data[i][k] < ctrs.known /\ ctrs.data[i][k] \in Nat
        BY <4>1 DEF Inv, TypeOK, KnownCovers, Covers, TheCache
      <4> QED  BY <1>5, <1>7, <2>1, <3>2, <4>2
    <3> QED  BY <3>1, <3>2
  <2> QED  BY <1>1, <2>1, <2>2 DEF Inv, KnownCovers, Covers, TheCache
<1>12. LocalsTypeOK'
  BY <1>1 DEF Inv, TypeOK, LocalsTypeOK, Pcs, Answered
<1>13. OthersUnchanged(t)
  BY <1>1 DEF Inv, TypeOK, OthersUnchanged
<1>14. CallInv(t)'
  BY <1>1, <1>2, <1>3 DEF Inv, TypeOK, CallInv, AboutAState
<1> QED
  BY <1>1, <1>8, <1>9, <1>10, <1>11, <1>12, <1>13, <1>14, StepInv

LEMMA FinalHitInv ==
    ASSUME Inv, NEW t \in Threads, FinalHit(t) PROVE Inv'
<1>1. /\ cfinal.data[cur[t]] \in Weights
      /\ cfinal.data[cur[t]] = Final[FindTuple(table, cur[t])]
  BY DEF Inv, TypeOK, CacheSound, Sound, TheCache, FinalHit
<1>2. LocalsTypeOK'
  BY <1>1 DEF Inv, TypeOK, LocalsTypeOK, FinalHit, Goto, Pcs, Answered
<1>3. OthersUnchanged(t)
  BY DEF Inv, TypeOK, OthersUnchanged, FinalHit, Goto
<1>4. CallInv(t)'
  BY <1>1 DEF Inv, TypeOK, CallInv, AboutAState, FinalHit, Goto
<1> QED  BY <1>2, <1>3, <1>4, LocalStepInv DEF FinalHit

LEMMA FinalMissInv ==
    ASSUME Inv, NEW t \in Threads, FinalMiss(t) PROVE Inv'
<1>1. LocalsTypeOK'
  BY DEF Inv, TypeOK, LocalsTypeOK, FinalMiss, Goto, Pcs, locals
<1>2. OthersUnchanged(t)
  BY DEF Inv, TypeOK, OthersUnchanged, FinalMiss, Goto, locals
<1>3. CallInv(t)'
  BY DEF Inv, TypeOK, CallInv, AboutAState, FinalMiss, Goto, locals
<1> QED  BY <1>1, <1>2, <1>3, LocalStepInv DEF FinalMiss

LEMMA FindFinalTupleInv ==
    ASSUME Inv, NEW t \in Threads, FindFinalTuple(t) PROVE Inv'
<1> DEFINE u == FindTuple(table, cur[t])
<1>1. /\ pc[t] = "find_final_tuple"
      /\ pc' = [pc EXCEPT ![t] = "insert_final"]
      /\ tup' = [tup EXCEPT ![t] = u]
      /\ weight' = [weight EXCEPT ![t] = Final[tup'[t]]]
      /\ UNCHANGED <<origin, table, cache, cur, arcs, snap>>
  BY DEF FindFinalTuple, Goto
<1>2. cur[t] \in Allocated(table)
  BY <1>1 DEF Inv, CallInv, AboutAState
<1>3. u \in Tuples
  BY <1>2, NamedTuple DEF Inv, TypeOK
<1>4. tup'[t] = u /\ weight'[t] = Final[u] /\ Final[u] \in Weights
  BY <1>1, <1>3, MachineAssumption DEF Inv, TypeOK
<1>5. LocalsTypeOK'
  <2> HIDE DEF u
  <2> QED  BY <1>1, <1>3, <1>4 DEF Inv, TypeOK, LocalsTypeOK, Pcs
<1>6. OthersUnchanged(t)
  BY <1>1 DEF Inv, TypeOK, OthersUnchanged
<1>7. CallInv(t)'
  BY <1>1, <1>2, <1>4 DEF Inv, TypeOK, CallInv, AboutAState
<1> QED  BY <1>1, <1>5, <1>6, <1>7, LocalStepInv

LEMMA InsertFinalInv ==
    ASSUME Inv, NEW t \in Threads, InsertFinal(t) PROVE Inv'
<1> DEFINE n == Len(table.id_to_tuple)
           raised == Raised(cfinal.known, {cur[t]})
<1>1. /\ pc[t] = "insert_final"
      /\ pc' = [pc EXCEPT ![t] = "got_final"]
      /\ cfinal' = [data |-> Insert(cfinal.data, cur[t], weight[t]),
                    known |-> raised]
      /\ UNCHANGED <<origin, table, cstart, ctrs, cur, tup, arcs, weight, snap>>
  BY DEF InsertFinal, Goto, locals
<1>2. /\ cur[t] \in Allocated(table)
      /\ weight[t] = Final[FindTuple(table, cur[t])]
      /\ weight[t] \in Weights
  BY <1>1 DEF Inv, TypeOK, CallInv, AboutAState
<1>3. n \in Nat /\ cur[t] \in Nat /\ cur[t] < n
  BY <1>2 DEF Inv, TypeOK, TableType, Allocated
<1>4. cfinal.known \in Nat /\ cfinal.known <= n
  BY DEF Inv, KnownCovers, Covers, TheCache
<1>5. raised \in cfinal.known .. n /\ cur[t] < raised
  <2>1. {cur[t]} \in SUBSET Nat /\ \A i \in {cur[t]} : i < n
    BY <1>3
  <2> HIDE DEF n
  <2> QED  BY <1>3, <1>4, <2>1, RaisedCovers
<1>6. /\ DOMAIN cfinal'.data = DOMAIN cfinal.data \cup {cur[t]}
      /\ \A i \in DOMAIN cfinal'.data :
           cfinal'.data[i] = IF i = cur[t] THEN weight[t] ELSE cfinal.data[i]
      /\ cfinal'.known = raised
  BY <1>1 DEF Insert
<1>7. table' \in TableType /\ Bijective(table') /\ Extends(table, table')
  BY <1>1, ExtendsItself DEF Inv, TypeOK, TableBijective
<1>8. CacheTypeOK'
  <2>1. raised \in Nat
    BY <1>3, <1>4, <1>5
  <2>2. /\ DOMAIN cfinal'.data \subseteq Allocated(table)
        /\ cfinal'.data \in [DOMAIN cfinal'.data -> Weights]
    BY <1>1, <1>2, <1>6 DEF Inv, TypeOK, Insert
  <2> HIDE DEF raised
  <2> QED  BY <1>1, <1>6, <2>1, <2>2 DEF Inv, TypeOK, CacheTypeOK
<1>9. Sound(table', origin, TheCache')
  BY <1>1, <1>2, <1>6 DEF Inv, CacheSound, Sound, TheCache
<1>10. Covers(table', TheCache')
  <2>1. raised \in 0 .. n /\ cfinal.known <= raised
    BY <1>3, <1>4, <1>5
  <2>2. ASSUME NEW i \in DOMAIN cfinal'.data PROVE i < raised
    <3>1. CASE i = cur[t]
      BY <1>5, <3>1
    <3>2. CASE i # cur[t]
      <4>1. i \in DOMAIN cfinal.data
        BY <1>6, <3>2
      <4>2. i < cfinal.known /\ i \in Nat
        BY <1>3, <4>1 DEF Inv, TypeOK, KnownCovers, Covers, TheCache, Allocated
      <4> QED  BY <1>4, <2>1, <4>2
    <3> QED  BY <3>1, <3>2
  <2> HIDE DEF raised
  <2> QED  BY <1>1, <1>6, <2>1, <2>2 DEF Inv, KnownCovers, Covers, TheCache
<1>11. LocalsTypeOK'
  BY <1>1 DEF Inv, TypeOK, LocalsTypeOK, Pcs, Answered
<1>12. OthersUnchanged(t)
  BY <1>1 DEF Inv, TypeOK, OthersUnchanged
<1>13. CallInv(t)'
  BY <1>1, <1>2 DEF Inv, TypeOK, CallInv, AboutAState
<1> QED
  BY <1>1, <1>7, <1>8, <1>9, <1>10, <1>11, <1>12, <1>13, StepInv

LEMMA ComputeFailsInv ==
    ASSUME Inv, NEW t \in Threads, ComputeFails(t) PROVE Inv'
<1>1. LocalsTypeOK'
  BY DEF Inv, TypeOK, LocalsTypeOK, ComputeFails, Pcs, Answered, locals
<1>2. OthersUnchanged(t)
  BY DEF Inv, TypeOK, OthersUnchanged, ComputeFails, locals
<1>3. CallInv(t)'
  BY DEF Inv, TypeOK, CallInv, AboutAState, ComputeFails, locals
<1> QED  BY <1>1, <1>2, <1>3, LocalStepInv DEF ComputeFails

\* The table cloned second names every state that the cache cloned first
\* mentions: it may only have grown in between.
LEMMA CloneFieldInv ==
    ASSUME Inv, NEW t \in Threads, NEW field, CloneField(t, field) PROVE Inv'
<1> DEFINE clone == [f \in DOMAIN snap[t] \cup {field} |->
                       IF f = field THEN Copied(f) ELSE snap[t][f]]
<1>1. /\ pc[t] = "clone"
      /\ field = FieldOrder[IF snap[t] = Nothing THEN 1 ELSE 2]
      /\ pc' = [pc EXCEPT ![t] = IF field = FieldOrder[2] THEN "got_clone" ELSE @]
      /\ UNCHANGED <<origin, table, cache, cur, tup, arcs, weight>>
  BY DEF CloneField
<1>2. snap'[t] = clone /\ DOMAIN snap' = Threads
  BY DEF Inv, TypeOK, CloneField
<1>3. LocalsTypeOK'
  BY <1>1, <1>2 DEF Inv, TypeOK, LocalsTypeOK, Pcs, Answered
<1>4. OthersUnchanged(t)
  BY DEF Inv, TypeOK, OthersUnchanged, CloneField
<1>5. CASE snap[t] = Nothing
  <2>1. field = "cache" /\ pc'[t] = "clone"
    BY <1>1, <1>5 DEF FieldOrder, Inv, TypeOK
  <2>2. DOMAIN clone = {"cache"} /\ clone["cache"] = TheCache
    BY <1>5, <2>1 DEF Nothing, Copied
  <2>3. /\ DOMAIN snap'[t] = {"cache"}
        /\ Sound(table', origin', snap'[t]["cache"])
        /\ Covers(table', snap'[t]["cache"])
    BY <1>1, <1>2, <2>2 DEF Inv, CacheSound, KnownCovers
  <2>4. arcs'[t] = <<>>
    BY <1>1 DEF Inv, CallInv
  <2>5. CallInv(t)'
    <3> HIDE DEF clone
    <3> QED  BY <2>1, <2>3, <2>4 DEF CallInv, AboutAState
  <2> QED  BY <1>1, <1>3, <1>4, <2>5, LocalStepInv
<1>6. CASE snap[t] # Nothing
  <2>1. field = "op" /\ pc'[t] = "got_clone"
    BY <1>1, <1>6 DEF FieldOrder, Inv, TypeOK
  <2>2. /\ DOMAIN snap[t] = {"cache"}
        /\ Sound(table, origin, snap[t]["cache"])
        /\ Covers(table, snap[t]["cache"])
    BY <1>1, <1>6 DEF Inv, CallInv
  <2>3. /\ DOMAIN clone = {"cache", "op"}
        /\ clone["cache"] = snap[t]["cache"]
        /\ clone["op"] = table
    BY <2>1, <2>2 DEF Copied
  <2>4. ClosedCopy(origin', snap'[t])
    BY <1>1, <1>2, <2>2, <2>3 DEF ClosedCopy, Inv, TableBijective
  <2>5. arcs'[t] = <<>>
    BY <1>1 DEF Inv, CallInv
  <2>6. CallInv(t)'
    <3> HIDE DEF clone
    <3> QED  BY <2>1, <2>4, <2>5 DEF CallInv, AboutAState
  <2> QED  BY <1>1, <1>3, <1>4, <2>6, LocalStepInv
<1> QED  BY <1>5, <1>6

LEMMA ClearInv ==
    ASSUME Inv, NEW t \in Threads, Clear(t) PROVE Inv'
<1>1. /\ cstart' = [data |-> NotComputed, known |-> 0]
      /\ ctrs' = [data |-> Nothing, known |-> 0]
      /\ cfinal' = [data |-> Nothing, known |-> 0]
      /\ UNCHANGED <<origin, table, pc, cur, tup, arcs, weight, snap>>
  BY DEF Clear, NewCache, locals
<1>2. /\ DOMAIN ctrs'.data = {} /\ ctrs'.data \in [{} -> Seq(Nat)]
      /\ DOMAIN cfinal'.data = {} /\ cfinal'.data \in [{} -> Weights]
  BY <1>1 DEF Nothing
<1>3. table' \in TableType /\ Bijective(table') /\ Extends(table, table')
  BY <1>1, ExtendsItself DEF Inv, TypeOK, TableBijective
<1>4. CacheTypeOK'
  BY <1>1, <1>2 DEF CacheTypeOK
<1>5. Sound(table', origin, TheCache')
  BY <1>1, <1>2 DEF Sound, TheCache
<1>6. Covers(table', TheCache')
  <2>1. Len(table'.id_to_tuple) \in Nat
    BY <1>3 DEF TableType
  <2> QED  BY <1>1, <1>2, <2>1 DEF Covers, TheCache, NotComputed
<1>7. LocalsTypeOK'
  BY <1>1 DEF Inv, TypeOK, LocalsTypeOK
<1>8. OthersUnchanged(t)
  BY <1>1 DEF OthersUnchanged
<1>9. CallInv(t)'
  BY <1>1, <1>3, CallInvStable DEF Inv, TypeOK
<1> QED
  BY <1>1, <1>3, <1>4, <1>5, <1>6, <1>7, <1>8, <1>9, StepInv

-----------------------------------------------------------------------------
(* The theorems.                                                           *)

\* A step that changes nothing.
LEMMA StutterInv == Inv /\ UNCHANGED vars => Inv'
<1> SUFFICES ASSUME Inv, UNCHANGED vars PROVE Inv'
  OBVIOUS
<1>1. UNCHANGED <<origin, table, cstart, ctrs, cfinal, pc, cur, tup, arcs, weight, snap>>
  BY DEF vars, cache, locals
<1>2. TypeOK' /\ TableBijective' /\ CacheSound' /\ KnownCovers'
  BY <1>1 DEF Inv, TypeOK, TableBijective, CacheSound, KnownCovers, TheCache
<1>3. \A t \in Threads : CallInv(t)'
  BY <1>1 DEF Inv, CallInv
<1> QED  BY <1>2, <1>3 DEF Inv

LEMMA NextInv == Inv /\ [Next]_vars => Inv'
<1> SUFFICES ASSUME Inv, [Next]_vars PROVE Inv'
  OBVIOUS
<1>1. ASSUME NEW t \in Threads, Request(t) PROVE Inv'
  BY <1>1, CallStartInv, CallTrsInv, CallFinalInv, CallCloneInv DEF Request
<1>2. ASSUME NEW t \in Threads, Advance(t) PROVE Inv'
  BY <1>2, StartHitInv, StartMissInv, ComputeStartInv, InsertStartInv,
     TrsHitInv, TrsMissInv, FindTrsTupleInv, InternNextInv, InsertTrsInv,
     FinalHitInv, FinalMissInv, FindFinalTupleInv, InsertFinalInv,
     ComputeFailsInv, CloneFieldInv DEF Advance
<1>3. CASE UNCHANGED vars
  BY <1>3, StutterInv
<1> QED  BY <1>1, <1>2, <1>3, ClearInv, FinishInv DEF Next

\* The invariant that ties the table, the cache and the calls in progress holds
\* of every machine, for every number of threads: in particular, whatever falls
\* between a lookup in the cache and the insertion it leads to.
THEOREM InvHolds == Spec => []Inv
BY InitInv, NextInv, PTL DEF Spec

\* Every variable has its type.
THEOREM TypeOKHolds == Spec => []TypeOK
<1>1. Inv => TypeOK
  BY DEF Inv
<1> QED  BY <1>1, InvHolds, PTL

\* The threads never give a tuple two ids, or two tuples an id (find_id).
THEOREM TableBijectiveHolds == Spec => []TableBijective
<1>1. Inv => TableBijective
  BY DEF Inv
<1> QED  BY <1>1, InvHolds, PTL

\* The cache holds what the operation says, whichever thread put it there.
THEOREM CacheSoundHolds == Spec => []CacheSound
<1>1. Inv => CacheSound
  BY DEF Inv
<1> QED  BY <1>1, InvHolds, PTL

\* start(), get_trs() and final_weight() answer about the state they were asked
\* about, however their steps interleave with those of other threads.
THEOREM AnswersSoundHolds == Spec => []AnswersSound
<1>1. Inv => AnswersSound
  BY DEF Inv, CallInv, AnswersSound
<1> QED  BY <1>1, InvHolds, PTL

\* No call looks up an absent id in the state table (find_tuple would panic).
THEOREM NoAbsentLookupHolds == Spec => []NoAbsentLookup
<1>1. Inv => NoAbsentLookup
  BY DEF Inv, CallInv, AboutAState, NoAbsentLookup
<1> QED  BY <1>1, InvHolds, PTL

\* num_known_states counts every state the cache mentions, and no other than
\* those the table names.
THEOREM KnownCoversHolds == Spec => []KnownCovers
<1>1. Inv => KnownCovers
  BY DEF Inv
<1> QED  BY <1>1, InvHolds, PTL

\* A clone taken while the machine grows is a closed machine.
THEOREM CloneClosedHolds == Spec => []CloneClosed
<1>1. Inv => CloneClosed
  BY DEF Inv, CallInv, CloneClosed
<1> QED  BY <1>1, InvHolds, PTL

-----------------------------------------------------------------------------
(***************************************************************************)
(* LazyFst implements OnDemandFst: every step of a thread names a tuple,   *)
(* publishes an answer, clears, or shows nothing.  What makes it true is   *)
(* the invariant: a thread that publishes what another has published       *)
(* already publishes the same thing, because a tuple has one id.           *)
(***************************************************************************)

\* In a bijective table an id is known by its tuple.
LEMMA IdUnique ==
    ASSUME NEW tbl, Bijective(tbl),
           NEW i \in Allocated(tbl), NEW j \in Allocated(tbl),
           FindTuple(tbl, i) = FindTuple(tbl, j)
    PROVE  i = j
BY DEF Bijective

\* So are transitions known by the tuples of their destinations.
LEMMA DecodesUnique ==
    ASSUME NEW tbl, Bijective(tbl), NEW tuple,
           NEW x \in Seq(Nat), Decodes(tbl, tuple, x),
           NEW y \in Seq(Nat), Decodes(tbl, tuple, y)
    PROVE  x = y
<1>1. Len(x) = Len(y)
  BY DEF Decodes
<1>2. \A k \in 1 .. Len(x) : x[k] = y[k]
  <2> TAKE k \in 1 .. Len(x)
  <2>1. /\ x[k] \in Allocated(tbl) /\ y[k] \in Allocated(tbl)
        /\ FindTuple(tbl, x[k]) = FindTuple(tbl, y[k])
    BY <1>1 DEF Decodes
  <2> QED  BY <2>1, IdUnique
<1> QED  BY <1>1, <1>2

LEMMA InitImplements == Init => OnDemand!Init
<1> SUFFICES ASSUME Init PROVE OnDemand!Init
  OBVIOUS
<1>1. PICK names \in InitNames : table = TableOf(names)
  BY DEF Init
<1>2. table.id_to_tuple = names
  BY <1>1 DEF TableOf
<1> QED
  BY <1>2 DEF Init, NewCache, Nothing, NotComputed,
              OnDemand!Init, OnDemand!Nothing, OnDemand!NotComputed

\* find_id of a tuple the machine reaches: nothing, or a new name.
LEMMA InternImplements ==
    ASSUME Inv, NEW t \in Tuples, table' = Interned(table, t),
           \/ t = origin
           \/ \E u \in Range(table.id_to_tuple) : t \in Range(Succ[u]),
           UNCHANGED <<origin, cache>>
    PROVE  [OnDemand!Next]_(OnDemand!vars)
<1>1. UNCHANGED <<origin, cstart.data, ctrs.data, cfinal.data>>
  BY DEF cache
<1>2. table \in TableType /\ Bijective(table)
  BY DEF Inv, TypeOK, TableBijective
<1>3. CASE table.tuple_to_id[t] # Vacant
  BY <1>1, <1>3 DEF Interned, OnDemand!vars
<1>4. CASE table.tuple_to_id[t] = Vacant
  <2>1. table'.id_to_tuple = Append(table.id_to_tuple, t)
    BY <1>4 DEF Interned
  <2>2. t \notin Range(table.id_to_tuple)
    <3> SUFFICES ASSUME NEW i \in DOMAIN table.id_to_tuple,
                        table.id_to_tuple[i] = t
                 PROVE  FALSE
      BY DEF Range
    <3>1. i - 1 \in Allocated(table) /\ FindTuple(table, i - 1) = t
      BY <1>2 DEF TableType, Allocated, FindTuple
    <3>2. table.tuple_to_id[t] = i - 1 /\ i - 1 \in Nat
      BY <1>2, <3>1 DEF Bijective, TableType
    <3> QED  BY <1>4, <3>2 DEF Vacant
  <2>3. OnDemand!Name(t)
    BY <1>1, <2>1, <2>2 DEF OnDemand!Name, OnDemand!Named, OnDemand!Range, Range
  <2> QED  BY <2>3 DEF OnDemand!Next
<1> QED  BY <1>3, <1>4

LEMMA ComputeStartImplements ==
    ASSUME Inv, NEW t \in Threads, ComputeStart(t)
    PROVE  [OnDemand!Next]_(OnDemand!vars)
<1>1. CASE origin = NoTuple
  BY <1>1 DEF ComputeStart, OnDemand!vars, cache
<1>2. CASE origin # NoTuple
  <2>1. origin \in Tuples
    BY <1>2 DEF Inv, TypeOK
  <2> QED  BY <1>2, <2>1, InternImplements DEF ComputeStart
<1> QED  BY <1>1, <1>2

LEMMA InsertStartImplements ==
    ASSUME Inv, NEW t \in Threads, InsertStart(t)
    PROVE  [OnDemand!Next]_(OnDemand!vars)
<1>1. /\ cstart'.data = cur[t]
      /\ UNCHANGED <<origin, table, ctrs, cfinal>>
      /\ pc[t] = "insert_start"
  BY DEF InsertStart, Goto
<1>2. IsStart(table, origin, cur[t])
  BY <1>1 DEF Inv, CallInv
<1>3. CASE cstart.data = NotComputed
  <2>1. OnDemand!PublishStart
    <3>1. CASE origin = NoTuple
      BY <1>1, <1>2, <1>3, <3>1
         DEF OnDemand!PublishStart, OnDemand!NotComputed, NotComputed,
             OnDemand!NoState, NoState, IsStart
    <3>2. CASE origin # NoTuple
      <4>1. /\ cur[t] \in 0 .. Len(table.id_to_tuple) - 1
            /\ table.id_to_tuple[cur[t] + 1] = origin
        BY <1>2, <3>2 DEF IsStart, Allocated, FindTuple
      <4> QED
        BY <1>1, <1>3, <3>2, <4>1
           DEF OnDemand!PublishStart, OnDemand!NotComputed, NotComputed,
               OnDemand!IsIdOf
    <3> QED  BY <3>1, <3>2
  <2> QED  BY <2>1 DEF OnDemand!Next
<1>4. CASE cstart.data # NotComputed
  <2>1. IsStart(table, origin, cstart.data) /\ Bijective(table)
    BY <1>4 DEF Inv, CacheSound, Sound, TheCache, TableBijective
  <2>2. cstart.data = cur[t]
    BY <1>2, <2>1, IdUnique DEF IsStart
  <2> QED  BY <1>1, <2>2 DEF OnDemand!vars
<1> QED  BY <1>3, <1>4

LEMMA InternNextImplements ==
    ASSUME Inv, NEW t \in Threads, InternNext(t)
    PROVE  [OnDemand!Next]_(OnDemand!vars)
<1> DEFINE u == tup[t]
           k == Len(arcs[t]) + 1
           next == Succ[u][k]
<1>1. /\ pc[t] = "intern"
      /\ Len(arcs[t]) < Len(Succ[u])
      /\ table' = Interned(table, next)
      /\ UNCHANGED <<origin, cache>>
  BY DEF InternNext, Goto
<1>2. /\ cur[t] \in Allocated(table)
      /\ u = FindTuple(table, cur[t])
      /\ table \in TableType
      /\ arcs[t] \in Seq(Nat)
  BY <1>1 DEF Inv, TypeOK, CallInv, AboutAState
<1>3. u \in Tuples
  BY <1>2, NamedTuple
<1>4. u \in Range(table.id_to_tuple)
  <2>1. cur[t] + 1 \in DOMAIN table.id_to_tuple
    BY <1>2 DEF TableType, Allocated
  <2> QED  BY <1>2, <2>1 DEF FindTuple, Range
<1>5. next \in Tuples /\ next \in Range(Succ[u])
  <2>1. Succ[u] \in Seq(Tuples)
    BY <1>3, MachineAssumption
  <2>2. k \in 1 .. Len(Succ[u])
    BY <1>1, <1>2, <2>1
  <2> QED  BY <2>1, <2>2 DEF Range
<1> HIDE DEF u, k, next
<1> QED  BY <1>1, <1>4, <1>5, InternImplements

LEMMA InsertTrsImplements ==
    ASSUME Inv, NEW t \in Threads, InsertTrs(t)
    PROVE  [OnDemand!Next]_(OnDemand!vars)
<1> DEFINE s == cur[t]
           trs == arcs[t]
           u == FindTuple(table, s)
<1>1. /\ pc[t] = "intern"
      /\ Len(trs) = Len(Succ[tup[t]])
      /\ ctrs'.data = Insert(ctrs.data, s, trs)
      /\ UNCHANGED <<origin, table, cstart, cfinal>>
  BY DEF InsertTrs, Goto
<1>2. s \in Allocated(table) /\ trs \in Seq(Nat) /\ u = tup[t]
  BY <1>1 DEF Inv, TypeOK, CallInv, AboutAState
<1>3. Decodes(table, u, trs)
  BY <1>1, <1>2 DEF Inv, CallInv, DecodesPrefix, Decodes
<1>4. CASE s \in DOMAIN ctrs.data
  <2>1. /\ Decodes(table, u, ctrs.data[s])
        /\ ctrs.data \in [DOMAIN ctrs.data -> Seq(Nat)]
        /\ Bijective(table)
    BY <1>4 DEF Inv, TypeOK, CacheSound, Sound, TheCache, TableBijective
  <2>2. ctrs.data[s] = trs
    <3> HIDE DEF u, trs, s
    <3> QED  BY <1>2, <1>3, <1>4, <2>1, DecodesUnique
  <2>3. ctrs'.data = ctrs.data
    <3> HIDE DEF s, trs
    <3> QED  BY <1>1, <1>4, <2>1, <2>2 DEF Insert
  <2> QED  BY <1>1, <2>3 DEF OnDemand!vars
<1>5. CASE s \notin DOMAIN ctrs.data
  <2> DEFINE succ == Succ[u]
             n == Len(table.id_to_tuple)
  <2>1. u \in Tuples
    BY <1>2, NamedTuple DEF Inv, TypeOK
  <2>2. succ \in Seq(Tuples)
    BY <2>1, MachineAssumption
  <2>3. /\ trs \in [DOMAIN succ -> 0 .. n - 1]
        /\ \A k \in DOMAIN succ : OnDemand!IsIdOf(trs[k], succ[k])
    <3>1. DOMAIN succ = DOMAIN trs
      BY <1>2, <1>3, <2>2 DEF Decodes
    <3>2. \A k \in DOMAIN trs : /\ trs[k] \in 0 .. n - 1
                                /\ OnDemand!IsIdOf(trs[k], succ[k])
      BY <1>3 DEF Decodes, Allocated, FindTuple, OnDemand!IsIdOf
    <3> QED  BY <1>2, <3>1, <3>2
  <2>4. ctrs'.data = OnDemand!Extend(ctrs.data, s, trs)
    BY <1>1 DEF Insert, OnDemand!Extend
  <2>5. OnDemand!PublishArcs(s)
    <3>1. succ = Succ[table.id_to_tuple[s + 1]]
      BY DEF FindTuple
    <3> HIDE DEF succ, s, trs, n
    <3>2. UNCHANGED <<origin, table.id_to_tuple, cstart.data, cfinal.data>>
      BY <1>1
    <3> QED
      BY <1>5, <2>3, <2>4, <3>1, <3>2 DEF OnDemand!PublishArcs, n
  <2>6. s \in 0 .. n - 1
    BY <1>2 DEF Allocated
  <2> QED  BY <2>5, <2>6 DEF OnDemand!Next
<1> QED  BY <1>4, <1>5

LEMMA InsertFinalImplements ==
    ASSUME Inv, NEW t \in Threads, InsertFinal(t)
    PROVE  [OnDemand!Next]_(OnDemand!vars)
<1> DEFINE s == cur[t]
           w == weight[t]
<1>1. /\ pc[t] = "insert_final"
      /\ cfinal'.data = Insert(cfinal.data, s, w)
      /\ UNCHANGED <<origin, table, cstart, ctrs>>
  BY DEF InsertFinal, Goto
<1>2. s \in Allocated(table) /\ w = Final[FindTuple(table, s)]
  BY <1>1 DEF Inv, CallInv, AboutAState
<1>3. CASE s \in DOMAIN cfinal.data
  <2>1. /\ cfinal.data[s] = w
        /\ cfinal.data \in [DOMAIN cfinal.data -> Weights]
    BY <1>2, <1>3 DEF Inv, TypeOK, CacheSound, Sound, TheCache
  <2>2. cfinal'.data = cfinal.data
    <3> HIDE DEF s, w
    <3> QED  BY <1>1, <1>3, <2>1 DEF Insert
  <2> QED  BY <1>1, <2>2 DEF OnDemand!vars
<1>4. CASE s \notin DOMAIN cfinal.data
  <2>1. cfinal'.data = OnDemand!Extend(cfinal.data, s, Final[table.id_to_tuple[s + 1]])
    BY <1>1, <1>2 DEF Insert, OnDemand!Extend, FindTuple
  <2>2. OnDemand!PublishFinal(s)
    BY <1>1, <1>4, <2>1 DEF OnDemand!PublishFinal
  <2>3. s \in 0 .. Len(table.id_to_tuple) - 1
    BY <1>2 DEF Allocated
  <2> QED  BY <2>2, <2>3 DEF OnDemand!Next
<1> QED  BY <1>3, <1>4

LEMMA ClearImplements ==
    ASSUME NEW t \in Threads, Clear(t)
    PROVE  [OnDemand!Next]_(OnDemand!vars)
<1>1. OnDemand!Unpublish
  BY DEF Clear, NewCache, Nothing, NotComputed, OnDemand!Unpublish,
         OnDemand!Nothing, OnDemand!NotComputed
<1> QED  BY <1>1 DEF OnDemand!Next

\* Everything else is inside a thread.
LEMMA LocalImplements ==
    ASSUME UNCHANGED <<origin, table, cache>>
    PROVE  [OnDemand!Next]_(OnDemand!vars)
BY DEF OnDemand!vars, cache

LEMMA NextImplements == Inv /\ [Next]_vars => [OnDemand!Next]_(OnDemand!vars)
<1> SUFFICES ASSUME Inv, [Next]_vars PROVE [OnDemand!Next]_(OnDemand!vars)
  OBVIOUS
<1>1. ASSUME NEW t \in Threads, Request(t) PROVE [OnDemand!Next]_(OnDemand!vars)
  <2>1. UNCHANGED <<origin, table, cache>>
    BY <1>1 DEF Request, CallStart, CallTrs, CallFinal, CallClone, Call
  <2> QED  BY <2>1, LocalImplements
<1>2. ASSUME NEW t \in Threads, Advance(t) PROVE [OnDemand!Next]_(OnDemand!vars)
  <2>1. CASE \/ StartHit(t) \/ StartMiss(t) \/ TrsHit(t) \/ TrsMiss(t)
             \/ FindTrsTuple(t) \/ FinalHit(t) \/ FinalMiss(t)
             \/ FindFinalTuple(t) \/ ComputeFails(t)
             \/ CloneField(t, "cache") \/ CloneField(t, "op")
    <3>1. UNCHANGED <<origin, table, cache>>
      BY <2>1 DEF StartHit, StartMiss, TrsHit, TrsMiss, FindTrsTuple, FinalHit,
                  FinalMiss, FindFinalTuple, ComputeFails, CloneField
    <3> QED  BY <3>1, LocalImplements
  <2>2. CASE ComputeStart(t) \/ InsertStart(t) \/ InternNext(t)
             \/ InsertTrs(t) \/ InsertFinal(t)
    BY <2>2, ComputeStartImplements, InsertStartImplements, InternNextImplements,
       InsertTrsImplements, InsertFinalImplements
  <2> QED  BY <1>2, <2>1, <2>2 DEF Advance
<1>3. ASSUME NEW t \in Threads, Finish(t) PROVE [OnDemand!Next]_(OnDemand!vars)
  BY <1>3, LocalImplements DEF Finish
<1>4. CASE UNCHANGED vars
  BY <1>4, LocalImplements DEF vars
<1> QED  BY <1>1, <1>2, <1>3, <1>4, ClearImplements DEF Next

\* The machine that the threads discover together is one machine: a state is
\* named once, and what is published about it is what the operation says of its
\* tuple, again after a clear.
THEOREM ImplementsHolds == Spec => Implements
BY InvHolds, InitImplements, NextImplements, PTL DEF Spec, Implements, OnDemand!Spec

=============================================================================
