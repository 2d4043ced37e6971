------------------------- MODULE CacheLayers_proofs -------------------------
(***************************************************************************)
(* Proofs about CacheLayers, for any machine, any number of threads and of *)
(* calls of clear: every layer answers what the operation says, an         *)
(* iteration finds the entries it does not check, and the files that are   *)
(* written while the machine grows fit together.                           *)
(***************************************************************************)
EXTENDS CacheLayers, StateTable_proofs, FiniteSetTheorems

-----------------------------------------------------------------------------
(* What is right by a table stays right by a table that extends it.        *)

LEMMA PrefixExtends ==
    ASSUME NEW old, NEW new, Extends(old, new),
           NEW tuple, NEW trs, DecodesPrefix(old, tuple, trs)
    PROVE  DecodesPrefix(new, tuple, trs)
BY DEF Extends, DecodesPrefix

LEMMA TrsRightExtends ==
    ASSUME NEW old, NEW new, Extends(old, new),
           NEW id, NEW trs, TrsRight(old, id, trs)
    PROVE  TrsRight(new, id, trs)
BY PrefixExtends DEF Extends, TrsRight, Decodes

LEMMA FinalRightExtends ==
    ASSUME NEW old, NEW new, Extends(old, new),
           NEW id, NEW w, FinalRight(old, id, w)
    PROVE  FinalRight(new, id, w)
BY DEF Extends, FinalRight

LEMMA CallInvExtends ==
    ASSUME NEW old, NEW new, Extends(old, new),
           NEW cached, NEW more, cached \subseteq more,
           NEW c, CallInv(old, cached, c)
    PROVE  CallInv(new, more, c)
<1>1. c.id \in Allocated(new) /\ FindTuple(new, c.id) = FindTuple(old, c.id)
  BY DEF CallInv, Extends
<1>2. c.pc = "compute" => DecodesPrefix(new, FindTuple(new, c.id), c.built)
  BY <1>1, PrefixExtends DEF CallInv
<1>3. TrsAnswered(c) => Decodes(new, FindTuple(new, c.id), c.trs)
  BY <1>1, PrefixExtends DEF CallInv, Decodes
<1> QED  BY <1>1, <1>2, <1>3 DEF CallInv

\* What the writer has written stays right while the machine grows.
LEMMA FileExtends ==
    ASSUME FileInv, Extends(table, table'), UNCHANGED files
    PROVE  FileInv'
<1>1. writer' = writer /\ file' = file
  BY DEF files
<1>2. FileTable' = FileTable \/ (FileTable = table /\ FileTable' = table')
  BY <1>1 DEF FileTable
<1>3. \A i, v : TrsRight(FileTable, i, v) => TrsRight(FileTable', i, v)
  BY <1>2, TrsRightExtends
<1>4. \A i, v : FinalRight(FileTable, i, v) => FinalRight(FileTable', i, v)
  BY <1>2, FinalRightExtends
<1> HIDE DEF FileTable
<1> QED  BY <1>1, <1>3, <1>4 DEF FileInv

LEMMA TableExtends ==
    ASSUME TableInv, Extends(table, table'), table' \in TableType, Bijective(table')
    PROVE  TableInv'
BY DEF TableInv, Extends

\* The start was named when the machine was built.
LEMMA StartId ==
    ASSUME TableInv PROVE FindId(table, Start) = 0
BY DEF TableInv, Bijective, FindId, Vacant

\* What the files say of the cache only depends on both of them.
LEMMA QuietKept ==
    ASSUME QuietInv, UNCHANGED <<layer, cstart, ctrs, cfinal, writer, file, quiet>>
    PROVE  QuietInv'
<1>1. /\ LenOf(ctrs.data)' = LenOf(ctrs.data)
      /\ LenOf(cfinal.data)' = LenOf(cfinal.data)
  BY DEF LenOf
<1>2. /\ Entries(ctrs.data)' = Entries(ctrs.data)
      /\ Entries(cfinal.data)' = Entries(cfinal.data)
  BY <1>1 DEF Entries, Places
<1>3. /\ Begun("trs", ctrs.data) => Begun("trs", ctrs.data)'
      /\ Begun("fin", cfinal.data) => Begun("fin", cfinal.data)'
  BY <1>1 DEF Begun
<1> QED  BY <1>1, <1>2, <1>3 DEF QuietInv

-----------------------------------------------------------------------------
(* A step inside a call, that leaves the cache as it is.                   *)

LEMMA CallStepInv ==
    ASSUME Inv, NEW t \in Threads, NEW new, Step(t, new),
           UNCHANGED <<layer, cache, slots, files, quiet>>,
           table' \in TableType, Bijective(table'), Extends(table, table'),
           CallInv(table', DOMAIN ctrs.data, new)
    PROVE  Inv'
<1>1. /\ UNCHANGED <<layer, cstart, ctrs, cfinal, lastTrs, lastFinal, writer, file, quiet>>
  BY DEF cache, slots, files
<1>2. TableInv' /\ FileInv'
  BY TableExtends, FileExtends DEF Inv
<1>3. CacheInv'
  BY <1>1, TrsRightExtends, FinalRightExtends DEF Inv, CacheInv, IsEntries
<1>4. SlotsInv'
  BY <1>1, TrsRightExtends, FinalRightExtends DEF Inv, SlotsInv
<1>5. QuietInv'
  BY <1>1, QuietKept DEF Inv
<1>6. DOMAIN calls' = Threads
  BY DEF Inv, Step
<1>7. ASSUME NEW u \in Threads PROVE CallInv(table', DOMAIN ctrs'.data, calls'[u])
  <2>1. CASE u = t
    BY <1>1, <2>1 DEF Inv, Step
  <2>2. CASE u # t
    <3>1. calls'[u] = calls[u]
      BY <2>2 DEF Inv, Step
    <3> QED  BY <1>1, <3>1, CallInvExtends DEF Inv
  <2> QED  BY <2>1, <2>2
<1> QED  BY <1>2, <1>3, <1>4, <1>5, <1>6, <1>7 DEF Inv

\* The same, when the table is left as it is too.
LEMMA CallKeptInv ==
    ASSUME Inv, NEW t \in Threads, NEW new, Step(t, new),
           UNCHANGED <<layer, table, cache, slots, files, quiet>>,
           CallInv(table, DOMAIN ctrs.data, new)
    PROVE  Inv'
<1>1. table' \in TableType /\ Bijective(table') /\ Extends(table, table')
  BY ExtendsItself DEF Inv, TableInv
<1> QED  BY <1>1, CallStepInv

LEMMA BeginInv ==
    ASSUME Inv, NEW t \in Threads, Begin(t) PROVE Inv'
<1>1. PICK job \in Jobs[t] \ {"clear"}, id \in Allocated(table) :
        /\ At(t, "idle")
        /\ job = "start" => id = 0
        /\ Step(t, [Idle EXCEPT !.job = job, !.id = id,
                                !.want = IF job = "final" THEN "final" ELSE "trs",
                                !.pc = CASE job = "start" -> "get_start"
                                         [] job = "final" -> "get_final"
                                         [] OTHER -> "get_trs"])
        /\ UNCHANGED <<layer, table, cache, slots, clears, files, quiet>>
  BY DEF Begin
<1> DEFINE new == [Idle EXCEPT !.job = job, !.id = id,
                              !.want = IF job = "final" THEN "final" ELSE "trs",
                              !.pc = CASE job = "start" -> "get_start"
                                       [] job = "final" -> "get_final"
                                       [] OTHER -> "get_trs"]
<1>2. job \in {"start", "trs", "final", "iter"}
  BY JobsAssumption
<1>3. /\ DOMAIN new = DOMAIN Idle /\ new.job = job /\ new.id = id
      /\ new.built = <<>>
      /\ new.want = IF job = "final" THEN "final" ELSE "trs"
      /\ new.pc = IF job = "start" THEN "get_start"
                  ELSE IF job = "final" THEN "get_final" ELSE "get_trs"
  BY <1>2 DEF Idle
<1> HIDE DEF new
<1>4. CallInv(table, DOMAIN ctrs.data, new)
  BY <1>1, <1>2, <1>3 DEF CallInv, TrsAnswered, FinalAnswered
<1> QED  BY <1>1, <1>4, CallKeptInv DEF new

LEMMA FinishInv ==
    ASSUME Inv, NEW t \in Threads, Finish(t) PROVE Inv'
<1>1. CallInv(table, DOMAIN ctrs.data, Idle)
  BY DEF Inv, TableInv, CallInv, Idle, TrsAnswered, FinalAnswered
<1> QED  BY <1>1, CallKeptInv DEF Finish

LEMMA GetStartInv ==
    ASSUME Inv, NEW t \in Threads, GetStart(t) PROVE Inv'
<1> DEFINE c == calls[t]
           new == IF cstart.data = NotComputed
                  THEN [c EXCEPT !.pc = "insert_start", !.id = FindId(table, Start)]
                  ELSE [c EXCEPT !.pc = "done", !.id = cstart.data]
<1>1. c.pc = "get_start" /\ CallInv(table, DOMAIN ctrs.data, c)
  BY DEF Inv, GetStart, At
<1>2. c.job = "start" /\ DOMAIN c = DOMAIN Idle /\ c.built = <<>>
  BY <1>1 DEF CallInv
<1>3. /\ DOMAIN new = DOMAIN Idle /\ new.job = "start" /\ new.built = <<>>
      /\ new.pc \in {"insert_start", "done"} /\ new.id = 0
  BY <1>2, StartId DEF Inv, CacheInv, Idle
<1> HIDE DEF new
<1>4. CallInv(table, DOMAIN ctrs.data, new)
  BY <1>3 DEF CallInv, TrsAnswered, FinalAnswered, Inv, TableInv
<1> QED  BY <1>4, CallKeptInv DEF GetStart, new

\* What the cache, or the slot in front of it, answers is right.
LEMMA TrsOfRight ==
    ASSUME Inv, NEW id, TrsKnown(id)
    PROVE  id \in DOMAIN ctrs.data /\ TrsRight(table, id, TrsOf(id))
BY DEF Inv, CacheInv, SlotsInv, TrsKnown, TrsOf, Slot

LEMMA FinalOfRight ==
    ASSUME Inv, NEW id, FinalKnown(id)
    PROVE  FinalRight(table, id, FinalOf(id))
BY DEF Inv, CacheInv, SlotsInv, FinalKnown, FinalOf, Slot

LEMMA NothingBuilt ==
    ASSUME NEW tab \in TableType, NEW id \in Allocated(tab)
    PROVE  DecodesPrefix(tab, FindTuple(tab, id), <<>>)
<1>1. FindTuple(tab, id) \in Tuples
  BY NamedTuple
<1>2. Succ[FindTuple(tab, id)] \in Seq(Tuples)
  BY <1>1, LayersAssumption
<1>3. Len(Succ[FindTuple(tab, id)]) \in Nat /\ Len(<<>>) = 0 /\ DOMAIN <<>> = {}
  BY <1>2
<1> QED  BY <1>3 DEF DecodesPrefix

LEMMA GetTrsInv ==
    ASSUME Inv, NEW t \in Threads, GetTrs(t) PROVE Inv'
<1> DEFINE c == calls[t]
           new == IF TrsKnown(c.id)
                  THEN [c EXCEPT !.pc = After(t), !.trs = TrsOf(c.id)]
                  ELSE [c EXCEPT !.pc = "compute"]
<1>1. c.pc = "get_trs" /\ CallInv(table, DOMAIN ctrs.data, c)
  BY DEF Inv, GetTrs, At
<1>2. /\ c.job \in {"trs", "iter"} /\ c.want = "trs" /\ c.built = <<>>
      /\ DOMAIN c = DOMAIN Idle /\ c.id \in Allocated(table)
  BY <1>1 DEF CallInv
<1>3. CASE TrsKnown(c.id)
  <2>1. /\ DOMAIN new = DOMAIN Idle /\ new.job = c.job /\ new.id = c.id
        /\ new.built = <<>> /\ new.trs = TrsOf(c.id)
        /\ new.pc = After(t)
    BY <1>2, <1>3 DEF Idle
  <2>2. c.id \in DOMAIN ctrs.data /\ TrsRight(table, c.id, TrsOf(c.id))
    BY <1>3, TrsOfRight
  <2>3. After(t) = IF c.job = "iter" THEN "get_final" ELSE "done"
    BY <1>2 DEF After
  <2> HIDE DEF new, c
  <2>4. CallInv(table, DOMAIN ctrs.data, new)
    BY <1>2, <2>1, <2>2, <2>3 DEF CallInv, TrsAnswered, FinalAnswered, TrsRight
  <2> QED  BY <2>4, CallKeptInv DEF GetTrs, new, c
<1>4. CASE ~ TrsKnown(c.id)
  <2>1. /\ DOMAIN new = DOMAIN Idle /\ new.job = c.job /\ new.id = c.id
        /\ new.built = <<>> /\ new.want = "trs" /\ new.pc = "compute"
    BY <1>2, <1>4 DEF Idle
  <2> HIDE DEF new, c
  <2>2. DecodesPrefix(table, FindTuple(table, c.id), <<>>)
    BY <1>2, NothingBuilt DEF Inv, TableInv
  <2>3. CallInv(table, DOMAIN ctrs.data, new)
    BY <1>2, <2>1, <2>2 DEF CallInv, TrsAnswered, FinalAnswered
  <2> QED  BY <2>3, CallKeptInv DEF GetTrs, new, c
<1> QED  BY <1>3, <1>4

LEMMA GetFinalInv ==
    ASSUME Inv, NEW t \in Threads, GetFinal(t) PROVE Inv'
<1> DEFINE c == [calls[t] EXCEPT !.want = "final"]
           new == IF FinalKnown(c.id)
                  THEN [c EXCEPT !.pc = IF c.job = "iter" THEN "num_trs" ELSE "done",
                                 !.final = FinalOf(c.id)]
                  ELSE [c EXCEPT !.pc = "compute"]
<1>1. calls[t].pc = "get_final" /\ CallInv(table, DOMAIN ctrs.data, calls[t])
  BY DEF Inv, GetFinal, At
<1>2. /\ DOMAIN c = DOMAIN Idle /\ c.want = "final"
      /\ c.id = calls[t].id /\ c.job = calls[t].job /\ c.built = calls[t].built
      /\ c.trs = calls[t].trs /\ c.cleared = calls[t].cleared /\ c.pc = "get_final"
  BY <1>1 DEF CallInv, Idle
<1>3. /\ c.job \in {"final", "iter"} /\ c.built = <<>> /\ c.id \in Allocated(table)
      /\ c.job = "iter" => /\ Decodes(table, FindTuple(table, c.id), c.trs)
                           /\ ~ c.cleared => c.id \in DOMAIN ctrs.data
  BY <1>1, <1>2 DEF CallInv, TrsAnswered
<1>4. Step(t, new)
  BY DEF GetFinal
<1> HIDE DEF c
<1>5. CASE FinalKnown(c.id)
  <2>1. /\ DOMAIN new = DOMAIN Idle /\ new.job = c.job /\ new.id = c.id
        /\ new.built = <<>> /\ new.trs = c.trs /\ new.cleared = c.cleared
        /\ new.final = FinalOf(c.id)
        /\ new.pc = IF c.job = "iter" THEN "num_trs" ELSE "done"
    BY <1>2, <1>3, <1>5 DEF Idle
  <2>2. FinalRight(table, c.id, FinalOf(c.id))
    BY <1>5, FinalOfRight
  <2> HIDE DEF new
  <2>3. CallInv(table, DOMAIN ctrs.data, new)
    BY <1>3, <2>1, <2>2 DEF CallInv, TrsAnswered, FinalAnswered, FinalRight
  <2> QED  BY <1>4, <2>3, CallKeptInv DEF GetFinal
<1>6. CASE ~ FinalKnown(c.id)
  <2>1. /\ DOMAIN new = DOMAIN Idle /\ new.job = c.job /\ new.id = c.id
        /\ new.built = <<>> /\ new.trs = c.trs /\ new.cleared = c.cleared
        /\ new.want = "final" /\ new.pc = "compute"
    BY <1>2, <1>3, <1>6 DEF Idle
  <2>2. DecodesPrefix(table, FindTuple(table, c.id), <<>>)
    BY <1>3, NothingBuilt DEF Inv, TableInv
  <2> HIDE DEF new
  <2>3. CallInv(table, DOMAIN ctrs.data, new)
    BY <1>3, <2>1, <2>2 DEF CallInv, TrsAnswered, FinalAnswered
  <2> QED  BY <1>4, <2>3, CallKeptInv DEF GetFinal
<1> QED  BY <1>5, <1>6

\* find_id names one more destination.
LEMMA PrefixAppend ==
    ASSUME NEW tab \in TableType, Bijective(tab), NEW tuple \in Tuples, NEW trs,
           DecodesPrefix(tab, tuple, trs), Len(trs) < Len(Succ[tuple])
    PROVE  LET next == Succ[tuple][Len(trs) + 1]
           IN  /\ next \in Tuples
               /\ DecodesPrefix(Interned(tab, next), tuple, Append(trs, FindId(tab, next)))
<1> DEFINE n == Len(trs)
           next == Succ[tuple][n + 1]
           id == FindId(tab, next)
           new == Interned(tab, next)
<1>1. /\ trs \in Seq(Nat) /\ n \in Nat /\ Succ[tuple] \in Seq(Tuples)
      /\ Len(Succ[tuple]) \in Nat
  BY LayersAssumption DEF DecodesPrefix
<1>2. next \in Tuples
  BY <1>1
<1>3. /\ Extends(tab, new) /\ id \in Allocated(new) /\ FindTuple(new, id) = next
      /\ new \in TableType
  <2> HIDE DEF next
  <2> QED  BY <1>2, InternedExtends
<1>4. id \in Nat
  BY <1>3 DEF Allocated, TableType
<1>5. DecodesPrefix(new, tuple, trs)
  BY <1>3, PrefixExtends
<1> HIDE DEF id, new
<1>6. /\ Append(trs, id) \in Seq(Nat) /\ Len(Append(trs, id)) = n + 1
      /\ DOMAIN Append(trs, id) = 1 .. n + 1 /\ Append(trs, id)[n + 1] = id
      /\ \A k \in 1 .. n : k \in DOMAIN trs /\ Append(trs, id)[k] = trs[k]
  BY <1>1, <1>4
<1>7. \A k \in 1 .. n + 1 : /\ Append(trs, id)[k] \in Allocated(new)
                            /\ FindTuple(new, Append(trs, id)[k]) = Succ[tuple][k]
  <2> TAKE k \in 1 .. n + 1
  <2>1. CASE k = n + 1
    BY <1>3, <1>6, <2>1 DEF id, new
  <2>2. CASE k # n + 1
    <3>1. k \in 1 .. n
      BY <1>1, <2>2
    <3> QED  BY <1>5, <1>6, <3>1 DEF DecodesPrefix
  <2> QED  BY <2>1, <2>2
<1>8. DecodesPrefix(new, tuple, Append(trs, id))
  BY <1>1, <1>6, <1>7 DEF DecodesPrefix
<1> QED  BY <1>2, <1>8 DEF id, new

LEMMA InternNextInv ==
    ASSUME Inv, NEW t \in Threads, InternNext(t) PROVE Inv'
<1> DEFINE c == calls[t]
           tuple == FindTuple(table, c.id)
           next == Succ[tuple][Len(c.built) + 1]
           new == [c EXCEPT !.built = Append(@, FindId(table, next))]
<1>1. /\ c.pc = "compute" /\ Len(c.built) < Len(Succ[tuple])
      /\ table' = Interned(table, next) /\ Step(t, new)
      /\ UNCHANGED <<layer, cache, slots, files, quiet>>
  BY DEF InternNext, At, Tuple
<1>2. CallInv(table, DOMAIN ctrs.data, c) /\ table \in TableType /\ Bijective(table)
  BY DEF Inv, TableInv
<1>3. /\ c.id \in Allocated(table) /\ tuple \in Tuples
      /\ DecodesPrefix(table, tuple, c.built)
  BY <1>1, <1>2, NamedTuple DEF CallInv
<1>4. next \in Tuples /\ DecodesPrefix(table', tuple, Append(c.built, FindId(table, next)))
  BY <1>1, <1>2, <1>3, PrefixAppend
<1>5. table' \in TableType /\ Bijective(table') /\ Extends(table, table')
  <2> HIDE DEF next
  <2> QED  BY <1>1, <1>2, <1>4, InternedExtends
<1>6. CallInv(table', DOMAIN ctrs.data, new)
  <2>1. CallInv(table', DOMAIN ctrs.data, c)
    BY <1>2, <1>5, CallInvExtends
  <2>2. FindTuple(table', c.id) = tuple
    BY <1>3, <1>5 DEF Extends
  <2>3. /\ DOMAIN new = DOMAIN Idle /\ new.built = Append(c.built, FindId(table, next))
        /\ new.pc = c.pc /\ new.job = c.job /\ new.want = c.want /\ new.id = c.id
        /\ new.trs = c.trs /\ new.final = c.final /\ new.num = c.num
        /\ new.cleared = c.cleared
    BY <1>2 DEF CallInv, Idle
  <2> HIDE DEF new, next, c
  <2> QED  BY <1>1, <1>4, <2>1, <2>2, <2>3 DEF CallInv, TrsAnswered, FinalAnswered
<1> QED  BY <1>1, <1>5, <1>6, CallStepInv

LEMMA ComputeFinalInv ==
    ASSUME Inv, NEW t \in Threads, ComputeFinal(t) PROVE Inv'
<1> DEFINE c == calls[t]
           new == [c EXCEPT !.pc = "insert_final", !.built = <<>>,
                            !.final = Final[FindTuple(table, c.id)]]
<1>1. c.pc = "compute" /\ c.want # "trs" /\ CallInv(table, DOMAIN ctrs.data, c)
  BY DEF Inv, ComputeFinal, At, Building
<1>2. Step(t, new)
  BY DEF ComputeFinal, Tuple
<1>3. /\ DOMAIN new = DOMAIN Idle /\ new.built = <<>>
      /\ new.pc = "insert_final" /\ new.final = Final[FindTuple(table, c.id)]
      /\ new.job = c.job /\ new.want = c.want /\ new.id = c.id
      /\ new.trs = c.trs /\ new.cleared = c.cleared
  BY <1>1 DEF CallInv, Idle
<1> HIDE DEF new, c
<1>4. CallInv(table, DOMAIN ctrs.data, new)
  BY <1>1, <1>3 DEF CallInv, TrsAnswered, FinalAnswered
<1> QED  BY <1>2, <1>4, CallKeptInv DEF ComputeFinal

LEMMA NumTrsInv ==
    ASSUME Inv, NEW t \in Threads, NumTrs(t) PROVE Inv'
<1> DEFINE c == calls[t]
<1>1. c.pc = "num_trs" /\ CallInv(table, DOMAIN ctrs.data, c)
  BY DEF Inv, NumTrs, At
<1>2. PICK n : /\ c.id \in DOMAIN ctrs.data => n = Len(ctrs.data[c.id])
               /\ Step(t, [c EXCEPT !.pc = "done", !.num = n])
  BY DEF NumTrs
<1> DEFINE new == [c EXCEPT !.pc = "done", !.num = n]
<1>3. /\ DOMAIN new = DOMAIN Idle /\ new.pc = "done" /\ new.num = n
      /\ new.job = c.job /\ new.want = c.want /\ new.id = c.id
      /\ new.built = c.built /\ new.trs = c.trs /\ new.final = c.final
      /\ new.cleared = c.cleared
  BY <1>1 DEF CallInv, Idle
<1>4. /\ c.job = "iter" /\ c.built = <<>> /\ c.id \in Allocated(table)
      /\ Decodes(table, FindTuple(table, c.id), c.trs)
      /\ ~ c.cleared => c.id \in DOMAIN ctrs.data
      /\ c.final = Final[FindTuple(table, c.id)]
  BY <1>1 DEF CallInv, TrsAnswered, FinalAnswered
<1>5. ~ c.cleared => n = Len(c.trs)
  <2>1. \A i \in DOMAIN ctrs.data : TrsRight(table, i, ctrs.data[i])
    BY DEF Inv, CacheInv
  <2> QED  BY <1>2, <1>4, <2>1 DEF TrsRight, Decodes
<1> HIDE DEF new, c
<1>6. CallInv(table, DOMAIN ctrs.data, new)
  BY <1>3, <1>4, <1>5 DEF CallInv, TrsAnswered, FinalAnswered
<1> QED  BY <1>2, <1>6, CallKeptInv DEF NumTrs, new

-----------------------------------------------------------------------------
(* A step that writes the cache.                                           *)

LEMMA QuietIdle ==
    ASSUME quiet' = (writer = "idle"), writer' = writer
    PROVE  QuietInv'
BY DEF QuietInv, AfterStart, AfterTrsKnown, AfterTrsCount, AfterTrs, AfterFinKnown,
       AfterFinCount, AfterFin

LEMMA InsertInv ==
    ASSUME Inv, NEW t \in Threads, NEW new, Step(t, new),
           UNCHANGED <<layer, table, files>>, quiet' = (writer = "idle"),
           CacheInv', SlotsInv', DOMAIN ctrs.data \subseteq DOMAIN ctrs'.data,
           CallInv(table, DOMAIN ctrs'.data, new)
    PROVE  Inv'
<1>1. Extends(table, table') /\ TableInv' /\ writer' = writer
  BY ExtendsItself DEF Inv, TableInv, files
<1>2. FileInv' /\ QuietInv'
  BY <1>1, FileExtends, QuietIdle DEF Inv
<1>3. DOMAIN calls' = Threads
  BY DEF Inv, Step
<1>4. ASSUME NEW u \in Threads PROVE CallInv(table', DOMAIN ctrs'.data, calls'[u])
  <2>1. CASE u = t
    BY <2>1 DEF Inv, Step
  <2>2. CASE u # t
    <3>1. calls'[u] = calls[u]
      BY <2>2 DEF Inv, Step
    <3> QED  BY <1>1, <3>1, CallInvExtends DEF Inv
  <2> QED  BY <2>1, <2>2
<1> QED  BY <1>1, <1>2, <1>3, <1>4 DEF Inv

LEMMA InsertStartInv ==
    ASSUME Inv, NEW t \in Threads, InsertStart(t) PROVE Inv'
<1> DEFINE c == calls[t]
           new == [c EXCEPT !.pc = "done"]
<1>1. c.pc = "insert_start" /\ CallInv(table, DOMAIN ctrs.data, c)
  BY DEF Inv, InsertStart, At
<1>2. /\ Step(t, new) /\ quiet' = (writer = "idle")
      /\ UNCHANGED <<layer, table, ctrs, cfinal, lastTrs, lastFinal, files>>
  BY DEF InsertStart, slots
<1>3. c.job = "start" /\ c.id = 0 /\ c.built = <<>>
  BY <1>1 DEF CallInv
<1>4. /\ DOMAIN new = DOMAIN Idle /\ new.job = "start" /\ new.built = <<>>
      /\ new.pc = "done" /\ new.id = 0
  BY <1>1, <1>3 DEF CallInv, Idle
<1>5. CacheInv'
  <2>1. cstart' = [data |-> 0, known |-> Raised(cstart.known, {c.id})]
    BY <1>3 DEF InsertStart
  <2>2. cstart'.data = 0 /\ cstart' = [data |-> cstart'.data, known |-> cstart'.known]
    BY <2>1
  <2> QED  BY <1>2, <2>2 DEF Inv, CacheInv, IsEntries
<1>6. SlotsInv'
  BY <1>2 DEF Inv, SlotsInv
<1> HIDE DEF new
<1>7. CallInv(table, DOMAIN ctrs'.data, new)
  BY <1>2, <1>4 DEF CallInv, TrsAnswered, FinalAnswered, Inv, TableInv
<1> QED  BY <1>2, <1>5, <1>6, <1>7, InsertInv

LEMMA InsertFinalInv ==
    ASSUME Inv, NEW t \in Threads, InsertFinal(t) PROVE Inv'
<1> DEFINE c == calls[t]
           new == [c EXCEPT !.pc = After(t)]
<1>1. c.pc = "insert_final" /\ CallInv(table, DOMAIN ctrs.data, c)
  BY DEF Inv, InsertFinal, At
<1>2. /\ Step(t, new) /\ quiet' = (writer = "idle")
      /\ UNCHANGED <<layer, table, cstart, ctrs, lastTrs, files>>
      /\ lastFinal' = Last(c.id, c.final)
      /\ cfinal' = [data |-> Put(cfinal.data, c.id, c.final),
                    known |-> Raised(cfinal.known, {c.id})]
  BY DEF InsertFinal, Inserted
<1>3. /\ <<c.job, c.want>> \in {<<"trs", "trs">>, <<"final", "final">>,
                                <<"iter", "trs">>, <<"iter", "final">>}
      /\ c.built = <<>> /\ FinalRight(table, c.id, c.final)
      /\ c.job \in {"trs", "iter"} =>
           /\ Decodes(table, FindTuple(table, c.id), c.trs)
           /\ c.job = "iter" /\ ~ c.cleared => c.id \in DOMAIN ctrs.data
  BY <1>1 DEF CallInv, TrsAnswered, FinalRight
<1>4. /\ DOMAIN new = DOMAIN Idle /\ new.pc = After(t)
      /\ new.job = c.job /\ new.want = c.want /\ new.id = c.id
      /\ new.built = c.built /\ new.trs = c.trs /\ new.final = c.final
      /\ new.cleared = c.cleared
  BY <1>1 DEF CallInv, Idle
<1>5. After(t) = IF c.job # "iter" THEN "done"
                 ELSE IF c.want = "trs" THEN "get_final" ELSE "num_trs"
  BY DEF After
<1> HIDE DEF new, c
<1>6. CacheInv'
  <2>1. \A i \in DOMAIN cfinal'.data : FinalRight(table, i, cfinal'.data[i])
    BY <1>2, <1>3 DEF Inv, CacheInv, Put
  <2>2. IsEntries(cfinal)'
    BY <1>2 DEF IsEntries, Put
  <2> QED  BY <1>2, <2>1, <2>2 DEF Inv, CacheInv, IsEntries
<1>7. SlotsInv'
  BY <1>2, <1>3 DEF Inv, SlotsInv, Last
<1>8. CallInv(table, DOMAIN ctrs'.data, new)
  BY <1>2, <1>3, <1>4, <1>5 DEF CallInv, TrsAnswered, FinalAnswered, FinalRight
<1> QED  BY <1>2, <1>6, <1>7, <1>8, InsertInv

LEMMA InsertTrsInv ==
    ASSUME Inv, NEW t \in Threads, InsertTrs(t) PROVE Inv'
<1> DEFINE c == calls[t]
           pc == IF layer.lazy2 THEN "insert_final" ELSE After(t)
           new == [c EXCEPT !.pc = pc,
                            !.built = <<>>,
                            !.trs = IF c.want = "trs" THEN c.built ELSE @,
                            !.final = IF layer.lazy2 THEN Final[Tuple(t)] ELSE @]
<1>1. /\ c.pc = "compute" /\ CallInv(table, DOMAIN ctrs.data, c)
      /\ layer.lazy2 \/ c.want = "trs"
      /\ Len(c.built) = Len(Succ[FindTuple(table, c.id)])
  BY DEF Inv, InsertTrs, At, Building, Tuple
<1>2. /\ Step(t, new) /\ quiet' = (writer = "idle")
      /\ UNCHANGED <<layer, table, cstart, cfinal, lastFinal, files>>
      /\ lastTrs' = Last(c.id, c.built)
      /\ ctrs' = [data |-> Put(ctrs.data, c.id, c.built),
                  known |-> Raised(ctrs.known, Range(c.built))]
  BY DEF InsertTrs, Inserted
<1>3. /\ <<c.job, c.want>> \in {<<"trs", "trs">>, <<"final", "final">>,
                                <<"iter", "trs">>, <<"iter", "final">>}
      /\ TrsRight(table, c.id, c.built)
      /\ c.job = "iter" /\ c.want = "final" =>
           Decodes(table, FindTuple(table, c.id), c.trs)
  BY <1>1 DEF CallInv, TrsAnswered, TrsRight, Decodes
<1>4. /\ DOMAIN new = DOMAIN Idle /\ new.pc = pc
      /\ new.job = c.job /\ new.want = c.want /\ new.id = c.id
      /\ new.built = <<>> /\ new.cleared = c.cleared
      /\ c.want = "trs" => new.trs = c.built
      /\ c.want # "trs" => new.trs = c.trs
      /\ layer.lazy2 => new.final = Final[FindTuple(table, c.id)]
  BY <1>1 DEF CallInv, Idle, Tuple
<1>5. After(t) = IF c.job # "iter" THEN "done"
                 ELSE IF c.want = "trs" THEN "get_final" ELSE "num_trs"
  BY DEF After
<1> HIDE DEF new, c
<1>6. /\ DOMAIN ctrs'.data = DOMAIN ctrs.data \cup {c.id}
      /\ c.id \in DOMAIN ctrs'.data
  BY <1>2 DEF Put
<1>7. CacheInv'
  <2>1. \A i \in DOMAIN ctrs'.data : TrsRight(table, i, ctrs'.data[i])
    BY <1>2, <1>3 DEF Inv, CacheInv, Put
  <2>2. IsEntries(ctrs)'
    BY <1>2 DEF IsEntries, Put
  <2> QED  BY <1>2, <2>1, <2>2 DEF Inv, CacheInv, IsEntries
<1>8. SlotsInv'
  BY <1>2, <1>3, <1>6 DEF Inv, SlotsInv, Last
<1>9. CallInv(table, DOMAIN ctrs'.data, new)
  BY <1>1, <1>3, <1>4, <1>5, <1>6 DEF CallInv, TrsAnswered, FinalAnswered, TrsRight
<1> QED  BY <1>2, <1>6, <1>7, <1>8, <1>9, InsertInv

LEMMA ClearInv ==
    ASSUME Inv, NEW t \in Threads, Clear(t) PROVE Inv'
<1>1. /\ UNCHANGED <<layer, table, lastTrs, lastFinal, files>>
      /\ ~ layer.wrapped /\ quiet' = (writer = "idle")
      /\ cstart' = NewCache(NotComputed)
      /\ ctrs' = NewCache(Nothing) /\ cfinal' = NewCache(Nothing)
      /\ calls' = [u \in Threads |-> [calls[u] EXCEPT !.cleared = TRUE]]
  BY DEF Clear, slots
<1>2. Extends(table, table') /\ TableInv' /\ writer' = writer
  BY <1>1, ExtendsItself DEF Inv, TableInv, files
<1>3. FileInv' /\ QuietInv'
  BY <1>1, <1>2, FileExtends, QuietIdle DEF Inv
<1>4. CacheInv'
  BY <1>1 DEF CacheInv, IsEntries, NewCache, Nothing
<1>5. SlotsInv'
  BY <1>1 DEF Inv, SlotsInv
<1>6. ASSUME NEW u \in Threads PROVE CallInv(table', DOMAIN ctrs'.data, calls'[u])
  <2> DEFINE c == calls[u]
             new == [c EXCEPT !.cleared = TRUE]
  <2>1. CallInv(table, DOMAIN ctrs.data, c) /\ calls'[u] = new
    BY <1>1 DEF Inv
  <2>2. /\ DOMAIN new = DOMAIN Idle /\ new.cleared
        /\ new.pc = c.pc /\ new.job = c.job /\ new.want = c.want /\ new.id = c.id
        /\ new.built = c.built /\ new.trs = c.trs /\ new.final = c.final
    BY <2>1 DEF CallInv, Idle
  <2> HIDE DEF new, c
  <2>3. CallInv(table, DOMAIN ctrs'.data, new)
    BY <2>1, <2>2 DEF CallInv, TrsAnswered, FinalAnswered
  <2> QED  BY <1>1, <2>1, <2>3
<1> QED  BY <1>1, <1>2, <1>3, <1>4, <1>5, <1>6 DEF Inv

-----------------------------------------------------------------------------
(* The writer.                                                             *)

LEMMA WriterInv ==
    ASSUME Inv, UNCHANGED <<layer, table, cache, slots, calls>>, FileInv', QuietInv'
    PROVE  Inv'
<1>1. UNCHANGED <<layer, table, cstart, ctrs, cfinal, lastTrs, lastFinal, calls>>
  BY DEF cache, slots
<1> QED  BY <1>1 DEF Inv, TableInv, CacheInv, IsEntries, SlotsInv

LEMMA Written ==
    ASSUME NEW step, NEW next, NEW field, NEW value, Write(step, next, field, value)
    PROVE  /\ writer = step /\ writer' = next
           /\ UNCHANGED <<layer, table, cache, slots, calls>>
           /\ UNCHANGED <<cstart, ctrs, cfinal>>
           /\ DOMAIN file' = DOMAIN file \cup {field}
           /\ file'[field] = value
           /\ \A f \in DOMAIN file : f # field => file'[f] = file[f]
BY DEF Write, cache

LEMMA Sections ==
    /\ Following("idle") = "trs_known"      /\ Following("trs_known") = "trs_count"
    /\ Following("trs_count") = "trs"       /\ Following("trs") = "fin_known"
    /\ Following("fin_known") = "fin_count" /\ Following("fin_count") = "fin"
    /\ Following("fin") = "table"           /\ Following("table") = "done"
BY DEF Following

LEMMA FileUntabled ==
    ASSUME FileInv, writer # "done" PROVE "table" \notin DOMAIN file /\ FileTable = table
BY DEF FileInv, FileTable

\* A field other than the entries and the table.
LEMMA FieldInv ==
    ASSUME Inv, NEW step, NEW field, NEW value,
           <<step, field>> \in {<<"idle", "start">>, <<"trs_known", "trsKnown">>,
                                <<"trs_count", "trsCount">>, <<"fin_known", "finKnown">>,
                                <<"fin_count", "finCount">>},
           field = "start" => value = cstart,
           Write(step, Following(step), field, value)
    PROVE  FileInv'
<1>1. /\ writer = step /\ writer' = Following(step) /\ table' = table
      /\ DOMAIN file' = DOMAIN file \cup {field} /\ file'[field] = value
      /\ \A f \in DOMAIN file : f # field => file'[f] = file[f]
  <2> DEFINE next == Following(step)
  <2>2. Write(step, next, field, value)
    OBVIOUS
  <2> HIDE DEF next
  <2>3. /\ writer = step /\ writer' = next /\ table' = table
        /\ DOMAIN file' = DOMAIN file \cup {field} /\ file'[field] = value
        /\ \A f \in DOMAIN file : f # field => file'[f] = file[f]
    BY <2>2, Written
  <2> QED  BY <2>3 DEF next
<1>2. "table" \notin DOMAIN file /\ FileTable = table /\ FileTable' = table
  <2>1. step # "done" /\ field # "table"
    OBVIOUS
  <2>2. "table" \notin DOMAIN file /\ FileTable = table
    BY <1>1, <2>1, FileUntabled DEF Inv
  <2>3. "table" \notin DOMAIN file'
    BY <1>1, <2>1, <2>2
  <2> QED  BY <1>1, <2>2, <2>3 DEF FileTable
<1>3. /\ "trs" \in DOMAIN file' <=> "trs" \in DOMAIN file
      /\ "fin" \in DOMAIN file' <=> "fin" \in DOMAIN file
      /\ "table" \notin DOMAIN file'
      /\ "trs" \in DOMAIN file => file'.trs = file.trs
      /\ "fin" \in DOMAIN file => file'.fin = file.fin
  BY <1>1, <1>2
<1>4. "start" \in DOMAIN file' /\ file'.start.data \in {NotComputed, 0}
  BY <1>1 DEF Inv, FileInv, CacheInv, AfterStart, AfterTrsKnown, AfterTrsCount, AfterTrs,
             AfterFinKnown, AfterFinCount, AfterFin
<1> HIDE DEF FileTable
<1> QED  BY <1>1, <1>2, <1>3, <1>4, Sections
         DEF Inv, FileInv, AfterStart, AfterTrsKnown, AfterTrsCount, AfterTrs,
             AfterFinKnown, AfterFinCount, AfterFin

LEMMA FieldQuiet ==
    ASSUME Inv, NEW step, NEW field, NEW value,
           <<step, field>> \in {<<"trs_known", "trsKnown">>, <<"trs_count", "trsCount">>,
                                <<"fin_known", "finKnown">>, <<"fin_count", "finCount">>},
           field = "trsKnown" => value = ctrs.known,
           field = "trsCount" => value = LenOf(ctrs.data),
           field = "finKnown" => value = cfinal.known,
           field = "finCount" => value = LenOf(cfinal.data),
           WriteField(step, field, value)
    PROVE  QuietInv'
<1>1. /\ writer = step /\ writer' = Following(step) /\ quiet' = quiet
      /\ UNCHANGED <<layer, cstart, ctrs, cfinal>>
      /\ DOMAIN file' = DOMAIN file \cup {field} /\ file'[field] = value
      /\ \A f \in DOMAIN file : f # field => file'[f] = file[f]
  BY Written DEF WriteField
<1>2. /\ LenOf(ctrs.data)' = LenOf(ctrs.data)
      /\ LenOf(cfinal.data)' = LenOf(cfinal.data)
  BY <1>1 DEF LenOf
<1>3. /\ Entries(ctrs.data)' = Entries(ctrs.data)
      /\ Entries(cfinal.data)' = Entries(cfinal.data)
  BY <1>1, <1>2 DEF Entries, Places
<1>4. /\ writer' = "trs" => "trs" \notin DOMAIN file'
      /\ writer' = "fin" => "fin" \notin DOMAIN file'
  BY <1>1, Sections DEF Inv, FileInv, AfterTrsCount, AfterTrs,
     AfterFinKnown, AfterFinCount, AfterFin
<1>5. /\ writer' = "trs" => Begun("trs", ctrs.data)'
      /\ writer' = "fin" => Begun("fin", cfinal.data)'
  BY <1>4 DEF Begun
<1> HIDE DEF Begun, Entries, LenOf
<1> QED  BY <1>1, <1>2, <1>3, <1>5, Sections
         DEF Inv, FileInv, QuietInv, AfterStart, AfterTrsKnown, AfterTrsCount, AfterTrs,
             AfterFinKnown, AfterFinCount, AfterFin

LEMMA WriteStartInv ==
    ASSUME Inv, WriteStart PROVE Inv'
<1>1. FileInv'
  BY FieldInv DEF WriteStart
<1>2. QuietInv'
  BY Sections, Written
     DEF WriteStart, QuietInv, AfterStart, AfterTrsKnown, AfterTrsCount, AfterTrs,
         AfterFinKnown, AfterFinCount, AfterFin
<1> QED  BY <1>1, <1>2, WriterInv, Written DEF WriteStart

LEMMA WriteFieldInv ==
    ASSUME Inv,
           \/ WriteField("trs_known", "trsKnown", ctrs.known)
           \/ WriteField("trs_count", "trsCount", LenOf(ctrs.data))
           \/ WriteField("fin_known", "finKnown", cfinal.known)
           \/ WriteField("fin_count", "finCount", LenOf(cfinal.data))
    PROVE  Inv'
<1> USE WriterInv, Written DEF WriteField
<1>1. CASE WriteField("trs_known", "trsKnown", ctrs.known)
  <2>1. FileInv' /\ QuietInv'
    BY <1>1, FieldInv, FieldQuiet
  <2> QED  BY <1>1, <2>1
<1>2. CASE WriteField("trs_count", "trsCount", LenOf(ctrs.data))
  <2>1. FileInv' /\ QuietInv'
    BY <1>2, FieldInv, FieldQuiet
  <2> QED  BY <1>2, <2>1
<1>3. CASE WriteField("fin_known", "finKnown", cfinal.known)
  <2>1. FileInv' /\ QuietInv'
    BY <1>3, FieldInv, FieldQuiet
  <2> QED  BY <1>3, <2>1
<1>4. CASE WriteField("fin_count", "finCount", LenOf(cfinal.data))
  <2>1. FileInv' /\ QuietInv'
    BY <1>4, FieldInv, FieldQuiet
  <2> QED  BY <1>4, <2>1
<1> QED  BY <1>1, <1>2, <1>3, <1>4

LEMMA WriteTableInv ==
    ASSUME Inv, WriteTable PROVE Inv'
<1>1. /\ writer = "table" /\ writer' = "done" /\ quiet' = quiet
      /\ UNCHANGED <<layer, table, cache, slots, calls>>
      /\ UNCHANGED <<cstart, ctrs, cfinal>>
      /\ DOMAIN file' = DOMAIN file \cup {"table"} /\ file'["table"] = table
      /\ \A f \in DOMAIN file : f # "table" => file'[f] = file[f]
  BY Written, Sections DEF WriteTable, WriteField
<1>2. /\ FileTable = table /\ FileTable' = table
      /\ table \in TableType /\ 0 \in Allocated(table)
  BY <1>1, FileUntabled DEF Inv, FileTable, TableInv
<1>3. \A f \in DOMAIN file : f # "table" => f \in DOMAIN file' /\ file'[f] = file[f]
  BY <1>1
<1>4. FileInv'
  <2>1. /\ "start" \in DOMAIN file /\ "trsKnown" \in DOMAIN file
        /\ "trsCount" \in DOMAIN file /\ "trs" \in DOMAIN file
        /\ "finKnown" \in DOMAIN file /\ "finCount" \in DOMAIN file
        /\ "fin" \in DOMAIN file
        /\ file.start.data \in {NotComputed, 0}
        /\ \A i \in DOMAIN file.trs : \A v \in file.trs[i] : TrsRight(table, i, v)
        /\ \A i \in DOMAIN file.fin : \A v \in file.fin[i] : FinalRight(table, i, v)
    BY <1>1, <1>2 DEF Inv, FileInv, AfterStart, AfterTrsKnown, AfterTrsCount, AfterTrs,
                      AfterFinKnown, AfterFinCount, AfterFin
  <2>2. /\ file'.start = file.start /\ file'.trs = file.trs /\ file'.fin = file.fin
    BY <1>1, <2>1
  <2> HIDE DEF FileTable
  <2> QED  BY <1>1, <1>2, <2>1, <2>2
           DEF FileInv, AfterStart, AfterTrsKnown, AfterTrsCount, AfterTrs,
               AfterFinKnown, AfterFinCount, AfterFin
<1>5. QuietInv'
  <2>1. /\ LenOf(ctrs.data)' = LenOf(ctrs.data)
        /\ LenOf(cfinal.data)' = LenOf(cfinal.data)
    BY <1>1 DEF LenOf, cache
  <2>2. /\ Entries(ctrs.data)' = Entries(ctrs.data)
        /\ Entries(cfinal.data)' = Entries(cfinal.data)
    BY <1>1, <2>1 DEF Entries, Places
  <2> HIDE DEF Begun, Entries, LenOf
  <2> QED  BY <1>1, <1>3, <2>1, <2>2
           DEF Inv, FileInv, QuietInv, AfterStart, AfterTrsKnown, AfterTrsCount, AfterTrs,
               AfterFinKnown, AfterFinCount, AfterFin
<1> QED  BY <1>1, <1>4, <1>5, WriterInv

\* A cache, its fields in the file, and what is right about it.
Part(field, count, data) ==
    <<field, count, data>> \in {<<"trs", "trsCount", ctrs.data>>,
                                <<"fin", "finCount", cfinal.data>>}
EntryRight(field, id, v) ==
    /\ field = "trs" => TrsRight(table, id, v)
    /\ field = "fin" => FinalRight(table, id, v)

LEMMA EntriesFile ==
    ASSUME Inv, NEW field \in {"trs", "fin"}, NEW next \in {field, Following(field)},
           NEW entries, Write(field, next, field, entries),
           \A i \in DOMAIN entries : \A v \in entries[i] : EntryRight(field, i, v)
    PROVE  FileInv'
<1>1. /\ writer = field /\ writer' = next /\ table' = table
      /\ DOMAIN file' = DOMAIN file \cup {field} /\ file'[field] = entries
      /\ \A f \in DOMAIN file : f # field => file'[f] = file[f]
  BY Written
<1>2. "table" \notin DOMAIN file /\ FileTable = table /\ FileTable' = table
  <2>1. field # "done" /\ field # "table"
    OBVIOUS
  <2>2. "table" \notin DOMAIN file /\ FileTable = table
    BY <1>1, <2>1, FileUntabled DEF Inv
  <2>3. "table" \notin DOMAIN file'
    BY <1>1, <2>1, <2>2
  <2> QED  BY <1>1, <2>2, <2>3 DEF FileTable
<1>3. "start" \in DOMAIN file /\ file.start.data \in {NotComputed, 0}
  BY <1>1 DEF Inv, FileInv, AfterStart, AfterTrsKnown, AfterTrsCount, AfterTrs,
             AfterFinKnown, AfterFinCount, AfterFin
<1>4. file'.start = file.start
  BY <1>1, <1>3
<1>5. CASE field = "trs"
  <2>1. "fin" \notin DOMAIN file'
    BY <1>1, <1>5 DEF Inv, FileInv, AfterFinCount, AfterFin
  <2>2. \A i \in DOMAIN file'.trs : \A v \in file'.trs[i] : TrsRight(table, i, v)
    BY <1>1, <1>5 DEF EntryRight
  <2> HIDE DEF FileTable
  <2> QED  BY <1>1, <1>2, <1>3, <1>4, <1>5, <2>1, <2>2, Sections
           DEF Inv, FileInv, AfterStart, AfterTrsKnown, AfterTrsCount, AfterTrs,
               AfterFinKnown, AfterFinCount, AfterFin
<1>6. CASE field = "fin"
  <2>1. /\ "trs" \in DOMAIN file
        /\ \A i \in DOMAIN file.trs : \A v \in file.trs[i] : TrsRight(table, i, v)
    BY <1>1, <1>2, <1>6 DEF Inv, FileInv, AfterTrsCount, AfterTrs,
        AfterFinKnown, AfterFinCount, AfterFin
  <2>2. file'.trs = file.trs
    BY <1>1, <1>6, <2>1
  <2>3. \A i \in DOMAIN file'.fin : \A v \in file'.fin[i] : FinalRight(table, i, v)
    BY <1>1, <1>6 DEF EntryRight
  <2> HIDE DEF FileTable
  <2> QED  BY <1>1, <1>2, <1>3, <1>4, <1>6, <2>1, <2>2, <2>3, Sections
           DEF Inv, FileInv, AfterStart, AfterTrsKnown, AfterTrsCount, AfterTrs,
               AfterFinKnown, AfterFinCount, AfterFin
<1> QED  BY <1>5, <1>6

LEMMA EntriesQuiet ==
    ASSUME Inv, NEW field, NEW count, NEW data, Part(field, count, data),
           NEW next \in {field, Following(field)},
           NEW entries, Write(field, next, field, entries), quiet' = quiet,
           quiet /\ next = field => /\ layer.kind = "vec"
                                    /\ \E n \in 0 .. LenOf(data) : entries = Places(data, n),
           quiet /\ next # field => entries = Entries(data)
    PROVE  QuietInv'
<1>1. /\ writer = field /\ writer' = next
      /\ UNCHANGED <<layer, cstart, ctrs, cfinal>>
      /\ DOMAIN file' = DOMAIN file \cup {field} /\ file'[field] = entries
      /\ \A f \in DOMAIN file : f # field => file'[f] = file[f]
  BY Written
<1>2. /\ LenOf(ctrs.data)' = LenOf(ctrs.data)
      /\ LenOf(cfinal.data)' = LenOf(cfinal.data)
      /\ \A d : LenOf(d)' = LenOf(d)
  BY <1>1 DEF LenOf
<1>3. /\ Entries(ctrs.data)' = Entries(ctrs.data)
      /\ Entries(cfinal.data)' = Entries(cfinal.data)
  BY <1>1, <1>2 DEF Entries, Places
<1>4. CASE field = "trs"
  <2>1. data = ctrs.data
    BY <1>4 DEF Part
  <2>2. quiet /\ next = "trs" => Begun("trs", ctrs.data)'
    BY <1>1, <1>2, <1>4, <2>1 DEF Begun
  <2> HIDE DEF Begun, Entries, LenOf
  <2> QED  BY <1>1, <1>2, <1>3, <1>4, <2>1, <2>2, Sections
           DEF Inv, FileInv, QuietInv, AfterStart, AfterTrsKnown, AfterTrsCount, AfterTrs,
               AfterFinKnown, AfterFinCount, AfterFin
<1>5. CASE field = "fin"
  <2>1. data = cfinal.data
    BY <1>5 DEF Part
  <2>2. quiet /\ next = "fin" => Begun("fin", cfinal.data)'
    BY <1>1, <1>2, <1>5, <2>1 DEF Begun
  <2> HIDE DEF Begun, Entries, LenOf
  <2> QED  BY <1>1, <1>2, <1>3, <1>5, <2>1, <2>2, Sections
           DEF Inv, FileInv, QuietInv, AfterStart, AfterTrsKnown, AfterTrsCount, AfterTrs,
               AfterFinKnown, AfterFinCount, AfterFin
<1> QED  BY <1>4, <1>5 DEF Part

\* What the cache has is right.
LEMMA PartRight ==
    ASSUME Inv, NEW field, NEW count, NEW data, Part(field, count, data)
    PROVE  /\ field \in {"trs", "fin"}
           /\ \A i \in DOMAIN data : EntryRight(field, i, data[i])
           /\ DOMAIN data \subseteq Allocated(table)
BY DEF Inv, CacheInv, Part, EntryRight, TrsRight, FinalRight

LEMMA WriteMapInv ==
    ASSUME Inv, NEW field, NEW count, NEW data, Part(field, count, data),
           WriteMap(field, field, data)
    PROVE  Inv'
<1> DEFINE entries == [i \in DOMAIN data |-> {data[i]}]
<1>1. /\ layer.kind = "hash" /\ quiet' = quiet
      /\ Write(field, Following(field), field, entries)
  BY DEF WriteMap
<1>2. \A i \in DOMAIN entries : \A v \in entries[i] : EntryRight(field, i, v)
  BY PartRight
<1>3. entries = Entries(data)
  BY <1>1 DEF Entries
<1>4. Following(field) # field /\ field \in {"trs", "fin"}
  BY Sections, PartRight DEF Part
<1> HIDE DEF entries
<1>5. FileInv'
  BY <1>1, <1>2, <1>4, EntriesFile
<1>6. QuietInv'
  <2> DEFINE next == Following(field)
  <2>1. /\ Write(field, next, field, entries) /\ next \in {field, Following(field)}
        /\ next # field
    BY <1>1, <1>4
  <2> HIDE DEF next
  <2> QED  BY <1>1, <1>3, <2>1, EntriesQuiet
<1> QED  BY <1>1, <1>5, <1>6, WriterInv, Written

\* The length of the vector bounds its entries.
LEMMA RaisedBounds ==
    ASSUME NEW known \in Nat, NEW ids \in SUBSET Nat, NEW n \in Nat,
           known <= n, \A i \in ids : i < n
    PROVE  Raised(known, ids) \in known .. n /\ \A i \in ids : i < Raised(known, ids)
BY MaxCovers DEF Raised

LEMMA LenOfVector ==
    ASSUME Inv, layer.kind = "vec", NEW data, DOMAIN data \subseteq Allocated(table)
    PROVE  LenOf(data) \in Nat /\ \A i \in DOMAIN data : i \in 0 .. LenOf(data) - 1
<1> DEFINE ids == DOMAIN data
           n == Len(table.id_to_tuple)
<1>1. n \in Nat /\ ids \in SUBSET Nat /\ (\A i \in ids : i < n) /\ 0 \in Nat /\ 0 <= n
  BY DEF Inv, TableInv, TableType, Allocated
<1>2. LenOf(data) = Raised(0, ids)
  BY DEF LenOf
<1> HIDE DEF ids, n
<1>3. Raised(0, ids) \in 0 .. n /\ \A i \in ids : i < Raised(0, ids)
  BY <1>1, RaisedBounds
<1> QED  BY <1>1, <1>2, <1>3 DEF ids

LEMMA PlacesFirst ==
    ASSUME NEW data PROVE Nothing = Places(data, 0)
BY DEF Nothing, Places

LEMMA PlacesNext ==
    ASSUME NEW data, NEW n \in Nat
    PROVE  /\ Cardinality(DOMAIN Places(data, n)) = n
           /\ Put(Places(data, n), n, IF n \in DOMAIN data THEN {data[n]} ELSE {})
                = Places(data, n + 1)
<1>1. DOMAIN Places(data, n) = 0 .. n - 1
  BY DEF Places
<1>2. Cardinality(0 .. n - 1) = n
  <2>1. 0 \in Int /\ n - 1 \in Int
    OBVIOUS
  <2>2. Cardinality(0 .. n - 1) = IF 0 > n - 1 THEN 0 ELSE (n - 1) - 0 + 1
    BY <2>1, FS_Interval
  <2> QED  BY <2>2
<1>3. (0 .. n - 1) \cup {n} = 0 .. (n + 1) - 1
  OBVIOUS
<1> QED  BY <1>1, <1>2, <1>3 DEF Put, Places

LEMMA WriteVectorInv ==
    ASSUME Inv, NEW field, NEW count, NEW data, Part(field, count, data),
           WriteVector(field, field, count, data)
    PROVE  Inv'
<1> DEFINE written == IF field \in DOMAIN file THEN file[field] ELSE Nothing
           i == Cardinality(DOMAIN written)
           entry == IF i \in DOMAIN data THEN {data[i]} ELSE {}
           more == Put(written, i, entry)
           full == ~ (i < file[count])
           next == IF full THEN Following(field) ELSE field
           entries == IF full THEN written ELSE more
<1>1. /\ layer.kind = "vec" /\ quiet' = quiet /\ writer = field
      /\ Write(field, next, field, entries)
  BY DEF WriteVector
<1>2. /\ Following(field) # field /\ field \in {"trs", "fin"}
      /\ next \in {field, Following(field)} /\ full <=> next # field
  BY Sections, PartRight DEF Part
<1>3. \A j \in DOMAIN written : \A v \in written[j] : EntryRight(field, j, v)
  <2>1. CASE field \in DOMAIN file
    <3>1. FileTable = table
      BY <1>1, <1>2, FileUntabled DEF Inv
    <3> QED  BY <1>2, <2>1, <3>1 DEF Inv, FileInv, EntryRight
  <2>2. CASE field \notin DOMAIN file
    <3>1. written = Nothing /\ DOMAIN Nothing = {}
      BY <2>2 DEF Nothing
    <3> HIDE DEF written
    <3> QED  BY <3>1
  <2> QED  BY <2>1, <2>2
<1>4. \A v \in entry : EntryRight(field, i, v)
  BY PartRight
<1>5. \A j \in DOMAIN entries : \A v \in entries[j] : EntryRight(field, j, v)
  <2> HIDE DEF written, i, entry, full
  <2> QED  BY <1>3, <1>4 DEF Put
<1>6. ASSUME quiet
      PROVE  /\ full => entries = Entries(data)
             /\ ~ full => \E n \in 0 .. LenOf(data) : entries = Places(data, n)
  <2>1. file[count] = LenOf(data) /\ Begun(field, data)
    BY <1>1, <1>6 DEF Part, Inv, QuietInv, AfterTrsCount, AfterFinCount
  <2>2. LenOf(data) \in Nat
    BY <1>1, LenOfVector, PartRight
  <2>3. PICK n \in 0 .. LenOf(data) : written = Places(data, n)
    BY <2>1, <2>2, PlacesFirst DEF Begun
  <2>4. n \in Nat /\ i = n /\ more = Places(data, n + 1)
    <3>1. n \in Nat
      <4> HIDE DEF LenOf
      <4> QED  BY <2>2
    <3>2. i = n
      BY <2>3, <3>1, PlacesNext
    <3>3. more = Put(Places(data, n), n, IF n \in DOMAIN data THEN {data[n]} ELSE {})
      <4> HIDE DEF Places, i, written
      <4> QED  BY <2>3, <3>2
    <3> QED  BY <3>1, <3>2, <3>3, PlacesNext
  <2> HIDE DEF written, i, more, LenOf, Places
  <2>5. CASE full
    <3>1. n = LenOf(data)
      BY <2>1, <2>2, <2>3, <2>4, <2>5
    <3> QED  BY <1>1, <2>3, <2>5, <3>1 DEF Entries
  <2>6. CASE ~ full
    <3>1. n + 1 \in 0 .. LenOf(data)
      BY <2>1, <2>2, <2>3, <2>4, <2>6
    <3> QED  BY <2>4, <2>6, <3>1
  <2> QED  BY <2>5, <2>6
<1> HIDE DEF entries, next, full
<1>7. FileInv'
  BY <1>1, <1>2, <1>5, EntriesFile
<1>8. QuietInv'
  BY <1>1, <1>2, <1>6, EntriesQuiet
<1> QED  BY <1>1, <1>7, <1>8, WriterInv, Written

-----------------------------------------------------------------------------
(* The invariant.                                                          *)

LEMMA InitInv ==
    ASSUME Init PROVE Inv
<1>1. <<Start>> \in Seq(Tuples) /\ IsInjective(<<Start>>)
  BY LayersAssumption DEF IsInjective
<1>2. /\ table \in TableType /\ Bijective(table) /\ table.id_to_tuple = <<Start>>
  BY <1>1, TableOfBijective DEF Init
<1>3. TableInv
  BY <1>2 DEF TableInv, Allocated, FindTuple
<1>4. CacheInv
  BY DEF Init, CacheInv, IsEntries, NewCache, Nothing
<1>5. SlotsInv
  BY DEF Init, SlotsInv
<1>6. ASSUME NEW t \in Threads PROVE CallInv(table, DOMAIN ctrs.data, calls[t])
  BY <1>3 DEF Init, TableInv, CallInv, Idle, TrsAnswered, FinalAnswered
<1>7. FileInv
  BY DEF Init, FileInv, Nothing, AfterStart, AfterTrsKnown, AfterTrsCount, AfterTrs,
         AfterFinKnown, AfterFinCount, AfterFin
<1>8. QuietInv
  BY DEF Init, QuietInv, AfterStart, AfterTrsKnown, AfterTrsCount, AfterTrs,
         AfterFinKnown, AfterFinCount, AfterFin
<1>9. DOMAIN calls = Threads
  BY DEF Init
<1> QED  BY <1>3, <1>4, <1>5, <1>6, <1>7, <1>8, <1>9 DEF Inv

LEMMA WriterStepInv ==
    ASSUME Inv, WriterStep PROVE Inv'
<1>1. CASE WriteStart
  BY <1>1, WriteStartInv
<1>2. CASE WriteTrs
  <2>1. Part("trs", "trsCount", ctrs.data)
    BY DEF Part
  <2> QED  BY <1>2, <2>1, WriteMapInv, WriteVectorInv DEF WriteTrs
<1>3. CASE WriteFin
  <2>1. Part("fin", "finCount", cfinal.data)
    BY DEF Part
  <2> QED  BY <1>3, <2>1, WriteMapInv, WriteVectorInv DEF WriteFin
<1>4. CASE WriteTable
  BY <1>4, WriteTableInv
<1> QED  BY <1>1, <1>2, <1>3, <1>4, WriteFieldInv DEF WriterStep

LEMMA StutterInv ==
    ASSUME Inv, UNCHANGED vars PROVE Inv'
<1>1. UNCHANGED <<layer, table, cstart, ctrs, cfinal, lastTrs, lastFinal, calls, writer, file,
                  quiet>>
  BY DEF vars, cache, slots, files
<1>2. FileInv'
  BY <1>1, FileExtends, ExtendsItself DEF Inv, TableInv, files
<1>3. QuietInv'
  BY <1>1, QuietKept DEF Inv
<1> QED  BY <1>1, <1>2, <1>3 DEF Inv, TableInv, CacheInv, IsEntries, SlotsInv

LEMMA NextInv ==
    ASSUME Inv, [Next]_vars PROVE Inv'
<1>1. ASSUME NEW t \in Threads, ThreadStep(t) PROVE Inv'
  BY <1>1, BeginInv, GetStartInv, InsertStartInv, GetTrsInv, GetFinalInv, InternNextInv,
     ComputeFinalInv, InsertTrsInv, InsertFinalInv, NumTrsInv, FinishInv, ClearInv
     DEF ThreadStep
<1> QED  BY <1>1, WriterStepInv, StutterInv DEF Next

\* What the threads and the writer rely on holds at every step.
THEOREM InvHolds == Spec => []Inv
<1>1. Init => Inv
  BY InitInv
<1>2. Inv /\ [Next]_vars => Inv'
  BY NextInv
<1> QED  BY <1>1, <1>2, PTL DEF Spec

-----------------------------------------------------------------------------
(* What it gives.                                                          *)

\* Destinations that decode to the tuples are the names of the tuples.
LEMMA NamesOf ==
    ASSUME TableInv, NEW tuple \in Tuples, NEW trs, Decodes(table, tuple, trs)
    PROVE  trs = Names(Succ[tuple])
<1> DEFINE succ == Succ[tuple]
<1>1. /\ trs \in Seq(Nat) /\ succ \in Seq(Tuples) /\ Len(trs) = Len(succ)
      /\ \A k \in DOMAIN trs : trs[k] \in Allocated(table)
                               /\ FindTuple(table, trs[k]) = succ[k]
  BY LayersAssumption DEF Decodes, DecodesPrefix
<1>2. DOMAIN trs = DOMAIN succ /\ trs = [k \in DOMAIN trs |-> trs[k]]
  BY <1>1
<1>3. \A k \in DOMAIN trs : FindId(table, succ[k]) = trs[k]
  BY <1>1 DEF TableInv, TableType, Bijective, FindId, Vacant, Allocated
<1> HIDE DEF succ
<1> QED  BY <1>2, <1>3 DEF Names, succ

(***************************************************************************)
(* A call answers the transitions and the final weight of its own state,   *)
(* whichever layer had them and whatever the other threads did to the      *)
(* cache meanwhile.                                                        *)
(***************************************************************************)
THEOREM AnswersRightHolds == Spec => []AnswersRight
<1>1. Inv => AnswersRight
  <2> SUFFICES ASSUME Inv, NEW t \in Threads, At(t, "done")
               PROVE  LET c == calls[t]
                          tuple == FindTuple(table, c.id)
                      IN  /\ c.job \in {"trs", "iter"} => c.trs = Names(Succ[tuple])
                          /\ c.job \in {"final", "iter"} => c.final = Final[tuple]
                          /\ c.job = "start" => tuple = Start
    BY DEF AnswersRight
  <2> DEFINE c == calls[t]
             tuple == FindTuple(table, c.id)
  <2>1. c.pc = "done" /\ CallInv(table, DOMAIN ctrs.data, c)
    BY DEF Inv, At
  <2>2. tuple \in Tuples
    BY <2>1, NamedTuple DEF CallInv, Inv, TableInv
  <2>3. c.job \in {"trs", "iter"} => c.trs = Names(Succ[tuple])
    <3>1. c.job \in {"trs", "iter"} => Decodes(table, tuple, c.trs)
      BY <2>1 DEF CallInv, TrsAnswered
    <3> QED  BY <2>2, <3>1, NamesOf DEF Inv
  <2>4. c.job \in {"final", "iter"} => c.final = Final[tuple]
    BY <2>1 DEF CallInv, FinalAnswered
  <2>5. c.job = "start" => tuple = Start
    BY <2>1 DEF CallInv, Inv, TableInv
  <2> QED  BY <2>3, <2>4, <2>5
<1> QED  BY <1>1, InvHolds, PTL

(***************************************************************************)
(* fst_iter's unchecked read finds the entry, as long as nobody cleared    *)
(* the cache since the call began.                                         *)
(***************************************************************************)
THEOREM IterDefinedHolds == Spec => []IterDefined
<1>1. Inv => IterDefined
  BY DEF Inv, IterDefined, At, CallInv
<1> QED  BY <1>1, InvHolds, PTL

-----------------------------------------------------------------------------
(* The numbers in the headers.                                             *)

LEMMA UpTo ==
    ASSUME NEW n \in Nat PROVE IsFiniteSet(0 .. n - 1) /\ Cardinality(0 .. n - 1) = n
<1>1. 0 \in Int /\ n - 1 \in Int
  OBVIOUS
<1>2. Cardinality(0 .. n - 1) = IF 0 > n - 1 THEN 0 ELSE (n - 1) - 0 + 1
  BY <1>1, FS_Interval
<1> QED  BY <1>1, <1>2, FS_Interval

LEMMA AllocatedFinite ==
    ASSUME NEW tab \in TableType PROVE IsFiniteSet(Allocated(tab))
<1>1. Len(tab.id_to_tuple) \in Nat /\ Allocated(tab) = 0 .. Len(tab.id_to_tuple) - 1
  BY DEF TableType, Allocated
<1> QED  BY <1>1, UpTo

LEMMA CachedFinite ==
    ASSUME Inv PROVE IsFiniteSet(DOMAIN ctrs.data) /\ IsFiniteSet(DOMAIN cfinal.data)
<1>1. IsFiniteSet(Allocated(table))
  BY AllocatedFinite DEF Inv, TableInv
<1>2. DOMAIN ctrs.data \subseteq Allocated(table) /\ DOMAIN cfinal.data \subseteq Allocated(table)
  BY DEF Inv, CacheInv, TrsRight, FinalRight
<1> QED  BY <1>1, <1>2, FS_Subset

\* A map is only added to while its entries are waited for.
LEMMA CountsKept ==
    ASSUME CountsInv, Inv', UNCHANGED <<layer, writer, file>>,
           writer = "trs" => DOMAIN ctrs.data \subseteq DOMAIN ctrs'.data,
           writer = "fin" => DOMAIN cfinal.data \subseteq DOMAIN cfinal'.data
    PROVE  CountsInv'
<1>1. IsFiniteSet(DOMAIN ctrs'.data) /\ IsFiniteSet(DOMAIN cfinal'.data)
  <2>1. IsFiniteSet(Allocated(table'))
    BY AllocatedFinite DEF Inv, TableInv
  <2>2. /\ DOMAIN ctrs'.data \subseteq Allocated(table')
        /\ DOMAIN cfinal'.data \subseteq Allocated(table')
    BY DEF Inv, CacheInv, TrsRight, FinalRight
  <2> QED  BY <2>1, <2>2, FS_Subset
<1>2. writer = "trs" => /\ Cardinality(DOMAIN ctrs.data) <= Cardinality(DOMAIN ctrs'.data)
                        /\ Cardinality(DOMAIN ctrs.data) \in Nat
                        /\ Cardinality(DOMAIN ctrs'.data) \in Nat
  BY <1>1, FS_Subset, FS_CardinalityType
<1>3. writer = "fin" => /\ Cardinality(DOMAIN cfinal.data) <= Cardinality(DOMAIN cfinal'.data)
                        /\ Cardinality(DOMAIN cfinal.data) \in Nat
                        /\ Cardinality(DOMAIN cfinal'.data) \in Nat
  BY <1>1, FS_Subset, FS_CardinalityType
<1> QED  BY <1>2, <1>3 DEF CountsInv, Enough

LEMMA ThreadCounts ==
    ASSUME Inv', CountsInv, NEW t \in Threads, ThreadStep(t) PROVE CountsInv'
<1>1. UNCHANGED <<layer, writer, file>>
  BY DEF ThreadStep, Begin, GetStart, InsertStart, GetTrs, GetFinal, InternNext, ComputeFinal,
         InsertTrs, InsertFinal, NumTrs, Finish, Clear, files
<1>2. CASE InsertTrs(t) \/ InsertFinal(t)
  <2>1. /\ DOMAIN ctrs.data \subseteq DOMAIN ctrs'.data
        /\ DOMAIN cfinal.data \subseteq DOMAIN cfinal'.data
    BY <1>2 DEF InsertTrs, InsertFinal, Inserted, Put
  <2> QED  BY <1>1, <2>1, CountsKept
<1>3. CASE Clear(t)
  BY <1>1, <1>3, CountsKept DEF Clear, StartFree
<1>4. CASE ~ (InsertTrs(t) \/ InsertFinal(t) \/ Clear(t))
  <2>1. UNCHANGED <<ctrs, cfinal>>
    BY <1>4 DEF ThreadStep, Begin, GetStart, InsertStart, GetTrs, GetFinal, InternNext,
               ComputeFinal, NumTrs, Finish, cache
  <2> QED  BY <1>1, <2>1, CountsKept
<1> QED  BY <1>2, <1>3, <1>4

\* A header that was written, and what follows it, stay.
LEMMA TrsCountKept ==
    ASSUME Inv, CountsInv, writer \in AfterTrsCount, writer' \in AfterTrs,
           writer \in AfterTrs, layer' = layer,
           \A f \in {"trs", "trsCount"} : f \in DOMAIN file' /\ file'[f] = file[f]
    PROVE  Enough(file.trsCount, "trs", AfterTrs, ctrs.data, "trs")'
<1>1. writer' # "trs" /\ "trs" \in DOMAIN file
  BY DEF Inv, FileInv, AfterTrs, AfterFinKnown, AfterFinCount, AfterFin
<1>2. Enough(file.trsCount, "trs", AfterTrs, ctrs.data, "trs")
  BY DEF CountsInv
<1> QED  BY <1>1, <1>2 DEF Enough

LEMMA CountWritten ==
    ASSUME Inv, NEW data, DOMAIN data \subseteq Allocated(table)
    PROVE  /\ LenOf(data) \in Nat
           /\ layer.kind = "hash" => LenOf(data) <= Cardinality(DOMAIN data)
<1>1. IsFiniteSet(DOMAIN data)
  <2>1. IsFiniteSet(Allocated(table))
    BY AllocatedFinite DEF Inv, TableInv
  <2> QED  BY <2>1, FS_Subset
<1>2. layer.kind = "vec" \/ layer.kind = "hash"
  BY LayersAssumption DEF Inv, SlotsInv
<1>3. CASE layer.kind = "hash"
  BY <1>1, <1>3, FS_CardinalityType DEF LenOf
<1> QED  BY <1>2, <1>3, LenOfVector

LEMMA WriterCounts ==
    ASSUME Inv, CountsInv, WriterStep PROVE CountsInv'
<1> USE DEF AfterTrsCount, AfterTrs, AfterFinKnown, AfterFinCount, AfterFin
<1>1. CASE WriteStart \/ WriteField("trs_known", "trsKnown", ctrs.known)
  <2>1. writer' \in {"trs_known", "trs_count"}
    BY <1>1, Sections, Written DEF WriteStart, WriteField
  <2> QED  BY <2>1 DEF CountsInv
<1>2. CASE WriteField("trs_count", "trsCount", LenOf(ctrs.data))
  <2>1. /\ writer = "trs_count" /\ writer' = "trs" /\ UNCHANGED <<layer, ctrs>>
        /\ DOMAIN file' = DOMAIN file \cup {"trsCount"}
        /\ file'["trsCount"] = LenOf(ctrs.data)
    BY <1>2, Sections, Written DEF WriteField
  <2>2. "trs" \notin DOMAIN file'
    BY <2>1 DEF Inv, FileInv
  <2>3. /\ LenOf(ctrs.data) \in Nat
        /\ layer.kind = "hash" => LenOf(ctrs.data) <= Cardinality(DOMAIN ctrs.data)
    BY CountWritten DEF Inv, CacheInv, TrsRight
  <2> HIDE DEF LenOf
  <2> QED  BY <2>1, <2>2, <2>3 DEF CountsInv, Enough
<1>3. CASE WriteField("fin_known", "finKnown", cfinal.known)
  <2>1. /\ writer = "fin_known" /\ writer' = "fin_count" /\ layer' = layer
        /\ DOMAIN file' = DOMAIN file \cup {"finKnown"}
        /\ \A f \in DOMAIN file : f # "finKnown" => file'[f] = file[f]
    BY <1>3, Sections, Written DEF WriteField
  <2>2. "trs" \in DOMAIN file /\ "trsCount" \in DOMAIN file
    BY <2>1 DEF Inv, FileInv
  <2>3. Enough(file.trsCount, "trs", AfterTrs, ctrs.data, "trs")'
    BY <2>1, <2>2, TrsCountKept
  <2> QED  BY <2>1, <2>3 DEF CountsInv
<1>4. CASE WriteField("fin_count", "finCount", LenOf(cfinal.data))
  <2>1. /\ writer = "fin_count" /\ writer' = "fin" /\ UNCHANGED <<layer, cfinal>>
        /\ DOMAIN file' = DOMAIN file \cup {"finCount"}
        /\ file'["finCount"] = LenOf(cfinal.data)
        /\ \A f \in DOMAIN file : f # "finCount" => file'[f] = file[f]
    BY <1>4, Sections, Written DEF WriteField
  <2>2. "trs" \in DOMAIN file /\ "trsCount" \in DOMAIN file /\ "fin" \notin DOMAIN file'
    BY <2>1 DEF Inv, FileInv
  <2>3. Enough(file.trsCount, "trs", AfterTrs, ctrs.data, "trs")'
    BY <2>1, <2>2, TrsCountKept
  <2>4. /\ LenOf(cfinal.data) \in Nat
        /\ layer.kind = "hash" => LenOf(cfinal.data) <= Cardinality(DOMAIN cfinal.data)
    BY CountWritten DEF Inv, CacheInv, FinalRight
  <2>5. Enough(file.finCount, "fin", AfterFin, cfinal.data, "fin")'
    <3> HIDE DEF LenOf
    <3> QED  BY <2>1, <2>2, <2>4 DEF Enough
  <2> QED  BY <2>1, <2>3, <2>5 DEF CountsInv
<1>5. CASE WriteTrs
  <2>1. Enough(file.trsCount, "trs", AfterTrs, ctrs.data, "trs")
    BY <1>5 DEF CountsInv, WriteTrs, WriteMap, WriteVector, Write
  <2>2. "trsCount" \in DOMAIN file
    BY <1>5 DEF WriteTrs, WriteMap, WriteVector, Write, Inv, FileInv
  <2>3. CASE WriteMap("trs", "trs", ctrs.data)
    <3> DEFINE entries == [i \in DOMAIN ctrs.data |-> {ctrs.data[i]}]
    <3>0. Write("trs", Following("trs"), "trs", entries) /\ DOMAIN entries = DOMAIN ctrs.data
      BY <2>3 DEF WriteMap
    <3> HIDE DEF entries
    <3>1. /\ writer = "trs" /\ writer' = "fin_known" /\ layer.kind = "hash"
          /\ layer' = layer /\ file'.trsCount = file.trsCount
          /\ DOMAIN file'.trs = DOMAIN ctrs.data
      BY <2>2, <2>3, <3>0, Sections, Written DEF WriteMap
    <3> QED  BY <2>1, <3>1, CachedFinite DEF CountsInv, Enough
  <2>4. CASE WriteVector("trs", "trs", "trsCount", ctrs.data)
    <3> DEFINE done == IF "trs" \in DOMAIN file THEN file.trs ELSE Nothing
               i == Cardinality(DOMAIN done)
               n == file.trsCount
    <3>1. n \in Nat /\ \E k \in 0 .. n : DOMAIN done = 0 .. k - 1
      BY <2>1, <2>4 DEF Enough, WriteVector, Nothing
    <3>2. i \in 0 .. n /\ DOMAIN done = 0 .. i - 1
      BY <3>1, UpTo
    <3> HIDE DEF done, i
    <3>3. CASE i < n
      <4>1. /\ Write("trs", "trs", "trs", Put(done, i, IF i \in DOMAIN ctrs.data
                                                       THEN {ctrs.data[i]} ELSE {}))
            /\ layer.kind = "vec"
        BY <2>4, <3>3 DEF WriteVector, done, i
      <4>2. /\ writer' = "trs" /\ layer' = layer /\ file'.trsCount = n
            /\ DOMAIN file'.trs = (0 .. i - 1) \cup {i}
        <5> DEFINE more == Put(done, i, IF i \in DOMAIN ctrs.data THEN {ctrs.data[i]} ELSE {})
        <5>1. DOMAIN more = (0 .. i - 1) \cup {i}
          BY <3>2 DEF Put
        <5> HIDE DEF more
        <5>2. Write("trs", "trs", "trs", more)
          BY <4>1 DEF more
        <5>3. /\ writer' = "trs" /\ layer' = layer /\ file'["trs"] = more
              /\ \A f \in DOMAIN file : f # "trs" => file'[f] = file[f]
          BY <5>2, Written
        <5> QED  BY <2>2, <5>1, <5>3
      <4>3. (0 .. i - 1) \cup {i} = 0 .. (i + 1) - 1 /\ i + 1 \in 0 .. n
        BY <3>1, <3>2, <3>3
      <4> QED  BY <3>1, <4>1, <4>2, <4>3 DEF CountsInv, Enough
    <3>4. CASE ~ (i < n)
      <4>1. Write("trs", Following("trs"), "trs", done) /\ layer.kind = "vec"
        BY <2>4, <3>4 DEF WriteVector, done, i
      <4>2. i = n
        BY <3>1, <3>2, <3>4
      <4>3. /\ writer' = "fin_known" /\ layer' = layer /\ file'.trsCount = n
            /\ DOMAIN file'.trs = 0 .. n - 1
        BY <2>2, <3>2, <4>1, <4>2, Sections, Written
      <4> QED  BY <3>1, <4>1, <4>3 DEF CountsInv, Enough
    <3> QED  BY <3>3, <3>4
  <2> QED  BY <1>5, <2>3, <2>4 DEF WriteTrs
<1>6. CASE WriteFin
  <2>1. /\ Enough(file.finCount, "fin", AfterFin, cfinal.data, "fin")
        /\ writer = "fin" /\ writer' \in {"fin", "table"} /\ layer' = layer
        /\ DOMAIN file' = DOMAIN file \cup {"fin"}
        /\ \A f \in DOMAIN file : f # "fin" => file'[f] = file[f]
    <3>1. writer = "fin" /\ writer' \in {"fin", Following("fin")} /\ layer' = layer
      BY <1>6 DEF WriteFin, WriteMap, WriteVector, Write
    <3>2. /\ DOMAIN file' = DOMAIN file \cup {"fin"}
          /\ \A f \in DOMAIN file : f # "fin" => file'[f] = file[f]
      <4>1. PICK next, value : Write("fin", next, "fin", value)
        BY <1>6 DEF WriteFin, WriteMap, WriteVector
      <4> QED  BY <4>1, Written
    <3> QED  BY <3>1, <3>2, Sections DEF CountsInv
  <2>2. "trs" \in DOMAIN file /\ "trsCount" \in DOMAIN file /\ "finCount" \in DOMAIN file
    BY <2>1 DEF Inv, FileInv
  <2>3. Enough(file.trsCount, "trs", AfterTrs, ctrs.data, "trs")'
    BY <2>1, <2>2, TrsCountKept
  <2>4. CASE WriteMap("fin", "fin", cfinal.data)
    <3> DEFINE entries == [i \in DOMAIN cfinal.data |-> {cfinal.data[i]}]
    <3>0. Write("fin", Following("fin"), "fin", entries) /\ DOMAIN entries = DOMAIN cfinal.data
      BY <2>4 DEF WriteMap
    <3> HIDE DEF entries
    <3>1. /\ writer' = "table" /\ layer.kind = "hash" /\ file'.finCount = file.finCount
          /\ DOMAIN file'.fin = DOMAIN cfinal.data
      <4>1. /\ writer' = Following("fin") /\ file'["fin"] = entries
            /\ \A f \in DOMAIN file : f # "fin" => file'[f] = file[f]
        BY <3>0, Written
      <4> QED  BY <2>2, <2>4, <3>0, <4>1, Sections DEF WriteMap
    <3> QED  BY <2>1, <2>3, <3>1, CachedFinite DEF CountsInv, Enough
  <2>5. CASE WriteVector("fin", "fin", "finCount", cfinal.data)
    <3> DEFINE done == IF "fin" \in DOMAIN file THEN file.fin ELSE Nothing
               i == Cardinality(DOMAIN done)
               n == file.finCount
    <3>1. n \in Nat /\ \E k \in 0 .. n : DOMAIN done = 0 .. k - 1
      BY <2>1, <2>5 DEF Enough, WriteVector, Nothing
    <3>2. i \in 0 .. n /\ DOMAIN done = 0 .. i - 1
      BY <3>1, UpTo
    <3> HIDE DEF done, i
    <3>3. CASE i < n
      <4>1. /\ Write("fin", "fin", "fin", Put(done, i, IF i \in DOMAIN cfinal.data
                                                       THEN {cfinal.data[i]} ELSE {}))
            /\ layer.kind = "vec"
        BY <2>5, <3>3 DEF WriteVector, done, i
      <4>2. /\ writer' = "fin" /\ file'.finCount = n
            /\ DOMAIN file'.fin = (0 .. i - 1) \cup {i}
        <5> DEFINE more == Put(done, i, IF i \in DOMAIN cfinal.data THEN {cfinal.data[i]} ELSE {})
        <5>1. DOMAIN more = (0 .. i - 1) \cup {i}
          BY <3>2 DEF Put
        <5> HIDE DEF more
        <5>2. Write("fin", "fin", "fin", more)
          BY <4>1 DEF more
        <5>3. /\ writer' = "fin" /\ layer' = layer /\ file'["fin"] = more
              /\ \A f \in DOMAIN file : f # "fin" => file'[f] = file[f]
          BY <5>2, Written
        <5> QED  BY <2>2, <5>1, <5>3
      <4>3. (0 .. i - 1) \cup {i} = 0 .. (i + 1) - 1 /\ i + 1 \in 0 .. n
        BY <3>1, <3>2, <3>3
      <4> QED  BY <2>1, <2>3, <3>1, <4>1, <4>2, <4>3 DEF CountsInv, Enough
    <3>4. CASE ~ (i < n)
      <4>1. Write("fin", Following("fin"), "fin", done) /\ layer.kind = "vec"
        BY <2>5, <3>4 DEF WriteVector, done, i
      <4>2. i = n
        BY <3>1, <3>2, <3>4
      <4>3. /\ writer' = "table" /\ file'.finCount = n /\ DOMAIN file'.fin = 0 .. n - 1
        BY <2>2, <3>2, <4>1, <4>2, Sections, Written
      <4> QED  BY <2>1, <2>3, <3>1, <4>1, <4>3 DEF CountsInv, Enough
    <3> QED  BY <3>3, <3>4
  <2> QED  BY <1>6, <2>4, <2>5 DEF WriteFin
<1>7. CASE WriteTable
  <2>1. /\ writer = "table" /\ writer' = "done" /\ layer' = layer
        /\ DOMAIN file' = DOMAIN file \cup {"table"}
        /\ \A f \in DOMAIN file : f # "table" => file'[f] = file[f]
    BY <1>7, Sections, Written DEF WriteTable, WriteField
  <2>2. \A f \in {"trs", "trsCount", "fin", "finCount"} :
            f \in DOMAIN file /\ f \in DOMAIN file' /\ file'[f] = file[f]
    BY <2>1 DEF Inv, FileInv
  <2>3. Enough(file.trsCount, "trs", AfterTrs, ctrs.data, "trs")'
    BY <2>1, <2>2, TrsCountKept
  <2>4. Enough(file.finCount, "fin", AfterFin, cfinal.data, "fin")'
    BY <2>1, <2>2 DEF CountsInv, Enough
  <2> QED  BY <2>1, <2>3, <2>4 DEF CountsInv
<1> QED  BY <1>1, <1>2, <1>3, <1>4, <1>5, <1>6, <1>7 DEF WriterStep

\* What the header of a cache announces is in the file.
THEOREM CountsHold == Spec => []CountsInv
<1>1. Init => CountsInv
  BY DEF Init, CountsInv, AfterTrsCount, AfterTrs, AfterFinKnown, AfterFinCount, AfterFin
<1>2. Inv /\ Inv' /\ CountsInv /\ [Next]_vars => CountsInv'
  <2> SUFFICES ASSUME Inv, Inv', CountsInv, [Next]_vars PROVE CountsInv'
    OBVIOUS
  <2>1. CASE UNCHANGED vars
    BY <2>1, CountsKept DEF vars, cache, files
  <2> QED  BY <2>1, ThreadCounts, WriterCounts DEF Next
<1> QED  BY <1>1, <1>2, InvHolds, PTL DEF Spec

-----------------------------------------------------------------------------
(* What is read.                                                           *)

LEMMA SubsetOfSize ==
    ASSUME NEW S, IsFiniteSet(S), NEW n \in Nat, n <= Cardinality(S) PROVE kSubset(n, S) # {}
<1>1. PICK f : f \in Bijection(1 .. Cardinality(S), S)
  BY FS_CardinalityType DEF ExistsBijection
<1> DEFINE A == {f[i] : i \in 1 .. n}
           g == [i \in 1 .. n |-> f[i]]
<1>2. Cardinality(S) \in Nat /\ 1 .. n \subseteq 1 .. Cardinality(S)
  BY FS_CardinalityType
<1>3. A \subseteq S /\ g \in Bijection(1 .. n, A)
  BY <1>1, <1>2 DEF Bijection, Injection, Surjection, IsInjective
<1>4. IsFiniteSet(1 .. n) /\ Cardinality(1 .. n) = n
  BY FS_Interval
<1>5. Cardinality(A) = n
  <2> HIDE DEF A, g
  <2> QED  BY <1>3, <1>4, FS_Bijection DEF ExistsBijection
<1> QED  BY <1>3, <1>5 DEF kSubset

\* There is something to read when enough was written.
LEMMA TakenSome ==
    ASSUME NEW entries, IsFiniteSet(DOMAIN entries), NEW n \in Nat,
           n <= Cardinality(DOMAIN entries)
    PROVE  Taken(entries, n) # {}
BY SubsetOfSize DEF Taken

\* What is read was written.
LEMMA TakenPart ==
    ASSUME NEW entries, NEW n, NEW got \in Taken(entries, n)
    PROVE  \A i \in DOMAIN got : i \in DOMAIN entries /\ got[i] \in entries[i]
<1>1. PICK A \in SUBSET DOMAIN entries : got = Computed(Restrict(entries, A))
  BY DEF Taken, kSubset
<1> QED  BY <1>1 DEF Computed, Restrict

\* All of it, when it was all announced.
LEMMA TakenAll ==
    ASSUME NEW entries, IsFiniteSet(DOMAIN entries)
    PROVE  Taken(entries, Cardinality(DOMAIN entries)) = {Computed(entries)}
<1> DEFINE all == DOMAIN entries
<1>1. kSubset(Cardinality(all), all) = {all}
  BY FS_Subset DEF kSubset
<1>2. Computed(Restrict(entries, all)) = Computed(entries)
  <2> DEFINE part == Restrict(entries, all)
  <2>1. DOMAIN part = all /\ \A i \in all : part[i] = entries[i]
    BY DEF Restrict
  <2> HIDE DEF part
  <2>2. {j \in DOMAIN part : part[j] # {}} = {j \in DOMAIN entries : entries[j] # {}}
    BY <2>1
  <2>3. \A i \in {j \in DOMAIN entries : entries[j] # {}} : part[i] = entries[i]
    BY <2>1
  <2> QED  BY <2>2, <2>3 DEF Computed, part
<1> HIDE DEF all
<1>3. Taken(entries, Cardinality(all)) = {Computed(Restrict(entries, all))}
  BY <1>1 DEF Taken, all
<1> QED  BY <1>2, <1>3 DEF all

(***************************************************************************)
(* The files of a machine that grows while it is written have what they    *)
(* announce, name every state they mention, and what is read of a state is *)
(* right.  Only a map's file can be out of step; its final weights are not *)
(* found then.                                                             *)
(***************************************************************************)
THEOREM FilesClosedHolds == Spec => []FilesClosed
<1>1. Inv /\ CountsInv => FilesClosed
  <2> SUFFICES ASSUME Inv, CountsInv, writer = "done" PROVE FilesClosed
    BY DEF FilesClosed
  <2> DEFINE ids == Allocated(file.table)
  <2>1. /\ FileTable = file.table /\ file.table \in TableType /\ 0 \in ids
        /\ file.start.data \in {NotComputed, 0}
        /\ \A i \in DOMAIN file.trs : \A v \in file.trs[i] : TrsRight(file.table, i, v)
        /\ \A i \in DOMAIN file.fin : \A v \in file.fin[i] : FinalRight(file.table, i, v)
    BY DEF Inv, FileInv, FileTable, AfterStart, AfterTrsKnown, AfterTrsCount, AfterTrs,
           AfterFinKnown, AfterFinCount, AfterFin
  <2>2. \A trs \in TrsRead : \A i \in DOMAIN trs : TrsRight(file.table, i, trs[i])
    BY <2>1, TakenPart DEF TrsRead
  <2>3. \A finals \in FinalsRead : \A i \in DOMAIN finals :
            FinalRight(file.table, i, finals[i])
    BY <2>1, TakenPart DEF FinalsRead
  <2>4. ASSUME NEW trs \in TrsRead, NEW i \in DOMAIN trs
        PROVE  LET succ == Succ[FindTuple(file.table, i)]
               IN  /\ i \in ids
                   /\ DOMAIN trs[i] = DOMAIN succ
                   /\ \A k \in DOMAIN succ : /\ trs[i][k] \in ids
                                             /\ FindTuple(file.table, trs[i][k]) = succ[k]
    <3> DEFINE tuple == FindTuple(file.table, i)
               ts == trs[i]
    <3>1. i \in ids /\ Decodes(file.table, tuple, ts)
      BY <2>2 DEF TrsRight
    <3>2. tuple \in Tuples /\ Succ[tuple] \in Seq(Tuples)
      BY <2>1, <3>1, NamedTuple, LayersAssumption
    <3> HIDE DEF tuple, ts
    <3>3. DOMAIN ts = DOMAIN Succ[tuple]
      BY <3>1, <3>2 DEF Decodes, DecodesPrefix
    <3> QED  BY <3>1, <3>3 DEF Decodes, DecodesPrefix, tuple, ts
  <2>5. /\ Enough(file.trsCount, "trs", AfterTrs, ctrs.data, "trs")
        /\ Enough(file.finCount, "fin", AfterFin, cfinal.data, "fin")
    BY DEF CountsInv, AfterTrsCount, AfterTrs, AfterFinKnown, AfterFinCount, AfterFin
  <2>6. layer.kind = "vec" \/ layer.kind = "hash"
    BY LayersAssumption DEF Inv, SlotsInv
  <2>7. /\ layer.kind = "vec" => Cardinality(DOMAIN file.trs) = file.trsCount
        /\ IsFiniteSet(DOMAIN file.trs) /\ file.trsCount \in Nat
        /\ file.trsCount <= Cardinality(DOMAIN file.trs)
    BY <2>5, <2>6, UpTo
       DEF Enough, AfterTrs, AfterFinKnown, AfterFinCount, AfterFin
  <2>8. /\ IsFiniteSet(DOMAIN file.fin) /\ file.finCount \in Nat
        /\ file.finCount <= Cardinality(DOMAIN file.fin)
    BY <2>5, <2>6, UpTo DEF Enough, AfterFin
  <2>9. TrsRead # {} /\ (OutOfStep => layer.kind = "hash") /\ (~ OutOfStep => FinalsRead # {})
    BY <2>6, <2>7, <2>8, TakenSome DEF TrsRead, FinalsRead, OutOfStep
  <2> QED  BY <2>1, <2>3, <2>4, <2>9 DEF FilesClosed, FinalRight
<1> QED  BY <1>1, CountsHold, InvHolds, PTL

\* A file that has all the entries gives them back.
LEMMA EntriesReadBack ==
    ASSUME Inv, NEW data, DOMAIN data \subseteq Allocated(table),
           data = [i \in DOMAIN data |-> data[i]]
    PROVE  /\ Computed(Entries(data)) = data
           /\ IsFiniteSet(DOMAIN Entries(data)) /\ Cardinality(DOMAIN Entries(data)) = LenOf(data)
<1> DEFINE entries == Entries(data)
<1>1. {j \in DOMAIN entries : entries[j] # {}} = DOMAIN data
  <2>1. CASE layer.kind = "hash"
    BY <2>1 DEF Entries
  <2>2. CASE layer.kind # "hash"
    <3>1. layer.kind = "vec"
      BY <2>2, LayersAssumption DEF Inv, SlotsInv
    <3>2. \A i \in DOMAIN data : i \in 0 .. LenOf(data) - 1
      BY <3>1, LenOfVector
    <3>3. entries = [i \in 0 .. LenOf(data) - 1 |-> IF i \in DOMAIN data THEN {data[i]} ELSE {}]
      BY <2>2 DEF Entries, Places
    <3> HIDE DEF entries, LenOf
    <3> QED  BY <3>2, <3>3
  <2> QED  BY <2>1, <2>2
<1>2. \A j \in DOMAIN data : entries[j] = {data[j]}
  <2>1. \A j \in DOMAIN data : j \in DOMAIN entries /\ entries[j] # {}
    BY <1>1
  <2> QED  BY <2>1 DEF Entries, Places
<1> HIDE DEF entries
<1>3. \A j \in DOMAIN data : (CHOOSE v \in entries[j] : TRUE) = data[j]
  BY <1>2
<1>4. Computed(entries) = [j \in DOMAIN data |-> data[j]]
  BY <1>1, <1>3 DEF Computed
<1>5. IsFiniteSet(DOMAIN entries) /\ Cardinality(DOMAIN entries) = LenOf(data)
  <2>1. CASE layer.kind = "hash"
    <3>1. IsFiniteSet(Allocated(table))
      BY AllocatedFinite DEF Inv, TableInv
    <3>2. DOMAIN entries = DOMAIN data
      BY <2>1 DEF entries, Entries
    <3> QED  BY <2>1, <3>1, <3>2, FS_Subset DEF LenOf
  <2>2. CASE layer.kind # "hash"
    <3>1. LenOf(data) \in Nat
      BY CountWritten
    <3>2. DOMAIN entries = 0 .. LenOf(data) - 1
      BY <2>2 DEF entries, Entries, Places
    <3> HIDE DEF LenOf
    <3> QED  BY <3>1, <3>2, UpTo
  <2> QED  BY <2>1, <2>2
<1> QED  BY <1>4, <1>5 DEF entries

(***************************************************************************)
(* A cache that is not touched while it is written is read back exactly,   *)
(* and in no other way, from the file of a map or of a vector.             *)
(***************************************************************************)
THEOREM ReadsBackHolds == Spec => []ReadsBack
<1>1. Inv => ReadsBack
  <2> SUFFICES ASSUME Inv, writer = "done", quiet
               PROVE  Readings = {[start |-> cstart, trs |-> ctrs, final |-> cfinal]}
    BY DEF ReadsBack
  <2>1. /\ file.start = cstart
        /\ file.trsKnown = ctrs.known /\ file.trsCount = LenOf(ctrs.data)
        /\ file.trs = Entries(ctrs.data)
        /\ file.finKnown = cfinal.known /\ file.finCount = LenOf(cfinal.data)
        /\ file.fin = Entries(cfinal.data)
    BY DEF Inv, QuietInv, AfterStart, AfterTrsKnown, AfterTrsCount, AfterTrs,
           AfterFinKnown, AfterFinCount, AfterFin
  <2>2. /\ DOMAIN ctrs.data \subseteq Allocated(table)
        /\ DOMAIN cfinal.data \subseteq Allocated(table)
    BY DEF Inv, CacheInv, TrsRight, FinalRight
  <2>3. /\ ctrs.data = [i \in DOMAIN ctrs.data |-> ctrs.data[i]]
        /\ cfinal.data = [i \in DOMAIN cfinal.data |-> cfinal.data[i]]
        /\ ctrs = [data |-> ctrs.data, known |-> ctrs.known]
        /\ cfinal = [data |-> cfinal.data, known |-> cfinal.known]
    BY DEF Inv, CacheInv, IsEntries
  <2>4. /\ Computed(file.trs) = ctrs.data /\ Computed(file.fin) = cfinal.data
        /\ IsFiniteSet(DOMAIN file.trs) /\ Cardinality(DOMAIN file.trs) = file.trsCount
        /\ IsFiniteSet(DOMAIN file.fin) /\ Cardinality(DOMAIN file.fin) = file.finCount
    BY <2>1, <2>2, <2>3, EntriesReadBack
  <2>5. TrsRead = {ctrs.data} /\ FinalsRead = {cfinal.data}
    BY <2>4, TakenAll DEF TrsRead, FinalsRead, OutOfStep
  <2> QED  BY <2>1, <2>3, <2>5 DEF Readings
<1> QED  BY <1>1, InvHolds, PTL

=============================================================================
