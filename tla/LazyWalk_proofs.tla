-------------------------- MODULE LazyWalk_proofs --------------------------
(***************************************************************************)
(* Proofs about LazyWalk, for any machine, any number of other threads and *)
(* any bounds: the traversing thread is a client like any other, the state *)
(* iterator misses no state, and compute_bounded copies the machine.       *)
(***************************************************************************)
EXTENDS LazyWalk, LazyFst_proofs, FiniteSetTheorems

-----------------------------------------------------------------------------
(* What a step of the machine leaves as it was.                            *)

\* The start is fixed and names do not change.
LEMMA NextExtends ==
    ASSUME Inv, [Next]_vars
    PROVE  Extends(table, table') /\ origin' = origin
<1>1. /\ table \in TableType /\ Bijective(table)
      /\ origin \in Tuples \cup {NoTuple}
  BY DEF Inv, TypeOK, TableBijective
<1>2. CASE UNCHANGED <<origin, table>>
  BY <1>1, <1>2, ExtendsItself
<1>3. ASSUME NEW t \in Threads, Request(t) \/ Clear(t) \/ Finish(t)
      PROVE  UNCHANGED <<origin, table>>
  BY <1>3 DEF Request, CallStart, CallTrs, CallFinal, CallClone, Call, Clear, Finish
<1>4. ASSUME NEW t \in Threads, Advance(t), ~ ComputeStart(t), ~ InternNext(t)
      PROVE  UNCHANGED <<origin, table>>
  BY <1>4 DEF Advance, StartHit, StartMiss, InsertStart, TrsHit, TrsMiss,
     FindTrsTuple, InsertTrs, FinalHit, FinalMiss, FindFinalTuple, InsertFinal,
     ComputeFails, CloneField
<1>5. ASSUME NEW t \in Threads, ComputeStart(t)
      PROVE  Extends(table, table') /\ origin' = origin
  BY <1>1, <1>5, ExtendsItself, InternedExtends DEF ComputeStart
<1>6. ASSUME NEW t \in Threads, InternNext(t)
      PROVE  Extends(table, table') /\ origin' = origin
  <2> DEFINE next == Succ[tup[t]][Len(arcs[t]) + 1]
  <2>1. /\ pc[t] = "intern" /\ Len(arcs[t]) < Len(Succ[tup[t]])
        /\ table' = Interned(table, next) /\ origin' = origin
    BY <1>6 DEF InternNext, Goto
  <2>2. tup[t] \in Tuples
    BY <1>1, <2>1, NamedTuple DEF Inv, CallInv, AboutAState
  <2>3. Succ[tup[t]] \in Seq(Tuples) /\ arcs[t] \in Seq(Nat)
    BY <2>2, MachineAssumption DEF Inv, TypeOK
  <2>4. next \in Tuples
    BY <2>1, <2>3
  <2> HIDE DEF next
  <2> QED  BY <1>1, <2>1, <2>4, InternedExtends
<1>7. CASE UNCHANGED vars
  BY <1>2, <1>7 DEF vars
<1> QED  BY <1>2, <1>3, <1>4, <1>5, <1>6, <1>7 DEF Next

\* Only clear takes answers out of the cache.
LEMMA CacheGrows ==
    ASSUME Inv, NEW t \in Threads, Request(t) \/ Advance(t) \/ Finish(t)
    PROVE  /\ cstart.data # NotComputed => cstart'.data # NotComputed
           /\ DOMAIN ctrs.data \subseteq DOMAIN ctrs'.data
<1>1. CASE UNCHANGED <<cstart, ctrs>>
  BY <1>1
<1>2. CASE InsertStart(t)
  <2>1. IsStart(table, origin, cur[t]) /\ cstart'.data = cur[t] /\ ctrs' = ctrs
    BY <1>2 DEF Inv, CallInv, InsertStart, Goto
  <2>2. cur[t] \in Nat \cup {NoState}
    BY DEF Inv, TypeOK
  <2> QED  BY <2>1, <2>2 DEF NotComputed, NoState
<1>3. CASE InsertTrs(t)
  BY <1>3 DEF InsertTrs, Insert
<1>4. CASE Request(t) \/ Finish(t)
  BY <1>1, <1>4 DEF Request, CallStart, CallTrs, CallFinal, CallClone, Call, Finish, cache
<1>5. ASSUME Advance(t), ~ InsertStart(t), ~ InsertTrs(t)
      PROVE  UNCHANGED <<cstart, ctrs>>
  BY <1>5 DEF Advance, StartHit, StartMiss, ComputeStart, TrsHit, TrsMiss,
     FindTrsTuple, InternNext, FinalHit, FinalMiss, FindFinalTuple, InsertFinal,
     ComputeFails, CloneField, cache
<1> QED  BY <1>1, <1>2, <1>3, <1>4, <1>5

\* A step of another thread leaves a thread where it is.
LEMMA OthersKeep ==
    ASSUME Inv, NEW t \in Threads, NEW u \in Threads \ {t},
           Request(u) \/ Clear(u) \/ Advance(u) \/ Finish(u)
    PROVE  pc'[t] = pc[t] /\ cur'[t] = cur[t]
<1>1. CASE Request(u) \/ Clear(u) \/ Finish(u)
  BY <1>1 DEF Inv, TypeOK, Request, CallStart, CallTrs, CallFinal, CallClone, Call,
     Goto, Clear, Finish, locals
<1>2. CASE Advance(u)
  BY <1>2 DEF Inv, TypeOK, Advance, Goto, StartHit, StartMiss, ComputeStart, InsertStart,
     TrsHit, TrsMiss, FindTrsTuple, InternNext, InsertTrs, FinalHit, FinalMiss,
     FindFinalTuple, InsertFinal, ComputeFails, CloneField, locals
<1> QED  BY <1>1, <1>2

-----------------------------------------------------------------------------
(* The machine's tuples.                                                   *)

LEMMA ReachableStart ==
    ASSUME origin \in Tuples, origin # NoTuple
    PROVE  origin \in Reachable
BY DEF Reachable

LEMMA ReachableSucc ==
    ASSUME NEW u \in Reachable, NEW v \in Range(Succ[u])
    PROVE  v \in Reachable
<1>1. origin # NoTuple /\ u \in Tuples
  BY DEF Reachable
<1>2. v \in Tuples
  BY <1>1, MachineAssumption DEF Range
<1>3. ASSUME NEW C \in SUBSET Tuples, origin \in C, Closed(C)
      PROVE  v \in C
  BY <1>1, <1>3 DEF Reachable, Closed
<1> QED  BY <1>1, <1>2, <1>3 DEF Reachable

LEMMA ReachableLeast ==
    ASSUME NEW C \in SUBSET Tuples, origin # NoTuple => origin \in C, Closed(C)
    PROVE  Reachable \subseteq C
BY DEF Reachable

\* The tuples of allocated ids stay what they are.
LEMMA TuplesOfExtends ==
    ASSUME NEW n \in 0 .. Len(table.id_to_tuple), Extends(table, table')
    PROVE  \A ids \in SUBSET (0 .. n - 1) : TuplesOf(ids)' = TuplesOf(ids)
BY DEF Extends, TuplesOf, Allocated

-----------------------------------------------------------------------------
(* The traversing thread is a client: it only makes calls that any thread  *)
(* may make, about states it was given.                                    *)

\* What is queued, and what has been copied, has been discovered.
LEMMA QueuedVisited ==
    ASSUME WalkInv, at \in Searching
    PROVE  /\ CopyInv
           /\ queue \in Seq(Nat)
           /\ \A k \in 1 .. Len(queue) : queue[k] \in visited
           /\ DOMAIN out.trs \subseteq visited
           /\ visited \subseteq Allocated(table)
<1>1. CopyInv
  BY DEF WalkInv, SearchInv, Searching
<1>2. Range(queue) \subseteq visited /\ DOMAIN out.trs \subseteq visited
  BY DEF WalkInv, SingleTouch, Searching
<1> QED  BY <1>1, <1>2 DEF CopyInv, Range

LEMMA ClientStep ==
    ASSUME Inv, WalkInv, [WalkNext]_<<vars, walk>>
    PROVE  [Next]_vars
<1>1. Walker \in Threads
  BY WalkerAssumption
<1>2. CASE CallStart(Walker) \/ Finish(Walker) \/ Advance(Walker)
  BY <1>1, <1>2 DEF Next, Request
<1>3. CASE IterExpand
  <2>1. pos \in Allocated(table)
    BY <1>3 DEF IterExpand, WalkInv, IterInv, Inv, TypeOK, TableType, Allocated
  <2> QED  BY <1>1, <1>3, <2>1 DEF IterExpand, Next, Request
<1>4. CASE ComputePop
  <2>1. /\ queue # <<>> /\ queue \in Seq(Nat)
        /\ \A k \in 1 .. Len(queue) : queue[k] \in Allocated(table)
    BY <1>4, QueuedVisited DEF ComputePop, At, Searching
  <2>2. Head(queue) \in Allocated(table)
    BY <2>1
  <2> QED  BY <1>1, <1>4, <2>2 DEF ComputePop, Next, Request
<1>5. CASE ComputeWeight
  <2>1. at = "bfs_weight" /\ state \in DOMAIN out.trs
    BY <1>5 DEF ComputeWeight, At, WalkInv, SearchInv
  <2>2. state \in Allocated(table)
    BY <2>1, QueuedVisited DEF Searching
  <2> QED  BY <1>1, <1>5, <2>2 DEF ComputeWeight, Next, Request
<1>6. CASE UNCHANGED vars
  BY <1>6
<1>7. ASSUME NEW t \in Threads, Others(t)
      PROVE  Next
  BY <1>7 DEF Others, Next
<1>8. CASE WalkStep
  BY <1>2, <1>3, <1>4, <1>5, <1>6, <1>8
     DEF WalkStep, Taken, StatesIter, IterReady, IterNext, IterReadKnown, IterEnd, IterYield,
         Compute, ComputeNoStart, ComputeStarted, ComputeDone, ComputeTrLimit, ComputeTrs,
         ComputeDiscover, ComputeStateLimit, ComputeCopyTrs, ComputeCopyFinal, WalkFails
<1> QED  BY <1>6, <1>7, <1>8 DEF WalkNext

-----------------------------------------------------------------------------
(* Steps that one of the traversals does not see.                          *)

Grows == Extends(table, table') /\ origin' = origin

\* The iterator stands still, and is not what runs.
LEMMA IterIdle ==
    ASSUME Inv, Inv', IterInv, Grows, UNCHANGED iterator,
           at' \notin {"new", "iter_start", "iter_next", "iter_known", "iter_trs", "iter_end"}
    PROVE  IterInv'
<1>1. /\ Len(table.id_to_tuple) \in Nat /\ Len(table'.id_to_tuple) \in Nat
      /\ Len(table.id_to_tuple) <= Len(table'.id_to_tuple)
  BY DEF Grows, Extends, Inv, TypeOK, TableType
<1>2. pos' = pos /\ known' = known
  BY DEF iterator
<1> QED  BY <1>1, <1>2 DEF IterInv

\* The states below a bound keep their tuples.
LEMMA BelowStable ==
    ASSUME Inv, Grows, pos' = pos, pos \in 0 .. Len(table.id_to_tuple),
           NEW CONSTANT n \in Nat, n <= Len(table.id_to_tuple)
    PROVE  /\ StartBelow(n) => StartBelow(n)'
           /\ SuccBelow(n) => SuccBelow(n)'
<1>1. Len(table.id_to_tuple) \in Nat
  BY DEF Inv, TypeOK, TableType
<1>2. TuplesOf(0 .. n - 1)' = TuplesOf(0 .. n - 1)
  BY <1>1, TuplesOfExtends DEF Grows
<1>3. \A i \in 0 .. pos - 1 : FindTuple(table', i) = FindTuple(table, i)
  BY <1>1 DEF Grows, Extends, Allocated
<1>4. StartBelow(n) => StartBelow(n)'
  BY <1>2 DEF StartBelow, Grows
<1>5. SuccBelow(n) => SuccBelow(n)'
  BY <1>2, <1>3 DEF SuccBelow
<1> QED  BY <1>4, <1>5

\* A step of the machine that the iterator does not make.
LEMMA IterStable ==
    ASSUME Inv, Inv', IterInv, Grows, UNCHANGED <<at, iterator>>,
           at = "iter_trs" => pc'[Walker] \in TrsPcs /\ cur'[Walker] = pos,
           ~ cleared' => ~ cleared,
           ~ cleared' /\ at \in {"iter_start", "iter_next", "iter_known", "iter_trs"} =>
             /\ cstart.data # NotComputed => cstart'.data # NotComputed
             /\ DOMAIN ctrs.data \subseteq DOMAIN ctrs'.data
             /\ at = "iter_start" /\ pc'[Walker] = "got_start" =>
                  cstart'.data # NotComputed
             /\ at = "iter_trs" /\ pc'[Walker] = "got_trs" => pos \in DOMAIN ctrs'.data
    PROVE  IterInv'
<1>1. /\ Len(table.id_to_tuple) \in Nat /\ Len(table'.id_to_tuple) \in Nat
      /\ Len(table.id_to_tuple) <= Len(table'.id_to_tuple)
  BY DEF Grows, Extends, Inv, TypeOK, TableType
<1>2. pos' = pos /\ known' = known /\ at' = at
  BY DEF iterator
<1>3. pos \in 0 .. Len(table.id_to_tuple) /\ known.max \in 0 .. Len(table.id_to_tuple)
  BY DEF IterInv
<1>4. pos' \in 0 .. Len(table'.id_to_tuple) /\ known'.max \in 0 .. Len(table'.id_to_tuple)
  BY <1>1, <1>2, <1>3
<1>5. \A n \in Nat : n <= Len(table.id_to_tuple) =>
        /\ StartBelow(n) => StartBelow(n)'
        /\ SuccBelow(n) => SuccBelow(n)'
  BY <1>2, <1>3, BelowStable
<1>6. /\ StartBelow(known.max) => StartBelow(known.max)'
      /\ SuccBelow(known.max) => SuccBelow(known.max)'
  <2>1. known.max \in Nat /\ known.max <= Len(table.id_to_tuple)
    BY <1>1, <1>3
  <2> QED  BY <1>2, <1>5, <2>1
<1>7. /\ StartBelow(pos) => StartBelow(pos)'
      /\ SuccBelow(pos) => SuccBelow(pos)'
  <2>1. pos \in Nat /\ pos <= Len(table.id_to_tuple)
    BY <1>1, <1>3
  <2> QED  BY <1>2, <1>5, <2>1
<1> QED  BY <1>2, <1>4, <1>6, <1>7 DEF IterInv

\* What was copied remains the machine's.
LEMMA CopyStable ==
    ASSUME Inv, CopyInv, DOMAIN out.trs \subseteq visited, Grows,
           UNCHANGED <<visited, out>>, queue' \in Seq(Nat), Weighing' = Weighing
    PROVE  CopyInv'
<1>1. Reachable' = Reachable
  BY DEF Reachable, Grows
<1>2. visited \subseteq Allocated(table')
  BY DEF CopyInv, Grows, Extends
<1>3. \A s \in visited : FindTuple(table', s) = FindTuple(table, s)
  BY DEF CopyInv, Grows, Extends
<1>4. \A s \in visited : s < out.states /\ FindTuple(table', s) \in Reachable
  BY <1>3 DEF CopyInv
<1>5. IsStart(table', origin, out.start)
  BY IsStartExtends DEF CopyInv, Grows
<1>6. \A s \in DOMAIN out.trs : /\ out.trs[s] \in Seq(Nat)
                               /\ Decodes(table', FindTuple(table', s), out.trs[s])
                               /\ Range(out.trs[s]) \subseteq visited
  BY <1>3, DecodesExtends DEF CopyInv, Grows
<1>7. \A s \in DOMAIN out.trs : FinalCopied(s)' <=> FinalCopied(s)
  BY <1>3 DEF FinalCopied
<1> QED
  BY <1>1, <1>2, <1>4, <1>5, <1>6, <1>7 DEF CopyInv, Grows

\* A step of the machine that the search does not make.
LEMMA SearchStable ==
    ASSUME Inv, WalkInv, Grows, UNCHANGED <<at, search>>,
           at = "bfs_trs" => pc'[Walker] \in TrsPcs /\ cur'[Walker] = state,
           at = "bfs_final" => pc'[Walker] \in FinalPcs /\ cur'[Walker] = state
    PROVE  SearchInv' /\ SingleTouch'
<1>1. /\ UNCHANGED <<bounds, state, found, seen, queue, visited, num_trs, out>>
      /\ at' = at /\ origin' = origin
  BY DEF search, Grows
<1>2. SingleTouch'
  BY <1>1 DEF WalkInv, SingleTouch, Expanding
<1>3. at \in Searching \cup {"bfs_ok"} /\ origin # NoTuple => CopyInv'
  <2> SUFFICES ASSUME at \in Searching \cup {"bfs_ok"}, origin # NoTuple PROVE CopyInv'
    OBVIOUS
  <2>1. CopyInv /\ DOMAIN out.trs \subseteq visited
    BY DEF WalkInv, SearchInv, SingleTouch, Searching
  <2>2. Weighing' = Weighing
    BY <1>1 DEF Weighing
  <2>3. queue' \in Seq(Nat)
    BY <1>1, <2>1 DEF CopyInv
  <2> QED  BY <1>1, <2>1, <2>2, <2>3, CopyStable
<1>4. at = "bfs_scan" => Decodes(table', FindTuple(table', state), found)
  <2> SUFFICES ASSUME at = "bfs_scan" PROVE Decodes(table', FindTuple(table', state), found)
    OBVIOUS
  <2>1. state \in visited /\ visited \subseteq Allocated(table)
    BY QueuedVisited DEF WalkInv, SingleTouch, Expanding, Searching
  <2>2. FindTuple(table', state) = FindTuple(table, state)
    BY <2>1 DEF Grows, Extends
  <2> QED  BY <2>2, DecodesExtends DEF WalkInv, SearchInv, Grows
<1>5. SearchInv'
  BY <1>1, <1>3, <1>4 DEF WalkInv, SearchInv
<1> QED  BY <1>2, <1>5

\* Nothing of the search is claimed any more, or yet.
LEMMA SearchIdle ==
    ASSUME at' \notin {"new", "bfs_start", "bfs_ok"} \cup Searching
    PROVE  SearchInv' /\ SingleTouch'
BY DEF SearchInv, SingleTouch, Searching

-----------------------------------------------------------------------------
(* Steps inside a call of the traversing thread, and those of the others.  *)

LEMMA AdvanceTrs ==
    ASSUME Inv, NEW t \in Threads, Advance(t), pc[t] \in TrsPcs
    PROVE  /\ pc'[t] \in TrsPcs
           /\ cur'[t] = cur[t]
           /\ pc'[t] = "got_trs" => cur[t] \in DOMAIN ctrs'.data
<1>1. pc \in [Threads -> Pcs] /\ cur \in [Threads -> Nat \cup {NoState}]
  BY DEF Inv, TypeOK
<1>2. TrsHit(t) \/ TrsMiss(t) \/ FindTrsTuple(t) \/ InternNext(t) \/ InsertTrs(t)
      \/ ComputeFails(t)
  BY DEF Advance, TrsPcs, StartHit, StartMiss, ComputeStart, InsertStart, FinalHit,
     FinalMiss, FindFinalTuple, InsertFinal, CloneField, Goto
<1> QED
  BY <1>1, <1>2 DEF TrsPcs, TrsHit, TrsMiss, FindTrsTuple, InternNext, InsertTrs,
     Insert, ComputeFails, Goto, cache, locals

LEMMA AdvanceFinal ==
    ASSUME Inv, NEW t \in Threads, Advance(t), pc[t] \in FinalPcs
    PROVE  pc'[t] \in FinalPcs /\ cur'[t] = cur[t]
<1>1. pc \in [Threads -> Pcs] /\ cur \in [Threads -> Nat \cup {NoState}]
  BY DEF Inv, TypeOK
<1>2. FinalHit(t) \/ FinalMiss(t) \/ FindFinalTuple(t) \/ InsertFinal(t) \/ ComputeFails(t)
  BY DEF Advance, FinalPcs, StartHit, StartMiss, ComputeStart, InsertStart, TrsHit,
     TrsMiss, FindTrsTuple, InternNext, InsertTrs, CloneField, Goto
<1> QED
  BY <1>1, <1>2 DEF FinalPcs, FinalHit, FinalMiss, FindFinalTuple, InsertFinal,
     ComputeFails, Goto, locals

\* Whoever has an answer to start() has seen it in the cache.
LEMMA AdvanceStart ==
    ASSUME Inv, NEW t \in Threads, Advance(t), pc'[t] = "got_start"
    PROVE  cstart'.data # NotComputed
<1>1. pc \in [Threads -> Pcs]
  BY DEF Inv, TypeOK
<1>2. StartHit(t) \/ InsertStart(t)
  BY <1>1 DEF Advance, StartMiss, ComputeStart, TrsHit, TrsMiss, FindTrsTuple, InternNext,
     InsertTrs, FinalHit, FinalMiss, FindFinalTuple, InsertFinal, ComputeFails,
     CloneField, Goto, Pcs, Answered
<1>3. CASE StartHit(t)
  BY <1>3 DEF StartHit, cache
<1>4. CASE InsertStart(t)
  <2>1. IsStart(table, origin, cur[t]) /\ cstart'.data = cur[t]
    BY <1>4 DEF Inv, CallInv, InsertStart, Goto
  <2>2. cur[t] \in Nat \cup {NoState}
    BY DEF Inv, TypeOK
  <2> QED  BY <2>1, <2>2 DEF NotComputed, NoState
<1> QED  BY <1>2, <1>3, <1>4

LEMMA AdvanceWalkInv ==
    ASSUME Inv, Inv', WalkInv, Grows, Advance(Walker), UNCHANGED walk
    PROVE  WalkInv'
<1>1. Walker \in Threads
  BY WalkerAssumption
<1>2. UNCHANGED <<at, iterator, search, cleared>>
  BY DEF walk
<1>3. at = "iter_trs" \/ at = "bfs_trs" =>
        /\ pc'[Walker] \in TrsPcs
        /\ cur'[Walker] = cur[Walker]
        /\ pc'[Walker] = "got_trs" => cur[Walker] \in DOMAIN ctrs'.data
  BY <1>1, AdvanceTrs DEF WalkInv, IterInv, SearchInv
<1>4. at = "bfs_final" => pc'[Walker] \in FinalPcs /\ cur'[Walker] = cur[Walker]
  BY <1>1, AdvanceFinal DEF WalkInv, SearchInv
<1>5. /\ cstart.data # NotComputed => cstart'.data # NotComputed
      /\ DOMAIN ctrs.data \subseteq DOMAIN ctrs'.data
  BY <1>1, CacheGrows
<1>6. pc'[Walker] = "got_start" => cstart'.data # NotComputed
  BY <1>1, AdvanceStart
<1>7. IterInv'
  <2>1. at = "iter_trs" => cur[Walker] = pos
    BY DEF WalkInv, IterInv
  <2> QED  BY <1>2, <1>3, <1>5, <1>6, <2>1, IterStable DEF WalkInv
<1>8. SearchInv' /\ SingleTouch'
  <2>1. /\ at = "bfs_trs" => cur[Walker] = state
        /\ at = "bfs_final" => cur[Walker] = state
    BY DEF WalkInv, SearchInv
  <2> QED  BY <1>2, <1>3, <1>4, <2>1, SearchStable
<1> QED  BY <1>7, <1>8 DEF WalkInv

\* The others may insert, intern and clear: nothing that a traversal relies on
\* is lost but what its own answers have put in the cache, and then it is
\* recorded that the cache was cleared.
LEMMA OthersWalkInv ==
    ASSUME Inv, Inv', WalkInv, Grows, NEW t \in Threads \ {Walker}, Others(t)
    PROVE  WalkInv'
<1>1. Walker \in Threads
  BY WalkerAssumption
<1>2. UNCHANGED <<at, iterator, search>>
  BY DEF Others, walk
<1>3. pc'[Walker] = pc[Walker] /\ cur'[Walker] = cur[Walker]
  BY <1>1, OthersKeep DEF Others
<1>4. SearchInv' /\ SingleTouch'
  BY <1>2, <1>3, SearchStable DEF WalkInv, SearchInv
<1>5. CASE (Request(t) \/ Advance(t) \/ Finish(t)) /\ UNCHANGED walk
  <2>1. /\ cstart.data # NotComputed => cstart'.data # NotComputed
        /\ DOMAIN ctrs.data \subseteq DOMAIN ctrs'.data
    BY <1>5, CacheGrows
  <2>2. cleared' = cleared
    BY <1>5 DEF walk
  <2>3. IterInv
    BY DEF WalkInv
  <2>4. ~ cleared' /\ at \in {"iter_start", "iter_next", "iter_known", "iter_trs"} =>
          /\ at = "iter_start" /\ pc'[Walker] = "got_start" => cstart'.data # NotComputed
          /\ at = "iter_trs" /\ pc'[Walker] = "got_trs" => pos \in DOMAIN ctrs'.data
    BY <1>3, <2>1, <2>2, <2>3 DEF IterInv
  <2>5. at = "iter_trs" => pc'[Walker] \in TrsPcs /\ cur'[Walker] = pos
    BY <1>3, <2>3 DEF IterInv
  <2> QED  BY <1>2, <1>4, <2>1, <2>2, <2>3, <2>4, <2>5, IterStable DEF WalkInv
<1>6. CASE Clear(t) /\ cleared' = (cleared \/ at \notin {"new"} \cup Ended)
  <2>1. /\ ~ cleared' => ~ cleared
        /\ ~ cleared' => at \notin {"iter_start", "iter_next", "iter_known", "iter_trs"}
    BY <1>6 DEF Ended
  <2>2. at = "iter_trs" => pc'[Walker] \in TrsPcs /\ cur'[Walker] = pos
    BY <1>3 DEF WalkInv, IterInv
  <2> QED  BY <1>2, <1>4, <2>1, <2>2, IterStable DEF WalkInv
<1> QED  BY <1>5, <1>6 DEF Others

-----------------------------------------------------------------------------
(* What the iterator's reads of the known states tell it.                  *)

LEMMA BelowMonotonic ==
    ASSUME NEW m \in Nat, NEW n \in Nat, m <= n
    PROVE  /\ StartBelow(m) => StartBelow(n)
           /\ SuccBelow(m) => SuccBelow(n)
<1>1. TuplesOf(0 .. m - 1) \subseteq TuplesOf(0 .. n - 1)
  BY DEF TuplesOf
<1> QED  BY <1>1 DEF StartBelow, SuccBelow

\* The states known from the start entry have the start among them.
LEMMA StartCounted ==
    ASSUME Inv, cstart.data # NotComputed, NEW n \in Nat, cstart.known <= n
    PROVE  StartBelow(n)
<1> SUFFICES ASSUME origin # NoTuple PROVE origin \in TuplesOf(0 .. n - 1)
  BY DEF StartBelow
<1> DEFINE s == cstart.data
<1>1. /\ s \in Allocated(table) /\ FindTuple(table, s) = origin
      /\ cstart.known \in Nat /\ Len(table.id_to_tuple) \in Nat
  BY DEF Inv, TypeOK, TableType, CacheSound, Sound, TheCache, IsStart
<1>2. s \in Nat /\ s < cstart.known
  BY <1>1 DEF Inv, KnownCovers, Covers, TheCache, Allocated
<1>3. s \in 0 .. n - 1
  BY <1>1, <1>2
<1> QED  BY <1>1, <1>3 DEF TuplesOf

\* The states known from the transitions have the destinations of all the
\* states whose transitions are cached.
LEMMA SuccCounted ==
    ASSUME Inv, NEW n \in Nat, ctrs.known <= n,
           pos \in Nat, 0 .. pos - 1 \subseteq DOMAIN ctrs.data
    PROVE  SuccBelow(n)
<1> SUFFICES ASSUME NEW i \in 0 .. pos - 1, NEW u \in Range(Succ[FindTuple(table, i)])
             PROVE  u \in TuplesOf(0 .. n - 1)
  BY DEF SuccBelow
<1> DEFINE tuple == FindTuple(table, i)
           trs == ctrs.data[i]
<1>1. i \in DOMAIN ctrs.data /\ i \in Allocated(table)
  BY DEF Inv, TypeOK
<1>2. tuple \in Tuples
  BY <1>1, NamedTuple DEF Inv, TypeOK
<1>3. Succ[tuple] \in Seq(Tuples) /\ trs \in Seq(Nat) /\ ctrs.known \in Nat
  BY <1>1, <1>2, MachineAssumption DEF Inv, TypeOK
<1>4. Decodes(table, tuple, trs)
  BY <1>1 DEF Inv, CacheSound, Sound, TheCache
<1> HIDE DEF tuple
<1>5. PICK k \in DOMAIN Succ[tuple] : u = Succ[tuple][k]
  BY DEF Range, tuple
<1>6. k \in DOMAIN trs
  BY <1>3, <1>4 DEF Decodes
<1>7. trs[k] \in Nat /\ trs[k] < ctrs.known /\ FindTuple(table, trs[k]) = u
  BY <1>1, <1>3, <1>4, <1>5, <1>6 DEF Decodes, Inv, KnownCovers, Covers, TheCache
<1>8. trs[k] \in 0 .. n - 1
  BY <1>3, <1>7
<1> QED  BY <1>7, <1>8 DEF TuplesOf

-----------------------------------------------------------------------------
(* The steps of the iterator.                                              *)

LEMMA StatesIterInv ==
    ASSUME Inv, Inv', WalkInv, Grows, StatesIter PROVE WalkInv'
<1>1. /\ at = "new" /\ at' = "iter_start" /\ pc'[Walker] = "get_start"
      /\ UNCHANGED <<pos, known, bounds, state, found, seen, queue, visited, num_trs, out,
                     cleared>>
  BY WalkerAssumption
     DEF StatesIter, At, CallStart, Call, Goto, iterator, search, Inv, TypeOK
<1>2. /\ Len(table.id_to_tuple) \in Nat /\ Len(table'.id_to_tuple) \in Nat
      /\ Len(table.id_to_tuple) <= Len(table'.id_to_tuple)
  BY DEF Grows, Extends, Inv, TypeOK, TableType
<1>3. IterInv'
  BY <1>1, <1>2 DEF WalkInv, IterInv
<1>4. SearchInv' /\ SingleTouch'
  BY <1>1, SearchIdle DEF Searching
<1> QED  BY <1>3, <1>4 DEF WalkInv

LEMMA IterReadyInv ==
    ASSUME Inv, Inv', WalkInv, IterReady PROVE WalkInv'
<1>1. /\ at = "iter_start" /\ at' = "iter_next" /\ pc[Walker] = "got_start"
      /\ UNCHANGED <<pos, known, table, cstart, ctrs, cleared>>
  BY DEF IterReady, At, Taken, Finish, iterator, search, cache
<1>2. /\ SearchInv' /\ SingleTouch'
  BY <1>1, SearchIdle DEF Searching
<1>3. IterInv'
  BY <1>1 DEF WalkInv, IterInv
<1> QED  BY <1>2, <1>3 DEF WalkInv

LEMMA IterNextInv ==
    ASSUME Inv, Inv', WalkInv, IterNext PROVE WalkInv'
<1>1. /\ at = "iter_next" /\ at' = "iter_known"
      /\ known' = [max |-> 0, locks |-> KnownStates]
      /\ UNCHANGED <<pos, table, cstart, ctrs, cleared>>
  BY DEF IterNext, At, vars, cache
<1>2. Len(table.id_to_tuple) \in Nat
  BY DEF Inv, TypeOK, TableType
<1>3. IterInv'
  BY <1>1, <1>2 DEF WalkInv, IterInv, KnownStates
<1>4. SearchInv' /\ SingleTouch'
  BY <1>1, SearchIdle DEF Searching
<1> QED  BY <1>3, <1>4 DEF WalkInv

\* A lock of num_known_states: what has been read so far is not lost, and what
\* this lock protects is added to it.
LEMMA IterReadKnownInv ==
    ASSUME Inv, Inv', WalkInv, IterReadKnown PROVE WalkInv'
<1> DEFINE lock == Head(known.locks)
           read == KnownUnder(lock)
           m == Max({known.max, read})
           n == Len(table.id_to_tuple)
<1>1. /\ at = "iter_known" /\ at' = at /\ known.locks # <<>>
      /\ known'.max = m /\ known'.locks = Tail(known.locks)
      /\ DOMAIN known' = {"max", "locks"}
      /\ UNCHANGED <<pos, origin, table, cstart, ctrs, cfinal, cleared>>
  BY DEF IterReadKnown, vars, cache
<1>2. n \in Nat /\ known.max \in 0 .. n /\ pos \in 0 .. n
  BY DEF Inv, TypeOK, TableType, WalkInv, IterInv
<1>3. \/ known.locks = KnownStates /\ lock = "start" /\ known'.locks = <<"trs", "final">>
      \/ known.locks = <<"trs", "final">> /\ lock = "trs" /\ known'.locks = <<"final">>
      \/ known.locks = <<"final">> /\ lock = "final" /\ known'.locks = <<>>
  <2>1. known.locks \in {<<"start", "trs", "final">>, <<"trs", "final">>, <<"final">>}
    BY <1>1 DEF WalkInv, IterInv, KnownStates
  <2>2. /\ Head(<<"start", "trs", "final">>) = "start"
        /\ Tail(<<"start", "trs", "final">>) = <<"trs", "final">>
        /\ Head(<<"trs", "final">>) = "trs" /\ Tail(<<"trs", "final">>) = <<"final">>
        /\ Head(<<"final">>) = "final" /\ Tail(<<"final">>) = <<>>
    OBVIOUS
  <2> QED  BY <1>1, <2>1, <2>2, Zenon DEF KnownStates
<1>4. read \in 0 .. n
  BY <1>3 DEF KnownUnder, Inv, KnownCovers, Covers, TheCache
<1>5. m \in 0 .. n /\ known.max <= m /\ read <= m
  <2> DEFINE S == {known.max, read}
  <2>1. S \in SUBSET Nat /\ S # {} /\ n \in Nat /\ \A x \in S : x <= n
    BY <1>2, <1>4
  <2> HIDE DEF S, read
  <2>2. Max(S) \in S /\ \A x \in S : x <= Max(S)
    BY <2>1, MaxOfBounded
  <2> QED  BY <1>2, <1>4, <2>2 DEF S
<1>6. known.max \in Nat /\ m \in Nat
  BY <1>2, <1>5
<1>7. ~ cleared => StartBelow(m)
  <2>1. CASE lock = "start" /\ ~ cleared
    <3>1. cstart.data # NotComputed
      BY <1>1, <2>1 DEF WalkInv, IterInv
    <3>2. read = cstart.known
      BY <2>1 DEF KnownUnder
    <3> HIDE DEF m, read
    <3> QED  BY <1>5, <1>6, <3>1, <3>2, StartCounted
  <2>2. CASE lock # "start" /\ ~ cleared
    <3>1. StartBelow(known.max)
      BY <1>1, <1>3, <2>2 DEF WalkInv, IterInv, KnownStates
    <3> HIDE DEF m, read
    <3> QED  BY <1>5, <1>6, <3>1, BelowMonotonic
  <2> QED  BY <2>1, <2>2
<1>8. ~ cleared /\ known'.locks \in {<<"final">>, <<>>} => SuccBelow(m)
  <2>1. CASE lock = "trs" /\ ~ cleared
    <3>1. pos \in Nat /\ 0 .. pos - 1 \subseteq DOMAIN ctrs.data
      BY <1>1, <1>2, <2>1 DEF WalkInv, IterInv
    <3>2. read = ctrs.known
      BY <2>1 DEF KnownUnder
    <3> HIDE DEF m, read
    <3> QED  BY <1>5, <1>6, <3>1, <3>2, SuccCounted
  <2>2. CASE lock = "final" /\ ~ cleared
    <3>1. SuccBelow(known.max)
      BY <1>1, <1>3, <2>2 DEF WalkInv, IterInv, KnownStates
    <3> HIDE DEF m, read
    <3> QED  BY <1>5, <1>6, <3>1, BelowMonotonic
  <2> QED  BY <1>3, <2>1, <2>2 DEF KnownStates
<1> HIDE DEF m, read, lock
<1>9. /\ StartBelow(m) => StartBelow(known.max)'
      /\ SuccBelow(m) => SuccBelow(known.max)'
  BY <1>1 DEF StartBelow, SuccBelow, TuplesOf
<1>10. IterInv'
  BY <1>1, <1>2, <1>3, <1>5, <1>7, <1>8, <1>9 DEF WalkInv, IterInv, KnownStates
<1>11. SearchInv' /\ SingleTouch'
  BY <1>1, SearchIdle DEF Searching
<1> QED  BY <1>10, <1>11 DEF WalkInv

LEMMA IterExpandInv ==
    ASSUME Inv, Inv', WalkInv, IterExpand PROVE WalkInv'
<1>1. /\ at = "iter_known" /\ at' = "iter_trs"
      /\ pc'[Walker] = "get_trs" /\ cur'[Walker] = pos
      /\ known' = NotReading
      /\ UNCHANGED <<pos, table, cstart, ctrs, cleared>>
  BY WalkerAssumption
     DEF IterExpand, At, CallTrs, Call, Goto, cache, Inv, TypeOK
<1>2. Len(table.id_to_tuple) \in Nat
  BY DEF Inv, TypeOK, TableType
<1>3. IterInv'
  BY <1>1, <1>2 DEF WalkInv, IterInv, NotReading, TrsPcs
<1>4. SearchInv' /\ SingleTouch'
  BY <1>1, SearchIdle DEF Searching
<1> QED  BY <1>3, <1>4 DEF WalkInv

\* The iteration ends at a state that is not known: the states below it have
\* the start and all their destinations among them.
LEMMA IterEndInv ==
    ASSUME Inv, Inv', WalkInv, IterEnd PROVE WalkInv'
<1>1. /\ at = "iter_known" /\ at' = "iter_end"
      /\ known.locks = <<>> /\ pos >= known.max /\ known' = NotReading
      /\ UNCHANGED <<pos, origin, table, cstart, ctrs, cleared>>
  BY DEF IterEnd, At, vars, cache
<1>2. /\ Len(table.id_to_tuple) \in Nat
      /\ known.max \in Nat /\ pos \in Nat /\ known.max <= pos
      /\ pos \in 0 .. Len(table.id_to_tuple)
  BY <1>1 DEF Inv, TypeOK, TableType, WalkInv, IterInv
<1>3. ~ cleared => StartBelow(pos) /\ SuccBelow(pos)
  BY <1>1, <1>2, BelowMonotonic DEF WalkInv, IterInv, KnownStates
<1>4. /\ StartBelow(pos) => StartBelow(pos)'
      /\ SuccBelow(pos) => SuccBelow(pos)'
  BY <1>1 DEF StartBelow, SuccBelow, TuplesOf
<1>5. IterInv'
  BY <1>1, <1>2, <1>3, <1>4 DEF WalkInv, IterInv, NotReading
<1>6. SearchInv' /\ SingleTouch'
  BY <1>1, SearchIdle DEF Searching
<1> QED  BY <1>5, <1>6 DEF WalkInv

LEMMA IterYieldInv ==
    ASSUME Inv, Inv', WalkInv, IterYield PROVE WalkInv'
<1>1. /\ at = "iter_trs" /\ at' = "iter_next"
      /\ pc[Walker] = "got_trs" /\ cur[Walker] = pos /\ pos' = pos + 1
      /\ UNCHANGED <<known, table, cstart, ctrs, cleared>>
  BY DEF IterYield, At, Taken, Finish, cache, WalkInv, IterInv
<1>2. pos \in Allocated(table)
  BY <1>1, WalkerAssumption DEF Inv, CallInv, AboutAState
<1>3. /\ Len(table.id_to_tuple) \in Nat /\ pos \in Nat
      /\ pos' \in 0 .. Len(table.id_to_tuple)
      /\ 0 .. pos' - 1 = (0 .. pos - 1) \cup {pos}
  BY <1>1, <1>2 DEF Inv, TypeOK, TableType, Allocated
<1>4. ~ cleared => 0 .. pos' - 1 \subseteq DOMAIN ctrs.data
  BY <1>1, <1>3 DEF WalkInv, IterInv
<1>5. IterInv'
  BY <1>1, <1>3, <1>4 DEF WalkInv, IterInv
<1>6. SearchInv' /\ SingleTouch'
  BY <1>1, SearchIdle DEF Searching
<1> QED  BY <1>5, <1>6 DEF WalkInv

LEMMA WalkFailsInv ==
    ASSUME Inv, Inv', WalkInv, Grows, WalkFails PROVE WalkInv'
<1>1. at' \in {"iter_panic", "bfs_err"} /\ UNCHANGED iterator
  BY DEF WalkFails
<1>2. IterInv'
  BY <1>1, IterIdle DEF WalkInv
<1>3. SearchInv' /\ SingleTouch'
  BY <1>1, SearchIdle DEF Searching
<1> QED  BY <1>2, <1>3 DEF WalkInv

-----------------------------------------------------------------------------
(* The steps of the search.                                                *)

LEMMA ComputeInv ==
    ASSUME Inv, Inv', WalkInv, Grows, Compute PROVE WalkInv'
<1>1. /\ at = "new" /\ at' = "bfs_start"
      /\ UNCHANGED <<iterator, bounds, state, found, seen, queue, visited, num_trs, out>>
  BY DEF Compute, At, search
<1>2. IterInv'
  BY <1>1, IterIdle DEF WalkInv
<1>3. SearchInv' /\ SingleTouch'
  BY <1>1 DEF WalkInv, SearchInv, SingleTouch, Searching
<1> QED  BY <1>2, <1>3 DEF WalkInv

LEMMA ComputeNoStartInv ==
    ASSUME Inv, Inv', WalkInv, Grows, ComputeNoStart PROVE WalkInv'
<1>1. /\ at = "bfs_start" /\ at' = "bfs_ok"
      /\ cur[Walker] = NoState /\ pc[Walker] = "got_start"
      /\ UNCHANGED <<iterator, bounds, state, found, seen, queue, visited, num_trs, out>>
  BY DEF ComputeNoStart, At, Taken, search
<1>2. origin = NoTuple /\ origin' = NoTuple
  <2>1. IsStart(table, origin, NoState)
    BY <1>1, WalkerAssumption DEF Inv, CallInv
  <2>2. NoState \notin Allocated(table)
    BY DEF Inv, TypeOK, TableType, Allocated, NoState
  <2> QED  BY <2>1, <2>2 DEF IsStart, Grows
<1>3. IterInv'
  BY <1>1, IterIdle DEF WalkInv
<1>4. SearchInv'
  BY <1>1, <1>2 DEF WalkInv, SearchInv, Searching
<1>5. SingleTouch'
  <2>1. queue' = <<>> /\ visited' = {} /\ DOMAIN out'.trs = {}
    BY <1>1 DEF WalkInv, SearchInv, EmptyFst, Nothing
  <2>2. Range(queue') = {} /\ IsInjective(queue') /\ Expanding' = {}
    BY <1>1, <2>1 DEF Range, IsInjective, Expanding
  <2> QED  BY <2>1, <2>2 DEF SingleTouch
<1> QED  BY <1>3, <1>4, <1>5 DEF WalkInv

LEMMA ComputeStartedInv ==
    ASSUME Inv, Inv', WalkInv, Grows, ComputeStarted PROVE WalkInv'
<1> DEFINE s == cur[Walker]
<1>1. /\ at = "bfs_start" /\ at' = "bfs_pop"
      /\ s # NoState /\ pc[Walker] = "got_start"
      /\ out' = [out EXCEPT !.states = s + 1, !.start = s]
      /\ queue' = <<s>> /\ visited' = {s}
      /\ UNCHANGED <<iterator, origin, table, found, seen>>
  BY DEF ComputeStarted, At, Taken, Finish
<1>2. out = EmptyFst /\ found = <<>> /\ seen = 0
  BY <1>1 DEF WalkInv, SearchInv
<1>3. IsStart(table, origin, s) /\ s \in Nat /\ origin \in Tuples \cup {NoTuple}
  BY <1>1, WalkerAssumption DEF Inv, CallInv, TypeOK
<1>4. /\ origin # NoTuple /\ origin \in Tuples
      /\ s \in Allocated(table) /\ FindTuple(table, s) = origin
  BY <1>1, <1>3 DEF IsStart
<1>5. FindTuple(table, s) \in Reachable
  BY <1>4, ReachableStart
<1>6. /\ DOMAIN out' = DOMAIN EmptyFst
      /\ out'.states = s + 1 /\ out'.start = s
      /\ DOMAIN out'.trs = {} /\ DOMAIN out'.finals = {}
  BY <1>1, <1>2 DEF EmptyFst, Nothing
<1>7. Reachable' = Reachable
  BY <1>1 DEF Reachable
<1>8. CopyInv'
  BY <1>1, <1>3, <1>4, <1>5, <1>6, <1>7 DEF CopyInv
<1>9. SingleTouch'
  <2>1. Range(queue') = {s} /\ IsInjective(queue') /\ Expanding' = {}
    BY <1>1 DEF Range, IsInjective, Expanding
  <2> QED  BY <1>1, <1>6, <2>1 DEF SingleTouch
<1>10. SearchInv'
  BY <1>1, <1>2, <1>4, <1>8 DEF SearchInv
<1>11. IterInv'
  BY <1>1, IterIdle DEF WalkInv
<1> QED  BY <1>9, <1>10, <1>11 DEF WalkInv

\* The head of a queue without repetitions is not met again.
LEMMA TailDistinct ==
    ASSUME NEW q \in Seq(Nat), q # <<>>, IsInjective(q)
    PROVE  /\ Tail(q) \in Seq(Nat) /\ IsInjective(Tail(q))
           /\ Head(q) \notin Range(Tail(q))
           /\ Range(q) = {Head(q)} \cup Range(Tail(q))
<1>1. /\ Len(q) \in Nat \ {0} /\ Len(Tail(q)) = Len(q) - 1
      /\ Tail(q) \in Seq(Nat)
      /\ \A k \in 1 .. Len(q) - 1 : Tail(q)[k] = q[k + 1]
      /\ Head(q) = q[1]
  OBVIOUS
<1>2. IsInjective(Tail(q))
  <2> DEFINE r == Tail(q)
  <2>0. DOMAIN r = 1 .. Len(q) - 1
    BY <1>1
  <2> HIDE DEF r
  <2> SUFFICES ASSUME NEW i \in 1 .. Len(q) - 1, NEW j \in 1 .. Len(q) - 1, r[i] = r[j]
               PROVE  i = j
    BY <2>0 DEF IsInjective, r
  <2> USE DEF r
  <2>1. q[i + 1] = q[j + 1] /\ i + 1 \in DOMAIN q /\ j + 1 \in DOMAIN q
    BY <1>1
  <2>2. i + 1 = j + 1
    BY <2>1, Zenon DEF IsInjective
  <2> QED  BY <2>2
<1>3. Head(q) \notin Range(Tail(q))
  BY <1>1 DEF IsInjective, Range
<1>4. Range(q) \subseteq {Head(q)} \cup Range(Tail(q))
  <2> SUFFICES ASSUME NEW k \in 1 .. Len(q), k # 1 PROVE q[k] \in Range(Tail(q))
    BY <1>1 DEF Range
  <2>1. k - 1 \in 1 .. Len(q) - 1 /\ Tail(q)[k - 1] = q[k]
    BY <1>1
  <2>2. DOMAIN Tail(q) = 1 .. Len(q) - 1
    BY <1>1
  <2> QED  BY <2>1, <2>2, Zenon DEF Range
<1>5. {Head(q)} \cup Range(Tail(q)) \subseteq Range(q)
  BY <1>1 DEF Range
<1> QED  BY <1>1, <1>2, <1>3, <1>4, <1>5

LEMMA AppendDistinct ==
    ASSUME NEW q \in Seq(Nat), NEW x \in Nat, x \notin Range(q), IsInjective(q)
    PROVE  /\ Append(q, x) \in Seq(Nat) /\ IsInjective(Append(q, x))
           /\ Range(Append(q, x)) = Range(q) \cup {x}
<1> DEFINE r == Append(q, x)
<1>1. /\ Len(q) \in Nat /\ Len(r) = Len(q) + 1
      /\ r \in Seq(Nat)
      /\ \A k \in 1 .. Len(q) : r[k] = q[k]
      /\ r[Len(q) + 1] = x
  OBVIOUS
<1>2. \A k \in 1 .. Len(q) : q[k] # x
  BY DEF Range
<1> HIDE DEF r
<1>3. IsInjective(r)
  <2>0. DOMAIN r = 1 .. Len(q) + 1
    BY <1>1
  <2> SUFFICES ASSUME NEW i \in DOMAIN r, NEW j \in DOMAIN r, r[i] = r[j]
               PROVE  i = j
    BY DEF IsInjective
  <2>1. i = Len(q) + 1 <=> r[i] = x
    BY <1>1, <1>2, <2>0
  <2>2. j = Len(q) + 1 <=> r[j] = x
    BY <1>1, <1>2, <2>0
  <2>3. i \in 1 .. Len(q) /\ j \in 1 .. Len(q) => q[i] = q[j]
    BY <1>1
  <2>4. i \in 1 .. Len(q) /\ j \in 1 .. Len(q) => i = j
    BY <2>3 DEF IsInjective
  <2> QED  BY <1>1, <2>0, <2>1, <2>2, <2>4
<1>4. Range(r) = Range(q) \cup {x}
  <2>1. DOMAIN r = 1 .. Len(q) + 1 /\ DOMAIN q = 1 .. Len(q)
    BY <1>1
  <2> QED  BY <1>1, <2>1 DEF Range
<1> QED  BY <1>1, <1>3, <1>4 DEF r

\* A state is popped: it has not been expanded, and is not queued any more.
LEMMA ComputePopInv ==
    ASSUME Inv, Inv', WalkInv, Grows, ComputePop PROVE WalkInv'
<1>1. /\ at = "bfs_pop" /\ at' = "bfs_trs" /\ queue # <<>>
      /\ state' = Head(queue) /\ queue' = Tail(queue)
      /\ pc'[Walker] = "get_trs" /\ cur'[Walker] = Head(queue)
      /\ UNCHANGED <<iterator, origin, table, found, seen, visited, out>>
  BY WalkerAssumption DEF ComputePop, At, CallTrs, Call, Goto, Inv, TypeOK
<1>2. /\ CopyInv /\ origin # NoTuple /\ found = <<>> /\ seen = 0
      /\ DOMAIN out.trs \subseteq visited /\ queue \in Seq(Nat)
  BY <1>1, QueuedVisited DEF WalkInv, SearchInv, Searching
<1>3. /\ IsInjective(queue) /\ Range(queue) \cap DOMAIN out.trs = {}
      /\ visited = Range(queue) \cup DOMAIN out.trs
  BY <1>1 DEF WalkInv, SingleTouch, Expanding
<1>4. /\ queue' \in Seq(Nat) /\ IsInjective(queue')
      /\ state' \notin Range(queue')
      /\ Range(queue) = {state'} \cup Range(queue')
  BY <1>1, <1>2, <1>3, TailDistinct
<1>5. CopyInv'
  <2>1. Weighing' = Weighing
    BY <1>1 DEF Weighing
  <2> QED  BY <1>1, <1>2, <1>4, <2>1, CopyStable
<1>6. SingleTouch'
  <2>1. Expanding' = {state'}
    BY <1>1 DEF Expanding
  <2> QED  BY <1>1, <1>3, <1>4, <2>1 DEF SingleTouch
<1>7. SearchInv'
  BY <1>1, <1>2, <1>5 DEF SearchInv, TrsPcs
<1>8. IterInv'
  BY <1>1, IterIdle DEF WalkInv
<1> QED  BY <1>6, <1>7, <1>8 DEF WalkInv

LEMMA ComputeDoneInv ==
    ASSUME Inv, Inv', WalkInv, Grows, ComputeDone PROVE WalkInv'
<1>1. /\ at = "bfs_pop" /\ at' = "bfs_ok" /\ queue = <<>>
      /\ UNCHANGED <<iterator, origin, table, bounds, state, found, seen, queue, visited,
                     num_trs, out>>
  BY DEF ComputeDone, At, vars, search
<1>2. /\ CopyInv /\ origin # NoTuple
      /\ DOMAIN out.trs \subseteq visited /\ queue \in Seq(Nat)
  BY <1>1, QueuedVisited DEF WalkInv, SearchInv, Searching
<1>3. CopyInv'
  <2>1. Weighing' = Weighing
    BY <1>1 DEF Weighing
  <2> QED  BY <1>1, <1>2, <2>1, CopyStable
<1>4. SingleTouch'
  BY <1>1 DEF WalkInv, SingleTouch, Expanding
<1>5. SearchInv'
  BY <1>1, <1>2, <1>3 DEF SearchInv, Searching
<1>6. IterInv'
  BY <1>1, IterIdle DEF WalkInv
<1> QED  BY <1>4, <1>5, <1>6 DEF WalkInv

LEMMA GivesUpInv ==
    ASSUME Inv, Inv', WalkInv, Grows, ComputeTrLimit \/ ComputeStateLimit PROVE WalkInv'
<1>1. at' = "bfs_over" /\ UNCHANGED iterator
  BY DEF ComputeTrLimit, ComputeStateLimit, At
<1>2. IterInv'
  BY <1>1, IterIdle DEF WalkInv
<1>3. SearchInv' /\ SingleTouch'
  BY <1>1, SearchIdle DEF Searching
<1> QED  BY <1>2, <1>3 DEF WalkInv

LEMMA ComputeTrsInv ==
    ASSUME Inv, Inv', WalkInv, Grows, ComputeTrs PROVE WalkInv'
<1>1. /\ at = "bfs_trs" /\ at' = "bfs_scan" /\ pc[Walker] = "got_trs"
      /\ found' = arcs[Walker]
      /\ UNCHANGED <<iterator, origin, table, state, seen, queue, visited, out>>
  BY DEF ComputeTrs, At, Taken, Finish
<1>2. /\ CopyInv /\ origin # NoTuple /\ seen = 0 /\ cur[Walker] = state
      /\ DOMAIN out.trs \subseteq visited /\ queue \in Seq(Nat)
  BY <1>1, QueuedVisited DEF WalkInv, SearchInv, Searching
<1>3. found' \in Seq(Nat) /\ Decodes(table, FindTuple(table, state), found')
  BY <1>1, <1>2, WalkerAssumption DEF Inv, TypeOK, CallInv
<1>4. CopyInv'
  <2>1. Weighing' = Weighing
    BY <1>1 DEF Weighing
  <2> QED  BY <1>1, <1>2, <2>1, CopyStable
<1>5. SingleTouch'
  BY <1>1 DEF WalkInv, SingleTouch, Expanding
<1>6. SearchInv'
  BY <1>1, <1>2, <1>3, <1>4 DEF SearchInv, Searching
<1>7. IterInv'
  BY <1>1, IterIdle DEF WalkInv
<1> QED  BY <1>5, <1>6, <1>7 DEF WalkInv

\* A transition leads to a state of the machine; it is queued when it is met
\* for the first time.
LEMMA ComputeDiscoverInv ==
    ASSUME Inv, Inv', WalkInv, Grows, ComputeDiscover PROVE WalkInv'
<1> DEFINE d == found[seen + 1]
           tuple == FindTuple(table, state)
<1>1. /\ at = "bfs_scan" /\ at' = at /\ seen < Len(found)
      /\ queue' = Queued(d) /\ visited' = visited \cup {d} /\ seen' = seen + 1
      /\ out' = [out EXCEPT !.states = Raised(@, {d})]
      /\ UNCHANGED <<iterator, origin, table, state, found>>
  BY DEF ComputeDiscover, Met, vars
<1>2. /\ CopyInv /\ origin # NoTuple
      /\ DOMAIN out.trs \subseteq visited /\ queue \in Seq(Nat)
      /\ visited \subseteq Allocated(table)
  BY <1>1, QueuedVisited DEF WalkInv, SearchInv, Searching
<1>3. /\ found \in Seq(Nat) /\ Decodes(table, tuple, found)
      /\ seen \in 0 .. Len(found) /\ \A k \in 1 .. seen : found[k] \in visited
  BY <1>1 DEF WalkInv, SearchInv
<1>4. /\ IsInjective(queue) /\ Range(queue) \cap (DOMAIN out.trs \cup {state}) = {}
      /\ state \notin DOMAIN out.trs
      /\ visited = Range(queue) \cup DOMAIN out.trs \cup {state}
  BY <1>1 DEF WalkInv, SingleTouch, Expanding
<1>5. tuple \in Reachable /\ tuple \in Tuples
  BY <1>2, <1>4 DEF CopyInv, Reachable
<1>6. /\ seen + 1 \in 1 .. Len(found) /\ d \in Nat
      /\ d \in Allocated(table) /\ FindTuple(table, d) = Succ[tuple][seen + 1]
      /\ seen + 1 \in DOMAIN Succ[tuple]
  <2>1. seen + 1 \in 1 .. Len(found)
    BY <1>1, <1>3
  <2>2. Succ[tuple] \in Seq(Tuples)
    BY <1>5, MachineAssumption
  <2> HIDE DEF tuple
  <2> QED  BY <1>3, <2>1, <2>2 DEF Decodes
<1>7. FindTuple(table, d) \in Reachable
  <2>1. FindTuple(table, d) \in Range(Succ[tuple])
    BY <1>6 DEF Range
  <2> HIDE DEF d, tuple
  <2> QED  BY <1>5, <2>1, ReachableSucc
<1> HIDE DEF d
<1>8. /\ DOMAIN out' = DOMAIN EmptyFst
      /\ out'.states = Raised(out.states, {d})
      /\ out'.start = out.start /\ out'.trs = out.trs /\ out'.finals = out.finals
  BY <1>1, <1>2 DEF CopyInv, EmptyFst
<1>9. out'.states \in Nat /\ out.states <= out'.states /\ d < out'.states
  <2>1. PICK n \in Nat : out.states <= n /\ d < n
    <3>1. out.states + d + 1 \in Nat
      BY <1>2, <1>6 DEF CopyInv
    <3> QED  BY <3>1, <1>2, <1>6 DEF CopyInv
  <2>2. Raised(out.states, {d}) \in out.states .. n /\ d < Raised(out.states, {d})
    BY <1>2, <1>6, <2>1, RaisedCovers DEF CopyInv
  <2> QED  BY <1>2, <1>8, <2>2 DEF CopyInv
<1>10. queue' \in Seq(Nat) /\ IsInjective(queue') /\ Range(queue') = Range(queue) \cup
         (IF d \in visited THEN {} ELSE {d})
  <2>1. CASE d \in visited
    BY <1>1, <1>2, <1>4, <2>1 DEF Queued
  <2>2. CASE d \notin visited
    BY <1>1, <1>2, <1>4, <1>6, <2>2, AppendDistinct DEF Queued
  <2> QED  BY <2>1, <2>2
<1>11. CopyInv'
  <2>1. Reachable' = Reachable /\ Weighing' = Weighing
    BY <1>1 DEF Reachable, Weighing
  <2>2. \A s \in visited' : s < out'.states /\ FindTuple(table, s) \in Reachable
    BY <1>1, <1>2, <1>6, <1>7, <1>9 DEF CopyInv, Allocated
  <2>3. \A s \in DOMAIN out.trs : FinalCopied(s)' <=> FinalCopied(s)
    BY <1>1, <1>8 DEF FinalCopied
  <2>4. IsStart(table', origin', out'.start) /\ out'.start \in visited'
    BY <1>1, <1>2, <1>8 DEF CopyInv
  <2>5. \A s \in DOMAIN out'.trs : /\ out'.trs[s] \in Seq(Nat)
                                  /\ Decodes(table', FindTuple(table', s), out'.trs[s])
                                  /\ Range(out'.trs[s]) \subseteq visited'
    BY <1>1, <1>2, <1>8 DEF CopyInv
  <2>6. visited' \subseteq Allocated(table')
    BY <1>1, <1>2, <1>6
  <2> QED
    BY <1>1, <1>2, <1>8, <1>9, <1>10, <2>1, <2>2, <2>3, <2>4, <2>5, <2>6 DEF CopyInv
<1>12. SingleTouch'
  <2>1. Expanding' = {state}
    BY <1>1 DEF Expanding
  <2> QED  BY <1>1, <1>4, <1>8, <1>10, <2>1 DEF SingleTouch
<1>13. SearchInv'
  <2>1. seen' \in 0 .. Len(found) /\ \A k \in 1 .. seen' : found[k] \in visited'
    BY <1>1, <1>3, <1>6 DEF d
  <2> QED  BY <1>1, <1>2, <1>3, <1>11, <2>1 DEF SearchInv, Searching
<1>14. IterInv'
  BY <1>1, IterIdle DEF WalkInv
<1> QED  BY <1>12, <1>13, <1>14 DEF WalkInv

\* All the transitions of the state have been met: they are copied at once.
LEMMA ComputeCopyTrsInv ==
    ASSUME Inv, Inv', WalkInv, Grows, ComputeCopyTrs PROVE WalkInv'
<1>1. /\ at = "bfs_scan" /\ at' = "bfs_weight" /\ seen = Len(found)
      /\ found' = <<>> /\ seen' = 0
      /\ out' = [out EXCEPT !.trs = Insert(@, state, found)]
      /\ UNCHANGED <<iterator, origin, table, state, queue, visited>>
  BY DEF ComputeCopyTrs, At, vars
<1>2. /\ CopyInv /\ origin # NoTuple
      /\ DOMAIN out.trs \subseteq visited /\ queue \in Seq(Nat)
      /\ visited \subseteq Allocated(table)
  BY <1>1, QueuedVisited DEF WalkInv, SearchInv, Searching
<1>3. /\ found \in Seq(Nat) /\ Decodes(table, FindTuple(table, state), found)
      /\ \A k \in 1 .. Len(found) : found[k] \in visited
  BY <1>1 DEF WalkInv, SearchInv
<1>4. /\ IsInjective(queue) /\ Range(queue) \cap (DOMAIN out.trs \cup {state}) = {}
      /\ state \notin DOMAIN out.trs
      /\ visited = Range(queue) \cup DOMAIN out.trs \cup {state}
  BY <1>1 DEF WalkInv, SingleTouch, Expanding
<1>5. /\ DOMAIN out' = DOMAIN EmptyFst
      /\ out'.states = out.states /\ out'.start = out.start /\ out'.finals = out.finals
      /\ DOMAIN out'.trs = DOMAIN out.trs \cup {state} /\ out'.trs[state] = found
      /\ \A s \in DOMAIN out.trs : out'.trs[s] = out.trs[s]
  <2>1. out'.trs = Insert(out.trs, state, found)
    BY <1>1, <1>2 DEF CopyInv, EmptyFst
  <2>2. /\ DOMAIN out' = DOMAIN EmptyFst
        /\ out'.states = out.states /\ out'.start = out.start /\ out'.finals = out.finals
    BY <1>1, <1>2 DEF CopyInv, EmptyFst
  <2> QED  BY <1>4, <2>1, <2>2 DEF Insert
<1>6. Range(found) \subseteq visited
  BY <1>3 DEF Range
<1>7. CopyInv'
  <2>1. Reachable' = Reachable /\ Weighing' = {state} /\ Weighing = {}
    BY <1>1 DEF Reachable, Weighing
  <2>2. \A s \in DOMAIN out'.trs : /\ out'.trs[s] \in Seq(Nat)
                                  /\ Decodes(table, FindTuple(table, s), out'.trs[s])
                                  /\ Range(out'.trs[s]) \subseteq visited
    BY <1>2, <1>3, <1>5, <1>6 DEF CopyInv
  <2>3. \A s \in DOMAIN out'.trs \ {state} : FinalCopied(s)'
    <3> SUFFICES ASSUME NEW s \in DOMAIN out.trs PROVE FinalCopied(s)'
      BY <1>5
    <3> QED  BY <1>1, <1>2, <1>5, <2>1 DEF CopyInv, FinalCopied
  <2>4. DOMAIN out'.finals \subseteq DOMAIN out'.trs \ {state}
    BY <1>2, <1>4, <1>5, <2>1 DEF CopyInv
  <2>5. IsStart(table', origin', out'.start) /\ out'.start \in visited'
    BY <1>1, <1>2, <1>5 DEF CopyInv
  <2>6. \A s \in visited' : s < out'.states /\ FindTuple(table', s) \in Reachable'
    BY <1>1, <1>2, <1>5, <2>1 DEF CopyInv
  <2> QED  BY <1>1, <1>2, <1>5, <2>1, <2>2, <2>3, <2>4, <2>5, <2>6 DEF CopyInv
<1>8. SingleTouch'
  <2>1. Expanding' = {}
    BY <1>1 DEF Expanding
  <2> QED  BY <1>1, <1>4, <1>5, <2>1 DEF SingleTouch
<1>9. SearchInv'
  BY <1>1, <1>2, <1>5, <1>7 DEF SearchInv, Searching
<1>10. IterInv'
  BY <1>1, IterIdle DEF WalkInv
<1> QED  BY <1>8, <1>9, <1>10 DEF WalkInv

LEMMA ComputeWeightInv ==
    ASSUME Inv, Inv', WalkInv, Grows, ComputeWeight PROVE WalkInv'
<1>1. /\ at = "bfs_weight" /\ at' = "bfs_final"
      /\ pc'[Walker] = "get_final" /\ cur'[Walker] = state
      /\ UNCHANGED <<iterator, origin, table, bounds, state, found, seen, queue, visited,
                     num_trs, out>>
  BY WalkerAssumption DEF ComputeWeight, At, CallFinal, Call, Goto, search, Inv, TypeOK
<1>2. /\ CopyInv /\ origin # NoTuple /\ found = <<>> /\ seen = 0
      /\ state \in DOMAIN out.trs
      /\ DOMAIN out.trs \subseteq visited /\ queue \in Seq(Nat)
  BY <1>1, QueuedVisited DEF WalkInv, SearchInv, Searching
<1>3. CopyInv'
  <2>1. Weighing' = Weighing
    BY <1>1 DEF Weighing
  <2> QED  BY <1>1, <1>2, <2>1, CopyStable
<1>4. SingleTouch'
  BY <1>1 DEF WalkInv, SingleTouch, Expanding
<1>5. SearchInv'
  BY <1>1, <1>2, <1>3 DEF SearchInv, Searching, FinalPcs
<1>6. IterInv'
  BY <1>1, IterIdle DEF WalkInv
<1> QED  BY <1>4, <1>5, <1>6 DEF WalkInv

LEMMA ComputeCopyFinalInv ==
    ASSUME Inv, Inv', WalkInv, Grows, ComputeCopyFinal PROVE WalkInv'
<1> DEFINE f == weight[Walker]
           finals == IF f = NoFinal THEN out.finals ELSE Insert(out.finals, state, f)
<1>1. /\ at = "bfs_final" /\ at' = "bfs_pop" /\ pc[Walker] = "got_final"
      /\ out' = [out EXCEPT !.finals = finals]
      /\ UNCHANGED <<iterator, origin, table, state, found, seen, queue, visited>>
  BY DEF ComputeCopyFinal, At, Taken, Finish
<1>2. /\ CopyInv /\ origin # NoTuple /\ found = <<>> /\ seen = 0
      /\ state \in DOMAIN out.trs /\ cur[Walker] = state
      /\ DOMAIN out.trs \subseteq visited /\ queue \in Seq(Nat)
  BY <1>1, QueuedVisited DEF WalkInv, SearchInv, Searching
<1>3. f = Final[FindTuple(table, state)]
  BY <1>1, <1>2, WalkerAssumption DEF Inv, CallInv
<1>4. /\ DOMAIN out' = DOMAIN EmptyFst /\ out'.finals = finals
      /\ out'.states = out.states /\ out'.start = out.start /\ out'.trs = out.trs
  BY <1>1, <1>2 DEF CopyInv, EmptyFst
<1>5. Weighing = {state} /\ Weighing' = {} /\ Reachable' = Reachable
  BY <1>1 DEF Weighing, Reachable
<1>6. state \notin DOMAIN out.finals
  BY <1>2, <1>5 DEF CopyInv
<1>7. /\ DOMAIN finals \subseteq DOMAIN out.trs
      /\ state \in DOMAIN finals <=> f # NoFinal
      /\ state \in DOMAIN finals => finals[state] = f
      /\ \A s \in DOMAIN out.trs \ {state} :
           /\ s \in DOMAIN finals <=> s \in DOMAIN out.finals
           /\ s \in DOMAIN finals => finals[s] = out.finals[s]
  BY <1>2, <1>6 DEF CopyInv, Insert
<1> HIDE DEF f, finals
<1>8. \A s \in DOMAIN out.trs : FinalCopied(s)'
  <2> SUFFICES ASSUME NEW s \in DOMAIN out.trs PROVE FinalCopied(s)'
    OBVIOUS
  <2>1. CASE s = state
    BY <1>1, <1>3, <1>4, <1>7, <2>1 DEF FinalCopied
  <2>2. CASE s # state
    <3>1. FinalCopied(s)
      BY <1>2, <1>5, <2>2 DEF CopyInv
    <3> QED  BY <1>1, <1>4, <1>7, <2>2, <3>1 DEF FinalCopied
  <2> QED  BY <2>1, <2>2
<1>9. CopyInv'
  BY <1>1, <1>2, <1>4, <1>5, <1>7, <1>8 DEF CopyInv
<1>10. SingleTouch'
  BY <1>1, <1>4 DEF WalkInv, SingleTouch, Expanding
<1>11. SearchInv'
  BY <1>1, <1>2, <1>9 DEF SearchInv, Searching
<1>12. IterInv'
  BY <1>1, IterIdle DEF WalkInv
<1> QED  BY <1>10, <1>11, <1>12 DEF WalkInv

-----------------------------------------------------------------------------
(* The traversals.                                                         *)

LEMMA WalkInitInv == WalkInit => WalkInv
<1> SUFFICES ASSUME WalkInit PROVE WalkInv
  OBVIOUS
<1>1. Inv
  BY InitInv DEF WalkInit
<1>2. /\ at = "new" /\ pos = 0 /\ known = NotReading
      /\ found = <<>> /\ seen = 0 /\ queue = <<>> /\ visited = {} /\ out = EmptyFst
  BY DEF WalkInit
<1>3. Len(table.id_to_tuple) \in Nat
  BY <1>1 DEF Inv, TypeOK, TableType
<1>4. IterInv
  BY <1>2, <1>3 DEF IterInv, NotReading
<1>5. SearchInv /\ SingleTouch
  BY <1>2 DEF SearchInv, SingleTouch, Searching
<1> QED  BY <1>4, <1>5 DEF WalkInv

LEMMA WalkStutterInv ==
    ASSUME Inv, Inv', WalkInv, UNCHANGED <<vars, walk>> PROVE WalkInv'
<1>1. UNCHANGED <<origin, table, cstart, ctrs, pc, cur, at, iterator, search, cleared>>
  BY DEF vars, cache, locals, walk
<1>2. Grows
  BY <1>1, ExtendsItself DEF Grows, Inv, TypeOK
<1>3. IterInv'
  <2>1. at = "iter_trs" => pc'[Walker] \in TrsPcs /\ cur'[Walker] = pos
    BY <1>1 DEF WalkInv, IterInv
  <2>2. ~ cleared' /\ at \in {"iter_start", "iter_next", "iter_known", "iter_trs"} =>
          /\ at = "iter_start" /\ pc'[Walker] = "got_start" => cstart'.data # NotComputed
          /\ at = "iter_trs" /\ pc'[Walker] = "got_trs" => pos \in DOMAIN ctrs'.data
    BY <1>1 DEF WalkInv, IterInv
  <2> QED  BY <1>1, <1>2, <2>1, <2>2, IterStable DEF WalkInv
<1>4. SearchInv' /\ SingleTouch'
  BY <1>1, <1>2, SearchStable DEF WalkInv, SearchInv
<1> QED  BY <1>3, <1>4 DEF WalkInv

LEMMA WalkNextInv == Inv /\ WalkInv /\ [WalkNext]_<<vars, walk>> => Inv' /\ WalkInv'
<1> SUFFICES ASSUME Inv, WalkInv, [WalkNext]_<<vars, walk>> PROVE Inv' /\ WalkInv'
  OBVIOUS
<1>1. [Next]_vars
  BY ClientStep
<1>2. Inv' /\ Grows
  BY <1>1, NextInv, NextExtends DEF Grows
<1>3. CASE WalkStep
  <2>1. CASE StatesIter \/ IterReady \/ IterNext \/ IterReadKnown \/ IterExpand \/ IterEnd
             \/ IterYield \/ WalkFails
    BY <1>2, <2>1, StatesIterInv, IterReadyInv, IterNextInv, IterReadKnownInv,
       IterExpandInv, IterEndInv, IterYieldInv, WalkFailsInv
  <2>2. CASE Compute \/ ComputeNoStart \/ ComputeStarted \/ ComputePop \/ ComputeDone
             \/ ComputeTrLimit \/ ComputeTrs \/ ComputeDiscover \/ ComputeStateLimit
             \/ ComputeCopyTrs \/ ComputeWeight \/ ComputeCopyFinal
    BY <1>2, <2>2, ComputeInv, ComputeNoStartInv, ComputeStartedInv, ComputePopInv,
       ComputeDoneInv, GivesUpInv, ComputeTrsInv, ComputeDiscoverInv,
       ComputeCopyTrsInv, ComputeWeightInv, ComputeCopyFinalInv
  <2>3. CASE Advance(Walker) /\ UNCHANGED walk
    BY <1>2, <2>3, AdvanceWalkInv
  <2> QED  BY <1>2, <1>3, <2>1, <2>2, <2>3 DEF WalkStep
<1>4. CASE \E t \in Threads \ {Walker} : Others(t)
  BY <1>2, <1>4, OthersWalkInv
<1>5. CASE UNCHANGED <<vars, walk>>
  BY <1>2, <1>5, WalkStutterInv
<1> QED  BY <1>3, <1>4, <1>5 DEF WalkNext

\* What the traversals rely on at each step holds, whatever the other threads
\* ask, compute and clear meanwhile (states_iter and compute_bounded).
THEOREM WalkInvHolds == WalkSpec => [](Inv /\ WalkInv)
<1>1. WalkInit => Inv /\ WalkInv
  BY InitInv, WalkInitInv DEF WalkInit
<1> QED  BY <1>1, WalkNextInv, PTL DEF WalkSpec

\* A traversal only makes calls that any client may make, about states it was
\* given: everything proved of LazyFst holds while traversals run.
THEOREM WalkerIsClientHolds == WalkSpec => WalkerIsClient
<1>1. WalkInit => Init
  BY DEF WalkInit
<1>2. Inv /\ WalkInv /\ [WalkNext]_<<vars, walk>> => [Next]_vars
  BY ClientStep
<1> QED  BY <1>1, <1>2, WalkInvHolds, PTL DEF WalkSpec, WalkerIsClient, Spec

\* An iteration that ends has yielded every state of the machine, although its
\* end test reads three counters under three locks: the states yielded have the
\* start and all their own destinations among them.
THEOREM IterCompleteHolds == WalkSpec => []IterComplete
<1>1. Inv /\ WalkInv => IterComplete
  <2> SUFFICES ASSUME Inv, WalkInv, at = "iter_end", ~ cleared
               PROVE  Reachable \subseteq TuplesOf(0 .. pos - 1)
    BY DEF IterComplete
  <2> DEFINE C == TuplesOf(0 .. pos - 1)
  <2>1. StartBelow(pos) /\ SuccBelow(pos) /\ pos \in 0 .. Len(table.id_to_tuple)
    BY DEF WalkInv, IterInv
  <2>2. C \in SUBSET Tuples
    <3> SUFFICES ASSUME NEW i \in 0 .. pos - 1 PROVE FindTuple(table, i) \in Tuples
      BY DEF TuplesOf
    <3>1. i \in Allocated(table) /\ table \in TableType
      BY <2>1 DEF Inv, TypeOK, TableType, Allocated
    <3> QED  BY <3>1, NamedTuple
  <2>3. Closed(C)
    BY <2>1 DEF SuccBelow, Closed, TuplesOf
  <2>4. origin # NoTuple => origin \in C
    BY <2>1 DEF StartBelow
  <2> HIDE DEF C
  <2>5. Reachable \subseteq C
    BY <2>2, <2>3, <2>4, ReachableLeast
  <2> QED  BY <2>5 DEF C
<1> QED  BY <1>1, WalkInvHolds, PTL

\* compute_bounded expands each state once, as NullCache requires of it.
THEOREM SingleTouchHolds == WalkSpec => []SingleTouch
<1>1. WalkInv => SingleTouch
  BY DEF WalkInv
<1> QED  BY <1>1, WalkInvHolds, PTL

\* compute_bounded copies the machine and nothing else, while other threads
\* fill and clear the cache it reads from.
THEOREM ComputeFaithfulHolds == WalkSpec => []ComputeFaithful
<1>1. Inv /\ WalkInv => ComputeFaithful
  <2> SUFFICES ASSUME Inv, WalkInv, at = "bfs_ok" PROVE ComputeFaithful
    BY DEF ComputeFaithful
  <2>1. CASE origin = NoTuple
    <3>1. out.start = NoState /\ DOMAIN out.trs = {} /\ Reachable = {}
      BY <2>1 DEF WalkInv, SearchInv, EmptyFst, Nothing, Reachable
    <3> QED  BY <2>1, <3>1 DEF ComputeFaithful, IsStart, TuplesOf
  <2>2. CASE origin # NoTuple
    <3> DEFINE C == TuplesOf(DOMAIN out.trs)
    <3>1. CopyInv /\ queue = <<>>
      BY <2>2 DEF WalkInv, SearchInv
    <3>2. visited = DOMAIN out.trs
      <4>1. Range(queue) = {} /\ Expanding = {}
        BY <3>1 DEF Range, Expanding
      <4> QED  BY <4>1 DEF WalkInv, SingleTouch
    <3>3. Weighing = {}
      BY DEF Weighing
    <3>4. C \in SUBSET Tuples /\ C \subseteq Reachable
      BY <3>1, <3>2 DEF CopyInv, TuplesOf, Reachable
    <3>5. origin \in C
      BY <2>2, <3>1, <3>2 DEF CopyInv, IsStart, TuplesOf
    <3>6. Closed(C)
      <4> SUFFICES ASSUME NEW s \in DOMAIN out.trs,
                          NEW k \in DOMAIN Succ[FindTuple(table, s)]
                   PROVE  Succ[FindTuple(table, s)][k] \in C
        BY DEF Closed, TuplesOf, Range
      <4> DEFINE tuple == FindTuple(table, s)
      <4>1. /\ out.trs[s] \in Seq(Nat) /\ Decodes(table, tuple, out.trs[s])
            /\ Range(out.trs[s]) \subseteq DOMAIN out.trs
        BY <3>1, <3>2 DEF CopyInv
      <4>2. k \in DOMAIN out.trs[s]
        <5>1. tuple \in Tuples
          BY <3>1, <3>2 DEF CopyInv, Reachable
        <5>2. Succ[tuple] \in Seq(Tuples)
          BY <5>1, MachineAssumption
        <5> HIDE DEF tuple
        <5> QED  BY <4>1, <5>2 DEF Decodes, tuple
      <4>3. out.trs[s][k] \in DOMAIN out.trs /\ FindTuple(table, out.trs[s][k]) = Succ[tuple][k]
        BY <4>1, <4>2 DEF Decodes, Range
      <4> QED  BY <4>3 DEF TuplesOf
    <3> HIDE DEF C
    <3>7. C = Reachable
      BY <3>4, <3>5, <3>6, ReachableLeast
    <3>8. \A s \in DOMAIN out.trs : FinalCopied(s)
      BY <3>1, <3>3 DEF CopyInv
    <3> QED
      BY <3>1, <3>2, <3>7, <3>8 DEF ComputeFaithful, C, CopyInv, FinalCopied
  <2> QED  BY <2>1, <2>2
<1> QED  BY <1>1, WalkInvHolds, PTL


-----------------------------------------------------------------------------
(* What compute_bounded counts against its bounds.                         *)

\* As many tuples as ids: no tuple has two.
LEMMA TuplesCounted ==
    ASSUME Inv, NEW ids \in SUBSET Allocated(table), IsFiniteSet(ids)
    PROVE  /\ IsFiniteSet(TuplesOf(ids))
           /\ Cardinality(TuplesOf(ids)) = Cardinality(ids)
<1> DEFINE f == [id \in ids |-> FindTuple(table, id)]
<1>1. IsInjective(f)
  BY DEF Inv, TableBijective, Bijective, IsInjective
<1>2. f \in Bijection(ids, TuplesOf(ids))
  BY <1>1 DEF Bijection, Injection, Surjection, TuplesOf
<1> QED  BY <1>2, FS_Bijection DEF ExistsBijection

LEMMA TrsFromEmpty == TrsFrom({}) = {}
BY DEF TrsFrom

LEMMA TrsFromMonotonic ==
    ASSUME NEW V, NEW U \in SUBSET V
    PROVE  TrsFrom(U) \subseteq TrsFrom(V)
BY DEF TrsFrom

\* The transitions of one tuple.
LEMMA TrsOfOne ==
    ASSUME NEW u \in Tuples
    PROVE  /\ IsFiniteSet({u} \X DOMAIN Succ[u])
           /\ Cardinality({u} \X DOMAIN Succ[u]) = Len(Succ[u])
<1> DEFINE n == Len(Succ[u])
<1>1. n \in Nat /\ DOMAIN Succ[u] = 1 .. n
  <2>1. Succ[u] \in Seq(Tuples)
    BY MachineAssumption
  <2> QED  BY <2>1
<1> HIDE DEF n
<1>2. IsFiniteSet(1 .. n) /\ Cardinality(1 .. n) = n
  BY <1>1, FS_Interval
<1>3. IsFiniteSet({u}) /\ Cardinality({u}) = 1
  BY FS_Singleton
<1>4. /\ IsFiniteSet({u} \X (1 .. n))
      /\ Cardinality({u} \X (1 .. n)) = Cardinality({u}) * Cardinality(1 .. n)
  BY <1>2, <1>3, FS_Product, Zenon
<1>5. Cardinality({u}) * Cardinality(1 .. n) = n
  BY <1>1, <1>2, <1>3
<1> QED  BY <1>1, <1>4, <1>5, Zenon DEF n

\* A tuple that is not among the others adds its transitions to theirs.
LEMMA TrsFromAdds ==
    ASSUME NEW U \in SUBSET Tuples, NEW u \in Tuples \ U, IsFiniteSet(TrsFrom(U))
    PROVE  /\ IsFiniteSet(TrsFrom(U \cup {u}))
           /\ Cardinality(TrsFrom(U \cup {u})) = Cardinality(TrsFrom(U)) + Len(Succ[u])
<1> DEFINE own == {u} \X DOMAIN Succ[u]
<1>1. IsFiniteSet(own) /\ Cardinality(own) = Len(Succ[u])
  BY TrsOfOne
<1>2. TrsFrom(U \cup {u}) = TrsFrom(U) \cup own
  BY DEF TrsFrom
<1>3. TrsFrom(U) \cap own = {}
  BY DEF TrsFrom
<1> HIDE DEF own
<1>4. Cardinality(TrsFrom(U)) \in Nat /\ Cardinality(own) \in Nat
  BY <1>1, FS_CardinalityType
<1>5. Cardinality(TrsFrom(U) \cap own) = 0
  BY <1>3, FS_EmptySet
<1>6. /\ IsFiniteSet(TrsFrom(U) \cup own)
      /\ Cardinality(TrsFrom(U) \cup own) =
           Cardinality(TrsFrom(U)) + Cardinality(own) - Cardinality(TrsFrom(U) \cap own)
  BY <1>1, FS_Union, Zenon
<1>7. Cardinality(TrsFrom(U) \cup own) = Cardinality(TrsFrom(U)) + Cardinality(own)
  <2> DEFINE n == Cardinality(TrsFrom(U))
             m == Cardinality(own)
             k == Cardinality(TrsFrom(U) \cap own)
             t == Cardinality(TrsFrom(U) \cup own)
  <2>1. n \in Nat /\ m \in Nat /\ k = 0 /\ t = n + m - k
    BY <1>4, <1>5, <1>6
  <2> HIDE DEF n, m, k, t
  <2>2. t = n + m
    BY <2>1
  <2> QED  BY <2>2 DEF n, m, t
<1> QED  BY <1>1, <1>2, <1>6, <1>7, Zenon

LEMMA TrsFromFinite ==
    ASSUME NEW U \in SUBSET Tuples, IsFiniteSet(U)
    PROVE  IsFiniteSet(TrsFrom(U))
<1> DEFINE Own(u) == {u} \X DOMAIN Succ[u]
           all == {Own(u) : u \in U}
           f == [u \in U |-> Own(u)]
<1>1. f \in Surjection(U, all)
  BY DEF Surjection
<1>2. IsFiniteSet(all)
  BY <1>1, FS_Surjection
<1>3. \A T \in all : IsFiniteSet(T)
  BY TrsOfOne
<1>4. IsFiniteSet(UNION all)
  <2> HIDE DEF all
  <2> QED  BY <1>2, <1>3, FS_UNION
<1> QED  BY <1>4 DEF TrsFrom

-----------------------------------------------------------------------------
(* The counts follow the search, step by step.                             *)

LEMMA FoundAllocated ==
    ASSUME WalkInv, at \in Searching \cup {"bfs_ok"}, origin # NoTuple
    PROVE  CopyInv /\ visited \subseteq Allocated(table) /\ CountedStates \subseteq visited
<1>1. CopyInv
  BY DEF WalkInv, SearchInv
<1>2. DOMAIN out.trs \cup Expanding \subseteq visited
  BY DEF WalkInv, SingleTouch, Searching
<1>3. CountedStates \subseteq DOMAIN out.trs \cup Expanding
  BY DEF CountedStates, Expanding
<1> QED  BY <1>1, <1>2, <1>3 DEF CopyInv

\* The bounds, like the machine, stay what they are.
LEMMA WithinStable ==
    ASSUME UNCHANGED <<origin, bounds>>
    PROVE  WithinBounds' = WithinBounds /\ StartUncounted' = StartUncounted
<1>1. Reachable' = Reachable
  BY DEF Reachable
<1> QED  BY <1>1 DEF WithinBounds, StartUncounted, FewTrs

\* Nothing new is found or counted.
LEMMA BudgetSame ==
    ASSUME Inv, WalkInv, BudgetInv, Grows, UNCHANGED <<bounds, visited, num_trs>>,
           at' \in {"new", "bfs_start"} => at \in {"new", "bfs_start"},
           at' \in Searching \cup {"bfs_ok"} /\ origin # NoTuple =>
             at \in Searching \cup {"bfs_ok"} /\ CountedStates' = CountedStates,
           at' = "bfs_over" => at = "bfs_over"
    PROVE  BudgetInv'
<1>1. /\ WithinBounds' = WithinBounds /\ StartUncounted' = StartUncounted
      /\ origin' = origin
  BY WithinStable DEF Grows
<1>2. ASSUME at' \in Searching \cup {"bfs_ok"}, origin # NoTuple
      PROVE  TuplesOf(CountedStates)' = TuplesOf(CountedStates)
  <2>1. CountedStates' = CountedStates /\ CountedStates \subseteq Allocated(table)
    BY <1>2, FoundAllocated
  <2>2. \A id \in CountedStates : FindTuple(table', id) = FindTuple(table, id)
    BY <2>1 DEF Grows, Extends
  <2> QED  BY <2>1, <2>2 DEF TuplesOf
<1> QED  BY <1>1, <1>2 DEF BudgetInv, TrsFrom, Searching

\* Steps of the iterator, and of the machine.
LEMMA BudgetIdle ==
    ASSUME BudgetInv, UNCHANGED bounds,
           at' \notin {"new", "bfs_start", "bfs_ok", "bfs_over"} \cup Searching
    PROVE  BudgetInv'
BY DEF BudgetInv, Searching

LEMMA BudgetStable ==
    ASSUME Inv, WalkInv, BudgetInv, Grows, UNCHANGED <<at, search>> PROVE BudgetInv'
<1>1. UNCHANGED <<at, bounds, visited, num_trs>> /\ CountedStates' = CountedStates
  BY DEF search, CountedStates
<1> QED  BY <1>1, BudgetSame

LEMMA IterBudget ==
    ASSUME BudgetInv, StatesIter \/ IterReady \/ IterNext \/ IterReadKnown \/ IterExpand
                      \/ IterEnd \/ IterYield \/ WalkFails
    PROVE  BudgetInv'
<1>1. /\ UNCHANGED bounds
      /\ at' \notin {"new", "bfs_start", "bfs_ok", "bfs_over"} \cup Searching
  BY DEF StatesIter, IterReady, IterNext, IterReadKnown, IterExpand, IterEnd, IterYield,
     WalkFails, At, search, Searching
<1> QED  BY <1>1, BudgetIdle

LEMMA ComputeBudget ==
    ASSUME Inv, WalkInv, BudgetInv, Grows, Compute PROVE BudgetInv'
<1>1. at = "new" /\ at' = "bfs_start" /\ UNCHANGED <<bounds, visited, num_trs>>
  BY DEF Compute, At, search
<1> QED  BY <1>1, BudgetSame DEF Searching

LEMMA ComputeNoStartBudget ==
    ASSUME Inv, WalkInv, BudgetInv, Grows, ComputeNoStart PROVE BudgetInv'
<1>1. /\ at = "bfs_start" /\ at' = "bfs_ok"
      /\ cur[Walker] = NoState /\ pc[Walker] = "got_start"
      /\ UNCHANGED <<bounds, visited, num_trs>>
  BY DEF ComputeNoStart, At, Taken, search
<1>2. origin = NoTuple
  <2>1. IsStart(table, origin, NoState)
    BY <1>1, WalkerAssumption DEF Inv, CallInv
  <2>2. NoState \notin Allocated(table)
    BY DEF Inv, TypeOK, TableType, Allocated, NoState
  <2> QED  BY <2>1, <2>2 DEF IsStart
<1> QED  BY <1>1, <1>2, BudgetSame

\* The start state counts for one, whatever the bounds.
LEMMA ComputeStartedBudget ==
    ASSUME BudgetInv, WalkInv, ComputeStarted PROVE BudgetInv'
<1>1. /\ at = "bfs_start" /\ at' = "bfs_pop" /\ visited' = {cur[Walker]}
      /\ out'.trs = out.trs /\ UNCHANGED <<bounds, num_trs>>
  BY DEF ComputeStarted, At, WalkInv, SearchInv, EmptyFst
<1>2. out.trs = Nothing /\ num_trs = 0
  BY <1>1 DEF WalkInv, SearchInv, BudgetInv, EmptyFst
<1>3. IsFiniteSet(visited') /\ Cardinality(visited') = 1
  BY <1>1, FS_Singleton
<1>4. TrsFrom(TuplesOf(CountedStates))' = {}
  <2>1. CountedStates' = {}
    BY <1>1, <1>2 DEF CountedStates, Nothing
  <2> QED  BY <2>1 DEF TuplesOf, TrsFrom
<1>5. IsFiniteSet({}) /\ Cardinality({}) = 0
  BY FS_EmptySet
<1>6. ~ Exceeds(num_trs, bounds.trs)'
  BY <1>1, <1>2 DEF BudgetInv, Exceeds, Unbounded
<1> QED  BY <1>1, <1>2, <1>3, <1>4, <1>5, <1>6 DEF BudgetInv

LEMMA QuietBudget ==
    ASSUME Inv, WalkInv, BudgetInv, Grows,
           ComputePop \/ ComputeDone \/ ComputeCopyTrs \/ ComputeWeight \/ ComputeCopyFinal
    PROVE  BudgetInv'
<1>1. /\ at \in Searching /\ at' \in Searching \cup {"bfs_ok"}
      /\ UNCHANGED <<bounds, visited, num_trs>>
  BY DEF ComputePop, ComputeDone, ComputeCopyTrs, ComputeWeight, ComputeCopyFinal, At,
     search, Searching
<1>2. CopyInv
  BY <1>1, QueuedVisited
<1>3. CountedStates' = CountedStates
  <2>1. CASE ComputePop \/ ComputeDone \/ ComputeWeight
    BY <2>1 DEF ComputePop, ComputeDone, ComputeWeight, At, search, CountedStates
  <2>2. CASE ComputeCopyTrs
    <3>1. /\ at = "bfs_scan" /\ at' = "bfs_weight" /\ state' = state
          /\ DOMAIN out'.trs = DOMAIN out.trs \cup {state}
      BY <1>2, <2>2 DEF ComputeCopyTrs, At, CopyInv, EmptyFst, Insert
    <3> QED  BY <3>1 DEF CountedStates
  <2>3. CASE ComputeCopyFinal
    <3>1. at = "bfs_final" /\ at' = "bfs_pop" /\ out'.trs = out.trs
      BY <1>2, <2>3 DEF ComputeCopyFinal, At, CopyInv, EmptyFst
    <3> QED  BY <3>1 DEF CountedStates
  <2> QED  BY <2>1, <2>2, <2>3
<1> QED  BY <1>1, <1>3, BudgetSame DEF Searching

\* The transitions of the state expanded are added: it was not counted before.
LEMMA StateCounted ==
    ASSUME Inv, WalkInv, BudgetInv, at = "bfs_trs", pc[Walker] = "got_trs"
    PROVE  LET ids == DOMAIN out.trs \cup {state}
           IN  /\ ids \subseteq visited
               /\ IsFiniteSet(TrsFrom(TuplesOf(ids)))
               /\ Cardinality(TrsFrom(TuplesOf(ids))) \in Nat
               /\ bounds.trs # Unbounded =>
                    Cardinality(TrsFrom(TuplesOf(ids))) = num_trs + Len(arcs[Walker])
<1> DEFINE tuple == FindTuple(table, state)
           copied == TuplesOf(DOMAIN out.trs)
<1>1. /\ origin # NoTuple /\ CopyInv /\ visited \subseteq Allocated(table)
      /\ state \notin DOMAIN out.trs /\ state \in visited
      /\ DOMAIN out.trs \subseteq visited /\ cur[Walker] = state
  BY FoundAllocated DEF WalkInv, SearchInv, SingleTouch, Expanding, Searching
<1>2. Len(arcs[Walker]) = Len(Succ[tuple])
  BY <1>1, WalkerAssumption DEF Inv, CallInv, Decodes
<1>3. copied \in SUBSET Tuples /\ tuple \in Tuples
  BY <1>1 DEF CopyInv, TuplesOf, Reachable
<1>4. tuple \notin copied
  BY <1>1 DEF Inv, TableBijective, Bijective, TuplesOf
<1>5. TuplesOf(DOMAIN out.trs \cup {state}) = copied \cup {tuple}
  BY DEF TuplesOf
<1>6. CountedStates = DOMAIN out.trs
  BY DEF CountedStates
<1>7. /\ IsFiniteSet(TrsFrom(copied))
      /\ bounds.trs # Unbounded => num_trs = Cardinality(TrsFrom(copied))
  BY <1>1, <1>6 DEF BudgetInv, Searching
<1> HIDE DEF tuple, copied
<1>8. /\ IsFiniteSet(TrsFrom(copied \cup {tuple}))
      /\ Cardinality(TrsFrom(copied \cup {tuple})) =
           Cardinality(TrsFrom(copied)) + Len(Succ[tuple])
  BY <1>3, <1>4, <1>7, TrsFromAdds
<1>9. Cardinality(TrsFrom(copied \cup {tuple})) \in Nat
  BY <1>8, FS_CardinalityType
<1> QED  BY <1>1, <1>2, <1>5, <1>7, <1>8, <1>9

LEMMA ComputeTrsBudget ==
    ASSUME Inv, WalkInv, BudgetInv, Grows, ComputeTrs PROVE BudgetInv'
<1> DEFINE ids == DOMAIN out.trs \cup {state}
<1>1. /\ at = "bfs_trs" /\ at' = "bfs_scan" /\ pc[Walker] = "got_trs"
      /\ ~ Exceeds(Counted(arcs[Walker]), bounds.trs) /\ num_trs' = Counted(arcs[Walker])
      /\ UNCHANGED <<table, origin, bounds, state, visited, out>>
  BY DEF ComputeTrs, At, Taken, Finish
<1>2. TrsFrom(TuplesOf(CountedStates))' = TrsFrom(TuplesOf(ids))
  <2>1. CountedStates' = ids
    BY <1>1 DEF CountedStates
  <2> QED  BY <1>1, <2>1 DEF TuplesOf, TrsFrom
<1>3. /\ IsFiniteSet(TrsFrom(TuplesOf(ids)))
      /\ bounds.trs # Unbounded =>
           Cardinality(TrsFrom(TuplesOf(ids))) = num_trs + Len(arcs[Walker])
  BY <1>1, StateCounted
<1>4. origin # NoTuple
  BY <1>1 DEF WalkInv, SearchInv, Searching
<1>5. /\ IsFiniteSet(visited)
      /\ Exceeds(Cardinality(visited), bounds.states) => Cardinality(visited) = 1
  BY <1>1, <1>4 DEF BudgetInv, Searching
<1>6. /\ bounds.trs # Unbounded => num_trs' = Cardinality(TrsFrom(TuplesOf(ids)))
      /\ ~ Exceeds(num_trs', bounds.trs)
  BY <1>1, <1>3 DEF Counted
<1>7. bounds \in [states : Nat \cup {Unbounded}, trs : Nat \cup {Unbounded}]
  BY DEF BudgetInv
<1> QED  BY <1>1, <1>2, <1>3, <1>5, <1>6, <1>7 DEF BudgetInv

\* The destination met next belongs to the machine.
LEMMA MetReachable ==
    ASSUME Inv, WalkInv, at = "bfs_scan", seen < Len(found)
    PROVE  Met \in Allocated(table) /\ FindTuple(table, Met) \in Reachable
<1> DEFINE tuple == FindTuple(table, state)
<1>1. /\ found \in Seq(Nat) /\ Decodes(table, tuple, found) /\ seen \in 0 .. Len(found)
      /\ CopyInv /\ state \in visited
  BY QueuedVisited DEF WalkInv, SearchInv, SingleTouch, Expanding, Searching
<1>2. tuple \in Reachable /\ tuple \in Tuples
  BY <1>1 DEF CopyInv, Reachable
<1>3. Succ[tuple] \in Seq(Tuples)
  BY <1>2, MachineAssumption
<1> HIDE DEF tuple
<1>4. seen + 1 \in DOMAIN found /\ seen + 1 \in DOMAIN Succ[tuple]
  BY <1>1, <1>3 DEF Decodes
<1>5. Met \in Allocated(table) /\ FindTuple(table, Met) \in Range(Succ[tuple])
  BY <1>1, <1>4 DEF Met, Decodes, Range
<1> QED  BY <1>2, <1>5, ReachableSucc

LEMMA ComputeDiscoverBudget ==
    ASSUME Inv, WalkInv, BudgetInv, Grows, ComputeDiscover PROVE BudgetInv'
<1>1. /\ at = "bfs_scan" /\ at' = at /\ ~ TooMany /\ visited' = visited \cup {Met}
      /\ UNCHANGED <<table, origin, bounds, state, num_trs>>
  BY DEF ComputeDiscover, vars
<1>2. CopyInv /\ origin # NoTuple
  BY <1>1, QueuedVisited DEF WalkInv, SearchInv, Searching
<1>3. out'.trs = out.trs
  BY <1>2 DEF ComputeDiscover, CopyInv, EmptyFst
<1>4. TrsFrom(TuplesOf(CountedStates))' = TrsFrom(TuplesOf(CountedStates))
  <2>1. CountedStates' = CountedStates
    BY <1>1, <1>3 DEF CountedStates
  <2> QED  BY <1>1, <2>1 DEF TuplesOf, TrsFrom
<1>5. /\ IsFiniteSet(visited)
      /\ Exceeds(Cardinality(visited), bounds.states) => Cardinality(visited) = 1
      /\ IsFiniteSet(TrsFrom(TuplesOf(CountedStates)))
      /\ bounds.trs # Unbounded =>
           num_trs = Cardinality(TrsFrom(TuplesOf(CountedStates)))
      /\ ~ Exceeds(num_trs, bounds.trs)
  BY <1>1, <1>2 DEF BudgetInv, Searching
<1>6. /\ IsFiniteSet(visited')
      /\ Cardinality(visited') = IF Met \in visited THEN Cardinality(visited)
                                 ELSE Cardinality(visited) + 1
  BY <1>1, <1>5, FS_AddElement
<1>7. Exceeds(Cardinality(visited'), bounds.states) => Cardinality(visited') = 1
  BY <1>1, <1>5, <1>6 DEF TooMany
<1>8. bounds \in [states : Nat \cup {Unbounded}, trs : Nat \cup {Unbounded}]
  BY DEF BudgetInv
<1> QED  BY <1>1, <1>4, <1>5, <1>6, <1>7, <1>8 DEF BudgetInv

\* The transitions copied and those just found are the machine's.
LEMMA ComputeTrLimitBudget ==
    ASSUME Inv, WalkInv, BudgetInv, Grows, ComputeTrLimit PROVE BudgetInv'
<1> DEFINE ids == DOMAIN out.trs \cup {state}
           counted == TrsFrom(TuplesOf(ids))
<1>1. /\ at = "bfs_trs" /\ at' = "bfs_over" /\ pc[Walker] = "got_trs"
      /\ Exceeds(Counted(arcs[Walker]), bounds.trs) /\ UNCHANGED <<origin, bounds>>
  BY DEF ComputeTrLimit, At, Taken, Finish, search
<1>2. /\ ids \subseteq visited /\ Cardinality(counted) \in Nat
      /\ bounds.trs # Unbounded => Cardinality(counted) = num_trs + Len(arcs[Walker])
  BY <1>1, StateCounted
<1>3. CopyInv
  BY <1>1, QueuedVisited DEF Searching
<1>4. TuplesOf(ids) \subseteq Reachable /\ Reachable \subseteq Tuples
  BY <1>2, <1>3 DEF CopyInv, TuplesOf, Reachable
<1>5. counted \subseteq TrsFrom(Reachable)
  BY <1>4, TrsFromMonotonic
<1>6. bounds.trs \in Nat /\ Cardinality(counted) > bounds.trs
  BY <1>1, <1>2 DEF Counted, Exceeds, BudgetInv
<1> HIDE DEF counted
<1>7. ASSUME IsFiniteSet(Reachable) PROVE Exceeds(Cardinality(TrsFrom(Reachable)), bounds.trs)
  <2>1. IsFiniteSet(TrsFrom(Reachable))
    BY <1>4, <1>7, TrsFromFinite
  <2>2. /\ Cardinality(TrsFrom(Reachable)) \in Nat
        /\ Cardinality(counted) <= Cardinality(TrsFrom(Reachable))
    BY <1>5, <2>1, FS_Subset, FS_CardinalityType
  <2> QED  BY <1>2, <1>6, <2>2 DEF Exceeds, Unbounded
<1>8. ~ WithinBounds /\ ~ StartUncounted
  BY <1>7 DEF WithinBounds, StartUncounted, FewTrs
<1> QED  BY <1>1, <1>8, WithinStable DEF BudgetInv, Searching

\* The states discovered and the one just met are the machine's, one tuple each.
LEMMA ComputeStateLimitBudget ==
    ASSUME Inv, WalkInv, BudgetInv, Grows, ComputeStateLimit PROVE BudgetInv'
<1> DEFINE ids == visited \cup {Met}
           tuples == TuplesOf(ids)
<1>1. /\ at = "bfs_scan" /\ at' = "bfs_over" /\ seen < Len(found) /\ Met \notin visited
      /\ Exceeds(Cardinality(visited) + 1, bounds.states) /\ UNCHANGED <<origin, bounds>>
  BY DEF ComputeStateLimit, TooMany, At, vars, search
<1>2. /\ origin # NoTuple /\ CopyInv /\ visited \subseteq Allocated(table)
      /\ state \in visited
  BY <1>1, QueuedVisited DEF WalkInv, SearchInv, SingleTouch, Expanding, Searching
<1>3. Met \in Allocated(table) /\ FindTuple(table, Met) \in Reachable
  BY <1>1, MetReachable
<1>4. tuples \subseteq Reachable /\ ids \in SUBSET Allocated(table)
  BY <1>2, <1>3 DEF CopyInv, TuplesOf
<1>5. IsFiniteSet(visited)
  BY <1>1, <1>2 DEF BudgetInv, Searching
<1>6. IsFiniteSet(ids) /\ Cardinality(ids) = Cardinality(visited) + 1
  BY <1>1, <1>5, FS_AddElement
<1>7. Cardinality(visited) \in Nat \ {0}
  BY <1>2, <1>5, FS_CardinalityType, FS_EmptySet
<1>8. Cardinality(tuples) = Cardinality(visited) + 1
  BY <1>4, <1>6, TuplesCounted
<1> HIDE DEF tuples
<1>9. ASSUME IsFiniteSet(Reachable)
      PROVE  /\ Exceeds(Cardinality(Reachable), bounds.states)
             /\ Cardinality(Reachable) # 1
  <2>1. /\ Cardinality(Reachable) \in Nat
        /\ Cardinality(tuples) <= Cardinality(Reachable)
    BY <1>4, <1>9, FS_Subset, FS_CardinalityType
  <2>2. bounds.states \in Nat /\ Cardinality(visited) + 1 > bounds.states
    BY <1>1 DEF Exceeds, BudgetInv
  <2> QED  BY <1>7, <1>8, <2>1, <2>2 DEF Exceeds, Unbounded
<1>10. ~ WithinBounds /\ ~ StartUncounted
  BY <1>9 DEF WithinBounds, StartUncounted, FewTrs
<1> QED  BY <1>1, <1>10, WithinStable DEF BudgetInv, Searching

LEMMA WalkInitBudget == WalkInit => BudgetInv
BY WalkerAssumption DEF WalkInit, BudgetInv, Searching

LEMMA WalkNextBudget ==
    Inv /\ WalkInv /\ BudgetInv /\ [WalkNext]_<<vars, walk>> => BudgetInv'
<1> SUFFICES ASSUME Inv, WalkInv, BudgetInv, [WalkNext]_<<vars, walk>> PROVE BudgetInv'
  OBVIOUS
<1>1. Grows
  BY ClientStep, NextExtends DEF Grows
<1>2. CASE WalkStep
  <2>1. CASE Advance(Walker) /\ UNCHANGED walk
    BY <1>1, <2>1, BudgetStable DEF walk
  <2>2. CASE StatesIter \/ IterReady \/ IterNext \/ IterReadKnown \/ IterExpand \/ IterEnd
             \/ IterYield \/ WalkFails
    BY <2>2, IterBudget
  <2>3. CASE Compute \/ ComputeNoStart \/ ComputeStarted \/ ComputePop \/ ComputeDone
             \/ ComputeTrLimit \/ ComputeTrs \/ ComputeDiscover \/ ComputeStateLimit
             \/ ComputeCopyTrs \/ ComputeWeight \/ ComputeCopyFinal
    BY <1>1, <2>3, ComputeBudget, ComputeNoStartBudget, ComputeStartedBudget, QuietBudget,
       ComputeTrLimitBudget, ComputeTrsBudget, ComputeDiscoverBudget,
       ComputeStateLimitBudget
  <2> QED  BY <1>2, <2>1, <2>2, <2>3 DEF WalkStep
<1>3. CASE \E t \in Threads \ {Walker} : Others(t)
  <2>1. UNCHANGED <<at, search>>
    BY <1>3 DEF Others, walk
  <2> QED  BY <1>1, <2>1, BudgetStable
<1>4. CASE UNCHANGED <<vars, walk>>
  BY <1>1, <1>4, BudgetStable DEF walk
<1> QED  BY <1>2, <1>3, <1>4 DEF WalkNext

\* compute_bounded gives up exactly when the machine is larger than max_states
\* or max_trs, however the other threads had its states numbered, but for a lone
\* start state, which a max_states of 0 lets pass; on a machine without end it
\* cannot have finished.
THEOREM BudgetExactHolds == WalkSpec => []BudgetExact
<1>1. WalkSpec => []BudgetInv
  BY WalkInitBudget, WalkNextBudget, WalkInvHolds, PTL DEF WalkSpec
<1>2. Inv /\ WalkInv /\ BudgetInv /\ ComputeFaithful => BudgetExact
  <2> SUFFICES ASSUME Inv, WalkInv, BudgetInv, ComputeFaithful, at = "bfs_ok"
               PROVE  WithinBounds \/ StartUncounted
    BY DEF BudgetExact, BudgetInv
  <2>1. CASE origin = NoTuple
    <3>1. Reachable = {} /\ TrsFrom(Reachable) = {}
      BY <2>1, TrsFromEmpty DEF Reachable
    <3>2. ~ Exceeds(0, bounds.states) /\ ~ Exceeds(0, bounds.trs)
      BY DEF BudgetInv, Exceeds, Unbounded
    <3> QED  BY <3>1, <3>2, FS_EmptySet DEF WithinBounds, FewTrs
  <2>2. CASE origin # NoTuple
    <3>1. queue = <<>> /\ visited \subseteq Allocated(table)
      BY <2>2, FoundAllocated DEF WalkInv, SearchInv
    <3>2. visited = DOMAIN out.trs /\ CountedStates = visited
      <4>1. Range(queue) = {} /\ Expanding = {}
        BY <3>1 DEF Range, Expanding
      <4> QED  BY <4>1 DEF WalkInv, SingleTouch, CountedStates
    <3>3. TuplesOf(visited) = Reachable
      BY <3>2 DEF ComputeFaithful
    <3>4. /\ IsFiniteSet(visited)
          /\ Exceeds(Cardinality(visited), bounds.states) => Cardinality(visited) = 1
          /\ bounds.trs # Unbounded => num_trs = Cardinality(TrsFrom(Reachable))
          /\ ~ Exceeds(num_trs, bounds.trs)
      BY <2>2, <3>2, <3>3 DEF BudgetInv
    <3>5. IsFiniteSet(Reachable) /\ Cardinality(Reachable) = Cardinality(visited)
      BY <3>1, <3>3, <3>4, TuplesCounted
    <3>6. bounds.states \in Nat \cup {Unbounded}
      BY DEF BudgetInv
    <3>7. FewTrs
      BY <3>4, <3>5 DEF FewTrs, Exceeds
    <3>8. Exceeds(Cardinality(Reachable), bounds.states) => bounds.states = 0
      BY <3>4, <3>5, <3>6 DEF Exceeds, Unbounded
    <3> QED  BY <3>4, <3>5, <3>7, <3>8 DEF WithinBounds, StartUncounted
  <2> QED  BY <2>1, <2>2
<1> QED  BY <1>1, <1>2, WalkInvHolds, ComputeFaithfulHolds, PTL
=============================================================================
