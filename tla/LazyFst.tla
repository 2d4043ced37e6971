------------------------------ MODULE LazyFst ------------------------------
(***************************************************************************)
(* LazyFst<W, Op, Cache> shared by several threads (the type is Sync: every *)
(* method takes &self): an operation Op that computes the start state, the *)
(* transitions and the final weight of a state on demand, naming the       *)
(* tuples it meets in a state table, and a cache (SimpleVecCache or        *)
(* SimpleHashMapCache) of what was computed.                               *)
(*                                                                         *)
(* The grain is the code's: one action per critical section.  The cache    *)
(* has three Mutexes (start, trs, final weights), the state table one, and *)
(* no lock is held from one call to the next.  So a lookup, the            *)
(* computation it leads to, each find_id of that computation and the       *)
(* insertion of its result are separate steps: two threads may compute the *)
(* same state at once, and clear() may fall between any two steps.         *)
(*                                                                         *)
(* clear() and clone() of a cache take the three locks in one order and    *)
(* hold them all until they return: each is one action.                    *)
(***************************************************************************)
EXTENDS StateTable, FiniteSetsExt, Functions

CONSTANTS
    Threads,     \* the threads that share the machine
    Jobs,        \* Jobs[t]: the operations thread t may call
    NoTuple,     \* not a tuple
    StartTuples, \* what the start of the machine may be: a tuple, or NoTuple
                 \* when an operand has no start state
    Succ,        \* Succ[t]: the destinations of t's transitions, in order
    Final,       \* Final[t]: the final weight the operation gives t
    Weights,     \* the final weights, as Option<W>
    NoFinal,     \* its None: the state is not final
    Fallible,    \* the tuples whose transitions or final weight may fail
    InitNames    \* the tables the operation may be built with: empty, with
                 \* the start tuple (compose interns it in new()), or what
                 \* an earlier machine over the same operands left in it

Operations == {"start", "trs", "final", "clone", "clear"}

ASSUME JobsAssumption == Jobs \in [Threads -> SUBSET Operations]

ASSUME MachineAssumption ==
    /\ NoTuple \notin Tuples
    /\ StartTuples \subseteq Tuples \cup {NoTuple}
    /\ Succ \in [Tuples -> Seq(Tuples)]
    /\ NoFinal \in Weights
    /\ Final \in [Tuples -> Weights]
    /\ Fallible \subseteq Tuples

ASSUME TableAssumption ==
    /\ InitNames \subseteq Seq(Tuples)
    /\ \A names \in InitNames : IsInjective(names)

\* Values of a start entry that are not state ids: Some(None), and
\* CacheStatus::NotComputed.
NoState == -1
NotComputed == -2

\* The locals of a thread outside a call.
NoId == 0

VARIABLES
    origin,  \* the start tuple of this machine (fixed by the operands)
    table,   \* the operation's state table
    cstart,  \* cached start state, with the states known from it
    ctrs,    \* cached transitions by state, with the states known from them
    cfinal,  \* cached final weights by state, with the states known from them
    pc,      \* pc[t]: the next critical section of thread t
    cur,     \* cur[t]: the state t asks about, or the start state it found
    tup,     \* tup[t]: the tuple t computes for
    arcs,    \* arcs[t]: the transitions t has built, or found
    weight,  \* weight[t]: the final weight t has found
    snap     \* snap[t]: the fields t has cloned so far

cache == <<cstart, ctrs, cfinal>>
locals == <<cur, tup, arcs, weight, snap>>
vars == <<origin, table, cache, pc, locals>>

Nothing == [i \in {} |-> 0]

\* The value of the three mutexes, as clone() copies it.
TheCache == [start |-> cstart, trs |-> ctrs, final |-> cfinal]

\* CachedData::default and CachedData::clear.
NewCache(data) == [data |-> data, known |-> 0]

\* Mutant: the slot after the one asked for.
InsertOffByOne(data, id, v) ==
    [i \in DOMAIN data \cup {id + 1} |-> IF i = id + 1 THEN v ELSE data[i]]

\* data[id] = Computed(v), after a resize when id is past the end.
Insert(data, id, v) ==
    [i \in DOMAIN data \cup {id} |-> IF i = id THEN v ELSE data[i]]

\* Mutant: the largest id instead of the number of ids.
RaisedToLast(known, ids) == Max({known} \cup ids)

\* num_known_states raised to count every state of ids.
Raised(known, ids) == Max({known} \cup {i + 1 : i \in ids})

Goto(t, from, to) == /\ pc[t] = from
                     /\ pc' = [pc EXCEPT ![t] = to]

Init == /\ origin \in StartTuples
        /\ \E names \in InitNames : /\ origin = NoTuple => names = <<>>
                                    /\ table = TableOf(names)
        /\ cstart = NewCache(NotComputed)
        /\ ctrs = NewCache(Nothing)
        /\ cfinal = NewCache(Nothing)
        /\ pc = [t \in Threads |-> "idle"]
        /\ cur = [t \in Threads |-> NoId]
        /\ tup = [t \in Threads |-> NoTuple]
        /\ arcs = [t \in Threads |-> <<>>]
        /\ weight = [t \in Threads |-> NoFinal]
        /\ snap = [t \in Threads |-> Nothing]

-----------------------------------------------------------------------------
(***************************************************************************)
(* Calls.  A caller passes a StateId it was given: one the table has handed *)
(* out, whatever the thread that met it.                                   *)
(***************************************************************************)
Call(t, op, first) == /\ op \in Jobs[t]
                      /\ Goto(t, "idle", first)
                      /\ UNCHANGED <<origin, table, cache, tup, arcs, weight, snap>>

CallStart(t) == /\ Call(t, "start", "get_start")
                /\ UNCHANGED cur

CallTrs(t, id) == /\ Call(t, "trs", "get_trs")
                  /\ cur' = [cur EXCEPT ![t] = id]

CallFinal(t, id) == /\ Call(t, "final", "get_final")
                    /\ cur' = [cur EXCEPT ![t] = id]

CallClone(t) == /\ Call(t, "clone", "clone")
                /\ UNCHANGED cur

\* The caller takes the answer (or the Err) and drops it.
Answered == {"got_start", "got_trs", "got_final", "got_clone", "failed"}

Finish(t) == /\ pc[t] \in Answered
             /\ pc' = [pc EXCEPT ![t] = "idle"]
             /\ cur' = [cur EXCEPT ![t] = NoId]
             /\ tup' = [tup EXCEPT ![t] = NoTuple]
             /\ arcs' = [arcs EXCEPT ![t] = <<>>]
             /\ weight' = [weight EXCEPT ![t] = NoFinal]
             /\ snap' = [snap EXCEPT ![t] = Nothing]
             /\ UNCHANGED <<origin, table, cache>>

-----------------------------------------------------------------------------
(***************************************************************************)
(* start().  ComputeStart is the find_id of compute_start (compose returns *)
(* the id interned by new(), which find_id would answer too).              *)
(***************************************************************************)
StartHit(t) == /\ cstart.data # NotComputed
               /\ Goto(t, "get_start", "got_start")
               /\ cur' = [cur EXCEPT ![t] = cstart.data]
               /\ UNCHANGED <<origin, table, cache, tup, arcs, weight, snap>>

StartMiss(t) == /\ cstart.data = NotComputed
                /\ Goto(t, "get_start", "compute_start")
                /\ UNCHANGED <<origin, table, cache, locals>>

ComputeStart(t) ==
    /\ Goto(t, "compute_start", "insert_start")
    /\ IF origin = NoTuple
       THEN /\ cur' = [cur EXCEPT ![t] = NoState]
            /\ UNCHANGED table
       ELSE /\ cur' = [cur EXCEPT ![t] = FindId(table, origin)]
            /\ table' = Interned(table, origin)
    /\ UNCHANGED <<origin, cache, tup, arcs, weight, snap>>

InsertStart(t) ==
    /\ Goto(t, "insert_start", "got_start")
    /\ cstart' = [data |-> cur[t],
                  known |-> Raised(cstart.known, {cur[t]} \ {NoState})]
    /\ UNCHANGED <<origin, table, ctrs, cfinal, locals>>

-----------------------------------------------------------------------------
(***************************************************************************)
(* get_trs(id).                                                            *)
(***************************************************************************)
TrsHit(t) == /\ cur[t] \in DOMAIN ctrs.data
             /\ Goto(t, "get_trs", "got_trs")
             /\ arcs' = [arcs EXCEPT ![t] = ctrs.data[cur[t]]]
             /\ UNCHANGED <<origin, table, cache, cur, tup, weight, snap>>

TrsMiss(t) == /\ cur[t] \notin DOMAIN ctrs.data
              /\ Goto(t, "get_trs", "find_tuple")
              /\ UNCHANGED <<origin, table, cache, locals>>

FindTrsTuple(t) == /\ Goto(t, "find_tuple", "intern")
                   /\ tup' = [tup EXCEPT ![t] = FindTuple(table, cur[t])]
                   /\ UNCHANGED <<origin, table, cache, cur, arcs, weight, snap>>

\* Mutant: the transition is pushed at the front.
InternAtFront(t) ==
    LET next == Succ[tup[t]][Len(arcs[t]) + 1] IN
    /\ Goto(t, "intern", "intern")
    /\ Len(arcs[t]) < Len(Succ[tup[t]])
    /\ arcs' = [arcs EXCEPT ![t] = <<FindId(table, next)>> \o @]
    /\ table' = Interned(table, next)
    /\ UNCHANGED <<origin, cache, cur, tup, weight, snap>>

\* The destination of the next transition: one find_id, one critical section.
InternNext(t) ==
    LET next == Succ[tup[t]][Len(arcs[t]) + 1] IN
    /\ Goto(t, "intern", "intern")
    /\ Len(arcs[t]) < Len(Succ[tup[t]])
    /\ arcs' = [arcs EXCEPT ![t] = Append(@, FindId(table, next))]
    /\ table' = Interned(table, next)
    /\ UNCHANGED <<origin, cache, cur, tup, weight, snap>>

\* Mutant: the resize marks the states it skips as computed.
InsertTrsResized(t) ==
    /\ Goto(t, "intern", "got_trs")
    /\ Len(arcs[t]) = Len(Succ[tup[t]])
    /\ ctrs' = [data |-> [i \in DOMAIN ctrs.data \cup 0 .. cur[t] |->
                            IF i = cur[t] THEN arcs[t]
                            ELSE IF i \in DOMAIN ctrs.data THEN ctrs.data[i]
                            ELSE <<>>],
                known |-> Raised(ctrs.known, Range(arcs[t]))]
    /\ UNCHANGED <<origin, table, cstart, cfinal, locals>>

\* Mutant: after the insertion, the answer is looked up again.
InsertTrsThenLookup(t) ==
    /\ Goto(t, "intern", "get_trs")
    /\ Len(arcs[t]) = Len(Succ[tup[t]])
    /\ ctrs' = [data |-> Insert(ctrs.data, cur[t], arcs[t]),
                known |-> Raised(ctrs.known, Range(arcs[t]))]
    /\ UNCHANGED <<origin, table, cstart, cfinal, locals>>

InsertTrs(t) ==
    /\ Goto(t, "intern", "got_trs")
    /\ Len(arcs[t]) = Len(Succ[tup[t]])
    /\ ctrs' = [data |-> Insert(ctrs.data, cur[t], arcs[t]),
                known |-> Raised(ctrs.known, Range(arcs[t]))]
    /\ UNCHANGED <<origin, table, cstart, cfinal, locals>>

-----------------------------------------------------------------------------
(***************************************************************************)
(* final_weight(id), and the `?` of both computations: what the table has  *)
(* learnt stays, the cache gets nothing.                                   *)
(***************************************************************************)
FinalHit(t) == /\ cur[t] \in DOMAIN cfinal.data
               /\ Goto(t, "get_final", "got_final")
               /\ weight' = [weight EXCEPT ![t] = cfinal.data[cur[t]]]
               /\ UNCHANGED <<origin, table, cache, cur, tup, arcs, snap>>

FinalMiss(t) == /\ cur[t] \notin DOMAIN cfinal.data
                /\ Goto(t, "get_final", "find_final_tuple")
                /\ UNCHANGED <<origin, table, cache, locals>>

FindFinalTuple(t) == /\ Goto(t, "find_final_tuple", "insert_final")
                     /\ tup' = [tup EXCEPT ![t] = FindTuple(table, cur[t])]
                     /\ weight' = [weight EXCEPT ![t] = Final[tup'[t]]]
                     /\ UNCHANGED <<origin, table, cache, cur, arcs, snap>>

InsertFinal(t) ==
    /\ Goto(t, "insert_final", "got_final")
    /\ cfinal' = [data |-> Insert(cfinal.data, cur[t], weight[t]),
                  known |-> Raised(cfinal.known, {cur[t]})]
    /\ UNCHANGED <<origin, table, cstart, ctrs, locals>>

\* Mutant: a failed expansion withdraws the tuple it interned last.
FailWithdraws(t) ==
    /\ pc[t] \in {"intern", "insert_final"}
    /\ tup[t] \in Fallible
    /\ pc' = [pc EXCEPT ![t] = "failed"]
    /\ table' = TableOf(SubSeq(table.id_to_tuple, 1, Len(table.id_to_tuple) - 1))
    /\ UNCHANGED <<origin, cache, locals>>

ComputeFails(t) == /\ pc[t] \in {"intern", "insert_final"}
                   /\ tup[t] \in Fallible
                   /\ pc' = [pc EXCEPT ![t] = "failed"]
                   /\ UNCHANGED <<origin, table, cache, locals>>

-----------------------------------------------------------------------------
(***************************************************************************)
(* The derived clone(): field by field, in the order of the struct.  The   *)
(* cache is copied under its three locks, the table under its own.         *)
(***************************************************************************)
FieldOrderOpFirst == <<"op", "cache">>      \* mutant

FieldOrder == <<"cache", "op">>

Copied(field) == IF field = "cache" THEN TheCache ELSE table

CloneField(t, field) ==
    /\ pc[t] = "clone"
    /\ field = FieldOrder[IF snap[t] = Nothing THEN 1 ELSE 2]
    /\ snap' = [snap EXCEPT ![t] = [f \in DOMAIN @ \cup {field} |->
                                      IF f = field THEN Copied(f) ELSE @[f]]]
    /\ pc' = [pc EXCEPT ![t] = IF field = FieldOrder[2] THEN "got_clone" ELSE @]
    /\ UNCHANGED <<origin, table, cache, cur, tup, arcs, weight>>

\* Mutant: clear() forgets the names too.
ClearWithTable(t) == /\ pc[t] = "idle"
                     /\ "clear" \in Jobs[t]
                     /\ table' = TableOf(<<>>)
                     /\ cstart' = NewCache(NotComputed)
                     /\ ctrs' = NewCache(Nothing)
                     /\ cfinal' = NewCache(Nothing)
                     /\ UNCHANGED <<origin, pc, locals>>

\* clear() of a cache that a thread holds a handle on (a cache behind an Arc).
Clear(t) == /\ pc[t] = "idle"
            /\ "clear" \in Jobs[t]
            /\ cstart' = NewCache(NotComputed)
            /\ ctrs' = NewCache(Nothing)
            /\ cfinal' = NewCache(Nothing)
            /\ UNCHANGED <<origin, table, pc, locals>>

-----------------------------------------------------------------------------
Request(t) == \/ CallStart(t)
              \/ \E id \in Allocated(table) : CallTrs(t, id) \/ CallFinal(t, id)
              \/ CallClone(t)

Advance(t) == \/ StartHit(t) \/ StartMiss(t) \/ ComputeStart(t) \/ InsertStart(t)
              \/ TrsHit(t) \/ TrsMiss(t) \/ FindTrsTuple(t)
              \/ InternNext(t) \/ InsertTrs(t)
              \/ FinalHit(t) \/ FinalMiss(t) \/ FindFinalTuple(t) \/ InsertFinal(t)
              \/ ComputeFails(t)
              \/ CloneField(t, "cache") \/ CloneField(t, "op")

Next == \E t \in Threads : Request(t) \/ Clear(t) \/ Advance(t) \/ Finish(t)

Spec == Init /\ [][Next]_vars

\* A thread that is inside a call is eventually scheduled (std Mutexes do not
\* deadlock here: a thread waits for one lock while holding none, or for the
\* next of the three in one order).  Nobody has to call anything.
Fairness == \A t \in Threads : WF_vars(Advance(t) \/ Finish(t))

FairSpec == Spec /\ Fairness

-----------------------------------------------------------------------------
Pcs == {"idle", "get_start", "compute_start", "insert_start",
        "get_trs", "find_tuple", "intern",
        "get_final", "find_final_tuple", "insert_final", "clone"} \cup Answered

\* Every variable has its type; what the cache and the threads keep about a
\* state is kept under an id the table has handed out.
TypeOK ==
    /\ origin \in Tuples \cup {NoTuple}
    /\ table \in TableType
    /\ cstart.data \in Allocated(table) \cup {NoState, NotComputed}
    /\ cstart.known \in Nat
    /\ DOMAIN ctrs.data \subseteq Allocated(table)
    /\ ctrs.data \in [DOMAIN ctrs.data -> Seq(Nat)]
    /\ ctrs.known \in Nat
    /\ DOMAIN cfinal.data \subseteq Allocated(table)
    /\ cfinal.data \in [DOMAIN cfinal.data -> Weights]
    /\ cfinal.known \in Nat
    /\ pc \in [Threads -> Pcs]
    /\ cur \in [Threads -> Nat \cup {NoState}]
    /\ tup \in [Threads -> Tuples \cup {NoTuple}]
    /\ arcs \in [Threads -> Seq(Nat)]
    /\ weight \in [Threads -> Weights]
    /\ DOMAIN snap = Threads

\* No two ids for one tuple, no two tuples for one id, whatever the order in
\* which the threads intern: otherwise the machine has a state twice, or
\* confuses two (get_id_or_insert, called from every compute_trs).
TableBijective == Bijective(table)

\* The ids of trs name the destinations of tuple's transitions, in order.
Decodes(tbl, tuple, trs) ==
    /\ Len(trs) = Len(Succ[tuple])
    /\ \A k \in DOMAIN trs : /\ trs[k] \in Allocated(tbl)
                             /\ FindTuple(tbl, trs[k]) = Succ[tuple][k]

IsStart(tbl, first, id) == IF first = NoTuple
                           THEN id = NoState
                           ELSE /\ id \in Allocated(tbl)
                                /\ FindTuple(tbl, id) = first

\* What a cache holds is what the operation says of the tuples that a table
\* gives for its ids.
Sound(tbl, first, c) ==
    /\ c.start.data # NotComputed => IsStart(tbl, first, c.start.data)
    /\ \A id \in DOMAIN c.trs.data :
         /\ id \in Allocated(tbl)
         /\ Decodes(tbl, FindTuple(tbl, id), c.trs.data[id])
    /\ \A id \in DOMAIN c.final.data :
         /\ id \in Allocated(tbl)
         /\ c.final.data[id] = Final[FindTuple(tbl, id)]

\* The cache is sound whichever thread filled it, and however the lookups,
\* the computations, the insertions and the clears of the others fell between
\* (get_trs of lazy_fst.rs holds no lock from get_trs to insert_trs).
CacheSound == Sound(table, origin, TheCache)

\* What a call answers is about the state it was asked about, even when that
\* state was computed by another thread, or cleared in the meantime.
AnswersSound ==
    \A t \in Threads :
      /\ pc[t] = "got_start" => IsStart(table, origin, cur[t])
      /\ pc[t] = "got_trs" => Decodes(table, FindTuple(table, cur[t]), arcs[t])
      /\ pc[t] = "got_final" => weight[t] = Final[FindTuple(table, cur[t])]

\* find_tuple is called on handed-out ids only: elsewhere the index panics
\* with the Mutex of the table held, and poisons it for every thread.
NoAbsentLookup ==
    \A t \in Threads : pc[t] \in {"find_tuple", "find_final_tuple"} =>
                         cur[t] \in Allocated(table)

Covers(tbl, c) ==
    /\ c.start.data >= 0 => c.start.data < c.start.known
    /\ \A id \in DOMAIN c.trs.data :
         \A k \in DOMAIN c.trs.data[id] : c.trs.data[id][k] < c.trs.known
    /\ \A id \in DOMAIN c.final.data : id < c.final.known
    /\ \A part \in {"start", "trs", "final"} :
         c[part].known \in 0 .. Len(tbl.id_to_tuple)

\* num_known_states, which bounds the state iterator, counts every state the
\* cache mentions, and none that the table does not name.
KnownCovers == Covers(table, TheCache)

\* A clone taken while other threads extend the machine is a machine: its
\* cache mentions only states that its table names (LazyFst derives Clone, and
\* the two fields are copied at different moments).
ClosedCopy(first, copy) == /\ DOMAIN copy = {"cache", "op"}
                           /\ Bijective(copy["op"])
                           /\ Sound(copy["op"], first, copy["cache"])
                           /\ Covers(copy["op"], copy["cache"])

CloneClosed == \A t \in Threads : pc[t] = "got_clone" => ClosedCopy(origin, snap[t])

-----------------------------------------------------------------------------
\* What a call knows at each of its steps, whatever the others did since it
\* began: with the invariants above, it is inductive.
AboutAState == {"get_trs", "find_tuple", "intern", "got_trs",
                "get_final", "find_final_tuple", "insert_final", "got_final"}

\* The transitions built so far.
DecodesPrefix(tbl, tuple, trs) ==
    /\ Len(trs) <= Len(Succ[tuple])
    /\ \A k \in DOMAIN trs : /\ trs[k] \in Allocated(tbl)
                             /\ FindTuple(tbl, trs[k]) = Succ[tuple][k]

CallInv(t) ==
    /\ pc[t] \in AboutAState => cur[t] \in Allocated(table)
    /\ pc[t] \in {"insert_start", "got_start"} => IsStart(table, origin, cur[t])
    /\ pc[t] \in {"intern", "insert_final"} => tup[t] = FindTuple(table, cur[t])
    /\ pc[t] \notin {"intern", "got_trs", "failed"} => arcs[t] = <<>>
    /\ pc[t] = "intern" => DecodesPrefix(table, tup[t], arcs[t])
    /\ pc[t] = "got_trs" => Decodes(table, FindTuple(table, cur[t]), arcs[t])
    /\ pc[t] \in {"insert_final", "got_final"} =>
         weight[t] = Final[FindTuple(table, cur[t])]
    /\ pc[t] \notin {"clone", "got_clone"} => snap[t] = Nothing
    /\ pc[t] = "clone" => \/ snap[t] = Nothing
                         \/ /\ DOMAIN snap[t] = {"cache"}
                            /\ Sound(table, origin, snap[t]["cache"])
                            /\ Covers(table, snap[t]["cache"])
    /\ pc[t] = "got_clone" => ClosedCopy(origin, snap[t])

\* The inductive invariant: together with the table and the cache, what every
\* call in progress relies on.
Inv == /\ TypeOK
       /\ TableBijective
       /\ CacheSound
       /\ KnownCovers
       /\ \A t \in Threads : CallInv(t)

-----------------------------------------------------------------------------
\* The threads together discover one machine: they implement the abstract
\* on-demand FST, in which a name or a published answer never changes.
OnDemand == INSTANCE OnDemandFst
              WITH name <- table.id_to_tuple, start <- cstart.data,
                   arcs <- ctrs.data, finals <- cfinal.data

Implements == OnDemand!Spec

\* Every call returns, whatever the others call, clear included: a call that
\* misses computes, and never looks in the cache again.
CallsReturn == \A t \in Threads : pc[t] # "idle" ~> pc[t] = "idle"

=============================================================================
