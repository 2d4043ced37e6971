------------------------------ MODULE LazyWalk ------------------------------
(***************************************************************************)
(* The two traversals of a lazy FST, as clients of LazyFst, while other    *)
(* threads query and clear the same machine:                               *)
(*   - states_iter(): yields 0, 1, 2, ... and expands each state, until it *)
(*     reaches the number of states known to the cache, which it reads     *)
(*     under three locks, one after the other;                             *)
(*   - compute_bounded(max_states, max_trs): the breadth-first search that *)
(*     copies the machine into a static FST, or gives up.                  *)
(* The thread Walker makes one traversal.  A Result::Err of a call ends it: *)
(* by unwrap() in the iterator (a panic), by `?` in compute_bounded.       *)
(***************************************************************************)
EXTENDS LazyFst

CONSTANTS
    Walker,        \* the thread that traverses
    StateBounds,   \* the values of max_states to try
    TrBounds       \* the values of max_trs to try

\* None, for a bound.
Unbounded == -1

ASSUME WalkerAssumption ==
    /\ Walker \in Threads
    /\ {"start", "trs", "final"} \subseteq Jobs[Walker]
    /\ StateBounds \subseteq Nat \cup {Unbounded}
    /\ TrBounds \subseteq Nat \cup {Unbounded}

VARIABLES
    at,        \* what the traversal does next
    pos,       \* the iterator's s: the states it has yielded are 0 .. pos - 1
    known,     \* num_known_states as read so far, and the locks still to take
    bounds,    \* max_states and max_trs
    state,     \* the s popped last
    found,     \* its transitions, while they are gone through
    seen,      \* how many of them have been
    queue,     \* states discovered and not expanded
    visited,   \* states discovered (visited_states; num_discovered counts it)
    num_trs,   \* transitions copied so far
    out,       \* the static FST being built
    cleared    \* history: the cache has been cleared since the traversal began

iterator == <<pos, known>>
search == <<bounds, state, found, seen, queue, visited, num_trs, out>>
walk == <<at, iterator, search, cleared>>

EmptyFst == [states |-> 0, start |-> NoState, trs |-> Nothing, finals |-> Nothing]

NotReading == [max |-> 0, locks |-> <<>>]

WalkInit == /\ Init
            /\ at = "new"
            /\ pos = 0
            /\ known = NotReading
            /\ bounds \in [states : StateBounds, trs : TrBounds]
            /\ state = NoState
            /\ found = <<>> /\ seen = 0
            /\ queue = <<>>
            /\ visited = {}
            /\ num_trs = 0
            /\ out = EmptyFst
            /\ cleared = FALSE

At(from, to) == at = from /\ at' = to

\* The call the traversal waits for has been answered.
Taken(answer) == /\ pc[Walker] = answer
                 /\ Finish(Walker)

-----------------------------------------------------------------------------
(***************************************************************************)
(* states_iter() and next().                                               *)
(***************************************************************************)
StatesIter == /\ At("new", "iter_start")
              /\ CallStart(Walker)
              /\ UNCHANGED <<iterator, search, cleared>>

IterReady == /\ At("iter_start", "iter_next")
             /\ Taken("got_start")
             /\ UNCHANGED <<iterator, search, cleared>>

\* Mutant: the states known from transitions are left out.
KnownWithoutTrs == <<"start", "final">>

KnownStates == <<"start", "trs", "final">>

IterNext == /\ At("iter_next", "iter_known")
            /\ known' = [max |-> 0, locks |-> KnownStates]
            /\ UNCHANGED <<vars, pos, search, cleared>>

KnownUnder(lock) == CASE lock = "start" -> cstart.known
                      [] lock = "trs" -> ctrs.known
                      [] lock = "final" -> cfinal.known

\* One lock of num_known_states.
IterReadKnown == /\ at = "iter_known"
                 /\ known.locks # <<>>
                 /\ known' = [max |-> Max({known.max, KnownUnder(Head(known.locks))}),
                              locks |-> Tail(known.locks)]
                 /\ UNCHANGED <<vars, at, pos, search, cleared>>

\* Mutant: `<=` for `<`.
IterExpandPast == /\ At("iter_known", "iter_trs")
                  /\ known.locks = <<>>
                  /\ pos <= known.max
                  /\ CallTrs(Walker, pos)
                  /\ known' = NotReading
                  /\ UNCHANGED <<pos, search, cleared>>

IterExpand == /\ At("iter_known", "iter_trs")
              /\ known.locks = <<>>
              /\ pos < known.max
              /\ CallTrs(Walker, pos)
              /\ known' = NotReading
              /\ UNCHANGED <<pos, search, cleared>>

IterEnd == /\ At("iter_known", "iter_end")
           /\ known.locks = <<>>
           /\ pos >= known.max
           /\ known' = NotReading
           /\ UNCHANGED <<vars, pos, search, cleared>>

\* Mutant: the state is yielded again.
IterYieldAgain == /\ At("iter_trs", "iter_next")
                  /\ Taken("got_trs")
                  /\ UNCHANGED <<pos, known, search, cleared>>

IterYield == /\ At("iter_trs", "iter_next")
             /\ Taken("got_trs")
             /\ pos' = pos + 1
             /\ UNCHANGED <<known, search, cleared>>

-----------------------------------------------------------------------------
(***************************************************************************)
(* compute_bounded().                                                      *)
(***************************************************************************)
Compute == /\ At("new", "bfs_start")
           /\ CallStart(Walker)
           /\ UNCHANGED <<iterator, search, cleared>>

ComputeNoStart == /\ At("bfs_start", "bfs_ok")
                  /\ cur[Walker] = NoState
                  /\ Taken("got_start")
                  /\ UNCHANGED <<iterator, search, cleared>>

ComputeStarted == LET s == cur[Walker] IN
    /\ At("bfs_start", "bfs_pop")
    /\ s # NoState
    /\ Taken("got_start")
    /\ out' = [out EXCEPT !.states = s + 1, !.start = s]
    /\ queue' = <<s>>
    /\ visited' = {s}
    /\ UNCHANGED <<iterator, bounds, state, found, seen, num_trs, cleared>>

ComputePop == /\ At("bfs_pop", "bfs_trs")
              /\ queue # <<>>
              /\ CallTrs(Walker, Head(queue))
              /\ state' = Head(queue)
              /\ queue' = Tail(queue)
              /\ UNCHANGED <<iterator, bounds, found, seen, visited, num_trs, out,
                             cleared>>

ComputeDone == /\ At("bfs_pop", "bfs_ok")
               /\ queue = <<>>
               /\ UNCHANGED <<vars, iterator, search, cleared>>

Exceeds(n, bound) == bound # Unbounded /\ n > bound

\* num_trs is counted only when there is a bound on it.
Counted(trs) == IF bounds.trs = Unbounded THEN num_trs ELSE num_trs + Len(trs)

ComputeTrLimit == /\ At("bfs_trs", "bfs_over")
                  /\ Exceeds(Counted(arcs[Walker]), bounds.trs)
                  /\ Taken("got_trs")
                  /\ UNCHANGED <<iterator, search, cleared>>

ComputeTrs ==
    /\ At("bfs_trs", "bfs_scan")
    /\ ~ Exceeds(Counted(arcs[Walker]), bounds.trs)
    /\ Taken("got_trs")
    /\ num_trs' = Counted(arcs[Walker])
    /\ found' = arcs[Walker]
    /\ UNCHANGED <<iterator, bounds, state, seen, queue, visited, out, cleared>>

\* The destination of the next transition.
Met == found[seen + 1]

\* Mutant: a destination is queued each time it is met.
QueuedAgain(s) == Append(queue, s)

Queued(s) == IF s \in visited THEN queue ELSE Append(queue, s)

\* Mutant: the states found before this one are compared with the bound.
TooManyLate == Met \notin visited /\ Exceeds(Cardinality(visited), bounds.states)

TooMany == Met \notin visited /\ Exceeds(Cardinality(visited) + 1, bounds.states)

\* One round of the loop over the transitions of a state.
ComputeDiscover ==
    /\ at = "bfs_scan"
    /\ seen < Len(found)
    /\ ~ TooMany
    /\ queue' = Queued(Met)
    /\ visited' = visited \cup {Met}
    /\ out' = [out EXCEPT !.states = Raised(@, {Met})]
    /\ seen' = seen + 1
    /\ UNCHANGED <<vars, at, iterator, bounds, state, found, num_trs, cleared>>

ComputeStateLimit == /\ At("bfs_scan", "bfs_over")
                     /\ seen < Len(found)
                     /\ TooMany
                     /\ UNCHANGED <<vars, iterator, search, cleared>>

ComputeCopyTrs == /\ At("bfs_scan", "bfs_weight")
                  /\ seen = Len(found)
                  /\ out' = [out EXCEPT !.trs = Insert(@, state, found)]
                  /\ found' = <<>>
                  /\ seen' = 0
                  /\ UNCHANGED <<vars, iterator, bounds, state, queue, visited,
                                 num_trs, cleared>>

ComputeWeight == /\ At("bfs_weight", "bfs_final")
                 /\ CallFinal(Walker, state)
                 /\ UNCHANGED <<iterator, search, cleared>>

\* Mutant: the weight goes to the state added last.
CopyFinalToLast ==
    LET f == weight[Walker] IN
    /\ At("bfs_final", "bfs_pop")
    /\ Taken("got_final")
    /\ out' = [out EXCEPT !.finals = IF f = NoFinal THEN @
                                     ELSE Insert(@, out.states - 1, f)]
    /\ UNCHANGED <<iterator, bounds, state, found, seen, queue, visited, num_trs,
                   cleared>>

ComputeCopyFinal ==
    LET f == weight[Walker] IN
    /\ At("bfs_final", "bfs_pop")
    /\ Taken("got_final")
    /\ out' = [out EXCEPT !.finals = IF f = NoFinal THEN @ ELSE Insert(@, state, f)]
    /\ UNCHANGED <<iterator, bounds, state, found, seen, queue, visited, num_trs,
                   cleared>>

-----------------------------------------------------------------------------
Ended == {"iter_end", "iter_panic", "bfs_ok", "bfs_over", "bfs_err"}

\* A call of the traversal failed.
WalkFails == /\ Taken("failed")
             /\ at' = IF at = "iter_trs" THEN "iter_panic" ELSE "bfs_err"
             /\ UNCHANGED <<iterator, search, cleared>>

WalkStep == \/ StatesIter \/ IterReady \/ IterNext \/ IterReadKnown
            \/ IterExpand \/ IterEnd \/ IterYield
            \/ Compute \/ ComputeNoStart \/ ComputeStarted
            \/ ComputePop \/ ComputeDone \/ ComputeTrLimit \/ ComputeTrs
            \/ ComputeDiscover \/ ComputeStateLimit \/ ComputeCopyTrs
            \/ ComputeWeight \/ ComputeCopyFinal
            \/ WalkFails
            \/ Advance(Walker) /\ UNCHANGED walk

Others(t) == \/ (Request(t) \/ Advance(t) \/ Finish(t)) /\ UNCHANGED walk
             \/ /\ Clear(t)
                /\ cleared' = (cleared \/ at \notin {"new"} \cup Ended)
                /\ UNCHANGED <<at, iterator, search>>

WalkNext == WalkStep \/ \E t \in Threads \ {Walker} : Others(t)

\* Only the traversing thread has to be scheduled: a traversal needs nobody.
WalkSpec == WalkInit /\ [][WalkNext]_<<vars, walk>> /\ WF_<<vars, walk>>(WalkStep)

-----------------------------------------------------------------------------
Closed(C) == \A u \in C : Range(Succ[u]) \subseteq C

\* The machine: the least closed set that has the start tuple.
Reachable == IF origin = NoTuple
             THEN {}
             ELSE {u \in Tuples : \A C \in SUBSET Tuples :
                                    origin \in C /\ Closed(C) => u \in C}

TuplesOf(ids) == {FindTuple(table, id) : id \in ids}

\* An iteration that ends has yielded every state of the machine, although
\* the end test reads the three counters under three locks while other
\* threads insert (next() of StatesIteratorLazyFst), provided that nobody
\* cleared the cache on the way.
IterComplete == at = "iter_end" /\ ~ cleared =>
                  Reachable \subseteq TuplesOf(0 .. pos - 1)

\* The state whose transitions have been asked for and are not copied yet.
Expanding == IF at \in {"bfs_trs", "bfs_scan"} THEN {state} ELSE {}

\* compute_bounded expands a state once: what NullCache, which remembers
\* nothing, relies on ("each state's trs and final weight are requested from
\* the LazyFst exactly once", null_cache.rs).
SingleTouch ==
    at \in {"bfs_pop", "bfs_trs", "bfs_scan", "bfs_weight", "bfs_final", "bfs_ok"} =>
      /\ IsInjective(queue)
      /\ Range(queue) \cap (DOMAIN out.trs \cup Expanding) = {}
      /\ Expanding \cap DOMAIN out.trs = {}
      /\ visited = Range(queue) \cup DOMAIN out.trs \cup Expanding

\* The static FST is the machine: its states that matter are the reachable
\* tuples, one each, with all their transitions and their final weight, and
\* every transition leads to a state that was added, whoever else was filling
\* or clearing the cache meanwhile.
ComputeFaithful == at = "bfs_ok" =>
    /\ IsStart(table, origin, out.start)
    /\ TuplesOf(DOMAIN out.trs) = Reachable
    /\ \A s \in DOMAIN out.trs :
         LET tuple == FindTuple(table, s) IN
         /\ Decodes(table, tuple, out.trs[s])
         /\ Range(out.trs[s]) \subseteq DOMAIN out.trs
         /\ s < out.states
         /\ IF s \in DOMAIN out.finals
            THEN out.finals[s] = Final[tuple]
            ELSE Final[tuple] = NoFinal

\* The transitions that leave the tuples of U.
TrsFrom(U) == UNION {{u} \X DOMAIN Succ[u] : u \in U}

FewTrs == /\ IsFiniteSet(Reachable)
          /\ ~ Exceeds(Cardinality(TrsFrom(Reachable)), bounds.trs)

\* What the documentation of compute_bounded promises to accept: it aborts
\* "once more than `max_states` states or `max_trs` transitions have been
\* produced" (lazy_fst.rs:260-261).
WithinBounds == FewTrs /\ ~ Exceeds(Cardinality(Reachable), bounds.states)

\* Where the code does not do so: num_discovered is compared with max_states
\* when a destination is discovered and never for the start state, so that a
\* machine of one state gets past a bound of no states.
StartUncounted == FewTrs /\ bounds.states = 0 /\ Cardinality(Reachable) = 1

\* The search gives up exactly when the machine is larger than the bounds, but
\* for a lone start state under max_states = 0, which is always written out:
\* where the search stops does not depend on the ids other threads made it use
\* ("the same input that terminates unbounded produces byte-identical output as
\* long as neither bound is tripped").
BudgetExact == /\ at = "bfs_ok" => WithinBounds \/ StartUncounted
               /\ at = "bfs_over" => ~ WithinBounds /\ ~ StartUncounted

-----------------------------------------------------------------------------
\* What a traversal relies on at each of its steps, whatever the other threads
\* did since it began: with Inv of LazyFst, it is inductive.
TrsPcs == {"get_trs", "find_tuple", "intern", "got_trs", "failed"}
FinalPcs == {"get_final", "find_final_tuple", "insert_final", "got_final", "failed"}

\* The states 0 .. n - 1 have the start of the machine among them.
StartBelow(n) == origin # NoTuple => origin \in TuplesOf(0 .. n - 1)

\* They have the destinations of all the states yielded so far.
SuccBelow(n) == \A i \in 0 .. pos - 1 :
                  Range(Succ[FindTuple(table, i)]) \subseteq TuplesOf(0 .. n - 1)

IterInv ==
    /\ pos \in 0 .. Len(table.id_to_tuple)
    /\ known.max \in 0 .. Len(table.id_to_tuple)
    /\ DOMAIN known = {"max", "locks"}
    /\ known.locks \in {KnownStates, <<"trs", "final">>, <<"final">>, <<>>}
    /\ at \in {"new", "iter_start"} => pos = 0
    /\ at = "iter_trs" => pc[Walker] \in TrsPcs /\ cur[Walker] = pos
    /\ ~ cleared =>
         /\ at = "iter_start" /\ pc[Walker] = "got_start" => cstart.data # NotComputed
         /\ at \in {"iter_next", "iter_known", "iter_trs"} => cstart.data # NotComputed
         /\ at \in {"iter_next", "iter_known", "iter_trs"} =>
              0 .. pos - 1 \subseteq DOMAIN ctrs.data
         /\ at = "iter_trs" /\ pc[Walker] = "got_trs" => pos \in DOMAIN ctrs.data
         /\ at = "iter_known" /\ known.locks # KnownStates => StartBelow(known.max)
         /\ at = "iter_known" /\ known.locks \in {<<"final">>, <<>>} =>
              SuccBelow(known.max)
         /\ at = "iter_end" => StartBelow(pos) /\ SuccBelow(pos)

Weighing == IF at \in {"bfs_weight", "bfs_final"} THEN {state} ELSE {}
Searching == {"bfs_pop", "bfs_trs", "bfs_scan", "bfs_weight", "bfs_final"}

FinalCopied(s) == IF s \in DOMAIN out.finals
                  THEN out.finals[s] = Final[FindTuple(table, s)]
                  ELSE Final[FindTuple(table, s)] = NoFinal

\* What has been copied is the machine's, and what it leads to is queued.
CopyInv ==
    /\ DOMAIN out = DOMAIN EmptyFst
    /\ queue \in Seq(Nat)
    /\ visited \subseteq Allocated(table)
    /\ \A s \in visited : s < out.states /\ FindTuple(table, s) \in Reachable
    /\ out.states \in Nat
    /\ out.start \in visited /\ IsStart(table, origin, out.start)
    /\ \A s \in DOMAIN out.trs : /\ out.trs[s] \in Seq(Nat)
                                 /\ Decodes(table, FindTuple(table, s), out.trs[s])
                                 /\ Range(out.trs[s]) \subseteq visited
    /\ \A s \in DOMAIN out.trs \ Weighing : FinalCopied(s)
    /\ DOMAIN out.finals \subseteq DOMAIN out.trs \ Weighing

SearchInv ==
    /\ at \in {"new", "bfs_start"} =>
         out = EmptyFst /\ found = <<>> /\ seen = 0 /\ queue = <<>> /\ visited = {}
    /\ at \in Searching \cup {"bfs_ok"} /\ origin # NoTuple => CopyInv
    /\ at \in Searching => origin # NoTuple
    /\ at \in {"bfs_pop", "bfs_trs", "bfs_weight", "bfs_final"} => found = <<>> /\ seen = 0
    /\ at = "bfs_trs" => pc[Walker] \in TrsPcs /\ cur[Walker] = state
    /\ at = "bfs_scan" => /\ found \in Seq(Nat)
                          /\ Decodes(table, FindTuple(table, state), found)
                          /\ seen \in 0 .. Len(found)
                          /\ \A k \in 1 .. seen : found[k] \in visited
    /\ at \in {"bfs_weight", "bfs_final"} => state \in DOMAIN out.trs
    /\ at = "bfs_final" => pc[Walker] \in FinalPcs /\ cur[Walker] = state
    /\ at = "bfs_ok" => IF origin = NoTuple
                        THEN out = EmptyFst /\ queue = <<>> /\ visited = {}
                        ELSE queue = <<>>

WalkInv == IterInv /\ SearchInv /\ SingleTouch

\* The states whose transitions have been counted against max_trs.
CountedStates == DOMAIN out.trs \cup (IF at = "bfs_scan" THEN {state} ELSE {})

\* What has been found and copied so far is counted, and within the bounds.
BudgetInv ==
    /\ bounds \in [states : Nat \cup {Unbounded}, trs : Nat \cup {Unbounded}]
    /\ at \in {"new", "bfs_start"} => num_trs = 0
    /\ at \in Searching \cup {"bfs_ok"} /\ origin # NoTuple =>
         /\ IsFiniteSet(visited)
         /\ Exceeds(Cardinality(visited), bounds.states) => Cardinality(visited) = 1
         /\ IsFiniteSet(TrsFrom(TuplesOf(CountedStates)))
         /\ bounds.trs # Unbounded =>
              num_trs = Cardinality(TrsFrom(TuplesOf(CountedStates)))
         /\ ~ Exceeds(num_trs, bounds.trs)
    /\ at = "bfs_over" => ~ WithinBounds /\ ~ StartUncounted

-----------------------------------------------------------------------------
\* A traversal only makes calls that any client may make: it asks about
\* handed-out states (an absent one would panic under a lock), one call at a
\* time.  So whatever is shown of Spec holds while traversals run.
WalkerIsClient == Spec

\* A traversal of a finite machine ends, even if the others clear the cache
\* again and again.
WalkEnds == <>(at \in Ended)

=============================================================================
