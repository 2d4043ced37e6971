-------------------------- MODULE ShortestDistance --------------------------
(***************************************************************************)
(* The generic shortest-distance algorithm (ShortestDistanceState): from a *)
(* source state, the sum over all paths of their weights, by relaxation,   *)
(* in any right semiring and under any queue discipline.  A state may be   *)
(* kept (retain) from one source to the next, as rm_epsilon does: then the *)
(* rows a pass does not touch hold the values of an earlier pass.          *)
(*                                                                         *)
(* One action is one transition examined.  first_path, which no caller     *)
(* sets, is left out.                                                      *)
(***************************************************************************)
EXTENDS Queues, SequencesExt

CONSTANTS
    States,           \* 0 .. n-1
    Eps,              \* the label of both sides of an epsilon transition
    Semirings,        \* names of the weight types to try
    Zero(_), One(_),  \* their constants
    Plus(_, _, _),    \* Plus(w, a, b): the sum, in the weight type w
    Times(_, _, _),
    ApproxEqual(_, _, _), \* equality up to delta
    Idempotent,       \* the names of those whose properties() say IDEMPOTENT
    Fsts(_),          \* Fsts(w): machines over w, [start, trs, final]
    FilterEpsilon,    \* EpsilonTrFilter, or AnyTrFilter
    Retains,          \* the values of retain to try
    MaxPasses,        \* bound: passes of a retained state
    PathBound         \* paths of more transitions add nothing to a sum

ASSUME SDAssumption ==
    /\ IsFiniteSet(States) /\ States = 0 .. Cardinality(States) - 1
    /\ Idempotent \subseteq Semirings
    /\ Retains \subseteq BOOLEAN
    /\ MaxPasses \in Nat
    /\ PathBound \in Nat

\* Transitions lead to states of the machine.
FstTyped(m) ==
    /\ DOMAIN m = {"start", "trs", "final"} /\ DOMAIN m.trs = States
    /\ m.start \in States
    /\ \A s \in States : /\ m.trs[s] \in Seq(Range(m.trs[s]))
                         /\ \A i \in DOMAIN m.trs[s] :
                              /\ DOMAIN m.trs[s][i] = {"label", "weight", "nextstate"}
                              /\ m.trs[s][i].nextstate \in States

ASSUME FstsAssumption == \A w \in Semirings : \A m \in Fsts(w) : FstTyped(m)

VARIABLES
    semiring,     \* W
    fst,          \* the machine
    retain,
    state_queue,
    rows,         \* distance, adder, radder, enqueued and sources, by state
    source_id,    \* the number of the pass
    pc,           \* "idle", "dequeue" or "relax"
    state,        \* the state dequeued last
    r,            \* its radder, taken
    pos,          \* the transition to examine
    source,       \* of the pass
    closure       \* history: the sums the pass should find (see Closure)

vars == <<semiring, fst, retain, state_queue, rows, source_id, pc, state, r,
          pos, source, closure>>

zero == Zero(semiring)
one == One(semiring)
Add(a, b) == Plus(semiring, a, b)
Mul(a, b) == Times(semiring, a, b)

\* Mutant: every relaxation is taken for a change.
SameNever(a, b) == FALSE

Same(a, b) == ApproxEqual(semiring, a, b)

\* tr_filter.keep(tr).
Keep(tr) == FilterEpsilon => tr.label = Eps

-----------------------------------------------------------------------------
(***************************************************************************)
(* The reference: Closure(m)[p][q] is the sum of the weights of all the    *)
(* paths of kept transitions from p to q, the empty path included.         *)
(***************************************************************************)
\* weights[1] + ... + weights[Len(weights)], in the weight type w.
Total(w, weights) == FoldLeft(LAMBDA acc, x : Plus(w, acc, x), Zero(w), weights)

SumOver(seq, f(_)) == Total(semiring, [i \in DOMAIN seq |-> f(seq[i])])

\* The kept transitions of p from the k-th on, each carried on to q by what
\* `sums` has from its destination.
Carried(w, m, sums, p, k, q) ==
    [i \in DOMAIN m.trs[p] |->
       IF i >= k /\ Keep(m.trs[p][i])
       THEN Times(w, m.trs[p][i].weight, sums[m.trs[p][i].nextstate][q])
       ELSE Zero(w)]

Onward(w, m, sums, p, k, q) == Total(w, Carried(w, m, sums, p, k, q))

EmptyPath(w, p, q) == IF p = q THEN One(w) ELSE Zero(w)

\* From the sums over paths of up to n transitions, those of up to n + 1.
Longer(w, m, sums) ==
    [p \in States |-> [q \in States |->
       Plus(w, EmptyPath(w, p, q), Onward(w, m, sums, p, 1, q))]]

PathSums(w, m) ==
    LET upTo[n \in 0 .. PathBound] ==
          IF n = 0 THEN [p \in States |-> [q \in States |-> EmptyPath(w, p, q)]]
          ELSE LET shorter == upTo[n - 1] IN Longer(w, m, shorter)
    IN  upTo

Closure(m) == PathSums(semiring, m)[PathBound]

-----------------------------------------------------------------------------
(***************************************************************************)
(* AutoQueue::new.  The property bits it looks at may be set or unknown,   *)
(* so each discipline is possible whenever the facts allow it.  The order  *)
(* of the components is the one SccVisitor gives: topological.             *)
(***************************************************************************)
Steps(m) == {a \in States \X States :
               \E i \in DOMAIN m.trs[a[1]] : m.trs[a[1]][i].nextstate = a[2]}

KeptArcs(m) == {a \in States \X States :
                  \E i \in DOMAIN m.trs[a[1]] : /\ Keep(m.trs[a[1]][i])
                                               /\ m.trs[a[1]][i].nextstate = a[2]}

\* The pairs joined by a path of transitions in `arcs`.
Leads(arcs) ==
    {a \in States \X States :
       \A C \in SUBSET States :
         a[1] \in C /\ (\A b \in arcs : b[1] \in C => b[2] \in C) => a[2] \in C}

Numberings(m) ==
    LET leads == Leads(KeptArcs(m)) IN
    {n \in [States -> States] :
       /\ \A p, q \in States : n[p] = n[q] <=> {<<p, q>>, <<q, p>>} \subseteq leads
       /\ \A a \in KeptArcs(m) : n[a[1]] <= n[a[2]]
       /\ Range(n) = 0 .. Cardinality(Range(n)) - 1}

Acyclic(m) == LET leads == Leads(Steps(m)) IN \A a \in Steps(m) : <<a[2], a[1]>> \notin leads

TopSorted(m) == \A p \in States : \A i \in DOMAIN m.trs[p] : p < m.trs[p][i].nextstate

Unweighted(m) ==
    \A p \in States : \A i \in DOMAIN m.trs[p] :
      Keep(m.trs[p][i]) => semiring \in Idempotent /\ m.trs[p][i].weight \in {zero, one}

AutoQueues(m) ==
    LET numberings == Numberings(m)
        Inside(n) == {a \in KeptArcs(m) : n[a[1]] = n[a[2]]}
        Kinds(n) == [c \in Range(n) |-> IF \E a \in Inside(n) : n[a[1]] = c
                                        THEN "fifo" ELSE "trivial"]
        allTrivial == \A n \in numberings : Inside(n) = {}
    IN  (IF TopSorted(m) THEN {NewOrdered([s \in States |-> s])} ELSE {})
        \cup (IF Acyclic(m) \/ (allTrivial /\ ~ Unweighted(m))
              THEN {NewOrdered(n) : n \in numberings} ELSE {})
        \cup (IF Unweighted(m) THEN {NewList("lifo")} ELSE {})
        \cup (IF ~ allTrivial /\ ~ Unweighted(m)
              THEN {NewScc(n, Kinds(n)) : n \in numberings} ELSE {})

-----------------------------------------------------------------------------
NewRow == [distance |-> zero, adder |-> zero, radder |-> zero,
           enqueued |-> FALSE, source |-> None]

NoRows == [i \in {} |-> NewRow]

\* The vectors are long enough for s.
Ensured(rs, s) == [i \in DOMAIN rs \cup 0 .. s |-> IF i \in DOMAIN rs THEN rs[i]
                                                  ELSE NewRow]

\* Mutant: a row of an earlier pass keeps its distance.
TouchedStale(rs, s) ==
    IF retain /\ Ensured(rs, s)[s].source # source_id
    THEN [Ensured(rs, s) EXCEPT ![s] = [@ EXCEPT !.radder = zero, !.enqueued = FALSE,
                                                 !.source = source_id]]
    ELSE Ensured(rs, s)

\* Mutant: a row that starts afresh is not marked as of this pass.
TouchedUnmarked(rs, s) ==
    IF retain /\ Ensured(rs, s)[s].source # source_id
    THEN [Ensured(rs, s) EXCEPT ![s] = [NewRow EXCEPT !.source = @]]
    ELSE Ensured(rs, s)

\* In retain mode, a row of an earlier pass starts afresh.
Touched(rs, s) ==
    IF retain /\ Ensured(rs, s)[s].source # source_id
    THEN [Ensured(rs, s) EXCEPT ![s] = [NewRow EXCEPT !.source = source_id]]
    ELSE Ensured(rs, s)

\* ShortestDistanceState::new, but for the queue.
SDNew ==  /\ semiring \in Semirings
          /\ fst \in Fsts(semiring)
          /\ retain \in Retains
          /\ rows = NoRows
          /\ source_id = 0
          /\ pc = "idle"
          /\ state = None
          /\ r = zero
          /\ pos = 1
          /\ source = None
          /\ closure = <<>>

SDInit == SDNew /\ state_queue \in AutoQueues(fst)

\* shortest_distance_in_place, up to the loop.
StartPass(s) ==
    LET kept == Ensured(IF retain THEN rows ELSE NoRows, s) IN
    /\ pc = "idle"
    /\ pc' = "dequeue"
    /\ source' = s
    /\ rows' = [kept EXCEPT ![s] =
                  [distance |-> one, adder |-> one, radder |-> one, enqueued |-> TRUE,
                   source |-> IF retain THEN source_id ELSE @.source]]
    /\ state_queue' = Enqueue(Cleared(state_queue), s)
    /\ closure' = Closure(fst)
    /\ UNCHANGED <<semiring, fst, retain, source_id, state, r, pos>>

DequeueState ==
    /\ pc = "dequeue"
    /\ ~ IsEmpty(state_queue)
    /\ pc' = "relax"
    /\ state' = Dequeued(state_queue)
    /\ state_queue' = Dequeue(state_queue)
    /\ r' = rows[state'].radder
    /\ pos' = 1
    /\ rows' = [rows EXCEPT ![state'].enqueued = FALSE, ![state'].radder = zero]
    /\ UNCHANGED <<semiring, fst, retain, source_id, source, closure>>

Examined == IF pos = Len(fst.trs[state])
            THEN pc' = "dequeue" /\ pos' = 1
            ELSE pc' = pc /\ pos' = pos + 1

\* The distance of the destination does not change.
RelaxNothing ==
    LET tr == fst.trs[state][pos]
        touched == Touched(rows, tr.nextstate)
        nd == touched[tr.nextstate].distance IN
    /\ pc = "relax"
    /\ pos <= Len(fst.trs[state])
    /\ \/ ~ Keep(tr) /\ UNCHANGED rows
       \/ /\ Keep(tr)
          /\ Same(nd, Add(nd, Mul(r, tr.weight)))
          /\ rows' = touched
    /\ Examined
    /\ UNCHANGED <<semiring, fst, retain, state_queue, source_id, state, r, source,
                   closure>>

\* It does: the test is on `enqueued` of the state that was dequeued.
RelaxMore ==
    LET tr == fst.trs[state][pos]
        next == tr.nextstate
        touched == Touched(rows, next)
        weight == Mul(r, tr.weight)
        waits == touched[state].enqueued IN
    /\ pc = "relax"
    /\ pos <= Len(fst.trs[state])
    /\ Keep(tr)
    /\ ~ Same(touched[next].distance, Add(touched[next].distance, weight))
    /\ rows' = [touched EXCEPT ![next].adder = Add(@, weight),
                               ![next].distance = Add(touched[next].adder, weight),
                               ![next].radder = Add(@, weight),
                               ![next].enqueued = @ \/ ~ waits]
    /\ state_queue' = IF waits THEN state_queue ELSE Enqueue(state_queue, next)
    /\ Examined
    /\ UNCHANGED <<semiring, fst, retain, source_id, state, r, source, closure>>

\* A state without transitions.
RelaxNone == /\ pc = "relax"
             /\ fst.trs[state] = <<>>
             /\ pc' = "dequeue"
             /\ UNCHANGED <<semiring, fst, retain, state_queue, rows, source_id, state,
                            r, pos, source, closure>>

EndPass == /\ pc = "dequeue"
           /\ IsEmpty(state_queue)
           /\ pc' = "idle"
           /\ source_id' = source_id + 1
           /\ UNCHANGED <<semiring, fst, retain, state_queue, rows, state, r, pos,
                          source, closure>>

Pass == DequeueState \/ RelaxNothing \/ RelaxMore \/ RelaxNone \/ EndPass

\* shortest_distance starts once, from the start state (its own rows are moved
\* out as the answer); a retained state is started from any state, again and
\* again.
SDNext == \/ Pass
          \/ ~ retain /\ source_id = 0 /\ StartPass(fst.start)
          \/ retain /\ source_id < MaxPasses /\ \E s \in States : StartPass(s)

SDSpec == SDInit /\ [][SDNext]_vars /\ WF_vars(Pass)

-----------------------------------------------------------------------------
\* The rows of this pass.
Live == IF retain THEN {s \in DOMAIN rows : rows[s].source = source_id} ELSE DOMAIN rows

Distance(s) == IF s \in Live THEN rows[s].distance ELSE zero

\* What is not yet in the distance of q: the weights waiting at the states (the
\* i-th state is i - 1), and that of the state being expanded, carried on along
\* every path to q.
Held(q) == [i \in 1 .. Cardinality(States) |->
              IF i - 1 \in Live
              THEN Mul(rows[i - 1].radder, Onward(semiring, fst, closure, i - 1, 1, q))
              ELSE zero]

Pending(q) ==
    Add(IF pc = "relax" THEN Mul(r, Onward(semiring, fst, closure, state, pos, q)) ELSE zero,
        Total(semiring, Held(q)))

\* No weight is lost and none is counted twice, whatever the queue discipline
\* and the rows left by an earlier pass: what a state has and what is under way
\* to it always add up to the sum of all its paths.
Conserved == pc # "idle" =>
               \A q \in States : Add(Distance(q), Pending(q)) = closure[source][q]

\* A weight that waits at a state waits in the queue, and the queue answers
\* within its bounds (SccQueue and the ordered queues index vectors by ranks).
QueueFaithful ==
    /\ WellFormed(state_queue)
    /\ pc # "idle" => \A s \in Live : rows[s].radder # zero => s \in Waiting(state_queue)

\* What the passes keep of the queue and the rows.  SccQueue is right because
\* no component is enqueued before the one being expanded.
QueueReady ==
    /\ QueueInv(state_queue, States) /\ state_queue.kind # "trivial"
    /\ state_queue.kind = "scc" =>
         /\ \A a \in KeptArcs(fst) : state_queue.sccs[a[1]] <= state_queue.sccs[a[2]]
         /\ pc = "relax" => /\ state_queue.front = state_queue.sccs[state]
                            /\ state_queue.front <= state_queue.back

RowsInv ==
    /\ source_id \in Nat
    /\ DOMAIN rows \subseteq States
    /\ \A s \in DOMAIN rows : /\ DOMAIN rows[s] = DOMAIN NewRow
                             /\ rows[s].source \in None .. source_id
    /\ pc = "idle" => Waiting(state_queue) = {} /\ (retain => Live = {})
    /\ pc # "idle" => Waiting(state_queue) \subseteq Live
    /\ pc = "relax" => /\ state \in Live /\ ~ rows[state].enqueued
                       /\ pos \in 1 .. Len(fst.trs[state]) + 1

PassInv ==
    /\ semiring \in Semirings /\ FstTyped(fst) /\ retain \in BOOLEAN
    /\ pc \in {"idle", "dequeue", "relax"}
    /\ QueueReady /\ RowsInv /\ QueueFaithful

\* "The shortest distance from `p` to `q` is the +-sum of the weights of all the
\* paths between `p` and `q`" (doc of shortest_distance, which only rounds by
\* delta).
DistanceExact == pc = "idle" /\ source # None =>
    LET last == IF retain THEN {s \in DOMAIN rows : rows[s].source = source_id - 1}
                          ELSE DOMAIN rows
    IN  \A q \in States :
          Same(closure[source][q], IF q \in last THEN rows[q].distance ELSE zero)

\* A pass ends.
PassEnds == pc # "idle" ~> pc = "idle"

=============================================================================
