----------------------------- MODULE RmEpsilon -----------------------------
(***************************************************************************)
(* Removal of the epsilon transitions.  RmEpsilonState::expand computes    *)
(* the transitions and the final weight of one state as if its epsilon     *)
(* closure were gone: the shortest distances over epsilon transitions,     *)
(* kept in one ShortestDistanceState from call to call, then a walk of the *)
(* closure that multiplies them in and merges equal transitions.           *)
(*   - rm_epsilon (static) expands the states in reverse topological order *)
(*     and writes each result into the machine the next ones read;         *)
(*   - RmEpsilonOp (lazy) expands whatever state it is asked for.          *)
(*                                                                         *)
(* The symbols of both sides are one label; a final weight of zero is no   *)
(* final weight.  The pruning thresholds, which no public caller sets, are *)
(* left out.                                                               *)
(***************************************************************************)
EXTENDS ShortestDistance

CONSTANTS
    Labels,     \* the labels other than Eps
    Words       \* the label sequences on which machines are compared, with
                \* every suffix of each

ASSUME RmAssumption == /\ Eps \notin Labels
                       /\ Words \subseteq Seq(Labels)
                       /\ FilterEpsilon
                       /\ Retains = {TRUE}

VARIABLES
    mode,          \* "static" or "lazy"
    step,          \* what comes next (see the actions)
    todo,          \* static: the states still to expand, in order
    noneps_in,     \* static: the start, and what a labelled transition enters
    eps_queue,     \* the walk: states to visit, the last first
    visited,
    trs,           \* the transitions found so far
    final_weight,  \* the final weight found so far
    element_map,   \* where a transition with an element is, in which expansion
    expand_id,
    language       \* history: the words of the machine given

walk == <<eps_queue, visited, trs, final_weight, element_map, expand_id>>
rm_vars == <<vars, mode, step, todo, noneps_in, walk, language>>

-----------------------------------------------------------------------------
(***************************************************************************)
(* The reference: the weight of each word, summed over its paths from the  *)
(* start.                                                                  *)
(***************************************************************************)
OfLabel(m, p, label) == SelectSeq(m.trs[p], LAMBDA tr : tr.label = label)

SumOfStates(f(_)) == Total(semiring, [i \in 1 .. Cardinality(States) |-> f(i - 1)])

Language(m) ==
    LET longest == Max({Len(w) : w \in Words})
        from[n \in 0 .. PathBound + longest, w \in Words, p \in States] ==
          LET After(tr) ==
                IF tr.label = Eps THEN from[n - 1, w, tr.nextstate]
                ELSE IF w # <<>> /\ Head(w) = tr.label
                THEN from[n - 1, Tail(w), tr.nextstate]
                ELSE zero
          IN  Add(IF w = <<>> THEN m.final[p] ELSE zero,
                  IF n = 0 THEN zero
                  ELSE SumOver(m.trs[p], LAMBDA tr : Mul(tr.weight, After(tr))))
    IN  [w \in Words |-> from[PathBound + longest, w, m.start]]

-----------------------------------------------------------------------------
\* Mutant: the start state, which nothing may enter, is forgotten.
NonEpsInTargets(m) == {s \in States : \E p \in States : \E i \in DOMAIN m.trs[p] :
                          /\ m.trs[p][i].label # Eps
                          /\ m.trs[p][i].nextstate = s}

NonEpsIn(m) == {m.start} \cup {s \in States : \E p \in States : \E i \in DOMAIN m.trs[p] :
                                  /\ m.trs[p][i].label # Eps
                                  /\ m.trs[p][i].nextstate = s}

\* The order of expansion: the topological order of the components, reversed,
\* and the states of a component by id.
Orders(m) ==
    (IF TopSorted(m) THEN {SetToSortSeq(States, LAMBDA p, q : p > q)} ELSE {})
    \cup {SetToSortSeq(States, LAMBDA p, q : n[p] > n[q] \/ (n[p] = n[q] /\ p < q)) :
            n \in Numberings(m)}

RmInit == /\ SDNew
          /\ mode \in {"static", "lazy"}
          /\ state_queue = NewList("fifo")
          /\ step = IF mode = "static" THEN "prepare" ELSE "next"
          /\ todo = <<>>
          /\ noneps_in = {}
          /\ eps_queue = <<>>
          /\ visited = {}
          /\ trs = <<>>
          /\ final_weight = zero
          /\ element_map = [e \in {} |-> 0]
          /\ expand_id = 0
          /\ language = <<>>

-----------------------------------------------------------------------------
(***************************************************************************)
(* expand.                                                                 *)
(***************************************************************************)
Expand(s) == /\ StartPass(s)
             /\ step' = "distance"
             /\ eps_queue' = <<s>>
             /\ trs' = <<>>
             /\ final_weight' = zero
             /\ UNCHANGED <<mode, noneps_in, visited, element_map, expand_id, language>>

DistanceStep == /\ step = "distance"
                /\ Pass
                /\ step' = IF pc' = "idle" THEN "walk" ELSE step
                /\ UNCHANGED <<mode, todo, noneps_in, walk, language>>

\* distance_ref.  Past the end of the vector it panics: see DistancesFresh.
DistanceRef(s) == IF s \in DOMAIN rows THEN rows[s].distance ELSE zero

Top == eps_queue[Len(eps_queue)]

\* Mutant: last() for pop().
PoppedNot == eps_queue

Popped == SubSeq(eps_queue, 1, Len(eps_queue) - 1)

Element(tr) == [label |-> tr.label, nextstate |-> tr.nextstate]

\* Mutant: an element met in an earlier expansion is taken for one of this.
MergedAnyExpansion(acc, tr) ==
    LET e == Element(tr) IN
    IF e \in DOMAIN acc.map /\ acc.map[e][2] \in DOMAIN acc.trs
    THEN [acc EXCEPT !.trs[acc.map[e][2]].weight = Add(@, tr.weight)]
    ELSE [acc EXCEPT !.trs = Append(@, tr),
                     !.map = [f \in DOMAIN acc.map \cup {e} |->
                                IF f = e THEN <<expand_id, Len(acc.trs) + 1>> ELSE acc.map[f]]]

\* A labelled transition: added, or merged with the one of the same element.
Merged(acc, tr) ==
    LET e == Element(tr) IN
    IF e \in DOMAIN acc.map /\ acc.map[e][1] = expand_id
    THEN [acc EXCEPT !.trs[acc.map[e][2]].weight = Add(@, tr.weight)]
    ELSE [acc EXCEPT !.trs = Append(@, tr),
                     !.map = [f \in DOMAIN acc.map \cup {e} |->
                                IF f = e THEN <<expand_id, Len(acc.trs) + 1>> ELSE acc.map[f]]]

\* A transition of the state popped, weighed: the destination of an epsilon waits
\* to be visited.
ExamineTr(acc, tr) ==
    IF ~ Keep(tr) THEN Merged(acc, [tr EXCEPT !.weight = Mul(DistanceRef(Top), @)])
    ELSE IF tr.nextstate \in visited \cup {Top} THEN acc
    ELSE [acc EXCEPT !.queue = Append(@, tr.nextstate)]

WalkVisited == /\ step = "walk"
               /\ eps_queue # <<>>
               /\ Top \in visited
               /\ eps_queue' = Popped
               /\ UNCHANGED <<vars, mode, step, todo, noneps_in, visited, trs,
                              final_weight, element_map, expand_id, language>>

WalkState ==
    LET found == FoldLeft(ExamineTr, [queue |-> Popped, trs |-> trs, map |-> element_map],
                          fst.trs[Top]) IN
    /\ step = "walk"
    /\ eps_queue # <<>>
    /\ Top \notin visited
    /\ visited' = visited \cup {Top}
    /\ eps_queue' = found.queue
    /\ trs' = found.trs
    /\ element_map' = found.map
    /\ final_weight' = Add(final_weight, Mul(DistanceRef(Top), fst.final[Top]))
    /\ UNCHANGED <<vars, mode, step, todo, noneps_in, expand_id, language>>

WalkEnd == /\ step = "walk"
           /\ eps_queue = <<>>
           /\ step' = "expanded"
           /\ visited' = {}
           /\ expand_id' = expand_id + 1
           /\ UNCHANGED <<vars, mode, todo, noneps_in, eps_queue, trs, final_weight,
                          element_map, language>>

-----------------------------------------------------------------------------
(***************************************************************************)
(* rm_epsilon.                                                             *)
(***************************************************************************)
Prepare == /\ step = "prepare"
           /\ step' = "next"
           /\ noneps_in' = NonEpsIn(fst)
           /\ language' = Language(fst)
           /\ state_queue' \in AutoQueues(fst)
           /\ todo' \in Orders(fst)
           /\ UNCHANGED <<semiring, fst, retain, rows, source_id, pc, state, r, pos,
                          source, closure, mode, walk>>

ExpandNext == /\ mode = "static" /\ step = "next"
              /\ todo # <<>>
              /\ Head(todo) \in noneps_in
              /\ Expand(Head(todo))
              /\ UNCHANGED todo

SkipNext == /\ mode = "static" /\ step = "next"
            /\ todo # <<>>
            /\ Head(todo) \notin noneps_in
            /\ todo' = Tail(todo)
            /\ UNCHANGED <<vars, mode, step, noneps_in, walk, language>>

Replace == /\ mode = "static" /\ step = "expanded"
           /\ fst' = [fst EXCEPT !.trs[Head(todo)] = Reverse(trs),
                                 !.final[Head(todo)] = final_weight]
           /\ todo' = Tail(todo)
           /\ step' = "next"
           /\ UNCHANGED <<semiring, retain, state_queue, rows, source_id, pc, state, r,
                          pos, source, closure, mode, noneps_in, walk, language>>

DeleteTrs == /\ mode = "static" /\ step = "next"
             /\ todo = <<>>
             /\ fst' = [fst EXCEPT !.trs = [s \in States |-> IF s \in noneps_in THEN @[s]
                                                            ELSE <<>>]]
             /\ step' = "connect"
             /\ UNCHANGED <<semiring, retain, state_queue, rows, source_id, pc, state, r,
                            pos, source, closure, mode, todo, noneps_in, walk, language>>

\* connect, by its result: the states that are not on a path from the start to
\* a final state lose their transitions, and the transitions to them go.
Useful(m) ==
    LET leads == Leads(Steps(m)) IN
    {s \in States : /\ <<m.start, s>> \in leads
                    /\ \E q \in States : <<s, q>> \in leads /\ m.final[q] # zero}

Connect == LET useful == Useful(fst) IN
           /\ mode = "static" /\ step = "connect"
           /\ fst' = [fst EXCEPT
                !.trs = [s \in States |-> IF s \in useful
                           THEN SelectSeq(@[s], LAMBDA tr : tr.nextstate \in useful)
                           ELSE <<>>],
                !.final = [s \in States |-> IF s \in useful THEN @[s] ELSE zero]]
           /\ step' = "done"
           /\ UNCHANGED <<semiring, retain, state_queue, rows, source_id, pc, state, r,
                          pos, source, closure, mode, todo, noneps_in, walk, language>>

(***************************************************************************)
(* compute_trs_and_final_weight of RmEpsilonOp.                            *)
(***************************************************************************)
Compute(s) == /\ mode = "lazy" /\ step = "next"
              /\ source_id < MaxPasses
              /\ Expand(s)
              /\ UNCHANGED todo

Answer == /\ mode = "lazy" /\ step = "expanded"
          /\ trs' = Reverse(trs)
          /\ step' = "next"
          /\ UNCHANGED <<vars, mode, todo, noneps_in, eps_queue, visited, final_weight,
                         element_map, expand_id, language>>

-----------------------------------------------------------------------------
Expanding == DistanceStep \/ WalkVisited \/ WalkState \/ WalkEnd

RmNext == \/ Expanding
          \/ Prepare \/ ExpandNext \/ SkipNext \/ Replace \/ DeleteTrs \/ Connect
          \/ \E s \in States : Compute(s)
          \/ Answer

\* expand() is sequential code: it goes on until it returns.
RmSpec == RmInit /\ [][RmNext]_rm_vars /\ WF_rm_vars(Expanding)

-----------------------------------------------------------------------------
\* The walk reads only distances of this expansion: past the end of the vector
\* distance_ref panics, and a row of an earlier source would be a stale value
\* ("in retain mode, untouched entries hold stale values from earlier
\* sources", shortest_distance.rs).
DistancesFresh == step = "walk" /\ eps_queue # <<>> =>
    /\ Top \in DOMAIN rows
    /\ rows[Top].source = source_id - 1

\* What the transitions of ts with the element e weigh together.
ElementSum(ts, e) ==
    SumOver(ts, LAMBDA tr : IF Element(tr) = e THEN tr.weight ELSE zero)

\* An expansion answers the sums over the epsilon closure of the state, one
\* transition for each label and destination, whatever was expanded before:
\* the distances, the visited marks and the element map outlive it.
ExpandExact == step = "expanded" =>
    /\ \A i, j \in DOMAIN trs : Element(trs[i]) = Element(trs[j]) => i = j
    /\ \A label \in Labels, q \in States :
         LET e == [label |-> label, nextstate |-> q] IN
         ElementSum(trs, e)
         = SumOfStates(LAMBDA p : Mul(closure[source][p], ElementSum(fst.trs[p], e)))
    /\ final_weight = SumOfStates(LAMBDA p : Mul(closure[source][p], fst.final[p]))

\* "The result will be an equivalent FST that has no such epsilon transitions"
\* (doc of rm_epsilon): the machine keeps the weight of every word at every
\* step of its rewriting, each state being expanded from a machine of which
\* some states are already rewritten.
LanguageKept ==
    /\ mode = "static" /\ step \in {"next", "connect", "done"} => Language(fst) = language
    /\ step = "done" => \A s \in States, l \in {Eps} : OfLabel(fst, s, l) = <<>>

\* An expansion ends, although the epsilon closure may be cyclic.
ExpandEnds == step = "distance" ~> step = "expanded"

=============================================================================
