------------------------------ MODULE PathOps ------------------------------
(***************************************************************************)
(* The algorithms that keep the best paths (prune.rs, shortest_path.rs),   *)
(* distances between all states (all_pairs_shortest_distance.rs) and the   *)
(* comparison of machines up to the numbers of their states                *)
(* (isomorphic.rs), all over weights that are numbers.                     *)
(***************************************************************************)
EXTENDS StructureOps
LOCAL INSTANCE SequencesExt

(* Acceptors are determinized with the sum for common divisor. *)
Det == INSTANCE DeterminizeOps WITH CommonDivisor <- Plus, MergeBeforeDivisor <- TRUE

Least(ws) == CHOOSE w \in ws : \A v \in ws : w <= v
---------------------------------------------------------------------------
NaturalLess(a, b) == Plus(a, b) = a /\ a # b

Prune(f, threshold) ==
  LET fdist == Distances(f, TRUE)
      idist == Distances(f, FALSE)
      limit == Times(fdist[f.start], threshold)
      far(w) == NaturalLess(limit, w)
      cut(g, s) ==
        LET h == IF f.final[s] # None /\ far(Times(idist[s], f.final[s]))
                 THEN SetFinal(g, s, None) ELSE g
        IN  AddTrs(DeleteTrs(h, s), s,
                   SelectSeq(f.trs[s], LAMBDA t :
                     ~far(Times(Times(idist[s], t.w), fdist[t.ns]))))
  IN  IF StatesOf(f) = {} THEN f
      ELSE IF f.start = None \/ fdist[f.start] = Zero THEN DelAllStates(f)
      ELSE Connect(FoldLeft(cut, f, Upto(NumStates(f))))

---------------------------------------------------------------------------
(* single_shortest_path: relaxation from the start state, whatever state   *)
(* the queue gives first; parent is the state and transition a distance    *)
(* comes from.                                                             *)

QueueOrders == {"fifo", "lifo", "least"}
NextOf(order, queue) ==
  CASE order = "fifo" -> 1
    [] order = "lifo" -> Len(queue)
    [] order = "least" -> CHOOSE i \in DOMAIN queue : \A j \in DOMAIN queue : queue[i] <= queue[j]

Relax(f, s, v, i) ==
  LET t == f.trs[s][i]
      w == Times(v.sd, t.w)
  IN  IF Plus(v.dist[t.ns], w) = v.dist[t.ns] THEN v
      ELSE [v EXCEPT !.dist[t.ns] = Plus(@, w), !.parent[t.ns] = <<s, i>>,
                     !.queue = IF Contains(@, t.ns) THEN @ ELSE Append(@, t.ns)]

RECURSIVE Relaxed(_, _, _)
Relaxed(f, order, v) ==
  IF v.queue = <<>> THEN v
  ELSE LET at == NextOf(order, v.queue)
           s == v.queue[at]
           total == Times(v.dist[s], OrZero(f.final[s]))
           better == Plus(v.fdist, total) # v.fdist
           taken == [v EXCEPT !.queue = RemoveAt(@, at), !.sd = v.dist[s],
                              !.fdist = IF better THEN total ELSE @,
                              !.fparent = IF better THEN s ELSE @]
       IN  Relaxed(f, order, FoldLeft(LAMBDA u, i : Relax(f, s, u, i), taken,
                                      [i \in DOMAIN f.trs[s] |-> i]))
SingleShortestPath(f, order) ==
  LET none == [fparent |-> None, parent |-> <<>>]
  IN  IF f.start = None THEN none
      ELSE Relaxed(f, order,
             [dist |-> [s \in StatesOf(f) |-> IF s = f.start THEN One ELSE Zero],
              parent |-> [s \in StatesOf(f) |-> <<>>], queue |-> <<f.start>>,
              sd |-> One, fdist |-> Zero, fparent |-> None])

(* The chain of parents, from the best final state to the start state, as  *)
(* a machine whose last state is the start.                                *)
RECURSIVE Chain(_, _)
Chain(parent, s) ==
  <<s>> \o (IF parent[s] = <<>> THEN <<>> ELSE Chain(parent, parent[s][1]))
Linked(f, parent, chain) ==
  LET link(g, k) ==
        IF k = 1
        THEN IF f.final[chain[1]] = None THEN g ELSE SetFinal(g, 0, f.final[chain[1]])
        ELSE AddTr(g, k - 1, [f.trs[chain[k]][parent[chain[k - 1]][2]] EXCEPT !.ns = k - 2])
  IN  FoldLeft(LAMBDA g, k : link(AddState(g), k), NewFst, [k \in DOMAIN chain |-> k])
PathProperties(f, tree) == SetProperties(f, ShortestPathProperties(f.props, tree))
Backtrace(f, v) ==
  IF v.fparent = None THEN PathProperties(NewFst, TRUE)
  ELSE LET chain == Chain(v.parent, v.fparent)
       IN  PathProperties(SetStart(Linked(f, v.parent, chain), Len(chain) - 1), TRUE)

---------------------------------------------------------------------------
(* n_shortest_path on the reversed machine: partial paths are taken from a *)
(* heap by their weight with the distance still to go, complete ones last  *)
(* among equals.  pairs gives the reversed state (None for a complete      *)
(* path) and the weight of each state of the result; a reversed state is   *)
(* expanded at most n times.                                               *)

Estimate(dist, p) == Times(IF p[1] = None THEN One ELSE dist[p[1]], p[2])
HeapLess(dist, p, q) ==
  LET wp == Estimate(dist, p)
      wq == Estimate(dist, q)
  IN  \/ NaturalLess(wq, wp)
      \/ p[1] = None /\ q[1] # None /\ wp = wq

(* The heap, in a vector, the children of place k at 2k and 2k + 1; what   *)
(* sinks also changes places with its equal.                               *)
Under(dist, v, j, k) ==
  HeapLess(dist, v.pairs[v.heap[j] + 1], v.pairs[v.heap[k] + 1])
Exchange(v, j, k) == [v EXCEPT !.heap[j] = v.heap[k], !.heap[k] = v.heap[j]]
RECURSIVE SiftUp(_, _, _)
SiftUp(dist, v, k) ==
  IF k > 1 /\ Under(dist, v, k \div 2, k)
  THEN SiftUp(dist, Exchange(v, k \div 2, k), k \div 2) ELSE v
RECURSIVE SiftDown(_, _, _)
SiftDown(dist, v, k) ==
  LET n == Len(v.heap)
      child == IF 2 * k < n /\ Under(dist, v, 2 * k, 2 * k + 1) THEN 2 * k + 1 ELSE 2 * k
  IN  IF 2 * k > n \/ Under(dist, v, child, k) THEN v
      ELSE SiftDown(dist, Exchange(v, child, k), child)
HeapPush(dist, v, s) ==
  SiftUp(dist, [v EXCEPT !.heap = Append(@, s)], Len(v.heap) + 1)
HeapPop(dist, v) ==
  LET n == Len(v.heap)
      rest == SubSeq(v.heap, 1, n - 1)
  IN  IF n = 1 THEN [v EXCEPT !.heap = <<>>]
      ELSE SiftDown(dist, [v EXCEPT !.heap = [rest EXCEPT ![1] = v.heap[n]]], 1)

Grow(dist, v, from, t, q, w) ==
  LET n == NumStates(v.out)
  IN  HeapPush(dist, [v EXCEPT !.out = AddTr(AddState(@), n, [t EXCEPT !.ns = from]),
                               !.pairs = Append(@, <<q, w>>)], n)

RECURSIVE BestFirst(_, _, _, _)
BestFirst(r, dist, n, v) ==
  LET top == v.heap[1]
      p == v.pairs[top + 1]
      seen == v.seen[p[1]] + 1
      popped == [HeapPop(dist, v) EXCEPT !.seen[p[1]] = seen,
                          !.out = IF p[1] = None THEN AddTr(@, 0, EpsTr(One, top)) ELSE @]
      final(u) == IF OrZero(r.final[p[1]]) = Zero THEN u
                  ELSE Grow(dist, u, top, EpsTr(r.final[p[1]], 0), None,
                            Times(p[2], r.final[p[1]]))
      expanded == final(FoldLeft(LAMBDA u, t : Grow(dist, u, top, t, t.ns, Times(p[2], t.w)),
                                 popped, r.trs[p[1]]))
  IN  IF v.heap = <<>> \/ (p[1] = None /\ seen = n) THEN
        (IF v.heap = <<>> THEN v ELSE popped).out
      ELSE BestFirst(r, dist, n, IF seen > n \/ p[1] = None THEN popped ELSE expanded)

NShortestPath(r, dist, n) ==
  IF r.start = None \/ dist[r.start] = Zero THEN NewFst
  ELSE PathProperties(Connect(BestFirst(r, dist, n,
         [out |-> SetFinal(SetStart(AddStates(NewFst, 2), 0), 1, One),
          pairs |-> << <<None, Zero>>, <<r.start, One>> >>, heap |-> <<1>>,
          seen |-> [q \in StatesOf(r) \cup {None} |-> 0]])), FALSE)

(* shortest_path_with_config.  unique determinizes the reversed machine,   *)
(* whose distances the state table computes with the subsets.              *)
ReversedDistances(f) ==
  LET dist == Distances(f, FALSE)
  IN  [q \in 0..NumStates(f) |->
         IF q > 0 THEN dist[q - 1]
         ELSE Least({Zero} \cup {Times(f.final[s], dist[s]) : s \in Finals(f)})]
OutDist(found, dist) ==
  [k \in 0..Len(found) - 1 |->
     Least({Zero} \cup {Times(found[k+1].weights[q], dist[q]) :
                          q \in DOMAIN found[k+1].weights})]
DeterminizeWithDistance(r, dist, max) ==
  [fst |-> Det!DeterminizeFsa(r, Det!AtMost(max)),
   dist |-> OutDist(Det!AllSubsets(r, Det!AtMost(max)).known, dist)]
UniquePaths(r, dist, n, max) ==
  LET det == DeterminizeWithDistance(r, dist, max) IN NShortestPath(det.fst, det.dist, n)
ShortestPath(f, n, unique, order, max) ==
  IF n = 0 THEN NewFst
  ELSE IF n = 1 THEN Backtrace(f, SingleShortestPath(f, order))
  ELSE IF unique THEN UniquePaths(ReverseFst(f), ReversedDistances(f), n, max)
  ELSE NShortestPath(ReverseFst(f), ReversedDistances(f), n)

---------------------------------------------------------------------------
(* all_pairs_shortest_distance: the star of a tropical weight is One.      *)

AllPairs(f) ==
  LET d0 == [s, t \in StatesOf(f) |->
               Least({Zero} \cup {Arc(f, a).w : a \in {b \in Arcs(f) :
                                    b[1] = s /\ Arc(f, b).ns = t}})]
      star == One
      through(d, k) ==
        [s, t \in StatesOf(f) |->
           CASE s # k /\ t # k -> Plus(d[s, t], Times(Times(d[s, k], star), d[k, t]))
             [] s = k /\ t # k -> Times(star, d[k, t])
             [] s # k /\ t = k -> Times(d[s, k], star)
             [] OTHER -> star]
  IN  FoldLeft(through, d0, Upto(NumStates(f)))

---------------------------------------------------------------------------
(* isomorphic: pairs of states in breadth-first order, transitions matched *)
(* in the order of labels, weight and next state.  The answer is "error"   *)
(* when a mismatch comes after transitions that other orders could match.  *)

IsoKey(t) == ((100 * t.il + t.ol) * (Zero + 1) + t.w) * 10 + t.ns
SameLabels(t, u) == t.il = u.il /\ t.ol = u.ol /\ t.w = u.w

PairState(v, s1, s2) ==
  IF v.pairs[s1] = s2 THEN v
  ELSE IF v.pairs[s1] # None THEN [v EXCEPT !.ok = FALSE]
  ELSE [v EXCEPT !.pairs[s1] = s2, !.queue = Append(@, <<s1, s2>>)]

IsoState(f, g, v, s1, s2) ==
  LET a == StableSort(f.trs[s1], IsoKey)
      b == StableSort(g.trs[s2], IsoKey)
      match(u, i) ==
        LET paired == PairState(u, a[i].ns, b[i].ns)
        IN  IF ~u.ok THEN u
            ELSE IF ~SameLabels(a[i], b[i]) THEN [u EXCEPT !.ok = FALSE]
            ELSE IF paired.ok /\ i > 1 /\ SameLabels(a[i], a[i - 1])
            THEN [paired EXCEPT !.nondet = TRUE] ELSE paired
  IN  IF f.final[s1] # g.final[s2] \/ Len(a) # Len(b) THEN [v EXCEPT !.ok = FALSE]
      ELSE FoldLeft(match, v, [i \in DOMAIN a |-> i])

RECURSIVE IsoRun(_, _, _)
IsoRun(f, g, v) ==
  IF v.queue = <<>> THEN "yes"
  ELSE LET u == IsoState(f, g, [v EXCEPT !.queue = Tail(@)], v.queue[1][1], v.queue[1][2])
       IN  IF u.ok THEN IsoRun(f, g, u) ELSE IF u.nondet THEN "error" ELSE "no"
Isomorphic(f, g) ==
  IF f.start = None /\ g.start = None THEN "yes"
  ELSE IF f.start = None \/ g.start = None THEN "no"
  ELSE IsoRun(f, g, PairState([pairs |-> [s \in StatesOf(f) |-> None], queue |-> <<>>,
                               nondet |-> FALSE, ok |-> TRUE], f.start, g.start))
=============================================================================
