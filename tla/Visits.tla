------------------------------- MODULE Visits -------------------------------
(***************************************************************************)
(* The depth-first visit of a machine (dfs_visit.rs) and the visitors that *)
(* run on it: strongly connected components with their coaccessibility and *)
(* the bits they answer (scc_visitors.rs), accessibility (connect.rs) and  *)
(* the topological order (top_sort.rs).                                    *)
(*                                                                         *)
(* The visit is the sequence of the calls it makes to its visitor; a       *)
(* visitor is a fold over it.                                              *)
(***************************************************************************)
EXTENDS FstProperties
LOCAL INSTANCE SequencesExt

(* One iteration of the loops of dfs_visit.  The stack holds states with   *)
(* the index of their current transition.                                  *)
DfsInit(f) ==
  [color |-> [s \in StatesOf(f) |-> "White"], stack |-> <<>>, calls |-> <<>>,
   root |-> f.start]

Visited(d, s, root, calls) ==
  [d EXCEPT !.color[s] = "Grey", !.stack = Append(@, <<s, 1>>), !.root = root,
            !.calls = @ \o calls \o <<[call |-> "init_state", s |-> s, t |-> root]>>]

DfsStep(f, d) ==
  LET n == Len(d.stack)
      s == d.stack[n][1]
      i == d.stack[n][2]
      white == {q \in StatesOf(f) : d.color[q] = "White"}
      next == f.trs[s][i].ns
      called(c) == [call |-> c, s |-> s, t |-> next]
  IN  IF n = 0
      THEN LET root == IF d.calls = <<>> THEN f.start
                       ELSE CHOOSE q \in white : \A r \in white : q <= r
           IN  Visited(d, root, root, <<>>)
      ELSE IF i > Len(f.trs[s])
      THEN LET parent == IF n = 1 THEN None ELSE d.stack[n-1][1]
               below == [k \in 1..n-1 |-> IF k < n - 1 THEN d.stack[k]
                                          ELSE <<d.stack[k][1], d.stack[k][2] + 1>>]
           IN  [d EXCEPT !.color[s] = "Black", !.stack = below,
                         !.calls = Append(@, [call |-> "finish_state", s |-> s,
                                              t |-> parent])]
      ELSE IF d.color[next] = "White"
      THEN Visited(d, next, d.root, <<called("tree_tr")>>)
      ELSE [d EXCEPT !.stack[n][2] = @ + 1,
                     !.calls = Append(@, called(IF d.color[next] = "Grey"
                                                THEN "back_tr"
                                                ELSE "forward_or_cross_tr"))]

RECURSIVE DfsRun(_, _)
DfsRun(f, d) ==
  IF d.stack = <<>> /\ (\A s \in StatesOf(f) : d.color[s] # "White")
  THEN d.calls ELSE DfsRun(f, DfsStep(f, d))

(* Without a start state nothing is visited. *)
DfsVisit(f) == IF f.start = None THEN <<>> ELSE DfsRun(f, DfsInit(f))

---------------------------------------------------------------------------
(* SccVisitor: Tarjan's algorithm.  scc holds the component numbers before *)
(* finish_visit reverses them.                                             *)

SccNew(f) ==
  LET all(v) == [s \in StatesOf(f) |-> v]
  IN  [df |-> all(-1), low |-> all(-1), coaccess |-> all(FALSE), scc |-> all(-1),
       stack |-> <<>>, visited |-> 0, nscc |-> 0,
       props |-> {"ACYCLIC", "INITIAL_ACYCLIC", "ACCESSIBLE", "COACCESSIBLE"}]

Answer(v, yes, no) == [v EXCEPT !.props = (@ \cup {no}) \ {yes}]
Smaller(a, b) == IF a < b THEN a ELSE b
OnStack(v, s) == \E i \in DOMAIN v.stack : v.stack[i] = s

SccInitState(f, v, s, root) ==
  LET w == [v EXCEPT !.df[s] = v.visited, !.low[s] = v.visited,
                     !.stack = Append(@, s), !.visited = @ + 1]
  IN  IF root = f.start THEN w ELSE Answer(w, "ACCESSIBLE", "NOT_ACCESSIBLE")

SccBackTr(f, v, s, t) ==
  LET w == Answer([v EXCEPT !.low[s] = Smaller(@, v.df[t]),
                            !.coaccess[s] = @ \/ v.coaccess[t]],
                  "ACYCLIC", "CYCLIC")
  IN  IF t = f.start THEN Answer(w, "INITIAL_ACYCLIC", "INITIAL_CYCLIC") ELSE w

\* Mutant: a closed component lowers the lowlink too.
SccCrossTrClosed(v, s, t) ==
  [v EXCEPT !.low[s] = Smaller(@, v.df[t]), !.coaccess[s] = @ \/ v.coaccess[t]]
SccCrossTr(v, s, t) ==
  [v EXCEPT !.low[s] = IF v.df[t] < v.df[s] /\ OnStack(v, t)
                       THEN Smaller(@, v.df[t]) ELSE @,
            !.coaccess[s] = @ \/ v.coaccess[t]]

(* A state whose lowlink is its own number closes the component of the     *)
(* states above it on the stack.                                           *)
SccClose(v, members, useful) ==
  [v EXCEPT !.stack = SelectSeq(@, LAMBDA t : t \notin members), !.nscc = @ + 1,
            !.scc = [t \in DOMAIN @ |-> IF t \in members THEN v.nscc ELSE @[t]],
            !.coaccess = [t \in DOMAIN @ |-> @[t] \/ (useful /\ t \in members)],
            !.props = IF useful THEN @
                      ELSE (@ \cup {"NOT_COACCESSIBLE"}) \ {"COACCESSIBLE"}]
SccFinish(v, s, at) ==
  LET members == {v.stack[i] : i \in at..Len(v.stack)}
  IN  IF v.df[s] # v.low[s] THEN v
      ELSE SccClose(v, members, \E t \in members : v.coaccess[t])
SccToParent(v, s, parent) ==
  IF parent = None THEN v
  ELSE [v EXCEPT !.coaccess[parent] = @ \/ v.coaccess[s],
                 !.low[parent] = Smaller(@, v.low[s])]
SccFinishState(f, v, s, parent) ==
  SccToParent(SccFinish([v EXCEPT !.coaccess[s] = @ \/ f.final[s] # None], s,
                        CHOOSE i \in DOMAIN v.stack : v.stack[i] = s),
              s, parent)

SccCall(f, v, c) ==
  CASE c.call = "init_state" -> SccInitState(f, v, c.s, c.t)
    [] c.call = "tree_tr" -> v
    [] c.call = "back_tr" -> SccBackTr(f, v, c.s, c.t)
    [] c.call = "forward_or_cross_tr" -> SccCrossTr(v, c.s, c.t)
    [] c.call = "finish_state" -> SccFinishState(f, v, c.s, c.t)

SccFinishVisit(v) == [v EXCEPT !.scc = [s \in DOMAIN @ |-> v.nscc - 1 - @[s]]]
SccVisit(f) ==
  SccFinishVisit(FoldLeft(LAMBDA acc, c : SccCall(f, acc, c), SccNew(f), DfsVisit(f)))

(* ConnectVisitor keeps, of what SccVisitor keeps, the coaccessible states *)
(* and adds the states visited from the start state.                       *)
ConnectAccess(f) ==
  LET calls == DfsVisit(f)
  IN  {calls[i].s : i \in {j \in DOMAIN calls :
         calls[j].call = "init_state" /\ calls[j].t = f.start}}

(* TopOrderVisitor: the reverse of the order in which states finish. *)
TopOrder(f) ==
  LET calls == DfsVisit(f)
      finish == SelectSeq(calls, LAMBDA c : c.call = "finish_state")
      n == Len(finish)
  IN  [acyclic |-> \A i \in DOMAIN calls : calls[i].call # "back_tr",
       order |-> [s \in {finish[i].s : i \in 1..n} |->
                    n - (CHOOSE i \in 1..n : finish[i].s = s)]]
=============================================================================
