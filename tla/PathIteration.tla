--------------------------- MODULE PathIteration ---------------------------
(***************************************************************************)
(* Paths as the words they read and write and their weight (fst_path.rs):  *)
(* all those of a machine without cycles, in breadth-first order, whether  *)
(* a machine has a given one, the linear machine of one; and random paths  *)
(* of a machine (algorithms/randgen).                                      *)
(***************************************************************************)
EXTENDS StaticOps
LOCAL INSTANCE SequencesExt

CONSTANT MinusLog(_, _)   \* the weight of so many samples among so many

EmptyPath == [i |-> <<>>, o |-> <<>>, w |-> One]
AddLabel(word, l) == IF l = Eps THEN word ELSE Append(word, l)
AddToPath(x, t) == [i |-> AddLabel(x.i, t.il), o |-> AddLabel(x.o, t.ol), w |-> Times(x.w, t.w)]

(* A queue of states with the paths to them: a final state gives its path, *)
(* after its successors are in the queue.                                  *)
RECURSIVE PathsOfQueue(_, _)
PathsOfQueue(f, queue) ==
  IF queue = <<>> THEN <<>>
  ELSE LET s == Head(queue).state
           x == Head(queue).path
           longer == [k \in DOMAIN f.trs[s] |->
                        [state |-> f.trs[s][k].ns, path |-> AddToPath(x, f.trs[s][k])]]
           given == IF f.final[s] = None THEN <<>> ELSE <<[x EXCEPT !.w = Times(@, f.final[s])]>>
       IN  given \o PathsOfQueue(f, Tail(queue) \o longer)
PathsIter(f) ==
  IF f.start = None THEN <<>>
  ELSE PathsOfQueue(f, <<[state |-> f.start, path |-> EmptyPath]>>)

(* check_path_in_fst: i and o labels of the path are read so far.  The next *)
(* output label is looked up by the number of input labels; past the end   *)
(* of the output word that is a panic.                                     *)
NextIs(word, at, l) == at < Len(word) /\ l = word[at + 1]
OutputAt(x, v) == IF v.o < Len(x.o) THEN v.i ELSE v.o
Panics(f, x, v) == f.trs[v.state] # <<>> /\ v.o < Len(x.o) /\ OutputAt(x, v) >= Len(x.o)
Steps(f, x, v) ==
  LET matches(t) == /\ t.il = Eps \/ NextIs(x.i, v.i, t.il)
                    /\ t.ol = Eps \/ NextIs(x.o, OutputAt(x, v), t.ol)
      ts == SelectSeq(f.trs[v.state], matches)
  IN  [k \in DOMAIN ts |->
         [state |-> ts[k].ns, w |-> Times(v.w, ts[k].w),
          i |-> v.i + (IF ts[k].il = Eps THEN 0 ELSE 1),
          o |-> v.o + (IF ts[k].ol = Eps THEN 0 ELSE 1)]]
Accepted(f, x, v) ==
  /\ v.i >= Len(x.i) /\ v.o >= Len(x.o)
  /\ f.final[v.state] # None /\ Times(v.w, f.final[v.state]) = x.w
RECURSIVE CheckQueue(_, _, _)
CheckQueue(f, x, queue) ==
  IF queue = <<>> THEN FALSE
  ELSE IF Accepted(f, x, Head(queue)) THEN TRUE
  ELSE IF Panics(f, x, Head(queue)) THEN Err
  ELSE CheckQueue(f, x, Tail(queue) \o Steps(f, x, Head(queue)))
CheckPathInFst(f, x) ==
  IF f.start = None THEN x = EmptyPath
  ELSE CheckQueue(f, x, <<[state |-> f.start, i |-> 0, o |-> 0, w |-> One]>>)

(* The linear machine of a path, the shorter word filled up with epsilons; *)
(* and the path of a linear machine, the empty one when it has none.       *)
LabelAt(word, k) == IF k \in DOMAIN word THEN word[k] ELSE Eps
Linear(n, TrAt(_), w) ==
  LET grown == FoldLeft(LAMBDA g, k : AddTr(AddState(g), k, TrAt(k + 1)),
                        SetStart(AddState(NewFst), 0), Upto(n))
  IN  SetFinal(grown, n, w)
Transducer(x) ==
  Linear(IF Len(x.i) >= Len(x.o) THEN Len(x.i) ELSE Len(x.o),
         LAMBDA k : [il |-> LabelAt(x.i, k), ol |-> LabelAt(x.o, k), w |-> One, ns |-> k], x.w)
Acceptor(word, w) ==
  Linear(Len(word), LAMBDA k : [il |-> word[k], ol |-> word[k], w |-> One, ns |-> k], w)
DecodeLinearFst(f) ==
  LET paths == PathsIter(f)
  IN  CASE paths = <<>> -> EmptyPath
        [] Len(paths) = 1 -> paths[1]
        [] OTHER -> Err

(***************************************************************************)
(* Random paths.  A delayed machine, a tree, samples the transitions of a  *)
(* state as often as the state itself was sampled, the final weight being  *)
(* one more choice; it is the result when the paths are counted by weights,*)
(* and otherwise a depth-first visit copies its paths one by one.          *)
(*                                                                         *)
(* A configuration is [npath, maxLength, weighted, removeTotal].  What the *)
(* random generator answers is any answer: results are sets of machines.   *)
(***************************************************************************)
RandState(s, nsamples, length) == [s |-> s, nsamples |-> nsamples, length |-> length]
Superfinal == RandState(None, 0, 0)

(* TrSampler::sample: how often each choice is taken. *)
Selectable(f, s) ==
  DOMAIN f.trs[s] \cup (IF f.final[s] = None THEN {} ELSE {Len(f.trs[s]) + 1})
Samples(f, r, maxLength) ==
  IF r = Superfinal THEN {<<>>}
  ELSE IF Selectable(f, r.s) = {} \/ r.length = maxLength THEN {<<>>}
  ELSE {c \in [Selectable(f, r.s) -> 0..r.nsamples] :
          MapThenSumSet(LAMBDA p : c[p], DOMAIN c) = r.nsamples}

(* compute_trs_and_final_weight: a new state for each transition taken; the *)
(* final weight counts, or is a transition for each time it was taken, to  *)
(* one state for all.                                                      *)
TakeTr(conf, g, r, t, n) ==
  [g EXCEPT !.table = Append(@, RandState(t.ns, n, r.length + 1)),
            !.out = Append(@, [t EXCEPT !.ns = Len(g.table),
                                        !.w = IF conf.weighted THEN MinusLog(n, r.nsamples) ELSE One])]
TakeFinal(conf, g, r, n) ==
  LET known == IF Contains(g.table, Superfinal) THEN g.table ELSE Append(g.table, Superfinal)
      superfinal == (CHOOSE k \in DOMAIN known : known[k] = Superfinal) - 1
  IN  IF conf.weighted
      THEN [g EXCEPT !.end = MinusLog(IF conf.removeTotal THEN n ELSE n * conf.npath, r.nsamples)]
      ELSE [g EXCEPT !.table = known, !.out = @ \o [i \in 1..n |-> EpsTr(One, superfinal)]]
ExpandRand(f, conf, g, c) ==
  LET r == g.table[Len(g.trs) + 1]
      chosen == SetToSortSeq({p \in DOMAIN c : c[p] > 0}, <)
      take(h, p) == IF p \in DOMAIN f.trs[r.s] THEN TakeTr(conf, h, r, f.trs[r.s][p], c[p])
                    ELSE TakeFinal(conf, h, r, c[p])
      v == FoldLeft(take, [table |-> g.table, out |-> <<>>,
                           end |-> IF r = Superfinal THEN One ELSE None], chosen)
  IN  [table |-> v.table, trs |-> Append(g.trs, v.out), final |-> Append(g.final, v.end)]

RECURSIVE RandGens(_, _, _)
RandGens(f, conf, g) ==
  IF Len(g.trs) = Len(g.table) THEN {g}
  ELSE UNION {RandGens(f, conf, ExpandRand(f, conf, g, c)) :
                c \in Samples(f, g.table[Len(g.trs) + 1], conf.maxLength)}
RandStart(f, conf) ==
  [table |-> <<RandState(f.start, conf.npath, 0)>>, trs |-> <<>>, final |-> <<>>]
RandGenFst(f, conf) ==
  IF f.start = None THEN {NewFst}
  ELSE {SetProperties(Computed(Upto(Len(g.table)), g.trs, LAMBDA k : g.final[k + 1]),
                      RandGenProperties(f.props, conf.weighted)) :
          g \in RandGens(f, conf, RandStart(f, conf))}

(* RandGenVisitor: of the tree, one copy of the path at hand whenever a    *)
(* transition enters the final state.                                      *)
CopyTr(h, t) ==
  [fst |-> AddTr(AddState(h.fst), h.src, [t EXCEPT !.w = One, !.ns = NumStates(h.fst)]),
   src |-> NumStates(h.fst)]
OutputPath(v) ==
  LET g == IF v.fst.start = None THEN SetStart(AddState(v.fst), NumStates(v.fst)) ELSE v.fst
      copied == FoldLeft(CopyTr, [fst |-> g, src |-> g.start], v.path)
  IN  [v EXCEPT !.fst = SetFinal(copied.fst, copied.src, One)]
RandGenCall(f, v, c) ==
  LET ends == f.final[c.t] # None
      t == f.trs[c.s][CHOOSE i \in DOMAIN f.trs[c.s] : f.trs[c.s][i].ns = c.t]
  IN  CASE c.call = "tree_tr" /\ ~ends -> [v EXCEPT !.path = Append(@, t)]
        [] (c.call = "tree_tr" /\ ends) \/ c.call = "forward_or_cross_tr" -> OutputPath(v)
        [] c.call = "finish_state" /\ c.t # None /\ f.final[c.s] = None ->
             [v EXCEPT !.path = Front(@)]
        [] OTHER -> v
RandGenVisit(f) ==
  FoldLeft(LAMBDA v, c : RandGenCall(f, v, c), [fst |-> NewFst, path |-> <<>>], DfsVisit(f)).fst

RandGen(f, conf) ==
  IF conf.weighted THEN RandGenFst(f, conf)
  ELSE {RandGenVisit(tree) : tree \in RandGenFst(f, conf)}
=============================================================================
