----------------------------- MODULE Algorithms -----------------------------
(***************************************************************************)
(* The static algorithms at work: a machine is taken through any sequence  *)
(* of at most MaxOps of them, each one trusting the bits the one before    *)
(* left.  `was` is the machine before the last of them.                    *)
(***************************************************************************)
EXTENDS TransducerOps, ComposeOps, ReplaceOps, FileOps, PathIteration
LOCAL INSTANCE SequencesExt

CONSTANTS Built,     \* machines as mutations build them, or with bits computed
          Deep,      \* those that more than one algorithm is applied to
          Operands,  \* second operands of union and concat
          Rights, Configs, \* second machines and configurations of compose
          Lookaheads, \* kinds, sides and flags of lookahead
          Grammars,  \* the machines that replace labels, as lists of ReplaceOps
          RootLabel, \* the label of the machine at hand among them
          Renamings, \* pairs of symbol tables to relabel between
          Thresholds, \* of prune
          Limits,    \* those of determinize
          MaxSubsets, \* bound on the subsets where the code has none
          Sampled, Samplings, \* machines to take random paths of, and how
          MaxOptimized, \* bound on the states to which optimize determinizes
          PathLength, \* longest paths that may be among the n best
          Nondet,    \* the values of allow_nondet
          PushTypes, \* what push pushes and removes
          MaxOps,    \* bound on the algorithms applied
          Alphabet,  \* the labels of the words, without epsilon
          MaxWord    \* bound on the length of the words

-----------------------------------------------------------------------------
(***************************************************************************)
(* What a machine means: the weight it gives to every pair of an input and *)
(* output word.  The algorithms are held to this; it follows no code.      *)
(***************************************************************************)
Words == UNION {[1..n -> Alphabet] : n \in 0..MaxWord}

MinOf(ws) == IF ws = {} THEN Zero ELSE CHOOSE w \in ws : \A v \in ws : w <= v

(* The weight of the pair (i, o) from every state, over ever longer paths. *)
Reads(t, i, o) ==
  /\ t.il = Eps \/ (i # <<>> /\ Head(i) = t.il)
  /\ t.ol = Eps \/ (o # <<>> /\ Head(o) = t.ol)
Rest(l, word) == IF l = Eps THEN word ELSE Tail(word)
LongerPaths(f, V) ==
  [x \in DOMAIN V |->
     LET s == x[1]
         i == x[2]
         o == x[3]
     IN  MinOf({V[x]} \cup
               {Times(f.trs[s][k].w, V[<<f.trs[s][k].ns, Rest(f.trs[s][k].il, i),
                                         Rest(f.trs[s][k].ol, o)>>]) :
                  k \in {j \in DOMAIN f.trs[s] : Reads(f.trs[s][j], i, o)}})]

RECURSIVE Settled(_, _)
Settled(f, V) ==
  LET longer == LongerPaths(f, V) IN IF longer = V THEN V ELSE Settled(f, longer)

Ended(f) ==
  [x \in StatesOf(f) \X Words \X Words |->
     IF x[2] = <<>> /\ x[3] = <<>> THEN OrZero(f.final[x[1]]) ELSE Zero]
FromStates(f) == Settled(f, Ended(f))

(* The transduction of f. *)
Lang(f) ==
  LET V == FromStates(f)
  IN  [p \in Words \X Words |->
         IF f.start = None THEN Zero ELSE V[<<f.start, p[1], p[2]>>]]

(* Operations on transductions. *)
LangOf(Of(_, _)) == [p \in Words \X Words |-> Of(p[1], p[2])]
Cuts(word) == {<<SubSeq(word, 1, k), SubSeq(word, k + 1, Len(word))>> : k \in 0..Len(word)}
LangUnion(A, B) == LangOf(LAMBDA i, o : Plus(A[<<i, o>>], B[<<i, o>>]))
LangConcat(A, B) ==
  LangOf(LAMBDA i, o :
    MinOf({Times(A[<<x[1], y[1]>>], B[<<x[2], y[2]>>]) : x \in Cuts(i), y \in Cuts(o)}))
LangUnit == LangOf(LAMBDA i, o : IF i = <<>> /\ o = <<>> THEN One ELSE Zero)
RECURSIVE LangStarUpto(_, _)
LangStarUpto(A, S) ==
  LET T == LangUnion(LangUnit, LangConcat(A, S)) IN IF T = S THEN S ELSE LangStarUpto(A, T)
LangStar(A) == LangStarUpto(A, LangUnit)
Backwards(word) == [k \in DOMAIN word |-> word[Len(word) + 1 - k]]
LangReverse(A) == LangOf(LAMBDA i, o : A[<<Backwards(i), Backwards(o)>>])
LangInvert(A) == LangOf(LAMBDA i, o : A[<<o, i>>])
(* The words of one side, at their best weight over every word of the other. *)
OneSided(f, input) ==
  LET erased == [f EXCEPT !.trs = [s \in StatesOf(f) |->
                   [k \in DOMAIN @[s] |-> IF input THEN [@[s][k] EXCEPT !.ol = Eps]
                                          ELSE [@[s][k] EXCEPT !.il = Eps]]]]
      A == Lang(erased)
  IN  LangOf(LAMBDA i, o : IF i # o THEN Zero
                           ELSE IF input THEN A[<<i, <<>>>>] ELSE A[<<<<>>, o>>])
LangTimes(A, w) == LangOf(LAMBDA i, o : Times(A[<<i, o>>], w))
TotalOf(A) == MinOf({A[p] : p \in DOMAIN A})

-----------------------------------------------------------------------------
VARIABLES fst, was, op, arg, ops, table

vars == <<fst, was, op, arg, ops, table>>

AllProperties == CopyProperties

(* An encoded machine is only decoded; one with inverted weights, random   *)
(* paths and the long machines of delayed operations are taken no further. *)
Delayed == {"replace", "union_fst", "concat_fst", "closure_fst", "randgen"}
Final == op \in Delayed \cup {"encode"} \/ (op = "tr_map" /\ arg = "invert_weight")
Applicable == ops < MaxOps /\ ~Final
Apply(name, a, f) ==
  /\ Applicable
  /\ ops' = ops + 1
  /\ op' = name /\ arg' = a
  /\ was' = fst /\ fst' = f
  /\ UNCHANGED table

(* top_sort fails and condense panics on states without a start state. *)
Started == fst.start # None \/ StatesOf(fst) = {}

DoClosure == \E star \in BOOLEAN : Apply("closure", star, Closure(fst, star))
DoUnion   == \E g \in Operands : Apply("union", g, Union(fst, g))
DoConcat  == \E g \in Operands : Apply("concat", g, Concat(fst, g))
DoReverse == Apply("reverse", None, ReverseFst(fst))
DoInvert  == Apply("invert", None, Invert(fst))
DoProject == \E input \in BOOLEAN : Apply("project", input, Project(fst, input))
DoRelabel ==
  \E l \in Alphabet \cup {Eps}, input \in BOOLEAN : \E k \in Alphabet \ {l} :
    LET pairs == [x \in {k} |-> l]
    IN  Apply("relabel", [pairs |-> pairs, input |-> input],
              IF input THEN RelabelPairs(fst, pairs, <<>>)
              ELSE RelabelPairs(fst, <<>>, pairs))
DoRelabelTables ==
  /\ Applicable
  /\ \E tables \in Renamings :
       \E result \in {RelabelTables(fst, tables[1], tables[2])} :
         Apply("relabel_tables", [from |-> tables[1], to |-> tables[2], ok |-> result.ok],
               result.fst)
DoTrSort   == \E input \in BOOLEAN : Apply("tr_sort", input, TrSort(fst, input))
DoTrSum    == Apply("tr_sum", None, TrSum(fst))
DoTrUnique == Apply("tr_unique", None, TrUnique(fst))
DoConnect  == Apply("connect", None, Connect(fst))
DoTopSort  == Started /\ Apply("top_sort", None, TopSort(fst))
DoCondense == Started /\ Apply("condense", None, Condense(fst))
DoAddSuperFinal   == Apply("add_super_final_state", None, AddSuperFinalState(fst))
DoRmFinalEpsilon  == Apply("rm_final_epsilon", None, RmFinalEpsilon(fst))
(* Inverted weights are negative: bounded to machines without a cycle, and  *)
(* nothing is applied to them.                                             *)
DoTrMap ==
  /\ Applicable
  /\ \E m \in Mappers :
       /\ m = "invert_weight" => "ACYCLIC" \in Truth(fst)
       /\ Apply("tr_map", m, TrMap(fst, m))
(* What may fail.  determinize and push build another machine; minimize    *)
(* has looked for bits by then.                                            *)
OrElse(result, f) == IF result = Err THEN f ELSE result
DoMinimize ==
  /\ Applicable
  /\ \E allowNondet \in Nondet :
       \E result \in {MinimizeFst(fst, allowNondet)} :
         Apply("minimize", [nondet |-> allowNondet, ok |-> result # Err],
               OrElse(result, Known(fst)))
DoDeterminize ==
  /\ Applicable
  /\ \E type \in DeterminizeTypes, limits \in Limits :
       \E result \in {Determinize(fst, type, limits)} :
         Apply("determinize", [type |-> type, limits |-> limits, ok |-> result # Err],
               OrElse(result, fst))
(* Where nothing is accepted, the string alone of an infinite weight cannot *)
(* be removed: a panic; its number gives weights that are none.            *)
DoPush ==
  /\ Applicable
  /\ \E toInitial \in BOOLEAN, types \in PushTypes :
       \E result \in {Push(fst, toInitial, types)} :
         Apply("push", [toInitial |-> toInitial, types |-> types, ok |-> result # Err],
               OrElse(result, fst))
DoRmEpsilon == Apply("rm_epsilon", None, RmEpsilonFst(fst))
DoOptimize ==
  /\ Applicable
  /\ \E result \in {Optimize(fst, MaxOptimized)} :
       Apply("optimize", result # Err, OrElse(result, fst))
DoPrune == \E w \in Thresholds : Apply("prune", w, Prune(fst, w))
(* The reversed machine has an acceptor's bit, and a bounded number of     *)
(* subsets, when the paths are to be unique.                               *)
DoShortestPath ==
  /\ Applicable
  /\ \E n \in 0..2, unique \in BOOLEAN, order \in QueueOrders :
       /\ n = 1 \/ order = "fifo"
       /\ unique => n = 2 /\ Det!DeterminizeFsa(ReverseFst(fst), Det!AtMost(MaxSubsets)) # Err
       /\ Apply("shortest_path", [n |-> n, unique |-> unique],
                ShortestPath(fst, n, unique, order, MaxSubsets))
DoIsomorphic ==
  \E g \in Operands \cup {fst, ReverseFst(ReverseFst(fst))} :
    Apply("isomorphic", [with |-> g, answer |-> Isomorphic(fst, g)], fst)
DoCompose ==
  /\ Applicable
  /\ \E g \in Rights, conf \in Configs :
       /\ ~ComposeFails(fst, g, conf)
       /\ Apply("compose", [with |-> g, conf |-> conf], Compose(fst, g, conf))
(* The second machine and the one at hand are relabelled or sorted first; the *)
(* epsilon filter lets the machine that looks ahead go first.  Looking     *)
(* ahead after a label loses the paths on which the other machine waits,   *)
(* so that it is for machines without epsilons.                            *)
LookaheadConf(look) ==
  [filter |-> IF look.side = "ol" THEN "alt_sequence" ELSE "sequence", connect |-> TRUE,
   sigma |-> [side \in Sides |-> PlainMatcher], look |-> look]
LookaheadFits(p) ==
  "non_epsilons" \in p.look.flags =>
    IF p.look.side = "ol" THEN HasNoIEpsilons(p.f2) ELSE HasNoOEpsilons(p.f1)
DoLookahead ==
  /\ Applicable
  /\ \E g \in Rights, look \in Lookaheads :
       \E p \in {Prepared(look, fst, g)} :
         /\ LookaheadFits(p)
         /\ Apply("compose", [with |-> g, conf |-> LookaheadConf(p.look)],
                  Compose(p.f1, p.f2, LookaheadConf(p.look)))
DoReplace ==
  /\ Applicable
  /\ \E callees \in Grammars, epsilonOnReplace \in BOOLEAN :
       LET list == <<[label |-> RootLabel, fst |-> fst]>> \o callees
       IN  /\ ~Recursive(list)
           /\ Apply("replace", [list |-> list, eps |-> epsilonOnReplace],
                    ReplaceFst(list, RootLabel, epsilonOnReplace))
DoUnionFst   == \E g \in Operands : Apply("union_fst", g, UnionFst(fst, g))
DoConcatFst  == \E g \in Operands : Apply("concat_fst", g, ConcatFst(fst, g))
DoClosureFst == \E star \in BOOLEAN : Apply("closure_fst", star, ClosureFst(fst, star))
DoRoundTrip == \E way \in RoundTrips : Apply("round_trip", way, RoundTrip(fst, way))
(* Whether a machine has its own paths, and some like them. *)
DoPathsIter ==
  /\ Applicable /\ IsAcyclic(fst)
  /\ \E paths \in {PathsIter(fst)} :
       LET own == {paths[k] : k \in DOMAIN paths}
           like == {[x EXCEPT !.o = x.i] : x \in own} \cup {[x EXCEPT !.w = Times(@, 5)] : x \in own}
       IN  Apply("paths_iter",
                 [paths |-> paths,
                  answers |-> [x \in own \cup like \cup {EmptyPath} |-> CheckPathInFst(fst, x)]], fst)
DoLinear ==
  /\ Applicable /\ IsAcyclic(fst)
  /\ \E paths \in {PathsIter(fst)} : \E k \in DOMAIN paths :
       LET x == paths[k]
       IN  \/ Apply("linear", x, Transducer(x))
           \/ x.i = x.o /\ Apply("linear", x, Acceptor(x.i, x.w))
DoRandGen ==
  /\ Applicable /\ fst \in Sampled
  /\ \E conf \in Samplings : \E result \in RandGen(fst, conf) : Apply("randgen", conf, result)
DoProperties ==
  \E mask \in Pairs : Apply("properties", None, ComputeAndUpdate(fst, mask))

(* An encoded machine is decoded with the table it was encoded with. *)
DoEncode ==
  \E kind \in SUBSET {"labels", "weights"} \ {{}} :
    LET t == EncodeTable(fst, kind)
    IN  /\ Applicable
        /\ op' = "encode" /\ arg' = kind /\ ops' = ops + 1
        /\ was' = fst /\ table' = t /\ fst' = Encode(fst, kind, t)
DoDecode ==
  /\ op = "encode"
  /\ op' = "decode" /\ fst' = Decode(fst, arg, table)
  /\ UNCHANGED <<was, arg, ops, table>>

Init ==
  /\ fst \in Built
  /\ was = fst /\ op = "none" /\ arg = None /\ table = <<>>
  /\ ops = IF fst \in Deep THEN 0 ELSE MaxOps - 1
Next ==
  \/ DoClosure \/ DoUnion \/ DoConcat \/ DoReverse
  \/ DoInvert \/ DoProject \/ DoRelabel \/ DoRelabelTables
  \/ DoTrSort \/ DoTrSum \/ DoTrUnique
  \/ DoConnect \/ DoTopSort \/ DoCondense
  \/ DoAddSuperFinal \/ DoRmFinalEpsilon \/ DoTrMap \/ DoPush \/ DoProperties
  \/ DoMinimize \/ DoDeterminize \/ DoPrune \/ DoShortestPath \/ DoIsomorphic
  \/ DoEncode \/ DoDecode \/ DoCompose \/ DoLookahead
  \/ DoReplace \/ DoUnionFst \/ DoConcatFst \/ DoClosureFst
  \/ DoRoundTrip \/ DoPathsIter \/ DoLinear
  \/ DoRmEpsilon \/ DoOptimize \/ DoRandGen
Spec == Init /\ [][Next]_vars

(* One algorithm alone. *)
MinimizeSpec == Init /\ [][DoMinimize]_vars

---------------------------------------------------------------------------
(* The bits an algorithm leaves are those of its result.  Some claims of   *)
(* the code are not: the epsilon mappers announce epsilons even when there *)
(* is no transition to map; an encoding of weights keeps the determinism   *)
(* of transitions that a final weight may have become one of; composition  *)
(* calls an acceptor what a sigma was rewritten in on one side only; and   *)
(* replacement keeps what is said of a machine that is never called, of    *)
(* the order of states that are numbered anew, and of input labels that    *)
(* calls lose.                                                             *)
CalledBy(list) ==
  LET r[n \in Nat] == IF n = 0 THEN {1}
                      ELSE r[n - 1] \cup UNION {Callees(list, k) : k \in r[n - 1]}
  IN  r[Len(list)]
Misnamed ==
  CASE op = "tr_map" /\ fst.trs = [s \in StatesOf(fst) |-> <<>>] ->
         (CASE arg = "input_epsilon" -> {"I_EPSILONS"}
            [] arg = "output_epsilon" -> {"O_EPSILONS"}
            [] OTHER -> {})
    [] op = "encode" /\ "weights" \in arg -> {"I_DETERMINISTIC"}
    [] op = "replace" ->
         {"NOT_TOP_SORTED", "NOT_STRING"} \cup When(arg.eps, {"NOT_I_DETERMINISTIC"})
           \cup UNION {arg.list[k].fst.props : k \in DOMAIN arg.list \ CalledBy(arg.list)}
    [] op = "compose" /\ \E side \in Sides :
         arg.conf.sigma[side].rewrite = "never" /\ arg.conf.sigma[side].label # NoLabel ->
         {"ACCEPTOR"}
    [] OTHER -> {}
BitsTrue == fst.props \ Misnamed \subseteq Truth(fst)
EpsilonCounts ==
  \A s \in StatesOf(fst) :
    fst.eps[s] = [side \in Sides |-> EpsIn(fst.trs[s], side)]

---------------------------------------------------------------------------
(* What each algorithm promises of the transduction. *)

(* The paths of a machine, by the words they read and their weight. *)
RECURSIVE PathsFrom(_, _, _)
PathsFrom(f, s, n) ==
  (IF f.final[s] = None THEN {} ELSE {[arcs |-> <<>>, il |-> <<>>, ol |-> <<>>,
                                      i |-> <<>>, o |-> <<>>, w |-> f.final[s]]})
  \cup (IF n = 0 THEN {}
        ELSE UNION {LET t == f.trs[s][k]
                        label(l) == IF l = Eps THEN <<>> ELSE <<l>>
                    IN  {[arcs |-> <<<<s, k>>>> \o x.arcs, il |-> <<t.il>> \o x.il, ol |-> <<t.ol>> \o x.ol,
                          i |-> label(t.il) \o x.i, o |-> label(t.ol) \o x.o, w |-> Times(t.w, x.w)] :
                           x \in PathsFrom(f, t.ns, n - 1)} : k \in DOMAIN f.trs[s]})
Paths(f, n) == IF f.start = None THEN {} ELSE PathsFrom(f, f.start, n)

(* Labels take other names; when one takes that of epsilon, or epsilon     *)
(* another, words of any length may become short ones, and nothing is said. *)
LangRenamed(A, input(_), output(_)) ==
  LET before(name(_), word) == {x \in Words : [k \in DOMAIN x |-> name(x[k])] = word}
  IN  LangOf(LAMBDA i, o : MinOf({A[<<x, y>>] : x \in before(input, i), y \in before(output, o)}))
LangRelabel(A, r) ==
  LET name(l) == IF l \in DOMAIN r.pairs THEN r.pairs[l] ELSE l
      same(l) == l
  IN  IF r.input THEN LangRenamed(A, name, same) ELSE LangRenamed(A, same, name)
LangTables(A, T, U) ==
  LET name(l) == Renamed(T, U, l) IN LangRenamed(A, name, name)
LengthsKept(T, U) == \A l \in Alphabet \cup {Eps} : (Renamed(T, U, l) = Eps) = (l = Eps)

(* The machine a matcher sees: sigma stands for every allowed label that   *)
(* no transition of the state carries.                                     *)
SigmaSeen(f, side, m) ==
  LET carried(s) == {f.trs[s][i][side] : i \in DOMAIN f.trs[s]}
      labels(s) == SetToSeq(m.allowed \ carried(s))
      read(s, t) == IF t[side] # m.label THEN <<t>>
                    ELSE [k \in DOMAIN labels(s) |-> SigmaTr(f, side, m, t, labels(s)[k])]
  IN  IF m.label = NoLabel THEN f
      ELSE [f EXCEPT !.trs = [s \in StatesOf(f) |->
                                FlattenSeq([i \in DOMAIN @[s] |-> read(s, @[s][i])])]]
LangCompose(A, B) ==
  LangOf(LAMBDA i, o : MinOf({Times(A[<<i, m>>], B[<<m, o>>]) : m \in Words}))

(* What the k-th machine of a list reads, the calls of the others standing *)
(* for what these read; a call may also read the input label of its own    *)
(* transition.                                                             *)
Called(A, label, i, o) ==
  IF label = Eps THEN A[<<i, o>>]
  ELSE IF i # <<>> /\ Head(i) = label THEN A[<<Tail(i), o>>] ELSE Zero
RECURSIVE CalledFrom(_, _, _, _)
CalledFrom(f, callees, eps, V) ==
  LET through(t, i, o) ==
        MinOf({Times(Times(t.w, Called(callees[t.ol], IF eps THEN Eps ELSE t.il, x[1], y[1])),
                     V[<<t.ns, x[2], y[2]>>]) : x \in Cuts(i), y \in Cuts(o)})
      own == LongerPaths([f EXCEPT !.trs = [s \in StatesOf(f) |->
                            SelectSeq(@[s], LAMBDA t : t.ol \notin DOMAIN callees)]], V)
      longer == [x \in DOMAIN V |->
              MinOf({own[x]} \cup {through(f.trs[x[1]][k], x[2], x[3]) :
                       k \in {j \in DOMAIN f.trs[x[1]] : f.trs[x[1]][j].ol \in DOMAIN callees}})]
  IN  IF longer = V THEN V ELSE CalledFrom(f, callees, eps, longer)
RECURSIVE LangOfList(_, _, _)
LangOfList(list, k, eps) ==
  LET f == list[k].fst
      callees == [l \in {list[j].label : j \in Callees(list, k)} |->
                    LangOfList(list, MachineOf(list, l), eps)]
      V == CalledFrom(f, callees, eps, Ended(f))
  IN  LangOf(LAMBDA i, o : IF f.start = None THEN Zero ELSE V[<<f.start, i, o>>])

Same == {"tr_sort", "tr_sum", "tr_unique", "connect", "top_sort", "properties",
         "add_super_final_state", "rm_final_epsilon", "decode", "minimize", "isomorphic",
         "paths_iter", "rm_epsilon", "optimize"}

(* What push removes: of acyclic machines the affix that the outputs have  *)
(* in common; the total weight, or, when weights are not pushed, what of   *)
(* it is in final weights.                                                 *)
CommonEnd(words, toInitial) ==
  LET word == CHOOSE x \in words : \A y \in words : Len(x) <= Len(y)
      end(x, n) == IF toInitial THEN SubSeq(x, 1, n) ELSE SubSeq(x, Len(x) - n + 1, Len(x))
  IN  end(word, CHOOSE n \in 0..Len(word) :
                  /\ \A x \in words : end(x, n) = end(word, n)
                  /\ \A m \in n + 1..Len(word) : \E x \in words : end(x, m) # end(word, m))
RemovedAffix ==
  IF "affix" \notin arg.types \/ "labels" \notin arg.types THEN <<>>
  ELSE CommonEnd({x.o : x \in Paths(was, PathLength)}, arg.toInitial)
RemovedWeight(A) ==
  CASE "total" \notin arg.types -> One
    [] "weights" \in arg.types -> TotalOf(A)
    [] OTHER -> IF arg.toInitial THEN One
                ELSE MinOf({was.final[s] : s \in Finals(was) \cap ReachFrom(was, {was.start})})
LangPushed(A, B, affix, w) ==
  LangOf(LAMBDA i, o :
    LET whole == IF arg.toInitial THEN affix \o o ELSE o \o affix
    IN  IF Len(whole) > MaxWord THEN B[<<i, o>>] ELSE DivideLeft(A[<<i, whole>>], w))

(* The start state that a text names is the state of its first row: the    *)
(* true one if it has transitions, otherwise the first state that has any, *)
(* and where no state has, the first final state.                          *)
PlainText == {"vector_text", "const_text"}
FirstWritten(f) ==
  LET least(S) == IF S = {} THEN None ELSE CHOOSE s \in S : \A t \in S : s <= t
      leaving == {s \in StatesOf(f) : f.trs[s] # <<>>}
  IN  IF f.start = None \/ f.start \in leaving THEN f.start
      ELSE IF leaving # {} THEN least(leaving) ELSE least(Finals(f))

(* Of A, the transduction before, with that of the result, B, where nothing *)
(* more is said of it.                                                     *)
MeaningOf(A, B) ==
  CASE op \in {"closure", "closure_fst"} -> IF arg THEN LangStar(A) ELSE LangConcat(A, LangStar(A))
    [] op \in {"union", "union_fst"} -> LangUnion(A, Lang(arg))
    [] op \in {"concat", "concat_fst"} -> LangConcat(A, Lang(arg))
    [] op = "replace" -> LangOfList(arg.list, 1, arg.eps)
    [] op = "reverse" -> LangReverse(A)
    [] op = "invert" -> LangInvert(A)
    [] op = "project" -> OneSided(was, arg)
    [] op = "relabel" /\ \A l \in DOMAIN arg.pairs : arg.pairs[l] # Eps ->
         LangRelabel(A, arg)
    [] op = "relabel_tables" /\ arg.ok /\ LengthsKept(arg.from, arg.to) ->
         LangTables(A, arg.from, arg.to)
    [] op \in Same -> A
    [] op = "round_trip" /\ ~(arg \in PlainText /\ FirstWritten(was) # was.start) -> A
    [] op = "round_trip" -> Lang([was EXCEPT !.start = FirstWritten(was)])
    [] op = "determinize" /\ (arg.type # "disambiguate" \/ ~arg.ok) -> A
    [] op = "push" ->
         IF ~arg.ok \/ TotalOf(A) = Zero THEN A
         ELSE IF "affix" \in arg.types /\ "ACYCLIC" \notin Truth(was) THEN B
         ELSE LangPushed(A, B, RemovedAffix, RemovedWeight(A))
    [] op = "linear" ->
         LangOf(LAMBDA i, o : IF i = arg.i /\ o = arg.o THEN arg.w ELSE Zero)
    [] op = "prune" ->
         LangOf(LAMBDA i, o :
           IF A[<<i, o>>] > Times(TotalOf(A), arg) /\ B[<<i, o>>] = Zero
           THEN Zero ELSE A[<<i, o>>])
    [] op = "compose" /\ arg.conf.filter # "null" ->
         LangCompose(Lang(SigmaSeen(was, "ol", arg.conf.sigma["ol"])),
                     Lang(SigmaSeen(arg.with, "il", arg.conf.sigma["il"])))
    [] op = "tr_map" /\ arg = "rm_weight" ->
         LangOf(LAMBDA i, o : IF A[<<i, o>>] = Zero THEN Zero ELSE One)
    [] OTHER -> B
Meaning == LET B == Lang(fst) IN B = MeaningOf(Lang(was), B)

---------------------------------------------------------------------------
(* What each algorithm promises of the machine itself. *)

OutSum(f, s) ==
  MinOf({OrZero(f.final[s])} \cup {f.trs[s][i].w : i \in DOMAIN f.trs[s]})
Coaccessible(f) == {s \in StatesOf(f) : ReachFrom(f, {s}) \cap Finals(f) # {}}
Mutual(f, s, t) == t \in ReachFrom(f, {s}) /\ s \in ReachFrom(f, {t})

(* Of each sequence of input labels, epsilons included, the best weight. *)
BestOf(P) ==
  {[x EXCEPT !.arcs = <<>>] : x \in {y \in P : \A z \in P : z.il = y.il => y.w <= z.w}}
NoHeavier(P, w) == Cardinality({x \in P : x.w <= w})

(* The n best: as many of each weight as there are, up to n, and paths of  *)
(* the machine.                                                            *)
ShortestKept(n, unique) ==
  LET long == Paths(was, PathLength)
      kept == Paths(fst, PathLength + 3)
      from == IF unique THEN BestOf(long) ELSE long
      words(P) == {<<x.i, x.o, x.w>> : x \in P}
  IN  /\ words(kept) \subseteq words(from)
      /\ \A x \in from \cup kept :
           NoHeavier(kept, x.w) = Smaller(n, NoHeavier(from, x.w))

(* One path for each pair of paths that agree on the word between them, so *)
(* that no weight counts twice in any semiring; with the null filter, that *)
(* agree on the labels between them, epsilons included.                    *)
PathPairs(g, conf) ==
  {x \in Paths(was, PathLength) \X Paths(g, PathLength) :
     IF conf.filter = "null" THEN x[1].ol = x[2].il ELSE x[1].o = x[2].i}
PairsKept(g, conf) ==
  LET pairs == PathPairs(g, conf)
      kept == Paths(fst, 2 * PathLength)
      key(x) == <<x[1].i, x[2].o, Times(x[1].w, x[2].w)>>
      exact == conf.filter \notin {"no_match", "trivial"}
  IN  \A k \in {key(x) : x \in pairs} \cup {<<r.i, r.o, r.w>> : r \in kept} :
        LET found == Cardinality({r \in kept : <<r.i, r.o, r.w>> = k})
            meant == Cardinality({x \in pairs : key(x) = k})
        IN  found = meant \/ (~exact /\ found > meant /\ meant > 0)
Acyclic(f) == "ACYCLIC" \in Truth(f)
PlainSigma(conf) == \A side \in Sides : conf.sigma[side].label = NoLabel

(* Two machines are isomorphic when a renumbering of the states makes them  *)
(* equal, up to the order of the transitions of each state.                *)
SameUpTo(f, g, order) ==
  /\ f.start # None => order[f.start] = g.start
  /\ f.start = None => g.start = None
  /\ \A s \in StatesOf(f) :
       /\ f.final[s] = g.final[order[s]]
       /\ \A t \in {f.trs[s][i] : i \in DOMAIN f.trs[s]} \cup
                   {[u EXCEPT !.ns = CHOOSE n \in StatesOf(f) : order[n] = u.ns] :
                      u \in {g.trs[order[s]][i] : i \in DOMAIN g.trs[order[s]]}} :
            Cardinality({i \in DOMAIN f.trs[s] : f.trs[s][i] = t}) =
            Cardinality({i \in DOMAIN g.trs[order[s]] :
                           g.trs[order[s]][i] = [t EXCEPT !.ns = order[@]]})
Renumberings(f, g) ==
  IF NumStates(f) = NumStates(g) THEN Permutations(StatesOf(f)) ELSE {}

(* Epsilons are labels like others to determinize.  A trim machine without *)
(* cycles is functional when no two paths with the same input labels have  *)
(* different outputs; to disambiguate keeps one output of least weight.    *)
FunctionalPaths(P) == \A x, y \in P : x.il = y.il => x.o = y.o
Small(f) == NumStates(f) <= 4   \* no more than MaxSubsets subsets
Trim(f) == {"ACCESSIBLE", "COACCESSIBLE"} \subseteq Truth(f)
(* A limit leaves the result as it is, or refuses it: those who write more *)
(* transitions than they may are refused, and, with no other limit, no one *)
(* else; every state has at least one element.                             *)
LimitsKept(type, limits, ok) ==
  LET full == Determinize(was, type, Det!AtMost(MaxSubsets))
      written == Cardinality(Arcs(full))
  IN  full # Err =>
        /\ ok => fst = full
        /\ "ACCEPTOR" \in was.props =>
             /\ ok => written <= limits.trs /\ NumStates(full) <= limits.elements
             /\ limits = [Det!AtMost(MaxSubsets) EXCEPT !.trs = limits.trs] =>
                  ok = (written <= limits.trs)
DeterminizedRight(type, limits, ok) ==
  /\ LimitsKept(type, limits, ok)
  /\ ok => /\ HasNoIEpsilons(was) /\ type # "nonfunctional" => "I_DETERMINISTIC" \in Truth(fst)
           /\ type = "disambiguate" /\ "ACCEPTOR" \notin was.props =>
                /\ OneSided(fst, TRUE) = OneSided(was, TRUE)
                /\ LET A == Lang(was)
                       B == Lang(fst)
                   IN  \A p \in DOMAIN A : A[p] <= B[p]
                /\ Acyclic(was) => FunctionalPaths(Paths(fst, PathLength + 2))
  /\ limits = Det!AtMost(MaxSubsets) /\ Acyclic(was) /\ Small(was) =>
       /\ type # "functional" => ok
       /\ type = "functional" /\ Trim(was) /\ "ACCEPTOR" \notin was.props =>
            ok = FunctionalPaths(Paths(was, PathLength))
PushedRight(toInitial, types, ok) ==
  /\ ok \/ TotalOf(Lang(was)) = Zero
  /\ "weights" \in types /\ toInitial /\ ok =>
       \A s \in Coaccessible(fst) :
         s # fst.start \/ "total" \in types => OutSum(fst, s) = One

(* Files and conversions keep every transition in its place, a final weight *)
(* of zero apart, and the bits that were known; text, which names no state *)
(* without transitions, keeps the others.                                  *)
SameState(s) == fst.trs[s] = was.trs[s] /\ OrZero(fst.final[s]) = OrZero(was.final[s])
Returned(way) ==
  IF way \in PlainText \cup {"openfst_text"}
  THEN /\ fst.start = IF way \in PlainText THEN FirstWritten(was) ELSE was.start
       /\ was.start # None => \A s \in StatesOf(fst) : SameState(s)
  ELSE /\ was.props \subseteq fst.props
       /\ fst.start = was.start /\ StatesOf(fst) = StatesOf(was)
       /\ was.start # None => \A s \in StatesOf(was) : SameState(s)

(* Every path once; and a path is found exactly when it is one of them,    *)
(* where input and output labels keep pace.                                *)
PathsGiven(paths, answers) ==
  /\ \A x \in Paths(was, PathLength + 2) \cup {paths[k] : k \in DOMAIN paths} :
       Cardinality({k \in DOMAIN paths : paths[k] = [i |-> x.i, o |-> x.o, w |-> x.w]}) =
       Cardinality({y \in Paths(was, PathLength + 2) : y.i = x.i /\ y.o = x.o /\ y.w = x.w})
  /\ HasNoIEpsilons(was) /\ HasNoOEpsilons(was) /\ was.start # None =>
       \A x \in DOMAIN answers : answers[x] = (x \in {paths[k] : k \in DOMAIN paths})

(* Random paths are paths of the machine, shorter than the limit, and all  *)
(* together npath of them unless a walk got stuck or was cut; the empty    *)
(* path does not count twice.                                              *)
NeverStuck(f, maxLength) ==
  /\ \A s \in ReachFrom(f, {f.start}) : Selectable(f, s) # {}
  /\ Acyclic(f) /\ \A x \in Paths(f, PathLength) : Len(x.arcs) < maxLength
SampledRight(conf) ==
  LET own == {<<x.il, x.ol>> : x \in Paths(was, PathLength)}
      kept == Paths(fst, PathLength + 1)
      share == IF conf.removeTotal THEN conf.npath ELSE 1
      times(x) == {n \in 1..conf.npath : x.w = IF conf.weighted THEN MinusLog(n, share) ELSE One}
      samples == IF conf.weighted THEN MapThenSumSet(LAMBDA x : CHOOSE n \in times(x) : TRUE, kept)
                 ELSE Cardinality(kept)
  IN  /\ \A x \in kept : /\ <<x.il, x.ol>> \in own /\ Len(x.arcs) < conf.maxLength
                        /\ times(x) # {}
      /\ samples <= conf.npath
      /\ was.start # None /\ NeverStuck(was, conf.maxLength) =>
           samples = conf.npath \/ (~conf.weighted /\ \E x \in kept : x.arcs = <<>>)

(* A table that names every label at most once, and every symbol by its    *)
(* place, comes back from its binary file, and from its text when it has   *)
(* no hole; text with a hole, or a symbol twice, is refused.               *)
Coherent(T) ==
  /\ \A x \in DOMAIN T.ids : GetSymbol(T, T.ids[x]) = x
  /\ \A k \in DOMAIN Rows(T) : GetLabel(T, Rows(T)[k][1]) = Rows(T)[k][2]
TableKept(T) ==
  LET whole == Len(Rows(T)) = Len(T.strings)
      once == \A j, k \in DOMAIN Rows(T) : Rows(T)[j][1] = Rows(T)[k][1] => j = k
  IN  /\ Coherent(T) => TableFromBinary(Rows(T)) = T
      /\ Coherent(T) /\ whole => TableFromText(Rows(T)) = T
      /\ (TableFromText(Rows(T)) = Err) = ~(whole /\ once)

Promised ==
  CASE op = "shortest_path" -> ShortestKept(arg.n, arg.unique)
    [] op = "compose" /\ PlainSigma(arg.conf) /\ Acyclic(was) /\ Acyclic(arg.with) ->
         PairsKept(arg.with, arg.conf)
    [] op = "union_fst" -> UnionProperties(was.props, arg.props, TRUE) \subseteq Truth(fst)
    [] op = "concat_fst" -> ConcatProperties(was.props, arg.props, TRUE) \subseteq Truth(fst)
    [] op = "closure_fst" -> ClosureProperties(was.props, TRUE) \subseteq Truth(fst)
    [] op = "determinize" -> DeterminizedRight(arg.type, arg.limits, arg.ok)
    [] op = "minimize" -> arg.ok \/ Refused(fst, arg.nondet)
    [] op = "isomorphic" ->
         /\ arg.answer = "yes" => Lang(arg.with) = Lang(fst)
         /\ (\E order \in Renumberings(fst, arg.with) : SameUpTo(fst, arg.with, order)) =>
              arg.answer # "no"
    [] op = "connect" -> {"ACCESSIBLE", "COACCESSIBLE"} \subseteq Truth(fst)
    [] op = "top_sort" -> "ACYCLIC" \in Truth(was) => "TOP_SORTED" \in Truth(fst)
    [] op = "tr_sort" ->
         (IF arg THEN "I_LABEL_SORTED" ELSE "O_LABEL_SORTED") \in Truth(fst)
    [] op = "tr_sum" ->
         \A s \in StatesOf(fst) : \A i, j \in DOMAIN fst.trs[s] :
           i # j => TrKey(fst.trs[s][i]) # TrKey(fst.trs[s][j])
    [] op = "condense" ->
         /\ "ACYCLIC" \in Truth(fst)
         /\ NumStates(fst) =
              Cardinality({{t \in StatesOf(was) : Mutual(was, s, t)} : s \in StatesOf(was)})
    [] op = "add_super_final_state" ->
         \E s \in StatesOf(fst) : Finals(fst) = {s} /\ fst.final[s] = One
    [] op = "push" -> PushedRight(arg.toInitial, arg.types, arg.ok)
    [] op = "round_trip" -> Returned(arg)
    [] op = "paths_iter" -> PathsGiven(arg.paths, arg.answers)
    [] op = "rm_epsilon" -> AllArcs(fst, LAMBDA t : ~IsEpsTr(t))
    [] op = "optimize" -> arg
    [] op = "randgen" -> SampledRight(arg)
    [] op = "linear" -> DecodeLinearFst(fst) = arg
    [] op = "relabel_tables" -> TableKept(arg.from) /\ TableKept(arg.to)
    [] OTHER -> TRUE

---------------------------------------------------------------------------
(* The components the visit finds are the classes of mutual reachability,  *)
(* numbered in topological order, and its coaccessible states those that   *)
(* reach a final state; on small machines, all pairs have the distances    *)
(* that each source has by itself.                                         *)
MaxCompared == 5
ComponentsRight ==
  LET v == SccVisit(fst)
  IN  fst.start # None =>
        /\ \A s \in StatesOf(fst) : v.coaccess[s] = (s \in Coaccessible(fst))
        /\ \A s, t \in StatesOf(fst) :
             /\ (v.scc[s] = v.scc[t]) = Mutual(fst, s, t)
             /\ t \in ReachFrom(fst, {s}) => v.scc[s] <= v.scc[t]
        /\ NumStates(fst) <= MaxCompared =>
             LET d == AllPairs(fst)
             IN  \A s, t \in StatesOf(fst) :
                   d[s, t] = (IF s = t THEN One
                              ELSE Distances([fst EXCEPT !.start = s], FALSE)[t])

---------------------------------------------------------------------------
(* What label lookahead knows of a machine: for each state, intervals that *)
(* are sorted and apart, and that hold the number of a label exactly when  *)
(* that label is read first on some way out of the state, epsilons apart;  *)
(* NoLabel stands for the end of a word.                                   *)
Silent(f, side) ==
  [f EXCEPT !.trs = [s \in StatesOf(f) |-> SelectSeq(@[s], LAMBDA t : t[side] = Eps)]]
ReadFirst(f, side, s) ==
  UNION {({f.trs[q][i][side] : i \in DOMAIN f.trs[q]} \ {Eps})
           \cup (IF OrZero(f.final[q]) = Zero THEN {} ELSE {NoLabel}) :
         q \in ReachFrom(Silent(f, side), {s})}
IntervalsRight(f, side, data) ==
  \A s \in StatesOf(f) :
    /\ \A k \in DOMAIN data.isets[s] :
         /\ data.isets[s][k][1] < data.isets[s][k][2]
         /\ k > 1 => data.isets[s][k - 1][2] < data.isets[s][k][1]
    /\ {l \in DOMAIN data.index : Member(data.isets[s], data.index[l])} = ReadFirst(f, side, s)
ReachableRight ==
  NumStates(fst) <= MaxCompared =>
    \A side \in Sides : IntervalsRight(fst, side, ReachableData(fst, side))
=============================================================================
