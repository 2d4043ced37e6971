---------------------------- MODULE StructureOps ----------------------------
(***************************************************************************)
(* The algorithms that change the states of a machine: trimming, sorting   *)
(* and condensing, superfinal states, maps over transitions with the       *)
(* encoding built on them, reweighting and weight pushing.                 *)
(***************************************************************************)
EXTENDS StaticOps
LOCAL INSTANCE SequencesExt

(* plus_assign, one after the other. *)
PlusAll(first, ws) == FoldLeft(LAMBDA v, w : Plus(v, w), first, ws)

---------------------------------------------------------------------------
(* Depth-first visits put to use.                                          *)

(* Nothing happens to a machine whose bits say that it is trim. *)
UsefulStates(f, coaccess) == {s \in ConnectAccess(f) : coaccess[s]}
Connect(f) ==
  IF {"ACCESSIBLE", "COACCESSIBLE"} \subseteq f.props THEN f
  ELSE MoreProperties(DelStates(f, StatesOf(f) \ UsefulStates(f, SccVisit(f).coaccess)),
                      {"ACCESSIBLE", "COACCESSIBLE"})

(* State s becomes state order[s]. *)
StateSort(f, order) ==
  LET old(k) == CHOOSE s \in StatesOf(f) : order[s] = k
      moved(ts) == [i \in DOMAIN ts |-> [ts[i] EXCEPT !.ns = order[@]]]
  IN  IF f.start = None THEN f
      ELSE [f EXCEPT !.start = order[@],
                     !.trs = [k \in StatesOf(f) |-> moved(@[old(k)])],
                     !.final = [k \in StatesOf(f) |-> @[old(k)]],
                     !.eps = [k \in StatesOf(f) |-> @[old(k)]],
                     !.props = @ \cap StateSortMask]

(* top_sort fails when the visit ranked fewer states than there are: with  *)
(* states and no start state.                                              *)
TopSortable(f) == f.start # None \/ StatesOf(f) = {}
SortBy(f, top) ==
  IF top.acyclic THEN MoreProperties(StateSort(f, top.order), Acyc \cup {"TOP_SORTED"})
  ELSE MoreProperties(f, {"CYCLIC", "NOT_TOP_SORTED"})
TopSort(f) == SortBy(f, TopOrder(f))

(* condense: one state for each component. *)
CondenseState(f, scc, g, s) ==
  LET c == scc[s]
      leaving == SelectSeq(f.trs[s], LAMBDA t : scc[t.ns] # c)
      started(h) == IF s = f.start THEN SetStart(h, c) ELSE h
      accepting(h) == IF f.final[s] = None THEN h
                      ELSE SetFinal(h, c, Plus(OrZero(h.final[c]), f.final[s]))
  IN  AddTrs(accepting(started(g)), c,
             [i \in DOMAIN leaving |-> [leaving[i] EXCEPT !.ns = scc[@]]])
CondenseBy(f, v) ==
  FoldLeft(LAMBDA g, s : CondenseState(f, v.scc, g, s), AddStates(NewFst, v.nscc),
           Upto(NumStates(f)))
Condense(f) == IF StatesOf(f) = {} THEN NewFst ELSE CondenseBy(f, SccVisit(f))

---------------------------------------------------------------------------
(* Superfinal states and epsilon transitions to final states.              *)

AddSuperFinalState(f) ==
  LET finals == InOrder(f, Finals(f))
      n == NumStates(f)
      lead(g, s) == AddTr(SetFinal(g, s, None), s, EpsTr(f.final[s], n))
  IN  IF Len(finals) = 1 /\ f.final[finals[1]] = One THEN f
      ELSE FoldLeft(lead, SetFinal(AddState(f), n, One), finals)

(* Epsilon transitions to a final state that leads nowhere become part of  *)
(* the final weight of their source.                                       *)
DeadEnds(f, coaccess) ==
  {s \in Finals(f) : \A i \in DOMAIN f.trs[s] : ~coaccess[f.trs[s][i].ns]}
FoldFinal(g, s, del, ts) ==
  LET w == PlusAll(OrZero(g.final[s]),
             [k \in DOMAIN ts |-> Times(g.final[ts[k].ns], ts[k].w)])
  IN  IF del = {} THEN g ELSE DelTrsId(IF w = Zero THEN g ELSE SetFinal(g, s, w), s, del)
FoldFinals(f, ends) ==
  LET gone(g, s) == {i \in DOMAIN g.trs[s] : /\ g.trs[s][i].ns \in ends
                                             /\ g.trs[s][i].il = Eps /\ g.trs[s][i].ol = Eps}
  IN  FoldLeft(LAMBDA g, s : FoldFinal(g, s, gone(g, s), Keep(g.trs[s], gone(g, s))),
               f, Upto(NumStates(f)))
RmFinalEpsilon(f) == Connect(FoldFinals(f, DeadEnds(f, SccVisit(f).coaccess)))

---------------------------------------------------------------------------
(* tr_map.rs.  A mapper says what becomes of a transition, of a final      *)
(* weight seen as an epsilon transition, and of the bits.                  *)

IdentityMapper(t) == t
QuantizeMapper(t) == t       \* weights are integers here: nothing to round
InputEpsilonMapper(t) == [t EXCEPT !.il = Eps]
OutputEpsilonMapper(t) == [t EXCEPT !.ol = Eps]
RmWeightMapper(t) == [t EXCEPT !.w = IF @ = Zero THEN Zero ELSE One]
TimesMapper(t, w) == [t EXCEPT !.w = Times(@, w)]
PlusMapper(t, w) == [t EXCEPT !.w = Plus(@, w)]
InvertWeightMapper(t) == [t EXCEPT !.w = DivideLeft(One, @)]

Mappers == {"identity", "quantize", "input_epsilon", "output_epsilon", "rm_weight",
            "times", "plus", "invert_weight"}
MapTr(mapper, t) ==
  CASE mapper = "identity" -> IdentityMapper(t)
    [] mapper = "quantize" -> QuantizeMapper(t)
    [] mapper = "input_epsilon" -> InputEpsilonMapper(t)
    [] mapper = "output_epsilon" -> OutputEpsilonMapper(t)
    [] mapper = "rm_weight" -> RmWeightMapper(t)
    [] mapper = "times" -> TimesMapper(t, 2)
    [] mapper = "plus" -> PlusMapper(t, 2)
    [] mapper = "invert_weight" -> InvertWeightMapper(t)
MapProperties(mapper, p) ==
  CASE mapper = "identity" -> p
    [] mapper = "input_epsilon" -> {"I_EPSILONS", "I_LABEL_SORTED"}
    [] mapper = "output_epsilon" -> {"O_EPSILONS", "O_LABEL_SORTED"}
    [] mapper = "rm_weight" -> (p \cap WeightInvariant) \cup {"UNWEIGHTED"}
    [] OTHER -> p \cap WeightInvariant

(* Mappers of weights and labels give final weights back as final weights. *)
TrMap(f, mapper) ==
  LET mapped == ForEachTr(f, LAMBDA g, s, i : SetTr(g, s, i, MapTr(mapper, f.trs[s][i])))
      final(g, s) == SetFinal(g, s, MapTr(mapper, EpsTr(f.final[s], 0)).w)
  IN  IF f.start = None THEN f
      ELSE SetProperties(FoldLeft(final, mapped, InOrder(f, Finals(f))),
                         MapProperties(mapper, f.props))

---------------------------------------------------------------------------
(* weight_convert.rs: a machine over another semiring, given the           *)
(* transitions that take the place of its own, and those that take the     *)
(* place of its final weights.  One with a label leads to a superfinal     *)
(* state.                                                                  *)

WithSuperFinal(g, n) == IF NumStates(g) > n THEN g ELSE SetFinal(AddState(g), n, One)
ConvertFinal(g, n, s, t) ==
  IF t = None THEN g
  ELSE IF t.il = Eps /\ t.ol = Eps THEN SetFinal(g, s, t.w)
  ELSE SetFinal(AddTr(WithSuperFinal(g, n), s, [t EXCEPT !.ns = n]), s, None)
ConvertStates(f, trs, finals) ==
  FoldLeft(LAMBDA g, s : ConvertFinal(AddTrs(g, s, trs[s]), NumStates(f), s, finals[s]),
           SetStart(AddStates(NewFst, NumStates(f)), f.start), Upto(NumStates(f)))
WeightConvert(f, trs, finals, p) ==
  IF f.start = None THEN NewFst
  ELSE IF \E s \in StatesOf(f) : finals[s] = Err \/ Err \in {trs[s][i] : i \in DOMAIN trs[s]}
       THEN Err
  ELSE MoreProperties(ConvertStates(f, trs, finals), p)

---------------------------------------------------------------------------
(* encode/: each triple of labels and weight (the kind says what is        *)
(* encoded) becomes one label, and back.                                   *)

EncodeTuple(kind, t) ==
  <<t.il, IF "labels" \in kind THEN t.ol ELSE Eps,
    IF "weights" \in kind THEN t.w ELSE One>>

(* The tuples of the transitions and, when weights are encoded, of the     *)
(* final weights and of that of the superfinal state.                      *)
EncodeTable(f, kind) ==
  SetToSeq({EncodeTuple(kind, Arc(f, a)) : a \in Arcs(f)} \cup
           (IF "weights" \in kind
            THEN {EncodeTuple(kind, EpsTr(w, 0)) : w \in {f.final[s] : s \in Finals(f)} \cup {One}}
            ELSE {}))
EncodeTr(kind, table, t) ==
  LET label == CHOOSE i \in DOMAIN table : table[i] = EncodeTuple(kind, t)
  IN  [t EXCEPT !.il = label,
                !.ol = IF "labels" \in kind THEN label ELSE @,
                !.w = IF "weights" \in kind THEN One ELSE @]

EncodeProperties(kind, p) ==
  LET labels == IF "labels" \in kind THEN ILabelInvariant \cap OLabelInvariant
                ELSE CopyProperties
      weights == IF "weights" \in kind
                 THEN ILabelInvariant \cap WeightInvariant \cap AddSuperFinalMask
                 ELSE CopyProperties
  IN  (p \cap ((labels \cap weights) \cup {"I_DETERMINISTIC"}))
      \cup When("labels" \in kind, {"ACCEPTOR"})
      \cup When("weights" \in kind, {"UNWEIGHTED", "UNWEIGHTED_CYCLES"})

(* Encoded weights need a superfinal state to carry those of final states. *)
EncodeTrs(f, kind, table) ==
  ForEachTr(f, LAMBDA g, s, i : SetTr(g, s, i, EncodeTr(kind, table, g.trs[s][i])))
EncodeFinals(f, kind, table) ==
  LET n == NumStates(f)
      lead(g, s) ==
        SetFinal(AddTr(g, s, EncodeTr(kind, table, EpsTr(f.final[s], n))), s, None)
  IN  FoldLeft(lead, EncodeTrs(SetFinal(AddState(f), n, One), kind, table),
               InOrder(f, Finals(f)))
Encode(f, kind, table) ==
  IF f.start = None THEN f
  ELSE SetProperties(IF "weights" \in kind THEN EncodeFinals(f, kind, table)
                     ELSE EncodeTrs(f, kind, table),
                     EncodeProperties(kind, f.props))

DecodeTr(kind, table, t) ==
  IF t.il = Eps THEN t
  ELSE [t EXCEPT !.il = table[t.il][1],
                 !.ol = IF "labels" \in kind THEN table[t.il][2] ELSE @,
                 !.w = IF "weights" \in kind THEN table[t.il][3] ELSE @]
DecodeProperties(kind, p) ==
  p \cap (IF "labels" \in kind THEN ILabelInvariant \cap OLabelInvariant ELSE CopyProperties)
    \cap (IF "weights" \in kind
          THEN ILabelInvariant \cap WeightInvariant \cap RmSuperFinalMask
          ELSE CopyProperties)
DecodeTrs(f, kind, table) ==
  ForEachTr(f, LAMBDA g, s, i : SetTr(g, s, i, DecodeTr(kind, table, f.trs[s][i])))
Decode(f, kind, table) ==
  RmFinalEpsilon(
    IF f.start = None THEN f
    ELSE SetProperties(FoldLeft(LAMBDA g, s : SetFinal(g, s, f.final[s]),
                                DecodeTrs(f, kind, table), InOrder(f, Finals(f))),
                       DecodeProperties(kind, f.props)))

---------------------------------------------------------------------------
(* reweight.rs and push.rs, for potentials of every state.                 *)

ReweightTrs(f, d, toInitial) ==
  LET better(w, s, t) == IF toInitial THEN DivideLeft(Times(w, d[t]), d[s])
                         ELSE DivideRight(Times(d[s], w), d[t])
      arc(g, s, i) ==
        LET t == f.trs[s][i]
        IN  IF d[s] = Zero \/ d[t.ns] = Zero THEN g
            ELSE SetWeight(g, s, i, better(t.w, s, t.ns))
  IN  ForEachTr(f, arc)
ReweightFinals(f, d, toInitial, finals) ==
  FoldLeft(LAMBDA g, s :
             IF toInitial /\ d[s] = Zero THEN g
             ELSE SetFinal(g, s, IF toInitial THEN DivideLeft(g.final[s], d[s])
                                 ELSE Times(g.final[s], d[s])),
           f, finals)

(* The potential of the start state goes back on what leaves it, or on an  *)
(* epsilon transition from a new start state when it is on a cycle.        *)
Back(w, v, toInitial) ==
  IF toInitial THEN Times(v, w) ELSE Times(DivideRight(One, v), w)
StartTimes(f, Op(_)) ==
  LET arcs == FoldLeft(LAMBDA g, i : SetWeight(g, f.start, i, Op(g.trs[f.start][i].w)),
                       f, [i \in DOMAIN f.trs[f.start] |-> i])
  IN  IF f.final[f.start] = None THEN arcs
      ELSE SetFinal(arcs, f.start, Op(f.final[f.start]))
NewStart(f, w) ==
  SetStart(AddTr(AddState(f), NumStates(f), EpsTr(w, f.start)), NumStates(f))
ReweightStart(f, v, toInitial) ==
  IF "INITIAL_ACYCLIC" \in f.props THEN StartTimes(f, LAMBDA w : Back(w, v, toInitial))
  ELSE NewStart(f, Back(One, v, toInitial))
Reweighted(f, d, toInitial) ==
  IF f.start = None \/ d[f.start] \in {One, Zero} THEN f
  ELSE ReweightStart(ComputeAndUpdate(f, {"INITIAL_ACYCLIC"}), d[f.start], toInitial)
LessProperties(f) == SetProperties(f, ReweightProperties(f.props))
Reweight(f, d, toInitial) ==
  IF StatesOf(f) = {} THEN f
  ELSE LessProperties(Reweighted(ReweightFinals(ReweightTrs(f, d, toInitial), d, toInitial,
                                                InOrder(f, Finals(f))), d, toInitial))

(* What shortest_distance returns, to a final state or from the start      *)
(* state: the least solution of its equations. How the code arrives there, *)
(* queue by queue, is the subject of the module ShortestDistance.          *)
RECURSIVE DistancesFrom(_, _, _, _)
DistancesFrom(f, toFinal, base, v) ==
  LET near(a) == IF toFinal THEN a[1] ELSE Arc(f, a).ns
      longer(a) == IF toFinal THEN Times(Arc(f, a).w, v[Arc(f, a).ns]) ELSE Times(v[a[1]], Arc(f, a).w)
      next == [s \in StatesOf(f) |->
                 PlusAll(base[s], SetToSeq({longer(a) : a \in {b \in Arcs(f) : near(b) = s}}))]
  IN  IF next = v THEN v ELSE DistancesFrom(f, toFinal, base, next)
DistancesBy(f, toFinal, base) == DistancesFrom(f, toFinal, base, base)
Distances(f, toFinal) ==
  DistancesBy(f, toFinal, [s \in StatesOf(f) |-> IF toFinal THEN OrZero(f.final[s])
                                                 ELSE IF s = f.start THEN One ELSE Zero])

RemoveWeight(f, w, atFinal) ==
  IF w \in {One, Zero} THEN f
  ELSE IF atFinal
       THEN FoldLeft(LAMBDA g, s : SetFinal(g, s, DivideRight(g.final[s], w)), f,
                     InOrder(f, Finals(f)))
  ELSE IF f.start = None THEN f ELSE StartTimes(f, LAMBDA v : DivideLeft(v, w))

TotalWeight(f, d, toInitial) ==
  IF toInitial THEN (IF f.start = None THEN Zero ELSE d[f.start])
  ELSE FoldLeft(LAMBDA acc, s : Plus(acc, Times(d[s], OrZero(f.final[s]))),
                Zero, Upto(NumStates(f)))

PushBy(f, d, toInitial, removeTotal) ==
  RemoveWeight(Reweight(f, d, toInitial),
               IF removeTotal THEN TotalWeight(f, d, toInitial) ELSE One, ~toInitial)
PushWeights(f, toInitial, removeTotal) ==
  PushBy(f, Distances(f, toInitial), toInitial, removeTotal)
=============================================================================
