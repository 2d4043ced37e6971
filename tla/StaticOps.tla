----------------------------- MODULE StaticOps -----------------------------
(***************************************************************************)
(* The algorithms that rewrite a machine in place or build another one     *)
(* with the mutations of VectorFst: rational operations, labels, epsilon   *)
(* and superfinal states, trimming, sorting, weights.  Every operator      *)
(* takes machines and returns the machine, its bits included, that the     *)
(* function of the same name leaves.                                       *)
(***************************************************************************)
EXTENDS Mutations, Visits
LOCAL INSTANCE SequencesExt

EpsTr(w, n) == [il |-> Eps, ol |-> Eps, w |-> w, ns |-> n]

(* 0, 1, .., n-1: states are visited in this order. *)
Upto(n) == [i \in 1..n |-> i - 1]
InOrder(f, S) == SelectSeq(Upto(NumStates(f)), LAMBDA s : s \in S)
AddTrs(f, s, ts) == FoldLeft(LAMBDA g, t : AddTr(g, s, t), f, ts)

(* A mutable iterator over all the transitions. *)
ForEachTr(f, Op(_, _, _)) ==
  FoldLeft(LAMBDA g, s : FoldLeft(LAMBDA h, i : Op(h, s, i), g,
                                  [i \in DOMAIN f.trs[s] |-> i]),
           f, Upto(NumStates(f)))

---------------------------------------------------------------------------
(* compute_fst_properties.rs *)

Pairs == {Acc, IDet, ODet, BothEps, IEps, OEps, ISort, OSort, Wtd, Cyc, ICyc,
          Top, Access, Coaccess, Str, WCyc}
KnownProperties(p) == UNION {pair \in Pairs : pair \cap p # {}}
DfsProperties == Cyc \cup ICyc \cup Reached

(* One scan of the transitions and final weights, given the components.    *)
Scan(f, mask, scc) ==
  LET n == NumStates(f)
      straight == \A s \in StatesOf(f) :
                    /\ \A i \in DOMAIN f.trs[s] : f.trs[s][i].ns = s + 1
                    /\ s \in Finals(f) \/ Len(f.trs[s]) = 1
                    /\ \A t \in Finals(f) : t >= s
      trivial == /\ AllArcs(f, LAMBDA t : Trivial(t.w))
                 /\ \A s \in Finals(f) : f.final[s] = One
      flat == \A s \in StatesOf(f) : \A i \in DOMAIN f.trs[s] :
                scc[s] = scc[f.trs[s][i].ns] => Trivial(f.trs[s][i].w)
  IN  (Truth(f) \cap (LabelPairs \cup Sorted \cup Top \cup When(mask \cap IDet # {}, IDet)
                        \cup When(mask \cap ODet # {}, ODet)))
      \cup Says("UNWEIGHTED", "WEIGHTED", trivial)
      \cup When(mask \cap (WCyc \cup DfsProperties) # {},
                Says("UNWEIGHTED_CYCLES", "WEIGHTED_CYCLES", flat))
      \cup Says("STRING", "NOT_STRING", straight /\ f.start \in {None, 0})

Answers(f, mask, v) ==
  When(mask \cap (DfsProperties \cup WCyc) # {}, v.props)
    \cup When(mask \ DfsProperties # {}, Scan(f, mask, v.scc))
ComputeFstProperties(f, mask) ==
  IF mask \subseteq KnownProperties(f.props) THEN f.props ELSE Answers(f, mask, SccVisit(f))

(* update_properties_with_mask and compute_and_update_properties. *)
UpdateProperties(f, p) == SetProperties(f, (f.props \ KnownProperties(p)) \cup p)
ComputeAndUpdate(f, mask) == UpdateProperties(f, ComputeFstProperties(f, mask))

---------------------------------------------------------------------------
(* Rational operations.                                                    *)

Closure(f, star) ==
  LET n == NumStates(f)
      looped == IF f.start = None THEN f
                ELSE FoldLeft(LAMBDA g, s : AddTr(g, s, EpsTr(f.final[s], f.start)),
                              f, InOrder(f, Finals(f)))
      added == AddState(looped)
      entered == IF f.start = None THEN added
                 ELSE AddTr(added, n, EpsTr(One, f.start))
      starred == SetFinal(SetStart(entered, n), n, One)
  IN  SetProperties(IF star THEN starred ELSE looped,
                    ClosureProperties(f.props, FALSE))

(* The states of g after those of f. *)
Appended(f, g) ==
  LET n == NumStates(f)
      shift(ts) == [i \in DOMAIN ts |-> [ts[i] EXCEPT !.ns = @ + n]]
      copy(h, s) ==
        LET a == AddState(h)
            b == IF g.final[s] = None THEN a ELSE SetFinal(a, n + s, g.final[s])
        IN  AddTrs(b, n + s, shift(g.trs[s]))
  IN  FoldLeft(copy, f, Upto(NumStates(g)))

UnionStart(f, both, to1, to2) ==
  LET fresh == NumStates(both)
  IN  IF "INITIAL_ACYCLIC" \in f.props THEN AddTr(both, f.start, to2)
      ELSE AddTrs(SetStart(AddState(both), fresh), fresh, <<to1, to2>>)
UnionKnown(f, f2, both) ==
  IF f2.start = None THEN f
  ELSE IF f.start = None
       THEN SetProperties(SetStart(both, f2.start), f2.props)
       ELSE SetProperties(UnionStart(f, both, EpsTr(One, f.start),
                                 EpsTr(One, f2.start + NumStates(f))),
                          UnionProperties(f.props, f2.props, FALSE))
Union(f1, f2) ==
  UnionKnown(ComputeAndUpdate(f1, {"INITIAL_ACYCLIC"}), f2, Appended(f1, f2))

Concat(f1, f2) ==
  LET n == NumStates(f1)
      link(g, s) ==
        LET h == IF f2.start = None THEN g
                 ELSE AddTr(g, s, EpsTr(f1.final[s], f2.start + n))
        IN  SetFinal(h, s, None)
      linked == FoldLeft(link, Appended(f1, f2), InOrder(f1, Finals(f1)))
  IN  IF f1.start = None THEN f1
      ELSE IF f2.start = None THEN linked
      ELSE SetProperties(linked, ConcatProperties(f1.props, f2.props, FALSE))

(* State s of f becomes s + 1; 0 is the superinitial state. *)
EnteringTrs(f, s) ==
  FoldLeft(LAMBDA acc, q :
             acc \o [k \in DOMAIN SelectSeq(f.trs[q], LAMBDA t : t.ns = s) |->
                       [SelectSeq(f.trs[q], LAMBDA t : t.ns = s)[k] EXCEPT !.ns = q + 1]],
           <<>>, Upto(NumStates(f)))
ReverseTrs(f, blank, toFinals) ==
  SetStart(FoldLeft(LAMBDA g, s : SetTrs(g, s + 1, EnteringTrs(f, s)),
                    SetTrs(IF f.start = None THEN blank ELSE SetFinal(blank, f.start + 1, One),
                           0, toFinals),
                    Upto(NumStates(f))), 0)
MoreProperties(f, p) == SetProperties(f, p \cup f.props)
ReverseFst(f) ==
  LET finals == InOrder(f, Finals(f))
  IN  MoreProperties(
        ReverseTrs(f, AddStates(AddState(NewFst), NumStates(f)),
                   [k \in DOMAIN finals |-> EpsTr(f.final[finals[k]], finals[k] + 1)]),
        ReverseProperties(f.props, TRUE))

---------------------------------------------------------------------------
(* Labels.                                                                 *)

Invert(f) ==
  SetProperties(ForEachTr(f, LAMBDA g, s, i :
                  SetLabels(g, s, i, f.trs[s][i].ol, f.trs[s][i].il)),
                InvertProperties(f.props))

Project(f, input) ==
  LET on(s, i) == IF input THEN f.trs[s][i].il ELSE f.trs[s][i].ol
  IN  SetProperties(ForEachTr(f, LAMBDA g, s, i : SetLabels(g, s, i, on(s, i), on(s, i))),
                    ProjectProperties(f.props, input))

(* relabel_pairs, with pairs given as functions; no bits are set at the end. *)
RelabelPairs(f, ipairs, opairs) ==
  LET of(pairs, l) == IF l \in DOMAIN pairs THEN pairs[l] ELSE l
      relabel(g, s, i) ==
        LET t == f.trs[s][i]
        IN  IF t.il \notin DOMAIN ipairs /\ t.ol \notin DOMAIN opairs THEN g
            ELSE SetLabels(g, s, i, of(ipairs, t.il), of(opairs, t.ol))
  IN  ForEachTr(f, relabel)

(* Transitions of every state in the order of a key; the sort is stable. *)
StableSort(ts, Key(_)) ==
  LET rank(i) == Cardinality({j \in DOMAIN ts : \/ Key(ts[j]) < Key(ts[i])
                                                \/ Key(ts[j]) = Key(ts[i]) /\ j <= i})
  IN  [k \in DOMAIN ts |-> ts[CHOOSE i \in DOMAIN ts : rank(i) = k]]
SortTrs(f, Key(_)) == [f EXCEPT !.trs = [s \in StatesOf(f) |-> StableSort(@[s], Key)]]

TrSort(f, input) ==
  LET own == IF input THEN "I_LABEL_SORTED" ELSE "O_LABEL_SORTED"
  IN  SetProperties(SortTrs(f, LAMBDA t : IF input THEN t.il ELSE t.ol),
        (f.props \cap ArcSortMask) \cup {own}
          \cup When("ACCEPTOR" \in f.props, {"I_LABEL_SORTED", "O_LABEL_SORTED"}))

(* tr_compare: labels and next state, never the weight. *)
TrKey(t) == 10000 * t.il + 100 * t.ol + t.ns
\* Mutant: merged transitions are still counted.
RecountNothing(f) == f
Recount(f) ==
  [f EXCEPT !.eps = [s \in StatesOf(f) |-> [side \in Sides |-> EpsIn(f.trs[s], side)]]]

(* sum_trs_unchecked: runs of equal transitions are added up. *)
SumRun(ts) ==
  FoldLeft(LAMBDA acc, t :
             IF acc # <<>> /\ TrKey(acc[Len(acc)]) = TrKey(t)
             THEN [acc EXCEPT ![Len(acc)].w = Plus(@, t.w)] ELSE Append(acc, t),
           <<>>, ts)
TrSum(f) ==
  LET sorted == SortTrs(f, TrKey)
      summed == Recount([sorted EXCEPT !.trs = [s \in StatesOf(f) |-> SumRun(@[s])]])
  IN  SetProperties(summed,
        (f.props \cap ArcSortMask \cap DeleteArcsMask \cap WeightInvariant)
          \cup When(StatesOf(f) = {}, NullProperties))

(* unique_trs_unchecked: equal neighbours, weight included, are merged. *)
Dedup(ts) ==
  FoldLeft(LAMBDA acc, t : IF acc # <<>> /\ acc[Len(acc)] = t THEN acc
                           ELSE Append(acc, t), <<>>, ts)
TrUnique(f) ==
  LET sorted == SortTrs(f, TrKey)
      unique == Recount([sorted EXCEPT !.trs = [s \in StatesOf(f) |-> Dedup(@[s])]])
  IN  SetProperties(unique,
        (f.props \cap ((ArcSortMask \cap DeleteArcsMask) \cup Reached))
          \cup When(StatesOf(f) = {}, NullProperties))

---------------------------------------------------------------------------
(* A lazy machine made static (compute): its states have tuples for names, *)
(* which are interned in the order they are met; that is also the order in *)
(* which compute_bounded comes to them.  Transitions have tuples for next  *)
(* states until all are known.                                             *)

InternAll(known, ts) ==
  FoldLeft(LAMBDA K, t : IF Contains(K, t.ns) THEN K ELSE Append(K, t.ns), known, ts)
SetExpanded(g, s, ts, w) ==
  IF w = None THEN SetTrs(g, s, ts) ELSE SetFinal(SetTrs(g, s, ts), s, w)
Computed(known, trs, FinalOf(_)) ==
  LET state(x) == (CHOOSE k \in DOMAIN known : known[k] = x) - 1
      expand(g, s) ==
        SetExpanded(g, s, [i \in DOMAIN trs[s + 1] |-> [trs[s + 1][i] EXCEPT !.ns = state(@)]],
                    FinalOf(known[s + 1]))
  IN  FoldLeft(expand, SetStart(AddStates(NewFst, Len(known)), 0), Upto(Len(known)))
=============================================================================
