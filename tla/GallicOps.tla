----------------------------- MODULE GallicOps ------------------------------
(***************************************************************************)
(* Transducers as acceptors: the output labels move into gallic weights,   *)
(* pairs of a string and a number, or lists of such pairs, the acceptor is *)
(* determinized, minimized or pushed with the algorithms for any semiring, *)
(* its weights are factored so that each transition has one label at most, *)
(* and labels come out of them again.                                      *)
(***************************************************************************)
EXTENDS StructureOps
LOCAL INSTANCE SequencesExt

CONSTANTS Base,  \* the semiring of the numbers, as a record of Semirings
          Pair,  \* that of the pairs
          G      \* that of the weights: Pair, or the lists of such pairs

OfLists == G.zero # Pair.zero
GallicPlus(x, y) == IF x = Err \/ y = Err THEN Err ELSE G.plus[x, y]
GallicTimes(x, y) == IF x = Err \/ y = Err THEN Err ELSE G.times[x, y]
GallicLeft(x, y) == IF x = Err \/ y = Err THEN Err ELSE G.overLeft[x, y]
GallicRight(x, y) == IF x = Err \/ y = Err THEN Err ELSE G.overRight[x, y]

(* divisors.rs: of strings the first label, when they have it in common,   *)
(* and of numbers the sum.                                                 *)
Infinity == Pair.zero[1]
LabelCommonDivisor(s, t) ==
  CASE <<>> \in {s, t} -> <<>>
    [] s = Infinity -> <<Head(t)>>
    [] t = Infinity -> <<Head(s)>>
    [] OTHER -> IF Head(s) = Head(t) THEN <<Head(s)>> ELSE <<>>
PairDivisor(x, y) == <<LabelCommonDivisor(x[1], y[1]), Base.plus[x[2], y[2]]>>
ListDivisor(x) == IF x = Pair.zero THEN <<>> ELSE <<x>>
GallicCommonDivisor(x, y) ==
  IF OfLists THEN ListDivisor(FoldLeft(PairDivisor, Pair.zero, x \o y)) ELSE PairDivisor(x, y)

D == INSTANCE DeterminizeOps WITH
       Zero <- G.zero, One <- G.one, Plus <- GallicPlus, Times <- GallicTimes,
       DivideLeft <- GallicLeft, DivideRight <- GallicRight,
       CommonDivisor <- GallicCommonDivisor, MergeBeforeDivisor <- FALSE
M == INSTANCE Minimize WITH
       Zero <- G.zero, One <- G.one, Plus <- GallicPlus, Times <- GallicTimes,
       DivideLeft <- GallicLeft, DivideRight <- GallicRight

---------------------------------------------------------------------------
(* The weight converters: to gallic, with the input labels on both sides,  *)
(* and from gallic, where a string of more than one label is no label.     *)

Labels(l) == IF l = Eps THEN <<>> ELSE <<l>>
GallicOf(l, w) == IF OfLists THEN << <<Labels(l), w>> >> ELSE <<Labels(l), w>>
ToGallicTr(t) == [t EXCEPT !.ol = t.il, !.w = GallicOf(t.ol, t.w)]
ToGallicFinal(w) == IF w = None THEN None ELSE IF w = Zero THEN Err ELSE EpsTr(GallicOf(Eps, w), 0)
ToGallicProperties(p) == p \cap ProjectProperties(p, TRUE) \cap WeightInvariant
ToGallic(f) ==
  D!WeightConvert(f, [s \in StatesOf(f) |-> [i \in DOMAIN f.trs[s] |-> ToGallicTr(f.trs[s][i])]],
                  [s \in StatesOf(f) |-> ToGallicFinal(f.final[s])], ToGallicProperties(f.props))

Extracted(x) ==
  IF ~OfLists THEN x ELSE IF x = <<>> THEN <<<<>>, Zero>> ELSE IF Len(x) > 1 THEN Err ELSE x[1]
LabelOut(pair) ==
  IF pair = Err \/ pair[1] = Infinity \/ Len(pair[1]) > 1 THEN Err
  ELSE IF pair[1] = <<>> THEN Eps ELSE pair[1][1]
FromGallicTr(t) ==
  IF t.w = Err \/ t.il # t.ol THEN Err
  ELSE IF LabelOut(Extracted(t.w)) = Err THEN Err
  ELSE [t EXCEPT !.ol = LabelOut(Extracted(t.w)), !.w = Extracted(t.w)[2]]
FromGallicFinal(w) == IF w = None THEN None ELSE FromGallicTr(EpsTr(w, 0))
FromGallicProperties(p) == p \cap OLabelInvariant \cap WeightInvariant \cap AddSuperFinalMask
FromGallic(g) ==
  WeightConvert(g, [s \in StatesOf(g) |-> [i \in DOMAIN g.trs[s] |-> FromGallicTr(g.trs[s][i])]],
                [s \in StatesOf(g) |-> FromGallicFinal(g.final[s])], FromGallicProperties(g.props))

---------------------------------------------------------------------------
(* factor_weight: a weight of more than one label is cut after the first,  *)
(* a list of pairs into its pairs.  The rest waits in the state: an        *)
(* element is a state, or None once final, and the weight to come.         *)

StringFactor(s) == IF s \in {Infinity, <<>>} THEN <<>> ELSE << <<Head(s)>>, Tail(s) >>
FactorsOfPair(x) ==
  IF x[1] = Infinity \/ Len(x[1]) <= 1 THEN <<>>
  ELSE << << <<StringFactor(x[1])[1], x[2]>>, <<StringFactor(x[1])[2], One>> >> >>
LenLabels(s) == IF s = Infinity THEN 0 ELSE Len(s)
FactorOfList(x) ==
  LET cut == IF StringFactor(x[1]) = <<>> THEN << <<>>, <<>> >> ELSE StringFactor(x[1])
  IN  << << <<cut[1], x[2]>> >>, << <<cut[2], One>> >> >>
FactorsOfList(xs) ==
  IF xs = <<>> THEN <<>>
  ELSE IF Len(xs) = 1 /\ LenLabels(xs[1][1]) <= 1 THEN <<>>
  ELSE [k \in DOMAIN xs |-> FactorOfList(xs[k])]
Factors(w) ==
  IF w = Err THEN <<>> ELSE IF OfLists THEN FactorsOfList(w) ELSE FactorsOfPair(w)

Element(s, w) == [s |-> s, w |-> w]
Cut(t, to, factors) ==
  [k \in DOMAIN factors |-> [t EXCEPT !.w = factors[k][1], !.ns = Element(to, factors[k][2])]]
FactorTr(t, w, factors) ==
  IF factors = <<>> THEN <<[t EXCEPT !.w = w, !.ns = Element(t.ns, G.one)]>>
  ELSE Cut(t, t.ns, factors)
ElementWeight(f, x) == IF x.s = None THEN x.w ELSE GallicTimes(x.w, D!OrZero(f.final[x.s]))
FactorTrs(f, ofTrs, x) ==
  IF x.s = None THEN <<>>
  ELSE FlattenSeq([i \in DOMAIN f.trs[x.s] |->
         LET w == GallicTimes(x.w, f.trs[x.s][i].w)
         IN  FactorTr(f.trs[x.s][i], w, IF ofTrs THEN Factors(w) ELSE <<>>)])
FactorFinals(f, x) ==
  IF x.s # None /\ f.final[x.s] = None THEN <<>>
  ELSE Cut(EpsTr(Err, None), None, Factors(ElementWeight(f, x)))
ElementFinal(f, x) ==
  LET w == ElementWeight(f, x)
  IN  IF w = G.zero \/ Factors(w) # <<>> THEN None ELSE w

(* Always of the final weights, of the transitions when ofTrs. *)
RECURSIVE Elements(_, _, _, _)
Elements(f, ofTrs, known, trs) ==
  IF Len(trs) = Len(known) THEN [known |-> known, trs |-> trs]
  ELSE LET x == known[Len(trs) + 1]
           ts == FactorTrs(f, ofTrs, x) \o FactorFinals(f, x)
       IN  Elements(f, ofTrs, InternAll(known, ts), Append(trs, ts))
ElementStates(f, r) == D!Computed(r.known, r.trs, LAMBDA x : ElementFinal(f, x))
FactorWeight(f, ofTrs) ==
  IF f = Err THEN Err
  ELSE IF f.start = None THEN NewFst
  ELSE SetProperties(ElementStates(f, Elements(f, ofTrs, <<Element(f.start, G.one)>>, <<>>)),
                     FactorWeightProperties(f.props))

---------------------------------------------------------------------------
(* The three uses of all this. *)

Labelled(g) == IF g = Err THEN Err ELSE FromGallic(g)

DeterminizeGallic(f, limits) ==
  IF "LEFT_SEMIRING" \notin G.claims THEN Err
  ELSE Labelled(FactorWeight(D!DeterminizeFsa(ToGallic(f), limits), FALSE))

MinimizeGallic(f, deterministic) ==
  Labelled(FactorWeight(
    M!MinimizePushed(M!TrMap(M!PushWeights(ToGallic(f), TRUE, FALSE), "quantize"),
                     deterministic), TRUE))

(* push: the weights count for the potentials when they are pushed too.  Of *)
(* the total weight, the string and the number are removed on demand.      *)
ValuesOf(total, remove) ==
  <<IF "affix" \in remove THEN total[1] ELSE <<>>, IF "total" \in remove THEN total[2] ELSE One>>
PushedGallic(g, d, toInitial, remove) ==
  LET pushed == D!Reweight(g, d, toInitial)
  IN  IF remove = {} THEN pushed
      ELSE D!RemoveWeight(pushed, ValuesOf(D!TotalWeight(g, d, toInitial), remove), ~toInitial)
PushLabels(f, toInitial, weights, remove) ==
  Labelled(FactorWeight(
    PushedGallic(ToGallic(f),
                 D!Distances(ToGallic(IF weights THEN f ELSE TrMap(f, "rm_weight")), toInitial),
                 toInitial, remove), TRUE))
=============================================================================
