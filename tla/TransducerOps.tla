--------------------------- MODULE TransducerOps ----------------------------
(***************************************************************************)
(* The algorithms that go through gallic weights when a machine is not an  *)
(* acceptor (determinize, minimize and push); rm_epsilon as it rewrites a  *)
(* machine (rm_epsilon_static.rs), bits and order of the states included;  *)
(* and optimize (optimize.rs), the chain of them that the bits choose.     *)
(* How the distances of one expansion of rm_epsilon come from those of the *)
(* one before is modelled by RmEpsilon.                                    *)
(***************************************************************************)
EXTENDS Minimize, PathOps
LOCAL INSTANCE SequencesExt

CONSTANT Base   \* the semiring of the numbers, as a record of Semirings

LOCAL Weights == INSTANCE Semirings WITH Half <- 1, Delta <- 1

LeftWeight == Weights!GallicWeight("left", Base)
RightWeight == Weights!GallicWeight("right", Base)
RestrictWeight == Weights!GallicWeight("restrict", Base)
MinWeight == Weights!GallicWeight("min", Base)
GeneralWeight == Weights!UnionWeight(Base)

OnLeft == INSTANCE GallicOps WITH Pair <- LeftWeight, G <- LeftWeight
OnRight == INSTANCE GallicOps WITH Pair <- RightWeight, G <- RightWeight
Functional == INSTANCE GallicOps WITH Pair <- RestrictWeight, G <- RestrictWeight
Disambiguate == INSTANCE GallicOps WITH Pair <- MinWeight, G <- MinWeight
NonFunctional == INSTANCE GallicOps WITH Pair <- RestrictWeight, G <- GeneralWeight

---------------------------------------------------------------------------
(* determinize_with_config.  The bits are those of the operand, whatever   *)
(* the machine built is known to be.                                       *)

DeterminizeTypes == {"functional", "nonfunctional", "disambiguate"}
DeterminizeFst(f, type, limits) ==
  CASE type = "functional" -> Functional!DeterminizeGallic(f, limits)
    [] type = "nonfunctional" -> NonFunctional!DeterminizeGallic(f, limits)
    [] type = "disambiguate" ->
         IF "PATH" \in Base.claims THEN Disambiguate!DeterminizeGallic(f, limits) ELSE Err
Determinized(f, type, result) ==
  IF result = Err THEN Err
  ELSE SetProperties(result,
         DeterminizeProperties(f.props, FALSE, type # "nonfunctional")
           \cup When("ACCEPTOR" \in f.props, {"I_LABEL_SORTED", "O_LABEL_SORTED"}))
Determinize(f, type, limits) ==
  Determinized(f, type, IF "ACCEPTOR" \in f.props THEN Det!DeterminizeFsa(f, limits)
                        ELSE DeterminizeFst(f, type, limits))

(* minimize_with_config.  A nondeterministic machine is minimized only on  *)
(* demand, over an idempotent semiring.                                    *)
Refused(f, allowNondet) ==
  "I_DETERMINISTIC" \notin f.props /\ ("IDEMPOTENT" \notin Base.claims \/ ~allowNondet)
MinimizeAny(f) ==
  IF "ACCEPTOR" \in f.props THEN MinimizeKnown(f)
  ELSE OnLeft!MinimizeGallic(f, "I_DETERMINISTIC" \in f.props)
MinimizeWithConfig(f, allowNondet) ==
  IF Refused(f, allowNondet) THEN Err ELSE MinimizeAny(f)
MinimizeFst(f, allowNondet) == MinimizeWithConfig(Known(f), allowNondet)

(* push_with_config. *)
Push(f, toInitial, types) ==
  CASE "labels" \in types /\ toInitial ->
         OnLeft!PushLabels(f, TRUE, "weights" \in types, types \cap {"affix", "total"})
    [] "labels" \in types /\ ~toInitial ->
         OnRight!PushLabels(f, FALSE, "weights" \in types, types \cap {"affix", "total"})
    [] "labels" \notin types /\ "weights" \in types ->
         PushWeights(f, toInitial, "total" \in types)
    [] OTHER -> f

---------------------------------------------------------------------------
(* rm_epsilon. *)

IsEpsTr(t) == t.il = Eps /\ t.ol = Eps
EpsOnly(f) == [f EXCEPT !.trs = [s \in StatesOf(f) |-> SelectSeq(@[s], IsEpsTr)]]

(* RmEpsilonState::expand: a walk of the closure of a state, the last met  *)
(* state first; transitions that differ in weight only become one.         *)
AddElement(ts, t) ==
  LET same == {i \in DOMAIN ts : ts[i].il = t.il /\ ts[i].ol = t.ol /\ ts[i].ns = t.ns}
  IN  IF same = {} THEN Append(ts, t)
      ELSE [ts EXCEPT ![CHOOSE i \in same : TRUE].w = Plus(@, t.w)]
ExpandAt(f, d, v, s) ==
  LET weighted == [i \in DOMAIN f.trs[s] |-> [f.trs[s][i] EXCEPT !.w = Times(d[s], @)]]
      met == SelectSeq(weighted, LAMBDA t : IsEpsTr(t) /\ t.ns \notin v.visited \cup {s})
  IN  [queue |-> Front(v.queue) \o [k \in DOMAIN met |-> met[k].ns],
       visited |-> v.visited \cup {s},
       trs |-> FoldLeft(AddElement, v.trs, SelectSeq(weighted, LAMBDA t : ~IsEpsTr(t))),
       final |-> Plus(v.final, Times(d[s], OrZero(f.final[s])))]
RECURSIVE ExpandWalk(_, _, _)
ExpandWalk(f, d, v) ==
  IF v.queue = <<>> THEN v
  ELSE IF Last(v.queue) \in v.visited THEN ExpandWalk(f, d, [v EXCEPT !.queue = Front(@)])
  ELSE ExpandWalk(f, d, ExpandAt(f, d, v, Last(v.queue)))
ExpandState(f, s) ==
  ExpandWalk(f, Distances([EpsOnly(f) EXCEPT !.start = s], FALSE),
             [queue |-> <<s>>, visited |-> {}, trs |-> <<>>, final |-> Zero])

(* The order the bits allow: by number; topological; or by components,     *)
(* the states of one from the last to the first.                           *)
Positions(order, n) == [k \in 1..n |-> CHOOSE s \in DOMAIN order : order[s] = k - 1]
ComponentOrder(f, scc) ==
  FlattenSeq([c \in 1..NumStates(f) |->
                Reverse(InOrder(f, {s \in StatesOf(f) : scc[s] = c - 1}))])
ExpansionOrder(f) ==
  CASE "TOP_SORTED" \in f.props -> Upto(NumStates(f))
    [] "TOP_SORTED" \notin f.props /\ "ACYCLIC" \in f.props ->
         Positions(TopOrder(EpsOnly(f)).order, NumStates(f))
    [] OTHER -> ComponentOrder(f, SccVisit(EpsOnly(f)).scc)

NonEpsTargets(f) ==
  {f.start} \cup {Arc(f, a).ns : a \in {b \in Arcs(f) : ~IsEpsTr(Arc(f, b))}}
RmEpsilonAt(f, s) ==
  LET v == ExpandState(f, s)
  IN  SetFinal(SetTrs(DeleteTrs(f, s), s, Reverse(v.trs)), s,
               IF v.final = Zero THEN None ELSE v.final)
RmEpsilonFst(f) ==
  LET kept == NonEpsTargets(f)
      expanded == FoldLeft(LAMBDA g, s : IF s \in kept THEN RmEpsilonAt(g, s) ELSE g,
                           f, Reverse(ExpansionOrder(f)))
      bare == FoldLeft(LAMBDA g, s : DeleteTrs(g, s), expanded, InOrder(f, StatesOf(f) \ kept))
  IN  IF f.start = None THEN f
      ELSE Connect(SetProperties(bare, RmEpsilonProperties(bare.props, FALSE)))

---------------------------------------------------------------------------
(* optimize: an acceptor is determinized and minimized as it is, a         *)
(* transducer with its labels encoded; weights are encoded where they may  *)
(* keep it from being determinizable.                                      *)

MinimizeAfter(f) == IF f = Err THEN Err ELSE MinimizeFst(f, FALSE)
DecodeAfter(f, kind, table) ==
  IF f = Err \/ kind = {} THEN f ELSE Decode(f, kind, table)
SumAfter(f, kind) == IF f = Err \/ "weights" \notin kind THEN f ELSE TrSum(f)
EncodeDeterMiniDecode(f, kind, max) ==
  LET table == EncodeTable(f, kind)
      encoded == IF kind = {} THEN f ELSE Encode(f, kind, table)
      deterministic == IF "I_DETERMINISTIC" \in f.props THEN f
                       ELSE Determinize(encoded, "functional", Det!AtMost(max))
  IN  SumAfter(DecodeAfter(MinimizeAfter(deterministic), kind, table), kind)

Safe == {"ACYCLIC", "UNWEIGHTED", "UNWEIGHTED_CYCLES"}
Encoder(f, acceptor) ==
  IF "I_DETERMINISTIC" \in f.props THEN {}
  ELSE When(~acceptor, {"labels"})
       \cup When("IDEMPOTENT" \in Base.claims /\ f.props \cap Safe = {}, {"weights"})
LeftAsIs(f) ==
  "IDEMPOTENT" \notin Base.claims /\ f.props \cap {"I_DETERMINISTIC", "ACYCLIC"} = {}
OptimizeSummed(f, acceptor, max) ==
  IF LeftAsIs(f) THEN f ELSE EncodeDeterMiniDecode(f, Encoder(f, acceptor), max)
Optimize(f, max) ==
  OptimizeSummed(TrSum(IF "NO_EPSILONS" \in f.props THEN f ELSE RmEpsilonFst(f)),
                 "ACCEPTOR" \in f.props, max)
=============================================================================
