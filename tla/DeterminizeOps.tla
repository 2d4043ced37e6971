--------------------------- MODULE DeterminizeOps ---------------------------
(***************************************************************************)
(* Determinization of acceptors over any semiring (determinize_fsa_op.rs). *)
(* A state of the result is a weighted subset: the states reached with a   *)
(* label, each with what its weight leaves after the common divisor, and   *)
(* the filter state, which only tells the start subset from the others.    *)
(***************************************************************************)
EXTENDS StructureOps
LOCAL INSTANCE SequencesExt

CONSTANTS CommonDivisor(_, _),  \* CD::common_divisor
          MergeBeforeDivisor    \* CD::MERGE_BEFORE_DIVISOR

Subset(weights, filter) == [weights |-> weights, filter |-> filter]
StartSubset(f) == Subset([s \in {f.start} |-> One], f.start)

(* compute_trs for one label: the states it leads to, with their weights,  *)
(* in the order they are met.                                              *)
Leaving(f, subset, l) ==
  FlattenSeq([k \in 1..Cardinality(DOMAIN subset.weights) |->
    LET s == InOrder(f, DOMAIN subset.weights)[k]
        ts == SelectSeq(f.trs[s], LAMBDA t : t.il = l)
    IN  [i \in DOMAIN ts |-> <<ts[i].ns, Times(subset.weights[s], ts[i].w)>>]])

(* norm_tr: the divisor is that of all the weights, one after the other;   *)
(* states met twice are added up, and the divisor is divided out.  Where   *)
(* the divisor is the sum the code adds up first, for the same result.     *)
Weights(pairs) == [k \in DOMAIN pairs |-> pairs[k][2]]
Divisor(pairs) == FoldLeft(LAMBDA v, w : CommonDivisor(v, w), Zero, Weights(pairs))
SumOf(pairs, s) == PlusAll(Zero, Weights(SelectSeq(pairs, LAMBDA x : x[1] = s)))
StatesMet(pairs) == {pairs[k][1] : k \in DOMAIN pairs}
\* Mutant: the common weight is not divided out of the subset.
NormedUndivided(pairs, divisor) ==
  [w |-> divisor, to |-> Subset([s \in StatesMet(pairs) |-> SumOf(pairs, s)], 0)]
Normed(pairs, divisor) ==
  [w |-> divisor,
   to |-> Subset([s \in StatesMet(pairs) |-> DivideLeft(SumOf(pairs, s), divisor)], 0)]
NormTr(pairs) == Normed(pairs, Divisor(StableSort(pairs, LAMBDA x : x[1])))

LabelsOf(f, subset) ==
  SetToSortSeq({t.il : t \in UNION {ToSet(f.trs[s]) : s \in DOMAIN subset.weights}}, <)
NormedTr(l, normed) == [il |-> l, ol |-> l, w |-> normed.w, ns |-> normed.to]
SubsetTrs(f, subset) ==
  LET labels == LabelsOf(f, subset)
  IN  [i \in DOMAIN labels |-> NormedTr(labels[i], NormTr(Leaving(f, subset, labels[i])))]
SubsetFinal(f, subset) ==
  LET w == FoldLeft(LAMBDA acc, s : Plus(acc, Times(subset.weights[s], OrZero(f.final[s]))),
                    Zero, InOrder(f, DOMAIN subset.weights))
  IN  IF w = Zero THEN None ELSE w

(* The limits of determinization: on the states found, on the elements of  *)
(* the subsets in the table with those of the subset being expanded, and   *)
(* on the transitions written.                                             *)
Unlimited == 1000000
AtMost(n) == [states |-> n, elements |-> Unlimited, trs |-> Unlimited]
Stored(known) == FoldLeft(LAMBDA n, x : n + Cardinality(DOMAIN x.weights), 0, known)
Expansion(f, subset) ==
  LET elements(pairs) == IF MergeBeforeDivisor THEN Cardinality(StatesMet(pairs)) ELSE Len(pairs)
  IN  FoldLeft(LAMBDA n, l : n + elements(Leaving(f, subset, l)), 0, LabelsOf(f, subset))
Written(trs) == FoldLeft(LAMBDA n, ts : n + Len(ts), 0, trs)

(* compute_bounded expands the subsets in the order they are found and     *)
(* stops with an error past a limit, or when a weight is none.             *)
PastLimit(f, known, more, trs, ts, limits) ==
  \/ Stored(known) + Expansion(f, known[Len(trs) + 1]) > limits.elements
  \/ Stored(more) > limits.elements
  \/ Written(trs) + Len(ts) > limits.trs
  \/ Len(more) > limits.states
Unweighable(f, subset, ts) ==
  \/ SubsetFinal(f, subset) = Err
  \/ \E i \in DOMAIN ts : Err \in {ts[i].ns.weights[s] : s \in DOMAIN ts[i].ns.weights}
NoSubsets == [known |-> <<>>, trs |-> <<>>]
RECURSIVE Subsets(_, _, _, _)
Subsets(f, known, trs, limits) ==
  IF Len(trs) = Len(known) THEN [known |-> known, trs |-> trs]
  ELSE LET ts == SubsetTrs(f, known[Len(trs) + 1])
           more == InternAll(known, ts)
       IN  IF PastLimit(f, known, more, trs, ts, limits)
                \/ Unweighable(f, known[Len(trs) + 1], ts)
           THEN NoSubsets ELSE Subsets(f, more, Append(trs, ts), limits)
AllSubsets(f, limits) ==
  IF f.start = None THEN NoSubsets ELSE Subsets(f, <<StartSubset(f)>>, <<>>, limits)

(* No bits are known of the lazy machine. *)
SubsetStates(f, r) ==
  IF r = NoSubsets THEN Err
  ELSE SetProperties(Computed(r.known, r.trs, LAMBDA x : SubsetFinal(f, x)), {})
DeterminizeFsa(f, limits) ==
  IF "ACCEPTOR" \notin f.props THEN Err
  ELSE IF f.start = None THEN NewFst
  ELSE SubsetStates(f, AllSubsets(f, limits))
=============================================================================
