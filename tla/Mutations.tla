----------------------------- MODULE Mutations -----------------------------
(***************************************************************************)
(* The operations of VectorFst (fst_impls/vector_fst, trs_iter_mut.rs) as  *)
(* operators from machines to machines, which every static algorithm is    *)
(* written with.  A machine carries, beside its states, the property bits  *)
(* (`props`) and, for every state, the number of its input and output      *)
(* epsilon transitions (`eps`); each mutation updates both from what it    *)
(* changes, and nothing recomputes them from the states.                   *)
(***************************************************************************)
EXTENDS FstProperties

(***************************************************************************)
(* mutate_properties.rs: the bits of the result of a mutation or of an     *)
(* algorithm, from the bits of its operands.  Every operator is named for  *)
(* its function; p, q are sets of bits.                                    *)
(***************************************************************************)

(* The bits of `bits` if the condition holds. *)
When(condition, bits) == IF condition THEN bits ELSE {}

---------------------------------------------------------------------------
(* Mutations of one machine.                                               *)

SetStartProperties(p) ==
  (p \cap SetStartMask) \cup When("ACYCLIC" \in p, {"INITIAL_ACYCLIC"})

(* Leaving a non trivial weight forgets WEIGHTED, entering one sets it. *)
Reweighed(p, old, new) ==
  LET left == IF old # None /\ ~Trivial(old) THEN p \ {"WEIGHTED"} ELSE p
  IN  IF new # None /\ ~Trivial(new)
      THEN (left \cup {"WEIGHTED"}) \ {"UNWEIGHTED"} ELSE left

SetFinalProperties(p, old, new) ==
  Reweighed(p, old, new) \cap (SetFinalMask \cup Wtd)

AddStateProperties(p) == p \cap AddStateMask

(* The names a transition of s gives or refutes, prev the one before it.   *)
Witnessed(s, t, prev) ==
  UNION {When(t.il # t.ol, {"NOT_ACCEPTOR"}),
         When(t.il = Eps, {"I_EPSILONS"}),
         When(t.ol = Eps, {"O_EPSILONS"}),
         When(t.il = Eps /\ t.ol = Eps, {"EPSILONS"}),
         When(prev # <<>> /\ prev[1].il > t.il, {"NOT_I_LABEL_SORTED"}),
         When(prev # <<>> /\ prev[1].ol > t.ol, {"NOT_O_LABEL_SORTED"}),
         When(~Trivial(t.w), {"WEIGHTED"}),
         When(t.ns <= s, {"NOT_TOP_SORTED"})}
Opposite(bits) ==
  UNION {When("NOT_ACCEPTOR" \in bits, {"ACCEPTOR"}),
         When("I_EPSILONS" \in bits, {"NO_I_EPSILONS"}),
         When("O_EPSILONS" \in bits, {"NO_O_EPSILONS"}),
         When("EPSILONS" \in bits, {"NO_EPSILONS"}),
         When("NOT_I_LABEL_SORTED" \in bits, {"I_LABEL_SORTED"}),
         When("NOT_O_LABEL_SORTED" \in bits, {"O_LABEL_SORTED"}),
         When("WEIGHTED" \in bits, {"UNWEIGHTED"}),
         When("NOT_TOP_SORTED" \in bits, {"TOP_SORTED"})}

Learnt(p, w) ==
  ((p \cup w) \ Opposite(w))
     \cap (AddArcMask \cup NoEps \cup {"ACCEPTOR", "I_LABEL_SORTED", "O_LABEL_SORTED",
                                       "UNWEIGHTED", "TOP_SORTED"})
AcyclicIfSorted(p) == p \cup When("TOP_SORTED" \in p, Acyc)
AddTrProperties(p, s, t, prev) == AcyclicIfSorted(Learnt(p, Witnessed(s, t, prev)))

DeleteStatesProperties(p) == p \cap DeleteStatesMask
DeleteAllStatesProperties == NullProperties
DeleteTrsProperties(p) == p \cap DeleteArcsMask

---------------------------------------------------------------------------
(* Rational operations.  `delayed` is true of the lazy form.               *)

ClosureProperties(p, delayed) ==
  LET acc == ~delayed \/ "ACCESSIBLE" \in p
  IN  (p \cap {"ACCEPTOR", "UNWEIGHTED", "ACCESSIBLE"})
      \cup When("UNWEIGHTED" \in p, {"UNWEIGHTED_CYCLES"})
      \cup When(~delayed, p \cap {"COACCESSIBLE", "NOT_TOP_SORTED", "NOT_STRING"})
      \cup When(acc, p \cap ({"NOT_ACCEPTOR", "WEIGHTED", "WEIGHTED_CYCLES",
                              "NOT_ACCESSIBLE", "NOT_COACCESSIBLE"}
                             \cup NotDetSorted))
      \cup When(acc /\ {"WEIGHTED", "ACCESSIBLE", "COACCESSIBLE"} \subseteq p,
                {"WEIGHTED_CYCLES"})

(* What a larger machine keeps of a machine it contains. *)
Contained == {"NOT_ACCEPTOR", "WEIGHTED", "WEIGHTED_CYCLES", "CYCLIC",
              "NOT_ACCESSIBLE", "NOT_COACCESSIBLE"} \cup HasEps \cup NotDetSorted

\* Mutant: the second machine is taken to be reached.
ConcatPropertiesReached(p, q, delayed) ==
  (p \cap q \cap {"ACCEPTOR", "UNWEIGHTED", "UNWEIGHTED_CYCLES", "ACYCLIC"})
  \cup (p \cap (ICyc \cup Contained))
  \cup (q \cap ({"ACCESSIBLE", "COACCESSIBLE"} \cup Contained))
ConcatProperties(p, q, delayed) ==
  (p \cap q \cap {"ACCEPTOR", "UNWEIGHTED", "UNWEIGHTED_CYCLES", "ACYCLIC"})
  \cup When(~delayed, (p \cup q) \cap {"NOT_TOP_SORTED", "NOT_STRING"})
  \cup When(~delayed, p \cap ICyc)
  \cup When(~delayed \/ "ACCESSIBLE" \in p, p \cap Contained)
  \cup When(~delayed /\ {"ACCESSIBLE", "COACCESSIBLE"} \subseteq p,
            q \cap ({"ACCESSIBLE", "COACCESSIBLE"} \cup Contained))

UnionProperties(p, q, delayed) ==
  (p \cap q \cap {"ACCEPTOR", "UNWEIGHTED", "UNWEIGHTED_CYCLES", "ACYCLIC",
                  "ACCESSIBLE"})
  \cup {"INITIAL_ACYCLIC"}
  \cup When(~delayed, ((p \cup q) \cap {"NOT_TOP_SORTED"}) \cup HasEps
                        \cup (p \cap q \cap {"COACCESSIBLE"}))
  \cup When(~delayed \/ "ACCESSIBLE" \in p, p \cap (Contained \ {"NOT_COACCESSIBLE"}))
  \cup When(~delayed \/ "ACCESSIBLE" \in q, q \cap Contained)

ReverseProperties(p, superinitial) ==
  (p \cap ({"UNWEIGHTED"} \cup Acc \cup HasEps \cup Cyc \cup WCyc))
  \cup When(superinitial, p \cap {"WEIGHTED"})

(* `how` says what labels calls and returns carry (callEps, callOutEps,      *)
(* returnEps, returnOutEps), whether calls make the machine a transducer,  *)
(* and what is known of the machines: noEmpty, allISorted, allOSorted, and *)
(* whether the nonterminals are the first labels (dense).                  *)
ReplaceProperties(ps, root, how) ==
  LET all == {ps[k] : k \in DOMAIN ps}
      every(b) == \A p \in all : b \in p
      access == how.noEmpty /\ every("ACCESSIBLE") /\ every("COACCESSIBLE")
      some == (UNION all) \cap
                (HasEps \cup {"NOT_I_DETERMINISTIC", "NOT_O_DETERMINISTIC",
                 "WEIGHTED", "WEIGHTED_CYCLES", "CYCLIC", "NOT_TOP_SORTED",
                 "NOT_STRING"} \cup When(how.transducer, {"NOT_ACCEPTOR"}))
  IN  IF all = {} THEN NullProperties
      ELSE UNION
       {When(access, some \cup {"ACCESSIBLE", "COACCESSIBLE"}
                          \cup (ps[root] \cap {"INITIAL_CYCLIC"})
                          \cup When(every("STRING"), {"STRING"})),
        When(~how.transducer /\ every("ACCEPTOR"), {"ACCEPTOR"}),
        When(/\ ~how.callEps /\ how.returnEps /\ every("I_DETERMINISTIC")
             /\ \A k \in DOMAIN ps : k # root => "NO_I_EPSILONS" \in ps[k],
             {"I_DETERMINISTIC"}),
        When(~how.callEps /\ ~how.returnEps /\ every("NO_I_EPSILONS"), {"NO_I_EPSILONS"}),
        When(every("ACYCLIC"), {"ACYCLIC"}),
        When(every("UNWEIGHTED"), {"UNWEIGHTED"}),
        ps[root] \cap {"INITIAL_ACYCLIC"},
        When(how.allISorted /\ how.returnEps /\ (~how.callEps \/ how.dense), {"I_LABEL_SORTED"}),
        When(how.allOSorted /\ how.returnOutEps /\ (~how.callOutEps \/ how.dense),
             {"O_LABEL_SORTED"})}

---------------------------------------------------------------------------
(* Labels.                                                                 *)

(* The answers about input labels become answers about output labels and   *)
(* the reverse.                                                            *)
Mirrored(p, fromInput, toOutput) ==
  UNION {When(fromInput[i] \in p, {toOutput[i]}) : i \in DOMAIN fromInput}
InputNames == <<"I_DETERMINISTIC", "NOT_I_DETERMINISTIC", "I_EPSILONS",
                "NO_I_EPSILONS", "I_LABEL_SORTED", "NOT_I_LABEL_SORTED">>
OutputNames == <<"O_DETERMINISTIC", "NOT_O_DETERMINISTIC", "O_EPSILONS",
                 "NO_O_EPSILONS", "O_LABEL_SORTED", "NOT_O_LABEL_SORTED">>
ShapePairs == Wtd \cup Cycles \cup Top \cup Reached \cup Str

InvertProperties(p) ==
  (p \cap (Acc \cup BothEps \cup ShapePairs))
  \cup Mirrored(p, InputNames, OutputNames)
  \cup Mirrored(p, OutputNames, InputNames)

ProjectProperties(p, input) ==
  LET from == IF input THEN InputNames ELSE OutputNames
      to   == IF input THEN OutputNames ELSE InputNames
  IN  {"ACCEPTOR"} \cup (p \cap ShapePairs)
      \cup {from[i] : i \in {j \in DOMAIN from : from[j] \in p}}
      \cup Mirrored(p, from, to)
      \cup When(from[3] \in p, {"EPSILONS"})
      \cup When(from[4] \in p, {"NO_EPSILONS"})

RelabelProperties(p) == p \cap ShapePairs

---------------------------------------------------------------------------
(* Composition, determinization, weights, paths.                           *)

ComposeProperties(p, q) ==
  LET both == p \cap q
      noEps == "NO_I_EPSILONS" \in both
  IN  {"ACCESSIBLE"}
      \cup IF "ACCEPTOR" \in both
           THEN {"ACCEPTOR"} \cup (both \cap (NoEps \cup Acyc))
                \cup When(noEps, both \cap {"I_DETERMINISTIC", "O_DETERMINISTIC"})
           ELSE (both \cap ({"NO_I_EPSILONS"} \cup Acyc))
                \cup When(noEps, both \cap {"I_DETERMINISTIC"})

DeterminizeProperties(p, subsequential, distinct) ==
  {"ACCESSIBLE"}
  \cup When(\/ "ACCEPTOR" \in p
            \/ distinct /\ ("NO_I_EPSILONS" \in p \/ subsequential),
            {"I_DETERMINISTIC"})
  \cup (p \cap ({"ACCEPTOR", "COACCESSIBLE", "STRING"} \cup Acyc))
  \cup When("NO_I_EPSILONS" \in p /\ distinct, p \cap {"NO_EPSILONS"})
  \cup When("ACCESSIBLE" \in p, p \cap {"I_EPSILONS", "O_EPSILONS", "CYCLIC"})
  \cup When("ACCEPTOR" \in p, p \cap {"NO_I_EPSILONS", "NO_O_EPSILONS"})
  \cup When("NO_I_EPSILONS" \in p /\ subsequential, {"NO_I_EPSILONS"})

FactorWeightProperties(p) ==
  (p \cap {"ACCEPTOR", "ACYCLIC", "ACCESSIBLE", "COACCESSIBLE"})
  \cup When("ACCESSIBLE" \in p,
            p \cap ({"NOT_ACCEPTOR", "CYCLIC"} \cup HasEps \cup NotDetSorted))

ReweightProperties(p) == (p \cap WeightInvariant) \ {"COACCESSIBLE"}

RmEpsilonProperties(p, delayed) ==
  {"NO_EPSILONS"} \cup (p \cap ({"ACCEPTOR"} \cup Acyc))
  \cup When("ACCEPTOR" \in p, {"NO_I_EPSILONS", "NO_O_EPSILONS"})
  \cup When(~delayed, p \cap {"TOP_SORTED"})
  \cup When(~delayed \/ "ACCESSIBLE" \in p, p \cap {"NOT_ACCEPTOR"})

RandGenProperties(p, weighted) ==
  Acyc \cup {"ACCESSIBLE", "UNWEIGHTED_CYCLES"}
  \cup IF weighted THEN {"TOP_SORTED"} \cup (p \cap ({"ACCEPTOR"} \cup NoEps \cup DetSorted))
       ELSE {"UNWEIGHTED"} \cup (p \cap {"ACCEPTOR", "I_LABEL_SORTED", "O_LABEL_SORTED"})

ShortestPathProperties(p, tree) ==
  p \cup {"ACCESSIBLE", "UNWEIGHTED_CYCLES"} \cup Acyc
    \cup When(~tree, {"COACCESSIBLE"})

---------------------------------------------------------------------------
(* Machines and their mutations.                                           *)

Sides == {"il", "ol"}
EpsIn(ts, side) == Cardinality({i \in DOMAIN ts : ts[i][side] = Eps})
NoEpsCounted == [side \in Sides |-> 0]

---------------------------------------------------------------------------
(* Mutations.                                                              *)

NewFst == [start |-> None, trs |-> <<>>, final |-> <<>>, eps |-> <<>>,
           props |-> NullProperties]

SetStart(f, s) ==
  [f EXCEPT !.start = s, !.props = SetStartProperties(@)]

(* set_final, and with w = None delete_final_weight and take_final_weight. *)
SetFinal(f, s, w) ==
  [f EXCEPT !.final[s] = w, !.props = SetFinalProperties(@, f.final[s], w)]

(* add_state and add_states: the bits are updated once, even for none. *)
AddStates(f, n) ==
  LET m == NumStates(f)
      extend(g, v) == [s \in 0..m+n-1 |-> IF s < m THEN g[s] ELSE v]
  IN  [f EXCEPT !.trs = extend(@, <<>>), !.final = extend(@, None),
                !.eps = extend(@, NoEpsCounted), !.props = AddStateProperties(@)]
AddState(f) == AddStates(f, 1)

LastOf(ts) == IF ts = <<>> THEN <<>> ELSE <<ts[Len(ts)]>>
AddTr(f, s, t) ==
  [f EXCEPT !.trs[s] = Append(@, t),
            !.eps[s] = [side \in Sides |-> @[side] + IF t[side] = Eps THEN 1 ELSE 0],
            !.props = AddTrProperties(@, s, t, LastOf(f.trs[s]))]

(* set_trs_unchecked: the bits take the new transitions in, and the bits   *)
(* the old ones gave stay.                                                 *)
SetTrs(f, s, ts) ==
  LET bits[i \in 0..Len(ts)] ==
        IF i = 0 THEN f.props
        ELSE AddTrProperties(bits[i-1], s, ts[i], LastOf(SubSeq(ts, 1, i-1)))
  IN  [f EXCEPT !.trs[s] = ts,
                !.eps[s] = [side \in Sides |-> EpsIn(ts, side)],
                !.props = bits[Len(ts)]]

(* delete_trs and pop_trs. *)
DeleteTrs(f, s) ==
  [f EXCEPT !.trs[s] = <<>>, !.eps[s] = NoEpsCounted,
            !.props = DeleteTrsProperties(@)]

(* The elements of ts at the positions of I, in order. *)
Keep(ts, I) ==
  LET rank(i) == Cardinality({j \in I : j <= i})
  IN  [k \in 1..Cardinality(I) |-> ts[CHOOSE i \in I : rank(i) = k]]

(* del_trs_id_sorted_unchecked *)
DelTrsId(f, s, del) ==
  LET left == Keep(f.trs[s], DOMAIN f.trs[s] \ del)
      gone == Keep(f.trs[s], del)
  IN  [f EXCEPT !.trs[s] = left,
                !.eps[s] = [side \in Sides |-> @[side] - EpsIn(gone, side)],
                !.props = IF left = <<>> THEN DeleteTrsProperties(@)
                          ELSE @ \cap (DeleteArcsMask \ Acyc)]

(* del_states: the states kept move down in order, the transitions to the  *)
(* deleted ones go.                                                        *)
NewId(kept, s) == Cardinality({t \in kept : t < s})
OldId(kept, k) == CHOOSE s \in kept : NewId(kept, s) = k

DelStates(f, gone) ==
  LET kept == StatesOf(f) \ gone
      ids == 0..Cardinality(kept)-1
      into(s, D) == {i \in DOMAIN f.trs[s] : f.trs[s][i].ns \in D}
      moved(ts) == [i \in DOMAIN ts |-> [ts[i] EXCEPT !.ns = NewId(kept, @)]]
      left(s) == moved(Keep(f.trs[s], into(s, kept)))
      epsLeft(s) == [side \in Sides |->
                       f.eps[s][side] - EpsIn(Keep(f.trs[s], into(s, gone)), side)]
  IN  [start |-> IF f.start \in kept THEN NewId(kept, f.start) ELSE None,
       trs   |-> [k \in ids |-> left(OldId(kept, k))],
       final |-> [k \in ids |-> f.final[OldId(kept, k)]],
       eps   |-> [k \in ids |-> epsLeft(OldId(kept, k))],
       props |-> DeleteStatesProperties(f.props)]

DelAllStates(f) == [NewFst EXCEPT !.props = DeleteAllStatesProperties]

(* What a mutable iterator keeps, whatever it sets (trs_iter_mut.rs). *)
RelevantMask == LabelPairs \cup Wtd

(* update_properties_labels: the names of the old labels go, those of the  *)
(* new ones come.                                                          *)
LabelNames == {"NOT_ACCEPTOR"} \cup HasEps
\* Mutant: the names the new labels refute stay.
RelabelledOnlyAdds(p, s, old, new) ==
  (p \ (Witnessed(s, old, <<>>) \cap LabelNames))
    \cup (Witnessed(s, new, <<>>) \cap LabelNames)
Relabelled(p, s, old, new) ==
  LET w == Witnessed(s, new, <<>>) \cap LabelNames
  IN  ((p \ (Witnessed(s, old, <<>>) \cap LabelNames)) \cup w) \ Opposite(w)

\* Mutant: the counters are left alone.
RewriteNotCounted(f, s, i, t, p) ==
  [f EXCEPT !.trs[s][i] = t, !.props = p \cap RelevantMask]
(* TrsIterMut: one transition of s changes in place. *)
Rewrite(f, s, i, t, p) ==
  LET one(x, side) == IF x[side] = Eps THEN 1 ELSE 0
  IN  [f EXCEPT !.trs[s][i] = t,
                !.eps[s] = [side \in Sides |->
                              @[side] - one(f.trs[s][i], side) + one(t, side)],
                !.props = p \cap RelevantMask]
SetLabels(f, s, i, il, ol) ==
  LET new == [f.trs[s][i] EXCEPT !.il = il, !.ol = ol]
  IN  Rewrite(f, s, i, new, Relabelled(f.props, s, f.trs[s][i], new))
SetWeight(f, s, i, w) ==
  Rewrite(f, s, i, [f.trs[s][i] EXCEPT !.w = w],
          Reweighed(f.props, f.trs[s][i].w, w))
SetNextState(f, s, i, n) ==
  Rewrite(f, s, i, [f.trs[s][i] EXCEPT !.ns = n], f.props)
SetTr(f, s, i, t) ==
  LET old == f.trs[s][i]
  IN  Rewrite(f, s, i, t, Reweighed(Relabelled(f.props, s, old, t), old.w, t.w))

SetProperties(f, p) == [f EXCEPT !.props = p]
=============================================================================
