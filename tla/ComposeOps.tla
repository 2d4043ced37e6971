----------------------------- MODULE ComposeOps -----------------------------
(***************************************************************************)
(* The composition of two machines (algorithms/compose): pairs of states,  *)
(* with the state of a filter, are interned as they are reached; at each   *)
(* pair one machine's transitions are listed and the other's are looked up *)
(* by a matcher.                                                           *)
(*                                                                         *)
(* Lookahead composition (label_reachable.rs, lookahead_matchers,          *)
(* lookahead_filters): before a pair of transitions is kept, the machine   *)
(* that looks ahead is asked whether the other one's next state has        *)
(* anything it can read, and with what weight; that weight is pushed       *)
(* towards the start, and so is the label when there is one way to go on.  *)
(*                                                                         *)
(* A lookahead is [kind, side, flags, data]: side "ol" when the first      *)
(* machine looks ahead on its outputs, "il" when the second one does on    *)
(* its inputs; data is what "label" knows of it.                           *)
(***************************************************************************)
EXTENDS ComposeFilters
LOCAL INSTANCE SequencesExt
LOCAL INSTANCE FiniteSetsExt
LOCAL INSTANCE TLC

NoLookahead == [kind |-> "none", side |-> "ol", flags |-> {}, data |-> None]

---------------------------------------------------------------------------
(* Sets of intervals <<begin, end>>, end excluded, as sequences.           *)

Before(i, j) == i[1] < j[1] \/ (i[1] = j[1] /\ i[2] > j[2])
(* Sorted, overlapping and adjacent intervals joined. *)
Joined(I, i) ==
  IF I # <<>> /\ i[1] <= Last(I)[2]
  THEN [I EXCEPT ![Len(I)][2] = IF i[2] > @ THEN i[2] ELSE @]
  ELSE Append(I, i)
Normalized(I) == FoldLeft(Joined, <<>>, SortSeq(I, Before))
(* By binary search, in a normalized set. *)
Member(I, v) ==
  LET lower == Cardinality({k \in DOMAIN I : Before(I[k], <<v, v>>)})
  IN  lower > 0 /\ I[lower][2] > v

---------------------------------------------------------------------------
(* StateReachable: final states are numbered from 1 as the visit discovers *)
(* them, so that those a state reaches are few intervals of numbers.       *)

ReachInitState(f, v, s) ==
  IF OrZero(f.final[s]) = Zero THEN v
  ELSE [v EXCEPT !.isets[s] = Append(@, <<v.index, v.index + 1>>),
                 !.at[s] = v.index, !.index = @ + 1]
\* Mutant: what a visited state reaches is not added.
ReachCrossDropped(v, s, t) == v
ReachCrossTr(v, s, t) == [v EXCEPT !.isets[s] = @ \o v.isets[t]]
ReachFinishState(f, v, s, parent) ==
  LET closed == IF OrZero(f.final[s]) = Zero THEN v.isets[s]
                ELSE [v.isets[s] EXCEPT ![1][2] = v.index]
      w == [v EXCEPT !.isets[s] = Normalized(closed)]
  IN  IF parent = None THEN w ELSE [w EXCEPT !.isets[parent] = @ \o w.isets[s]]
ReachCall(f, v, c) ==
  CASE c.call = "init_state" -> ReachInitState(f, v, c.s)
    [] c.call = "forward_or_cross_tr" -> ReachCrossTr(v, c.s, c.t)
    [] c.call = "finish_state" -> ReachFinishState(f, v, c.s, c.t)
    [] OTHER -> v
ReachAcyclic(f) ==
  FoldLeft(LAMBDA v, c : ReachCall(f, v, c),
           [isets |-> [s \in StatesOf(f) |-> <<>>], at |-> [s \in StatesOf(f) |-> None],
            index |-> 1],
           DfsVisit(f))
(* With a cycle: of the components, which share what they reach. *)
OfComponents(r, scc) ==
  [isets |-> [s \in DOMAIN scc |-> r.isets[scc[s]]],
   at |-> [s \in DOMAIN scc |-> r.at[scc[s]]], index |-> r.index]
ReachBy(f, v) ==
  IF "ACYCLIC" \in v.props THEN ReachAcyclic(f)
  ELSE OfComponents(ReachAcyclic(CondenseBy(f, v)), v.scc)
StateReachable(f) == ReachBy(f, SccVisit(f))

---------------------------------------------------------------------------
(* LabelReachable: which labels are read first from a state, epsilons      *)
(* apart.  Labels become final states, and NoLabel the one that stands for *)
(* the final states of the machine.                                        *)

LabelsMet(f, side) ==
  LET labels(s) == SelectSeq([i \in DOMAIN f.trs[s] |-> f.trs[s][i][side]],
                             LAMBDA l : l # Eps)
                   \o (IF OrZero(f.final[s]) = Zero THEN <<>> ELSE <<NoLabel>>)
      meet(K, l) == IF Contains(K, l) THEN K ELSE Append(K, l)
  IN  FoldLeft(LAMBDA K, s : FoldLeft(meet, K, labels(s)), <<>>, Upto(NumStates(f)))

TransformFst(f, side, met) ==
  LET n == NumStates(f)
      start == n + Len(met)
      stateOf(l) == n - 1 + CHOOSE k \in DOMAIN met : met[k] = l
      redirected(t) == IF t[side] = Eps THEN t ELSE [t EXCEPT !.ns = stateOf(t[side])]
      led(s) == [i \in DOMAIN f.trs[s] |-> redirected(f.trs[s][i])]
                \o (IF OrZero(f.final[s]) = Zero THEN <<>>
                    ELSE <<[il |-> NoLabel, ol |-> NoLabel, w |-> f.final[s],
                            ns |-> stateOf(NoLabel)]>>)
      inner == [s \in 0..start-1 |-> IF s < n THEN led(s) ELSE <<>>]
      orphans == SelectSeq(Upto(start), LAMBDA q :
                   \A s \in 0..start-1 : \A i \in DOMAIN inner[s] : inner[s][i].ns # q)
  IN  [start |-> start,
       trs |-> [s \in 0..start |-> IF s < start THEN inner[s]
                  ELSE [k \in DOMAIN orphans |-> EpsTr(One, orphans[k])]],
       final |-> [s \in 0..start |-> IF s >= n /\ s < start THEN One
                    ELSE IF s < n /\ f.final[s] # None /\ OrZero(f.final[s]) = Zero
                         THEN Zero ELSE None],
       eps |-> [s \in 0..start |-> NoEpsCounted], props |-> NullProperties]

DataOf(f, side, met, r) ==
  [isets |-> [s \in StatesOf(f) |-> r.isets[s]], side |-> side,
   index |-> [l \in ToSet(met) |->
                r.at[NumStates(f) - 1 + CHOOSE k \in DOMAIN met : met[k] = l]]]
DataMet(f, side, met) == DataOf(f, side, met, StateReachable(TransformFst(f, side, met)))
ReachableData(f, side) == DataMet(f, side, LabelsMet(f, side))

(* Labels unknown to the data get numbers of their own, as they are met.   *)
Relabelling(known, f, side) ==
  LET name(index, t) == IF t[side] = Eps \/ t[side] \in DOMAIN index THEN index
                        ELSE (t[side] :> Cardinality(DOMAIN index) + 1) @@ index
  IN  FoldLeft(LAMBDA index, s : FoldLeft(name, index, f.trs[s]),
               known, Upto(NumStates(f)))
RelabelFst(index, f, side) ==
  LET named(t) == [t EXCEPT ![side] = IF @ = Eps THEN Eps ELSE index[@]]
  IN  TrSort(ForEachTr(f, LAMBDA g, s, i :
               SetLabels(g, s, i, named(f.trs[s][i]).il, named(f.trs[s][i]).ol)),
             side = "il")

ReachLabel(data, s, label) == label # Eps /\ Member(data.isets[s], label)
ReachFinal(data, s) ==
  NoLabel \in DOMAIN data.index /\ Member(data.isets[s], data.index[NoLabel])
(* Of transitions sorted by `side`, those that can be read from s: every   *)
(* one is tried when they are few, or every interval searched.             *)
Readable(data, s, ts, side) ==
  IF 2 * Len(ts) < Len(data.isets[s])
  THEN {i \in DOMAIN ts : ReachLabel(data, s, ts[i][side])}
  ELSE {i \in DOMAIN ts : \E k \in DOMAIN data.isets[s] :
          data.isets[s][k][1] <= ts[i][side] /\ ts[i][side] < data.isets[s][k][2]}

---------------------------------------------------------------------------
(* Lookahead matchers: what m, in state s, can read of l in state q;       *)
(* prefix is the one transition it can, if there is one and `prefix` is    *)
(* among the flags.                                                        *)

(* What a filter leaves of a pair that is not to be kept. *)
Dropped == [dropped |-> TRUE]
NoPrefix == EpsTr(One, None)
Sum(ws) == FoldSet(Plus, Zero, ws)
(* A way to go on has a weight, and is by a prefix or by none. *)
Way(at, w, prefix) == [at |-> at, w |-> w, prefix |-> prefix]
FinalWay(w) == IF w = Zero THEN {} ELSE {Way(<<0, 0>>, w, NoPrefix)}
(* Exactly one of the ways that count: it is the prefix, and its weight is *)
(* not pushed.                                                             *)
Answered(ways, single, weighted, base) ==
  [found |-> ways # {},
   prefix |-> IF single # {} THEN (CHOOSE x \in single : TRUE).prefix ELSE NoPrefix,
   weight |-> IF single # {} \/ ~weighted THEN One ELSE Plus(base, Sum({x.w : x \in ways}))]
TheOnly(ways) == IF Cardinality(ways) = 1 THEN ways ELSE {}

LabelWays(look, s, l, q) ==
  {Way(<<i, 0>>, l.trs[q][i].w, l.trs[q][i]) :
     i \in Readable(look.data, s, l.trs[q], OtherSide(look.side))}
  \cup FinalWay(IF ReachFinal(look.data, s) THEN OrZero(l.final[q]) ELSE Zero)
LabelAnswer(flags, ways) ==
  Answered(ways, IF "prefix" \in flags THEN {x \in TheOnly(ways) : x.prefix # NoPrefix} ELSE {},
           "weight" \in flags, Zero)
LabelLookahead(look, s, l, q) == LabelAnswer(look.flags, LabelWays(look, s, l, q))

(* Where both stop, an epsilon of the one or of the other, or a label that *)
(* both carry.                                                             *)
WaitWays(waits) == {Way(<<0, j>>, waits[j].w, NoPrefix) : j \in DOMAIN waits}
TrWays(look, m, s, ts) ==
  UNION {LET t == ts[i]
             on == t[OtherSide(look.side)]
             found == SortedMatches(m, s, look.side, on)
         IN  IF on = Eps THEN {Way(<<i, 0>>, t.w, NoPrefix)}
             ELSE {Way(<<i, j>>, Times(t.w, found[j].w), t) : j \in DOMAIN found} :
         i \in DOMAIN ts}
BothStop(m, s, l, q) == FinalWay(Times(OrZero(m.final[s]), OrZero(l.final[q])))
TrAnswer(flags, ways) ==
  LET whole == {"weight", "prefix"} \subseteq flags
      counted == IF "non_epsilon_prefix" \in flags
                 THEN {x \in ways : x.at[1] = 0 \/ x.at[2] # 0} ELSE ways
  IN  Answered(ways, IF whole THEN TheOnly(counted) ELSE {}, whole, One)
TrLookahead(look, m, s, l, q) ==
  TrAnswer(look.flags, BothStop(m, s, l, q) \cup TrWays(look, m, s, l.trs[q])
                         \cup WaitWays(SortedMatches(m, s, look.side, NoLabel)))

TrivialLookahead == [found |-> TRUE, prefix |-> NoPrefix, weight |-> One]

LookaheadFst(look, f1, f2, s, q) ==
  LET m == IF look.side = "ol" THEN f1 ELSE f2
      l == IF look.side = "ol" THEN f2 ELSE f1
  IN  CASE look.kind = "label" -> LabelLookahead(look, s, l, q)
        [] look.kind = "tr" -> TrLookahead(look, m, s, l, q)
        [] look.kind = "trivial" -> TrivialLookahead
LookaheadLabel(look, f1, f2, s, label) ==
  LET m == IF look.side = "ol" THEN f1 ELSE f2
  IN  CASE look.kind = "label" -> label = Eps \/ ReachLabel(look.data, s, label)
        [] look.kind = "tr" -> SortedMatches(m, s, look.side, label) # <<>>
        [] look.kind = "trivial" -> TRUE

---------------------------------------------------------------------------
(* Lookahead filters, each around the one before.  A kept pair is          *)
(* [t1, t2, fs, w, label]: the transitions as the filters leave them, and  *)
(* the filter state: that of the epsilon filter, the weight and the label  *)
(* that were pushed ahead of this pair.                                    *)

Ahead(side, t1, t2) == IF side = "ol" THEN t1 ELSE t2
Behind(side, t1, t2) == IF side = "ol" THEN t2 ELSE t1

(* LookAheadComposeFilter: `looked` says whether its answer is known.      *)
Looks(look, labela) ==
  IF labela = Eps THEN "epsilons" \in look.flags ELSE "non_epsilons" \in look.flags
LookaheadOf(look, f1, f2, t1, t2) ==
  LookaheadFst(look, f1, f2, Ahead(look.side, t1, t2).ns, Behind(look.side, t1, t2).ns)
KeptAhead(fs, looked, answer) ==
  IF fs = None \/ ~answer.found THEN Dropped
  ELSE [fs |-> fs, looked |-> looked, answer |-> answer]
LookaheadFilter(conf, f1, f2, x, t1, t2) ==
  LET looked == Looks(conf.look, Ahead(conf.look.side, t1, t2)[conf.look.side])
  IN  KeptAhead(FilterTr(conf.filter, f1, f2, x, t1, t2), looked,
                IF looked THEN LookaheadOf(conf.look, f1, f2, t1, t2) ELSE TrivialLookahead)

(* PushWeightsComposeFilter: the weight pushed to this pair is taken back. *)
PushWeightsFilter(look, x, t1, t2, l) ==
  LET w == IF l.looked /\ "weight" \in look.flags THEN l.answer.weight ELSE One
  IN  IF l = Dropped \/ w = Zero THEN Dropped
      ELSE [t1 |-> t1, w |-> w, by |-> l,
            t2 |-> IF "weight" \in look.flags
                   THEN [t2 EXCEPT !.w = DivideLeft(Times(@, w), x.w)] ELSE t2]

Paired(p, label) ==
  [t1 |-> p.t1, t2 |-> p.t2, fs |-> p.by.fs, w |-> p.w, label |-> label]
(* PushLabelsComposeFilter. *)
PushLabel(look, p) ==
  LET a == Ahead(look.side, p.t1, p.t2)
      b == Behind(look.side, p.t1, p.t2)
      prefix == p.by.answer.prefix
      label == prefix[OtherSide(look.side)]
      pushed == [a EXCEPT ![look.side] = label]
      taken == [prefix EXCEPT !.w = Times(b.w, @)]
  IN  IF \/ b[look.side] # Eps \/ prefix.ns = None
         \/ a[look.side] # Eps /\ "non_epsilon_prefix" \in look.flags
      THEN Paired(p, NoLabel)
      ELSE IF look.side = "ol" THEN Paired([p EXCEPT !.t1 = pushed, !.t2 = taken], label)
      ELSE Paired([p EXCEPT !.t1 = taken, !.t2 = pushed], label)

FilterStart == [fs |-> 0, w |-> One, label |-> NoLabel]
(* Where a label is pending, only the machine that looks ahead moves, up   *)
(* to the transition that carries it.                                      *)
\* Mutant: the way to the label is not looked for.
PushedLabelAnywhere(look, f1, f2, x, t1, t2) ==
  LET a == Ahead(look.side, t1, t2)
      none == [a EXCEPT ![look.side] = Eps]
      carried == a[look.side] = x.label
  IN  IF Behind(look.side, t1, t2)[OtherSide(look.side)] # NoLabel THEN Dropped
      ELSE IF ~carried THEN Dropped
      ELSE [t1 |-> IF look.side = "ol" THEN none ELSE t1,
            t2 |-> IF look.side = "ol" THEN t2 ELSE none] @@ FilterStart
PushedLabel(look, f1, f2, x, t1, t2) ==
  LET a == Ahead(look.side, t1, t2)
      f == IF look.side = "ol" THEN f1 ELSE f2
      s == IF look.side = "ol" THEN x.s1 ELSE x.s2
      eps == [a EXCEPT ![look.side] = Eps]
      read == [t1 |-> IF look.side = "ol" THEN eps ELSE t1,
               t2 |-> IF look.side = "ol" THEN t2 ELSE eps]
  IN  IF Behind(look.side, t1, t2)[OtherSide(look.side)] # NoLabel THEN Dropped
      ELSE IF a[look.side] = x.label THEN read @@ FilterStart
      ELSE IF a[look.side] = Eps
              /\ (Len(f.trs[s]) = 1 \/ LookaheadLabel(look, f1, f2, a.ns, x.label))
      THEN read @@ [fs |-> x.fs, w |-> x.w, label |-> x.label]
      ELSE Dropped

PushLabelsFilter(look, f1, f2, x, t1, t2, p) ==
  IF "prefix" \in look.flags /\ x.label # NoLabel
  THEN PushedLabel(look, f1, f2, x, t1, t2)
  ELSE IF p = Dropped THEN Dropped
  ELSE IF "prefix" \in look.flags /\ p.by.looked THEN PushLabel(look, p)
  ELSE Paired(p, NoLabel)

(* Final weights lose what was pushed, and a pending label is never read.  *)
LookaheadFinal(look, x, w) ==
  IF w = Zero \/ ("prefix" \in look.flags /\ x.label # NoLabel) THEN Zero
  ELSE IF "weight" \in look.flags THEN DivideLeft(w, x.w) ELSE w

(* MultiEpsMatcher: a pending label counts as an epsilon of the machine    *)
(* that looks ahead, and the other one waits for it.                       *)
MultiEpsMatches(look, f, s, side, pending, label) ==
  IF pending = NoLabel THEN SortedMatches(f, s, side, label)
  ELSE IF side = look.side /\ label = NoLabel
  THEN SortedMatches(f, s, side, pending) \o SortedMatches(f, s, side, NoLabel)
  ELSE IF side # look.side /\ label = pending THEN <<ImplicitLoop(s, side)>>
  ELSE SortedMatches(f, s, side, label)

---------------------------------------------------------------------------
(* What is made ready: a machine that looks ahead by labels is relabelled  *)
(* so that those it reaches are intervals, and the other one likewise; the *)
(* other kinds take machines that are sorted.                              *)

(* The side, when the caller leaves it to the matchers. *)
LookaheadSide(look, f1, f2) ==
  IF look.side # "both" THEN look.side ELSE IF CanMatch(f1, "ol") THEN "ol" ELSE "il"

PreparedSorted(look, f1, f2) ==
  [f1 |-> f1, f2 |-> f2, look |-> [look EXCEPT !.side = LookaheadSide(look, f1, f2)]]
PreparedLabels(look, f1, f2, data, index) ==
  [f1 |-> RelabelFst(index, f1, "ol"), f2 |-> RelabelFst(index, f2, "il"),
   look |-> [look EXCEPT !.data = data]]
BothIndex(look, f1, f2, index) ==
  LET first == IF look.side = "ol" THEN f1 ELSE f2
      second == IF look.side = "ol" THEN f2 ELSE f1
  IN  Relabelling(Relabelling(index, first, look.side), second, OtherSide(look.side))
PreparedBy(look, f1, f2, data) ==
  PreparedLabels(look, f1, f2, data, BothIndex(look, f1, f2, data.index))
Prepared(look, f1, f2) ==
  IF look.kind = "label"
  THEN PreparedBy(look, f1, f2, ReachableData(IF look.side = "ol" THEN f1 ELSE f2, look.side))
  ELSE PreparedSorted(look, TrSort(f1, FALSE), TrSort(f2, TRUE))

LookaheadProperties(look, p) ==
  p \cap WeightInvariant \cap (IF look.side = "ol" THEN OLabelInvariant ELSE ILabelInvariant)

---------------------------------------------------------------------------
(* The operation: the transitions of a pair, in the order they are pushed. *)

(* The transitions as the filter leaves them, and its next state. *)
Unfiltered(fs, t1, t2) ==
  IF fs = None THEN Dropped ELSE [t1 |-> t1, t2 |-> t2, fs |-> fs, w |-> One, label |-> NoLabel]
Filtered(conf, f1, f2, x, t1, t2) ==
  IF conf.look.kind = "none"
  THEN Unfiltered(FilterTr(conf.filter, f1, f2, x, t1, t2), t1, t2)
  ELSE PushLabelsFilter(conf.look, f1, f2, x, t1, t2,
         PushWeightsFilter(conf.look, x, t1, t2, LookaheadFilter(conf, f1, f2, x, t1, t2)))
Pushed(p) ==
  IF p = Dropped THEN <<>>
  ELSE << [il |-> p.t1.il, ol |-> p.t2.ol, w |-> Times(p.t1.w, p.t2.w),
           ns |-> [s1 |-> p.t1.ns, s2 |-> p.t2.ns, fs |-> p.fs, w |-> p.w,
                   label |-> p.label]] >>
Pair(f1, f2, conf, x, t1, t2) == Pushed(Filtered(conf, f1, f2, x, t1, t2))
Found(f, s, side, conf, x, label) ==
  IF conf.look.kind = "none" THEN Matches(f, s, side, conf.sigma[side], label)
  ELSE MultiEpsMatches(conf.look, f, s, side, x.label, label)

(* Each of the listed transitions with the ones found for it. *)
Couples(listed, Find(_), Both(_, _)) ==
  FlattenSeq([i \in DOMAIN listed |->
    [j \in DOMAIN Find(listed[i]) |-> Both(listed[i], Find(listed[i])[j])]])
CouplesAt(f1, f2, conf, x) ==
  IF MatchInput(f1, f2, conf, x.s1, x.s2)
  THEN Couples(<<ImplicitLoop(x.s1, "ol")>> \o f1.trs[x.s1],
               LAMBDA t : Found(f2, x.s2, "il", conf, x, t.ol), LAMBDA t, u : <<t, u>>)
  ELSE Couples(<<ImplicitLoop(x.s2, "il")>> \o f2.trs[x.s2],
               LAMBDA t : Found(f1, x.s1, "ol", conf, x, t.il), LAMBDA t, u : <<u, t>>)
PairsOf(f1, f2, conf, x, couples) ==
  FlattenSeq([k \in DOMAIN couples |-> Pair(f1, f2, conf, x, couples[k][1], couples[k][2])])
ComputeTrs(f1, f2, conf, x) == PairsOf(f1, f2, conf, x, CouplesAt(f1, f2, conf, x))

ComputeFinal(f1, f2, conf, x) ==
  LET both == Times(OrZero(f1.final[x.s1]), OrZero(f2.final[x.s2]))
      w == IF conf.look.kind = "none" THEN both ELSE LookaheadFinal(conf.look, x, both)
  IN  IF w = Zero THEN None ELSE w

Start(f1, f2) ==
  [s1 |-> f1.start, s2 |-> f2.start, fs |-> 0, w |-> One, label |-> NoLabel]
RECURSIVE Pairing(_, _, _, _, _)
Pairing(f1, f2, conf, known, trs) ==
  IF Len(trs) = Len(known) THEN [known |-> known, trs |-> trs]
  ELSE LET ts == ComputeTrs(f1, f2, conf, known[Len(trs) + 1])
       IN  Pairing(f1, f2, conf, InternAll(known, ts), Append(trs, ts))
AllPairings(f1, f2, conf) == Pairing(f1, f2, conf, <<Start(f1, f2)>>, <<>>)

(* The pairs as states of a VectorFst, with the bits the operation promises. *)
StatesFrom(f1, f2, conf, p) ==
  Computed(p.known, p.trs, LAMBDA x : ComputeFinal(f1, f2, conf, x))
Promises(f1, f2, conf) ==
  LET p == ComposeProperties(f1.props, f2.props)
  IN  IF conf.look.kind = "none" THEN p ELSE LookaheadProperties(conf.look, p)
Materialized(f1, f2, conf) ==
  SetProperties(StatesFrom(f1, f2, conf, AllPairings(f1, f2, conf)), Promises(f1, f2, conf))

SigmaFails(f1, f2, conf, known) ==
  \E k \in DOMAIN known :
    \/ SigmaClash(f1, f2, conf, known[k].s1, known[k].s2)
    \/ SigmaRead(f1, f2, conf, known[k].s1, known[k].s2)
ComposeFails(f1, f2, conf) ==
  \/ ~Composable(f1, f2, conf)
  \/ /\ None \notin {f1.start, f2.start}
     /\ \E side \in Sides : conf.sigma[side].label # NoLabel
     /\ SigmaFails(f1, f2, conf, AllPairings(f1, f2, conf).known)
Trimmed(f, connect) == IF connect THEN Connect(f) ELSE f
Compose(f1, f2, conf) ==
  Trimmed(IF None \in {f1.start, f2.start} THEN NewFst ELSE Materialized(f1, f2, conf),
          conf.connect)
=============================================================================
