--------------------------- MODULE ComposeFilters ---------------------------
(***************************************************************************)
(* What composition (algorithms/compose) is made of: matchers, which look  *)
(* up the transitions of a state that carry a label, and epsilon filters,  *)
(* which keep of the ways to interleave epsilons one.  A transition        *)
(* labelled NoLabel is the implicit loop of a machine that stays while     *)
(* the other one reads an epsilon.                                         *)
(*                                                                         *)
(* A configuration is [filter, connect, sigma, look]; sigma[side] is a     *)
(* matcher's: [label |-> NoLabel, ..] is the plain SortedMatcher; look     *)
(* says what is looked ahead (ComposeOps).                                 *)
(***************************************************************************)
EXTENDS StructureOps
LOCAL INSTANCE SequencesExt

NoLabel == -1
PlainMatcher == [label |-> NoLabel, rewrite |-> "never", allowed |-> {}]
Filters == {"sequence", "alt_sequence", "match", "no_match", "null", "trivial"}
OtherSide(side) == IF side = "il" THEN "ol" ELSE "il"

---------------------------------------------------------------------------
(* Matchers.  Their machine is sorted by `side`, so the transitions that   *)
(* carry a label are the ones binary search finds.                         *)

ImplicitLoop(s, side) == [EpsTr(One, s) EXCEPT ![side] = NoLabel]
SortedMatches(f, s, side, label) ==
  (IF label = Eps THEN <<ImplicitLoop(s, side)>> ELSE <<>>)
  \o SelectSeq(f.trs[s], LAMBDA t : t[side] = IF label = NoLabel THEN Eps ELSE label)

HasSigma(f, s, side, m) ==
  m.label # NoLabel /\ SortedMatches(f, s, side, m.label) # <<>>
RewriteBoth(f, m) ==
  m.rewrite = "always" \/ (m.rewrite = "auto" /\ "ACCEPTOR" \in f.props)
(* A transition labelled sigma reads any label that no other one reads.    *)
SigmaTr(f, side, m, t, label) ==
  [x \in DOMAIN t |->
     IF x = side \/ (RewriteBoth(f, m) /\ x \in Sides /\ t[x] = m.label)
     THEN label ELSE t[x]]
Matches(f, s, side, m, label) ==
  LET exact == SortedMatches(f, s, side, label)
      sigma == SortedMatches(f, s, side, m.label)
  IN  IF exact # <<>> THEN exact
      ELSE IF HasSigma(f, s, side, m) /\ label \in m.allowed \ {Eps, NoLabel}
           THEN [i \in DOMAIN sigma |-> SigmaTr(f, side, m, sigma[i], label)]
           ELSE <<>>

---------------------------------------------------------------------------
(* Which machine is looked up: one whose bits say that it is sorted, by    *)
(* preference the one that has more transitions at this pair; one that has *)
(* a sigma there is always the one.                                        *)

SortedBit(side) == IF side = "il" THEN "I_LABEL_SORTED" ELSE "O_LABEL_SORTED"
CanMatch(f, side) == SortedBit(side) \in f.props
Composable(f1, f2, conf) ==
  /\ CanMatch(f1, "ol") \/ CanMatch(f2, "il")
  /\ conf.sigma["ol"].label # NoLabel => CanMatch(f1, "ol")
  /\ conf.sigma["il"].label # NoLabel => CanMatch(f2, "il")

MatchInput(f1, f2, conf, s1, s2) ==
  IF ~CanMatch(f1, "ol") THEN TRUE
  ELSE IF ~CanMatch(f2, "il") THEN FALSE
  ELSE IF HasSigma(f1, s1, "ol", conf.sigma["ol"]) THEN FALSE
  ELSE \/ HasSigma(f2, s2, "il", conf.sigma["il"])
       \/ Len(f1.trs[s1]) <= Len(f2.trs[s2])
(* Two sigmas at one pair, or sigma looked up as a label, are errors. *)
SigmaClash(f1, f2, conf, s1, s2) ==
  /\ CanMatch(f1, "ol") /\ HasSigma(f1, s1, "ol", conf.sigma["ol"])
  /\ CanMatch(f2, "il") /\ HasSigma(f2, s2, "il", conf.sigma["il"])
SigmaRead(f1, f2, conf, s1, s2) ==
  LET reads(f, s, side) ==
        /\ conf.sigma[OtherSide(side)].label # NoLabel
        /\ \E i \in DOMAIN f.trs[s] :
             f.trs[s][i][side] = conf.sigma[OtherSide(side)].label
  IN  IF MatchInput(f1, f2, conf, s1, s2) THEN reads(f1, s1, "ol") ELSE reads(f2, s2, "il")

---------------------------------------------------------------------------
(* Epsilon filters: the filter state after a pair of transitions, or None  *)
(* when the pair is not to be kept.                                        *)

AllEps(f, s, side) ==
  Len(f.trs[s]) = f.eps[s][side] /\ OrZero(f.final[s]) = Zero
NoEpsAt(f, s, side) == f.eps[s][side] = 0
\* Mutant: the filter forgets that a machine waits.
WaitForgotten(f, s, side, waiting) ==
  IF AllEps(f, s, side) THEN None ELSE 0
(* The machine f of `side` waits while the other one reads an epsilon.     *)
Wait(f, s, side, waiting) ==
  IF AllEps(f, s, side) THEN None ELSE IF NoEpsAt(f, s, side) THEN 0 ELSE waiting
WaitMatch(f, s, side, fs, waiting) ==
  CASE fs = 0 -> IF NoEpsAt(f, s, side) THEN 0 ELSE Wait(f, s, side, waiting)
    [] fs = waiting -> waiting
    [] OTHER -> None

Kept(b) == IF b THEN 0 ELSE None
Stays1(t1) == t1.ol = NoLabel
Stays2(t2) == t2.il = NoLabel
BothEpsilon(t1, t2) == t1.ol = Eps /\ ~Stays2(t2)

SequenceFilter(f1, x, t1, t2) ==
  IF Stays1(t1) THEN Wait(f1, x.s1, "ol", 1)
  ELSE IF Stays2(t2) THEN Kept(x.fs = 0) ELSE Kept(~BothEpsilon(t1, t2))
AltSequenceFilter(f2, x, t1, t2) ==
  IF Stays2(t2) THEN Wait(f2, x.s2, "il", 1)
  ELSE IF Stays1(t1) THEN Kept(x.fs # 1) ELSE Kept(~BothEpsilon(t1, t2))
MatchFilter(f1, f2, x, t1, t2) ==
  IF Stays2(t2) THEN WaitMatch(f2, x.s2, "il", x.fs, 1)
  ELSE IF Stays1(t1) THEN WaitMatch(f1, x.s1, "ol", x.fs, 2)
  ELSE Kept(BothEpsilon(t1, t2) => x.fs = 0)
NoMatchFilter(t1, t2) == Kept(t1.ol # Eps \/ t2.il # Eps)
NullFilter(t1, t2) == Kept(~Stays1(t1) /\ ~Stays2(t2))
TrivialFilter(t1, t2) == Kept(TRUE)

FilterTr(filter, f1, f2, x, t1, t2) ==
  CASE filter = "sequence" -> SequenceFilter(f1, x, t1, t2)
    [] filter = "alt_sequence" -> AltSequenceFilter(f2, x, t1, t2)
    [] filter = "match" -> MatchFilter(f1, f2, x, t1, t2)
    [] filter = "no_match" -> NoMatchFilter(t1, t2)
    [] filter = "null" -> NullFilter(t1, t2)
    [] filter = "trivial" -> TrivialFilter(t1, t2)
=============================================================================
