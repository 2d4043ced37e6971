---------------------------- MODULE MCAlgorithms ----------------------------
(* Machines built by mutations, states first, then final weights and       *)
(* transitions.                                                            *)
EXTENDS Algorithms
LOCAL INSTANCE SequencesExt

(* The tropical weights of Semirings, integers with Inf for infinity: they *)
(* are apart by more than any delta, so that nothing is rounded.           *)
Sr == INSTANCE Semirings WITH Half <- 1, Delta <- 1

TropicalZero == Sr!Inf
TropicalOne == 0
TropicalPlus(x, y) == Sr!TropicalPlus(x, y)
TropicalTimes(x, y) == Sr!TropicalTimes(x, y)
TropicalDivide(x, y) == Sr!TropicalDivide(x, y)
(* Samples are halved at most. *)
LogTwo == 5
TropicalMinusLog(n, of) ==
  CASE n = of -> 0 [] of = 2 * n -> LogTwo [] n = 2 * of -> -LogTwo
TropicalWeight == Sr!Number("tropical")

ArcFrom(s, il, ol, w, n) == <<s, [il |-> il, ol |-> ol, w |-> w, ns |-> n]>>

Build(finals, arcs) ==
  LET n == Len(finals)
      accept(g, s) == IF finals[s + 1] = None THEN g ELSE SetFinal(g, s, finals[s + 1])
      states == FoldLeft(accept, SetStart(AddStates(NewFst, n), 0), [s \in 1..n |-> s - 1])
  IN  IF n = 0 THEN NewFst
      ELSE FoldLeft(LAMBDA g, x : AddTr(g, x[1], x[2]), states, arcs)

(* Two states and one transition of any kind, or two of a small choice.    *)
AnyArc == {ArcFrom(0, il, ol, w, n) : n \in {0, 1}, il, ol \in {Eps, 1}, w \in {One, 5}}
          \cup {ArcFrom(1, il, ol, 5, n) : n \in {0, 1}, il, ol \in {Eps, 1}}
SomeArcs == {ArcFrom(0, 1, 2, 5, 1), ArcFrom(0, 1, 1, One, 0), ArcFrom(1, Eps, 1, One, 0),
             ArcFrom(1, 2, 2, 5, 1)}
SomeFinals == {<<None, One>>, <<None, 5>>}
(* Three states, out of order; and transducers whose output waits for more *)
(* input, of one and of two words.                                         *)
Chains == {Build(<<None, One, None>>, <<ArcFrom(0, 1, 2, 5, 2), ArcFrom(2, 2, 1, 5, 1)>>),
           Build(<<None, None, 5>>, <<ArcFrom(0, 1, 2, 5, 1), ArcFrom(0, 1, Eps, One, 2),
                                      ArcFrom(1, 2, 1, One, 2)>>),
           Build(<<None, None, None, One>>, <<ArcFrom(0, 1, 1, One, 1), ArcFrom(0, 1, 2, 5, 2),
                                              ArcFrom(1, 1, Eps, One, 3), ArcFrom(2, 2, 1, One, 3)>>)}
Two == {Build(<<>>, <<>>),
        ComputeAndUpdate(Build(<<None, 5>>, <<ArcFrom(0, 2, 1, One, 1)>>), AllProperties),
        Build(<<One>>, <<ArcFrom(0, 1, 1, One, 0)>>)}
(* Two algorithms in a row on a cycle with an epsilon and on an acyclic    *)
(* transducer.                                                             *)
Twice == {Build(<<None, 5>>, <<ArcFrom(0, 1, 2, 5, 1), ArcFrom(1, Eps, 1, One, 0)>>),
          ComputeAndUpdate(Build(<<5, None>>, <<ArcFrom(0, 1, 2, 5, 1)>>), AllProperties)}
(* Two random paths, of machines with choices, loops and dead ends. *)
Wandered == Chains \cup Twice
              \cup {Build(<<5, None>>, <<ArcFrom(0, 1, 1, One, 0), ArcFrom(0, 1, 2, 5, 1)>>),
                    Build(<<None, One>>, <<ArcFrom(0, 1, 2, 5, 1), ArcFrom(0, Eps, Eps, 5, 1)>>)}
(* Bits as mutations leave them, or all computed. *)
EitherBits(S) == S \cup {ComputeAndUpdate(f, AllProperties) : f \in S}
Pool == {Build(e, <<x>>) : e \in SomeFinals, x \in AnyArc}
        \cup EitherBits({Build(e, <<>>) : e \in {<<>>, <<One>>}}
                        \cup {Build(<<None, None>>, <<x>>) : x \in SomeArcs}
                        \cup {Build(<<None, 5>>, <<x, y>>) : x, y \in SomeArcs}
                        \cup Wandered)
Walks == {[npath |-> 2, maxLength |-> n, weighted |-> w # "no", removeTotal |-> w = "removed"] :
            n \in {2, 4}, w \in {"no", "counted", "removed"}}
(* Second machines of compose: epsilons to wait for, at a state that has   *)
(* nothing else and at one that has, and one with 2 for sigma.             *)
Waiting == {Build(<<None, 5>>, <<ArcFrom(0, Eps, 2, One, 1)>>),
            Build(<<One, 5, One>>, <<ArcFrom(0, Eps, 1, 5, 1), ArcFrom(0, 1, 2, One, 2),
                               ArcFrom(1, Eps, Eps, One, 2), ArcFrom(1, 2, 1, 5, 2)>>)}
Sigmas == {Build(<<None, One, One>>, <<ArcFrom(0, 2, 2, One, 1), ArcFrom(1, 1, 1, 5, 2),
                                       ArcFrom(1, 2, 2, One, 2)>>)}
Seconds == Waiting \cup Sigmas
Conf(filter, connect, matcher) ==
  [filter |-> filter, connect |-> connect,
   sigma |-> [side \in Sides |-> IF side = "il" THEN matcher ELSE PlainMatcher],
   look |-> NoLookahead]
Configurations ==
  {Conf(filter, filter # "trivial", PlainMatcher) : filter \in Filters}
  \cup {Conf("sequence", TRUE, [label |-> 2, rewrite |-> mode, allowed |-> {1}]) :
          mode \in {"auto", "always", "never"}}
(* ILABEL_LOOKAHEAD_FLAGS and OLABEL_LOOKAHEAD_FLAGS, and less.            *)
Lookahead(kind, side, flags) ==
  [kind |-> kind, side |-> side, flags |-> flags, data |-> None]
AllFlags == {"weight", "prefix", "epsilons", "non_epsilons", "non_epsilon_prefix"}
LookaheadKinds ==
  {Lookahead("label", side, AllFlags \ {"non_epsilons"}) : side \in Sides}
  \cup {Lookahead("label", "ol", {"weight", "epsilons"}), Lookahead("label", "il", {"prefix", "epsilons"}),
        Lookahead("label", "ol", {"weight", "prefix", "epsilons"}),
        Lookahead("tr", "both", AllFlags \ {"non_epsilons"}), Lookahead("tr", "ol", AllFlags),
        Lookahead("tr", "il", {"weight", "prefix", "epsilons"}),
        Lookahead("tr", "il", {"weight", "epsilons"}),
        Lookahead("trivial", "ol", {"epsilons", "non_epsilons"})}
(* Calls by one label, with the other one for plain transitions, and calls *)
(* of a machine that calls; with few bits known, or all.                   *)
Whole(finals, arcs) == ComputeAndUpdate(Build(finals, arcs), AllProperties)
SayTwo == {Build(<<>>, <<>>), Build(<<None, 5>>, <<ArcFrom(0, Eps, 2, One, 1)>>),
           Whole(<<5, One>>, <<ArcFrom(0, 1, Eps, 5, 1), ArcFrom(1, 2, 2, One, 1)>>)}
CallOne == {Whole(<<None, 5>>, <<ArcFrom(0, 2, 1, One, 1)>>)}
Silently == {Whole(<<None, One>>, <<ArcFrom(0, 1, Eps, 5, 1)>>), Whole(<<5>>, <<>>)}
Lists ==
  {<<[label |-> 1, fst |-> g]>> : g \in SayTwo}
  \cup {<<[label |-> 2, fst |-> g], [label |-> 1, fst |-> h]>> : g \in CallOne, h \in Silently}
(* Of determinize: none but on states, and a low one on elements or on     *)
(* transitions.                                                            *)
LowLimits == {Det!AtMost(5), [Det!AtMost(5) EXCEPT !.elements = 3], [Det!AtMost(5) EXCEPT !.trs = 1]}
(* Symbol tables: two orders, epsilon elsewhere, a symbol missing, a hole, *)
(* a symbol with two keys and a key with two symbols.                      *)
Both == AddSymbols(NewTable, <<"a", "b">>)
Swapped == AddTable(AddSymbols(NewTable, <<"b">>), Both)
Shifted == AddSymbols(EmptyTable, <<"a", EpsSymbol, "b">>)
Holed == AddSymbolWithKey(NewTable, "b", 2)
Rekeyed == AddSymbolWithKey(Both, "a", 2)
SymbolTables == {<<Both, Swapped>>, <<Swapped, Shifted>>, <<Both, Holed>>,
                 <<Holed, Both>>, <<Rekeyed, Both>>, <<Both, Rekeyed>>}
(* Minimization of one nondeterministic acceptor.  Word 2122 is not in its *)
(* language: from state 4 only 12 leads to a final state.                  *)
Ambiguous ==
  LET arc(x) == ArcFrom(x[1], x[2], x[2], One, x[3])
      arcs == << <<0, 1, 3>>, <<0, 2, 4>>, <<1, 2, 2>>, <<3, 1, 5>>, <<3, 1, 6>>,
                 <<4, 1, 5>>, <<5, 2, 2>>, <<6, 2, 1>> >>
  IN  EitherBits({Build(<<None, One, One, None, None, None, None>>,
                       [k \in DOMAIN arcs |-> arc(arcs[k])])})
=============================================================================
