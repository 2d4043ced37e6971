----------------------------- MODULE ReplaceOps -----------------------------
(***************************************************************************)
(* Recursive replacement (algorithms/replace): the transitions of a root   *)
(* machine whose output label is a nonterminal call another machine, which *)
(* returns where it is final.  Union, concatenation and closure in their   *)
(* delayed form are replacements in a root of two or three states.         *)
(*                                                                         *)
(* A list of machines is a sequence of [label, fst].  A state of the       *)
(* result is [prefix, at, s]: the calls not yet returned from, each one    *)
(* the caller and where it goes on, then a machine and a state of it.      *)
(* Prefixes are interned like states, the empty one first: they stand for  *)
(* their numbers here.                                                     *)
(***************************************************************************)
EXTENDS StaticOps
LOCAL INSTANCE SequencesExt

(* What ReplaceFstOptions::new can say of the labels of a call and of a    *)
(* return.                                                                 *)
CallLabelType(epsilonOnReplace) == IF epsilonOnReplace THEN "neither" ELSE "input"
ReturnLabelType == "neither"
EpsilonOnInput(type) == type \in {"neither", "output"}
EpsilonOnOutput(type) == type \in {"neither", "input"}
ReplaceTransducer(type) == type \in {"input", "output"}

(* The machine of a nonterminal; of two with one label the last counts.    *)
NonterminalSet(list) == {list[k].label : k \in DOMAIN list}
MachineOf(list, label) ==
  CHOOSE k \in DOMAIN list :
    list[k].label = label /\ \A j \in DOMAIN list : list[j].label = label => j <= k
Calls(list, t) == t.ol # Eps /\ t.ol \in NonterminalSet(list)

ReplaceTuple(prefix, at, s) == [prefix |-> prefix, at |-> at, s |-> s]

(* compute_start, for a root that has one. *)
ReplaceStart(list, root) ==
  ReplaceTuple(<<>>, MachineOf(list, root), list[MachineOf(list, root)].fst.start)

(* compute_final_tr: the return, for a final state of a machine that was   *)
(* called; is_final takes a state whose final weight is zero for no final  *)
(* state.                                                                  *)
IsFinal(f, s) == f.final[s] \notin {None, Zero}
FinalTr(list, x) ==
  LET m == list[x.at].fst
      top == Last(x.prefix)
  IN  IF ~IsFinal(m, x.s) \/ x.prefix = <<>> THEN <<>>
      ELSE <<EpsTr(m.final[x.s], ReplaceTuple(Front(x.prefix), top.at, top.next))>>

(* compute_tr: a plain transition stays, a call pushes its caller; a call  *)
(* of a machine without a start state is no transition.                    *)
CallTr(list, epsilonOnReplace, x, t) ==
  LET callee == MachineOf(list, t.ol)
      type == CallLabelType(epsilonOnReplace)
      prefix == Append(x.prefix, [at |-> x.at, next |-> t.ns])
  IN  IF list[callee].fst.start = None THEN <<>>
      ELSE <<[il |-> IF EpsilonOnInput(type) THEN Eps ELSE t.il,
              ol |-> IF EpsilonOnOutput(type) THEN Eps ELSE t.ol, w |-> t.w,
              ns |-> ReplaceTuple(prefix, callee, list[callee].fst.start)]>>
ReplaceTr(list, epsilonOnReplace, x, t) ==
  IF Calls(list, t) THEN CallTr(list, epsilonOnReplace, x, t)
  ELSE <<[t EXCEPT !.ns = ReplaceTuple(x.prefix, x.at, @)]>>
ReplaceTrs(list, epsilonOnReplace, x) ==
  LET own == list[x.at].fst.trs[x.s]
  IN  FinalTr(list, x)
      \o FlattenSeq([i \in DOMAIN own |-> ReplaceTr(list, epsilonOnReplace, x, own[i])])
ReplaceFinal(list, x) == IF x.prefix = <<>> THEN list[x.at].fst.final[x.s] ELSE None

RECURSIVE Replacing(_, _, _, _)
Replacing(list, epsilonOnReplace, known, trs) ==
  IF Len(trs) = Len(known) THEN [known |-> known, trs |-> trs]
  ELSE LET ts == ReplaceTrs(list, epsilonOnReplace, known[Len(trs) + 1])
       IN  Replacing(list, epsilonOnReplace, InternAll(known, ts), Append(trs, ts))
ReplaceStates(list, r) == Computed(r.known, r.trs, LAMBDA x : ReplaceFinal(list, x))

OpProperties(list, root, epsilonOnReplace) ==
  LET every(b) == \A k \in DOMAIN list : b \in list[k].fst.props
      type == CallLabelType(epsilonOnReplace)
  IN  ReplaceProperties([k \in DOMAIN list |-> list[k].fst.props], MachineOf(list, root),
        [noEmpty |-> \A k \in DOMAIN list : list[k].fst.start # None,
         transducer |-> ReplaceTransducer(type),
         callEps |-> EpsilonOnInput(type), returnEps |-> EpsilonOnInput(ReturnLabelType),
         callOutEps |-> EpsilonOnOutput(type), returnOutEps |-> EpsilonOnOutput(ReturnLabelType),
         allISorted |-> every("I_LABEL_SORTED"), allOSorted |-> every("O_LABEL_SORTED"),
         dense |-> \A k \in DOMAIN list : list[k].label <= Len(list)])

(* A machine that calls itself, through others or not, has no static form: *)
(* its calls never end.                                                    *)
Callees(list, k) ==
  {MachineOf(list, Arc(list[k].fst, a).ol) :
     a \in {b \in Arcs(list[k].fst) : Calls(list, Arc(list[k].fst, b))}}
Recursive(list) ==
  LET within[n \in Nat] == IF n = 0 THEN DOMAIN list
                           ELSE {k \in within[n - 1] : Callees(list, k) \cap within[n - 1] # {}}
  IN  within[Len(list)] # {}

ReplaceFst(list, root, epsilonOnReplace) ==
  IF list[MachineOf(list, root)].fst.start = None THEN NewFst
  ELSE SetProperties(
         ReplaceStates(list, Replacing(list, epsilonOnReplace, <<ReplaceStart(list, root)>>, <<>>)),
         OpProperties(list, root, epsilonOnReplace))

---------------------------------------------------------------------------
(* Delayed union, concatenation and closure: the root has label 0, and the *)
(* machines the two largest labels there are.                              *)

FirstCalled == 1002
SecondCalled == 1001
CallingTr(label, n) == [il |-> Eps, ol |-> label, w |-> One, ns |-> n]
RootedList(root, machines) ==
  <<[label |-> 0, fst |-> root]>>
  \o [k \in DOMAIN machines |->
       [label |-> IF k = 1 THEN FirstCalled ELSE SecondCalled, fst |-> machines[k]]]
RootOf(n, final) == SetFinal(SetStart(AddStates(NewFst, n), 0), final, One)

UnionFst(f, g) ==
  ReplaceFst(RootedList(AddTrs(RootOf(2, 1), 0,
                               <<CallingTr(FirstCalled, 1), CallingTr(SecondCalled, 1)>>),
                        <<f, g>>), 0, FALSE)
ConcatFst(f, g) ==
  ReplaceFst(RootedList(AddTr(AddTr(RootOf(3, 2), 0, CallingTr(FirstCalled, 1)),
                              1, CallingTr(SecondCalled, 2)),
                        <<f, g>>), 0, FALSE)
ClosureRoot(star) ==
  IF star THEN AddTr(RootOf(1, 0), 0, CallingTr(FirstCalled, 0))
  ELSE AddTr(AddTr(RootOf(2, 1), 0, CallingTr(FirstCalled, 1)), 1, EpsTr(One, 0))
ClosureFst(f, star) == ReplaceFst(RootedList(ClosureRoot(star), <<f>>), 0, FALSE)
=============================================================================
