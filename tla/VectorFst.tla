----------------------------- MODULE VectorFst -----------------------------
(***************************************************************************)
(* A VectorFst under any sequence of mutations.                            *)
(***************************************************************************)
EXTENDS Mutations

CONSTANTS Labels,     \* labels of transitions, Eps among them
          Weights,    \* weights given to transitions
          FinalWeights, \* weights given to final states
          MaxStates,  \* bound on the states of a machine
          MaxTrs      \* bound on the transitions of a machine

\* The Option of the code: None is no state and no weight.
ASSUME NoneAssumption == None \notin Nat
ASSUME LabelsAssumption == Labels \subseteq Nat
ASSUME WeightsAssumption == Weights \subseteq Nat /\ FinalWeights \subseteq Nat
ASSUME BoundsAssumption == MaxStates \in Nat /\ MaxTrs \in Nat

VARIABLE fst

Tr(n) == [il : Labels, ol : Labels, w : Weights, ns : 0..n-1]

Room(n) == NumStates(fst) + n <= MaxStates
Size == Cardinality(Arcs(fst))

DoSetStart == \E s \in StatesOf(fst) : fst' = SetStart(fst, s)
DoSetFinal ==
  \E s \in StatesOf(fst), w \in FinalWeights \cup {None} : fst' = SetFinal(fst, s, w)
DoAddStates == \E n \in 0..2 : Room(n) /\ fst' = AddStates(fst, n)
DoAddTr ==
  /\ Size < MaxTrs
  /\ \E s \in StatesOf(fst) : \E t \in Tr(NumStates(fst)) : fst' = AddTr(fst, s, t)
(* The callers give transitions to a state that has none. *)
DoSetTrs ==
  /\ Size + 2 <= MaxTrs
  /\ \E s \in StatesOf(fst) :
       /\ fst.trs[s] = <<>>
       /\ \E t \in Tr(1), u \in Tr(NumStates(fst)) : fst' = SetTrs(fst, s, <<t, u>>)
DoDeleteTrs == \E s \in StatesOf(fst) : fst' = DeleteTrs(fst, s)
DoDelTrsId ==
  \E s \in StatesOf(fst) : \E del \in SUBSET DOMAIN fst.trs[s] :
    fst' = DelTrsId(fst, s, del)
DoDelStates == \E gone \in SUBSET StatesOf(fst) : fst' = DelStates(fst, gone)
DoDelAllStates == fst' = DelAllStates(fst)
DoIterMut ==
  \E s \in StatesOf(fst) : \E i \in DOMAIN fst.trs[s] :
    \/ \E il, ol \in Labels : fst' = SetLabels(fst, s, i, il, ol)
    \/ \E w \in Weights : fst' = SetWeight(fst, s, i, w)
    \/ \E n \in StatesOf(fst) : fst' = SetNextState(fst, s, i, n)
    \/ \E t \in Tr(1) : fst' = SetTr(fst, s, i, t)

Init == fst = NewFst
Next ==
  \/ DoSetStart  \/ DoSetFinal \/ DoAddStates \/ DoAddTr \/ DoSetTrs
  \/ DoDeleteTrs \/ DoDelTrsId \/ DoDelStates \/ DoDelAllStates \/ DoIterMut
Spec == Init /\ [][Next]_fst

---------------------------------------------------------------------------

TypeOK ==
  \E n \in 0..MaxStates :
    /\ DOMAIN fst.trs = 0..n-1 /\ DOMAIN fst.final = 0..n-1
    /\ DOMAIN fst.eps = 0..n-1
    /\ fst.start \in {None} \cup 0..n-1
    /\ fst.props \subseteq CopyProperties
    /\ \A s \in 0..n-1 : /\ fst.trs[s] \in Seq(Tr(n))
                         /\ fst.final[s] \in {None} \cup FinalWeights
                         /\ fst.eps[s] \in [Sides -> Nat]

(* A bit that is set answers for the machine as it is: whatever was added, *)
(* deleted or changed before, no algorithm that trusts a bit is misled.    *)
BitsTrue == fst.props \subseteq Truth(fst)

(* num_input_epsilons and num_output_epsilons are stored counters that     *)
(* each mutation adjusts: they are the numbers of epsilon transitions.     *)
EpsilonCounts ==
  \A s \in StatesOf(fst) :
    fst.eps[s] = [side \in Sides |-> EpsIn(fst.trs[s], side)]
=============================================================================
