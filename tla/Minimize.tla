------------------------------ MODULE Minimize ------------------------------
(***************************************************************************)
(* Minimization of acceptors (minimize.rs) on partitions of the states     *)
(* (partition.rs): Revuz' refinement by height for acyclic deterministic   *)
(* machines, Hopcroft's splitting with a queue of classes for the others.  *)
(*                                                                         *)
(* A partition is the sequence of its classes, each one the list of its    *)
(* members, head first; class numbers are indices of the sequence.         *)
(***************************************************************************)
EXTENDS StructureOps
LOCAL INSTANCE SequencesExt

ClassOf(P, s) == CHOOSE c \in DOMAIN P : \E i \in DOMAIN P[c] : P[c][i] = s

(* add: a member becomes the head of its class. *)
AddTo(P, s, c) == [P EXCEPT ![c] = <<s>> \o @]

(* One class for each value of Key, in the order the values appear; the    *)
(* last member added is the head.                                          *)
Classes(members, Key(_)) ==
  FoldLeft(LAMBDA P, s :
             LET same == {c \in DOMAIN P : Key(P[c][1]) = Key(s)}
             IN  IF same = {} THEN Append(P, <<s>>)
                 ELSE AddTo(P, s, CHOOSE c \in same : TRUE),
           <<>>, members)

(* split_on for the states of pre, then finalize_split: every class that   *)
(* has members in and out of pre gives the smaller half a new number.      *)
(* Classes of one member are never split.  The new classes are queued.     *)
SplitRefine(P, c, yes) ==
  LET no == SelectSeq(P[c], LAMBDA s : ~Contains(yes, s))
  IN  IF no = <<>> THEN [P EXCEPT ![c] = yes]
      ELSE IF Len(no) < Len(yes) THEN Append([P EXCEPT ![c] = yes], no)
      ELSE Append([P EXCEPT ![c] = no], yes)
Split(P, queue, pre) ==
  LET counted(s) == Len(P[ClassOf(P, s)]) > 1
      visited == FoldLeft(LAMBDA acc, s :
                   IF ~counted(s) \/ Contains(acc, ClassOf(P, s)) THEN acc
                   ELSE Append(acc, ClassOf(P, s)), <<>>, pre)
      yesOf(c) == FoldLeft(LAMBDA acc, s : IF ClassOf(P, s) # c \/ Contains(acc, s)
                                           THEN acc ELSE <<s>> \o acc, <<>>, pre)
      Q == FoldLeft(LAMBDA R, c : SplitRefine(R, c, yesOf(c)), P, visited)
  IN  <<Q, queue \o [i \in 1..Len(Q) - Len(P) |-> Len(P) + i]>>

(* pre_partition: final or not, and the input labels, neighbours merged.   *)
PrePartition(f) ==
  LET labels(s) == FoldLeft(LAMBDA acc, t : IF acc # <<>> /\ acc[Len(acc)] = t.il
                                            THEN acc ELSE Append(acc, t.il),
                            <<>>, f.trs[s])
  IN  Classes(Upto(NumStates(f)), LAMBDA s : <<f.final[s] # None, labels(s)>>)

(* Where the transitions of label l that enter the members of a class come *)
(* from.                                                                   *)
Entering(f, members, l) ==
  LET from(s) == FoldLeft(LAMBDA acc, q :
                   acc \o [i \in DOMAIN SelectSeq(f.trs[q], LAMBDA t : t.ns = s /\ t.il = l)
                             |-> q], <<>>, Upto(NumStates(f)))
  IN  FoldLeft(LAMBDA acc, s : acc \o from(s), <<>>, members)

LabelsIn(f) == SetToSortSeq({Arc(f, a).il : a \in Arcs(f)}, <)

(* cyclic_minimize: a class is taken off the LIFO queue and its members    *)
(* read once; labels in increasing order.                                  *)
RECURSIVE Hopcroft(_, _, _, _)
Hopcroft(f, labels, P, queue) ==
  IF queue = <<>> THEN P
  ELSE LET members == P[queue[Len(queue)]]
           left == SubSeq(queue, 1, Len(queue) - 1)
           done == FoldLeft(LAMBDA acc, l :
                              Split(acc[1], acc[2], Entering(f, members, l)),
                            <<P, left>>, labels)
       IN  Hopcroft(f, labels, done[1], done[2])
CyclicPartition(f) ==
  LET P == PrePartition(f)
  IN  Hopcroft(f, LabelsIn(f), P, [c \in DOMAIN P |-> c])

(* AcyclicMinimizer: classes are the heights, lowest first; the states of  *)
(* one height differ by final weight, or by labels and classes of their    *)
(* sorted transitions.                                                     *)
Heights(f) ==
  LET h[s \in StatesOf(f), n \in 0..NumStates(f)] ==
        FoldLeft(LAMBDA acc, t : IF n = 0 \/ acc > h[t.ns, n-1] THEN acc
                                 ELSE 1 + h[t.ns, n-1], 0, f.trs[s])
  IN  [s \in StatesOf(f) |-> h[s, NumStates(f)]]
AcyclicPartition(f) ==
  LET height == Heights(f)
      most == CHOOSE m \in {height[s] : s \in StatesOf(f)} :
                \A s \in StatesOf(f) : height[s] <= m
      initial == [c \in 1..most + 1 |->
                    Reverse(InOrder(f, {s \in StatesOf(f) : height[s] = c - 1}))]
      refine(P, c) ==
        LET looks(s) == <<OrZero(f.final[s]),
                          [i \in DOMAIN f.trs[s] |->
                             <<f.trs[s][i].il, ClassOf(P, f.trs[s][i].ns)>>]>>
            parts == Classes(P[c], looks)
            kept == SelectSeq(P[c], LAMBDA s : Contains(parts[1], s))
        IN  [P EXCEPT ![c] = kept] \o Tail(parts)
  IN  FoldLeft(refine, initial, [c \in 1..most + 1 |-> c])

(* merge_states: the head of each class takes the transitions of the rest. *)
MergeInto(f, rep, states) ==
  LET own(g, s) == FoldLeft(LAMBDA h, i : SetNextState(h, s, i, rep[g.trs[s][i].ns]),
                            g, [i \in DOMAIN g.trs[s] |-> i])
      give(g, s) == AddTrs(g, rep[s], [i \in DOMAIN g.trs[s] |->
                                         [g.trs[s][i] EXCEPT !.ns = rep[@]]])
  IN  Connect(SetStart(FoldLeft(LAMBDA g, s : IF rep[s] = s THEN own(g, s) ELSE give(g, s),
                                f, states), rep[f.start]))
MergeStates(f, P) ==
  MergeInto(f, [s \in StatesOf(f) |-> P[ClassOf(P, s)][1]],
            FoldLeft(LAMBDA acc, members : acc \o members, <<>>, P))

AcyclicMinimize(f) == MergeStates(f, AcyclicPartition(f))
CyclicMinimize(f) == MergeStates(f, CyclicPartition(f))
TrimMinimize(f, acyclic) ==
  IF StatesOf(f) = {} THEN f
  ELSE TrUnique(IF acyclic THEN AcyclicMinimize(TrSort(f, TRUE)) ELSE CyclicMinimize(f))
KnownMinimize(f, allowAcyclic) ==
  TrimMinimize(Connect(f), allowAcyclic /\ "ACYCLIC" \in f.props)
(* Refused unless the machine is known to be an unweighted acceptor: what   *)
(* minimize has encoded is one.                                            *)
AcceptorMinimize(f, allowAcyclic) ==
  LET known == ComputeAndUpdate(f, Acc \cup Wtd \cup Cyc)
  IN  IF {"ACCEPTOR", "UNWEIGHTED"} \subseteq known.props
      THEN KnownMinimize(known, allowAcyclic)
      ELSE Err

(* minimize_with_config on an acceptor.  The weights are pushed, quantized *)
(* (the weights here are apart by more than delta) and encoded first.      *)
(* Transducers go the same way with gallic weights (GallicOps).            *)
Known(f) == ComputeAndUpdate(f, Acc \cup IDet \cup Wtd)
LabelsAndWeights == {"labels", "weights"}
MinimizeEncoded(f, table, deterministic) ==
  LET minimal == AcceptorMinimize(Encode(f, LabelsAndWeights, table), deterministic)
  IN  IF minimal = Err THEN Err ELSE Decode(minimal, LabelsAndWeights, table)
MinimizePushed(f, deterministic) ==
  MinimizeEncoded(f, EncodeTable(f, LabelsAndWeights), deterministic)
MinimizeKnown(f) ==
  LET deterministic == "I_DETERMINISTIC" \in f.props
  IN  IF "WEIGHTED" \in f.props
      THEN MinimizePushed(TrMap(PushWeights(f, TRUE, FALSE), "quantize"), deterministic)
      ELSE AcceptorMinimize(f, deterministic)
=============================================================================
