--------------------------- MODULE FstProperties ---------------------------
(***************************************************************************)
(* The 32 trinary property bits of a machine (fst_properties/), what each  *)
(* of them says of a machine, and how every mutation and every algorithm   *)
(* computes the bits of its result from the bits of its operands, without  *)
(* looking at the result.                                                  *)
(*                                                                         *)
(* A machine is a record                                                   *)
(*   [start |-> a state or None,                                           *)
(*    trs   |-> [0..n-1 -> Seq([il, ol, w, ns])],                          *)
(*    final |-> [0..n-1 -> a weight or None]]                              *)
(* with naturals for labels (0 is epsilon) and states, and weights of a    *)
(* semiring.  A set of bits is a set of names; the two names of a question *)
(* are a pair.                                                             *)
(***************************************************************************)
EXTENDS Integers, Sequences, FiniteSets

CONSTANTS None,  \* no state, no weight
          Err,   \* what a call that fails answers
          Zero, One, Plus(_, _), Times(_, _), DivideLeft(_, _), DivideRight(_, _)

Eps == 0
Trivial(w) == w \in {Zero, One}
OrZero(w) == IF w = None THEN Zero ELSE w

---------------------------------------------------------------------------
(* Pairs of bits: the positive and the negative answer to one question.    *)
Acc == {"ACCEPTOR", "NOT_ACCEPTOR"}
IDet == {"I_DETERMINISTIC", "NOT_I_DETERMINISTIC"}
ODet == {"O_DETERMINISTIC", "NOT_O_DETERMINISTIC"}
BothEps == {"EPSILONS", "NO_EPSILONS"}
IEps == {"I_EPSILONS", "NO_I_EPSILONS"}
OEps == {"O_EPSILONS", "NO_O_EPSILONS"}
ISort == {"I_LABEL_SORTED", "NOT_I_LABEL_SORTED"}
OSort == {"O_LABEL_SORTED", "NOT_O_LABEL_SORTED"}
Wtd == {"WEIGHTED", "UNWEIGHTED"}
Cyc == {"CYCLIC", "ACYCLIC"}
ICyc == {"INITIAL_CYCLIC", "INITIAL_ACYCLIC"}
Top == {"TOP_SORTED", "NOT_TOP_SORTED"}
Access == {"ACCESSIBLE", "NOT_ACCESSIBLE"}
Coaccess == {"COACCESSIBLE", "NOT_COACCESSIBLE"}
Str == {"STRING", "NOT_STRING"}
WCyc == {"WEIGHTED_CYCLES", "UNWEIGHTED_CYCLES"}

LabelPairs == Acc \cup BothEps \cup IEps \cup OEps
Deterministic == IDet \cup ODet
Sorted == ISort \cup OSort
Cycles == Cyc \cup ICyc \cup WCyc
Reached == Access \cup Coaccess
CopyProperties == LabelPairs \cup Deterministic \cup Sorted \cup Wtd
                    \cup Cycles \cup Top \cup Reached \cup Str

(* The answers "no" that survive a larger machine, and their opposites.    *)
NotDetSorted == {"NOT_I_DETERMINISTIC", "NOT_O_DETERMINISTIC",
                 "NOT_I_LABEL_SORTED", "NOT_O_LABEL_SORTED"}
HasEps == {"EPSILONS", "I_EPSILONS", "O_EPSILONS"}
NoEps == {"NO_EPSILONS", "NO_I_EPSILONS", "NO_O_EPSILONS"}
DetSorted == {"I_DETERMINISTIC", "O_DETERMINISTIC",
              "I_LABEL_SORTED", "O_LABEL_SORTED"}
Acyc == {"ACYCLIC", "INITIAL_ACYCLIC"}

---------------------------------------------------------------------------
(* What the bits say of a machine (the comments of properties.rs).         *)

StatesOf(f) == DOMAIN f.trs
NumStates(f) == Cardinality(StatesOf(f))
Arcs(f) == UNION {{<<s, i>> : i \in DOMAIN f.trs[s]} : s \in StatesOf(f)}
Arc(f, a) == f.trs[a[1]][a[2]]
Finals(f) == {s \in StatesOf(f) : f.final[s] # None}

Successors(f, S) ==
  UNION {{s} \cup {f.trs[s][i].ns : i \in DOMAIN f.trs[s]} : s \in S}
ReachFrom(f, S) ==
  LET r[k \in Nat] == IF k = 0 THEN S ELSE Successors(f, r[k - 1])
  IN  r[NumStates(f)]
OnCycle(f, s) ==
  s \in ReachFrom(f, {f.trs[s][i].ns : i \in DOMAIN f.trs[s]})

AllArcs(f, P(_)) == \A s \in StatesOf(f) : \A i \in DOMAIN f.trs[s] : P(f.trs[s][i])
AllConsecutive(f, P(_, _)) ==
  \A s \in StatesOf(f) :
    \A i \in DOMAIN f.trs[s] : i > 1 => P(f.trs[s][i - 1], f.trs[s][i])
AllDistinct(f, L(_)) ==
  \A s \in StatesOf(f) : \A i, j \in DOMAIN f.trs[s] :
    i # j => L(f.trs[s][i]) # L(f.trs[s][j])

IsAcceptor(f) == AllArcs(f, LAMBDA t : t.il = t.ol)
IsIDeterministic(f) == AllDistinct(f, LAMBDA t : t.il)
IsODeterministic(f) == AllDistinct(f, LAMBDA t : t.ol)
HasNoEpsilons(f) == AllArcs(f, LAMBDA t : t.il # Eps \/ t.ol # Eps)
HasNoIEpsilons(f) == AllArcs(f, LAMBDA t : t.il # Eps)
HasNoOEpsilons(f) == AllArcs(f, LAMBDA t : t.ol # Eps)
IsISorted(f) == AllConsecutive(f, LAMBDA t, u : t.il <= u.il)
IsOSorted(f) == AllConsecutive(f, LAMBDA t, u : t.ol <= u.ol)
IsUnweighted(f) ==
  /\ AllArcs(f, LAMBDA t : Trivial(t.w))
  /\ \A s \in Finals(f) : Trivial(f.final[s])
IsTopSorted(f) ==
  \A s \in StatesOf(f) : \A i \in DOMAIN f.trs[s] : f.trs[s][i].ns > s
IsAcyclic(f) == \A s \in StatesOf(f) : ~OnCycle(f, s)
IsInitialAcyclic(f) == f.start # None => ~OnCycle(f, f.start)
IsAccessible(f) ==
  StatesOf(f) = ReachFrom(f, IF f.start = None THEN {} ELSE {f.start})
IsCoaccessible(f) ==
  \A s \in StatesOf(f) : ReachFrom(f, {s}) \cap Finals(f) # {}
IsString(f) ==
  StatesOf(f) # {} =>
    /\ f.start = 0
    /\ Finals(f) = {NumStates(f) - 1}
    /\ \A s \in StatesOf(f) :
         IF s = NumStates(f) - 1 THEN f.trs[s] = <<>>
         ELSE Len(f.trs[s]) = 1 /\ f.trs[s][1].ns = s + 1
HasUnweightedCycles(f) ==
  \A s \in StatesOf(f) : \A i \in DOMAIN f.trs[s] :
    ~Trivial(f.trs[s][i].w) => s \notin ReachFrom(f, {f.trs[s][i].ns})

Says(yes, no, holds) == {IF holds THEN yes ELSE no}

(* Every question answered by the machine itself.                          *)
Truth(f) ==
  UNION {Says("ACCEPTOR", "NOT_ACCEPTOR", IsAcceptor(f)),
         Says("I_DETERMINISTIC", "NOT_I_DETERMINISTIC", IsIDeterministic(f)),
         Says("O_DETERMINISTIC", "NOT_O_DETERMINISTIC", IsODeterministic(f)),
         Says("NO_EPSILONS", "EPSILONS", HasNoEpsilons(f)),
         Says("NO_I_EPSILONS", "I_EPSILONS", HasNoIEpsilons(f)),
         Says("NO_O_EPSILONS", "O_EPSILONS", HasNoOEpsilons(f)),
         Says("I_LABEL_SORTED", "NOT_I_LABEL_SORTED", IsISorted(f)),
         Says("O_LABEL_SORTED", "NOT_O_LABEL_SORTED", IsOSorted(f)),
         Says("UNWEIGHTED", "WEIGHTED", IsUnweighted(f)),
         Says("ACYCLIC", "CYCLIC", IsAcyclic(f)),
         Says("INITIAL_ACYCLIC", "INITIAL_CYCLIC", IsInitialAcyclic(f)),
         Says("TOP_SORTED", "NOT_TOP_SORTED", IsTopSorted(f)),
         Says("ACCESSIBLE", "NOT_ACCESSIBLE", IsAccessible(f)),
         Says("COACCESSIBLE", "NOT_COACCESSIBLE", IsCoaccessible(f)),
         Says("STRING", "NOT_STRING", IsString(f)),
         Says("UNWEIGHTED_CYCLES", "WEIGHTED_CYCLES", HasUnweightedCycles(f))}

---------------------------------------------------------------------------
(* What survives a mutation (properties.rs).                               *)

NullProperties == {"ACCEPTOR", "UNWEIGHTED", "TOP_SORTED", "ACCESSIBLE",
                   "COACCESSIBLE", "STRING", "UNWEIGHTED_CYCLES"}
                  \cup DetSorted \cup NoEps \cup Acyc
SetStartMask == CopyProperties \ (ICyc \cup Access \cup Str)
SetFinalMask == CopyProperties \ (Wtd \cup Coaccess \cup Str)
AddStateMask == CopyProperties \ {"ACCESSIBLE", "COACCESSIBLE", "STRING"}
AddArcMask == {"NOT_ACCEPTOR", "WEIGHTED", "CYCLIC", "INITIAL_CYCLIC",
               "NOT_TOP_SORTED", "ACCESSIBLE", "COACCESSIBLE",
               "WEIGHTED_CYCLES"} \cup HasEps \cup NotDetSorted
DeleteStatesMask == {"ACCEPTOR", "UNWEIGHTED", "TOP_SORTED",
                     "UNWEIGHTED_CYCLES"} \cup DetSorted \cup NoEps \cup Acyc
DeleteArcsMask == DeleteStatesMask \cup {"NOT_ACCESSIBLE", "NOT_COACCESSIBLE"}
StateSortMask == CopyProperties \ (Top \cup Str)
ArcSortMask == CopyProperties \ Sorted
ILabelInvariant == CopyProperties \ (Acc \cup IDet \cup BothEps \cup IEps \cup ISort)
OLabelInvariant == CopyProperties \ (Acc \cup ODet \cup BothEps \cup OEps \cup OSort)
WeightInvariant == CopyProperties \ (Wtd \cup WCyc)
AddSuperFinalMask ==
  {"NOT_ACCEPTOR", "NOT_TOP_SORTED", "NOT_ACCESSIBLE", "NOT_STRING"}
    \cup HasEps \cup NotDetSorted \cup Wtd \cup Cycles \cup Coaccess
RmSuperFinalMask ==
  {"TOP_SORTED", "ACCESSIBLE", "STRING"} \cup Acc \cup NoEps \cup DetSorted
    \cup Wtd \cup Cycles \cup Coaccess
=============================================================================
