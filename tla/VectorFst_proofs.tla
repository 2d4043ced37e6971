-------------------------- MODULE VectorFst_proofs --------------------------
(***************************************************************************)
(* Proofs about a VectorFst under any sequence of mutations, whatever its  *)
(* size, labels and weights: its shape and epsilon counts, the outcomes,   *)
(* and, in the second half, its property bits, none of which lies.         *)
(***************************************************************************)
EXTENDS VectorFst, Functions, FiniteSetTheorems, TLAPS

-----------------------------------------------------------------------------
(* Sequences.                                                              *)

LEMMA EmptySeq == \A S : <<>> \in Seq(S) /\ Len(<<>>) = 0
OBVIOUS

LEMMA FunctionIsSeq ==
    ASSUME NEW n \in Nat, NEW S, NEW f \in [1 .. n -> S]
    PROVE  f \in Seq(S) /\ Len(f) = n
OBVIOUS

LEMMA SeqEqual ==
    ASSUME NEW S, NEW s \in Seq(S), NEW t \in Seq(S),
           Len(s) = Len(t), \A i \in 1 .. Len(s) : s[i] = t[i]
    PROVE  s = t
OBVIOUS

LEMMA AppendProperties ==
    ASSUME NEW S, NEW ts \in Seq(S), NEW t \in S
    PROVE  /\ Append(ts, t) \in Seq(S) /\ Len(Append(ts, t)) = Len(ts) + 1
           /\ Append(ts, t)[Len(ts) + 1] = t
OBVIOUS

LEMMA SubSeqEmpty ==
    ASSUME NEW s, NEW m \in Int, NEW n \in Int, n < m
    PROVE  SubSeq(s, m, n) = <<>>
OBVIOUS

LEMMA SubSeqProperties ==
    ASSUME NEW S, NEW s, NEW m \in Int, NEW n \in Int, \A i \in m .. n : s[i] \in S
    PROVE  /\ SubSeq(s, m, n) \in Seq(S)
           /\ Len(SubSeq(s, m, n)) = IF m <= n THEN n-m+1 ELSE 0
           /\ \A i \in 1 .. n-m+1 : SubSeq(s, m, n)[i] = s[m+i-1]
OBVIOUS

-----------------------------------------------------------------------------
(* Ranks: the elements of a set of numbers, in order.                      *)

\* Counting the elements up to each one numbers them from 1 on, in order.
LEMMA RankBijection ==
    ASSUME NEW K \in SUBSET Nat, IsFiniteSet(K), NEW rank,
           rank = [i \in K |-> Cardinality({j \in K : j <= i})]
    PROVE  /\ rank \in Bijection(K, 1 .. Cardinality(K))
           /\ \A i, j \in K : i < j => rank[i] < rank[j]
<1> DEFINE upTo(i) == {j \in K : j <= i}
           m == Cardinality(K)
<1>1. m \in Nat
  BY FS_CardinalityType
<1>2. ASSUME NEW i \in K
      PROVE  /\ IsFiniteSet(upTo(i)) /\ Cardinality(upTo(i)) \in 1 .. m
             /\ rank[i] = Cardinality(upTo(i))
  <2>1. upTo(i) \in SUBSET K /\ upTo(i) # {}
    OBVIOUS
  <2>2. IsFiniteSet(upTo(i)) /\ Cardinality(upTo(i)) <= m
    BY <2>1, FS_Subset
  <2>3. Cardinality(upTo(i)) \in Nat /\ Cardinality(upTo(i)) # 0
    BY <2>1, <2>2, FS_CardinalityType, FS_EmptySet
  <2> QED  BY <1>1, <2>2, <2>3
<1>3. ASSUME NEW i \in K, NEW j \in K, i < j PROVE rank[i] < rank[j]
  <2>1. upTo(i) \in SUBSET upTo(j) /\ upTo(i) # upTo(j)
    <3>0. i \in Int /\ j \in Int
      OBVIOUS
    <3>1. j <= j /\ ~ (j <= i)
      BY <1>3, <3>0
    <3>2. j \in upTo(j) /\ j \notin upTo(i)
      BY <3>1
    <3>3. ASSUME NEW k \in upTo(i) PROVE k \in upTo(j)
      BY <1>3, <3>0
    <3> QED  BY <3>2, <3>3
  <2>2. Cardinality(upTo(i)) <= Cardinality(upTo(j))
        /\ Cardinality(upTo(i)) # Cardinality(upTo(j))
    <3>1. IsFiniteSet(upTo(j))
      BY <1>2
    <3> HIDE DEF upTo
    <3> QED  BY <2>1, <3>1, FS_Subset
  <2> QED  BY <2>2, <1>2
<1>4. rank \in [K -> 1 .. m]
  BY <1>2
<1>5. rank \in Injection(K, 1 .. m)
  <2>1. \A i, j \in K : rank[i] = rank[j] => i = j
    <3> SUFFICES ASSUME NEW i \in K, NEW j \in K, rank[i] = rank[j], i # j PROVE FALSE
      OBVIOUS
    <3>1. i < j \/ j < i
      OBVIOUS
    <3>2. rank[i] \in Int /\ rank[j] \in Int
      BY <1>4
    <3> QED  BY <3>1, <3>2, <1>3
  <2> QED  BY <2>1, <1>4 DEF Injection, IsInjective
<1>6. rank \in Surjection(K, 1 .. m)
  <2>1. 1 \in Int /\ m \in Int
    BY <1>1
  <2>2. IsFiniteSet(1 .. m)
    BY <2>1, FS_Interval, Zenon
  <2>3. Cardinality(1 .. m) = IF 1 > m THEN 0 ELSE m - 1 + 1
    BY <2>1, FS_Interval, Zenon
  <2>4. Cardinality(1 .. m) = Cardinality(K)
    BY <2>3, <1>1
  <2> HIDE DEF m
  <2> QED  BY <1>5, <2>2, <2>4, FS_Injection
<1> QED  BY <1>3, <1>5, <1>6 DEF Bijection

\* The places that Keep takes the elements from, in order.
Places(pos, I) ==
    /\ pos \in [1 .. Cardinality(I) -> I]
    /\ \A i \in I : \E k \in 1 .. Cardinality(I) : pos[k] = i
    /\ \A k, l \in 1 .. Cardinality(I) : k < l => pos[k] < pos[l]

LEMMA KeepPlaces ==
    ASSUME NEW ts, NEW I \in SUBSET Nat, IsFiniteSet(I)
    PROVE  /\ Cardinality(I) \in Nat
           /\ \E pos : /\ Places(pos, I)
                       /\ Keep(ts, I) = [k \in 1 .. Cardinality(I) |-> ts[pos[k]]]
<1> DEFINE m == Cardinality(I)
           r == [i \in I |-> Cardinality({j \in I : j <= i})]
           pos == [k \in 1 .. m |-> CHOOSE i \in I : Cardinality({j \in I : j <= i}) = k]
<1>1. /\ r \in [I -> 1 .. m]
      /\ \A k \in 1 .. m : \E i \in I : r[i] = k
      /\ \A i, j \in I : i < j => r[i] < r[j]
  <2>1. r \in Bijection(I, 1 .. m) /\ \A i, j \in I : i < j => r[i] < r[j]
    BY RankBijection
  <2> HIDE DEF r, m
  <2> QED  BY <2>1 DEF Bijection, Injection, Surjection
<1>2. m \in Nat
  BY FS_CardinalityType
<1>3. \A k \in 1 .. m : pos[k] \in I /\ r[pos[k]] = k
  <2> TAKE k \in 1 .. m
  <2>1. \E i \in I : Cardinality({j \in I : j <= i}) = k
    BY <1>1
  <2>2. pos[k] \in I /\ Cardinality({j \in I : j <= pos[k]}) = k
    BY <2>1, Zenon
  <2> QED  BY <2>2
<1>4. Keep(ts, I) = [k \in 1 .. m |-> ts[pos[k]]]
  BY DEF Keep
<1> HIDE DEF pos, r, m
<1>5. pos \in [1 .. m -> I]
  <2>1. pos = [k \in 1 .. m |-> pos[k]]
    BY DEF pos
  <2> QED  BY <2>1, <1>3
<1>6. \A i \in I : \E k \in 1 .. m : pos[k] = i
  <2> TAKE i \in I
  <2>1. r[i] \in 1 .. m /\ pos[r[i]] \in I /\ r[pos[r[i]]] = r[i]
    BY <1>1, <1>3
  <2>2. pos[r[i]] = i
    <3> DEFINE j == pos[r[i]]
    <3>1. j \in I /\ r[j] = r[i] /\ r[i] \in Int
      BY <1>2, <2>1
    <3> HIDE DEF j
    <3>2. ~ (r[i] < r[j]) /\ ~ (r[j] < r[i])
      BY <3>1
    <3>3. ~ (j < i) /\ ~ (i < j)
      BY <1>1, <3>1, <3>2
    <3>4. i \in Int /\ j \in Int
      BY <3>1
    <3>5. j = i
      BY <3>3, <3>4
    <3> QED  BY <3>5 DEF j
  <2> QED  BY <2>1, <2>2
<1>7. \A k, l \in 1 .. m : k < l => pos[k] < pos[l]
  <2> SUFFICES ASSUME NEW k \in 1 .. m, NEW l \in 1 .. m, k < l PROVE pos[k] < pos[l]
    OBVIOUS
  <2>1. pos[k] \in I /\ pos[l] \in I /\ r[pos[k]] = k /\ r[pos[l]] = l
    BY <1>3
  <2>2. k \in Int /\ l \in Int /\ k # l /\ ~ (l < k)
    BY <1>2
  <2>3. pos[k] # pos[l]
    BY <2>1, <2>2
  <2>4. ~ (pos[l] < pos[k])
    BY <1>1, <2>1, <2>2
  <2>5. I \subseteq Int
    OBVIOUS
  <2>6. pos[k] \in Int /\ pos[l] \in Int
    BY <2>1, <2>5
  <2> QED  BY <2>3, <2>4, <2>6
<1> QED  BY <1>2, <1>4, <1>5, <1>6, <1>7 DEF Places, m
-----------------------------------------------------------------------------
(* Counting epsilons.                                                      *)

\* The positions of D that hold a transition with an epsilon on that side.
EpsilonsAmong(ts, D, side) == {i \in D : ts[i][side] = Eps}

\* An interval from 1 is finite.
LEMMA UpTo ==
    ASSUME NEW n \in Nat
    PROVE  IsFiniteSet(1 .. n) /\ Cardinality(1 .. n) = n
<1>1. 1 \in Int /\ n \in Int
  OBVIOUS
<1>2. /\ IsFiniteSet(1 .. n)
      /\ Cardinality(1 .. n) = IF 1 > n THEN 0 ELSE n - 1 + 1
  BY <1>1, FS_Interval, Zenon
<1> QED  BY <1>2

\* What is kept has the epsilons that were at the places kept.
LEMMA EpsInKeep ==
    ASSUME NEW ts, NEW I \in SUBSET Nat, IsFiniteSet(I), NEW side
    PROVE  EpsIn(Keep(ts, I), side) = Cardinality(EpsilonsAmong(ts, I, side))
<1> DEFINE m == Cardinality(I)
<1>1. PICK pos : /\ Places(pos, I)
                 /\ Keep(ts, I) = [k \in 1 .. m |-> ts[pos[k]]]
  BY KeepPlaces
<1>2. m \in Nat
  BY FS_CardinalityType
<1> HIDE DEF m
<1>3. /\ pos \in [1 .. m -> I]
      /\ \A i \in I : \E k \in 1 .. m : pos[k] = i
      /\ \A k, l \in 1 .. m : k < l => pos[k] < pos[l]
  BY <1>1 DEF Places, m
<1> DEFINE A == {k \in 1 .. m : ts[pos[k]][side] = Eps}
           B == EpsilonsAmong(ts, I, side)
           g == [k \in A |-> pos[k]]
<1>4. EpsIn(Keep(ts, I), side) = Cardinality(A)
  <2>1. Keep(ts, I) = [k \in 1 .. m |-> ts[pos[k]]]
    BY <1>1 DEF m
  <2>2. {i \in DOMAIN Keep(ts, I) : Keep(ts, I)[i][side] = Eps} = A
    BY <2>1
  <2> QED  BY <2>2 DEF EpsIn
<1>5. g \in Bijection(A, B)
  <2>1. g \in [A -> B]
    BY <1>3 DEF EpsilonsAmong
  <2>2. \A k, l \in A : g[k] = g[l] => k = l
    <3> SUFFICES ASSUME NEW k \in A, NEW l \in A, pos[k] = pos[l], k # l PROVE FALSE
      OBVIOUS
    <3>1. k \in 1 .. m /\ l \in 1 .. m
      OBVIOUS
    <3>2. k < l \/ l < k
      BY <3>1, <1>2
    <3>3. pos[k] \in Nat /\ pos[l] \in Nat
      <4>1. pos[k] \in I /\ pos[l] \in I /\ I \subseteq Nat
        BY <3>1, <1>3
      <4> QED  BY <4>1
    <3>4. pos[k] < pos[l] \/ pos[l] < pos[k]
      BY <3>1, <3>2, <1>3
    <3> QED  BY <3>3, <3>4
  <2>3. \A i \in B : \E k \in A : g[k] = i
    BY <1>3 DEF EpsilonsAmong
  <2> HIDE DEF A, B, g
  <2> QED  BY <2>1, <2>2, <2>3, Zenon
         DEF Bijection, Injection, Surjection, IsInjective
<1>6. IsFiniteSet(A)
  <2>1. IsFiniteSet(1 .. m) /\ A \in SUBSET (1 .. m)
    BY <1>2, UpTo
  <2> HIDE DEF A
  <2> QED  BY <2>1, FS_Subset
<1>7. Cardinality(B) = Cardinality(A)
  <2>1. Bijection(A, B) # {}
    BY <1>5
  <2> HIDE DEF A, B, g
  <2>2. ExistsBijection(A, B)
    BY <2>1 DEF ExistsBijection
  <2> QED  BY <2>2, <1>6, FS_Bijection
<1> QED  BY <1>4, <1>7

\* The epsilons kept are those there were, less those that went.
LEMMA EpsInSplit ==
    ASSUME NEW ts, NEW D \in SUBSET Nat, DOMAIN ts = D, IsFiniteSet(D),
           NEW gone \in SUBSET D, NEW side
    PROVE  /\ EpsIn(Keep(ts, D \ gone), side)
              = EpsIn(ts, side) - EpsIn(Keep(ts, gone), side)
           /\ EpsIn(Keep(ts, D \ gone), side) \in Nat
           /\ EpsIn(ts, side) \in Nat
           /\ EpsIn(Keep(ts, gone), side) \in Nat
<1> DEFINE left == D \ gone
           E(S) == EpsilonsAmong(ts, S, side)
<1>1. IsFiniteSet(left) /\ IsFiniteSet(gone) /\ left \in SUBSET Nat /\ gone \in SUBSET Nat
  <2>1. left \in SUBSET D /\ gone \in SUBSET D
    OBVIOUS
  <2> QED  BY <2>1, FS_Subset
<1>2. /\ E(left) \in SUBSET left /\ E(gone) \in SUBSET gone
      /\ E(left) \cup E(gone) = E(D) /\ E(left) \cap E(gone) = {}
  BY DEF EpsilonsAmong
<1>3. EpsIn(Keep(ts, left), side) = Cardinality(E(left))
  BY <1>1, EpsInKeep
<1>4. EpsIn(Keep(ts, gone), side) = Cardinality(E(gone))
  BY <1>1, EpsInKeep
<1>5. EpsIn(ts, side) = Cardinality(E(D))
  BY DEF EpsIn, EpsilonsAmong
<1> HIDE DEF left, E
<1>6. IsFiniteSet(E(left)) /\ IsFiniteSet(E(gone))
  BY <1>1, <1>2, FS_Subset
<1>7. /\ Cardinality(E(left)) \in Nat /\ Cardinality(E(gone)) \in Nat
      /\ Cardinality(E(D)) = Cardinality(E(left)) + Cardinality(E(gone)) - 0
  <2>1. Cardinality(E(left) \cup E(gone))
        = Cardinality(E(left)) + Cardinality(E(gone)) - Cardinality(E(left) \cap E(gone))
    BY <1>6, FS_Union
  <2>2. Cardinality(E(left) \cap E(gone)) = 0
    BY <1>2, FS_EmptySet
  <2> QED  BY <2>1, <2>2, <1>2, <1>6, FS_CardinalityType
<1>8. /\ EpsIn(Keep(ts, left), side) = EpsIn(ts, side) - EpsIn(Keep(ts, gone), side)
      /\ EpsIn(Keep(ts, left), side) \in Nat /\ EpsIn(ts, side) \in Nat
      /\ EpsIn(Keep(ts, gone), side) \in Nat
  BY <1>3, <1>4, <1>5, <1>7
<1> QED  BY <1>8 DEF left

\* One more transition at the end counts itself.
LEMMA EpsInAppend ==
    ASSUME NEW T, NEW ts \in Seq(T), NEW t, NEW side
    PROVE  EpsIn(Append(ts, t), side)
           = EpsIn(ts, side) + (IF t[side] = Eps THEN 1 ELSE 0)
<1> DEFINE n == Len(ts)
           old == {i \in 1 .. n : ts[i][side] = Eps}
           new == {i \in 1 .. n + 1 : Append(ts, t)[i][side] = Eps}
<1>1. n \in Nat /\ DOMAIN ts = 1 .. n /\ DOMAIN Append(ts, t) = 1 .. n + 1
  OBVIOUS
<1>2. EpsIn(ts, side) = Cardinality(old) /\ EpsIn(Append(ts, t), side) = Cardinality(new)
  BY <1>1 DEF EpsIn
<1>3. \A i \in 1 .. n : Append(ts, t)[i] = ts[i]
  OBVIOUS
<1>4. Append(ts, t)[n + 1] = t
  OBVIOUS
<1>5. new = IF t[side] = Eps THEN old \cup {n + 1} ELSE old
  <2>1. 1 .. n + 1 = 1 .. n \cup {n + 1}
    BY <1>1
  <2> HIDE DEF n
  <2> QED  BY <2>1, <1>3, <1>4
<1>6. IsFiniteSet(old) /\ n + 1 \notin old /\ Cardinality(old) \in Nat
  <2>1. old \in SUBSET (1 .. n) /\ IsFiniteSet(1 .. n) /\ n + 1 \notin 1 .. n
    BY <1>1, UpTo
  <2> HIDE DEF old, n
  <2> QED  BY <2>1, FS_Subset, FS_CardinalityType
<1> HIDE DEF old, new, n
<1>7. Cardinality(old \cup {n + 1}) = Cardinality(old) + 1
  BY <1>6, FS_AddElement
<1> QED  BY <1>2, <1>5, <1>6, <1>7

\* A transition put in the place of another counts for it.
LEMMA EpsInExcept ==
    ASSUME NEW T, NEW ts \in Seq(T), NEW i \in DOMAIN ts, NEW t, NEW side
    PROVE  EpsIn([ts EXCEPT ![i] = t], side)
           = EpsIn(ts, side) - (IF ts[i][side] = Eps THEN 1 ELSE 0)
                             + (IF t[side] = Eps THEN 1 ELSE 0)
<1> DEFINE D == DOMAIN ts
           new == [ts EXCEPT ![i] = t]
           rest == {j \in D \ {i} : ts[j][side] = Eps}
           was == {j \in D : ts[j][side] = Eps}
           is == {j \in D : new[j][side] = Eps}
<1>1. IsFiniteSet(rest) /\ i \notin rest /\ Cardinality(rest) \in Nat
  <2>1. Len(ts) \in Nat /\ D = 1 .. Len(ts) /\ rest \in SUBSET D /\ i \notin rest
    OBVIOUS
  <2>2. IsFiniteSet(D)
    BY <2>1, UpTo
  <2> HIDE DEF rest, D
  <2> QED  BY <2>1, <2>2, FS_Subset, FS_CardinalityType
<1>2. EpsIn(ts, side) = Cardinality(was) /\ EpsIn(new, side) = Cardinality(is)
  BY DEF EpsIn
<1>3. /\ was = IF ts[i][side] = Eps THEN rest \cup {i} ELSE rest
      /\ is = IF t[side] = Eps THEN rest \cup {i} ELSE rest
  OBVIOUS
<1> HIDE DEF rest, was, is
<1>4. Cardinality(rest \cup {i}) = Cardinality(rest) + 1
  BY <1>1, FS_AddElement
<1> QED  BY <1>1, <1>2, <1>3, <1>4

-----------------------------------------------------------------------------
(* The shape of a machine: states 0..n-1, transitions between them.        *)

IsMachine(f, n) ==
    f \in [start : {None} \cup 0 .. n-1,
           trs   : [0 .. n-1 -> Seq(Tr(n))],
           final : [0 .. n-1 -> {None} \cup FinalWeights],
           eps   : [0 .. n-1 -> [Sides -> Nat]],
           props : SUBSET CopyProperties]

\* Every counter is the number it stands for.
Counted(f) ==
    \A s \in StatesOf(f) :
      f.eps[s] = [side \in Sides |-> EpsIn(f.trs[s], side)]

Inv == \E n \in 0 .. MaxStates : IsMachine(fst, n) /\ Counted(fst)

LEMMA BelowFinite ==
    ASSUME NEW n \in Nat
    PROVE  IsFiniteSet(0 .. n-1) /\ Cardinality(0 .. n-1) = n
<1>1. 0 \in Int /\ n - 1 \in Int
  OBVIOUS
<1>2. /\ IsFiniteSet(0 .. n-1)
      /\ Cardinality(0 .. n-1) = IF 0 > n - 1 THEN 0 ELSE n - 1 - 0 + 1
  BY <1>1, FS_Interval, Zenon
<1> QED  BY <1>2

LEMMA ShapeStates ==
    ASSUME NEW n \in Nat, NEW f, IsMachine(f, n)
    PROVE  StatesOf(f) = 0 .. n-1 /\ NumStates(f) = n
<1>1. StatesOf(f) = 0 .. n-1
  BY DEF IsMachine, StatesOf
<1> QED  BY <1>1, BelowFinite DEF NumStates

\* A list of transitions has finitely many positions, and counts.
LEMMA EpsInType ==
    ASSUME NEW T, NEW ts \in Seq(T), NEW side
    PROVE  EpsIn(ts, side) \in Nat
<1>1. Len(ts) \in Nat /\ DOMAIN ts = 1 .. Len(ts)
  OBVIOUS
<1>2. {i \in DOMAIN ts : ts[i][side] = Eps} \in SUBSET (1 .. Len(ts))
  BY <1>1
<1> QED  BY <1>1, <1>2, UpTo, FS_Subset, FS_CardinalityType DEF EpsIn

LEMMA NewShape ==
    IsMachine(NewFst, 0) /\ Counted(NewFst)
<1>1. 0 .. 0-1 = {}
  OBVIOUS
<1>2. \A X : <<>> \in [{} -> X]
  OBVIOUS
<1>3. NullProperties \subseteq CopyProperties
  BY DEF NullProperties, CopyProperties, DetSorted, NoEps, Acyc, LabelPairs, Deterministic,
         Sorted, Wtd, Cycles, Top, Reached, Str, Acc, BothEps, IEps, OEps, IDet, ODet,
         ISort, OSort, Cyc, ICyc, WCyc, Access, Coaccess
<1>4. IsMachine(NewFst, 0)
  BY <1>1, <1>2, <1>3 DEF IsMachine, NewFst
<1>5. StatesOf(NewFst) = {}
  BY <1>1, <1>4 DEF IsMachine, StatesOf
<1> QED  BY <1>4, <1>5 DEF Counted

\* Every mutation leaves bits among those that are kept.
LEMMA BitsTyped ==
    ASSUME NEW p \in SUBSET CopyProperties
    PROVE  /\ SetStartProperties(p) \in SUBSET CopyProperties
           /\ \A old, new : SetFinalProperties(p, old, new) \in SUBSET CopyProperties
           /\ AddStateProperties(p) \in SUBSET CopyProperties
           /\ \A q, s, t, prev : AddTrProperties(q, s, t, prev) \in SUBSET CopyProperties
           /\ DeleteStatesProperties(p) \in SUBSET CopyProperties
           /\ DeleteTrsProperties(p) \in SUBSET CopyProperties
           /\ p \cap (DeleteArcsMask \ Acyc) \in SUBSET CopyProperties
           /\ \A q : q \cap RelevantMask \in SUBSET CopyProperties
<1>1. /\ Acyc \subseteq CopyProperties /\ "INITIAL_ACYCLIC" \in CopyProperties
      /\ SetFinalMask \cup Wtd \subseteq CopyProperties
      /\ RelevantMask \subseteq CopyProperties
      /\ AddArcMask \cup NoEps \cup {"ACCEPTOR", "I_LABEL_SORTED", "O_LABEL_SORTED",
                                     "UNWEIGHTED", "TOP_SORTED"} \subseteq CopyProperties
  BY DEF SetFinalMask, AddArcMask, RelevantMask, HasEps, NotDetSorted, CopyProperties,
         NoEps, Acyc, LabelPairs, Deterministic, Sorted, Wtd, Cycles, Top, Reached, Str,
         Acc, BothEps, IEps, OEps, IDet, ODet, ISort, OSort, Cyc, ICyc, WCyc, Access,
         Coaccess
<1>2. SetStartProperties(p) \in SUBSET CopyProperties
  BY <1>1 DEF SetStartProperties, When
<1>3. \A old, new : SetFinalProperties(p, old, new) \in SUBSET CopyProperties
  BY <1>1 DEF SetFinalProperties
<1>4. \A q, s, t, prev : AddTrProperties(q, s, t, prev) \in SUBSET CopyProperties
  BY <1>1 DEF AddTrProperties, AcyclicIfSorted, Learnt, When
<1> QED  BY <1>1, <1>2, <1>3, <1>4
         DEF AddStateProperties, DeleteStatesProperties, DeleteTrsProperties

-----------------------------------------------------------------------------
(* Each mutation keeps the shape, and the counters true.                   *)

LEMMA SetStartCounts ==
    ASSUME NEW n \in Nat, NEW f, IsMachine(f, n), Counted(f), NEW s \in StatesOf(f)
    PROVE  IsMachine(SetStart(f, s), n) /\ Counted(SetStart(f, s))
<1>1. StatesOf(f) = 0 .. n-1
  BY ShapeStates
<1>2. IsMachine(SetStart(f, s), n)
  BY <1>1, BitsTyped DEF IsMachine, SetStart
<1> QED  BY <1>2 DEF Counted, SetStart, StatesOf, IsMachine

LEMMA SetFinalCounts ==
    ASSUME NEW n \in Nat, NEW f, IsMachine(f, n), Counted(f), NEW s \in StatesOf(f),
           NEW w \in FinalWeights \cup {None}
    PROVE  IsMachine(SetFinal(f, s, w), n) /\ Counted(SetFinal(f, s, w))
<1>1. StatesOf(f) = 0 .. n-1
  BY ShapeStates
<1>2. IsMachine(SetFinal(f, s, w), n)
  BY <1>1, BitsTyped DEF IsMachine, SetFinal
<1> QED  BY <1>2 DEF Counted, SetFinal, StatesOf, IsMachine

\* More states, more ends for a transition.
LEMMA MoreEnds ==
    ASSUME NEW n \in Nat, NEW m \in Nat, n <= m
    PROVE  Tr(n) \subseteq Tr(m) /\ Seq(Tr(n)) \subseteq Seq(Tr(m))
<1>1. 0 .. n-1 \subseteq 0 .. m-1
  OBVIOUS
<1>2. Tr(n) \subseteq Tr(m)
  BY <1>1 DEF Tr
<1> QED  BY <1>2

LEMMA NoEpsilonsIn == \A side : EpsIn(<<>>, side) = 0
<1> SUFFICES ASSUME NEW side PROVE EpsIn(<<>>, side) = 0
  OBVIOUS
<1>1. {i \in DOMAIN <<>> : <<>>[i][side] = Eps} = {}
  OBVIOUS
<1> QED  BY <1>1, FS_EmptySet DEF EpsIn

\* A machine with four of its fields replaced.
LEMMA ExceptFour ==
    ASSUME NEW n, NEW f, IsMachine(f, n), NEW T, NEW F, NEW E, NEW p
    PROVE  [f EXCEPT !.trs = T, !.final = F, !.eps = E, !.props = p]
           = [start |-> f.start, trs |-> T, final |-> F, eps |-> E, props |-> p]
<1> DEFINE r1 == [start |-> f.start, trs |-> T, final |-> f.final, eps |-> f.eps,
                  props |-> f.props]
           r2 == [start |-> f.start, trs |-> T, final |-> F, eps |-> f.eps,
                  props |-> f.props]
           r3 == [start |-> f.start, trs |-> T, final |-> F, eps |-> E,
                  props |-> f.props]
           r4 == [start |-> f.start, trs |-> T, final |-> F, eps |-> E, props |-> p]
<1>1. f = [start |-> f.start, trs |-> f.trs, final |-> f.final, eps |-> f.eps,
           props |-> f.props]
  BY DEF IsMachine
<1>2. [f EXCEPT !.trs = T] = r1
  BY <1>1
<1>3. [r1 EXCEPT !.final = F] = r2
  OBVIOUS
<1>4. [r2 EXCEPT !.eps = E] = r3
  OBVIOUS
<1>5. [r3 EXCEPT !.props = p] = r4
  OBVIOUS
<1>6. [[[[f EXCEPT !.trs = T] EXCEPT !.final = F] EXCEPT !.eps = E] EXCEPT !.props = p] = r4
  <2> HIDE DEF r1, r2, r3, r4
  <2> QED  BY <1>2, <1>3, <1>4, <1>5, Zenon
<1> QED  BY <1>6, Zenon

LEMMA AddStatesCounts ==
    ASSUME NEW n \in Nat, NEW f, IsMachine(f, n), Counted(f), NEW k \in Nat
    PROVE  IsMachine(AddStates(f, k), n + k) /\ Counted(AddStates(f, k))
<1> DEFINE g == AddStates(f, k)
<1>1. StatesOf(f) = 0 .. n-1 /\ NumStates(f) = n
  BY ShapeStates
<1> DEFINE T == [s \in 0..n+k-1 |-> IF s < n THEN f.trs[s] ELSE <<>>]
           F == [s \in 0..n+k-1 |-> IF s < n THEN f.final[s] ELSE None]
           E == [s \in 0..n+k-1 |-> IF s < n THEN f.eps[s] ELSE NoEpsCounted]
           p == AddStateProperties(f.props)
<1>2. g = [start |-> f.start, trs |-> T, final |-> F, eps |-> E, props |-> p]
  <2>1. g = [f EXCEPT !.trs = T, !.final = F, !.eps = E, !.props = p]
    BY <1>1 DEF AddStates
  <2> HIDE DEF g, T, F, E, p
  <2> QED  BY <2>1, ExceptFour
<1> HIDE DEF g
<1>3. \A s \in 0..n+k-1 : s < n => s \in 0..n-1
  OBVIOUS
<1>4. Seq(Tr(n)) \subseteq Seq(Tr(n + k)) /\ 0 .. n-1 \subseteq 0 .. n+k-1
  BY MoreEnds
<1>5. f.start \in {None} \cup 0 .. n+k-1
  BY <1>4 DEF IsMachine
<1>6. T \in [0 .. n+k-1 -> Seq(Tr(n + k))]
  <2> SUFFICES ASSUME NEW s \in 0 .. n+k-1
               PROVE  (IF s < n THEN f.trs[s] ELSE <<>>) \in Seq(Tr(n + k))
    OBVIOUS
  <2>1. CASE s < n
    <3>1. f.trs[s] \in Seq(Tr(n))
      BY <2>1, <1>3 DEF IsMachine
    <3> QED  BY <3>1, <2>1, <1>4
  <2>2. CASE ~ (s < n)
    BY <2>2
  <2> QED  BY <2>1, <2>2
<1>7. F \in [0 .. n+k-1 -> {None} \cup FinalWeights]
  BY <1>3 DEF IsMachine
<1>8. E \in [0 .. n+k-1 -> [Sides -> Nat]]
  BY <1>3 DEF IsMachine, NoEpsCounted
<1>9. p \in SUBSET CopyProperties
  BY BitsTyped DEF IsMachine
<1>10. IsMachine(g, n + k)
  <2> HIDE DEF T, F, E, p
  <2> QED  BY <1>2, <1>5, <1>6, <1>7, <1>8, <1>9 DEF IsMachine
<1>11. Counted(g)
  <2> SUFFICES ASSUME NEW s \in 0 .. n+k-1
               PROVE  g.eps[s] = [side \in Sides |-> EpsIn(g.trs[s], side)]
    BY <1>2 DEF Counted, StatesOf
  <2>1. CASE s < n
    <3>1. g.eps[s] = f.eps[s] /\ g.trs[s] = f.trs[s]
      BY <2>1, <1>2
    <3>2. s \in StatesOf(f)
      BY <2>1, <1>1, <1>3
    <3> QED  BY <3>1, <3>2 DEF Counted
  <2>2. CASE ~ (s < n)
    BY <2>2, <1>2, NoEpsilonsIn DEF NoEpsCounted
  <2> QED  BY <2>1, <2>2
<1> QED  BY <1>10, <1>11 DEF g

\* A machine with the transitions of one state replaced.
Replaced(f, s, X, Y, p) == [f EXCEPT !.trs[s] = X, !.eps[s] = Y, !.props = p]

LEMMA ExceptAt ==
    ASSUME NEW n, NEW f, IsMachine(f, n), NEW s, NEW X, NEW Y, NEW p
    PROVE  Replaced(f, s, X, Y, p)
           = [start |-> f.start, trs |-> [f.trs EXCEPT ![s] = X], final |-> f.final,
              eps |-> [f.eps EXCEPT ![s] = Y], props |-> p]
<1> DEFINE T == [f.trs EXCEPT ![s] = X]
           E == [f.eps EXCEPT ![s] = Y]
           r1 == [start |-> f.start, trs |-> T, final |-> f.final, eps |-> f.eps,
                  props |-> f.props]
           r2 == [start |-> f.start, trs |-> T, final |-> f.final, eps |-> E,
                  props |-> f.props]
           r3 == [start |-> f.start, trs |-> T, final |-> f.final, eps |-> E,
                  props |-> p]
<1>1. f = [start |-> f.start, trs |-> f.trs, final |-> f.final, eps |-> f.eps,
           props |-> f.props]
  BY DEF IsMachine
<1>2. [f EXCEPT !.trs[s] = X] = r1
  BY <1>1
<1>3. [r1 EXCEPT !.eps[s] = Y] = r2
  OBVIOUS
<1>4. [r2 EXCEPT !.props = p] = r3
  OBVIOUS
<1>5. [[[f EXCEPT !.trs[s] = X] EXCEPT !.eps[s] = Y] EXCEPT !.props = p] = r3
  <2> HIDE DEF r1, r2, r3
  <2> QED  BY <1>2, <1>3, <1>4, Zenon
<1> QED  BY <1>5, Zenon DEF Replaced

\* New transitions for one state, with the counters that go with them.
LEMMA OneStateCounts ==
    ASSUME NEW n \in Nat, NEW f, IsMachine(f, n), Counted(f), NEW s \in StatesOf(f),
           NEW X \in Seq(Tr(n)), NEW Y, NEW p \in SUBSET CopyProperties,
           Y = [side \in Sides |-> EpsIn(X, side)]
    PROVE  IsMachine(Replaced(f, s, X, Y, p), n) /\ Counted(Replaced(f, s, X, Y, p))
<1> DEFINE T == [f.trs EXCEPT ![s] = X]
           E == [f.eps EXCEPT ![s] = Y]
           g == [start |-> f.start, trs |-> T, final |-> f.final, eps |-> E, props |-> p]
<1>1. StatesOf(f) = 0 .. n-1
  BY ShapeStates
<1>2. Y \in [Sides -> Nat]
  BY EpsInType
<1>3. T \in [0 .. n-1 -> Seq(Tr(n))] /\ E \in [0 .. n-1 -> [Sides -> Nat]]
  BY <1>1, <1>2 DEF IsMachine
<1>4. IsMachine(g, n)
  <2> HIDE DEF T, E
  <2> QED  BY <1>3 DEF IsMachine
<1>5. Counted(g)
  <2> SUFFICES ASSUME NEW r \in 0 .. n-1
               PROVE  E[r] = [side \in Sides |-> EpsIn(T[r], side)]
    BY <1>3 DEF Counted, StatesOf
  <2>1. CASE r = s
    BY <2>1, <1>1 DEF IsMachine
  <2>2. CASE r # s
    BY <2>2, <1>1 DEF IsMachine, Counted
  <2> QED  BY <2>1, <2>2
<1>6. Replaced(f, s, X, Y, p) = g
  BY ExceptAt
<1> HIDE DEF g
<1> QED  BY <1>4, <1>5, <1>6

\* A transition added, its counters written as what they count.
LEMMA AddTrIs ==
    ASSUME NEW n \in Nat, NEW f, IsMachine(f, n), Counted(f), NEW s \in StatesOf(f),
           NEW t \in Tr(n)
    PROVE  LET X == Append(f.trs[s], t)
           IN  /\ X \in Seq(Tr(n))
               /\ AddTr(f, s, t) = Replaced(f, s, X, [side \in Sides |-> EpsIn(X, side)],
                                    AddTrProperties(f.props, s, t, LastOf(f.trs[s])))
<1> DEFINE X == Append(f.trs[s], t)
           Y == [side \in Sides |-> f.eps[s][side] + IF t[side] = Eps THEN 1 ELSE 0]
           p == AddTrProperties(f.props, s, t, LastOf(f.trs[s]))
<1>1. StatesOf(f) = 0 .. n-1
  BY ShapeStates
<1>2. f.trs[s] \in Seq(Tr(n))
  BY <1>1 DEF IsMachine
<1>3. Y = [side \in Sides |-> EpsIn(X, side)]
  <2>1. \A side \in Sides :
          f.eps[s][side] + (IF t[side] = Eps THEN 1 ELSE 0) = EpsIn(X, side)
    <3> TAKE side \in Sides
    <3>1. f.eps[s][side] = EpsIn(f.trs[s], side)
      BY DEF Counted
    <3>2. EpsIn(X, side) = EpsIn(f.trs[s], side) + (IF t[side] = Eps THEN 1 ELSE 0)
      BY <1>2, EpsInAppend
    <3> QED  BY <3>1, <3>2
  <2> QED  BY <2>1
<1>4. AddTr(f, s, t) = Replaced(f, s, X, Y, p)
  BY <1>1 DEF AddTr, Replaced, IsMachine
<1>5. X \in Seq(Tr(n))
  BY <1>2
<1> HIDE DEF X, Y, p
<1> QED  BY <1>3, <1>4, <1>5 DEF X, p

LEMMA AddTrCounts ==
    ASSUME NEW n \in Nat, NEW f, IsMachine(f, n), Counted(f), NEW s \in StatesOf(f),
           NEW t \in Tr(n)
    PROVE  IsMachine(AddTr(f, s, t), n) /\ Counted(AddTr(f, s, t))
<1> DEFINE X == Append(f.trs[s], t)
           Y == [side \in Sides |-> EpsIn(X, side)]
           p == AddTrProperties(f.props, s, t, LastOf(f.trs[s]))
<1>1. p \in SUBSET CopyProperties
  <2>1. f.props \in SUBSET CopyProperties
    BY DEF IsMachine
  <2> QED  BY <2>1, BitsTyped
<1>2. X \in Seq(Tr(n)) /\ AddTr(f, s, t) = Replaced(f, s, X, Y, p)
  BY AddTrIs
<1> HIDE DEF X, p
<1> QED  BY <1>1, <1>2, OneStateCounts

LEMMA DeleteTrsCounts ==
    ASSUME NEW n \in Nat, NEW f, IsMachine(f, n), Counted(f), NEW s \in StatesOf(f)
    PROVE  IsMachine(DeleteTrs(f, s), n) /\ Counted(DeleteTrs(f, s))
<1> DEFINE X == <<>>
           p == DeleteTrsProperties(f.props)
<1>1. X \in Seq(Tr(n)) /\ p \in SUBSET CopyProperties
  BY BitsTyped DEF IsMachine
<1>2. NoEpsCounted = [side \in Sides |-> EpsIn(X, side)]
  BY NoEpsilonsIn DEF NoEpsCounted
<1>3. DeleteTrs(f, s) = Replaced(f, s, X, NoEpsCounted, p)
  BY DEF DeleteTrs, Replaced
<1> HIDE DEF X, p
<1> QED  BY <1>1, <1>2, <1>3, OneStateCounts

LEMMA AppendKeeps ==
    ASSUME NEW T, NEW ts \in Seq(T), NEW t
    PROVE  \A i \in 1 .. Len(ts) : Append(ts, t)[i] = ts[i]
OBVIOUS

LEMMA AppendOnce ==
    ASSUME NEW T, NEW t \in T, NEW u \in T
    PROVE  Append(<<>>, t) = <<t>> /\ Append(<<t>>, u) = <<t, u>>
<1>1. Append(<<>>, t) = <<t>>
  <2> DEFINE A == Append(<<>>, t)
  <2>1. A \in Seq(T) /\ Len(A) = 1 /\ A[1] = t
    <3>1. <<>> \in Seq(T) /\ Len(<<>>) = 0
      BY EmptySeq
    <3>2. /\ Append(<<>>, t) \in Seq(T) /\ Len(Append(<<>>, t)) = Len(<<>>) + 1
          /\ Append(<<>>, t)[Len(<<>>) + 1] = t
      BY <3>1, AppendProperties, Zenon
    <3> QED  BY <3>1, <3>2
  <2> DEFINE B == <<t>>
  <2>2. B \in Seq(T) /\ Len(B) = 1 /\ B[1] = t
    OBVIOUS
  <2> HIDE DEF A, B
  <2>3. \A i \in 1 .. Len(A) : A[i] = B[i]
    BY <2>1, <2>2
  <2>4. A = B
    BY <2>1, <2>2, <2>3, SeqEqual
  <2> QED  BY <2>4 DEF A, B
<1>2. Append(<<t>>, u) = <<t, u>>
  <2> DEFINE A == Append(<<t>>, u)
  <2>1. A \in Seq(T) /\ Len(A) = 2 /\ A[1] = t /\ A[2] = u
    <3> DEFINE E == <<t>>
    <3>1. E \in Seq(T) /\ Len(E) = 1 /\ E[1] = t
      OBVIOUS
    <3> HIDE DEF E
    <3>2. /\ Append(E, u) \in Seq(T) /\ Len(Append(E, u)) = Len(E) + 1
          /\ Append(E, u)[1] = E[1] /\ Append(E, u)[2] = u
      <4>1. /\ Append(E, u) \in Seq(T) /\ Len(Append(E, u)) = Len(E) + 1
            /\ Append(E, u)[Len(E) + 1] = u
        BY <3>1, AppendProperties, Zenon
      <4>2. \A i \in 1 .. Len(E) : Append(E, u)[i] = E[i]
        BY <3>1, AppendKeeps
      <4>3. 1 \in 1 .. Len(E) /\ Len(E) + 1 = 2
        BY <3>1
      <4>4. Append(E, u)[1] = E[1]
        BY <4>2, <4>3, Zenon
      <4> QED  BY <4>1, <4>2, <4>3, <4>4
    <3>3. Append(E, u) = A
      BY DEF E
    <3> HIDE DEF A
    <3> QED  BY <3>1, <3>2, <3>3
  <2> DEFINE B == <<t, u>>
  <2>2. B \in Seq(T) /\ Len(B) = 2 /\ B[1] = t /\ B[2] = u
    OBVIOUS
  <2> HIDE DEF A, B
  <2>3. \A i \in 1 .. Len(A) : A[i] = B[i]
    BY <2>1, <2>2
  <2>4. A = B
    BY <2>1, <2>2, <2>3, SeqEqual
  <2> QED  BY <2>4 DEF A, B
<1> QED  BY <1>1, <1>2

\* Two transitions given at once to a state that has none are two added.
LEMMA SetTrsIsTwo ==
    ASSUME NEW n \in Nat, NEW f, IsMachine(f, n), Counted(f), NEW s \in StatesOf(f),
           f.trs[s] = <<>>, NEW t \in Tr(n), NEW u \in Tr(n)
    PROVE  SetTrs(f, s, <<t, u>>) = AddTr(AddTr(f, s, t), s, u)
<1> DEFINE ts == <<t, u>>
           p1 == AddTrProperties(f.props, s, t, <<>>)
           p2 == AddTrProperties(p1, s, u, <<t>>)
           Step(g) == [i \in 0 .. Len(ts) |->
                         IF i = 0 THEN f.props
                         ELSE AddTrProperties(g[i-1], s, ts[i], LastOf(SubSeq(ts, 1, i-1)))]
           bits == CHOOSE g : g = Step(g)
           Y == [side \in Sides |-> EpsIn(ts, side)]
<1>1. StatesOf(f) = 0 .. n-1
  BY ShapeStates
<1>2. /\ Len(ts) = 2 /\ 0 .. Len(ts) = {0, 1, 2} /\ ts[1] = t /\ ts[2] = u
      /\ LastOf(SubSeq(ts, 1, 0)) = <<>> /\ LastOf(SubSeq(ts, 1, 1)) = <<t>>
      /\ LastOf(<<>>) = <<>> /\ LastOf(<<t>>) = <<t>>
      /\ Append(<<>>, t) = <<t>> /\ Append(<<t>>, u) = ts
  <2>1. SubSeq(ts, 1, 0) = <<>>
    BY SubSeqEmpty
  <2>2. LastOf(<<>>) = <<>> /\ LastOf(<<t>>) = <<t>>
    <3>1. <<t>> # <<>> /\ Len(<<t>>) = 1 /\ <<t>>[1] = t
      OBVIOUS
    <3> QED  BY <3>1 DEF LastOf
  <2>3. LastOf(SubSeq(ts, 1, 1)) = <<t>>
    <3> DEFINE one == SubSeq(ts, 1, 1)
    <3>1. \A i \in 1 .. 1 : ts[i] \in Tr(n)
      OBVIOUS
    <3>2. one \in Seq(Tr(n)) /\ Len(one) = 1 /\ one[1] = t
      BY <3>1, SubSeqProperties
    <3> HIDE DEF one
    <3>3. one # <<>>
      <4>1. Len(<<>>) = 0
        BY EmptySeq
      <4>2. Len(one) # Len(<<>>)
        BY <3>2, <4>1
      <4> QED  BY <4>2, Zenon
    <3> QED  BY <3>2, <3>3 DEF LastOf
  <2>4. Append(<<>>, t) = <<t>> /\ Append(<<t>>, u) = ts
    BY AppendOnce
  <2>5. Len(ts) = 2 /\ 0 .. Len(ts) = {0, 1, 2} /\ ts[1] = t /\ ts[2] = u
    OBVIOUS
  <2> QED  BY <2>1, <2>2, <2>3, <2>4, <2>5
<1>3. bits[Len(ts)] = p2
  <2> DEFINE w == [i \in 0 .. Len(ts) |-> IF i = 0 THEN f.props
                                           ELSE IF i = 1 THEN p1 ELSE p2]
  <2>1. w[0] = f.props /\ w[1] = p1 /\ w[2] = p2 /\ DOMAIN w = {0, 1, 2}
    BY <1>2
  <2>2. /\ DOMAIN Step(w) = {0, 1, 2}
        /\ Step(w)[0] = f.props /\ Step(w)[1] = p1 /\ Step(w)[2] = p2
    BY <1>2, <2>1
  <2>3. w = Step(w)
    <3>1. Step(w) = [i \in {0, 1, 2} |-> Step(w)[i]] /\ w = [i \in {0, 1, 2} |-> w[i]]
      BY <1>2
    <3> HIDE DEF Step, w
    <3> QED  BY <2>1, <2>2, <3>1
  <2>4. bits = Step(bits)
    BY <2>3, Zenon
  <2> HIDE DEF bits
  <2>5. bits[0] = f.props
    BY <1>2, <2>4
  <2>6. bits[1] = p1
    BY <1>2, <2>4, <2>5
  <2>7. bits[2] = p2
    BY <1>2, <2>4, <2>6
  <2> QED  BY <1>2, <2>7
<1>4. SetTrs(f, s, ts) = Replaced(f, s, ts, Y, p2)
  <2> HIDE DEF p2
  <2> QED  BY <1>3, Zenon DEF SetTrs, Replaced
<1> DEFINE g == AddTr(f, s, t)
           Y1 == [side \in Sides |-> EpsIn(<<t>>, side)]
<1>5. IsMachine(g, n) /\ Counted(g)
  BY AddTrCounts
<1>6. g = [start |-> f.start, trs |-> [f.trs EXCEPT ![s] = <<t>>], final |-> f.final,
           eps |-> [f.eps EXCEPT ![s] = Y1], props |-> p1]
  <2>1. /\ Append(f.trs[s], t) = <<t>>
        /\ LastOf(f.trs[s]) = <<>>
    BY <1>2
  <2>2. g = Replaced(f, s, Append(f.trs[s], t),
                     [side \in Sides |-> EpsIn(Append(f.trs[s], t), side)],
                     AddTrProperties(f.props, s, t, LastOf(f.trs[s])))
    BY AddTrIs
  <2>3. g = Replaced(f, s, <<t>>, Y1, p1)
    BY <2>1, <2>2
  <2> HIDE DEF g, Y1, p1
  <2> QED  BY <2>3, ExceptAt
<1>7. StatesOf(g) = StatesOf(f) /\ g.trs[s] = <<t>> /\ g.props = p1
  <2> HIDE DEF g, p1, Y1
  <2> QED  BY <1>1, <1>6 DEF IsMachine, StatesOf
<1>8. AddTr(g, s, u) = Replaced(g, s, ts, Y, p2)
  <2> HIDE DEF g
  <2>1. /\ Append(g.trs[s], u) = ts
        /\ LastOf(g.trs[s]) = <<t>> /\ g.props = p1 /\ s \in StatesOf(g)
    BY <1>2, <1>7
  <2>2. AddTr(g, s, u) = Replaced(g, s, Append(g.trs[s], u),
                     [side \in Sides |-> EpsIn(Append(g.trs[s], u), side)],
                     AddTrProperties(g.props, s, u, LastOf(g.trs[s])))
    BY <1>5, <2>1, AddTrIs
  <2> QED  BY <2>1, <2>2
<1> HIDE DEF g, Y, Y1, p1, p2, ts
<1>9. AddTr(g, s, u)
        = [start |-> f.start, trs |-> [g.trs EXCEPT ![s] = ts], final |-> f.final,
           eps |-> [g.eps EXCEPT ![s] = Y], props |-> p2]
  BY <1>5, <1>6, <1>8, ExceptAt
<1>10. /\ [g.trs EXCEPT ![s] = ts] = [f.trs EXCEPT ![s] = ts]
       /\ [g.eps EXCEPT ![s] = Y] = [f.eps EXCEPT ![s] = Y]
  BY <1>6
<1>11. SetTrs(f, s, ts)
        = [start |-> f.start, trs |-> [f.trs EXCEPT ![s] = ts], final |-> f.final,
           eps |-> [f.eps EXCEPT ![s] = Y], props |-> p2]
  BY <1>4, ExceptAt
<1> QED  BY <1>9, <1>10, <1>11 DEF g, ts
LEMMA SetTrsCounts ==
    ASSUME NEW n \in Nat, NEW f, IsMachine(f, n), Counted(f), NEW s \in StatesOf(f),
           f.trs[s] = <<>>, NEW t \in Tr(n), NEW u \in Tr(n)
    PROVE  IsMachine(SetTrs(f, s, <<t, u>>), n) /\ Counted(SetTrs(f, s, <<t, u>>))
<1>1. IsMachine(AddTr(f, s, t), n) /\ Counted(AddTr(f, s, t))
  BY AddTrCounts
<1>2. s \in StatesOf(AddTr(f, s, t))
  BY <1>1, ShapeStates
<1>3. /\ IsMachine(AddTr(AddTr(f, s, t), s, u), n)
      /\ Counted(AddTr(AddTr(f, s, t), s, u))
  BY <1>1, <1>2, AddTrCounts
<1> QED  BY <1>3, SetTrsIsTwo

\* What Keep gives of a list of transitions is one.
LEMMA KeepType ==
    ASSUME NEW T, NEW ts \in Seq(T), NEW I \in SUBSET DOMAIN ts
    PROVE  /\ Keep(ts, I) \in Seq(T) /\ IsFiniteSet(I) /\ I \in SUBSET Nat
           /\ IsFiniteSet(DOMAIN ts) /\ DOMAIN ts \in SUBSET Nat
<1>1. Len(ts) \in Nat /\ DOMAIN ts = 1 .. Len(ts) /\ I \in SUBSET (1 .. Len(ts))
  OBVIOUS
<1>2. IsFiniteSet(I) /\ I \in SUBSET Nat
  BY <1>1, UpTo, FS_Subset
<1>3. /\ Cardinality(I) \in Nat
      /\ \E pos : /\ Places(pos, I)
                  /\ Keep(ts, I) = [k \in 1 .. Cardinality(I) |-> ts[pos[k]]]
  BY <1>2, KeepPlaces
<1>4. PICK pos : /\ Places(pos, I)
                 /\ Keep(ts, I) = [k \in 1 .. Cardinality(I) |-> ts[pos[k]]]
  BY <1>3
<1>5. \A k \in 1 .. Cardinality(I) : ts[pos[k]] \in T
  <2> TAKE k \in 1 .. Cardinality(I)
  <2>1. pos[k] \in I
    BY <1>4 DEF Places
  <2>2. \A i \in 1 .. Len(ts) : ts[i] \in T
    OBVIOUS
  <2> QED  BY <2>1, <2>2, <1>1
<1>6. Keep(ts, I) \in [1 .. Cardinality(I) -> T]
  BY <1>4, <1>5
<1>7. Keep(ts, I) \in Seq(T)
  BY <1>3, <1>6, FunctionIsSeq
<1>8. IsFiniteSet(DOMAIN ts) /\ DOMAIN ts \in SUBSET Nat
  BY <1>1, UpTo
<1> QED  BY <1>2, <1>7, <1>8

LEMMA DelTrsIdCounts ==
    ASSUME NEW n \in Nat, NEW f, IsMachine(f, n), Counted(f), NEW s \in StatesOf(f),
           NEW del \in SUBSET DOMAIN f.trs[s]
    PROVE  IsMachine(DelTrsId(f, s, del), n) /\ Counted(DelTrsId(f, s, del))
<1> DEFINE ts == f.trs[s]
           left == Keep(ts, DOMAIN ts \ del)
           Y == [side \in Sides |-> f.eps[s][side] - EpsIn(Keep(ts, del), side)]
           p == IF left = <<>> THEN DeleteTrsProperties(f.props)
                ELSE f.props \cap (DeleteArcsMask \ Acyc)
<1>1. StatesOf(f) = 0 .. n-1
  BY ShapeStates
<1>2. ts \in Seq(Tr(n))
  BY <1>1 DEF IsMachine
<1>3. /\ left \in Seq(Tr(n)) /\ IsFiniteSet(DOMAIN ts) /\ DOMAIN ts \in SUBSET Nat
  BY <1>2, KeepType
<1>4. p \in SUBSET CopyProperties
  <2>1. f.props \in SUBSET CopyProperties
    BY DEF IsMachine
  <2> QED  BY <2>1, BitsTyped
<1>5. Y = [side \in Sides |-> EpsIn(left, side)]
  <2>1. \A side \in Sides :
          f.eps[s][side] - EpsIn(Keep(ts, del), side) = EpsIn(left, side)
    <3> TAKE side \in Sides
    <3>1. f.eps[s][side] = EpsIn(ts, side)
      BY DEF Counted
    <3> QED  BY <3>1, <1>3, EpsInSplit
  <2> QED  BY <2>1
<1>6. DelTrsId(f, s, del) = Replaced(f, s, left, Y, p)
  BY <1>1 DEF DelTrsId, Replaced, IsMachine
<1> HIDE DEF left, Y, p
<1> QED  BY <1>3, <1>4, <1>5, <1>6, OneStateCounts

LEMMA RewriteCounts ==
    ASSUME NEW n \in Nat, NEW f, IsMachine(f, n), Counted(f), NEW s \in StatesOf(f),
           NEW i \in DOMAIN f.trs[s], NEW t \in Tr(n), NEW p
    PROVE  IsMachine(Rewrite(f, s, i, t, p), n) /\ Counted(Rewrite(f, s, i, t, p))
<1> DEFINE ts == f.trs[s]
           X == [ts EXCEPT ![i] = t]
           one(x, side) == IF x[side] = Eps THEN 1 ELSE 0
           Y == [side \in Sides |-> f.eps[s][side] - one(ts[i], side) + one(t, side)]
           q == p \cap RelevantMask
<1>1. StatesOf(f) = 0 .. n-1
  BY ShapeStates
<1>2. ts \in Seq(Tr(n))
  BY <1>1 DEF IsMachine
<1>3. X \in Seq(Tr(n))
  BY <1>2
<1>4. q \in SUBSET CopyProperties
  <2>1. f.props \in SUBSET CopyProperties
    BY DEF IsMachine
  <2> QED  BY <2>1, BitsTyped
<1>5. Y = [side \in Sides |-> EpsIn(X, side)]
  <2>1. \A side \in Sides :
          f.eps[s][side] - one(ts[i], side) + one(t, side) = EpsIn(X, side)
    <3> TAKE side \in Sides
    <3>1. f.eps[s][side] = EpsIn(ts, side)
      BY DEF Counted
    <3> QED  BY <3>1, <1>2, EpsInExcept
  <2> QED  BY <2>1
<1>6. Rewrite(f, s, i, t, p) = Replaced(f, s, X, Y, q)
  BY <1>1 DEF Rewrite, Replaced, IsMachine
<1> HIDE DEF X, Y, q
<1> QED  BY <1>3, <1>4, <1>5, <1>6, OneStateCounts

\* An iterator sets labels, a weight, an end or a whole transition.
LEMMA IterMutCounts ==
    ASSUME NEW n \in Nat, IsMachine(fst, n), Counted(fst), DoIterMut
    PROVE  IsMachine(fst', n) /\ Counted(fst')
<1>1. PICK s \in StatesOf(fst) : \E i \in DOMAIN fst.trs[s] :
        \/ \E il, ol \in Labels : fst' = SetLabels(fst, s, i, il, ol)
        \/ \E w \in Weights : fst' = SetWeight(fst, s, i, w)
        \/ \E m \in StatesOf(fst) : fst' = SetNextState(fst, s, i, m)
        \/ \E t \in Tr(1) : fst' = SetTr(fst, s, i, t)
  BY Zenon DEF DoIterMut
<1>2. PICK i \in DOMAIN fst.trs[s] :
        \/ \E il, ol \in Labels : fst' = SetLabels(fst, s, i, il, ol)
        \/ \E w \in Weights : fst' = SetWeight(fst, s, i, w)
        \/ \E m \in StatesOf(fst) : fst' = SetNextState(fst, s, i, m)
        \/ \E t \in Tr(1) : fst' = SetTr(fst, s, i, t)
  BY <1>1, Zenon
<1> DEFINE old == fst.trs[s][i]
<1>3. StatesOf(fst) = 0 .. n-1 /\ n > 0
  BY ShapeStates
<1>4. old \in Tr(n)
  BY <1>3 DEF IsMachine
<1>5. \E t \in Tr(n) : \E p : fst' = Rewrite(fst, s, i, t, p)
  <2>1. CASE \E il, ol \in Labels : fst' = SetLabels(fst, s, i, il, ol)
    <3>1. PICK il \in Labels, ol \in Labels : fst' = SetLabels(fst, s, i, il, ol)
      BY <2>1
    <3>2. [old EXCEPT !.il = il, !.ol = ol] \in Tr(n)
      BY <1>4 DEF Tr
    <3> QED  BY <3>1, <3>2, Zenon DEF SetLabels
  <2>2. CASE \E w \in Weights : fst' = SetWeight(fst, s, i, w)
    <3>1. PICK w \in Weights : fst' = SetWeight(fst, s, i, w)
      BY <2>2
    <3>2. [old EXCEPT !.w = w] \in Tr(n)
      BY <1>4 DEF Tr
    <3> QED  BY <3>1, <3>2, Zenon DEF SetWeight
  <2>3. CASE \E m \in StatesOf(fst) : fst' = SetNextState(fst, s, i, m)
    <3>1. PICK m \in StatesOf(fst) : fst' = SetNextState(fst, s, i, m)
      BY <2>3
    <3>2. [old EXCEPT !.ns = m] \in Tr(n)
      BY <1>3, <1>4 DEF Tr
    <3> QED  BY <3>1, <3>2, Zenon DEF SetNextState
  <2>4. CASE \E t \in Tr(1) : fst' = SetTr(fst, s, i, t)
    <3>1. PICK t \in Tr(1) : fst' = SetTr(fst, s, i, t)
      BY <2>4
    <3>2. t \in Tr(n)
      BY <1>3, MoreEnds
    <3> QED  BY <3>1, <3>2, Zenon DEF SetTr
  <2> QED  BY <1>2, <2>1, <2>2, <2>3, <2>4
<1>6. PICK t \in Tr(n) : \E p : fst' = Rewrite(fst, s, i, t, p)
  BY <1>5
<1>7. PICK p : fst' = Rewrite(fst, s, i, t, p)
  BY <1>6
<1> QED  BY <1>7, RewriteCounts

-----------------------------------------------------------------------------
(* Renumbering: the states kept move down in order.                        *)

LEMMA Renumbering ==
    ASSUME NEW kept \in SUBSET Nat, IsFiniteSet(kept)
    PROVE  LET m == Cardinality(kept)
           IN  /\ m \in Nat
               /\ \A s \in kept : NewId(kept, s) \in 0 .. m-1
               /\ \A s, t \in kept : s < t => NewId(kept, s) < NewId(kept, t)
               /\ \A k \in 0 .. m-1 : OldId(kept, k) \in kept /\ NewId(kept, OldId(kept, k)) = k
               /\ \A s \in kept : OldId(kept, NewId(kept, s)) = s
<1> DEFINE m == Cardinality(kept)
           rank == [i \in kept |-> Cardinality({j \in kept : j <= i})]
<1>1. m \in Nat
  BY FS_CardinalityType
<1>2. /\ rank \in [kept -> 1 .. m]
      /\ \A k \in 1 .. m : \E i \in kept : rank[i] = k
      /\ \A i, j \in kept : i < j => rank[i] < rank[j]
  <2>1. rank \in Bijection(kept, 1 .. m) /\ \A i, j \in kept : i < j => rank[i] < rank[j]
    BY RankBijection
  <2> HIDE DEF rank, m
  <2> QED  BY <2>1 DEF Bijection, Injection, Surjection
<1>3. ASSUME NEW s \in kept PROVE NewId(kept, s) = rank[s] - 1
  <2> DEFINE B == {t \in kept : t < s}
             A == {t \in kept : t <= s}
  <2>1. s \in Nat /\ \A t \in kept : t \in Nat
    OBVIOUS
  <2>2. A = B \cup {s} /\ s \notin B
    <3>1. \A t \in kept : t <= s <=> t < s \/ t = s
      BY <2>1
    <3>2. ~ (s < s) /\ s <= s
      BY <2>1
    <3> QED  BY <3>1, <3>2
  <2>3. IsFiniteSet(B) /\ Cardinality(B) \in Nat
    <3>1. B \in SUBSET kept
      OBVIOUS
    <3> QED  BY <3>1, FS_Subset, FS_CardinalityType
  <2>4. rank[s] = Cardinality(A) /\ NewId(kept, s) = Cardinality(B)
    BY DEF NewId
  <2> HIDE DEF A, B, rank
  <2>5. Cardinality(A) = Cardinality(B) + 1
    BY <2>2, <2>3, FS_AddElement
  <2> QED  BY <2>3, <2>4, <2>5
<1> HIDE DEF rank, m
<1>4. \A s \in kept : NewId(kept, s) \in 0 .. m-1 /\ rank[s] \in 1 .. m
  BY <1>1, <1>2, <1>3
<1>5. \A s, t \in kept : s < t => NewId(kept, s) < NewId(kept, t)
  BY <1>1, <1>2, <1>3, <1>4
<1>6. ASSUME NEW k \in 0 .. m-1
      PROVE  OldId(kept, k) \in kept /\ NewId(kept, OldId(kept, k)) = k
  <2>1. k + 1 \in 1 .. m
    BY <1>1
  <2>2. PICK s \in kept : rank[s] = k + 1
    BY <2>1, <1>2
  <2>3. NewId(kept, s) = k
    BY <2>2, <1>3
  <2> QED  BY <2>3, Zenon DEF OldId
<1>7. ASSUME NEW s \in kept PROVE OldId(kept, NewId(kept, s)) = s
  <2> DEFINE t == OldId(kept, NewId(kept, s))
  <2>1. t \in kept /\ NewId(kept, t) = NewId(kept, s)
    BY <1>4, <1>6
  <2> HIDE DEF t
  <2>2. NewId(kept, s) \in Int
    BY <1>4
  <2>3. ~ (s < t) /\ ~ (t < s)
    BY <1>5, <2>1, <2>2
  <2>4. s \in Nat /\ t \in Nat
    BY <2>1
  <2>5. s = t
    BY <2>3, <2>4
  <2> QED  BY <2>5 DEF t
<1> QED  BY <1>1, <1>4, <1>5, <1>6, <1>7 DEF m

\* Every element kept was at one of the places kept.
LEMMA KeepFrom ==
    ASSUME NEW ts, NEW I \in SUBSET Nat, IsFiniteSet(I)
    PROVE  \A k \in DOMAIN Keep(ts, I) : \E i \in I : Keep(ts, I)[k] = ts[i]
<1>1. PICK pos : /\ Places(pos, I)
                 /\ Keep(ts, I) = [k \in 1 .. Cardinality(I) |-> ts[pos[k]]]
  BY KeepPlaces
<1>2. DOMAIN Keep(ts, I) = 1 .. Cardinality(I)
  BY <1>1
<1> QED  BY <1>1, <1>2 DEF Places

\* Transitions with their ends renumbered.
Moved(ts, kept) == [i \in DOMAIN ts |-> [ts[i] EXCEPT !.ns = NewId(kept, @)]]
Into(ts, D) == {i \in DOMAIN ts : ts[i].ns \in D}

LEMMA MovedType ==
    ASSUME NEW n \in Nat, NEW ts \in Seq(Tr(n)), NEW kept \in SUBSET (0 .. n-1),
           NEW m, m = Cardinality(kept)
    PROVE  /\ Moved(Keep(ts, Into(ts, kept)), kept) \in Seq(Tr(m))
           /\ \A side \in Sides : EpsIn(Moved(Keep(ts, Into(ts, kept)), kept), side)
                                  = EpsIn(Keep(ts, Into(ts, kept)), side)
<1> DEFINE I == Into(ts, kept)
           us == Keep(ts, I)
           vs == Moved(us, kept)
<1>1. kept \in SUBSET Nat /\ IsFiniteSet(kept)
  <2>1. 0 .. n-1 \subseteq Nat
    OBVIOUS
  <2>2. IsFiniteSet(0 .. n-1)
    BY BelowFinite
  <2>3. IsFiniteSet(kept)
    BY <2>2, FS_Subset
  <2> QED  BY <2>1, <2>3
<1>2. I \in SUBSET DOMAIN ts /\ \A i \in I : ts[i].ns \in kept
  BY DEF Into
<1> HIDE DEF I
<1>3. us \in Seq(Tr(n)) /\ IsFiniteSet(I) /\ I \in SUBSET Nat
  BY <1>2, KeepType
<1>4. \A k \in DOMAIN us : us[k].ns \in kept
  <2>1. \A k \in DOMAIN us : \E i \in I : us[k] = ts[i]
    BY <1>3, KeepFrom
  <2> HIDE DEF us
  <2> QED  BY <2>1, <1>2
<1> HIDE DEF us
<1>5. \A k \in DOMAIN us : us[k] \in Tr(n)
  BY <1>3
<1>6. \A k \in DOMAIN us :
        /\ [us[k] EXCEPT !.ns = NewId(kept, @)] \in Tr(m)
        /\ \A side \in Sides : [us[k] EXCEPT !.ns = NewId(kept, @)][side] = us[k][side]
  <2> TAKE k \in DOMAIN us
  <2>1. NewId(kept, us[k].ns) \in 0 .. m-1
    BY <1>1, <1>4, Renumbering
  <2>2. us[k] \in Tr(n)
    BY <1>5
  <2>3. [us[k] EXCEPT !.ns = NewId(kept, us[k].ns)] \in Tr(m)
    BY <2>1, <2>2 DEF Tr
  <2>4. \A side \in Sides : [us[k] EXCEPT !.ns = NewId(kept, us[k].ns)][side] = us[k][side]
    BY <2>2 DEF Tr, Sides
  <2> QED  BY <2>3, <2>4
<1>7. DOMAIN us = 1 .. Len(us) /\ Len(us) \in Nat /\ DOMAIN vs = DOMAIN us
  BY <1>3 DEF Moved
<1>8. vs \in Seq(Tr(m))
  <2>1. vs \in [1 .. Len(us) -> Tr(m)]
    BY <1>6, <1>7 DEF Moved
  <2> HIDE DEF vs
  <2> QED  BY <2>1, <1>7, FunctionIsSeq
<1>9. \A side \in Sides : EpsIn(vs, side) = EpsIn(us, side)
  <2> TAKE side \in Sides
  <2>1. \A k \in DOMAIN us : vs[k][side] = us[k][side]
    BY <1>6 DEF Moved
  <2> HIDE DEF vs
  <2>2. {k \in DOMAIN vs : vs[k][side] = Eps} = {k \in DOMAIN us : us[k][side] = Eps}
    BY <2>1, <1>7
  <2> QED  BY <2>2 DEF EpsIn
<1> QED  BY <1>8, <1>9 DEF us, I

\* The machine del_states leaves, field by field.
LEMMA DelStatesIs ==
    ASSUME NEW f, NEW gone
    PROVE  LET kept == StatesOf(f) \ gone
               ids == 0..Cardinality(kept)-1
               epsLeft(s) == [side \in Sides |->
                                f.eps[s][side] - EpsIn(Keep(f.trs[s], Into(f.trs[s], gone)), side)]
           IN  DelStates(f, gone) =
                 [start |-> IF f.start \in kept THEN NewId(kept, f.start) ELSE None,
                  trs   |-> [k \in ids |-> LET ts == f.trs[OldId(kept, k)]
                                           IN  Moved(Keep(ts, Into(ts, kept)), kept)],
                  final |-> [k \in ids |-> f.final[OldId(kept, k)]],
                  eps   |-> [k \in ids |-> epsLeft(OldId(kept, k))],
                  props |-> DeleteStatesProperties(f.props)]
BY Zenon DEF DelStates, Moved, Into

LEMMA DelStatesCounts ==
    ASSUME NEW n \in Nat, NEW f, IsMachine(f, n), Counted(f),
           NEW gone \in SUBSET StatesOf(f)
    PROVE  LET m == Cardinality(StatesOf(f) \ gone)
           IN  /\ m \in 0 .. n
               /\ IsMachine(DelStates(f, gone), m) /\ Counted(DelStates(f, gone))
<1> DEFINE kept == StatesOf(f) \ gone
           m == Cardinality(kept)
           g == DelStates(f, gone)
           old(k) == OldId(kept, k)
           left(k) == Moved(Keep(f.trs[old(k)], Into(f.trs[old(k)], kept)), kept)
           epsLeft(k) == [side \in Sides |->
              f.eps[old(k)][side]
                - EpsIn(Keep(f.trs[old(k)], Into(f.trs[old(k)], gone)), side)]
<1>1. StatesOf(f) = 0 .. n-1 /\ kept \in SUBSET (0 .. n-1) /\ kept \in SUBSET Nat
  BY ShapeStates
<1>2. IsFiniteSet(kept) /\ m \in 0 .. n
  <2>1. IsFiniteSet(0 .. n-1) /\ Cardinality(0 .. n-1) = n
    BY BelowFinite
  <2> HIDE DEF kept
  <2>2. IsFiniteSet(kept) /\ Cardinality(kept) <= n
    BY <2>1, <1>1, FS_Subset
  <2> QED  BY <2>2, FS_CardinalityType
<1>3. g = [start |-> IF f.start \in kept THEN NewId(kept, f.start) ELSE None,
           trs   |-> [k \in 0 .. m-1 |-> left(k)],
           final |-> [k \in 0 .. m-1 |-> f.final[old(k)]],
           eps   |-> [k \in 0 .. m-1 |-> epsLeft(k)],
           props |-> DeleteStatesProperties(f.props)]
  BY DelStatesIs, Zenon
<1> HIDE DEF g, m
<1>4. /\ \A s \in kept : NewId(kept, s) \in 0 .. m-1
      /\ \A k \in 0 .. m-1 : old(k) \in kept
  <2> HIDE DEF kept
  <2> QED  BY <1>1, <1>2, Renumbering DEF m
<1>5. ASSUME NEW k \in 0 .. m-1
      PROVE  /\ left(k) \in Seq(Tr(m)) /\ f.final[old(k)] \in {None} \cup FinalWeights
             /\ epsLeft(k) = [side \in Sides |-> EpsIn(left(k), side)]
             /\ epsLeft(k) \in [Sides -> Nat]
  <2> DEFINE s == old(k)
             ts == f.trs[s]
             toKept == Into(ts, kept)
             toGone == Into(ts, gone)
  <2>1. s \in kept /\ s \in StatesOf(f)
    BY <1>1, <1>4
  <2> HIDE DEF s
  <2>2. ts \in Seq(Tr(n)) /\ f.final[s] \in {None} \cup FinalWeights
    BY <1>1, <2>1 DEF IsMachine
  <2>3. left(k) \in Seq(Tr(m)) /\ \A side \in Sides :
          EpsIn(left(k), side) = EpsIn(Keep(ts, toKept), side)
    <3> HIDE DEF kept, ts
    <3>1. /\ Moved(Keep(ts, Into(ts, kept)), kept) \in Seq(Tr(m))
          /\ \A side \in Sides : EpsIn(Moved(Keep(ts, Into(ts, kept)), kept), side)
                                  = EpsIn(Keep(ts, Into(ts, kept)), side)
      BY <1>1, <2>2, MovedType DEF m
    <3> QED  BY <3>1 DEF s, ts
  <2>4. toKept = DOMAIN ts \ toGone /\ toGone \in SUBSET DOMAIN ts
    <3>1. \A i \in DOMAIN ts : ts[i].ns \in StatesOf(f)
      <4>1. \A i \in DOMAIN ts : ts[i] \in Tr(n)
        BY <2>2
      <4> QED  BY <4>1, <1>1 DEF Tr
    <3> QED  BY <3>1 DEF Into
  <2>5. /\ IsFiniteSet(DOMAIN ts) /\ DOMAIN ts \in SUBSET Nat
    BY <2>2, KeepType
  <2>6. \A side \in Sides :
          /\ f.eps[s][side] - EpsIn(Keep(ts, toGone), side) = EpsIn(left(k), side)
          /\ EpsIn(left(k), side) \in Nat
    <3> TAKE side \in Sides
    <3>1. f.eps[s][side] = EpsIn(ts, side)
      BY <2>1 DEF Counted
    <3>2. /\ EpsIn(Keep(ts, DOMAIN ts \ toGone), side)
              = EpsIn(ts, side) - EpsIn(Keep(ts, toGone), side)
          /\ EpsIn(Keep(ts, DOMAIN ts \ toGone), side) \in Nat
      <4> HIDE DEF toGone, ts
      <4> QED  BY <2>4, <2>5, EpsInSplit
    <3> HIDE DEF left, toGone, toKept, ts
    <3> QED  BY <3>1, <3>2, <2>3, <2>4
  <2> HIDE DEF left
  <2> QED  BY <2>2, <2>3, <2>6 DEF s
<1> HIDE DEF left, epsLeft, old, kept
<1>6. IsMachine(g, m)
  <2>1. (IF f.start \in kept THEN NewId(kept, f.start) ELSE None) \in {None} \cup 0 .. m-1
    BY <1>4
  <2>2. DeleteStatesProperties(f.props) \in SUBSET CopyProperties
    BY BitsTyped DEF IsMachine
  <2> QED  BY <1>3, <1>5, <2>1, <2>2 DEF IsMachine
<1>7. Counted(g)
  BY <1>3, <1>5 DEF Counted, StatesOf
<1> QED  BY <1>2, <1>6, <1>7 DEF m, g, kept

-----------------------------------------------------------------------------
(* The specification.                                                      *)

LEMMA NextInv == Inv /\ [Next]_fst => Inv'
<1> SUFFICES ASSUME Inv, [Next]_fst PROVE Inv'
  OBVIOUS
<1>1. PICK n \in 0 .. MaxStates : IsMachine(fst, n) /\ Counted(fst)
  BY DEF Inv
<1>2. n \in Nat /\ MaxStates \in Nat
  BY BoundsAssumption
<1>3. StatesOf(fst) = 0 .. n-1 /\ NumStates(fst) = n
  BY <1>1, <1>2, ShapeStates
<1>4. CASE DoSetStart
  <2>1. PICK s \in StatesOf(fst) : fst' = SetStart(fst, s)
    BY <1>4 DEF DoSetStart
  <2>2. IsMachine(fst', n) /\ Counted(fst')
    BY <1>1, <1>2, <2>1, SetStartCounts
  <2> QED  BY <2>2 DEF Inv
<1>5. CASE DoSetFinal
  <2>1. PICK s \in StatesOf(fst), w \in FinalWeights \cup {None} : fst' = SetFinal(fst, s, w)
    BY <1>5 DEF DoSetFinal
  <2>2. IsMachine(fst', n) /\ Counted(fst')
    BY <1>1, <1>2, <2>1, SetFinalCounts
  <2> QED  BY <2>2 DEF Inv
<1>6. CASE DoAddStates
  <2>1. PICK k \in 0 .. 2 : Room(k) /\ fst' = AddStates(fst, k)
    BY <1>6 DEF DoAddStates
  <2>2. k \in Nat /\ n + k \in 0 .. MaxStates
    BY <1>2, <1>3, <2>1 DEF Room
  <2>3. IsMachine(fst', n + k) /\ Counted(fst')
    BY <1>1, <1>2, <2>1, <2>2, AddStatesCounts
  <2> QED  BY <2>2, <2>3 DEF Inv
<1>7. CASE DoAddTr
  <2>1. PICK s \in StatesOf(fst) : \E t \in Tr(n) : fst' = AddTr(fst, s, t)
    BY <1>3, <1>7 DEF DoAddTr
  <2>2. PICK t \in Tr(n) : fst' = AddTr(fst, s, t)
    BY <2>1
  <2>3. IsMachine(fst', n) /\ Counted(fst')
    BY <1>1, <1>2, <2>2, AddTrCounts
  <2> QED  BY <2>3 DEF Inv
<1>8. CASE DoSetTrs
  <2>1. PICK s \in StatesOf(fst) :
          /\ fst.trs[s] = <<>>
          /\ \E t \in Tr(1), u \in Tr(n) : fst' = SetTrs(fst, s, <<t, u>>)
    BY <1>3, <1>8 DEF DoSetTrs
  <2>2. PICK t \in Tr(1), u \in Tr(n) : fst' = SetTrs(fst, s, <<t, u>>)
    BY <2>1
  <2>3. t \in Tr(n)
    BY <1>2, <1>3, MoreEnds
  <2>4. IsMachine(fst', n) /\ Counted(fst')
    BY <1>1, <1>2, <2>1, <2>2, <2>3, SetTrsCounts
  <2> QED  BY <2>4 DEF Inv
<1>9. CASE DoDeleteTrs
  <2>1. PICK s \in StatesOf(fst) : fst' = DeleteTrs(fst, s)
    BY <1>9 DEF DoDeleteTrs
  <2>2. IsMachine(fst', n) /\ Counted(fst')
    BY <1>1, <1>2, <2>1, DeleteTrsCounts
  <2> QED  BY <2>2 DEF Inv
<1>10. CASE DoDelTrsId
  <2>1. PICK s \in StatesOf(fst) :
          \E del \in SUBSET DOMAIN fst.trs[s] : fst' = DelTrsId(fst, s, del)
    BY <1>10 DEF DoDelTrsId
  <2>2. PICK del \in SUBSET DOMAIN fst.trs[s] : fst' = DelTrsId(fst, s, del)
    BY <2>1
  <2>3. IsMachine(fst', n) /\ Counted(fst')
    BY <1>1, <1>2, <2>2, DelTrsIdCounts
  <2> QED  BY <2>3 DEF Inv
<1>11. CASE DoDelStates
  <2>1. PICK gone \in SUBSET StatesOf(fst) : fst' = DelStates(fst, gone)
    BY <1>11 DEF DoDelStates
  <2> DEFINE m == Cardinality(StatesOf(fst) \ gone)
  <2>2. m \in 0 .. n /\ IsMachine(fst', m) /\ Counted(fst')
    BY <1>1, <1>2, <2>1, DelStatesCounts
  <2> HIDE DEF m
  <2>3. m \in 0 .. MaxStates
    BY <1>2, <2>2
  <2> QED  BY <2>2, <2>3 DEF Inv
<1>12. CASE DoDelAllStates
  <2>1. IsMachine(NewFst, 0) /\ Counted(NewFst)
    BY NewShape
  <2>2. fst' = NewFst
    BY <1>12 DEF DoDelAllStates, DelAllStates, NewFst, DeleteAllStatesProperties
  <2> QED  BY <1>2, <2>1, <2>2 DEF Inv
<1>13. CASE DoIterMut
  <2>1. IsMachine(fst', n) /\ Counted(fst')
    BY <1>1, <1>2, <1>13, IterMutCounts
  <2> QED  BY <2>1 DEF Inv
<1>14. CASE UNCHANGED fst
  BY <1>1, <1>14 DEF Inv
<1> QED
  BY <1>4, <1>5, <1>6, <1>7, <1>8, <1>9, <1>10, <1>11, <1>12, <1>13, <1>14 DEF Next

\* Under any sequence of mutations a machine keeps its shape: the states
\* are numbered without a gap, every transition ends in one of them, the
\* start is one of them or none, and the counters are numbers.
THEOREM InvHolds == Spec => []Inv
<1>1. Init => Inv
  BY NewShape, BoundsAssumption DEF Init, Inv
<1> QED  BY <1>1, NextInv, PTL DEF Spec

THEOREM TypeOKHolds == Spec => []TypeOK
<1>1. Inv => TypeOK
  <2> SUFFICES ASSUME NEW n \in 0 .. MaxStates, IsMachine(fst, n) PROVE TypeOK
    BY DEF Inv
  <2>1. /\ DOMAIN fst.trs = 0..n-1 /\ DOMAIN fst.final = 0..n-1
        /\ DOMAIN fst.eps = 0..n-1
        /\ fst.start \in {None} \cup 0..n-1
        /\ fst.props \subseteq CopyProperties
        /\ \A s \in 0..n-1 : /\ fst.trs[s] \in Seq(Tr(n))
                             /\ fst.final[s] \in {None} \cup FinalWeights
                             /\ fst.eps[s] \in [Sides -> Nat]
    BY DEF IsMachine
  <2> QED  BY <2>1 DEF TypeOK
<1> QED  BY <1>1, InvHolds, PTL

\* The stored numbers of epsilons are the numbers of epsilon transitions,
\* whatever was added, deleted, replaced or renumbered before.
THEOREM EpsilonCountsHolds == Spec => []EpsilonCounts
<1>1. Inv => EpsilonCounts
  BY DEF Inv, Counted, EpsilonCounts
<1> QED  BY <1>1, InvHolds, PTL

-----------------------------------------------------------------------------
(* Reachability: ReachFrom adds successors as often as there are states;   *)
(* the result is the least closed set.                                     *)

LEMMA LeastNatural ==
    ASSUME NEW K \in SUBSET Nat, K # {}
    PROVE  \E m \in K : \A k \in K : m <= k
<1>1. PICK m \in K : \A k \in K : ~ (<<k, m>> \in OpToRel(<, Nat))
  BY NatLessThanWellFounded, WFMin
<1>2. \A k \in K : ~ (k < m)
  BY <1>1 DEF OpToRel
<1> QED  BY <1>2

\* The ends of transitions are states: what a machine has, without its labels.
Linked(f, n) ==
    /\ StatesOf(f) = 0 .. n-1
    /\ \A s \in StatesOf(f) : \A i \in DOMAIN f.trs[s] : f.trs[s][i].ns \in StatesOf(f)
Closed(f, C) == \A s \in C : \A i \in DOMAIN f.trs[s] : f.trs[s][i].ns \in C

\* One round adds the successors.
LEMMA OneRound ==
    ASSUME NEW f, NEW C
    PROVE  /\ C \subseteq Successors(f, C)
           /\ Successors(f, C) \subseteq C <=> Closed(f, C)
           /\ \A D : C \subseteq D /\ Closed(f, D) => Successors(f, C) \subseteq D
           /\ \A t : t \in Successors(f, C) <=> \E s \in C : t \in Successors(f, {s})
BY DEF Successors, Closed

\* k rounds from S reach what a walk of k steps or stays reaches.
Walk(f, S, k, p) ==
    /\ p \in [0 .. k -> StatesOf(f)]
    /\ p[0] \in S
    /\ \A i \in 1 .. k : p[i] \in Successors(f, {p[i-1]})
ByWalks(f, S) ==
    [k \in Nat |-> {t \in StatesOf(f) : \E p : Walk(f, S, k, p) /\ p[k] = t}]

LEMMA RoundsExist ==
    ASSUME NEW n \in Nat, NEW f, Linked(f, n), NEW S \in SUBSET StatesOf(f)
    PROVE  \A k \in Nat : ByWalks(f, S)[k] = IF k = 0 THEN S
                                             ELSE Successors(f, ByWalks(f, S)[k - 1])
<1> DEFINE W == ByWalks(f, S)
<1>0. \A k \in Nat : \A t : t \in W[k] <=> t \in StatesOf(f) /\ \E p : Walk(f, S, k, p) /\ p[k] = t
  BY DEF ByWalks
<1> HIDE DEF W
<1>1. W[0] = S
  <2>1. ASSUME NEW t \in S PROVE t \in W[0]
    <3>1. Walk(f, S, 0, [i \in 0 .. 0 |-> t])
      BY DEF Walk
    <3>2. 0 \in 0 .. 0 /\ [i \in 0 .. 0 |-> t][0] = t
      OBVIOUS
    <3> QED  BY <1>0, <3>1, <3>2
  <2>2. ASSUME NEW t \in W[0] PROVE t \in S
    BY <1>0 DEF Walk
  <2> QED  BY <2>1, <2>2
<1>2. ASSUME NEW k \in Nat, k # 0 PROVE W[k] = Successors(f, W[k - 1])
  <2>0. k - 1 \in Nat
    BY <1>2
  <2> DEFINE C == W[k - 1]
  <2>a. \A t : t \in Successors(f, C) <=> \E s \in C : t \in Successors(f, {s})
    <3> HIDE DEF C
    <3> QED  BY OneRound, Zenon
  <2>1. ASSUME NEW t \in W[k] PROVE t \in Successors(f, W[k - 1])
    <3>1. PICK p : Walk(f, S, k, p) /\ p[k] = t
      BY <1>0
    <3> DEFINE q == [i \in 0 .. k-1 |-> p[i]]
    <3>2. Walk(f, S, k - 1, q)
      <4>1. q \in [0 .. k-1 -> StatesOf(f)]
        BY <3>1, <2>0 DEF Walk
      <4>2. q[0] \in S
        BY <3>1, <2>0 DEF Walk
      <4>3. \A i \in 1 .. k-1 : q[i] \in Successors(f, {q[i-1]})
        <5> TAKE i \in 1 .. k-1
        <5>1. i \in 1 .. k /\ i \in 0 .. k-1 /\ i - 1 \in 0 .. k-1
          BY <2>0
        <5>2. p[i] \in Successors(f, {p[i-1]})
          BY <3>1, <5>1 DEF Walk
        <5>3. q[i] = p[i] /\ q[i-1] = p[i-1]
          BY <5>1
        <5> QED  BY <5>2, <5>3
      <4> QED  BY <4>1, <4>2, <4>3 DEF Walk
    <3>3. q[k-1] = p[k-1] /\ p[k-1] \in StatesOf(f)
      BY <3>1, <2>0 DEF Walk
    <3>4. p[k-1] \in W[k-1]
      BY <1>0, <2>0, <3>2, <3>3
    <3>5. t \in Successors(f, {p[k-1]})
      BY <3>1, <2>0 DEF Walk
    <3> QED  BY <3>4, <3>5, <2>a
  <2>2. ASSUME NEW t \in Successors(f, W[k - 1]) PROVE t \in W[k]
    <3>1. PICK s \in W[k - 1] : t \in Successors(f, {s})
      BY <2>2, <2>a
    <3>2. s \in StatesOf(f) /\ \E q : Walk(f, S, k - 1, q) /\ q[k - 1] = s
      BY <1>0, <2>0
    <3>3. PICK q : Walk(f, S, k - 1, q) /\ q[k - 1] = s
      BY <3>2
    <3>4. t \in StatesOf(f)
      BY <3>1, <3>2 DEF Successors, Linked
    <3> DEFINE p == [i \in 0 .. k |-> IF i = k THEN t ELSE q[i]]
    <3>5. Walk(f, S, k, p)
      <4>1. p \in [0 .. k -> StatesOf(f)]
        BY <3>3, <3>4, <2>0 DEF Walk
      <4>2. p[0] \in S
        BY <3>3, <2>0, <1>2 DEF Walk
      <4>3. \A i \in 1 .. k : p[i] \in Successors(f, {p[i-1]})
        <5> TAKE i \in 1 .. k
        <5>1. i \in 0 .. k /\ i - 1 \in 0 .. k /\ i - 1 # k
          BY <2>0
        <5>2. p[i-1] = q[i-1]
          BY <5>1
        <5>3. CASE i = k
          BY <5>1, <5>2, <5>3, <3>1, <3>3
        <5>4. CASE i # k
          <6>1. i \in 1 .. k-1
            BY <5>4, <2>0
          <6>2. q[i] \in Successors(f, {q[i-1]})
            BY <3>3, <6>1 DEF Walk
          <6> QED  BY <5>1, <5>2, <5>4, <6>2
        <5> QED  BY <5>3, <5>4
      <4> QED  BY <4>1, <4>2, <4>3 DEF Walk
    <3>6. p[k] = t
      BY <2>0
    <3> QED  BY <1>0, <3>4, <3>5, <3>6
  <2> QED  BY <2>1, <2>2
<1> QED  BY <1>1, <1>2 DEF W

\* ReachFrom is one of the rounds.
Rounds(f, S, r) ==
    /\ r[0] = S
    /\ \A k \in Nat : r[k + 1] = Successors(f, r[k])

LEMMA ReachIsRound ==
    ASSUME NEW n \in Nat, NEW f, Linked(f, n), NEW S \in SUBSET StatesOf(f)
    PROVE  \E r : Rounds(f, S, r) /\ ReachFrom(f, S) = r[n]
<1> DEFINE Step(g) == [k \in Nat |-> IF k = 0 THEN S ELSE Successors(f, g[k - 1])]
           r == CHOOSE g : g = Step(g)
<1>1. ByWalks(f, S) = Step(ByWalks(f, S))
  <2>1. ByWalks(f, S) = [k \in Nat |-> ByWalks(f, S)[k]]
    BY DEF ByWalks
  <2> QED  BY <2>1, RoundsExist
<1>2. r = Step(r)
  BY <1>1
<1>3. ReachFrom(f, S) = r[n]
  <2>1. NumStates(f) = n
    BY BelowFinite DEF Linked, NumStates
  <2> QED  BY <2>1, Zenon DEF ReachFrom
<1>4. Rounds(f, S, r)
  <2> HIDE DEF r
  <2>1. r[0] = S
    BY <1>2
  <2>2. ASSUME NEW k \in Nat PROVE r[k + 1] = Successors(f, r[k])
    <3>1. k + 1 \in Nat /\ k + 1 # 0 /\ (k + 1) - 1 = k
      OBVIOUS
    <3>2. r[k + 1] = Step(r)[k + 1]
      BY <1>2
    <3> QED  BY <3>1, <3>2
  <2> QED  BY <2>1, <2>2 DEF Rounds
<1> QED  BY <1>3, <1>4

LEMMA RoundsGrow ==
    ASSUME NEW n \in Nat, NEW f, Linked(f, n), NEW S \in SUBSET StatesOf(f),
           NEW r, Rounds(f, S, r)
    PROVE  \A k \in Nat : /\ S \subseteq r[k] /\ r[k] \subseteq StatesOf(f)
                          /\ Closed(f, r[k]) => r[k + 1] = r[k]
<1>1. \A k \in Nat : r[k] \subseteq r[k + 1] /\ (Closed(f, r[k]) => r[k + 1] = r[k])
  <2> TAKE k \in Nat
  <2> DEFINE C == r[k]
  <2>1. C \subseteq Successors(f, C) /\ (Successors(f, C) \subseteq C <=> Closed(f, C))
    <3> HIDE DEF C
    <3> QED  BY OneRound, Zenon
  <2>2. r[k + 1] = Successors(f, C)
    BY DEF Rounds
  <2> QED  BY <2>1, <2>2
<1>2. \A k \in Nat : r[k] \subseteq StatesOf(f) => r[k + 1] \subseteq StatesOf(f)
  <2> TAKE k \in Nat
  <2>1. r[k + 1] = Successors(f, r[k])
    BY DEF Rounds
  <2> QED  BY <2>1 DEF Successors, Linked
<1> DEFINE Bad == {k \in Nat : ~ (S \subseteq r[k] /\ r[k] \subseteq StatesOf(f))}
<1>3. ASSUME Bad # {} PROVE FALSE
  <2>1. Bad \in SUBSET Nat
    OBVIOUS
  <2>2. PICK m \in Bad : \A k \in Bad : m <= k
    BY <1>3, <2>1, LeastNatural
  <2>3. m # 0
    BY <2>2 DEF Rounds
  <2>4. m - 1 \in Nat /\ ~ (m <= m - 1) /\ (m - 1) + 1 = m
    BY <2>2, <2>3
  <2>5. S \subseteq r[m - 1] /\ r[m - 1] \subseteq StatesOf(f)
    BY <2>2, <2>4
  <2>6. r[m - 1] \subseteq r[m] /\ r[m] \subseteq StatesOf(f)
    BY <1>1, <1>2, <2>4, <2>5
  <2> QED  BY <2>2, <2>5, <2>6
<1>4. \A k \in Nat : S \subseteq r[k] /\ r[k] \subseteq StatesOf(f)
  BY <1>3
<1> QED  BY <1>1, <1>4

\* Each round that is not the last one adds a state, and there are n.
LEMMA RoundsEnd ==
    ASSUME NEW n \in Nat, NEW f, Linked(f, n), NEW S \in SUBSET StatesOf(f),
           NEW r, Rounds(f, S, r)
    PROVE  Closed(f, r[n])
<1> DEFINE Bad == {k \in Nat : ~ Closed(f, r[k]) /\ ~ (Cardinality(r[k]) > k)}
<1>1. \A k \in Nat : /\ r[k] \subseteq StatesOf(f) /\ IsFiniteSet(r[k])
                     /\ Cardinality(r[k]) \in Nat /\ Cardinality(r[k]) <= n
  <2> TAKE k \in Nat
  <2>1. r[k] \subseteq StatesOf(f)
    BY RoundsGrow
  <2>2. IsFiniteSet(StatesOf(f)) /\ Cardinality(StatesOf(f)) = n
    BY BelowFinite DEF Linked
  <2> QED  BY <2>1, <2>2, FS_Subset, FS_CardinalityType
<1>2. ASSUME Bad # {} PROVE FALSE
  <2>1. Bad \in SUBSET Nat
    OBVIOUS
  <2>2. PICK m \in Bad : \A k \in Bad : m <= k
    BY <1>2, <2>1, LeastNatural
  <2>3. ASSUME m = 0 PROVE FALSE
    <3>1. Cardinality(r[0]) = 0
      BY <1>1, <2>2, <2>3
    <3>2. r[0] = {}
      BY <1>1, <3>1, FS_EmptySet
    <3> QED  BY <2>2, <2>3, <3>2 DEF Closed
  <2>4. m - 1 \in Nat /\ ~ (m <= m - 1) /\ (m - 1) + 1 = m
    BY <2>2, <2>3
  <2>5. Closed(f, r[m - 1]) \/ Cardinality(r[m - 1]) > m - 1
    BY <2>2, <2>4
  <2>6. ~ Closed(f, r[m - 1])
    <3>1. Closed(f, r[m - 1]) => r[m] = r[m - 1]
      BY <2>4, RoundsGrow
    <3> QED  BY <3>1, <2>2
  <2>7. r[m] = Successors(f, r[m - 1])
    BY <2>4 DEF Rounds
  <2> DEFINE C == r[m - 1]
  <2>8. C \subseteq Successors(f, C) /\ (Successors(f, C) \subseteq C <=> Closed(f, C))
    <3> HIDE DEF C
    <3> QED  BY OneRound, Zenon
  <2>9. C \subseteq r[m] /\ C # r[m]
    BY <2>6, <2>7, <2>8
  <2>10. Cardinality(C) < Cardinality(r[m])
    <3>1. IsFiniteSet(r[m])
      BY <1>1, <2>2
    <3>2. C \in SUBSET r[m]
      BY <2>9
    <3>3. Cardinality(C) <= Cardinality(r[m]) /\ (Cardinality(r[m]) = Cardinality(C) => r[m] = C)
      <4> HIDE DEF C
      <4> QED  BY <3>1, <3>2, FS_Subset, Zenon
    <3>4. Cardinality(C) \in Nat /\ Cardinality(r[m]) \in Nat
      BY <1>1, <2>2, <2>4
    <3> HIDE DEF C
    <3> QED  BY <2>9, <3>3, <3>4
  <2>11. Cardinality(C) \in Nat /\ Cardinality(r[m]) \in Nat
    BY <1>1, <2>2, <2>4
  <2>12. Cardinality(C) > m - 1
    BY <2>5, <2>6
  <2>13. Cardinality(r[m]) > m
    <3> HIDE DEF C
    <3> QED  BY <2>2, <2>10, <2>11, <2>12
  <2> QED  BY <2>2, <2>13
<1>3. Closed(f, r[n]) \/ Cardinality(r[n]) > n
  BY <1>2
<1> QED  BY <1>1, <1>3

\* ReachFrom is the least set that is closed.
LEMMA ReachIs ==
    ASSUME NEW n \in Nat, NEW f, Linked(f, n), NEW S \in SUBSET StatesOf(f)
    PROVE  /\ S \subseteq ReachFrom(f, S) /\ ReachFrom(f, S) \subseteq StatesOf(f)
           /\ Closed(f, ReachFrom(f, S))
           /\ \A D : S \subseteq D /\ Closed(f, D) => ReachFrom(f, S) \subseteq D
<1>1. PICK r : Rounds(f, S, r) /\ ReachFrom(f, S) = r[n]
  BY ReachIsRound
<1>2. S \subseteq r[n] /\ r[n] \subseteq StatesOf(f)
  BY <1>1, RoundsGrow
<1>3. Closed(f, r[n])
  BY <1>1, RoundsEnd
<1>4. ASSUME NEW D, S \subseteq D, Closed(f, D) PROVE r[n] \subseteq D
  <2> DEFINE Bad == {k \in Nat : ~ (r[k] \subseteq D)}
  <2>1. ASSUME Bad # {} PROVE FALSE
    <3>1. Bad \in SUBSET Nat
      OBVIOUS
    <3>2. PICK m \in Bad : \A k \in Bad : m <= k
      BY <2>1, <3>1, LeastNatural
    <3>3. m # 0
      BY <1>1, <1>4, <3>2 DEF Rounds
    <3>4. m - 1 \in Nat /\ ~ (m <= m - 1) /\ (m - 1) + 1 = m
      BY <3>2, <3>3
    <3>5. r[m - 1] \subseteq D
      BY <3>2, <3>4
    <3>6. r[m] = Successors(f, r[m - 1])
      BY <1>1, <3>4 DEF Rounds
    <3>7. Successors(f, r[m - 1]) \subseteq D
      BY <3>5, <1>4 DEF Successors, Closed
    <3> QED  BY <3>2, <3>6, <3>7
  <2> QED  BY <2>1
<1> QED  BY <1>1, <1>2, <1>3, <1>4

LEMMA ReachNothing ==
    ASSUME NEW n \in Nat, NEW f, Linked(f, n)
    PROVE  ReachFrom(f, {}) = {}
<1>1. Closed(f, {})
  BY DEF Closed
<1> QED  BY <1>1, ReachIs

-----------------------------------------------------------------------------
(* What the bits ask, without operators as arguments.                      *)

\* The i-th transition from s.
IsArc(f, s, i) == s \in StatesOf(f) /\ i \in DOMAIN f.trs[s]
Nexts(f, s) == {f.trs[s][i].ns : i \in DOMAIN f.trs[s]}

LEMMA LabelsAsk ==
    ASSUME NEW f
    PROVE  /\ IsAcceptor(f) <=> \A s, i : IsArc(f, s, i) => f.trs[s][i].il = f.trs[s][i].ol
           /\ HasNoEpsilons(f) <=>
                \A s, i : IsArc(f, s, i) => f.trs[s][i].il # Eps \/ f.trs[s][i].ol # Eps
           /\ HasNoIEpsilons(f) <=> \A s, i : IsArc(f, s, i) => f.trs[s][i].il # Eps
           /\ HasNoOEpsilons(f) <=> \A s, i : IsArc(f, s, i) => f.trs[s][i].ol # Eps
<1>1. IsAcceptor(f) <=> \A s, i : IsArc(f, s, i) => f.trs[s][i].il = f.trs[s][i].ol
  BY DEF IsAcceptor, AllArcs, IsArc
<1>2. HasNoEpsilons(f) <=>
        \A s, i : IsArc(f, s, i) => f.trs[s][i].il # Eps \/ f.trs[s][i].ol # Eps
  BY DEF HasNoEpsilons, AllArcs, IsArc
<1>3. HasNoIEpsilons(f) <=> \A s, i : IsArc(f, s, i) => f.trs[s][i].il # Eps
  BY DEF HasNoIEpsilons, AllArcs, IsArc
<1>4. HasNoOEpsilons(f) <=> \A s, i : IsArc(f, s, i) => f.trs[s][i].ol # Eps
  BY DEF HasNoOEpsilons, AllArcs, IsArc
<1> QED  BY <1>1, <1>2, <1>3, <1>4

LEMMA OrderAsks ==
    ASSUME NEW f
    PROVE  /\ IsIDeterministic(f) <=>
                \A s, i, j : IsArc(f, s, i) /\ IsArc(f, s, j) /\ i # j =>
                               f.trs[s][i].il # f.trs[s][j].il
           /\ IsODeterministic(f) <=>
                \A s, i, j : IsArc(f, s, i) /\ IsArc(f, s, j) /\ i # j =>
                               f.trs[s][i].ol # f.trs[s][j].ol
           /\ IsISorted(f) <=>
                \A s, i : IsArc(f, s, i) /\ i > 1 => f.trs[s][i - 1].il <= f.trs[s][i].il
           /\ IsOSorted(f) <=>
                \A s, i : IsArc(f, s, i) /\ i > 1 => f.trs[s][i - 1].ol <= f.trs[s][i].ol
<1>1. IsIDeterministic(f) <=>
        \A s, i, j : IsArc(f, s, i) /\ IsArc(f, s, j) /\ i # j =>
                       f.trs[s][i].il # f.trs[s][j].il
  BY DEF IsIDeterministic, AllDistinct, IsArc
<1>2. IsODeterministic(f) <=>
        \A s, i, j : IsArc(f, s, i) /\ IsArc(f, s, j) /\ i # j =>
                       f.trs[s][i].ol # f.trs[s][j].ol
  BY DEF IsODeterministic, AllDistinct, IsArc
<1>3. IsISorted(f) <=>
        \A s, i : IsArc(f, s, i) /\ i > 1 => f.trs[s][i - 1].il <= f.trs[s][i].il
  BY DEF IsISorted, AllConsecutive, IsArc
<1>4. IsOSorted(f) <=>
        \A s, i : IsArc(f, s, i) /\ i > 1 => f.trs[s][i - 1].ol <= f.trs[s][i].ol
  BY DEF IsOSorted, AllConsecutive, IsArc
<1> QED  BY <1>1, <1>2, <1>3, <1>4

LEMMA WeightsAsk ==
    ASSUME NEW f
    PROVE  IsUnweighted(f) <=> /\ \A s, i : IsArc(f, s, i) => Trivial(f.trs[s][i].w)
                               /\ \A s \in StatesOf(f) : f.final[s] # None => Trivial(f.final[s])
BY DEF IsUnweighted, AllArcs, IsArc, Finals

LEMMA PlacesAsk ==
    ASSUME NEW f
    PROVE  /\ IsTopSorted(f) <=> \A s, i : IsArc(f, s, i) => f.trs[s][i].ns > s
           /\ HasUnweightedCycles(f) <=>
                \A s, i : IsArc(f, s, i) /\ ~ Trivial(f.trs[s][i].w) =>
                            s \notin ReachFrom(f, {f.trs[s][i].ns})
           /\ IsAcyclic(f) <=> \A s \in StatesOf(f) : s \notin ReachFrom(f, Nexts(f, s))
           /\ IsInitialAcyclic(f) <=>
                (f.start # None => f.start \notin ReachFrom(f, Nexts(f, f.start)))
<1>1. IsTopSorted(f) <=> \A s, i : IsArc(f, s, i) => f.trs[s][i].ns > s
  BY DEF IsTopSorted, IsArc
<1>2. HasUnweightedCycles(f) <=>
        \A s, i : IsArc(f, s, i) /\ ~ Trivial(f.trs[s][i].w) =>
                    s \notin ReachFrom(f, {f.trs[s][i].ns})
  BY DEF HasUnweightedCycles, IsArc
<1>3. \A s : OnCycle(f, s) <=> s \in ReachFrom(f, Nexts(f, s))
  BY Zenon DEF OnCycle, Nexts
<1>4. IsAcyclic(f) <=> \A s \in StatesOf(f) : s \notin ReachFrom(f, Nexts(f, s))
  BY <1>3 DEF IsAcyclic
<1>5. IsInitialAcyclic(f) <=>
        (f.start # None => f.start \notin ReachFrom(f, Nexts(f, f.start)))
  BY <1>3 DEF IsInitialAcyclic
<1> QED  BY <1>1, <1>2, <1>4, <1>5

\* What a machine's transitions are made of.
LEMMA ArcIs ==
    ASSUME NEW n \in Nat, NEW f, IsMachine(f, n)
    PROVE  /\ Linked(f, n)
           /\ \A s \in StatesOf(f) : f.trs[s] \in Seq(Tr(n)) /\ s \in 0 .. n-1
           /\ \A s, i : IsArc(f, s, i) =>
                /\ s \in 0 .. n-1 /\ i \in 1 .. Len(f.trs[s])
                /\ f.trs[s][i] \in Tr(n) /\ f.trs[s][i].il \in Nat /\ f.trs[s][i].ol \in Nat
                /\ f.trs[s][i].ns \in StatesOf(f)
<1>1. StatesOf(f) = 0 .. n-1
  BY ShapeStates
<1>2. \A s \in StatesOf(f) : f.trs[s] \in Seq(Tr(n)) /\ s \in 0 .. n-1
  BY <1>1 DEF IsMachine
<1>3. ASSUME NEW s, NEW i, IsArc(f, s, i)
      PROVE  /\ s \in 0 .. n-1 /\ i \in 1 .. Len(f.trs[s])
             /\ f.trs[s][i] \in Tr(n) /\ f.trs[s][i].il \in Nat /\ f.trs[s][i].ol \in Nat
             /\ f.trs[s][i].ns \in StatesOf(f)
  <2>1. s \in 0 .. n-1 /\ f.trs[s] \in Seq(Tr(n)) /\ i \in 1 .. Len(f.trs[s])
    BY <1>1, <1>2, <1>3 DEF IsArc
  <2>2. f.trs[s][i] \in Tr(n)
    BY <2>1
  <2> QED  BY <1>1, <2>1, <2>2, LabelsAssumption DEF Tr
<1>4. Linked(f, n)
  BY <1>1, <1>3 DEF Linked, IsArc
<1> QED  BY <1>2, <1>3, <1>4

\* Labels in order between neighbours are in order.
LEMMA InOrder ==
    ASSUME NEW n \in Nat, NEW key \in [1 .. n -> Nat],
           \A i \in 1 .. n : i > 1 => key[i - 1] <= key[i]
    PROVE  \A i, j \in 1 .. n : i < j => key[i] <= key[j]
<1> SUFFICES ASSUME NEW i \in 1 .. n
             PROVE  \A j \in 1 .. n : i < j => key[i] <= key[j]
  OBVIOUS
<1> DEFINE Bad == {j \in 1 .. n : i < j /\ ~ (key[i] <= key[j])}
<1>1. ASSUME Bad # {} PROVE FALSE
  <2>1. Bad \in SUBSET Nat
    OBVIOUS
  <2>2. PICK m \in Bad : \A k \in Bad : m <= k
    BY <1>1, <2>1, LeastNatural
  <2>3. m \in 1 .. n /\ i < m /\ ~ (key[i] <= key[m])
    BY <2>2
  <2>4. m - 1 \in 1 .. n /\ m > 1 /\ ~ (m <= m - 1)
    BY <2>3
  <2>5. m - 1 \notin Bad
    BY <2>2, <2>4
  <2>6. key[i] <= key[m - 1]
    <3>1. CASE i = m - 1
      BY <3>1, <2>4
    <3>2. CASE i # m - 1
      BY <3>2, <2>3, <2>4, <2>5
    <3> QED  BY <3>1, <3>2
  <2>7. key[m - 1] <= key[m]
    BY <2>3, <2>4
  <2>8. key[i] \in Nat /\ key[m - 1] \in Nat /\ key[m] \in Nat
    BY <2>3, <2>4
  <2> QED  BY <2>3, <2>6, <2>7, <2>8
<1> QED  BY <1>1

-----------------------------------------------------------------------------
(* A machine g inside a machine f: its states are some of f's, in order,   *)
(* and its transitions some of theirs, in order.  What g has f has too.    *)

ArcsEmbed(ts, us, old, at) ==
    /\ at \in [DOMAIN ts -> DOMAIN us]
    /\ \A i, j \in DOMAIN ts : i < j => at[i] < at[j]
    /\ \A i \in DOMAIN ts : /\ us[at[i]].il = ts[i].il
                            /\ us[at[i]].ol = ts[i].ol
                            /\ us[at[i]].w = ts[i].w
                            /\ us[at[i]].ns = old[ts[i].ns]
Embeds(g, f, old) ==
    /\ \A s \in StatesOf(g) : old[s] \in Nat
    /\ \A s, u \in StatesOf(g) : s < u => old[s] < old[u]
    /\ \A s \in StatesOf(g) : DOMAIN g.trs[s] # {} =>
         /\ old[s] \in StatesOf(f)
         /\ \E at : ArcsEmbed(g.trs[s], f.trs[old[s]], old, at)

LEMMA EmbeddedArc ==
    ASSUME NEW g, NEW f, NEW old, Embeds(g, f, old), NEW s, NEW i, IsArc(g, s, i)
    PROVE  \E j : /\ IsArc(f, old[s], j)
                  /\ f.trs[old[s]][j].il = g.trs[s][i].il
                  /\ f.trs[old[s]][j].ol = g.trs[s][i].ol
                  /\ f.trs[old[s]][j].w = g.trs[s][i].w
                  /\ f.trs[old[s]][j].ns = old[g.trs[s][i].ns]
<1>1. s \in StatesOf(g) /\ i \in DOMAIN g.trs[s]
  BY DEF IsArc
<1>2. old[s] \in StatesOf(f) /\ \E at : ArcsEmbed(g.trs[s], f.trs[old[s]], old, at)
  BY <1>1 DEF Embeds
<1>3. PICK at : ArcsEmbed(g.trs[s], f.trs[old[s]], old, at)
  BY <1>2
<1>4. IsArc(f, old[s], at[i])
  BY <1>1, <1>2, <1>3 DEF ArcsEmbed, IsArc
<1> QED  BY <1>1, <1>3, <1>4 DEF ArcsEmbed

LEMMA EmbeddedLabels ==
    ASSUME NEW g, NEW f, NEW old, Embeds(g, f, old)
    PROVE  /\ IsAcceptor(f) => IsAcceptor(g)
           /\ HasNoEpsilons(f) => HasNoEpsilons(g)
           /\ HasNoIEpsilons(f) => HasNoIEpsilons(g)
           /\ HasNoOEpsilons(f) => HasNoOEpsilons(g)
<1>1. \A s, i : IsArc(g, s, i) =>
        \E j : /\ IsArc(f, old[s], j)
               /\ f.trs[old[s]][j].il = g.trs[s][i].il
               /\ f.trs[old[s]][j].ol = g.trs[s][i].ol
  BY EmbeddedArc
<1>2. IsAcceptor(f) => IsAcceptor(g)
  BY <1>1, LabelsAsk
<1>3. HasNoEpsilons(f) => HasNoEpsilons(g)
  BY <1>1, LabelsAsk
<1>4. HasNoIEpsilons(f) => HasNoIEpsilons(g)
  BY <1>1, LabelsAsk
<1>5. HasNoOEpsilons(f) => HasNoOEpsilons(g)
  BY <1>1, LabelsAsk
<1> QED  BY <1>2, <1>3, <1>4, <1>5

LEMMA EmbeddedWeights ==
    ASSUME NEW g, NEW f, NEW old, Embeds(g, f, old),
           \A s \in StatesOf(g) : g.final[s] # None =>
             old[s] \in StatesOf(f) /\ f.final[old[s]] = g.final[s]
    PROVE  IsUnweighted(f) => IsUnweighted(g)
<1>1. \A s, i : IsArc(g, s, i) =>
        \E j : IsArc(f, old[s], j) /\ f.trs[old[s]][j].w = g.trs[s][i].w
  BY EmbeddedArc
<1> QED  BY <1>1, WeightsAsk

\* Two transitions of one state of g are two of one state of f, in the same order.
LEMMA EmbeddedPairs ==
    ASSUME NEW m \in Nat, NEW g, IsMachine(g, m), NEW n \in Nat, NEW f, IsMachine(f, n),
           NEW old, Embeds(g, f, old), NEW s, NEW i, NEW j, IsArc(g, s, i), IsArc(g, s, j),
           i < j
    PROVE  \E k, l : /\ IsArc(f, old[s], k) /\ IsArc(f, old[s], l) /\ k < l
                     /\ f.trs[old[s]][k].il = g.trs[s][i].il
                     /\ f.trs[old[s]][k].ol = g.trs[s][i].ol
                     /\ f.trs[old[s]][l].il = g.trs[s][j].il
                     /\ f.trs[old[s]][l].ol = g.trs[s][j].ol
<1>1. s \in StatesOf(g) /\ i \in DOMAIN g.trs[s] /\ j \in DOMAIN g.trs[s]
  BY DEF IsArc
<1>2. old[s] \in StatesOf(f) /\ \E at : ArcsEmbed(g.trs[s], f.trs[old[s]], old, at)
  BY <1>1 DEF Embeds
<1>3. PICK at : ArcsEmbed(g.trs[s], f.trs[old[s]], old, at)
  BY <1>2
<1>4. IsArc(f, old[s], at[i]) /\ IsArc(f, old[s], at[j])
  BY <1>1, <1>2, <1>3 DEF ArcsEmbed, IsArc
<1>5. at[i] < at[j]
  BY <1>1, <1>3 DEF ArcsEmbed
<1> QED  BY <1>1, <1>3, <1>4, <1>5 DEF ArcsEmbed

LEMMA EmbeddedDistinct ==
    ASSUME NEW m \in Nat, NEW g, IsMachine(g, m), NEW n \in Nat, NEW f, IsMachine(f, n),
           NEW old, Embeds(g, f, old)
    PROVE  /\ IsIDeterministic(f) => IsIDeterministic(g)
           /\ IsODeterministic(f) => IsODeterministic(g)
<1>1. \A s, i, j : IsArc(g, s, i) /\ IsArc(g, s, j) /\ i # j => i < j \/ j < i
  BY ArcIs
<1>2. \A k, l, s : IsArc(f, s, k) /\ IsArc(f, s, l) /\ k < l => k # l
  BY ArcIs
<1>3. \A s, i, j : IsArc(g, s, i) /\ IsArc(g, s, j) /\ i < j =>
        \E k, l : /\ IsArc(f, old[s], k) /\ IsArc(f, old[s], l) /\ k # l
                  /\ f.trs[old[s]][k].il = g.trs[s][i].il
                  /\ f.trs[old[s]][k].ol = g.trs[s][i].ol
                  /\ f.trs[old[s]][l].il = g.trs[s][j].il
                  /\ f.trs[old[s]][l].ol = g.trs[s][j].ol
  <2> TAKE s, i, j
  <2> HAVE IsArc(g, s, i) /\ IsArc(g, s, j) /\ i < j
  <2> QED  BY <1>2, EmbeddedPairs
<1>4. ASSUME IsIDeterministic(f), NEW s, NEW i, NEW j, IsArc(g, s, i), IsArc(g, s, j), i < j
      PROVE  g.trs[s][i].il # g.trs[s][j].il
  BY <1>3, <1>4, OrderAsks
<1>5. ASSUME IsODeterministic(f), NEW s, NEW i, NEW j, IsArc(g, s, i), IsArc(g, s, j), i < j
      PROVE  g.trs[s][i].ol # g.trs[s][j].ol
  BY <1>3, <1>5, OrderAsks
<1>6. IsIDeterministic(f) => IsIDeterministic(g)
  BY <1>1, <1>4, OrderAsks
<1>7. IsODeterministic(f) => IsODeterministic(g)
  BY <1>1, <1>5, OrderAsks
<1> QED  BY <1>6, <1>7

\* Sorted transitions are sorted pair by pair.
LEMMA SortedPairs ==
    ASSUME NEW n \in Nat, NEW f, IsMachine(f, n), NEW s, NEW i, NEW j,
           IsArc(f, s, i), IsArc(f, s, j), i < j
    PROVE  /\ IsISorted(f) => f.trs[s][i].il <= f.trs[s][j].il
           /\ IsOSorted(f) => f.trs[s][i].ol <= f.trs[s][j].ol
<1> DEFINE ts == f.trs[s]
           il == [k \in 1 .. Len(ts) |-> ts[k].il]
           ol == [k \in 1 .. Len(ts) |-> ts[k].ol]
<1>1. s \in StatesOf(f) /\ i \in 1 .. Len(ts) /\ j \in 1 .. Len(ts)
  BY ArcIs DEF IsArc
<1>2. Len(ts) \in Nat /\ DOMAIN ts = 1 .. Len(ts)
  BY <1>1, ArcIs
<1>3. \A k \in 1 .. Len(ts) : IsArc(f, s, k)
  BY <1>1, <1>2 DEF IsArc
<1>4. \A k \in 1 .. Len(ts) : ts[k].il \in Nat /\ ts[k].ol \in Nat
  BY <1>3, ArcIs
<1>5. il \in [1 .. Len(ts) -> Nat] /\ ol \in [1 .. Len(ts) -> Nat]
  BY <1>4
<1>6. ASSUME IsISorted(f) PROVE ts[i].il <= ts[j].il
  <2>1. \A k \in 1 .. Len(ts) : k > 1 => ts[k - 1].il <= ts[k].il
    BY <1>3, <1>6, OrderAsks
  <2>2. \A k \in 1 .. Len(ts) : k > 1 => k - 1 \in 1 .. Len(ts)
    BY <1>2
  <2>3. \A k \in 1 .. Len(ts) : k > 1 => il[k - 1] <= il[k]
    BY <2>1, <2>2
  <2>4. \A k, l \in 1 .. Len(ts) : k < l => il[k] <= il[l]
    <3> HIDE DEF il, ts
    <3> QED  BY <1>2, <1>5, <2>3, InOrder
  <2>5. il[i] <= il[j]
    <3> HIDE DEF il, ts
    <3> QED  BY <1>1, <2>4
  <2> QED  BY <1>1, <2>5
<1>7. ASSUME IsOSorted(f) PROVE ts[i].ol <= ts[j].ol
  <2>1. \A k \in 1 .. Len(ts) : k > 1 => ts[k - 1].ol <= ts[k].ol
    BY <1>3, <1>7, OrderAsks
  <2>2. \A k \in 1 .. Len(ts) : k > 1 => k - 1 \in 1 .. Len(ts)
    BY <1>2
  <2>3. \A k \in 1 .. Len(ts) : k > 1 => ol[k - 1] <= ol[k]
    BY <2>1, <2>2
  <2>4. \A k, l \in 1 .. Len(ts) : k < l => ol[k] <= ol[l]
    <3> HIDE DEF ol, ts
    <3> QED  BY <1>2, <1>5, <2>3, InOrder
  <2>5. ol[i] <= ol[j]
    <3> HIDE DEF ol, ts
    <3> QED  BY <1>1, <2>4
  <2> QED  BY <1>1, <2>5
<1> QED  BY <1>6, <1>7

LEMMA EmbeddedSorted ==
    ASSUME NEW m \in Nat, NEW g, IsMachine(g, m), NEW n \in Nat, NEW f, IsMachine(f, n),
           NEW old, Embeds(g, f, old)
    PROVE  /\ IsISorted(f) => IsISorted(g)
           /\ IsOSorted(f) => IsOSorted(g)
<1>1. ASSUME NEW s, NEW i, IsArc(g, s, i), i > 1
      PROVE  /\ IsISorted(f) => g.trs[s][i - 1].il <= g.trs[s][i].il
             /\ IsOSorted(f) => g.trs[s][i - 1].ol <= g.trs[s][i].ol
  <2>1. s \in StatesOf(g) /\ i \in 1 .. Len(g.trs[s]) /\ g.trs[s] \in Seq(Tr(m))
    BY <1>1, ArcIs DEF IsArc
  <2>2. IsArc(g, s, i - 1) /\ i - 1 < i
    BY <1>1, <2>1 DEF IsArc
  <2>3. PICK k, l : /\ IsArc(f, old[s], k) /\ IsArc(f, old[s], l) /\ k < l
                    /\ f.trs[old[s]][k].il = g.trs[s][i - 1].il
                    /\ f.trs[old[s]][k].ol = g.trs[s][i - 1].ol
                    /\ f.trs[old[s]][l].il = g.trs[s][i].il
                    /\ f.trs[old[s]][l].ol = g.trs[s][i].ol
    BY <1>1, <2>2, EmbeddedPairs
  <2> QED  BY <2>3, SortedPairs
<1> QED  BY <1>1, OrderAsks

LEMMA EmbeddedTop ==
    ASSUME NEW m \in Nat, NEW g, IsMachine(g, m), NEW n \in Nat, NEW f, IsMachine(f, n),
           NEW old, Embeds(g, f, old)
    PROVE  IsTopSorted(f) => IsTopSorted(g)
<1>1. ASSUME IsTopSorted(f), NEW s, NEW i, IsArc(g, s, i)
      PROVE  g.trs[s][i].ns > s
  <2> DEFINE u == g.trs[s][i].ns
  <2>1. s \in StatesOf(g) /\ u \in StatesOf(g) /\ s \in Int /\ u \in Int
    <3>1. s \in StatesOf(g) /\ u \in StatesOf(g)
      BY <1>1, ArcIs DEF IsArc
    <3> QED  BY <3>1, ShapeStates
  <2>2. PICK j : IsArc(f, old[s], j) /\ f.trs[old[s]][j].ns = old[u]
    BY <1>1, EmbeddedArc
  <2>3. old[u] > old[s]
    BY <1>1, <2>2, PlacesAsk
  <2>4. old[u] \in Nat /\ old[s] \in Nat /\ (u < s => old[u] < old[s])
    BY <2>1 DEF Embeds
  <2> HIDE DEF u
  <2>5. u # s
    BY <2>3, <2>4
  <2>6. ~ (u < s)
    BY <2>3, <2>4
  <2>7. u > s
    BY <2>1, <2>5, <2>6
  <2> QED  BY <2>7 DEF u
<1> QED  BY <1>1, PlacesAsk

\* What is reached in g is reached in f.
LEMMA EmbeddedReach ==
    ASSUME NEW m \in Nat, NEW g, IsMachine(g, m), NEW n \in Nat, NEW f, IsMachine(f, n),
           NEW old, Embeds(g, f, old), NEW S \in SUBSET StatesOf(g),
           NEW D \in SUBSET StatesOf(f), \A s \in S : old[s] \in D
    PROVE  \A u \in ReachFrom(g, S) : u \in StatesOf(g) /\ old[u] \in ReachFrom(f, D)
<1> DEFINE C == {u \in StatesOf(g) : old[u] \in ReachFrom(f, D)}
<1>0. Linked(f, n) /\ Linked(g, m)
  BY ArcIs
<1>1. D \subseteq ReachFrom(f, D) /\ Closed(f, ReachFrom(f, D))
  BY <1>0, ReachIs
<1>2. S \subseteq C
  BY <1>1
<1>3. ASSUME NEW s \in C, NEW i \in DOMAIN g.trs[s] PROVE g.trs[s][i].ns \in C
  <2>1. IsArc(g, s, i)
    BY DEF IsArc
  <2>2. g.trs[s][i].ns \in StatesOf(g)
    BY <2>1, ArcIs
  <2>3. PICK j : IsArc(f, old[s], j) /\ f.trs[old[s]][j].ns = old[g.trs[s][i].ns]
    BY <2>1, EmbeddedArc
  <2>4. f.trs[old[s]][j].ns \in ReachFrom(f, D)
    BY <1>1, <2>3 DEF Closed, IsArc
  <2> QED  BY <2>2, <2>3, <2>4
<1>4. Closed(g, C)
  BY <1>3 DEF Closed
<1> HIDE DEF C
<1>5. ReachFrom(g, S) \subseteq C
  BY <1>0, <1>2, <1>4, ReachIs
<1> QED  BY <1>5 DEF C

LEMMA NextsAre ==
    ASSUME NEW m \in Nat, NEW g, IsMachine(g, m), NEW s \in StatesOf(g)
    PROVE  /\ Nexts(g, s) \in SUBSET StatesOf(g)
           /\ \A u \in Nexts(g, s) : \E i : IsArc(g, s, i) /\ u = g.trs[s][i].ns
<1>1. \A u \in Nexts(g, s) : \E i : IsArc(g, s, i) /\ u = g.trs[s][i].ns
  BY DEF Nexts, IsArc
<1> QED  BY <1>1, ArcIs

LEMMA EmbeddedCycle ==
    ASSUME NEW m \in Nat, NEW g, IsMachine(g, m), NEW n \in Nat, NEW f, IsMachine(f, n),
           NEW old, Embeds(g, f, old), NEW s \in StatesOf(g), s \in ReachFrom(g, Nexts(g, s))
    PROVE  old[s] \in StatesOf(f) /\ old[s] \in ReachFrom(f, Nexts(f, old[s]))
<1>1. Nexts(g, s) # {}
  BY ReachNothing, ArcIs
<1>2. old[s] \in StatesOf(f)
  BY <1>1 DEF Nexts, Embeds
<1>3. \A u \in Nexts(g, s) : old[u] \in Nexts(f, old[s])
  <2> TAKE u \in Nexts(g, s)
  <2>1. PICK i : IsArc(g, s, i) /\ u = g.trs[s][i].ns
    BY NextsAre
  <2>2. PICK j : IsArc(f, old[s], j) /\ f.trs[old[s]][j].ns = old[u]
    BY <2>1, EmbeddedArc
  <2> QED  BY <2>2 DEF Nexts, IsArc
<1>4. Nexts(g, s) \in SUBSET StatesOf(g) /\ Nexts(f, old[s]) \in SUBSET StatesOf(f)
  BY <1>2, NextsAre
<1>5. \A u \in ReachFrom(g, Nexts(g, s)) : old[u] \in ReachFrom(f, Nexts(f, old[s]))
  BY <1>3, <1>4, EmbeddedReach
<1> QED  BY <1>2, <1>5

LEMMA EmbeddedCycles ==
    ASSUME NEW m \in Nat, NEW g, IsMachine(g, m), NEW n \in Nat, NEW f, IsMachine(f, n),
           NEW old, Embeds(g, f, old)
    PROVE  /\ IsAcyclic(f) => IsAcyclic(g)
           /\ HasUnweightedCycles(f) => HasUnweightedCycles(g)
<1>1. IsAcyclic(f) => IsAcyclic(g)
  BY EmbeddedCycle, PlacesAsk
<1>2. ASSUME HasUnweightedCycles(f), NEW s, NEW i, IsArc(g, s, i), ~ Trivial(g.trs[s][i].w)
      PROVE  s \notin ReachFrom(g, {g.trs[s][i].ns})
  <2> DEFINE u == g.trs[s][i].ns
  <2>1. s \in StatesOf(g) /\ u \in StatesOf(g)
    BY <1>2, ArcIs DEF IsArc
  <2>2. PICK j : /\ IsArc(f, old[s], j) /\ f.trs[old[s]][j].w = g.trs[s][i].w
                 /\ f.trs[old[s]][j].ns = old[u]
    BY <1>2, EmbeddedArc
  <2>3. old[u] \in StatesOf(f)
    BY <2>2, ArcIs
  <2>4. old[s] \notin ReachFrom(f, {old[u]})
    BY <1>2, <2>2, PlacesAsk
  <2>5. {u} \in SUBSET StatesOf(g) /\ {old[u]} \in SUBSET StatesOf(f)
    BY <2>1, <2>3
  <2>6. \A v \in ReachFrom(g, {u}) : old[v] \in ReachFrom(f, {old[u]})
    BY <2>5, EmbeddedReach
  <2> QED  BY <2>4, <2>6
<1>3. HasUnweightedCycles(f) => HasUnweightedCycles(g)
  BY <1>2, PlacesAsk
<1> QED  BY <1>1, <1>3

LEMMA EmbeddedInitial ==
    ASSUME NEW m \in Nat, NEW g, IsMachine(g, m), NEW n \in Nat, NEW f, IsMachine(f, n),
           NEW old, Embeds(g, f, old),
           g.start # None => g.start \in StatesOf(g) /\ f.start = old[g.start]
    PROVE  IsInitialAcyclic(f) => IsInitialAcyclic(g)
<1>1. ASSUME IsInitialAcyclic(f), g.start # None
      PROVE  g.start \notin ReachFrom(g, Nexts(g, g.start))
  <2> SUFFICES ASSUME g.start \in ReachFrom(g, Nexts(g, g.start)) PROVE FALSE
    OBVIOUS
  <2>1. g.start \in StatesOf(g) /\ f.start = old[g.start]
    BY <1>1
  <2>2. f.start \in StatesOf(f) /\ f.start \in ReachFrom(f, Nexts(f, f.start))
    BY <2>1, EmbeddedCycle
  <2>3. f.start # None
    BY <2>2, ShapeStates, NoneAssumption
  <2> QED  BY <1>1, <2>2, <2>3, PlacesAsk
<1> QED  BY <1>1, PlacesAsk

\* Arcs that go up do not come back.
LEMMA TopAcyclic ==
    ASSUME NEW n \in Nat, NEW f, IsMachine(f, n), IsTopSorted(f)
    PROVE  IsAcyclic(f) /\ IsInitialAcyclic(f)
<1>1. /\ StatesOf(f) = 0 .. n-1
      /\ \A u, i : IsArc(f, u, i) => f.trs[u][i].ns > u /\ f.trs[u][i].ns \in StatesOf(f)
  BY ShapeStates, ArcIs, PlacesAsk
<1>2. ASSUME NEW s \in StatesOf(f) PROVE s \notin ReachFrom(f, Nexts(f, s))
  <2> DEFINE C == {u \in StatesOf(f) : u > s}
  <2>1. /\ Nexts(f, s) \in SUBSET StatesOf(f)
        /\ \A u \in Nexts(f, s) : \E i : IsArc(f, s, i) /\ u = f.trs[s][i].ns
    BY NextsAre
  <2>2. Nexts(f, s) \subseteq C
    BY <1>1, <2>1
  <2>3. Closed(f, C)
    <3> SUFFICES ASSUME NEW u \in C, NEW i \in DOMAIN f.trs[u]
                 PROVE  f.trs[u][i].ns \in C
      BY DEF Closed
    <3>1. f.trs[u][i].ns > u /\ f.trs[u][i].ns \in StatesOf(f)
      BY <1>1 DEF IsArc
    <3> QED  BY <1>1, <3>1
  <2>4. s \notin C
    BY <1>1
  <2> HIDE DEF C
  <2>5. ReachFrom(f, Nexts(f, s)) \subseteq C
    BY <2>1, <2>2, <2>3, ArcIs, ReachIs
  <2> QED  BY <2>4, <2>5
<1>3. f.start # None => f.start \in StatesOf(f)
  BY <1>1 DEF IsMachine
<1> QED  BY <1>2, <1>3, PlacesAsk

\* A machine whose transitions another has too, at the same places.
LEMMA SubmachineEmbeds ==
    ASSUME NEW m \in Nat, NEW g, IsMachine(g, m), NEW n \in Nat, NEW f, IsMachine(f, n),
           \A r, i : IsArc(g, r, i) => IsArc(f, r, i) /\ f.trs[r][i] = g.trs[r][i]
    PROVE  Embeds(g, f, [s \in StatesOf(g) |-> s])
<1> DEFINE old == [s \in StatesOf(g) |-> s]
<1>1. StatesOf(g) = 0 .. m-1 /\ \A s \in StatesOf(g) : old[s] = s
  BY ShapeStates
<1> HIDE DEF old
<1>2. ASSUME NEW s \in StatesOf(g)
      PROVE  ArcsEmbed(g.trs[s], f.trs[old[s]], old, [i \in DOMAIN g.trs[s] |-> i])
  <2>1. \A i \in DOMAIN g.trs[s] : /\ i \in DOMAIN f.trs[s] /\ f.trs[s][i] = g.trs[s][i]
                                   /\ old[g.trs[s][i].ns] = g.trs[s][i].ns
    BY <1>1, ArcIs DEF IsArc
  <2> QED  BY <1>1, <2>1 DEF ArcsEmbed
<1>3. \A s \in StatesOf(g) : DOMAIN g.trs[s] # {} =>
        /\ old[s] \in StatesOf(f)
        /\ \E at : ArcsEmbed(g.trs[s], f.trs[old[s]], old, at)
  <2> TAKE s \in StatesOf(g)
  <2>1. DOMAIN g.trs[s] # {} => s \in StatesOf(f)
    BY DEF IsArc
  <2> QED  BY <1>1, <1>2, <2>1
<1>4. (\A s \in StatesOf(g) : old[s] \in Nat)
      /\ (\A s, u \in StatesOf(g) : s < u => old[s] < old[u])
  BY <1>1
<1> QED  BY <1>3, <1>4 DEF Embeds, old

\* More transitions reach no less.
LEMMA SubmachineReached ==
    ASSUME NEW n \in Nat, NEW g, IsMachine(g, n), NEW f, IsMachine(f, n),
           NEW old, Embeds(g, f, old), \A s \in StatesOf(g) : old[s] = s,
           g.start = f.start, g.final = f.final
    PROVE  /\ IsAccessible(g) => IsAccessible(f)
           /\ IsCoaccessible(g) => IsCoaccessible(f)
<1>1. StatesOf(g) = StatesOf(f)
  BY ShapeStates
<1>3. \A S \in SUBSET StatesOf(f) : ReachFrom(g, S) \subseteq ReachFrom(f, S)
  <2> TAKE S \in SUBSET StatesOf(f)
  <2>1. S \in SUBSET StatesOf(g) /\ \A s \in S : old[s] \in S
    BY <1>1
  <2>2. \A u \in ReachFrom(g, S) : u \in StatesOf(g) /\ old[u] \in ReachFrom(f, S)
    BY <2>1, EmbeddedReach
  <2> QED  BY <1>1, <2>2
<1>4. ASSUME IsAccessible(g) PROVE IsAccessible(f)
  <2> DEFINE S == IF f.start = None THEN {} ELSE {f.start}
  <2>1. S \in SUBSET StatesOf(f)
    BY ShapeStates DEF IsMachine
  <2>2. StatesOf(g) = ReachFrom(g, S)
    BY <1>4 DEF IsAccessible
  <2>3. ReachFrom(g, S) \subseteq ReachFrom(f, S)
    BY <1>3, <2>1
  <2>4. ReachFrom(f, S) \subseteq StatesOf(f)
    <3> HIDE DEF S
    <3> QED  BY <2>1, ArcIs, ReachIs
  <2>5. StatesOf(f) = ReachFrom(f, S)
    BY <1>1, <2>2, <2>3, <2>4
  <2> QED  BY <2>5 DEF IsAccessible
<1>5. ASSUME IsCoaccessible(g) PROVE IsCoaccessible(f)
  <2>1. Finals(g) = Finals(f)
    BY <1>1 DEF Finals
  <2>2. ASSUME NEW s \in StatesOf(f) PROVE ReachFrom(f, {s}) \cap Finals(f) # {}
    <3>1. ReachFrom(g, {s}) \cap Finals(g) # {}
      BY <1>1, <1>5 DEF IsCoaccessible
    <3>2. ReachFrom(g, {s}) \subseteq ReachFrom(f, {s})
      BY <1>3
    <3> QED  BY <2>1, <3>1, <3>2
  <2> QED  BY <2>2 DEF IsCoaccessible
<1> QED  BY <1>4, <1>5

-----------------------------------------------------------------------------
(* Bits p that are true of a machine f, question by question.              *)

Answers(p, yes, no, holds) == (yes \in p => holds) /\ (no \in p => ~ holds)

LabelBits(p, f) ==
    /\ Answers(p, "ACCEPTOR", "NOT_ACCEPTOR", IsAcceptor(f))
    /\ Answers(p, "NO_EPSILONS", "EPSILONS", HasNoEpsilons(f))
    /\ Answers(p, "NO_I_EPSILONS", "I_EPSILONS", HasNoIEpsilons(f))
    /\ Answers(p, "NO_O_EPSILONS", "O_EPSILONS", HasNoOEpsilons(f))
OrderBits(p, f) ==
    /\ Answers(p, "I_DETERMINISTIC", "NOT_I_DETERMINISTIC", IsIDeterministic(f))
    /\ Answers(p, "O_DETERMINISTIC", "NOT_O_DETERMINISTIC", IsODeterministic(f))
    /\ Answers(p, "I_LABEL_SORTED", "NOT_I_LABEL_SORTED", IsISorted(f))
    /\ Answers(p, "O_LABEL_SORTED", "NOT_O_LABEL_SORTED", IsOSorted(f))
WeightBits(p, f) == Answers(p, "UNWEIGHTED", "WEIGHTED", IsUnweighted(f))
CycleBits(p, f) ==
    /\ Answers(p, "ACYCLIC", "CYCLIC", IsAcyclic(f))
    /\ Answers(p, "INITIAL_ACYCLIC", "INITIAL_CYCLIC", IsInitialAcyclic(f))
    /\ Answers(p, "UNWEIGHTED_CYCLES", "WEIGHTED_CYCLES", HasUnweightedCycles(f))
TopBits(p, f) == Answers(p, "TOP_SORTED", "NOT_TOP_SORTED", IsTopSorted(f))
ReachBits(p, f) ==
    /\ Answers(p, "ACCESSIBLE", "NOT_ACCESSIBLE", IsAccessible(f))
    /\ Answers(p, "COACCESSIBLE", "NOT_COACCESSIBLE", IsCoaccessible(f))
StringBits(p, f) == Answers(p, "STRING", "NOT_STRING", IsString(f))
AllBits(p, f) == /\ LabelBits(p, f) /\ OrderBits(p, f) /\ WeightBits(p, f)
                 /\ CycleBits(p, f) /\ TopBits(p, f) /\ ReachBits(p, f) /\ StringBits(p, f)

LEMMA TruthHas ==
    ASSUME NEW f, NEW x
    PROVE  x \in Truth(f) <=>
             \/ x = IF IsAcceptor(f) THEN "ACCEPTOR" ELSE "NOT_ACCEPTOR"
             \/ x = IF IsIDeterministic(f) THEN "I_DETERMINISTIC" ELSE "NOT_I_DETERMINISTIC"
             \/ x = IF IsODeterministic(f) THEN "O_DETERMINISTIC" ELSE "NOT_O_DETERMINISTIC"
             \/ x = IF HasNoEpsilons(f) THEN "NO_EPSILONS" ELSE "EPSILONS"
             \/ x = IF HasNoIEpsilons(f) THEN "NO_I_EPSILONS" ELSE "I_EPSILONS"
             \/ x = IF HasNoOEpsilons(f) THEN "NO_O_EPSILONS" ELSE "O_EPSILONS"
             \/ x = IF IsISorted(f) THEN "I_LABEL_SORTED" ELSE "NOT_I_LABEL_SORTED"
             \/ x = IF IsOSorted(f) THEN "O_LABEL_SORTED" ELSE "NOT_O_LABEL_SORTED"
             \/ x = IF IsUnweighted(f) THEN "UNWEIGHTED" ELSE "WEIGHTED"
             \/ x = IF IsAcyclic(f) THEN "ACYCLIC" ELSE "CYCLIC"
             \/ x = IF IsInitialAcyclic(f) THEN "INITIAL_ACYCLIC" ELSE "INITIAL_CYCLIC"
             \/ x = IF IsTopSorted(f) THEN "TOP_SORTED" ELSE "NOT_TOP_SORTED"
             \/ x = IF IsAccessible(f) THEN "ACCESSIBLE" ELSE "NOT_ACCESSIBLE"
             \/ x = IF IsCoaccessible(f) THEN "COACCESSIBLE" ELSE "NOT_COACCESSIBLE"
             \/ x = IF IsString(f) THEN "STRING" ELSE "NOT_STRING"
             \/ x = IF HasUnweightedCycles(f) THEN "UNWEIGHTED_CYCLES" ELSE "WEIGHTED_CYCLES"
BY ZenonT(60) DEF Truth, Says

LEMMA CopyHas ==
    ASSUME NEW x
    PROVE  x \in CopyProperties <=> x \in {
             "ACCEPTOR", "NOT_ACCEPTOR",
             "I_DETERMINISTIC", "NOT_I_DETERMINISTIC",
             "O_DETERMINISTIC", "NOT_O_DETERMINISTIC",
             "NO_EPSILONS", "EPSILONS",
             "NO_I_EPSILONS", "I_EPSILONS",
             "NO_O_EPSILONS", "O_EPSILONS",
             "I_LABEL_SORTED", "NOT_I_LABEL_SORTED",
             "O_LABEL_SORTED", "NOT_O_LABEL_SORTED",
             "UNWEIGHTED", "WEIGHTED",
             "ACYCLIC", "CYCLIC",
             "INITIAL_ACYCLIC", "INITIAL_CYCLIC",
             "TOP_SORTED", "NOT_TOP_SORTED",
             "ACCESSIBLE", "NOT_ACCESSIBLE",
             "COACCESSIBLE", "NOT_COACCESSIBLE",
             "STRING", "NOT_STRING",
             "UNWEIGHTED_CYCLES", "WEIGHTED_CYCLES"}
BY DEF CopyProperties, LabelPairs, Deterministic, Sorted, Wtd, Cycles, Top, Reached, Str,
       Acc, BothEps, IEps, OEps, IDet, ODet, ISort, OSort, Cyc, ICyc, WCyc, Access, Coaccess

\* The truth about a machine holds yes, or no, as the machine answers.
Tells(f, yes, no, holds) == (yes \in Truth(f) <=> holds) /\ (no \in Truth(f) <=> ~ holds)

LEMMA TruthTells ==
    ASSUME NEW f
    PROVE  /\ Tells(f, "ACCEPTOR", "NOT_ACCEPTOR", IsAcceptor(f))
           /\ Tells(f, "NO_EPSILONS", "EPSILONS", HasNoEpsilons(f))
           /\ Tells(f, "NO_I_EPSILONS", "I_EPSILONS", HasNoIEpsilons(f))
           /\ Tells(f, "NO_O_EPSILONS", "O_EPSILONS", HasNoOEpsilons(f))
           /\ Tells(f, "I_DETERMINISTIC", "NOT_I_DETERMINISTIC", IsIDeterministic(f))
           /\ Tells(f, "O_DETERMINISTIC", "NOT_O_DETERMINISTIC", IsODeterministic(f))
           /\ Tells(f, "I_LABEL_SORTED", "NOT_I_LABEL_SORTED", IsISorted(f))
           /\ Tells(f, "O_LABEL_SORTED", "NOT_O_LABEL_SORTED", IsOSorted(f))
           /\ Tells(f, "UNWEIGHTED", "WEIGHTED", IsUnweighted(f))
           /\ Tells(f, "ACYCLIC", "CYCLIC", IsAcyclic(f))
           /\ Tells(f, "INITIAL_ACYCLIC", "INITIAL_CYCLIC", IsInitialAcyclic(f))
           /\ Tells(f, "UNWEIGHTED_CYCLES", "WEIGHTED_CYCLES", HasUnweightedCycles(f))
           /\ Tells(f, "TOP_SORTED", "NOT_TOP_SORTED", IsTopSorted(f))
           /\ Tells(f, "ACCESSIBLE", "NOT_ACCESSIBLE", IsAccessible(f))
           /\ Tells(f, "COACCESSIBLE", "NOT_COACCESSIBLE", IsCoaccessible(f))
           /\ Tells(f, "STRING", "NOT_STRING", IsString(f))
<1>1. Tells(f, "ACCEPTOR", "NOT_ACCEPTOR", IsAcceptor(f))
  BY TruthHas DEF Tells
<1>2. Tells(f, "NO_EPSILONS", "EPSILONS", HasNoEpsilons(f))
  BY TruthHas DEF Tells
<1>3. Tells(f, "NO_I_EPSILONS", "I_EPSILONS", HasNoIEpsilons(f))
  BY TruthHas DEF Tells
<1>4. Tells(f, "NO_O_EPSILONS", "O_EPSILONS", HasNoOEpsilons(f))
  BY TruthHas DEF Tells
<1>5. Tells(f, "I_DETERMINISTIC", "NOT_I_DETERMINISTIC", IsIDeterministic(f))
  BY TruthHas DEF Tells
<1>6. Tells(f, "O_DETERMINISTIC", "NOT_O_DETERMINISTIC", IsODeterministic(f))
  BY TruthHas DEF Tells
<1>7. Tells(f, "I_LABEL_SORTED", "NOT_I_LABEL_SORTED", IsISorted(f))
  BY TruthHas DEF Tells
<1>8. Tells(f, "O_LABEL_SORTED", "NOT_O_LABEL_SORTED", IsOSorted(f))
  BY TruthHas DEF Tells
<1>9. Tells(f, "UNWEIGHTED", "WEIGHTED", IsUnweighted(f))
  BY TruthHas DEF Tells
<1>10. Tells(f, "ACYCLIC", "CYCLIC", IsAcyclic(f))
  BY TruthHas DEF Tells
<1>11. Tells(f, "INITIAL_ACYCLIC", "INITIAL_CYCLIC", IsInitialAcyclic(f))
  BY TruthHas DEF Tells
<1>12. Tells(f, "UNWEIGHTED_CYCLES", "WEIGHTED_CYCLES", HasUnweightedCycles(f))
  BY TruthHas DEF Tells
<1>13. Tells(f, "TOP_SORTED", "NOT_TOP_SORTED", IsTopSorted(f))
  BY TruthHas DEF Tells
<1>14. Tells(f, "ACCESSIBLE", "NOT_ACCESSIBLE", IsAccessible(f))
  BY TruthHas DEF Tells
<1>15. Tells(f, "COACCESSIBLE", "NOT_COACCESSIBLE", IsCoaccessible(f))
  BY TruthHas DEF Tells
<1>16. Tells(f, "STRING", "NOT_STRING", IsString(f))
  BY TruthHas DEF Tells
<1> QED
  BY <1>1, <1>2, <1>3, <1>4, <1>5, <1>6, <1>7, <1>8, <1>9, <1>10,
     <1>11, <1>12, <1>13, <1>14, <1>15, <1>16, Zenon

LEMMA TruthIs ==
    ASSUME NEW f, NEW p \in SUBSET CopyProperties
    PROVE  p \subseteq Truth(f) <=> AllBits(p, f)
<1>1. ASSUME p \subseteq Truth(f) PROVE AllBits(p, f)
  <2>1. LabelBits(p, f)
    BY <1>1, TruthTells DEF Tells, LabelBits, Answers
  <2>2. OrderBits(p, f)
    BY <1>1, TruthTells DEF Tells, OrderBits, Answers
  <2>3. WeightBits(p, f)
    BY <1>1, TruthTells DEF Tells, WeightBits, Answers
  <2>4. CycleBits(p, f)
    BY <1>1, TruthTells DEF Tells, CycleBits, Answers
  <2>5. TopBits(p, f)
    BY <1>1, TruthTells DEF Tells, TopBits, Answers
  <2>6. ReachBits(p, f)
    BY <1>1, TruthTells DEF Tells, ReachBits, Answers
  <2>7. StringBits(p, f)
    BY <1>1, TruthTells DEF Tells, StringBits, Answers
  <2> QED  BY <2>1, <2>2, <2>3, <2>4, <2>5, <2>6, <2>7 DEF AllBits
<1>2. ASSUME AllBits(p, f), NEW x \in p PROVE x \in Truth(f)
  <2>1. x \in {"ACCEPTOR", "NOT_ACCEPTOR", "NO_EPSILONS", "EPSILONS", "NO_I_EPSILONS",
            "I_EPSILONS", "NO_O_EPSILONS", "O_EPSILONS"} => x \in Truth(f)
    BY <1>2, TruthTells DEF Tells, AllBits, LabelBits, Answers
  <2>2. x \in {"I_DETERMINISTIC", "NOT_I_DETERMINISTIC", "O_DETERMINISTIC",
            "NOT_O_DETERMINISTIC", "I_LABEL_SORTED", "NOT_I_LABEL_SORTED",
            "O_LABEL_SORTED", "NOT_O_LABEL_SORTED"} => x \in Truth(f)
    BY <1>2, TruthTells DEF Tells, AllBits, OrderBits, Answers
  <2>3. x \in {"UNWEIGHTED", "WEIGHTED"} => x \in Truth(f)
    BY <1>2, TruthTells DEF Tells, AllBits, WeightBits, Answers
  <2>4. x \in {"ACYCLIC", "CYCLIC", "INITIAL_ACYCLIC", "INITIAL_CYCLIC",
            "UNWEIGHTED_CYCLES", "WEIGHTED_CYCLES"} => x \in Truth(f)
    BY <1>2, TruthTells DEF Tells, AllBits, CycleBits, Answers
  <2>5. x \in {"TOP_SORTED", "NOT_TOP_SORTED"} => x \in Truth(f)
    BY <1>2, TruthTells DEF Tells, AllBits, TopBits, Answers
  <2>6. x \in {"ACCESSIBLE", "NOT_ACCESSIBLE", "COACCESSIBLE", "NOT_COACCESSIBLE"} => x \in Truth(f)
    BY <1>2, TruthTells DEF Tells, AllBits, ReachBits, Answers
  <2>7. x \in {"STRING", "NOT_STRING"} => x \in Truth(f)
    BY <1>2, TruthTells DEF Tells, AllBits, StringBits, Answers
  <2>8. x \in CopyProperties
    OBVIOUS
  <2> QED  BY <2>1, <2>2, <2>3, <2>4, <2>5, <2>6, <2>7, <2>8, CopyHas
<1> QED  BY <1>1, <1>2

-----------------------------------------------------------------------------
(* Machines with the same transitions.                                     *)

LEMMA EmbedsSame ==
    ASSUME NEW n \in Nat, NEW f, IsMachine(f, n), NEW g, IsMachine(g, n), g.trs = f.trs
    PROVE  Embeds(g, f, [s \in StatesOf(g) |-> s])
<1> DEFINE old == [s \in StatesOf(g) |-> s]
<1>1. StatesOf(g) = 0 .. n-1 /\ StatesOf(f) = 0 .. n-1
  BY ShapeStates
<1>2. ASSUME NEW s \in StatesOf(g)
      PROVE  ArcsEmbed(g.trs[s], f.trs[old[s]], old, [i \in DOMAIN g.trs[s] |-> i])
  <2>1. \A i \in DOMAIN g.trs[s] : g.trs[s][i].ns \in StatesOf(g)
    BY ArcIs DEF IsArc
  <2> QED  BY <2>1 DEF ArcsEmbed
<1>3. \A s \in StatesOf(g) : \E at : ArcsEmbed(g.trs[s], f.trs[old[s]], old, at)
  BY <1>2
<1>4. \A s \in StatesOf(g) : old[s] = s
  OBVIOUS
<1> HIDE DEF old
<1> QED  BY <1>1, <1>3, <1>4 DEF Embeds, old

LEMMA SameTrs ==
    ASSUME NEW n \in Nat, NEW f, IsMachine(f, n), NEW g, IsMachine(g, n), g.trs = f.trs
    PROVE  /\ IsAcceptor(g) <=> IsAcceptor(f)
           /\ HasNoEpsilons(g) <=> HasNoEpsilons(f)
           /\ HasNoIEpsilons(g) <=> HasNoIEpsilons(f)
           /\ HasNoOEpsilons(g) <=> HasNoOEpsilons(f)
           /\ IsIDeterministic(g) <=> IsIDeterministic(f)
           /\ IsODeterministic(g) <=> IsODeterministic(f)
           /\ IsISorted(g) <=> IsISorted(f)
           /\ IsOSorted(g) <=> IsOSorted(f)
           /\ IsTopSorted(g) <=> IsTopSorted(f)
           /\ IsAcyclic(g) <=> IsAcyclic(f)
           /\ HasUnweightedCycles(g) <=> HasUnweightedCycles(f)
<1> DEFINE id == [s \in StatesOf(g) |-> s]
<1>1. Embeds(g, f, id)
  BY EmbedsSame
<1>2. Embeds(f, g, id)
  <2>1. f.trs = g.trs /\ StatesOf(f) = StatesOf(g)
    BY DEF StatesOf
  <2>2. Embeds(f, g, [s \in StatesOf(f) |-> s])
    BY <2>1, EmbedsSame
  <2> QED  BY <2>1, <2>2
<1> HIDE DEF id
<1>3. /\ IsAcceptor(g) <=> IsAcceptor(f)
      /\ HasNoEpsilons(g) <=> HasNoEpsilons(f)
      /\ HasNoIEpsilons(g) <=> HasNoIEpsilons(f)
      /\ HasNoOEpsilons(g) <=> HasNoOEpsilons(f)
  BY <1>1, <1>2, EmbeddedLabels
<1>4. /\ IsIDeterministic(g) <=> IsIDeterministic(f)
      /\ IsODeterministic(g) <=> IsODeterministic(f)
  BY <1>1, <1>2, EmbeddedDistinct
<1>5. (IsISorted(g) <=> IsISorted(f)) /\ (IsOSorted(g) <=> IsOSorted(f))
  BY <1>1, <1>2, EmbeddedSorted
<1>6. IsTopSorted(g) <=> IsTopSorted(f)
  BY <1>1, <1>2, EmbeddedTop
<1>7. /\ IsAcyclic(g) <=> IsAcyclic(f)
      /\ HasUnweightedCycles(g) <=> HasUnweightedCycles(f)
  BY <1>1, <1>2, EmbeddedCycles
<1> QED  BY <1>3, <1>4, <1>5, <1>6, <1>7

LEMMA SameReach ==
    ASSUME NEW n \in Nat, NEW f, IsMachine(f, n), NEW g, IsMachine(g, n), g.trs = f.trs,
           NEW S \in SUBSET StatesOf(f)
    PROVE  ReachFrom(g, S) = ReachFrom(f, S)
<1>1. Linked(f, n) /\ Linked(g, n) /\ StatesOf(g) = StatesOf(f)
  BY ArcIs DEF StatesOf
<1>2. \A C : Closed(g, C) <=> Closed(f, C)
  BY DEF Closed
<1>3. ReachFrom(g, S) \subseteq ReachFrom(f, S)
  BY <1>1, <1>2, ReachIs
<1>4. ReachFrom(f, S) \subseteq ReachFrom(g, S)
  BY <1>1, <1>2, ReachIs
<1> QED  BY <1>3, <1>4

\* The start does not say whether a state leads to a final one; nor the final
\* weights whether it can be reached, or lies on a cycle.
LEMMA SameReached ==
    ASSUME NEW n \in Nat, NEW f, IsMachine(f, n), NEW g, IsMachine(g, n), g.trs = f.trs
    PROVE  /\ g.final = f.final => (IsCoaccessible(g) <=> IsCoaccessible(f))
           /\ g.start = f.start => /\ IsAccessible(g) <=> IsAccessible(f)
                                   /\ IsInitialAcyclic(g) <=> IsInitialAcyclic(f)
<1>1. StatesOf(g) = StatesOf(f) /\ StatesOf(f) = 0 .. n-1
  BY ShapeStates
<1>2. \A s \in StatesOf(f) : ReachFrom(g, {s}) = ReachFrom(f, {s})
  BY SameReach
<1>3. ASSUME g.final = f.final PROVE IsCoaccessible(g) <=> IsCoaccessible(f)
  <2>1. Finals(g) = Finals(f)
    BY <1>1, <1>3 DEF Finals
  <2> QED  BY <1>1, <1>2, <2>1 DEF IsCoaccessible
<1>4. ASSUME g.start = f.start
      PROVE  /\ IsAccessible(g) <=> IsAccessible(f)
             /\ IsInitialAcyclic(g) <=> IsInitialAcyclic(f)
  <2> DEFINE S == IF f.start = None THEN {} ELSE {f.start}
  <2>1. f.start # None => f.start \in StatesOf(f)
    BY <1>1 DEF IsMachine
  <2>2. S \in SUBSET StatesOf(f)
    BY <2>1
  <2>3. ReachFrom(g, S) = ReachFrom(f, S)
    <3> HIDE DEF S
    <3> QED  BY <2>2, SameReach
  <2>4. IsAccessible(g) <=> IsAccessible(f)
    BY <1>1, <1>4, <2>3 DEF IsAccessible
  <2>5. f.start # None => /\ Nexts(g, f.start) = Nexts(f, f.start)
                          /\ Nexts(f, f.start) \in SUBSET StatesOf(f)
    BY <2>1, NextsAre DEF Nexts
  <2>6. f.start # None =>
          ReachFrom(g, Nexts(g, f.start)) = ReachFrom(f, Nexts(f, f.start))
    BY <2>5, SameReach
  <2>7. IsInitialAcyclic(g) <=> IsInitialAcyclic(f)
    BY <1>4, <2>6, PlacesAsk
  <2> QED  BY <2>4, <2>7
<1> QED  BY <1>3, <1>4

-----------------------------------------------------------------------------
(* Bits of the start and of the final weights.                             *)

LEMMA SetStartHas ==
    ASSUME NEW p, NEW q, q = SetStartProperties(p)
    PROVE  /\ \A x \in q : x = "INITIAL_ACYCLIC" \/ x \in p
           /\ "INITIAL_ACYCLIC" \in q => "ACYCLIC" \in p
           /\ "INITIAL_CYCLIC" \notin q
           /\ "ACCESSIBLE" \notin q /\ "NOT_ACCESSIBLE" \notin q
           /\ "STRING" \notin q /\ "NOT_STRING" \notin q
<1>1. \A x \in q : \/ x \in p /\ x \notin ICyc \cup Access \cup Str
                   \/ x = "INITIAL_ACYCLIC" /\ "ACYCLIC" \in p
  BY DEF SetStartProperties, SetStartMask, When
<1> QED  BY <1>1 DEF ICyc, Access, Str

LEMMA SetStartBits ==
    ASSUME NEW n \in Nat, NEW f, IsMachine(f, n), Counted(f), NEW s \in StatesOf(f),
           AllBits(f.props, f)
    PROVE  AllBits(SetStart(f, s).props, SetStart(f, s))
<1> DEFINE g == SetStart(f, s)
           p == f.props
           q == g.props
<1>1. g.trs = f.trs /\ g.final = f.final /\ q = SetStartProperties(p) /\ g.start = s
  BY DEF SetStart, IsMachine
<1>2. IsMachine(g, n)
  BY SetStartCounts
<1>3. s \in StatesOf(g)
  BY <1>1 DEF StatesOf
<1> HIDE DEF g
<1>4. \A x \in q : x = "INITIAL_ACYCLIC" \/ x \in p
  BY <1>1, SetStartHas
<1>5. LabelBits(q, g)
  BY <1>1, <1>2, <1>4, SameTrs DEF AllBits, LabelBits, Answers
<1>6. OrderBits(q, g)
  BY <1>1, <1>2, <1>4, SameTrs DEF AllBits, OrderBits, Answers
<1>7. WeightBits(q, g)
  <2>1. IsUnweighted(g) <=> IsUnweighted(f)
    BY <1>1, WeightsAsk DEF StatesOf, IsArc
  <2> QED  BY <1>4, <2>1 DEF AllBits, WeightBits, Answers
<1>8. CycleBits(q, g)
  <2>1. "ACYCLIC" \in p => IsAcyclic(g)
    BY <1>1, <1>2, SameTrs DEF AllBits, CycleBits, Answers
  <2>2. "INITIAL_ACYCLIC" \in q => IsInitialAcyclic(g)
    BY <1>1, <1>3, <2>1, SetStartHas DEF IsAcyclic, IsInitialAcyclic
  <2>3. "INITIAL_CYCLIC" \notin q
    BY <1>1, SetStartHas
  <2>4. /\ "ACYCLIC" \in q => "ACYCLIC" \in p
        /\ "CYCLIC" \in q => "CYCLIC" \in p
        /\ "UNWEIGHTED_CYCLES" \in q => "UNWEIGHTED_CYCLES" \in p
        /\ "WEIGHTED_CYCLES" \in q => "WEIGHTED_CYCLES" \in p
    BY <1>4
  <2>5. /\ IsAcyclic(g) <=> IsAcyclic(f)
        /\ HasUnweightedCycles(g) <=> HasUnweightedCycles(f)
    BY <1>1, <1>2, SameTrs
  <2> HIDE DEF p, q
  <2> QED  BY <2>2, <2>3, <2>4, <2>5 DEF AllBits, CycleBits, Answers, p
<1>9. TopBits(q, g)
  BY <1>1, <1>2, <1>4, SameTrs DEF AllBits, TopBits, Answers
<1>10. ReachBits(q, g) /\ StringBits(q, g)
  <2>1. /\ "COACCESSIBLE" \in q => "COACCESSIBLE" \in p
        /\ "NOT_COACCESSIBLE" \in q => "NOT_COACCESSIBLE" \in p
    BY <1>4
  <2>2. IsCoaccessible(g) <=> IsCoaccessible(f)
    BY <1>1, <1>2, SameReached
  <2> QED  BY <1>1, <2>1, <2>2, SetStartHas DEF AllBits, ReachBits, StringBits, Answers
<1> QED  BY <1>5, <1>6, <1>7, <1>8, <1>9, <1>10 DEF AllBits, g

LEMMA SetFinalHas ==
    ASSUME NEW p, NEW old, NEW new, NEW q, q = SetFinalProperties(p, old, new)
    PROVE  /\ \A x \in q : x = "WEIGHTED" \/ x \in p
           /\ "WEIGHTED" \in q => \/ new # None /\ ~ Trivial(new)
                                  \/ "WEIGHTED" \in p /\ ~ (old # None /\ ~ Trivial(old))
           /\ "UNWEIGHTED" \in q => "UNWEIGHTED" \in p /\ ~ (new # None /\ ~ Trivial(new))
           /\ "COACCESSIBLE" \notin q /\ "NOT_COACCESSIBLE" \notin q
           /\ "STRING" \notin q /\ "NOT_STRING" \notin q
<1>1. \A x \in q : x \in Reweighed(p, old, new) /\ x \notin Coaccess \cup Str
  BY DEF SetFinalProperties, SetFinalMask, Wtd, Coaccess, Str
<1>2. \A x \in Reweighed(p, old, new) : x = "WEIGHTED" \/ x \in p
  BY DEF Reweighed
<1>3. "WEIGHTED" \in Reweighed(p, old, new) =>
        \/ new # None /\ ~ Trivial(new)
        \/ "WEIGHTED" \in p /\ ~ (old # None /\ ~ Trivial(old))
  BY DEF Reweighed
<1>4. "UNWEIGHTED" \in Reweighed(p, old, new) =>
        "UNWEIGHTED" \in p /\ ~ (new # None /\ ~ Trivial(new))
  BY DEF Reweighed
<1> QED  BY <1>1, <1>2, <1>3, <1>4 DEF Coaccess, Str

LEMMA SetFinalBits ==
    ASSUME NEW n \in Nat, NEW f, IsMachine(f, n), Counted(f), NEW s \in StatesOf(f),
           NEW w \in FinalWeights \cup {None}, AllBits(f.props, f)
    PROVE  AllBits(SetFinal(f, s, w).props, SetFinal(f, s, w))
<1> DEFINE g == SetFinal(f, s, w)
           p == f.props
           q == g.props
<1>0. StatesOf(f) = 0 .. n-1
  BY ShapeStates
<1>1. /\ g.trs = f.trs /\ g.final = [f.final EXCEPT ![s] = w] /\ g.start = f.start
      /\ q = SetFinalProperties(p, f.final[s], w)
  BY DEF SetFinal, IsMachine
<1>2. IsMachine(g, n)
  BY SetFinalCounts
<1>3. StatesOf(g) = StatesOf(f)
  BY <1>1 DEF StatesOf
<1> HIDE DEF g
<1>4. \A x \in q : x = "WEIGHTED" \/ x \in p
  BY <1>1, SetFinalHas
<1>5. LabelBits(q, g)
  BY <1>1, <1>2, <1>4, SameTrs DEF AllBits, LabelBits, Answers
<1>6. OrderBits(q, g)
  BY <1>1, <1>2, <1>4, SameTrs DEF AllBits, OrderBits, Answers
<1>7. WeightBits(q, g)
  <2>1. \A r \in StatesOf(f) : g.final[r] = IF r = s THEN w ELSE f.final[r]
    BY <1>0, <1>1 DEF IsMachine
  <2>2. (\A r, i : IsArc(g, r, i) => Trivial(g.trs[r][i].w)) <=>
        (\A r, i : IsArc(f, r, i) => Trivial(f.trs[r][i].w))
    BY <1>1, <1>3 DEF IsArc
  <2>3. IsUnweighted(g) <=> /\ \A r, i : IsArc(f, r, i) => Trivial(f.trs[r][i].w)
                            /\ \A r \in StatesOf(f) : g.final[r] # None => Trivial(g.final[r])
    BY <1>3, <2>2, WeightsAsk
  <2>4. IsUnweighted(f) /\ ~ (w # None /\ ~ Trivial(w)) => IsUnweighted(g)
    BY <2>1, <2>3, WeightsAsk
  <2>5. w # None /\ ~ Trivial(w) => ~ IsUnweighted(g)
    BY <2>1, <2>3
  <2>6. ~ IsUnweighted(f) /\ ~ (f.final[s] # None /\ ~ Trivial(f.final[s])) =>
          ~ IsUnweighted(g)
    BY <2>1, <2>3, WeightsAsk
  <2> QED  BY <1>1, <2>4, <2>5, <2>6, SetFinalHas DEF AllBits, WeightBits, Answers
<1>8. CycleBits(q, g)
  BY <1>1, <1>2, <1>4, SameTrs, SameReached DEF AllBits, CycleBits, Answers
<1>9. TopBits(q, g)
  BY <1>1, <1>2, <1>4, SameTrs DEF AllBits, TopBits, Answers
<1>10. ReachBits(q, g) /\ StringBits(q, g)
  <2>1. /\ "ACCESSIBLE" \in q => "ACCESSIBLE" \in p
        /\ "NOT_ACCESSIBLE" \in q => "NOT_ACCESSIBLE" \in p
    BY <1>4
  <2>2. IsAccessible(g) <=> IsAccessible(f)
    BY <1>1, <1>2, SameReached
  <2> QED  BY <1>1, <2>1, <2>2, SetFinalHas DEF AllBits, ReachBits, StringBits, Answers
<1> QED  BY <1>5, <1>6, <1>7, <1>8, <1>9, <1>10 DEF AllBits, g

-----------------------------------------------------------------------------
(* Bits of added states: nothing leads to them, and they lead nowhere.     *)

LEMMA AddStatesAre ==
    ASSUME NEW n \in Nat, NEW f, IsMachine(f, n), NEW k \in Nat, NEW g, g = AddStates(f, k)
    PROVE  /\ g.start = f.start /\ g.props = AddStateProperties(f.props)
           /\ \A s \in 0 .. n+k-1 : /\ g.trs[s] = IF s < n THEN f.trs[s] ELSE <<>>
                                    /\ g.final[s] = IF s < n THEN f.final[s] ELSE None
<1>1. NumStates(f) = n
  BY ShapeStates
<1>2. /\ g.start = f.start /\ g.props = AddStateProperties(f.props)
      /\ g.trs = [s \in 0 .. n+k-1 |-> IF s < n THEN f.trs[s] ELSE <<>>]
      /\ g.final = [s \in 0 .. n+k-1 |-> IF s < n THEN f.final[s] ELSE None]
  BY <1>1 DEF AddStates, IsMachine
<1>3. \A s \in 0 .. n+k-1 : g.trs[s] = IF s < n THEN f.trs[s] ELSE <<>>
  BY <1>2
<1>4. \A s \in 0 .. n+k-1 : g.final[s] = IF s < n THEN f.final[s] ELSE None
  BY <1>2
<1> QED  BY <1>2, <1>3, <1>4

LEMMA AddStatesEmbeds ==
    ASSUME NEW n \in Nat, NEW f, IsMachine(f, n), NEW k \in Nat, NEW g, g = AddStates(f, k),
           IsMachine(g, n + k)
    PROVE  /\ Embeds(f, g, [s \in StatesOf(f) |-> s])
           /\ Embeds(g, f, [s \in StatesOf(g) |-> s])
<1>1. StatesOf(f) = 0 .. n-1 /\ StatesOf(g) = 0 .. n+k-1 /\ n + k \in Nat
  BY ShapeStates
<1>2. \A s \in 0 .. n+k-1 : g.trs[s] = IF s < n THEN f.trs[s] ELSE <<>>
  BY AddStatesAre
<1>3. ASSUME NEW r, NEW i
      PROVE  /\ IsArc(f, r, i) => IsArc(g, r, i) /\ g.trs[r][i] = f.trs[r][i]
             /\ IsArc(g, r, i) => IsArc(f, r, i) /\ f.trs[r][i] = g.trs[r][i]
  <2>1. CASE r \in 0 .. n-1
    BY <1>1, <1>2, <2>1 DEF IsArc
  <2>2. CASE r \in 0 .. n+k-1 /\ r \notin 0 .. n-1
    <3>1. g.trs[r] = <<>>
      BY <1>2, <2>2
    <3> QED  BY <1>1, <2>2, <3>1 DEF IsArc
  <2> QED  BY <1>1, <2>1, <2>2 DEF IsArc
<1> QED  BY <1>1, <1>3, SubmachineEmbeds

LEMMA AddStateHas ==
    ASSUME NEW p, NEW q, q = AddStateProperties(p)
    PROVE  /\ \A x \in q : x \in p
           /\ "ACCESSIBLE" \notin q /\ "COACCESSIBLE" \notin q /\ "STRING" \notin q
BY DEF AddStateProperties, AddStateMask

LEMMA AddStatesBits ==
    ASSUME NEW n \in Nat, NEW f, IsMachine(f, n), Counted(f), NEW k \in Nat,
           AllBits(f.props, f)
    PROVE  AllBits(AddStates(f, k).props, AddStates(f, k))
<1> DEFINE g == AddStates(f, k)
           p == f.props
           q == g.props
           in == [s \in StatesOf(f) |-> s]
           out == [s \in StatesOf(g) |-> s]
<1>1. /\ g.start = f.start /\ q = AddStateProperties(p)
      /\ \A s \in 0 .. n+k-1 : /\ g.trs[s] = IF s < n THEN f.trs[s] ELSE <<>>
                               /\ g.final[s] = IF s < n THEN f.final[s] ELSE None
  BY AddStatesAre
<1>2. n + k \in Nat /\ IsMachine(g, n + k)
  BY AddStatesCounts
<1>3. /\ StatesOf(f) = 0 .. n-1 /\ StatesOf(g) = 0 .. n+k-1
      /\ StatesOf(f) \subseteq StatesOf(g) /\ NumStates(g) = n + k
  BY <1>2, ShapeStates
<1>4. Embeds(f, g, in) /\ Embeds(g, f, out)
  BY <1>2, AddStatesEmbeds
<1>5. (\A s \in StatesOf(f) : in[s] = s) /\ (\A s \in StatesOf(g) : out[s] = s)
  OBVIOUS
<1> HIDE DEF g, in, out
<1>6. \A s \in StatesOf(g) : g.final[s] = IF s \in StatesOf(f) THEN f.final[s] ELSE None
  BY <1>1, <1>3
<1>7. \A x \in q : x \in p
  BY <1>1, AddStateHas
<1>8. LabelBits(q, g)
  BY <1>4, <1>7, EmbeddedLabels DEF AllBits, LabelBits, Answers
<1>9. OrderBits(q, g)
  BY <1>2, <1>4, <1>7, EmbeddedDistinct, EmbeddedSorted DEF AllBits, OrderBits, Answers
<1>10. WeightBits(q, g)
  <2>1. IsUnweighted(f) => IsUnweighted(g)
    BY <1>4, <1>5, <1>6, EmbeddedWeights
  <2>2. IsUnweighted(g) => IsUnweighted(f)
    BY <1>3, <1>4, <1>5, <1>6, EmbeddedWeights
  <2> QED  BY <1>7, <2>1, <2>2 DEF AllBits, WeightBits, Answers
<1>11. CycleBits(q, g)
  <2>1. /\ IsAcyclic(f) <=> IsAcyclic(g)
        /\ HasUnweightedCycles(f) <=> HasUnweightedCycles(g)
    BY <1>2, <1>4, EmbeddedCycles
  <2>2. f.start # None => f.start \in StatesOf(f)
    BY <1>3 DEF IsMachine
  <2>3. IsInitialAcyclic(f) => IsInitialAcyclic(g)
    BY <1>1, <1>2, <1>3, <1>4, <1>5, <2>2, EmbeddedInitial
  <2>4. IsInitialAcyclic(g) => IsInitialAcyclic(f)
    BY <1>1, <1>2, <1>3, <1>4, <1>5, <2>2, EmbeddedInitial
  <2> QED  BY <1>7, <2>1, <2>3, <2>4 DEF AllBits, CycleBits, Answers
<1>12. TopBits(q, g)
  BY <1>2, <1>4, <1>7, EmbeddedTop DEF AllBits, TopBits, Answers
<1>13. \A S \in SUBSET StatesOf(f) : ReachFrom(g, S) \subseteq ReachFrom(f, S)
  <2> TAKE S \in SUBSET StatesOf(f)
  <2>1. S \in SUBSET StatesOf(g) /\ \A s \in S : out[s] \in S
    BY <1>3, <1>5
  <2>2. \A u \in ReachFrom(g, S) : u \in StatesOf(g) /\ out[u] \in ReachFrom(f, S)
    BY <1>2, <1>4, <2>1, EmbeddedReach
  <2> QED  BY <1>5, <2>2
<1>14. ReachBits(q, g)
  <2>1. ASSUME IsAccessible(g) PROVE IsAccessible(f)
    <3> DEFINE S == IF f.start = None THEN {} ELSE {f.start}
    <3>1. S \in SUBSET StatesOf(f)
      BY <1>3 DEF IsMachine
    <3>2. StatesOf(g) = ReachFrom(g, S)
      BY <1>1, <2>1 DEF IsAccessible
    <3>3. ReachFrom(g, S) \subseteq ReachFrom(f, S)
      BY <1>13, <3>1
    <3>4. ReachFrom(f, S) \subseteq StatesOf(f)
      <4> HIDE DEF S
      <4> QED  BY <3>1, ArcIs, ReachIs
    <3>5. StatesOf(f) = ReachFrom(f, S)
      BY <1>3, <3>2, <3>3, <3>4
    <3> QED  BY <3>5 DEF IsAccessible
  <2>2. ASSUME IsCoaccessible(g) PROVE IsCoaccessible(f)
    <3>1. Finals(g) \subseteq Finals(f)
      BY <1>6 DEF Finals
    <3>2. ASSUME NEW s \in StatesOf(f) PROVE ReachFrom(f, {s}) \cap Finals(f) # {}
      <4>1. ReachFrom(g, {s}) \cap Finals(g) # {}
        BY <1>3, <2>2 DEF IsCoaccessible
      <4>2. ReachFrom(g, {s}) \subseteq ReachFrom(f, {s})
        BY <1>13
      <4> QED  BY <3>1, <4>1, <4>2
    <3> QED  BY <3>2 DEF IsCoaccessible
  <2>3. "ACCESSIBLE" \notin q /\ "COACCESSIBLE" \notin q
    BY <1>1, AddStateHas
  <2> QED  BY <1>7, <2>1, <2>2, <2>3 DEF AllBits, ReachBits, Answers
<1>15. StringBits(q, g)
  <2>1. ASSUME IsString(g) PROVE IsString(f)
    <3>1. CASE k = 0
      <4>1. g.trs = f.trs /\ g.final = f.final
        BY <1>1, <1>2, <3>1 DEF IsMachine
      <4> QED  BY <1>1, <4>1, <2>1 DEF IsString, StatesOf, NumStates, Finals
    <3>2. CASE k # 0
      <4>1. n + k - 1 \in StatesOf(g) /\ n + k - 1 \notin StatesOf(f)
        BY <1>3, <3>2
      <4>2. n + k - 1 \notin Finals(g)
        BY <1>6, <4>1 DEF Finals
      <4> QED  BY <1>3, <2>1, <4>1, <4>2 DEF IsString
    <3> QED  BY <3>1, <3>2
  <2>2. "STRING" \notin q
    BY <1>1, AddStateHas
  <2> QED  BY <1>7, <2>1, <2>2 DEF AllBits, StringBits, Answers
<1> QED  BY <1>8, <1>9, <1>10, <1>11, <1>12, <1>14, <1>15 DEF AllBits, g

-----------------------------------------------------------------------------
(* Bits of an added transition.                                            *)

LEMMA ReplacedIs ==
    ASSUME NEW n \in Nat, NEW f, IsMachine(f, n), NEW s \in StatesOf(f), NEW X, NEW Y, NEW p,
           NEW g, g = Replaced(f, s, X, Y, p)
    PROVE  /\ g.start = f.start /\ g.final = f.final /\ g.props = p
           /\ StatesOf(g) = StatesOf(f)
           /\ \A r \in StatesOf(f) : g.trs[r] = IF r = s THEN X ELSE f.trs[r]
<1>1. g = [start |-> f.start, trs |-> [f.trs EXCEPT ![s] = X], final |-> f.final,
           eps |-> [f.eps EXCEPT ![s] = Y], props |-> p]
  BY ExceptAt
<1>2. StatesOf(f) = 0 .. n-1
  BY ShapeStates
<1>3. g.trs = [f.trs EXCEPT ![s] = X] /\ DOMAIN f.trs = 0 .. n-1
  BY <1>1 DEF IsMachine
<1> QED  BY <1>1, <1>2, <1>3 DEF StatesOf

LEMMA AddTrArcs ==
    ASSUME NEW n \in Nat, NEW f, IsMachine(f, n), Counted(f), NEW s \in StatesOf(f),
           NEW t \in Tr(n), NEW g, g = AddTr(f, s, t), NEW last, last = Len(f.trs[s]) + 1
    PROVE  /\ g.start = f.start /\ g.final = f.final /\ StatesOf(g) = StatesOf(f)
           /\ g.props = AddTrProperties(f.props, s, t, LastOf(f.trs[s]))
           /\ \A r, i : IsArc(g, r, i) <=> IsArc(f, r, i) \/ (r = s /\ i = last)
           /\ \A r, i : IsArc(f, r, i) => g.trs[r][i] = f.trs[r][i]
           /\ g.trs[s][last] = t
<1> DEFINE X == Append(f.trs[s], t)
<1>1. /\ X \in Seq(Tr(n))
      /\ g = Replaced(f, s, X, [side \in Sides |-> EpsIn(X, side)],
                      AddTrProperties(f.props, s, t, LastOf(f.trs[s])))
  BY AddTrIs
<1>2. f.trs[s] \in Seq(Tr(n))
  BY ArcIs
<1>3. /\ Len(f.trs[s]) \in Nat /\ Len(X) = last /\ X[last] = t
      /\ DOMAIN f.trs[s] = 1 .. Len(f.trs[s]) /\ DOMAIN X = 1 .. last
      /\ \A i \in DOMAIN f.trs[s] : X[i] = f.trs[s][i]
  BY <1>2, AppendProperties, AppendKeeps
<1> HIDE DEF X
<1>4. /\ g.start = f.start /\ g.final = f.final /\ StatesOf(g) = StatesOf(f)
      /\ g.props = AddTrProperties(f.props, s, t, LastOf(f.trs[s]))
      /\ \A r \in StatesOf(f) : g.trs[r] = IF r = s THEN X ELSE f.trs[r]
  BY <1>1, ReplacedIs
<1>5. ASSUME NEW r, NEW i
      PROVE  IsArc(g, r, i) <=> IsArc(f, r, i) \/ (r = s /\ i = last)
  <2>1. i \in 1 .. last <=> i \in 1 .. Len(f.trs[s]) \/ i = last
    BY <1>3
  <2> QED  BY <1>3, <1>4, <2>1 DEF IsArc
<1>6. ASSUME NEW r, NEW i, IsArc(f, r, i)
      PROVE  g.trs[r][i] = f.trs[r][i]
  BY <1>3, <1>4, <1>6 DEF IsArc
<1>7. g.trs[s][last] = t
  BY <1>3, <1>4
<1> QED  BY <1>4, <1>5, <1>6, <1>7

LEMMA WitnessedHas ==
    ASSUME NEW s, NEW t, NEW prev, NEW x
    PROVE  x \in Witnessed(s, t, prev) <=>
             \/ x = "NOT_ACCEPTOR" /\ t.il # t.ol
             \/ x = "I_EPSILONS" /\ t.il = Eps
             \/ x = "O_EPSILONS" /\ t.ol = Eps
             \/ x = "EPSILONS" /\ t.il = Eps /\ t.ol = Eps
             \/ x = "NOT_I_LABEL_SORTED" /\ prev # <<>> /\ prev[1].il > t.il
             \/ x = "NOT_O_LABEL_SORTED" /\ prev # <<>> /\ prev[1].ol > t.ol
             \/ x = "WEIGHTED" /\ ~ Trivial(t.w)
             \/ x = "NOT_TOP_SORTED" /\ t.ns <= s
BY Zenon DEF Witnessed, When

LEMMA OppositeHas ==
    ASSUME NEW w, NEW x
    PROVE  x \in Opposite(w) <=>
             \/ x = "ACCEPTOR" /\ "NOT_ACCEPTOR" \in w
             \/ x = "NO_I_EPSILONS" /\ "I_EPSILONS" \in w
             \/ x = "NO_O_EPSILONS" /\ "O_EPSILONS" \in w
             \/ x = "NO_EPSILONS" /\ "EPSILONS" \in w
             \/ x = "I_LABEL_SORTED" /\ "NOT_I_LABEL_SORTED" \in w
             \/ x = "O_LABEL_SORTED" /\ "NOT_O_LABEL_SORTED" \in w
             \/ x = "UNWEIGHTED" /\ "WEIGHTED" \in w
             \/ x = "TOP_SORTED" /\ "NOT_TOP_SORTED" \in w
BY Zenon DEF Opposite, When

LEMMA LearntHas ==
    ASSUME NEW p, NEW w, NEW x
    PROVE  x \in Learnt(p, w) <=>
             /\ x \in p \/ x \in w
             /\ x \notin Opposite(w)
             /\ x \in AddArcMask \cup NoEps \cup {"ACCEPTOR", "I_LABEL_SORTED",
                                                  "O_LABEL_SORTED", "UNWEIGHTED", "TOP_SORTED"}
BY DEF Learnt

LEMMA AddTrHas ==
    ASSUME NEW p, NEW s, NEW t, NEW prev, NEW q, q = AddTrProperties(p, s, t, prev)
    PROVE  /\ "ACCEPTOR" \in q => "ACCEPTOR" \in p /\ t.il = t.ol
           /\ "NOT_ACCEPTOR" \in q => "NOT_ACCEPTOR" \in p \/ t.il # t.ol
           /\ "NO_EPSILONS" \in q => "NO_EPSILONS" \in p /\ (t.il # Eps \/ t.ol # Eps)
           /\ "EPSILONS" \in q => "EPSILONS" \in p \/ (t.il = Eps /\ t.ol = Eps)
           /\ "NO_I_EPSILONS" \in q => "NO_I_EPSILONS" \in p /\ t.il # Eps
           /\ "I_EPSILONS" \in q => "I_EPSILONS" \in p \/ t.il = Eps
           /\ "NO_O_EPSILONS" \in q => "NO_O_EPSILONS" \in p /\ t.ol # Eps
           /\ "O_EPSILONS" \in q => "O_EPSILONS" \in p \/ t.ol = Eps
           /\ "I_LABEL_SORTED" \in q =>
                "I_LABEL_SORTED" \in p /\ ~ (prev # <<>> /\ prev[1].il > t.il)
           /\ "NOT_I_LABEL_SORTED" \in q =>
                "NOT_I_LABEL_SORTED" \in p \/ (prev # <<>> /\ prev[1].il > t.il)
           /\ "O_LABEL_SORTED" \in q =>
                "O_LABEL_SORTED" \in p /\ ~ (prev # <<>> /\ prev[1].ol > t.ol)
           /\ "NOT_O_LABEL_SORTED" \in q =>
                "NOT_O_LABEL_SORTED" \in p \/ (prev # <<>> /\ prev[1].ol > t.ol)
           /\ "UNWEIGHTED" \in q => "UNWEIGHTED" \in p /\ Trivial(t.w)
           /\ "WEIGHTED" \in q => "WEIGHTED" \in p \/ ~ Trivial(t.w)
           /\ "TOP_SORTED" \in q => "TOP_SORTED" \in p /\ ~ (t.ns <= s)
           /\ "NOT_TOP_SORTED" \in q => "NOT_TOP_SORTED" \in p \/ t.ns <= s
           /\ \A x \in {"NOT_I_DETERMINISTIC", "NOT_O_DETERMINISTIC", "CYCLIC",
                        "INITIAL_CYCLIC", "WEIGHTED_CYCLES", "ACCESSIBLE", "COACCESSIBLE"} :
                x \in q => x \in p
           /\ \A x \in {"ACYCLIC", "INITIAL_ACYCLIC"} : x \in q => "TOP_SORTED" \in q
           /\ \A x \in {"I_DETERMINISTIC", "O_DETERMINISTIC", "UNWEIGHTED_CYCLES",
                        "NOT_ACCESSIBLE", "NOT_COACCESSIBLE", "STRING", "NOT_STRING"} :
                x \notin q
<1> DEFINE w == Witnessed(s, t, prev)
           l == Learnt(p, w)
<1>1. \A x : x \in q <=> x \in l \/ (x \in Acyc /\ "TOP_SORTED" \in l)
  BY DEF AddTrProperties, AcyclicIfSorted, When
<1> HIDE DEF l
<1>2. \A x : x \notin Acyc => (x \in q <=> x \in l)
  BY <1>1
<1>3. \A x : x \in l => (x \in p \/ x \in w) /\ x \notin Opposite(w)
  BY LearntHas DEF l
<1>4. \A x : x \in l => x \notin {"I_DETERMINISTIC", "O_DETERMINISTIC", "UNWEIGHTED_CYCLES",
                                  "NOT_ACCESSIBLE", "NOT_COACCESSIBLE", "STRING", "NOT_STRING",
                                  "ACYCLIC", "INITIAL_ACYCLIC"}
  BY LearntHas DEF l, AddArcMask, NoEps, HasEps, NotDetSorted
<1>5. /\ "NOT_ACCEPTOR" \in w <=> t.il # t.ol
      /\ "EPSILONS" \in w <=> t.il = Eps /\ t.ol = Eps
      /\ "I_EPSILONS" \in w <=> t.il = Eps
      /\ "O_EPSILONS" \in w <=> t.ol = Eps
      /\ "NOT_I_LABEL_SORTED" \in w <=> prev # <<>> /\ prev[1].il > t.il
      /\ "NOT_O_LABEL_SORTED" \in w <=> prev # <<>> /\ prev[1].ol > t.ol
      /\ "WEIGHTED" \in w <=> ~ Trivial(t.w)
      /\ "NOT_TOP_SORTED" \in w <=> t.ns <= s
  BY WitnessedHas
<1>6. \A x \in {"ACCEPTOR", "NO_EPSILONS", "NO_I_EPSILONS", "NO_O_EPSILONS", "I_LABEL_SORTED",
                "O_LABEL_SORTED", "UNWEIGHTED", "TOP_SORTED", "NOT_I_DETERMINISTIC",
                "NOT_O_DETERMINISTIC", "CYCLIC", "INITIAL_CYCLIC", "WEIGHTED_CYCLES",
                "ACCESSIBLE", "COACCESSIBLE"} : x \notin w
  BY WitnessedHas
<1>7. /\ "ACCEPTOR" \in Opposite(w) <=> "NOT_ACCEPTOR" \in w
      /\ "NO_EPSILONS" \in Opposite(w) <=> "EPSILONS" \in w
      /\ "NO_I_EPSILONS" \in Opposite(w) <=> "I_EPSILONS" \in w
      /\ "NO_O_EPSILONS" \in Opposite(w) <=> "O_EPSILONS" \in w
      /\ "I_LABEL_SORTED" \in Opposite(w) <=> "NOT_I_LABEL_SORTED" \in w
      /\ "O_LABEL_SORTED" \in Opposite(w) <=> "NOT_O_LABEL_SORTED" \in w
      /\ "UNWEIGHTED" \in Opposite(w) <=> "WEIGHTED" \in w
      /\ "TOP_SORTED" \in Opposite(w) <=> "NOT_TOP_SORTED" \in w
  BY OppositeHas
<1> HIDE DEF w
<1>8. \A x : x \in Acyc <=> x \in {"ACYCLIC", "INITIAL_ACYCLIC"}
  BY DEF Acyc
<1>9. /\ "ACCEPTOR" \in q => "ACCEPTOR" \in p /\ t.il = t.ol
      /\ "NOT_ACCEPTOR" \in q => "NOT_ACCEPTOR" \in p \/ t.il # t.ol
  BY <1>2, <1>3, <1>5, <1>6, <1>7, <1>8
<1>10. /\ "NO_EPSILONS" \in q => "NO_EPSILONS" \in p /\ (t.il # Eps \/ t.ol # Eps)
       /\ "EPSILONS" \in q => "EPSILONS" \in p \/ (t.il = Eps /\ t.ol = Eps)
  BY <1>2, <1>3, <1>5, <1>6, <1>7, <1>8
<1>11. /\ "NO_I_EPSILONS" \in q => "NO_I_EPSILONS" \in p /\ t.il # Eps
       /\ "I_EPSILONS" \in q => "I_EPSILONS" \in p \/ t.il = Eps
       /\ "NO_O_EPSILONS" \in q => "NO_O_EPSILONS" \in p /\ t.ol # Eps
       /\ "O_EPSILONS" \in q => "O_EPSILONS" \in p \/ t.ol = Eps
  BY <1>2, <1>3, <1>5, <1>6, <1>7, <1>8
<1>12. /\ "I_LABEL_SORTED" \in q =>
            "I_LABEL_SORTED" \in p /\ ~ (prev # <<>> /\ prev[1].il > t.il)
       /\ "NOT_I_LABEL_SORTED" \in q =>
            "NOT_I_LABEL_SORTED" \in p \/ (prev # <<>> /\ prev[1].il > t.il)
  BY <1>2, <1>3, <1>5, <1>6, <1>7, <1>8
<1>13. /\ "O_LABEL_SORTED" \in q =>
            "O_LABEL_SORTED" \in p /\ ~ (prev # <<>> /\ prev[1].ol > t.ol)
       /\ "NOT_O_LABEL_SORTED" \in q =>
            "NOT_O_LABEL_SORTED" \in p \/ (prev # <<>> /\ prev[1].ol > t.ol)
  BY <1>2, <1>3, <1>5, <1>6, <1>7, <1>8
<1>14. /\ "UNWEIGHTED" \in q => "UNWEIGHTED" \in p /\ Trivial(t.w)
       /\ "WEIGHTED" \in q => "WEIGHTED" \in p \/ ~ Trivial(t.w)
       /\ "TOP_SORTED" \in q => "TOP_SORTED" \in p /\ ~ (t.ns <= s)
       /\ "NOT_TOP_SORTED" \in q => "NOT_TOP_SORTED" \in p \/ t.ns <= s
  BY <1>2, <1>3, <1>5, <1>6, <1>7, <1>8
<1>15. \A x \in {"NOT_I_DETERMINISTIC", "NOT_O_DETERMINISTIC", "CYCLIC",
                 "INITIAL_CYCLIC", "WEIGHTED_CYCLES", "ACCESSIBLE", "COACCESSIBLE"} :
         x \in q => x \in p
  BY <1>2, <1>3, <1>6, <1>8
<1>16. \A x \in {"ACYCLIC", "INITIAL_ACYCLIC"} : x \in q => "TOP_SORTED" \in q
  BY <1>1, <1>4
<1>17. \A x \in {"I_DETERMINISTIC", "O_DETERMINISTIC", "UNWEIGHTED_CYCLES",
                 "NOT_ACCESSIBLE", "NOT_COACCESSIBLE", "STRING", "NOT_STRING"} : x \notin q
  BY <1>2, <1>4, <1>8
<1> QED  BY <1>9, <1>10, <1>11, <1>12, <1>13, <1>14, <1>15, <1>16, <1>17

LEMMA LastIs ==
    ASSUME NEW T, NEW ts \in Seq(T)
    PROVE  /\ LastOf(ts) # <<>> <=> Len(ts) > 0
           /\ LastOf(ts) # <<>> => LastOf(ts)[1] = ts[Len(ts)]
<1>1. ts = <<>> <=> Len(ts) = 0
  BY EmptySeq
<1>2. Len(ts) \in Nat
  OBVIOUS
<1>3. \A x : <<x>> # <<>> /\ <<x>>[1] = x
  OBVIOUS
<1> QED  BY <1>1, <1>2, <1>3 DEF LastOf

LEMMA AddTrBits ==
    ASSUME NEW n \in Nat, NEW f, IsMachine(f, n), Counted(f), NEW s \in StatesOf(f),
           NEW t \in Tr(n), AllBits(f.props, f)
    PROVE  AllBits(AddTr(f, s, t).props, AddTr(f, s, t))
<1> DEFINE g == AddTr(f, s, t)
           p == f.props
           q == g.props
           prev == LastOf(f.trs[s])
           last == Len(f.trs[s]) + 1
           old == [r \in StatesOf(f) |-> r]
<1>1. /\ g.start = f.start /\ g.final = f.final /\ StatesOf(g) = StatesOf(f)
      /\ q = AddTrProperties(p, s, t, prev)
      /\ \A r, i : IsArc(g, r, i) <=> IsArc(f, r, i) \/ (r = s /\ i = last)
      /\ \A r, i : IsArc(f, r, i) => g.trs[r][i] = f.trs[r][i]
      /\ g.trs[s][last] = t
  BY AddTrArcs
<1>2. IsMachine(g, n)
  BY AddTrCounts
<1>3. /\ f.trs[s] \in Seq(Tr(n)) /\ Len(f.trs[s]) \in Nat
      /\ DOMAIN f.trs[s] = 1 .. Len(f.trs[s])
  <2>1. f.trs[s] \in Seq(Tr(n))
    BY ArcIs
  <2> QED  BY <2>1
<1>4. /\ prev # <<>> <=> Len(f.trs[s]) > 0
      /\ prev # <<>> => prev[1] = f.trs[s][Len(f.trs[s])]
  BY <1>3, LastIs
<1> HIDE DEF g, prev
<1>5. Embeds(f, g, old) /\ \A r \in StatesOf(f) : old[r] = r
  BY <1>1, <1>2, SubmachineEmbeds
<1> HIDE DEF old
<1>6. IsArc(g, s, last)
  BY <1>1
<1>7. LabelBits(q, g)
  <2>1. /\ IsAcceptor(g) => IsAcceptor(f)
        /\ HasNoEpsilons(g) => HasNoEpsilons(f)
        /\ HasNoIEpsilons(g) => HasNoIEpsilons(f)
        /\ HasNoOEpsilons(g) => HasNoOEpsilons(f)
    BY <1>5, EmbeddedLabels
  <2>2. /\ IsAcceptor(g) => t.il = t.ol
        /\ HasNoEpsilons(g) => t.il # Eps \/ t.ol # Eps
        /\ HasNoIEpsilons(g) => t.il # Eps
        /\ HasNoOEpsilons(g) => t.ol # Eps
    BY <1>1, <1>6, LabelsAsk
  <2>3. /\ IsAcceptor(f) /\ t.il = t.ol => IsAcceptor(g)
        /\ HasNoEpsilons(f) /\ (t.il # Eps \/ t.ol # Eps) => HasNoEpsilons(g)
        /\ HasNoIEpsilons(f) /\ t.il # Eps => HasNoIEpsilons(g)
        /\ HasNoOEpsilons(f) /\ t.ol # Eps => HasNoOEpsilons(g)
    <3>1. \A r, i : IsArc(g, r, i) =>
            (IsArc(f, r, i) /\ g.trs[r][i] = f.trs[r][i]) \/ g.trs[r][i] = t
      BY <1>1
    <3>2. IsAcceptor(f) /\ t.il = t.ol => IsAcceptor(g)
      BY <3>1, LabelsAsk
    <3>3. HasNoEpsilons(f) /\ (t.il # Eps \/ t.ol # Eps) => HasNoEpsilons(g)
      BY <3>1, LabelsAsk
    <3>4. HasNoIEpsilons(f) /\ t.il # Eps => HasNoIEpsilons(g)
      BY <3>1, LabelsAsk
    <3>5. HasNoOEpsilons(f) /\ t.ol # Eps => HasNoOEpsilons(g)
      BY <3>1, LabelsAsk
    <3> QED  BY <3>2, <3>3, <3>4, <3>5
  <2> QED  BY <1>1, <2>1, <2>2, <2>3, AddTrHas DEF AllBits, LabelBits, Answers
<1>8. OrderBits(q, g)
  <2>1. /\ IsIDeterministic(g) => IsIDeterministic(f)
        /\ IsODeterministic(g) => IsODeterministic(f)
        /\ IsISorted(g) => IsISorted(f)
        /\ IsOSorted(g) => IsOSorted(f)
    BY <1>2, <1>5, EmbeddedDistinct, EmbeddedSorted
  <2>2. /\ t.il \in Nat /\ t.ol \in Nat
        /\ prev # <<>> => prev[1].il \in Nat /\ prev[1].ol \in Nat
    <3>1. prev # <<>> => IsArc(f, s, Len(f.trs[s]))
      BY <1>3, <1>4 DEF IsArc
    <3>2. prev # <<>> => prev[1].il \in Nat /\ prev[1].ol \in Nat
      BY <1>4, <3>1, ArcIs
    <3>3. t.il \in Nat /\ t.ol \in Nat
      BY <1>1, <1>2, <1>6, ArcIs
    <3> QED  BY <3>2, <3>3
  <2>3. prev # <<>> => last > 1 /\ g.trs[s][last - 1] = prev[1]
    <3>1. prev # <<>> => IsArc(f, s, Len(f.trs[s]))
      BY <1>3, <1>4 DEF IsArc
    <3>2. last - 1 = Len(f.trs[s])
      BY <1>3
    <3> QED  BY <1>1, <1>3, <1>4, <3>1, <3>2
  <2>4. /\ IsISorted(g) => ~ (prev # <<>> /\ prev[1].il > t.il)
        /\ IsOSorted(g) => ~ (prev # <<>> /\ prev[1].ol > t.ol)
    <3>1. prev # <<>> =>
            /\ IsISorted(g) => prev[1].il <= t.il
            /\ IsOSorted(g) => prev[1].ol <= t.ol
      BY <1>1, <1>6, <2>3, OrderAsks
    <3> QED  BY <2>2, <3>1
  <2>5. ASSUME NEW r, NEW i, IsArc(g, r, i), i > 1
        PROVE  /\ IsISorted(f) /\ ~ (prev # <<>> /\ prev[1].il > t.il) =>
                    g.trs[r][i - 1].il <= g.trs[r][i].il
               /\ IsOSorted(f) /\ ~ (prev # <<>> /\ prev[1].ol > t.ol) =>
                    g.trs[r][i - 1].ol <= g.trs[r][i].ol
    <3>1. CASE IsArc(f, r, i)
      <4>1. IsArc(f, r, i - 1)
        BY <2>5, <3>1, ArcIs DEF IsArc
      <4>2. g.trs[r][i] = f.trs[r][i] /\ g.trs[r][i - 1] = f.trs[r][i - 1]
        BY <1>1, <3>1, <4>1
      <4>3. /\ IsISorted(f) => f.trs[r][i - 1].il <= f.trs[r][i].il
            /\ IsOSorted(f) => f.trs[r][i - 1].ol <= f.trs[r][i].ol
        BY <2>5, <3>1, OrderAsks
      <4> QED  BY <4>2, <4>3
    <3>2. CASE r = s /\ i = last
      <4>1. prev # <<>>
        BY <1>3, <1>4, <2>5, <3>2
      <4>2. g.trs[r][i - 1] = prev[1] /\ g.trs[r][i] = t
        BY <1>1, <2>3, <3>2, <4>1
      <4>3. /\ ~ (prev[1].il > t.il) => prev[1].il <= t.il
            /\ ~ (prev[1].ol > t.ol) => prev[1].ol <= t.ol
        BY <2>2, <4>1
      <4> QED  BY <4>1, <4>2, <4>3
    <3> QED  BY <1>1, <2>5, <3>1, <3>2
  <2>6. /\ IsISorted(f) /\ ~ (prev # <<>> /\ prev[1].il > t.il) => IsISorted(g)
        /\ IsOSorted(f) /\ ~ (prev # <<>> /\ prev[1].ol > t.ol) => IsOSorted(g)
    BY <2>5, OrderAsks
  <2> QED  BY <1>1, <2>1, <2>4, <2>6, AddTrHas DEF AllBits, OrderBits, Answers
<1>9. WeightBits(q, g)
  <2>1. /\ \A r, i : IsArc(g, r, i) =>
             (IsArc(f, r, i) /\ g.trs[r][i] = f.trs[r][i]) \/ g.trs[r][i] = t
        /\ \A r, i : IsArc(f, r, i) => IsArc(g, r, i) /\ g.trs[r][i] = f.trs[r][i]
        /\ IsArc(g, s, last) /\ g.trs[s][last] = t
    BY <1>1, <1>6
  <2>2. IsUnweighted(f) /\ Trivial(t.w) => IsUnweighted(g)
    BY <1>1, <2>1, WeightsAsk
  <2>3. IsUnweighted(g) => Trivial(t.w)
    BY <2>1, WeightsAsk
  <2>4. IsUnweighted(g) => IsUnweighted(f)
    BY <1>1, <2>1, WeightsAsk
  <2> QED  BY <1>1, <2>2, <2>3, <2>4, AddTrHas DEF AllBits, WeightBits, Answers
<1>10. TopBits(q, g)
  <2>1. IsTopSorted(g) <=> IsTopSorted(f) /\ t.ns > s
    <3>1. /\ \A r, i : IsArc(g, r, i) =>
               \/ IsArc(f, r, i) /\ g.trs[r][i] = f.trs[r][i]
               \/ r = s /\ g.trs[r][i] = t
          /\ \A r, i : IsArc(f, r, i) => IsArc(g, r, i) /\ g.trs[r][i] = f.trs[r][i]
          /\ IsArc(g, s, last) /\ g.trs[s][last] = t
      BY <1>1, <1>6
    <3>2. IsTopSorted(f) /\ t.ns > s => IsTopSorted(g)
      BY <3>1, PlacesAsk
    <3>3. IsTopSorted(g) => t.ns > s
      BY <3>1, PlacesAsk
    <3>4. IsTopSorted(g) => IsTopSorted(f)
      BY <3>1, PlacesAsk
    <3> QED  BY <3>2, <3>3, <3>4
  <2>2. t.ns > s <=> ~ (t.ns <= s)
    <3>1. s \in 0 .. n-1 /\ t.ns \in 0 .. n-1
      BY ShapeStates DEF Tr
    <3> QED  BY <3>1
  <2> QED  BY <1>1, <2>1, <2>2, AddTrHas DEF AllBits, TopBits, Answers
<1>11. CycleBits(q, g)
  <2>1. /\ IsAcyclic(g) => IsAcyclic(f)
        /\ HasUnweightedCycles(g) => HasUnweightedCycles(f)
    BY <1>2, <1>5, EmbeddedCycles
  <2>2. IsInitialAcyclic(g) => IsInitialAcyclic(f)
    <3>1. f.start # None => f.start \in StatesOf(f) /\ g.start = old[f.start]
      BY <1>1, ShapeStates DEF IsMachine, old
    <3> QED  BY <1>2, <1>5, <3>1, EmbeddedInitial
  <2>3. "TOP_SORTED" \in q => IsAcyclic(g) /\ IsInitialAcyclic(g)
    BY <1>2, <1>10, TopAcyclic DEF TopBits, Answers
  <2>4. /\ \A x \in {"CYCLIC", "INITIAL_CYCLIC", "WEIGHTED_CYCLES"} : x \in q => x \in p
        /\ \A x \in {"ACYCLIC", "INITIAL_ACYCLIC"} : x \in q => "TOP_SORTED" \in q
        /\ "UNWEIGHTED_CYCLES" \notin q
    BY <1>1, AddTrHas
  <2> QED  BY <2>1, <2>2, <2>3, <2>4 DEF AllBits, CycleBits, Answers
<1>12. ReachBits(q, g) /\ StringBits(q, g)
  <2>1. (IsAccessible(f) => IsAccessible(g)) /\ (IsCoaccessible(f) => IsCoaccessible(g))
    BY <1>1, <1>2, <1>5, SubmachineReached
  <2>2. /\ \A x \in {"ACCESSIBLE", "COACCESSIBLE"} : x \in q => x \in p
        /\ \A x \in {"NOT_ACCESSIBLE", "NOT_COACCESSIBLE", "STRING", "NOT_STRING"} : x \notin q
    BY <1>1, AddTrHas
  <2> QED  BY <2>1, <2>2 DEF AllBits, ReachBits, StringBits, Answers
<1> QED  BY <1>7, <1>8, <1>9, <1>10, <1>11, <1>12 DEF AllBits, g

LEMMA SetTrsBits ==
    ASSUME NEW n \in Nat, NEW f, IsMachine(f, n), Counted(f), NEW s \in StatesOf(f),
           f.trs[s] = <<>>, NEW t \in Tr(n), NEW u \in Tr(n), AllBits(f.props, f)
    PROVE  AllBits(SetTrs(f, s, <<t, u>>).props, SetTrs(f, s, <<t, u>>))
<1> DEFINE g == AddTr(f, s, t)
<1>1. IsMachine(g, n) /\ Counted(g) /\ AllBits(g.props, g)
  BY AddTrCounts, AddTrBits
<1>2. s \in StatesOf(g)
  BY <1>1, ShapeStates
<1> HIDE DEF g
<1>3. AllBits(AddTr(g, s, u).props, AddTr(g, s, u))
  BY <1>1, <1>2, AddTrBits
<1>4. SetTrs(f, s, <<t, u>>) = AddTr(g, s, u)
  BY SetTrsIsTwo DEF g
<1> QED  BY <1>3, <1>4

-----------------------------------------------------------------------------
(* Bits of what is left after a deletion.                                  *)

LEMMA DeleteHas ==
    /\ DeleteArcsMask = {"ACCEPTOR", "UNWEIGHTED", "TOP_SORTED", "UNWEIGHTED_CYCLES",
         "I_DETERMINISTIC", "O_DETERMINISTIC", "I_LABEL_SORTED", "O_LABEL_SORTED",
         "NO_EPSILONS", "NO_I_EPSILONS", "NO_O_EPSILONS", "ACYCLIC", "INITIAL_ACYCLIC",
         "NOT_ACCESSIBLE", "NOT_COACCESSIBLE"}
    /\ \A x \in DeleteStatesMask : /\ x \in DeleteArcsMask
                                   /\ x # "NOT_ACCESSIBLE" /\ x # "NOT_COACCESSIBLE"
BY DEF DeleteArcsMask, DeleteStatesMask, DetSorted, NoEps, Acyc

\* A machine inside another keeps every answer of DeleteArcsMask but those about reach.
LEMMA SmallerBits ==
    ASSUME NEW m \in Nat, NEW g, IsMachine(g, m), NEW n \in Nat, NEW f, IsMachine(f, n),
           NEW old, Embeds(g, f, old),
           g.start # None => g.start \in StatesOf(g) /\ f.start = old[g.start],
           \A s \in StatesOf(g) : g.final[s] # None =>
             old[s] \in StatesOf(f) /\ f.final[old[s]] = g.final[s],
           NEW p, AllBits(p, f), NEW q, \A x \in q : x \in p /\ x \in DeleteArcsMask
    PROVE  /\ LabelBits(q, g) /\ OrderBits(q, g) /\ WeightBits(q, g)
           /\ CycleBits(q, g) /\ TopBits(q, g) /\ StringBits(q, g)
           /\ "ACCESSIBLE" \notin q /\ "COACCESSIBLE" \notin q
<1>1. LabelBits(q, g)
  <2>1. \A x \in {"NOT_ACCEPTOR", "EPSILONS", "I_EPSILONS", "O_EPSILONS"} : x \notin q
    BY DeleteHas
  <2> QED  BY <2>1, EmbeddedLabels DEF AllBits, LabelBits, Answers
<1>2. OrderBits(q, g)
  <2>1. \A x \in {"NOT_I_DETERMINISTIC", "NOT_O_DETERMINISTIC",
                  "NOT_I_LABEL_SORTED", "NOT_O_LABEL_SORTED"} : x \notin q
    BY DeleteHas
  <2> QED  BY <2>1, EmbeddedDistinct, EmbeddedSorted DEF AllBits, OrderBits, Answers
<1>3. WeightBits(q, g)
  <2>1. "WEIGHTED" \notin q
    BY DeleteHas
  <2> QED  BY <2>1, EmbeddedWeights DEF AllBits, WeightBits, Answers
<1>4. CycleBits(q, g)
  <2>1. \A x \in {"CYCLIC", "INITIAL_CYCLIC", "WEIGHTED_CYCLES"} : x \notin q
    BY DeleteHas
  <2> QED  BY <2>1, EmbeddedCycles, EmbeddedInitial DEF AllBits, CycleBits, Answers
<1>5. TopBits(q, g)
  <2>1. "NOT_TOP_SORTED" \notin q
    BY DeleteHas
  <2> QED  BY <2>1, EmbeddedTop DEF AllBits, TopBits, Answers
<1>6. "STRING" \notin q /\ "NOT_STRING" \notin q
      /\ "ACCESSIBLE" \notin q /\ "COACCESSIBLE" \notin q
  BY DeleteHas
<1> QED  BY <1>1, <1>2, <1>3, <1>4, <1>5, <1>6 DEF StringBits, Answers

\* Transitions of a machine go, its states stay.
LEMMA FewerArcsBits ==
    ASSUME NEW n \in Nat, NEW g, IsMachine(g, n), NEW f, IsMachine(f, n),
           NEW old, Embeds(g, f, old), \A s \in StatesOf(g) : old[s] = s,
           g.start = f.start, g.final = f.final,
           NEW p, AllBits(p, f), NEW q, \A x \in q : x \in p /\ x \in DeleteArcsMask
    PROVE  AllBits(q, g)
<1>1. StatesOf(g) = StatesOf(f) /\ (g.start # None => g.start \in StatesOf(g))
  BY ShapeStates DEF IsMachine
<1>2. /\ g.start # None => g.start \in StatesOf(g) /\ f.start = old[g.start]
      /\ \A s \in StatesOf(g) : g.final[s] # None =>
           old[s] \in StatesOf(f) /\ f.final[old[s]] = g.final[s]
  BY <1>1
<1>3. /\ LabelBits(q, g) /\ OrderBits(q, g) /\ WeightBits(q, g)
      /\ CycleBits(q, g) /\ TopBits(q, g) /\ StringBits(q, g)
      /\ "ACCESSIBLE" \notin q /\ "COACCESSIBLE" \notin q
  BY <1>2, SmallerBits
<1>4. (IsAccessible(g) => IsAccessible(f)) /\ (IsCoaccessible(g) => IsCoaccessible(f))
  BY SubmachineReached
<1>5. ReachBits(q, g)
  BY <1>3, <1>4 DEF AllBits, ReachBits, Answers
<1> QED  BY <1>3, <1>5 DEF AllBits

LEMMA DeleteTrsBits ==
    ASSUME NEW n \in Nat, NEW f, IsMachine(f, n), Counted(f), NEW s \in StatesOf(f),
           AllBits(f.props, f)
    PROVE  AllBits(DeleteTrs(f, s).props, DeleteTrs(f, s))
<1> DEFINE g == DeleteTrs(f, s)
           old == [r \in StatesOf(g) |-> r]
<1>1. g = Replaced(f, s, <<>>, NoEpsCounted, DeleteTrsProperties(f.props))
  BY DEF DeleteTrs, Replaced
<1>2. IsMachine(g, n)
  BY DeleteTrsCounts
<1> HIDE DEF g
<1>3. /\ g.start = f.start /\ g.final = f.final /\ g.props = DeleteTrsProperties(f.props)
      /\ StatesOf(g) = StatesOf(f)
      /\ \A r \in StatesOf(f) : g.trs[r] = IF r = s THEN <<>> ELSE f.trs[r]
  BY <1>1, ReplacedIs
<1>4. ASSUME NEW r, NEW i, IsArc(g, r, i)
      PROVE  IsArc(f, r, i) /\ f.trs[r][i] = g.trs[r][i]
  <2>1. DOMAIN <<>> = {}
    OBVIOUS
  <2> QED  BY <1>3, <1>4, <2>1 DEF IsArc
<1>5. Embeds(g, f, old) /\ \A r \in StatesOf(g) : old[r] = r
  BY <1>2, <1>4, SubmachineEmbeds
<1>6. \A x \in g.props : x \in f.props /\ x \in DeleteArcsMask
  BY <1>3 DEF DeleteTrsProperties
<1> HIDE DEF old
<1>7. AllBits(g.props, g)
  BY <1>2, <1>3, <1>5, <1>6, FewerArcsBits
<1> QED  BY <1>7 DEF g

LEMMA DelTrsIdBits ==
    ASSUME NEW n \in Nat, NEW f, IsMachine(f, n), Counted(f), NEW s \in StatesOf(f),
           NEW del \in SUBSET DOMAIN f.trs[s], AllBits(f.props, f)
    PROVE  AllBits(DelTrsId(f, s, del).props, DelTrsId(f, s, del))
<1> DEFINE g == DelTrsId(f, s, del)
           ts == f.trs[s]
           I == DOMAIN ts \ del
           left == Keep(ts, I)
           Y == [side \in Sides |-> f.eps[s][side] - EpsIn(Keep(ts, del), side)]
           q == IF left = <<>> THEN DeleteTrsProperties(f.props)
                ELSE f.props \cap (DeleteArcsMask \ Acyc)
           old == [r \in StatesOf(f) |-> r]
<1>1. StatesOf(f) = 0 .. n-1 /\ \A r \in StatesOf(f) : old[r] = r
  BY ShapeStates
<1>2. g = Replaced(f, s, left, Y, q)
  BY <1>1 DEF DelTrsId, Replaced, IsMachine
<1>3. IsMachine(g, n)
  BY DelTrsIdCounts
<1>4. ts \in Seq(Tr(n)) /\ I \in SUBSET DOMAIN ts
  BY ArcIs
<1>5. \A x \in q : x \in f.props /\ x \in DeleteArcsMask
  BY DEF DeleteTrsProperties
<1> HIDE DEF g, I, Y, q
<1>6. IsFiniteSet(I) /\ I \in SUBSET Nat
  BY <1>4, KeepType
<1>7. PICK pos : /\ Places(pos, I)
                 /\ left = [k \in 1 .. Cardinality(I) |-> ts[pos[k]]]
  BY <1>6, KeepPlaces
<1>8. Cardinality(I) \in Nat
  BY <1>6, KeepPlaces
<1> HIDE DEF left
<1>9. /\ DOMAIN left = 1 .. Cardinality(I)
      /\ \A k \in DOMAIN left : left[k] = ts[pos[k]] /\ pos[k] \in DOMAIN ts
      /\ \A k, l \in DOMAIN left : k < l => pos[k] < pos[l]
      /\ pos \in [DOMAIN left -> DOMAIN ts]
  BY <1>4, <1>7 DEF Places
<1>10. /\ g.start = f.start /\ g.final = f.final /\ g.props = q
       /\ StatesOf(g) = StatesOf(f)
       /\ \A r \in StatesOf(f) : g.trs[r] = IF r = s THEN left ELSE f.trs[r]
  BY <1>2, ReplacedIs
<1> HIDE DEF old
<1>11. \A r \in StatesOf(f) : \A i \in DOMAIN f.trs[r] : f.trs[r][i].ns \in StatesOf(f)
  BY ArcIs DEF IsArc
<1>12. ArcsEmbed(left, ts, old, pos)
  <2>1. \A k \in DOMAIN left : old[left[k].ns] = left[k].ns
    BY <1>1, <1>9, <1>11
  <2> HIDE DEF ts
  <2> QED  BY <1>9, <2>1 DEF ArcsEmbed
<1>13. ASSUME NEW r \in StatesOf(f), r # s
       PROVE  ArcsEmbed(f.trs[r], f.trs[r], old, [i \in DOMAIN f.trs[r] |-> i])
  BY <1>1, <1>11 DEF ArcsEmbed
<1>14. \A r \in StatesOf(f) : \E at : ArcsEmbed(g.trs[r], f.trs[r], old, at)
  <2> TAKE r \in StatesOf(f)
  <2>1. CASE r = s
    BY <1>10, <1>12, <2>1
  <2>2. CASE r # s
    BY <1>10, <1>13, <2>2
  <2> QED  BY <2>1, <2>2
<1>15. Embeds(g, f, old)
  <2>1. \A r \in StatesOf(g) : DOMAIN g.trs[r] # {} =>
          /\ old[r] \in StatesOf(f)
          /\ \E at : ArcsEmbed(g.trs[r], f.trs[old[r]], old, at)
    BY <1>1, <1>10, <1>14
  <2>2. (\A r \in StatesOf(g) : old[r] \in Nat)
        /\ (\A r, u \in StatesOf(g) : r < u => old[r] < old[u])
    BY <1>1, <1>10
  <2> QED  BY <2>1, <2>2 DEF Embeds
<1>16. AllBits(q, g)
  BY <1>1, <1>3, <1>5, <1>10, <1>15, FewerArcsBits
<1> QED  BY <1>10, <1>16 DEF g

-----------------------------------------------------------------------------
(* Bits of the machine without states.                                     *)

LEMMA NewBits == AllBits(NewFst.props, NewFst)
<1> DEFINE g == NewFst
           q == g.props
<1>1. g.start = None /\ g.trs = <<>> /\ q = NullProperties
  BY DEF NewFst
<1>2. IsMachine(g, 0)
  BY NewShape
<1>3. StatesOf(g) = {} /\ Linked(g, 0)
  BY <1>1, <1>2, ArcIs, ShapeStates
<1> HIDE DEF g
<1>4. \A x \in q : x \in {"ACCEPTOR", "UNWEIGHTED", "TOP_SORTED", "ACCESSIBLE",
        "COACCESSIBLE", "STRING", "UNWEIGHTED_CYCLES", "I_DETERMINISTIC", "O_DETERMINISTIC",
        "I_LABEL_SORTED", "O_LABEL_SORTED", "NO_EPSILONS", "NO_I_EPSILONS", "NO_O_EPSILONS",
        "ACYCLIC", "INITIAL_ACYCLIC"}
  BY <1>1 DEF NullProperties, DetSorted, NoEps, Acyc
<1>5. \A s, i : ~ IsArc(g, s, i)
  BY <1>3 DEF IsArc
<1>6. LabelBits(q, g)
  BY <1>4, <1>5, LabelsAsk DEF LabelBits, Answers
<1>7. OrderBits(q, g)
  BY <1>4, <1>5, OrderAsks DEF OrderBits, Answers
<1>8. WeightBits(q, g)
  BY <1>3, <1>4, <1>5, WeightsAsk DEF WeightBits, Answers
<1>9. CycleBits(q, g) /\ TopBits(q, g)
  BY <1>1, <1>3, <1>4, <1>5, PlacesAsk DEF CycleBits, TopBits, Answers
<1>10. ReachBits(q, g)
  <2>1. IsAccessible(g)
    <3>1. ReachFrom(g, {}) = {}
      BY <1>3, ReachNothing
    <3> QED  BY <1>1, <1>3, <3>1 DEF IsAccessible
  <2>2. IsCoaccessible(g)
    BY <1>3 DEF IsCoaccessible
  <2> QED  BY <1>4, <2>1, <2>2 DEF ReachBits, Answers
<1>11. StringBits(q, g)
  BY <1>3, <1>4 DEF IsString, StringBits, Answers
<1> QED  BY <1>6, <1>7, <1>8, <1>9, <1>10, <1>11 DEF AllBits, g

\* What is kept of a state's transitions, moved down, is a part of them.
LEMMA MovedEmbeds ==
    ASSUME NEW n \in Nat, NEW ts \in Seq(Tr(n)), NEW kept \in SUBSET (0 .. n-1),
           NEW old, \A s \in kept : old[NewId(kept, s)] = s
    PROVE  \E at : ArcsEmbed(Moved(Keep(ts, Into(ts, kept)), kept), ts, old, at)
<1> DEFINE I == Into(ts, kept)
           us == Keep(ts, I)
           vs == Moved(us, kept)
<1>1. I \in SUBSET DOMAIN ts /\ \A i \in I : ts[i].ns \in kept /\ ts[i] \in Tr(n)
  BY DEF Into
<1> HIDE DEF I
<1>2. IsFiniteSet(I) /\ I \in SUBSET Nat
  BY <1>1, KeepType
<1>3. PICK pos : /\ Places(pos, I)
                 /\ us = [k \in 1 .. Cardinality(I) |-> ts[pos[k]]]
  BY <1>2, KeepPlaces
<1>4. Cardinality(I) \in Nat
  BY <1>2, KeepPlaces
<1> HIDE DEF us
<1>5. /\ DOMAIN us = 1 .. Cardinality(I)
      /\ \A k \in DOMAIN us : us[k] = ts[pos[k]] /\ pos[k] \in I /\ pos[k] \in DOMAIN ts
      /\ \A k, l \in DOMAIN us : k < l => pos[k] < pos[l]
      /\ pos \in [DOMAIN us -> DOMAIN ts]
  BY <1>1, <1>3 DEF Places
<1>6. DOMAIN vs = DOMAIN us /\ \A k \in DOMAIN us :
        vs[k] = [us[k] EXCEPT !.ns = NewId(kept, us[k].ns)]
  BY DEF Moved
<1> HIDE DEF vs
<1>7. \A k \in DOMAIN vs : /\ ts[pos[k]].il = vs[k].il
                           /\ ts[pos[k]].ol = vs[k].ol
                           /\ ts[pos[k]].w = vs[k].w
                           /\ ts[pos[k]].ns = old[vs[k].ns]
  <2> TAKE k \in DOMAIN vs
  <2> DEFINE t == ts[pos[k]]
  <2>1. t \in Tr(n) /\ t.ns \in kept
    BY <1>1, <1>5, <1>6
  <2>2. vs[k] = [t EXCEPT !.ns = NewId(kept, t.ns)]
    BY <1>5, <1>6
  <2> HIDE DEF t
  <2>3. vs[k].il = t.il /\ vs[k].ol = t.ol /\ vs[k].w = t.w /\ vs[k].ns = NewId(kept, t.ns)
    BY <2>1, <2>2 DEF Tr
  <2>4. old[vs[k].ns] = t.ns
    BY <2>1, <2>3
  <2> QED  BY <2>3, <2>4 DEF t
<1>8. ArcsEmbed(vs, ts, old, pos)
  BY <1>5, <1>6, <1>7 DEF ArcsEmbed
<1> QED  BY <1>8 DEF vs, us, I

LEMMA DelStatesBits ==
    ASSUME NEW n \in Nat, NEW f, IsMachine(f, n), Counted(f),
           NEW gone \in SUBSET StatesOf(f), AllBits(f.props, f)
    PROVE  AllBits(DelStates(f, gone).props, DelStates(f, gone))
<1> DEFINE kept == StatesOf(f) \ gone
           m == Cardinality(kept)
           g == DelStates(f, gone)
           old == [k \in 0 .. m-1 |-> OldId(kept, k)]
           left(k) == Moved(Keep(f.trs[OldId(kept, k)],
                                 Into(f.trs[OldId(kept, k)], kept)), kept)
           epsLeft(k) == [side \in Sides |->
              f.eps[OldId(kept, k)][side]
                - EpsIn(Keep(f.trs[OldId(kept, k)], Into(f.trs[OldId(kept, k)], gone)), side)]
<1>1. StatesOf(f) = 0 .. n-1 /\ kept \in SUBSET (0 .. n-1) /\ kept \in SUBSET Nat
  BY ShapeStates
<1>2. m \in 0 .. n /\ IsMachine(g, m)
  BY DelStatesCounts
<1>3. IsFiniteSet(kept)
  <2>1. IsFiniteSet(0 .. n-1)
    BY BelowFinite
  <2> HIDE DEF kept
  <2> QED  BY <1>1, <2>1, FS_Subset
<1>4. g = [start |-> IF f.start \in kept THEN NewId(kept, f.start) ELSE None,
           trs   |-> [k \in 0 .. m-1 |-> left(k)],
           final |-> [k \in 0 .. m-1 |-> f.final[OldId(kept, k)]],
           eps   |-> [k \in 0 .. m-1 |-> epsLeft(k)],
           props |-> DeleteStatesProperties(f.props)]
  BY DelStatesIs, Zenon
<1>5. StatesOf(g) = 0 .. m-1
  BY <1>2, ShapeStates
<1> HIDE DEF g, m
<1>6. /\ \A s \in kept : NewId(kept, s) \in 0 .. m-1
      /\ \A s, t \in kept : s < t => NewId(kept, s) < NewId(kept, t)
      /\ \A k \in 0 .. m-1 : OldId(kept, k) \in kept /\ NewId(kept, OldId(kept, k)) = k
      /\ \A s \in kept : OldId(kept, NewId(kept, s)) = s
  <2> HIDE DEF kept
  <2> QED  BY <1>1, <1>3, Renumbering DEF m
<1>7. /\ \A k \in 0 .. m-1 : old[k] = OldId(kept, k) /\ old[k] \in kept
      /\ \A s \in kept : old[NewId(kept, s)] = s
  <2> HIDE DEF kept
  <2> QED  BY <1>6
<1>8. \A k \in 0 .. m-1 : g.trs[k] = left(k) /\ g.final[k] = f.final[OldId(kept, k)]
  <2> HIDE DEF left, epsLeft, kept
  <2>1. g.trs = [k \in 0 .. m-1 |-> left(k)]
        /\ g.final = [k \in 0 .. m-1 |-> f.final[OldId(kept, k)]]
    BY <1>4
  <2> QED  BY <2>1
<1>9. /\ g.start = (IF f.start \in kept THEN NewId(kept, f.start) ELSE None)
      /\ g.props = DeleteStatesProperties(f.props)
  <2> HIDE DEF left, epsLeft, kept
  <2> QED  BY <1>4
<1> HIDE DEF old
<1>10. \A k, l \in 0 .. m-1 : k < l => old[k] < old[l]
  <2> TAKE k, l \in 0 .. m-1
  <2>1. /\ old[k] \in kept /\ old[l] \in kept
        /\ NewId(kept, old[k]) = k /\ NewId(kept, old[l]) = l
    BY <1>6, <1>7
  <2>2. old[k] \in Nat /\ old[l] \in Nat
    BY <1>1, <2>1
  <2>3. old[l] < old[k] => l < k
    <3>1. \A s, t \in kept : s < t => NewId(kept, s) < NewId(kept, t)
      BY <1>6
    <3> QED  BY <2>1, <3>1
  <2>4. old[l] = old[k] => l = k
    BY <2>1
  <2> HIDE DEF kept
  <2> QED  BY <2>2, <2>3, <2>4
<1>11. ASSUME NEW k \in 0 .. m-1
       PROVE  /\ old[k] \in StatesOf(f)
              /\ \E at : ArcsEmbed(g.trs[k], f.trs[old[k]], old, at)
  <2> DEFINE ts == f.trs[old[k]]
  <2>1. old[k] \in StatesOf(f) /\ old[k] = OldId(kept, k)
    BY <1>7
  <2>2. ts \in Seq(Tr(n))
    BY <2>1, ArcIs
  <2>3. g.trs[k] = Moved(Keep(ts, Into(ts, kept)), kept)
    BY <1>8, <2>1
  <2> HIDE DEF ts, kept
  <2>4. \E at : ArcsEmbed(Moved(Keep(ts, Into(ts, kept)), kept), ts, old, at)
    BY <1>1, <1>7, <2>2, MovedEmbeds
  <2> QED  BY <2>1, <2>3, <2>4 DEF ts
<1>12. Embeds(g, f, old)
  <2>1. \A k \in 0 .. m-1 : old[k] \in Nat
    BY <1>1, <1>7
  <2> QED  BY <1>5, <1>10, <1>11, <2>1 DEF Embeds
<1>13. g.start # None => g.start \in StatesOf(g) /\ f.start = old[g.start]
  <2> HIDE DEF kept
  <2> QED  BY <1>5, <1>6, <1>7, <1>9
<1>14. \A k \in StatesOf(g) : g.final[k] # None =>
         old[k] \in StatesOf(f) /\ f.final[old[k]] = g.final[k]
  BY <1>5, <1>7, <1>8
<1>15. \A x \in g.props : /\ x \in f.props /\ x \in DeleteArcsMask
                          /\ x # "NOT_ACCESSIBLE" /\ x # "NOT_COACCESSIBLE"
  BY <1>9, DeleteHas DEF DeleteStatesProperties
<1>16. /\ LabelBits(g.props, g) /\ OrderBits(g.props, g) /\ WeightBits(g.props, g)
       /\ CycleBits(g.props, g) /\ TopBits(g.props, g) /\ StringBits(g.props, g)
       /\ "ACCESSIBLE" \notin g.props /\ "COACCESSIBLE" \notin g.props
  <2>1. m \in Nat
    BY <1>2
  <2>2. \A x \in g.props : x \in f.props /\ x \in DeleteArcsMask
    BY <1>15
  <2> HIDE DEF kept
  <2> QED  BY <1>2, <1>12, <1>13, <1>14, <2>1, <2>2, SmallerBits
<1>17. ReachBits(g.props, g)
  BY <1>15, <1>16 DEF ReachBits, Answers
<1>18. AllBits(g.props, g)
  BY <1>16, <1>17 DEF AllBits
<1> QED  BY <1>18 DEF g

-----------------------------------------------------------------------------
(* Bits of a machine one of whose transitions is set in place.             *)

\* What a rewritten transition, old before and new after, lets bits p become.
LabelRule(p, q, old, new) ==
    /\ "ACCEPTOR" \in q => "ACCEPTOR" \in p /\ new.il = new.ol
    /\ "NOT_ACCEPTOR" \in q => new.il # new.ol \/ ("NOT_ACCEPTOR" \in p /\ old.il = old.ol)
    /\ "NO_EPSILONS" \in q => "NO_EPSILONS" \in p /\ (new.il # Eps \/ new.ol # Eps)
    /\ "EPSILONS" \in q => \/ new.il = Eps /\ new.ol = Eps
                           \/ "EPSILONS" \in p /\ (old.il # Eps \/ old.ol # Eps)
    /\ "NO_I_EPSILONS" \in q => "NO_I_EPSILONS" \in p /\ new.il # Eps
    /\ "I_EPSILONS" \in q => new.il = Eps \/ ("I_EPSILONS" \in p /\ old.il # Eps)
    /\ "NO_O_EPSILONS" \in q => "NO_O_EPSILONS" \in p /\ new.ol # Eps
    /\ "O_EPSILONS" \in q => new.ol = Eps \/ ("O_EPSILONS" \in p /\ old.ol # Eps)
WeightRule(p, q, old, new) ==
    /\ "UNWEIGHTED" \in q => "UNWEIGHTED" \in p /\ Trivial(new.w)
    /\ "WEIGHTED" \in q => ~ Trivial(new.w) \/ ("WEIGHTED" \in p /\ Trivial(old.w))

\* g is f but for the transition at place i of state s, which is t.
Differs(g, f, s, i, t) ==
    /\ IsArc(f, s, i) /\ g.final = f.final /\ StatesOf(g) = StatesOf(f)
    /\ \A r, j : IsArc(g, r, j) <=> IsArc(f, r, j)
    /\ \A r, j : IsArc(f, r, j) => g.trs[r][j] = IF r = s /\ j = i THEN t ELSE f.trs[r][j]

LEMMA RelabelledHas ==
    ASSUME NEW p, NEW s, NEW old, NEW new, NEW q, q = Relabelled(p, s, old, new)
    PROVE  /\ LabelRule(p, q, old, new)
           /\ \A x \in {"WEIGHTED", "UNWEIGHTED"} : x \in q => x \in p
<1> DEFINE v == Witnessed(s, old, <<>>)
           w == Witnessed(s, new, <<>>)
           n == w \cap LabelNames
<1>1. \A x : x \in q <=> /\ (x \in p /\ x \notin v \cap LabelNames) \/ x \in n
                        /\ x \notin Opposite(n)
  BY DEF Relabelled
<1>2. \A x : x \in LabelNames <=> x \in {"NOT_ACCEPTOR", "EPSILONS", "I_EPSILONS", "O_EPSILONS"}
  BY DEF LabelNames, HasEps
<1>3. /\ "NOT_ACCEPTOR" \in w <=> new.il # new.ol
      /\ "EPSILONS" \in w <=> new.il = Eps /\ new.ol = Eps
      /\ "I_EPSILONS" \in w <=> new.il = Eps
      /\ "O_EPSILONS" \in w <=> new.ol = Eps
  BY WitnessedHas
<1>4. /\ "NOT_ACCEPTOR" \in v <=> old.il # old.ol
      /\ "EPSILONS" \in v <=> old.il = Eps /\ old.ol = Eps
      /\ "I_EPSILONS" \in v <=> old.il = Eps
      /\ "O_EPSILONS" \in v <=> old.ol = Eps
  BY WitnessedHas
<1>5. /\ "ACCEPTOR" \in Opposite(n) <=> "NOT_ACCEPTOR" \in n
      /\ "NO_EPSILONS" \in Opposite(n) <=> "EPSILONS" \in n
      /\ "NO_I_EPSILONS" \in Opposite(n) <=> "I_EPSILONS" \in n
      /\ "NO_O_EPSILONS" \in Opposite(n) <=> "O_EPSILONS" \in n
  BY OppositeHas
<1>6. \A x : x \in n <=> x \in w /\ x \in LabelNames
  OBVIOUS
<1> HIDE DEF v, w, n
<1>7. /\ "ACCEPTOR" \in q => "ACCEPTOR" \in p /\ new.il = new.ol
      /\ "NOT_ACCEPTOR" \in q => new.il # new.ol \/ ("NOT_ACCEPTOR" \in p /\ old.il = old.ol)
  BY <1>1, <1>2, <1>3, <1>4, <1>5, <1>6
<1>8. /\ "NO_EPSILONS" \in q => "NO_EPSILONS" \in p /\ (new.il # Eps \/ new.ol # Eps)
      /\ "EPSILONS" \in q => \/ new.il = Eps /\ new.ol = Eps
                             \/ "EPSILONS" \in p /\ (old.il # Eps \/ old.ol # Eps)
  BY <1>1, <1>2, <1>3, <1>4, <1>5, <1>6
<1>9. /\ "NO_I_EPSILONS" \in q => "NO_I_EPSILONS" \in p /\ new.il # Eps
      /\ "I_EPSILONS" \in q => new.il = Eps \/ ("I_EPSILONS" \in p /\ old.il # Eps)
  BY <1>1, <1>2, <1>3, <1>4, <1>5, <1>6
<1>10. /\ "NO_O_EPSILONS" \in q => "NO_O_EPSILONS" \in p /\ new.ol # Eps
       /\ "O_EPSILONS" \in q => new.ol = Eps \/ ("O_EPSILONS" \in p /\ old.ol # Eps)
  BY <1>1, <1>2, <1>3, <1>4, <1>5, <1>6
<1>11. \A x \in {"WEIGHTED", "UNWEIGHTED"} : x \in q => x \in p
  BY <1>1, <1>2, <1>6
<1> QED  BY <1>7, <1>8, <1>9, <1>10, <1>11 DEF LabelRule

LEMMA ReweighedHas ==
    ASSUME NEW p, NEW old, NEW new, new # None, old # None, NEW q, q = Reweighed(p, old, new)
    PROVE  /\ \A x \in q : x = "WEIGHTED" \/ x \in p
           /\ "UNWEIGHTED" \in q => "UNWEIGHTED" \in p /\ Trivial(new)
           /\ "WEIGHTED" \in q => ~ Trivial(new) \/ ("WEIGHTED" \in p /\ Trivial(old))
BY DEF Reweighed

\* What is not rewritten obeys the rule.
LEMMA KeptRules ==
    ASSUME NEW f, NEW s, NEW i, IsArc(f, s, i), NEW old, old = f.trs[s][i],
           NEW p, AllBits(p, f), NEW q, \A x \in q : x \in p \/ x = "WEIGHTED", NEW new
    PROVE  /\ new.il = old.il /\ new.ol = old.ol => LabelRule(p, q, old, new)
           /\ new.w = old.w /\ ("WEIGHTED" \in q => "WEIGHTED" \in p) => WeightRule(p, q, old, new)
<1>1. /\ "ACCEPTOR" \in p => old.il = old.ol
      /\ "NO_EPSILONS" \in p => old.il # Eps \/ old.ol # Eps
      /\ "NO_I_EPSILONS" \in p => old.il # Eps
      /\ "NO_O_EPSILONS" \in p => old.ol # Eps
  BY LabelsAsk DEF AllBits, LabelBits, Answers
<1>2. "UNWEIGHTED" \in p => Trivial(old.w)
  BY WeightsAsk DEF AllBits, WeightBits, Answers
<1>3. \A x \in {"ACCEPTOR", "NOT_ACCEPTOR", "NO_EPSILONS", "EPSILONS", "NO_I_EPSILONS",
                "I_EPSILONS", "NO_O_EPSILONS", "O_EPSILONS", "UNWEIGHTED"} : x \in q => x \in p
  OBVIOUS
<1>4. ASSUME new.il = old.il, new.ol = old.ol PROVE LabelRule(p, q, old, new)
  BY <1>1, <1>3, <1>4 DEF LabelRule
<1>5. ASSUME new.w = old.w, "WEIGHTED" \in q => "WEIGHTED" \in p PROVE WeightRule(p, q, old, new)
  BY <1>2, <1>3, <1>5 DEF WeightRule
<1> QED  BY <1>4, <1>5

LEMMA RuledBits ==
    ASSUME NEW g, NEW f, NEW s, NEW i, NEW new, Differs(g, f, s, i, new),
           NEW old, old = f.trs[s][i], NEW p, AllBits(p, f), NEW q, q \subseteq RelevantMask,
           LabelRule(p, q, old, new), WeightRule(p, q, old, new)
    PROVE  AllBits(q, g)
<1>1. \A r, j : IsArc(f, r, j) => \/ r = s /\ j = i /\ f.trs[r][j] = old
                                  \/ IsArc(g, r, j) /\ g.trs[r][j] = f.trs[r][j]
  BY DEF Differs
<1>2. \A r, j : IsArc(g, r, j) => \/ g.trs[r][j] = new
                                  \/ IsArc(f, r, j) /\ g.trs[r][j] = f.trs[r][j]
  BY DEF Differs
<1>3. IsArc(g, s, i) /\ g.trs[s][i] = new
  BY DEF Differs
<1>4. LabelBits(q, g)
  <2>1. /\ IsAcceptor(f) /\ new.il = new.ol => IsAcceptor(g)
        /\ ~ IsAcceptor(f) /\ old.il = old.ol => ~ IsAcceptor(g)
        /\ IsAcceptor(g) => new.il = new.ol
    <3>1. IsAcceptor(f) /\ new.il = new.ol => IsAcceptor(g)
      BY <1>2, LabelsAsk
    <3>2. ~ IsAcceptor(f) /\ old.il = old.ol => ~ IsAcceptor(g)
      BY <1>1, LabelsAsk
    <3>3. IsAcceptor(g) => new.il = new.ol
      BY <1>3, LabelsAsk
    <3> QED  BY <3>1, <3>2, <3>3
  <2>2. /\ HasNoEpsilons(f) /\ (new.il # Eps \/ new.ol # Eps) => HasNoEpsilons(g)
        /\ ~ HasNoEpsilons(f) /\ (old.il # Eps \/ old.ol # Eps) => ~ HasNoEpsilons(g)
        /\ HasNoEpsilons(g) => new.il # Eps \/ new.ol # Eps
    <3>1. HasNoEpsilons(f) /\ (new.il # Eps \/ new.ol # Eps) => HasNoEpsilons(g)
      BY <1>2, LabelsAsk
    <3>2. ~ HasNoEpsilons(f) /\ (old.il # Eps \/ old.ol # Eps) => ~ HasNoEpsilons(g)
      BY <1>1, LabelsAsk
    <3>3. HasNoEpsilons(g) => new.il # Eps \/ new.ol # Eps
      BY <1>3, LabelsAsk
    <3> QED  BY <3>1, <3>2, <3>3
  <2>3. /\ HasNoIEpsilons(f) /\ new.il # Eps => HasNoIEpsilons(g)
        /\ ~ HasNoIEpsilons(f) /\ old.il # Eps => ~ HasNoIEpsilons(g)
        /\ HasNoIEpsilons(g) => new.il # Eps
    <3>1. HasNoIEpsilons(f) /\ new.il # Eps => HasNoIEpsilons(g)
      BY <1>2, LabelsAsk
    <3>2. ~ HasNoIEpsilons(f) /\ old.il # Eps => ~ HasNoIEpsilons(g)
      BY <1>1, LabelsAsk
    <3>3. HasNoIEpsilons(g) => new.il # Eps
      BY <1>3, LabelsAsk
    <3> QED  BY <3>1, <3>2, <3>3
  <2>4. /\ HasNoOEpsilons(f) /\ new.ol # Eps => HasNoOEpsilons(g)
        /\ ~ HasNoOEpsilons(f) /\ old.ol # Eps => ~ HasNoOEpsilons(g)
        /\ HasNoOEpsilons(g) => new.ol # Eps
    <3>1. HasNoOEpsilons(f) /\ new.ol # Eps => HasNoOEpsilons(g)
      BY <1>2, LabelsAsk
    <3>2. ~ HasNoOEpsilons(f) /\ old.ol # Eps => ~ HasNoOEpsilons(g)
      BY <1>1, LabelsAsk
    <3>3. HasNoOEpsilons(g) => new.ol # Eps
      BY <1>3, LabelsAsk
    <3> QED  BY <3>1, <3>2, <3>3
  <2> QED  BY <2>1, <2>2, <2>3, <2>4 DEF LabelRule, AllBits, LabelBits, Answers
<1>5. WeightBits(q, g)
  <2>1. \A r : (r \in StatesOf(g) <=> r \in StatesOf(f)) /\ g.final[r] = f.final[r]
    BY DEF Differs
  <2> QED  BY <1>1, <1>2, <1>3, <2>1, WeightsAsk DEF WeightRule, AllBits, WeightBits, Answers
<1>6. \A x \in q : x \in {"ACCEPTOR", "NOT_ACCEPTOR", "EPSILONS", "NO_EPSILONS", "I_EPSILONS",
         "NO_I_EPSILONS", "O_EPSILONS", "NO_O_EPSILONS", "WEIGHTED", "UNWEIGHTED"}
  BY DEF RelevantMask, LabelPairs, Acc, BothEps, IEps, OEps, Wtd
<1>7. OrderBits(q, g) /\ CycleBits(q, g) /\ TopBits(q, g) /\ ReachBits(q, g) /\ StringBits(q, g)
  BY <1>6 DEF OrderBits, CycleBits, TopBits, ReachBits, StringBits, Answers
<1> QED  BY <1>4, <1>5, <1>7 DEF AllBits

LEMMA RewriteDiffers ==
    ASSUME NEW n \in Nat, NEW f, IsMachine(f, n), NEW s \in StatesOf(f),
           NEW i \in DOMAIN f.trs[s], NEW t, NEW p
    PROVE  /\ Differs(Rewrite(f, s, i, t, p), f, s, i, t)
           /\ Rewrite(f, s, i, t, p).props = p \cap RelevantMask
<1> DEFINE g == Rewrite(f, s, i, t, p)
           one(x, side) == IF x[side] = Eps THEN 1 ELSE 0
           X == [f.trs[s] EXCEPT ![i] = t]
           Y == [side \in Sides |-> f.eps[s][side] - one(f.trs[s][i], side) + one(t, side)]
           q == p \cap RelevantMask
<1>1. StatesOf(f) = 0 .. n-1
  BY ShapeStates
<1>2. g = Replaced(f, s, X, Y, q)
  BY <1>1 DEF Rewrite, Replaced, IsMachine
<1>3. DOMAIN X = DOMAIN f.trs[s] /\ \A j \in DOMAIN f.trs[s] :
        X[j] = IF j = i THEN t ELSE f.trs[s][j]
  OBVIOUS
<1> HIDE DEF g, X, Y, q
<1>4. /\ g.final = f.final /\ g.props = q /\ StatesOf(g) = StatesOf(f)
      /\ \A r \in StatesOf(f) : g.trs[r] = IF r = s THEN X ELSE f.trs[r]
  BY <1>2, ReplacedIs
<1>5. Differs(g, f, s, i, t)
  BY <1>3, <1>4 DEF Differs, IsArc
<1> QED  BY <1>4, <1>5 DEF g, q

LEMMA SetLabelsBits ==
    ASSUME NEW n \in Nat, NEW f, IsMachine(f, n), NEW s \in StatesOf(f),
           NEW i \in DOMAIN f.trs[s], NEW il, NEW ol, AllBits(f.props, f)
    PROVE  AllBits(SetLabels(f, s, i, il, ol).props, SetLabels(f, s, i, il, ol))
<1> DEFINE old == f.trs[s][i]
           new == [old EXCEPT !.il = il, !.ol = ol]
           p == Relabelled(f.props, s, old, new)
           g == Rewrite(f, s, i, new, p)
<1>1. SetLabels(f, s, i, il, ol) = g
  BY DEF SetLabels
<1>2. IsArc(f, s, i) /\ old \in Tr(n)
  BY ArcIs DEF IsArc
<1>3. new.w = old.w
  BY <1>2 DEF Tr
<1>4. /\ LabelRule(f.props, p, old, new)
      /\ \A x \in {"WEIGHTED", "UNWEIGHTED"} : x \in p => x \in f.props
  BY RelabelledHas
<1>5. Differs(g, f, s, i, new) /\ g.props = p \cap RelevantMask
  BY RewriteDiffers
<1> HIDE DEF g, p, new, old
<1>6. LabelRule(f.props, g.props, old, new)
  BY <1>4, <1>5 DEF LabelRule
<1>7. WeightRule(f.props, g.props, old, new)
  <2>1. "UNWEIGHTED" \in f.props => Trivial(old.w)
    BY <1>2, WeightsAsk DEF AllBits, WeightBits, Answers, old
  <2> QED  BY <1>3, <1>4, <1>5, <2>1 DEF WeightRule
<1>8. AllBits(g.props, g)
  BY <1>5, <1>6, <1>7, RuledBits DEF old
<1> QED  BY <1>1, <1>8

LEMMA SetWeightBits ==
    ASSUME NEW n \in Nat, NEW f, IsMachine(f, n), NEW s \in StatesOf(f),
           NEW i \in DOMAIN f.trs[s], NEW w \in Weights, AllBits(f.props, f)
    PROVE  AllBits(SetWeight(f, s, i, w).props, SetWeight(f, s, i, w))
<1> DEFINE old == f.trs[s][i]
           new == [old EXCEPT !.w = w]
           p == Reweighed(f.props, old.w, w)
           g == Rewrite(f, s, i, new, p)
<1>1. SetWeight(f, s, i, w) = g
  BY DEF SetWeight
<1>2. IsArc(f, s, i) /\ old \in Tr(n)
  BY ArcIs DEF IsArc
<1>3. new.il = old.il /\ new.ol = old.ol /\ new.w = w
  BY <1>2 DEF Tr
<1>4. w # None /\ old.w # None
  BY <1>2, NoneAssumption, WeightsAssumption DEF Tr
<1>5. /\ \A x \in p : x = "WEIGHTED" \/ x \in f.props
      /\ "UNWEIGHTED" \in p => "UNWEIGHTED" \in f.props /\ Trivial(w)
      /\ "WEIGHTED" \in p => ~ Trivial(w) \/ ("WEIGHTED" \in f.props /\ Trivial(old.w))
  BY <1>4, ReweighedHas
<1>6. Differs(g, f, s, i, new) /\ g.props = p \cap RelevantMask
  BY RewriteDiffers
<1> HIDE DEF g, p, new, old
<1>7. WeightRule(f.props, g.props, old, new)
  BY <1>3, <1>5, <1>6 DEF WeightRule
<1>8. LabelRule(f.props, g.props, old, new)
  BY <1>2, <1>3, <1>5, <1>6, KeptRules DEF old
<1>9. AllBits(g.props, g)
  BY <1>6, <1>7, <1>8, RuledBits DEF old
<1> QED  BY <1>1, <1>9

LEMMA SetNextStateBits ==
    ASSUME NEW n \in Nat, NEW f, IsMachine(f, n), NEW s \in StatesOf(f),
           NEW i \in DOMAIN f.trs[s], NEW u, AllBits(f.props, f)
    PROVE  AllBits(SetNextState(f, s, i, u).props, SetNextState(f, s, i, u))
<1> DEFINE old == f.trs[s][i]
           new == [old EXCEPT !.ns = u]
           g == Rewrite(f, s, i, new, f.props)
<1>1. SetNextState(f, s, i, u) = g
  BY DEF SetNextState
<1>2. IsArc(f, s, i) /\ old \in Tr(n)
  BY ArcIs DEF IsArc
<1>3. new.il = old.il /\ new.ol = old.ol /\ new.w = old.w
  BY <1>2 DEF Tr
<1>4. Differs(g, f, s, i, new) /\ g.props = f.props \cap RelevantMask
  BY RewriteDiffers
<1> HIDE DEF g, new, old
<1>5. LabelRule(f.props, g.props, old, new) /\ WeightRule(f.props, g.props, old, new)
  BY <1>2, <1>3, <1>4, KeptRules DEF old
<1>6. AllBits(g.props, g)
  BY <1>4, <1>5, RuledBits DEF old
<1> QED  BY <1>1, <1>6

LEMMA SetTrBits ==
    ASSUME NEW n \in Nat, NEW f, IsMachine(f, n), NEW s \in StatesOf(f),
           NEW i \in DOMAIN f.trs[s], NEW t \in Tr(n), AllBits(f.props, f)
    PROVE  AllBits(SetTr(f, s, i, t).props, SetTr(f, s, i, t))
<1> DEFINE old == f.trs[s][i]
           r == Relabelled(f.props, s, old, t)
           p == Reweighed(r, old.w, t.w)
           g == Rewrite(f, s, i, t, p)
<1>1. SetTr(f, s, i, t) = g
  BY DEF SetTr
<1>2. IsArc(f, s, i) /\ old \in Tr(n)
  BY ArcIs DEF IsArc
<1>3. t.w # None /\ old.w # None
  BY <1>2, NoneAssumption, WeightsAssumption DEF Tr
<1>4. /\ LabelRule(f.props, r, old, t)
      /\ \A x \in {"WEIGHTED", "UNWEIGHTED"} : x \in r => x \in f.props
  BY RelabelledHas
<1> HIDE DEF r
<1>5. /\ \A x \in p : x = "WEIGHTED" \/ x \in r
      /\ "UNWEIGHTED" \in p => "UNWEIGHTED" \in r /\ Trivial(t.w)
      /\ "WEIGHTED" \in p => ~ Trivial(t.w) \/ ("WEIGHTED" \in r /\ Trivial(old.w))
  BY <1>3, ReweighedHas
<1>6. Differs(g, f, s, i, t) /\ g.props = p \cap RelevantMask
  BY RewriteDiffers
<1> HIDE DEF g, p, old
<1>7. WeightRule(f.props, g.props, old, t)
  BY <1>4, <1>5, <1>6 DEF WeightRule
<1>8. LabelRule(f.props, g.props, old, t)
  <2>1. \A x \in {"ACCEPTOR", "NOT_ACCEPTOR", "NO_EPSILONS", "EPSILONS", "NO_I_EPSILONS",
                  "I_EPSILONS", "NO_O_EPSILONS", "O_EPSILONS"} : x \in g.props => x \in r
    BY <1>5, <1>6
  <2> QED  BY <1>4, <2>1 DEF LabelRule
<1>9. AllBits(g.props, g)
  BY <1>6, <1>7, <1>8, RuledBits DEF old
<1> QED  BY <1>1, <1>9

-----------------------------------------------------------------------------
(* Every action of the specification leaves true bits true.                *)

LEMMA IterMutBits ==
    ASSUME NEW n \in Nat, IsMachine(fst, n), AllBits(fst.props, fst), DoIterMut
    PROVE  AllBits(fst.props, fst)'
<1>1. PICK s \in StatesOf(fst) : \E i \in DOMAIN fst.trs[s] :
        \/ \E il, ol \in Labels : fst' = SetLabels(fst, s, i, il, ol)
        \/ \E w \in Weights : fst' = SetWeight(fst, s, i, w)
        \/ \E m \in StatesOf(fst) : fst' = SetNextState(fst, s, i, m)
        \/ \E t \in Tr(1) : fst' = SetTr(fst, s, i, t)
  BY Zenon DEF DoIterMut
<1>2. PICK i \in DOMAIN fst.trs[s] :
        \/ \E il, ol \in Labels : fst' = SetLabels(fst, s, i, il, ol)
        \/ \E w \in Weights : fst' = SetWeight(fst, s, i, w)
        \/ \E m \in StatesOf(fst) : fst' = SetNextState(fst, s, i, m)
        \/ \E t \in Tr(1) : fst' = SetTr(fst, s, i, t)
  BY <1>1, Zenon
<1>3. CASE \E il, ol \in Labels : fst' = SetLabels(fst, s, i, il, ol)
  BY <1>3, SetLabelsBits
<1>4. CASE \E w \in Weights : fst' = SetWeight(fst, s, i, w)
  BY <1>4, SetWeightBits
<1>5. CASE \E m \in StatesOf(fst) : fst' = SetNextState(fst, s, i, m)
  BY <1>5, SetNextStateBits
<1>6. CASE \E t \in Tr(1) : fst' = SetTr(fst, s, i, t)
  <2>1. StatesOf(fst) = 0 .. n-1 /\ n > 0
    BY ShapeStates
  <2>2. Tr(1) \subseteq Tr(n)
    BY <2>1, MoreEnds
  <2> QED  BY <1>6, <2>2, SetTrBits
<1> QED  BY <1>2, <1>3, <1>4, <1>5, <1>6

LEMMA NextBits == Inv /\ AllBits(fst.props, fst) /\ [Next]_fst => AllBits(fst.props, fst)'
<1> SUFFICES ASSUME Inv, AllBits(fst.props, fst), [Next]_fst
             PROVE  AllBits(fst.props, fst)'
  OBVIOUS
<1>1. PICK n \in 0 .. MaxStates : IsMachine(fst, n) /\ Counted(fst)
  BY DEF Inv
<1>2. n \in Nat
  BY BoundsAssumption
<1>3. NumStates(fst) = n /\ StatesOf(fst) = 0 .. n-1
  BY <1>1, <1>2, ShapeStates
<1>4. CASE DoSetStart
  BY <1>1, <1>2, <1>4, SetStartBits DEF DoSetStart
<1>5. CASE DoSetFinal
  BY <1>1, <1>2, <1>5, SetFinalBits DEF DoSetFinal
<1>6. CASE DoAddStates
  <2>1. PICK k \in 0 .. 2 : fst' = AddStates(fst, k)
    BY <1>6 DEF DoAddStates
  <2> QED  BY <1>1, <1>2, <2>1, AddStatesBits
<1>7. CASE DoAddTr
  <2>1. PICK s \in StatesOf(fst), t \in Tr(n) : fst' = AddTr(fst, s, t)
    BY <1>3, <1>7 DEF DoAddTr
  <2> QED  BY <1>1, <1>2, <2>1, AddTrBits
<1>8. CASE DoSetTrs
  <2>1. PICK s \in StatesOf(fst) :
          /\ fst.trs[s] = <<>>
          /\ \E t \in Tr(1), u \in Tr(n) : fst' = SetTrs(fst, s, <<t, u>>)
    BY <1>3, <1>8 DEF DoSetTrs
  <2>2. PICK t \in Tr(1), u \in Tr(n) : fst' = SetTrs(fst, s, <<t, u>>)
    BY <2>1
  <2>3. t \in Tr(n)
    BY <1>2, <1>3, MoreEnds
  <2> QED  BY <1>1, <1>2, <2>1, <2>2, <2>3, SetTrsBits
<1>9. CASE DoDeleteTrs
  BY <1>1, <1>2, <1>9, DeleteTrsBits DEF DoDeleteTrs
<1>10. CASE DoDelTrsId
  BY <1>1, <1>2, <1>10, DelTrsIdBits DEF DoDelTrsId
<1>11. CASE DoDelStates
  BY <1>1, <1>2, <1>11, DelStatesBits DEF DoDelStates
<1>12. CASE DoDelAllStates
  <2>1. fst' = NewFst
    BY <1>12 DEF DoDelAllStates, DelAllStates, DeleteAllStatesProperties, NewFst
  <2> QED  BY <2>1, NewBits
<1>13. CASE DoIterMut
  BY <1>1, <1>2, <1>13, IterMutBits
<1>14. CASE UNCHANGED fst
  BY <1>14
<1> QED  BY <1>4, <1>5, <1>6, <1>7, <1>8, <1>9, <1>10, <1>11, <1>12, <1>13, <1>14 DEF Next

(***************************************************************************)
(* No bit that is set lies: however a VectorFst is built, edited and cut   *)
(* down, each bit that the mutators of vector_fst/mutable_fst.rs and       *)
(* trs_iter_mut.rs leave set, from the bits before alone, is what the      *)
(* machine itself answers.                                                 *)
(***************************************************************************)
THEOREM BitsTrueHolds == Spec => []BitsTrue
<1>1. Init => AllBits(fst.props, fst)
  BY NewBits DEF Init
<1>2. Inv /\ AllBits(fst.props, fst) => BitsTrue
  <2> SUFFICES ASSUME Inv, AllBits(fst.props, fst) PROVE BitsTrue
    OBVIOUS
  <2>1. fst.props \in SUBSET CopyProperties
    BY DEF Inv, IsMachine
  <2> QED  BY <2>1, TruthIs DEF BitsTrue
<1> QED  BY <1>1, <1>2, InvHolds, NextBits, PTL DEF Spec
=============================================================================
