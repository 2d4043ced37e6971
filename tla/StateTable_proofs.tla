------------------------- MODULE StateTable_proofs -------------------------
(***************************************************************************)
(* Facts about the state table and about the largest of a set of numbers,  *)
(* for the proofs of the modules that own a table.                         *)
(***************************************************************************)
EXTENDS StateTable, FiniteSetsExt, Functions, TLAPS, WellFoundedInduction

-----------------------------------------------------------------------------
(* The least of a set of naturals, and the largest of a bounded one.       *)

\* A non-empty set of naturals has a least element.
LEMMA LeastOf ==
    ASSUME NEW S \in SUBSET Nat, S # {}
    PROVE  \E m \in S : \A x \in S : m <= x
<1>1. PICK m \in S : \A x \in S : ~ (<<x, m>> \in OpToRel(<, Nat))
  BY NatLessThanWellFounded, WFMin
<1>2. \A x \in S : ~ (x < m)
  BY <1>1 DEF OpToRel
<1> QED  BY <1>2

\* A bounded, non-empty set of naturals has a maximum.
LEMMA MaxOfBounded ==
    ASSUME NEW S \in SUBSET Nat, S # {}, NEW b \in Nat, \A x \in S : x <= b
    PROVE  Max(S) \in S /\ \A x \in S : x <= Max(S)
<1> DEFINE U == {n \in Nat : \A x \in S : x <= n}
<1>1. PICK m \in U : \A n \in U : ~ (<<n, m>> \in OpToRel(<, Nat))
  <2>1. U \subseteq Nat /\ U # {}
    OBVIOUS
  <2> HIDE DEF U
  <2> QED  BY <2>1, NatLessThanWellFounded, WFMin
<1>2. \A n \in U : ~ (n < m)
  BY <1>1 DEF OpToRel
<1>3. m \in S
  <2> SUFFICES ASSUME m \notin S PROVE FALSE
    OBVIOUS
  <2>1. \A x \in S : x < m
    OBVIOUS
  <2>2. PICK x0 \in S : TRUE
    OBVIOUS
  <2>3. m - 1 \in Nat
    BY <2>1, <2>2
  <2>4. \A x \in S : x <= m - 1
    BY <2>1
  <2> QED  BY <2>3, <2>4, <1>2
<1>4. \E x \in S : \A y \in S : x >= y
  BY <1>3
<1> QED  BY <1>4 DEF Max

\* Raising a counter by states below n keeps it at most n, and counts them all.
LEMMA MaxCovers ==
    ASSUME NEW known \in Nat, NEW ids \in SUBSET Nat, NEW n \in Nat,
           known <= n, \A i \in ids : i < n
    PROVE  LET raised == Max({known} \cup {i + 1 : i \in ids})
           IN  raised \in known .. n /\ \A i \in ids : i < raised
<1> DEFINE S == {known} \cup {i + 1 : i \in ids}
<1>1. S \in SUBSET Nat /\ S # {} /\ (\A x \in S : x <= n)
  OBVIOUS
<1>2. Max(S) \in S /\ \A x \in S : x <= Max(S)
  <2> HIDE DEF S
  <2> QED  BY <1>1, MaxOfBounded
<1>3. Max(S) \in Nat /\ known <= Max(S) /\ Max(S) <= n
  BY <1>1, <1>2
<1>4. \A i \in ids : i + 1 <= Max(S)
  BY <1>2
<1> QED  BY <1>3, <1>4

-----------------------------------------------------------------------------
(* The state table.                                                        *)

\* A table grows: what an id names does not change.
Extends(old, new) ==
    /\ Len(old.id_to_tuple) <= Len(new.id_to_tuple)
    /\ Allocated(old) \subseteq Allocated(new)
    /\ \A id \in Allocated(old) : FindTuple(new, id) = FindTuple(old, id)

LEMMA ExtendsItself ==
    ASSUME NEW tbl \in TableType
    PROVE  Extends(tbl, tbl)
BY DEF Extends, TableType

\* find_id: the table stays a bijection, the id it answers names the tuple, and
\* no other name changes.
LEMMA InternedExtends ==
    ASSUME NEW tbl \in TableType, Bijective(tbl), NEW t \in Tuples
    PROVE  /\ Interned(tbl, t) \in TableType
           /\ Bijective(Interned(tbl, t))
           /\ Extends(tbl, Interned(tbl, t))
           /\ FindId(tbl, t) \in Allocated(Interned(tbl, t))
           /\ FindTuple(Interned(tbl, t), FindId(tbl, t)) = t
<1> DEFINE n == Len(tbl.id_to_tuple)
           new == Interned(tbl, t)
<1>1. /\ tbl.id_to_tuple \in Seq(Tuples)
      /\ tbl.tuple_to_id \in [Tuples -> Nat \cup {Vacant}]
      /\ n \in Nat
  BY DEF TableType
<1>2. CASE tbl.tuple_to_id[t] # Vacant
  BY <1>1, <1>2 DEF Interned, FindId, Bijective, Extends, Allocated
<1>3. CASE tbl.tuple_to_id[t] = Vacant
  <2>1. /\ new.id_to_tuple = Append(tbl.id_to_tuple, t)
        /\ new.tuple_to_id = [tbl.tuple_to_id EXCEPT ![t] = n]
        /\ FindId(tbl, t) = n
    BY <1>3 DEF Interned, FindId
  <2>2. new \in TableType
    BY <1>1, <1>3 DEF Interned, TableType
  <2>3. /\ Len(new.id_to_tuple) = n + 1
        /\ new.id_to_tuple[n + 1] = t
        /\ \A i \in 1 .. n : new.id_to_tuple[i] = tbl.id_to_tuple[i]
    BY <1>1, <2>1
  <2>4. /\ Allocated(tbl) = 0 .. n - 1
        /\ Allocated(new) = 0 .. n
        /\ FindTuple(new, n) = t
        /\ \A id \in 0 .. n - 1 : FindTuple(new, id) = FindTuple(tbl, id)
    BY <1>1, <2>3 DEF Allocated, FindTuple
  <2>5. \A id \in 0 .. n - 1 : /\ FindTuple(tbl, id) \in Tuples
                              /\ tbl.tuple_to_id[FindTuple(tbl, id)] = id
    <3> TAKE id \in 0 .. n - 1
    <3>1. id + 1 \in 1 .. n
      BY <1>1
    <3>2. FindTuple(tbl, id) \in Tuples
      BY <3>1, <1>1 DEF FindTuple
    <3>3. tbl.tuple_to_id[FindTuple(tbl, id)] = id
      BY <2>4 DEF Bijective
    <3> QED  BY <3>2, <3>3
  <2>6. \A id \in 0 .. n : new.tuple_to_id[FindTuple(new, id)] = id
    <3> TAKE id \in 0 .. n
    <3>1. CASE id = n
      BY <3>1, <1>1, <2>1, <2>4
    <3>2. CASE id # n
      <4>1. id \in 0 .. n - 1
        BY <3>2, <1>1
      <4>2. FindTuple(tbl, id) # t
        BY <4>1, <1>3, <2>5 DEF Vacant
      <4> QED  BY <4>1, <4>2, <1>1, <2>1, <2>4, <2>5
    <3> QED  BY <3>1, <3>2
  <2>7. \A u \in Tuples : new.tuple_to_id[u] # Vacant =>
          /\ new.tuple_to_id[u] \in Allocated(new)
          /\ FindTuple(new, new.tuple_to_id[u]) = u
    <3> TAKE u \in Tuples
    <3>1. CASE u = t
      BY <3>1, <1>1, <2>1, <2>4
    <3>2. CASE u # t
      <4>1. new.tuple_to_id[u] = tbl.tuple_to_id[u]
        BY <3>2, <1>1, <2>1
      <4>2. tbl.tuple_to_id[u] # Vacant =>
              /\ tbl.tuple_to_id[u] \in 0 .. n - 1
              /\ FindTuple(tbl, tbl.tuple_to_id[u]) = u
        BY <2>4 DEF Bijective
      <4> QED  BY <4>1, <4>2, <1>1, <2>4
    <3> QED  BY <3>1, <3>2
  <2>8. Bijective(new)
    BY <2>4, <2>6, <2>7 DEF Bijective
  <2>9. Extends(tbl, new)
    BY <1>1, <2>3, <2>4 DEF Extends
  <2> QED  BY <1>1, <2>1, <2>2, <2>4, <2>8, <2>9
<1> QED  BY <1>2, <1>3

\* The table of distinct names is a bijection.
LEMMA TableOfBijective ==
    ASSUME NEW names \in Seq(Tuples), IsInjective(names)
    PROVE  /\ TableOf(names) \in TableType
           /\ Bijective(TableOf(names))
           /\ TableOf(names).id_to_tuple = names
<1> DEFINE tbl == TableOf(names)
<1>1. tbl.id_to_tuple = names
  BY DEF TableOf
<1>2. ASSUME NEW t \in Tuples, \E i \in DOMAIN names : names[i] = t
      PROVE  \E i \in 1 .. Len(names) : names[i] = t /\ tbl.tuple_to_id[t] = i - 1
  <2>1. \E i \in DOMAIN names : names[i] = t /\ IdIn(names, t) = i - 1
    BY <1>2, Zenon DEF IdIn
  <2>2. tbl.tuple_to_id[t] = IdIn(names, t)
    BY <1>2 DEF TableOf
  <2> QED  BY <2>1, <2>2
<1>3. ASSUME NEW t \in Tuples, ~ \E i \in DOMAIN names : names[i] = t
      PROVE  tbl.tuple_to_id[t] = Vacant
  BY <1>3 DEF TableOf
<1>4. \A t \in Tuples : tbl.tuple_to_id[t] \in Nat \cup {Vacant}
  <2> TAKE t \in Tuples
  <2>1. CASE \E i \in DOMAIN names : names[i] = t
    BY <2>1, <1>2
  <2>2. CASE ~ \E i \in DOMAIN names : names[i] = t
    BY <2>2, <1>3
  <2> QED  BY <2>1, <2>2
<1>5. tbl \in TableType
  <2>1. tbl.tuple_to_id \in [Tuples -> Nat \cup {Vacant}]
    BY <1>4 DEF TableOf
  <2> QED  BY <2>1 DEF TableOf, TableType
<1>6. \A id \in 0 .. Len(names) - 1 : tbl.tuple_to_id[names[id + 1]] = id
  <2> TAKE id \in 0 .. Len(names) - 1
  <2>1. id + 1 \in 1 .. Len(names) /\ names[id + 1] \in Tuples
    OBVIOUS
  <2>2. PICK i \in 1 .. Len(names) : /\ names[i] = names[id + 1]
                                     /\ tbl.tuple_to_id[names[id + 1]] = i - 1
    BY <2>1, <1>2
  <2>3. i = id + 1
    BY <2>1, <2>2 DEF IsInjective
  <2> QED  BY <2>2, <2>3
<1>7. \A t \in Tuples : tbl.tuple_to_id[t] # Vacant =>
        /\ tbl.tuple_to_id[t] \in 0 .. Len(names) - 1
        /\ names[tbl.tuple_to_id[t] + 1] = t
  <2> SUFFICES ASSUME NEW t \in Tuples, tbl.tuple_to_id[t] # Vacant
               PROVE  /\ tbl.tuple_to_id[t] \in 0 .. Len(names) - 1
                      /\ names[tbl.tuple_to_id[t] + 1] = t
    OBVIOUS
  <2>1. PICK i \in 1 .. Len(names) : names[i] = t /\ tbl.tuple_to_id[t] = i - 1
    BY <1>2, <1>3
  <2> QED  BY <2>1
<1>8. Bijective(tbl)
  BY <1>1, <1>6, <1>7 DEF Bijective, Allocated, FindTuple
<1> QED  BY <1>1, <1>5, <1>8

\* The table of distinct names: each has the id of its position.
LEMMA TableOfNamed ==
    ASSUME NEW names \in Seq(Tuples), IsInjective(names), NEW i \in 1 .. Len(names)
    PROVE  /\ TableOf(names).tuple_to_id[names[i]] = i - 1
           /\ FindId(TableOf(names), names[i]) = i - 1
           /\ Interned(TableOf(names), names[i]) = TableOf(names)
<1> DEFINE tbl == TableOf(names)
<1>1. Bijective(tbl) /\ tbl.id_to_tuple = names
  BY TableOfBijective
<1>2. i - 1 \in Allocated(tbl) /\ FindTuple(tbl, i - 1) = names[i]
  <2>1. i - 1 \in 0 .. Len(names) - 1 /\ i - 1 + 1 = i
    OBVIOUS
  <2> HIDE DEF tbl
  <2> QED  BY <1>1, <2>1 DEF Allocated, FindTuple
<1>3. tbl.tuple_to_id[names[i]] = i - 1
  <2> HIDE DEF tbl
  <2> QED  BY <1>1, <1>2 DEF Bijective
<1>4. i - 1 # Vacant
  BY DEF Vacant
<1> HIDE DEF tbl
<1>5. FindId(tbl, names[i]) = i - 1 /\ Interned(tbl, names[i]) = tbl
  BY <1>3, <1>4 DEF FindId, Interned
<1> QED  BY <1>3, <1>5 DEF tbl

\* Interning a new name is reading back the table of one name more.
LEMMA TableOfAppend ==
    ASSUME NEW names \in Seq(Tuples), IsInjective(names), NEW t \in Tuples,
           \A i \in 1 .. Len(names) : names[i] # t
    PROVE  /\ FindId(TableOf(names), t) = Len(names)
           /\ Interned(TableOf(names), t) = TableOf(Append(names, t))
<1> DEFINE n == Len(names)
           more == Append(names, t)
           old == TableOf(names).tuple_to_id
           new == TableOf(more).tuple_to_id
<1>1. /\ n \in Nat /\ more \in Seq(Tuples) /\ Len(more) = n + 1 /\ more[n + 1] = t
      /\ \A i \in 1 .. n : more[i] = names[i]
  OBVIOUS
<1>2. IsInjective(more)
  BY <1>1 DEF IsInjective
<1>3. /\ TableOf(names).id_to_tuple = names /\ TableOf(more).id_to_tuple = more
      /\ DOMAIN old = Tuples /\ DOMAIN new = Tuples
  BY DEF TableOf
<1>4. old[t] = Vacant
  BY <1>1 DEF TableOf
<1>5. FindId(TableOf(names), t) = n
  BY <1>3, <1>4 DEF FindId
<1>6. new[t] = n
  <2>1. TableOf(more).tuple_to_id[more[n + 1]] = n + 1 - 1
    <3>1. n + 1 \in 1 .. Len(more)
      BY <1>1
    <3> HIDE DEF more, n
    <3> QED  BY <3>1, <1>1, <1>2, TableOfNamed
  <2> HIDE DEF n
  <2> QED  BY <2>1, <1>1
<1>7. ASSUME NEW u \in Tuples, u # t PROVE new[u] = old[u]
  <2>1. CASE \E i \in 1 .. n : names[i] = u
    <3>1. PICK i \in 1 .. n : names[i] = u
      BY <2>1
    <3>2. old[u] = i - 1
      BY <3>1, TableOfNamed
    <3>3. more[i] = u /\ i \in 1 .. Len(more)
      BY <3>1, <1>1
    <3>4. new[u] = i - 1
      <4> HIDE DEF more
      <4> QED  BY <3>3, <1>1, <1>2, TableOfNamed
    <3> QED  BY <3>2, <3>4
  <2>2. CASE ~ \E i \in 1 .. n : names[i] = u
    <3>1. old[u] = Vacant
      BY <2>2 DEF TableOf
    <3>2. ~ \E i \in DOMAIN more : more[i] = u
      BY <2>2, <1>1, <1>7
    <3>3. new[u] = Vacant
      <4> HIDE DEF more
      <4> QED  BY <3>2 DEF TableOf
    <3> QED  BY <3>1, <3>3
  <2> QED  BY <2>1, <2>2
<1>8. new = [old EXCEPT ![t] = n]
  <2>1. new = [u \in Tuples |-> new[u]]
    BY DEF TableOf
  <2>2. [old EXCEPT ![t] = n] = [u \in Tuples |-> IF u = t THEN n ELSE old[u]]
    BY <1>3
  <2> HIDE DEF new, old, n
  <2> QED  BY <2>1, <2>2, <1>6, <1>7
<1>9. Interned(TableOf(names), t) = [tuple_to_id |-> new, id_to_tuple |-> more]
  BY <1>3, <1>4, <1>8 DEF Interned
<1>10. TableOf(more) = [tuple_to_id |-> new, id_to_tuple |-> more]
  BY DEF TableOf
<1> QED  BY <1>5, <1>9, <1>10

\* find_tuple answers a tuple.
LEMMA NamedTuple ==
    ASSUME NEW tbl \in TableType, NEW id \in Allocated(tbl)
    PROVE  FindTuple(tbl, id) \in Tuples
<1>1. tbl.id_to_tuple \in Seq(Tuples)
  BY DEF TableType
<1>2. id + 1 \in 1 .. Len(tbl.id_to_tuple)
  BY <1>1 DEF Allocated
<1> QED  BY <1>1, <1>2 DEF FindTuple
=============================================================================
