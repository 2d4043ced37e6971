-------------------------- MODULE RmEpsilon_proofs --------------------------
(***************************************************************************)
(* Proofs about RmEpsilon, for any machine and any weights of which no     *)
(* short product vanishes: whatever earlier expansions left in the rows,   *)
(* the walk of an epsilon closure reads only distances of its own pass.    *)
(* When the weights are compared exactly, the expansion then answers the   *)
(* sums over that closure, no more and no less.                            *)
(***************************************************************************)
EXTENDS RmEpsilon, ShortestDistance_proofs

-----------------------------------------------------------------------------
(* The weights that a pass carries.                                        *)

\* D[k] are weights of K that a pass may carry while k states have a row of it.
\* None is lost in the comparison with zero, in a sum, or, as long as a state
\* has no row, in a product by the weight of a kept transition.
Lasting(w, m, K, D) ==
    /\ D \in [1 .. Cardinality(States) -> SUBSET K]
    /\ Zero(w) \in K /\ One(w) \in K
    /\ 1 \in 1 .. Cardinality(States) => One(w) \in D[1]
    /\ \A x, y \in K : Plus(w, x, y) \in K
    /\ \A x \in K : Plus(w, Zero(w), x) = x
    /\ \A k \in 1 .. Cardinality(States) : \A x \in D[k] :
         /\ x # Zero(w) /\ ~ ApproxEqual(w, Zero(w), x)
         /\ \A y \in K : Plus(w, x, y) \in D[k] /\ Plus(w, y, x) \in D[k]
         /\ k + 1 \in 1 .. Cardinality(States) => x \in D[k + 1]
    /\ \A s \in States : \A i \in DOMAIN m.trs[s] : Keep(m.trs[s][i]) =>
         /\ \A x \in K : Times(w, x, m.trs[s][i].weight) \in K
         /\ \A k \in 1 .. Cardinality(States) : \A x \in D[k] :
              k + 1 \in 1 .. Cardinality(States) => Times(w, x, m.trs[s][i].weight) \in D[k + 1]

\* No product of fewer kept weights than there are states vanishes.  (In the
\* tropical semiring, D[k] are the finite weights.)
NothingVanishes == \A w \in Semirings : \A m \in Fsts(w) : \E K, D : Lasting(w, m, K, D)

\* The kept transitions of s before the k-th lead into A.
Led(m, s, k, A) ==
    \A i \in DOMAIN m.trs[s] : i < k /\ Keep(m.trs[s][i]) => m.trs[s][i].nextstate \in A

Past(m, s) == Len(m.trs[s]) + 1

\* Whatever a state of this pass leads to has a row of this pass, or will get one.
FreshInv(K, D) ==
    LET n == Cardinality(Live) IN
    /\ source \in Live
    /\ \A s \in Live : /\ rows[s].radder \in K
                       /\ \/ pc = "relax" /\ s = state
                          \/ rows[s].radder \in D[n]
                          \/ Led(fst, s, Past(fst, s), Live)
    /\ pc = "relax" => /\ r \in K
                       /\ \/ r \in D[n] /\ Led(fst, state, pos, Live)
                          \/ Led(fst, state, Past(fst, state), Live)

LEMMA LiveCounts ==
    ASSUME PassInv, Live # {}
    PROVE  /\ Live \subseteq States /\ IsFiniteSet(Live)
           /\ Cardinality(Live) \in 1 .. Cardinality(States)
<1>1. Live \subseteq States
  BY DEF PassInv, RowsInv, Live
<1>2. /\ IsFiniteSet(Live) /\ Cardinality(Live) <= Cardinality(States)
      /\ Cardinality(Live) \in Nat /\ Cardinality(States) \in Nat
  BY <1>1, SDAssumption, FS_Subset, FS_CardinalityType
<1>3. Cardinality(Live) # 0
  BY <1>2, FS_EmptySet
<1> QED  BY <1>1, <1>2, <1>3

\* A larger set is led into as well.
LEMMA LedGrows ==
    ASSUME NEW m, NEW s, NEW k, NEW A, NEW B, Led(m, s, k, A), A \subseteq B
    PROVE  Led(m, s, k, B)
BY DEF Led

\* The laws of weights that last, to be cited one by one.
LEMMA Lasts ==
    ASSUME NEW w, NEW m, NEW K, NEW D, Lasting(w, m, K, D), NEW k \in 1 .. Cardinality(States)
    PROVE  /\ D[k] \subseteq K /\ Zero(w) \in K /\ One(w) \in K
           /\ \A x \in D[k] : x # Zero(w) /\ ~ ApproxEqual(w, Zero(w), x)
           /\ \A x, y \in K : Plus(w, x, y) \in K
           /\ \A x \in K : Plus(w, Zero(w), x) = x
           /\ \A x \in D[k], y \in K : Plus(w, x, y) \in D[k] /\ Plus(w, y, x) \in D[k]
           /\ k + 1 \in 1 .. Cardinality(States) => D[k] \subseteq D[k + 1]
BY DEF Lasting

LEMMA LastsOnward ==
    ASSUME NEW w, NEW m, NEW K, NEW D, Lasting(w, m, K, D), NEW k \in 1 .. Cardinality(States),
           NEW s \in States, NEW i \in DOMAIN m.trs[s], Keep(m.trs[s][i])
    PROVE  /\ \A x \in K : Times(w, x, m.trs[s][i].weight) \in K
           /\ k + 1 \in 1 .. Cardinality(States) =>
                \A x \in D[k] : Times(w, x, m.trs[s][i].weight) \in D[k + 1]
BY DEF Lasting

\* The rows that begin a pass: only the source has one of it.
LEMMA StartFresh ==
    ASSUME PassInv, retain, NEW s \in States, StartPass(s), NEW K, NEW D,
           Lasting(semiring, fst, K, D)
    PROVE  FreshInv(K, D)'
<1>1. /\ pc' = "dequeue" /\ source' = s
      /\ UNCHANGED <<semiring, fst, retain, source_id>>
  BY DEF StartPass
<1>2. Live' = LiveIn(rows')
  BY <1>1, LoopPrimed
<1>3. s \in Live' /\ rows'[s].radder = one
  BY <1>2, StartRows
<1>4. ASSUME NEW x \in Live', x # s PROVE FALSE
  <2> DEFINE kept == Ensured(rows, s)
             row == [distance |-> one, adder |-> one, radder |-> one, enqueued |-> TRUE,
                     source |-> source_id]
  <2>1. pc = "idle" /\ rows' = [kept EXCEPT ![s] = row]
    BY DEF StartPass
  <2>2. RowsTyped(rows) /\ source_id \in Nat
    BY DEF PassInv, RowsInv, RowsTyped
  <2>3. /\ \A y \in DOMAIN rows : kept[y] = rows[y]
        /\ \A y \in DOMAIN kept \ DOMAIN rows : kept[y] = NewRow
    BY <2>2, EnsuredRows
  <2> HIDE DEF kept, row
  <2>4. x \in DOMAIN kept /\ rows'[x] = kept[x]
    BY <1>2, <1>4, <2>1 DEF LiveIn
  <2>5. kept[x].source = source_id
    BY <1>1, <1>2, <1>4, <2>4 DEF LiveIn
  <2>6. x \in DOMAIN rows
    BY <2>2, <2>3, <2>4, <2>5, NewRowFields DEF None
  <2>7. x \in Live
    BY <2>3, <2>5, <2>6 DEF Live
  <2> QED  BY <2>1, <2>7 DEF PassInv, RowsInv
<1>5. Live' = {s}
  BY <1>3, <1>4
<1>6. Cardinality(Live') = 1
  BY <1>5, FS_Singleton
<1>7. 1 \in 1 .. Cardinality(States)
  <2>1. Cardinality(States) \in Nat /\ States # {}
    BY SDAssumption, FS_CardinalityType
  <2>2. Cardinality(States) # 0
    BY <2>1, SDAssumption, FS_EmptySet
  <2> QED  BY <2>1, <2>2
<1>8. one \in D[1] /\ one \in K
  BY <1>7 DEF Lasting, one
<1> QED  BY <1>1, <1>3, <1>5, <1>6, <1>8 DEF FreshInv


\* The state dequeued takes its radder along.
LEMMA DequeueFresh ==
    ASSUME PassInv, DequeueState, NEW K, NEW D, Lasting(semiring, fst, K, D), FreshInv(K, D)
    PROVE  FreshInv(K, D)'
<1> DEFINE h == Dequeued(state_queue)
           n == Cardinality(Live)
<1>1. /\ pc = "dequeue" /\ pc' = "relax" /\ state' = h /\ pos' = 1
      /\ ~ IsEmpty(state_queue) /\ r' = rows[h].radder
      /\ UNCHANGED <<semiring, fst, retain, source_id, source>>
      /\ rows' = [rows EXCEPT ![h].enqueued = FALSE, ![h].radder = zero]
  BY DEF DequeueState
<1>2. h \in Waiting(state_queue)
  BY <1>1, Dequeues, StatesAreNaturals DEF PassInv, QueueReady
<1> HIDE DEF h
<1>3. h \in Live /\ RowsTyped(rows)
  BY <1>1, <1>2 DEF PassInv, RowsInv, RowsTyped
<1>4. h \in DOMAIN rows
  BY <1>3 DEF Live
<1>5. DOMAIN rows[h] = {"distance", "adder", "radder", "enqueued", "source"}
  BY <1>3, <1>4, NewRowFields DEF RowsTyped
<1>6. /\ DOMAIN rows' = DOMAIN rows /\ \A x \in DOMAIN rows \ {h} : rows'[x] = rows[x]
      /\ rows'[h].source = rows[h].source /\ rows'[h].radder = zero
  BY <1>1, <1>4, <1>5
<1>7. Live' = Live
  <2>1. \A x \in DOMAIN rows : rows'[x].source = rows[x].source
    BY <1>6
  <2>2. source_id' = source_id /\ retain' = retain
    BY <1>1
  <2> QED  BY <1>6, <2>1, <2>2 DEF Live
<1>8. /\ source \in Live
      /\ \A s \in Live : /\ rows[s].radder \in K
                         /\ rows[s].radder \in D[n] \/ Led(fst, s, Past(fst, s), Live)
  BY <1>1 DEF FreshInv
<1>9. zero \in K
  BY DEF Lasting, zero
<1>10. Led(fst, h, 1, Live)
  <2>1. h \in States
    BY <1>3, <1>4 DEF RowsTyped
  <2>2. \A i \in DOMAIN fst.trs[h] : ~ (i < 1)
    BY <2>1 DEF PassInv, FstTyped
  <2> QED  BY <2>2 DEF Led
<1>11. ASSUME NEW s \in Live
       PROVE  /\ rows'[s].radder \in K
              /\ s = h \/ rows'[s].radder \in D[n] \/ Led(fst, s, Past(fst, s), Live)
  <2>1. CASE s = h
    BY <1>6, <1>9, <2>1
  <2>2. CASE s # h
    <3>1. rows'[s] = rows[s]
      BY <1>6, <2>2 DEF Live
    <3> QED  BY <1>8, <3>1
  <2> QED  BY <2>1, <2>2
<1> HIDE DEF n
<1> QED  BY <1>1, <1>3, <1>7, <1>8, <1>10, <1>11 DEF FreshInv, n

\* The next transition, or the end of the state.
LEMMA ExaminedLeads ==
    ASSUME PassInv, pc = "relax", pos <= Len(fst.trs[state]), Examined, NEW A,
           Led(fst, state, pos, A),
           Keep(fst.trs[state][pos]) => fst.trs[state][pos].nextstate \in A
    PROVE  IF pc' = "relax" THEN pos' = pos + 1 /\ Led(fst, state, pos + 1, A)
                            ELSE Led(fst, state, Past(fst, state), A)
<1> DEFINE out == fst.trs[state]
<1>1. /\ pos \in DOMAIN out /\ pos \in Nat /\ Len(out) \in Nat /\ state \in States
  BY RelaxFacts
<1>2. Len(out) \in Nat /\ DOMAIN out = 1 .. Len(out)
  BY <1>1 DEF PassInv, FstTyped
<1>3. Led(fst, state, pos + 1, A)
  <2>1. \A i \in DOMAIN out : i < pos + 1 => i < pos \/ i = pos
    BY <1>1, <1>2
  <2> QED  BY <2>1 DEF Led
<1>4. CASE pos = Len(out)
  BY <1>3, <1>4 DEF Past, Examined
<1>5. CASE pos # Len(out)
  BY <1>3, <1>5 DEF Examined
<1> QED  BY <1>4, <1>5

\* All the transitions of a state being expanded are before the end.
LEMMA LedEverywhere ==
    ASSUME PassInv, pc = "relax", pos <= Len(fst.trs[state]), NEW A,
           Led(fst, state, Past(fst, state), A)
    PROVE  /\ Led(fst, state, pos, A)
           /\ Keep(fst.trs[state][pos]) => fst.trs[state][pos].nextstate \in A
<1> DEFINE out == fst.trs[state]
<1>1. /\ pos \in DOMAIN out /\ pos \in Nat /\ Len(out) \in Nat /\ state \in States
  BY RelaxFacts
<1>2. Len(out) \in Nat /\ DOMAIN out = 1 .. Len(out)
  BY <1>1 DEF PassInv, FstTyped
<1>3. \A i \in DOMAIN out : i < Len(out) + 1
  BY <1>2
<1> QED  BY <1>1, <1>3 DEF Led, Past

\* A row touched is of this pass, and no other becomes so.
LEMMA TouchedLive ==
    ASSUME NEW rs, RowsTyped(rs), source_id \in Nat, retain, NEW s \in States
    PROVE  /\ LiveIn(Touched(rs, s)) = LiveIn(rs) \cup {s}
           /\ s \notin LiveIn(rs) =>
                /\ Touched(rs, s)[s].distance = zero
                /\ Touched(rs, s)[s].adder = zero /\ Touched(rs, s)[s].radder = zero
<1> DEFINE e == Ensured(rs, s)
           t == Touched(rs, s)
           fresh == [NewRow EXCEPT !.source = source_id]
<1>1. /\ s \in DOMAIN e /\ DOMAIN rs \subseteq DOMAIN e
      /\ \A x \in DOMAIN rs : e[x] = rs[x]
      /\ \A x \in DOMAIN e \ DOMAIN rs : e[x] = NewRow
  BY EnsuredRows
<1>2. /\ fresh.source = source_id
      /\ fresh.distance = zero /\ fresh.adder = zero /\ fresh.radder = zero
  BY NewRowFields
<1>3. LiveIn(e) = LiveIn(rs)
  <2> HIDE DEF e
  <2>1. \A x \in DOMAIN e \ DOMAIN rs : e[x].source # source_id
    BY <1>1, NewRowFields DEF None
  <2> QED  BY <1>1, <2>1 DEF LiveIn
<1>4. CASE e[s].source # source_id
  <2>1. t = [e EXCEPT ![s] = fresh]
    BY <1>4 DEF Touched
  <2> HIDE DEF e, fresh, t
  <2>2. DOMAIN t = DOMAIN e /\ t[s] = fresh /\ \A x \in DOMAIN e \ {s} : t[x] = e[x]
    BY <1>1, <2>1
  <2>3. LiveIn(t) = LiveIn(e) \cup {s}
    BY <1>1, <1>2, <2>2 DEF LiveIn
  <2> QED  BY <1>2, <1>3, <2>2, <2>3 DEF t
<1>5. CASE e[s].source = source_id
  <2>1. t = e
    BY <1>5 DEF Touched
  <2>2. s \in LiveIn(e)
    BY <1>1, <1>5 DEF LiveIn
  <2> HIDE DEF e, t
  <2> QED  BY <1>3, <2>1, <2>2 DEF t
<1> QED  BY <1>4, <1>5

\* A state without a row of this pass, met by the one being expanded: the
\* weight that reaches it is not lost.
LEMMA NextReached ==
    ASSUME PassInv, retain, pc = "relax", pos <= Len(fst.trs[state]),
           Keep(fst.trs[state][pos]), fst.trs[state][pos].nextstate \notin Live,
           NEW K, NEW D, Lasting(semiring, fst, K, D), FreshInv(K, D)
    PROVE  LET tr == fst.trs[state][pos]
               n == Cardinality(Live)
               weight == Mul(r, tr.weight)
           IN  /\ r \in D[n] /\ Led(fst, state, pos, Live)
               /\ n \in 1 .. Cardinality(States) /\ n + 1 \in 1 .. Cardinality(States)
               /\ Cardinality(Live \cup {tr.nextstate}) = n + 1
               /\ weight \in D[n + 1] /\ weight \in K
               /\ Add(zero, weight) = weight /\ ~ Same(zero, weight)
<1> DEFINE tr == fst.trs[state][pos]
           n == Cardinality(Live)
           weight == Mul(r, tr.weight)
<1>1. /\ state \in States /\ pos \in DOMAIN fst.trs[state] /\ tr.nextstate \in States
  BY RelaxFacts
<1>2. r \in D[n] /\ Led(fst, state, pos, Live)
  BY LedEverywhere DEF FreshInv
<1>3. Live # {}
  BY DEF FreshInv
<1>4. n \in 1 .. Cardinality(States) /\ IsFiniteSet(Live) /\ Live \subseteq States
  BY <1>3, LiveCounts
<1>5. Cardinality(Live \cup {tr.nextstate}) = n + 1
  BY <1>4, FS_AddElement
<1>6. n + 1 \in 1 .. Cardinality(States)
  <2>1. Live \cup {tr.nextstate} \subseteq States
    BY <1>1, <1>4
  <2>2. Cardinality(Live \cup {tr.nextstate}) <= Cardinality(States)
    BY <2>1, SDAssumption, FS_Subset
  <2>3. Cardinality(States) \in Nat
    BY SDAssumption, FS_CardinalityType
  <2> HIDE DEF n, tr
  <2> QED  BY <1>4, <1>5, <2>2, <2>3
<1>7. weight \in D[n + 1]
  BY <1>1, <1>2, <1>4, <1>6, LastsOnward DEF Mul
<1>8. D[n + 1] \subseteq K /\ (\A x \in D[n + 1] : ~ ApproxEqual(semiring, Zero(semiring), x))
      /\ \A x \in K : Plus(semiring, Zero(semiring), x) = x
  BY <1>6, Lasts
<1> HIDE DEF n, weight, tr
<1>9. weight \in K /\ Add(zero, weight) = weight /\ ~ Same(zero, weight)
  BY <1>7, <1>8 DEF Add, Same, zero
<1> QED  BY <1>2, <1>4, <1>5, <1>6, <1>7, <1>9 DEF n, weight, tr

\* A transition that changes nothing leads to a state that has a row.
LEMMA NothingFresh ==
    ASSUME PassInv, retain, RelaxNothing, NEW K, NEW D,
           Lasting(semiring, fst, K, D), FreshInv(K, D)
    PROVE  FreshInv(K, D)'
<1> DEFINE tr == fst.trs[state][pos]
           next == tr.nextstate
           t == Touched(rows, next)
           n == Cardinality(Live)
<1>1. /\ pc = "relax" /\ pos <= Len(fst.trs[state]) /\ Examined
      /\ UNCHANGED <<semiring, fst, retain, source_id, state, r, source>>
      /\ \/ ~ Keep(tr) /\ rows' = rows
         \/ /\ Keep(tr) /\ rows' = t
            /\ Same(t[next].distance, Add(t[next].distance, Mul(r, tr.weight)))
  BY DEF RelaxNothing
<1>2. /\ next \in States /\ RowsTyped(rows) /\ source_id \in Nat /\ Live = LiveIn(rows)
      /\ pc' = "dequeue" \/ pc' = "relax"
  BY <1>1, RelaxFacts
<1>3. Keep(tr) => next \in Live
  <2> SUFFICES ASSUME Keep(tr), next \notin Live PROVE FALSE
    OBVIOUS
  <2>1. t[next].distance = zero
    BY <1>2, TouchedLive
  <2>2. Add(zero, Mul(r, tr.weight)) = Mul(r, tr.weight) /\ ~ Same(zero, Mul(r, tr.weight))
    BY <1>1, NextReached
  <2> QED  BY <1>1, <2>1, <2>2
<1>4. Live' = Live /\ \A s \in Live : rows'[s] = rows[s]
  <2>1. Live' = LiveIn(rows')
    BY <1>1 DEF Live, LiveIn
  <2>2. LiveIn(t) = Live \cup {next} /\ \A s \in Live : t[s] = rows[s]
    BY <1>2, TouchedLive, TouchedRows
  <2> HIDE DEF t
  <2> QED  BY <1>1, <1>2, <1>3, <2>1, <2>2
<1>5. /\ source \in Live /\ r \in K
      /\ \A s \in Live : /\ rows[s].radder \in K
                         /\ \/ s = state
                            \/ rows[s].radder \in D[n]
                            \/ Led(fst, s, Past(fst, s), Live)
      /\ \/ r \in D[n] /\ Led(fst, state, pos, Live)
         \/ Led(fst, state, Past(fst, state), Live)
  BY <1>1 DEF FreshInv
<1>6. \/ pc' = "relax" /\ r \in D[n] /\ Led(fst, state, pos', Live)
      \/ Led(fst, state, Past(fst, state), Live)
  <2>1. Led(fst, state, pos, Live) => \/ pc' = "relax" /\ Led(fst, state, pos', Live)
                                      \/ Led(fst, state, Past(fst, state), Live)
    BY <1>1, <1>3, ExaminedLeads
  <2> QED  BY <1>5, <2>1
<1> HIDE DEF n
<1> QED  BY <1>1, <1>2, <1>4, <1>5, <1>6 DEF FreshInv, n

\* What RelaxMore does to the rows of this pass.
LEMMA MoreRows ==
    ASSUME PassInv, retain, RelaxMore
    PROVE  LET tr == fst.trs[state][pos]
               next == tr.nextstate
           IN  /\ Live' = Live \cup {next}
               /\ \A s \in Live \ {next} : rows'[s] = rows[s]
               /\ rows'[next].radder = Add(IF next \in Live THEN rows[next].radder ELSE zero,
                                           Mul(r, tr.weight))
<1> DEFINE tr == fst.trs[state][pos]
           next == tr.nextstate
           t == Touched(rows, next)
           weight == Mul(r, tr.weight)
           waits == t[state].enqueued
           u == [t EXCEPT ![next].adder = Add(@, weight),
                          ![next].distance = Add(t[next].adder, weight),
                          ![next].radder = Add(@, weight),
                          ![next].enqueued = @ \/ ~ waits]
<1>1. /\ pc = "relax" /\ pos <= Len(fst.trs[state])
      /\ UNCHANGED <<semiring, fst, retain, source_id>>
  BY DEF RelaxMore
<1>2. rows' = u
  BY Zenon DEF RelaxMore
<1>3. next \in States /\ RowsTyped(rows) /\ source_id \in Nat /\ Live = LiveIn(rows)
  BY <1>1, RelaxFacts
<1> HIDE DEF weight, waits, next, u
<1>4. /\ LiveIn(t) = Live \cup {next}
      /\ next \notin Live => t[next].radder = zero
  BY <1>3, TouchedLive
<1>5. /\ RowsTyped(t) /\ next \in DOMAIN t
      /\ \A s \in Live : t[s] = rows[s]
  BY <1>3, TouchedRows
<1> HIDE DEF t
<1>6. DOMAIN t[next] = {"distance", "adder", "radder", "enqueued", "source"}
  BY <1>5, NewRowFields DEF RowsTyped
<1>7. /\ DOMAIN u = DOMAIN t /\ \A x \in DOMAIN t \ {next} : u[x] = t[x]
      /\ DOMAIN u[next] = DOMAIN t[next] /\ u[next].source = t[next].source
      /\ u[next].radder = Add(t[next].radder, weight)
  BY <1>5, <1>6, RelaxedRows, Zenon DEF u
<1>8. Live' = LiveIn(rows')
  BY <1>1 DEF Live, LiveIn
<1>9. LiveIn(u) = LiveIn(t)
  BY <1>7 DEF LiveIn
<1>10. \A s \in Live \ {next} : u[s] = rows[s]
  <2>1. Live \subseteq DOMAIN t
    BY <1>4 DEF LiveIn
  <2> QED  BY <1>5, <1>7, <2>1
<1>11. t[next].radder = IF next \in Live THEN rows[next].radder ELSE zero
  BY <1>4, <1>5
<1> QED  BY <1>2, <1>4, <1>7, <1>8, <1>9, <1>10, <1>11 DEF weight, next

\* A transition that changes the distance of its destination: if the
\* destination had no row, there are more of them, and its radder lasts.
LEMMA MoreFresh ==
    ASSUME PassInv, retain, RelaxMore, NEW K, NEW D,
           Lasting(semiring, fst, K, D), FreshInv(K, D)
    PROVE  FreshInv(K, D)'
<1> DEFINE tr == fst.trs[state][pos]
           next == tr.nextstate
           weight == Mul(r, tr.weight)
           n == Cardinality(Live)
           m == Cardinality(Live')
<1>1. /\ pc = "relax" /\ pos <= Len(fst.trs[state]) /\ Examined /\ Keep(tr)
      /\ UNCHANGED <<semiring, fst, retain, source_id, state, r, source>>
  BY DEF RelaxMore
<1>2. /\ state \in States /\ pos \in DOMAIN fst.trs[state] /\ state \in Live
      /\ pc' = "dequeue" \/ pc' = "relax"
  BY <1>1, RelaxFacts
<1>3. /\ Live' = Live \cup {next}
      /\ \A s \in Live \ {next} : rows'[s] = rows[s]
      /\ rows'[next].radder = Add(IF next \in Live THEN rows[next].radder ELSE zero, weight)
  BY MoreRows
<1>4. /\ source \in Live /\ r \in K
      /\ \A s \in Live : /\ rows[s].radder \in K
                         /\ \/ s = state
                            \/ rows[s].radder \in D[n]
                            \/ Led(fst, s, Past(fst, s), Live)
      /\ \/ r \in D[n] /\ Led(fst, state, pos, Live)
         \/ Led(fst, state, Past(fst, state), Live)
  BY <1>1 DEF FreshInv
<1>5. n \in 1 .. Cardinality(States)
  BY <1>4, LiveCounts
<1>6. next \notin Live => /\ r \in D[n] /\ Led(fst, state, pos, Live)
                          /\ n + 1 \in 1 .. Cardinality(States) /\ m = n + 1
                          /\ weight \in D[n + 1] /\ Add(zero, weight) = weight
  BY <1>1, <1>3, NextReached
<1>7. m \in 1 .. Cardinality(States) /\ D[n] \subseteq D[m]
  <2>1. CASE next \in Live
    <3>1. m = n
      BY <1>3, <2>1
    <3> QED  BY <1>5, <3>1
  <2>2. CASE next \notin Live
    <3>1. n + 1 \in 1 .. Cardinality(States) /\ m = n + 1
      BY <1>6, <2>2
    <3>2. D[n] \subseteq D[n + 1]
      BY <1>5, <3>1, Lasts
    <3> QED  BY <3>1, <3>2
  <2> QED  BY <2>1, <2>2
<1>8. weight \in K
  BY <1>1, <1>2, <1>4, <1>5, LastsOnward DEF Mul
<1>9. /\ zero \in K /\ D[m] \subseteq K
      /\ \A x, y \in K : Add(x, y) \in K
      /\ \A x \in D[m], y \in K : Add(x, y) \in D[m] /\ Add(y, x) \in D[m]
  BY <1>7, Lasts DEF zero, Add
<1>10. Live \subseteq Live' /\ next \in Live'
  BY <1>3
<1> HIDE DEF n, m, weight, next
<1>11. ASSUME NEW s \in Live'
       PROVE  /\ rows'[s].radder \in K
              /\ \/ s = state
                 \/ rows'[s].radder \in D[m]
                 \/ Led(fst, s, Past(fst, s), Live')
  <2>1. CASE s # next
    <3>1. s \in Live /\ rows'[s] = rows[s]
      BY <1>3, <2>1
    <3>2. Led(fst, s, Past(fst, s), Live) => Led(fst, s, Past(fst, s), Live')
      BY <1>10, LedGrows
    <3> QED  BY <1>4, <1>7, <3>1, <3>2
  <2>2. CASE s = next /\ next \in Live
    <3>1. rows'[s].radder = Add(rows[s].radder, weight) /\ rows[s].radder \in K
      BY <1>3, <1>4, <2>2
    <3>2. rows'[s].radder \in K
      BY <1>8, <1>9, <3>1
    <3>3. rows[s].radder \in D[n] => rows'[s].radder \in D[m]
      BY <1>7, <1>8, <1>9, <3>1
    <3>4. Led(fst, s, Past(fst, s), Live) => Led(fst, s, Past(fst, s), Live')
      BY <1>10, LedGrows
    <3> QED  BY <1>4, <2>2, <3>2, <3>3, <3>4
  <2>3. CASE s = next /\ next \notin Live
    <3>1. rows'[s].radder = weight /\ weight \in D[m]
      BY <1>3, <1>6, <2>3
    <3> QED  BY <1>8, <3>1
  <2> QED  BY <2>1, <2>2, <2>3
<1>12. \/ pc' = "relax" /\ r \in D[m] /\ Led(fst, state, pos', Live')
       \/ Led(fst, state, Past(fst, state), Live')
  <2>1. CASE Led(fst, state, Past(fst, state), Live)
    BY <1>10, <2>1, LedGrows
  <2>2. CASE r \in D[n] /\ Led(fst, state, pos, Live)
    <3>1. Led(fst, state, pos, Live')
      BY <1>10, <2>2, LedGrows
    <3>2. \/ pc' = "relax" /\ Led(fst, state, pos', Live')
          \/ Led(fst, state, Past(fst, state), Live')
      BY <1>1, <1>10, <3>1, ExaminedLeads DEF next
    <3> QED  BY <1>7, <2>2, <3>2
  <2> QED  BY <1>4, <2>1, <2>2
<1> QED  BY <1>1, <1>2, <1>4, <1>10, <1>11, <1>12 DEF FreshInv, m

LEMMA NoneFresh ==
    ASSUME PassInv, RelaxNone, NEW K, NEW D, FreshInv(K, D)
    PROVE  FreshInv(K, D)'
<1>1. /\ pc = "relax" /\ pc' = "dequeue" /\ fst.trs[state] = <<>>
      /\ UNCHANGED <<fst, rows, retain, source_id, source, state, r>>
  BY DEF RelaxNone
<1>2. Live' = Live
  BY <1>1 DEF Live
<1>3. Led(fst, state, Past(fst, state), Live)
  BY <1>1 DEF Led
<1> QED  BY <1>1, <1>2, <1>3 DEF FreshInv

\* The rows of the pass that ended last.
Found == {s \in DOMAIN rows : rows[s].source = source_id - 1}

LeadsWithin(m, A) == \A s \in A : Led(m, s, Past(m, s), A)

\* No weight waits any more: everything the source leads to has been found.
LEMMA EndFound ==
    ASSUME PassInv, retain, EndPass, NEW K, NEW D, Lasting(semiring, fst, K, D), FreshInv(K, D)
    PROVE  Found' = Live /\ source \in Live /\ LeadsWithin(fst, Live)
<1>1. /\ pc = "dequeue" /\ IsEmpty(state_queue)
      /\ source_id' = source_id + 1 /\ rows' = rows
  BY DEF EndPass
<1>2. Found' = Live
  <2>1. source_id' - 1 = source_id
    BY <1>1 DEF PassInv, RowsInv
  <2> QED  BY <1>1, <2>1 DEF Found, Live
<1>3. \A s \in Live : rows[s].radder = zero
  BY <1>1 DEF PassInv, QueueFaithful, WellFormed
<1>4. /\ source \in Live
      /\ \A s \in Live : \/ rows[s].radder \in D[Cardinality(Live)]
                         \/ Led(fst, s, Past(fst, s), Live)
  BY <1>1 DEF FreshInv
<1>5. Cardinality(Live) \in 1 .. Cardinality(States)
  BY <1>4, LiveCounts
<1>6. \A x \in D[Cardinality(Live)] : x # zero
  BY <1>5, Lasts DEF zero
<1> QED  BY <1>2, <1>3, <1>4, <1>6 DEF LeadsWithin

-----------------------------------------------------------------------------
(* Between passes: the queue that is chosen, and the machine rewritten.    *)

LEMMA FifoReady ==
    /\ QueueInv(NewList("fifo"), States) /\ NewList("fifo").kind = "fifo"
    /\ Waiting(NewList("fifo")) = {}
<1>1. /\ DOMAIN NewList("fifo") = {"kind", "items"}
      /\ NewList("fifo").kind = "fifo" /\ NewList("fifo").items = <<>>
  BY DEF NewList
<1>2. ListInv(NewList("fifo"), States)
  <2>1. <<>> \in Seq(States)
    OBVIOUS
  <2> QED  BY <1>1, <2>1 DEF ListInv
<1>3. Waiting(NewList("fifo")) = {}
  BY <1>1 DEF Waiting, Range
<1> QED  BY <1>1, <1>2, <1>3 DEF QueueInv

LEMMA NewReady ==
    ASSUME SDNew, LoopsHarmless, state_queue = NewList("fifo")
    PROVE  IInv
<1>1. /\ semiring \in Semirings /\ fst \in Fsts(semiring) /\ retain \in Retains
      /\ rows = NoRows /\ source_id = 0 /\ pc = "idle"
  BY DEF SDNew
<1>2. /\ QueueInv(state_queue, States) /\ state_queue.kind = "fifo"
      /\ Waiting(state_queue) = {}
  BY FifoReady
<1>3. DOMAIN rows = {}
  BY <1>1 DEF NoRows
<1>4. RowsInv
  BY <1>1, <1>2, <1>3 DEF RowsInv, Live
<1>5. QueueReady
  BY <1>2 DEF QueueReady
<1>6. QueueFaithful
  BY <1>1, <1>2, Answers, StatesAreNaturals DEF QueueFaithful
<1>7. FstTyped(fst) /\ retain \in BOOLEAN
  BY <1>1, FstsAssumption, SDAssumption
<1>8. PassInv
  BY <1>1, <1>4, <1>5, <1>6, <1>7 DEF PassInv
<1>9. LoopHarmless(semiring, fst) /\ LoopInv
  BY <1>1 DEF LoopsHarmless, LoopInv
<1> QED  BY <1>8, <1>9 DEF IInv

\* AutoQueue::new in place of the queue that was there.
LEMMA ChoiceKeeps ==
    ASSUME IInv, pc = "idle", state_queue' \in AutoQueues(fst),
           UNCHANGED <<semiring, fst, retain, rows, source_id, pc, state, r, pos>>
    PROVE  IInv'
<1>1. Ready(state_queue', fst)
  BY AutoQueueReady
<1>2. KeptArcs(fst)' = KeptArcs(fst) /\ NewRow' = NewRow /\ Live' = Live
  BY DEF KeptArcs, Keep, NewRow, zero, Live
<1>3. QueueReady'
  BY <1>1, <1>2 DEF Ready, QueueReady
<1>4. RowsInv'
  BY <1>1, <1>2 DEF Ready, IInv, PassInv, RowsInv
<1>5. QueueFaithful'
  <2>1. WellFormed(state_queue')
    BY <1>1, Answers, StatesAreNaturals DEF Ready
  <2> QED  BY <2>1 DEF QueueFaithful
<1>6. PassInv'
  BY <1>3, <1>4, <1>5 DEF IInv, PassInv
<1>7. LoopHarmless(semiring, fst)' /\ LoopInv'
  BY LoopPrimed DEF IInv, LoopInv
<1> QED  BY <1>6, <1>7 DEF IInv

\* m with the transitions of some states replaced by ones that are not kept.
Thinner(m, n) ==
    \A s \in States : \/ n.trs[s] = m.trs[s]
                      \/ \A i \in DOMAIN n.trs[s] : ~ Keep(n.trs[s][i])

LEMMA ThinnerFacts ==
    ASSUME NEW m, NEW n, Thinner(m, n), NEW w
    PROVE  /\ KeptArcs(n) \subseteq KeptArcs(m)
           /\ LoopHarmless(w, m) => LoopHarmless(w, n)
           /\ \A K, D : Lasting(w, m, K, D) => Lasting(w, n, K, D)
<1>1. ASSUME NEW s \in States, NEW i \in DOMAIN n.trs[s], Keep(n.trs[s][i])
      PROVE  n.trs[s] = m.trs[s]
  BY <1>1 DEF Thinner
<1>2. KeptArcs(n) \subseteq KeptArcs(m)
  BY <1>1 DEF KeptArcs
<1>3. LoopsLast(m) => LoopsLast(n)
  BY <1>1 DEF LoopsLast
<1>4. \A E : Weighs(m, E) => Weighs(n, E)
  BY <1>1 DEF Weighs
<1>5. ASSUME NEW K, NEW D, Lasting(w, m, K, D) PROVE Lasting(w, n, K, D)
  BY <1>1, <1>5 DEF Lasting
<1> QED  BY <1>2, <1>3, <1>4, <1>5 DEF LoopHarmless

LEMMA ThinnerKeeps ==
    ASSUME IInv, pc = "idle", Thinner(fst, fst'), FstTyped(fst'),
           UNCHANGED <<semiring, retain, state_queue, rows, source_id, pc, state, r, pos>>
    PROVE  IInv'
<1>1. /\ KeptArcs(fst') \subseteq KeptArcs(fst)
      /\ LoopHarmless(semiring, fst')
  BY ThinnerFacts DEF IInv
<1>2. KeptArcs(fst)' = KeptArcs(fst')
  BY DEF KeptArcs, Keep
<1>3. NewRow' = NewRow /\ Live' = Live
  BY DEF NewRow, zero, Live
<1>4. QueueReady'
  BY <1>1, <1>2 DEF IInv, PassInv, QueueReady
<1>5. RowsInv'
  BY <1>3 DEF IInv, PassInv, RowsInv
<1>6. QueueFaithful'
  BY DEF IInv, PassInv, QueueFaithful
<1>7. FstTyped(fst)' <=> FstTyped(fst')
  BY DEF FstTyped
<1>8. PassInv'
  BY <1>4, <1>5, <1>6, <1>7 DEF IInv, PassInv
<1>9. LoopHarmless(semiring, fst)' <=> LoopHarmless(semiring, fst')
  BY DEF LoopHarmless, LoopsLast, Absorbs, Weighs, Keep
<1>10. LoopInv'
  BY DEF LoopInv
<1> QED  BY <1>1, <1>8, <1>9, <1>10 DEF IInv

-----------------------------------------------------------------------------
(* The walk of an epsilon closure.                                         *)

LEMMA SeqInRange ==
    ASSUME NEW S, NEW f \in Seq(S)
    PROVE  /\ f \in Seq(Range(f)) /\ Len(f) \in Nat /\ DOMAIN f = 1 .. Len(f)
           /\ Range(f) \subseteq S
<1>1. Len(f) \in Nat /\ DOMAIN f = 1 .. Len(f) /\ f = [i \in 1 .. Len(f) |-> f[i]]
  OBVIOUS
<1>2. \A i \in DOMAIN f : f[i] \in Range(f) /\ f[i] \in S
  BY DEF Range
<1>3. f \in [1 .. Len(f) -> Range(f)]
  BY <1>1, <1>2
<1>4. Range(f) \subseteq S
  BY <1>2 DEF Range
<1>5. f \in Seq(Range(f))
  <2> DEFINE T == Range(f)
  <2>1. f \in [1 .. Len(f) -> T] /\ Len(f) \in Nat
    BY <1>1, <1>3
  <2> HIDE DEF T
  <2>2. f \in Seq(T)
    BY <2>1
  <2> QED  BY <2>2 DEF T
<1> QED  BY <1>1, <1>4, <1>5

Walked(base, f) == FoldLeft(ExamineTr, base, f)

\* The left fold of ExamineTr goes through the transitions one by one.
LEMMA FoldPrefixes ==
    ASSUME NEW count \in Nat, NEW f, DOMAIN f = 1 .. count, NEW base
    PROVE  \E s : /\ s[0] = base
                  /\ \A i \in 1 .. count : s[i] = ExamineTr(s[i - 1], f[i])
                  /\ Walked(base, f) = s[count]
<1> DEFINE Def(g, n) == [s \in SUBSET (1 .. n) |->
                           IF s = {} THEN base ELSE ExamineTr(g[s \ {Max(s)}], f[Max(s)])]
           Bad == {n \in 0 .. count : ~ \E g : g = Def(g, n)}
           iter == CHOOSE g : g = Def(g, count)
<1>1. Walked(base, f) = iter[1 .. count]
  BY DEF Walked, FoldLeft, MapThenFoldSet
<1>2. Bad = {}
  <2> SUFFICES ASSUME Bad # {} PROVE FALSE
    OBVIOUS
  <2>1. PICK m \in Bad : \A n \in Bad : m <= n
    <3>1. Bad \in SUBSET Nat
      OBVIOUS
    <3> HIDE DEF Bad
    <3> QED  BY <3>1, LeastNatural
  <2>2. m # 0
    <3> SUFFICES ASSUME m = 0 PROVE FALSE
      OBVIOUS
    <3> DEFINE g == [s \in SUBSET (1 .. 0) |-> base]
    <3>1. \A s \in SUBSET (1 .. 0) : s = {}
      OBVIOUS
    <3>2. g = Def(g, 0)
      BY <3>1
    <3>3. \E x : x = Def(x, 0)
      <4> HIDE DEF g, Def
      <4> QED  BY <3>2
    <3> HIDE DEF g, Def
    <3> QED  BY <2>1, <3>3
  <2>3. m \in 1 .. count /\ m - 1 \in 0 .. count /\ m - 1 \notin Bad
    <3>1. m \in 0 .. count
      OBVIOUS
    <3>2. m \in 1 .. count /\ m - 1 \in 0 .. count /\ m - 1 < m
      BY <2>2, <3>1
    <3> HIDE DEF Bad
    <3> QED  BY <2>1, <3>2
  <2>4. PICK g : g = Def(g, m - 1)
    BY <2>3
  <2> HIDE DEF Bad
  <2> DEFINE h == [s \in SUBSET (1 .. m) |->
                     IF m \in s THEN ExamineTr(g[s \ {m}], f[m]) ELSE g[s]]
  <2>5. ASSUME NEW s \in SUBSET (1 .. m), m \notin s PROVE s \in SUBSET (1 .. m - 1)
    BY <2>3, <2>5
  <2>6. ASSUME NEW s \in SUBSET (1 .. m), m \in s
        PROVE  s \ {m} \in SUBSET (1 .. m - 1) /\ Max(s) = m
    <3>1. Max(s) \in s /\ m <= Max(s)
      <4>1. m \in Nat /\ s # {}
        BY <2>3, <2>6
      <4> QED  BY <2>6, <4>1, MaxOfSome
    <3>2. \A x \in s : x \in 1 .. m
      OBVIOUS
    <3>3. Max(s) = m
      <4>1. Max(s) \in 1 .. m /\ m <= Max(s)
        BY <3>1, <3>2
      <4> QED  BY <2>3, <4>1
    <3>4. \A x \in 1 .. m : x = m \/ x \in 1 .. m - 1
      BY <2>3
    <3> QED  BY <3>2, <3>3, <3>4
  <2>7. ASSUME NEW s \in SUBSET (1 .. m)
        PROVE  h[s] = IF s = {} THEN base ELSE ExamineTr(h[s \ {Max(s)}], f[Max(s)])
    <3>1. CASE m \in s
      <4>1. Max(s) = m /\ s \ {m} \in SUBSET (1 .. m) /\ m \notin s \ {m}
        BY <2>6, <3>1
      <4>2. h[s \ {m}] = g[s \ {m}] /\ h[s] = ExamineTr(g[s \ {m}], f[m])
        BY <3>1, <4>1
      <4> HIDE DEF h
      <4> QED  BY <3>1, <4>1, <4>2
    <3>2. CASE m \notin s
      <4>1. s \in SUBSET (1 .. m - 1)
        BY <2>5, <3>2
      <4>2. h[s] = g[s]
        BY <3>2
      <4>3. s \ {Max(s)} \in SUBSET (1 .. m) /\ m \notin s \ {Max(s)}
        BY <3>2
      <4>4. h[s \ {Max(s)}] = g[s \ {Max(s)}]
        BY <4>3
      <4> HIDE DEF h
      <4>5. g[s] = IF s = {} THEN base ELSE ExamineTr(g[s \ {Max(s)}], f[Max(s)])
        BY <2>4, <4>1
      <4> QED  BY <4>2, <4>4, <4>5
    <3> QED  BY <3>1, <3>2
  <2>8. DOMAIN h = SUBSET (1 .. m) /\ h = [s \in DOMAIN h |-> h[s]]
    OBVIOUS
  <2>9. h = Def(h, m)
    <3> HIDE DEF h
    <3> QED  BY <2>7, <2>8
  <2> QED  BY <2>1, <2>9 DEF Bad
<1>3. iter = Def(iter, count)
  <2>1. count \in 0 .. count
    OBVIOUS
  <2> HIDE DEF Def
  <2>2. \E g : g = Def(g, count)
    BY <1>2, <2>1
  <2> QED  BY <2>2
<1> HIDE DEF iter
<1> DEFINE s == [k \in 0 .. count |-> iter[1 .. k]]
<1>4. s[0] = base
  <2>1. 1 .. 0 = {} /\ {} \in SUBSET (1 .. count) /\ 0 \in 0 .. count
    OBVIOUS
  <2>2. iter[{}] = base
    BY <1>3, <2>1
  <2> QED  BY <2>1, <2>2
<1>5. ASSUME NEW i \in 1 .. count PROVE s[i] = ExamineTr(s[i - 1], f[i])
  <2>1. 1 .. i \in SUBSET (1 .. count) /\ 1 .. i # {} /\ i \in 0 .. count /\ i - 1 \in 0 .. count
    <3>1. i \in Nat /\ 1 <= i /\ i <= count
      OBVIOUS
    <3>2. i \in 1 .. i
      BY <3>1
    <3>3. \A x \in 1 .. i : x \in 1 .. count
      BY <3>1
    <3>4. i \in 0 .. count /\ i - 1 \in 0 .. count
      BY <3>1
    <3> QED  BY <3>2, <3>3, <3>4
  <2>2. Max(1 .. i) = i
    <3>1. Max(1 .. i) \in 1 .. i /\ \A x \in 1 .. i : x <= Max(1 .. i)
      BY <2>1, MaxOfSome
    <3> QED  BY <3>1
  <2>3. (1 .. i) \ {i} = 1 .. i - 1
    OBVIOUS
  <2>4. iter[1 .. i] = ExamineTr(iter[1 .. i - 1], f[i])
    BY <1>3, <2>1, <2>2, <2>3
  <2> QED  BY <2>1, <2>4
<1>6. s[count] = iter[1 .. count]
  OBVIOUS
<1> QED  BY <1>1, <1>4, <1>5, <1>6

\* Labelled transitions into states.
Labelled(tr) == /\ DOMAIN tr = {"label", "weight", "nextstate"}
                /\ tr.nextstate \in States /\ ~ Keep(tr)

AllLabelled(ts) == ts \in Seq(Range(ts)) /\ \A i \in DOMAIN ts : Labelled(ts[i])

\* The map knows where in ts the transition of each element is, and no entry is
\* of a later expansion.
Placed(ts, map, id) ==
    /\ \A e \in DOMAIN map :
         /\ map[e][1] \in 0 .. id
         /\ map[e][1] = id => map[e][2] \in DOMAIN ts /\ Element(ts[map[e][2]]) = e
    /\ \A i \in DOMAIN ts :
         /\ Element(ts[i]) \in DOMAIN map
         /\ map[Element(ts[i])][1] = id /\ map[Element(ts[i])][2] = i

\* What the walk of states of A has so far.
AccInv(acc, A) == /\ DOMAIN acc = {"queue", "trs", "map"}
                  /\ acc.queue \in Seq(A) /\ AllLabelled(acc.trs)
                  /\ Placed(acc.trs, acc.map, expand_id)

LEMMA AppendFacts ==
    ASSUME NEW S, NEW f \in Seq(S), NEW x
    PROVE  LET g == Append(f, x) IN
           /\ g \in Seq(Range(g)) /\ DOMAIN g = 1 .. Len(f) + 1
           /\ \A i \in 1 .. Len(f) : g[i] = f[i]
           /\ g[Len(f) + 1] = x
           /\ Range(g) \subseteq S \cup {x}
<1> DEFINE g == Append(f, x)
           T == S \cup {x}
<1>1. f \in Seq(T) /\ x \in T
  OBVIOUS
<1> HIDE DEF T
<1>2. g \in Seq(T) /\ Len(g) = Len(f) + 1
  BY <1>1
<1>3. /\ \A i \in 1 .. Len(f) : g[i] = f[i]
      /\ g[Len(f) + 1] = x
  OBVIOUS
<1>4. g \in Seq(Range(g)) /\ DOMAIN g = 1 .. Len(g) /\ Range(g) \subseteq T
  <2> HIDE DEF g
  <2> QED  BY <1>2, SeqInRange
<1> QED  BY <1>2, <1>3, <1>4 DEF T

\* A new element goes to the end, and the map learns where.
LEMMA AddedKeeps ==
    ASSUME expand_id \in Nat, NEW A, NEW acc, AccInv(acc, A), NEW tr, Labelled(tr),
           LET e == Element(tr) IN ~ (e \in DOMAIN acc.map /\ acc.map[e][1] = expand_id)
    PROVE  AccInv(Merged(acc, tr), A)
<1> DEFINE e == Element(tr)
           ts == Append(acc.trs, tr)
           n == Len(acc.trs)
           map == [f \in DOMAIN acc.map \cup {e} |->
                     IF f = e THEN <<expand_id, n + 1>> ELSE acc.map[f]]
           new == [acc EXCEPT !.trs = ts, !.map = map]
<1>1. Merged(acc, tr) = new
  BY DEF Merged
<1>2. /\ DOMAIN acc = {"queue", "trs", "map"} /\ acc.queue \in Seq(A)
      /\ acc.trs \in Seq(Range(acc.trs)) /\ \A i \in DOMAIN acc.trs : Labelled(acc.trs[i])
      /\ Placed(acc.trs, acc.map, expand_id)
  BY DEF AccInv, AllLabelled
<1>3. n \in Nat /\ DOMAIN acc.trs = 1 .. n
  BY <1>2
<1>4. /\ ts \in Seq(Range(ts)) /\ DOMAIN ts = 1 .. n + 1
      /\ \A i \in 1 .. n : ts[i] = acc.trs[i]
      /\ ts[n + 1] = tr
  BY <1>2, AppendFacts
<1>5. /\ DOMAIN map = DOMAIN acc.map \cup {e}
      /\ map[e][1] = expand_id /\ map[e][2] = n + 1
      /\ \A f \in DOMAIN acc.map \ {e} : map[f] = acc.map[f]
  <2> HIDE DEF e, n
  <2> QED  OBVIOUS
<1> HIDE DEF ts, map
<1>6. /\ DOMAIN new = {"queue", "trs", "map"} /\ new.queue = acc.queue
      /\ new.trs = ts /\ new.map = map
  BY <1>2
<1>7. AllLabelled(ts)
  <2>1. \A i \in 1 .. n + 1 : i \in 1 .. n \/ i = n + 1
    BY <1>3
  <2> QED  BY <1>2, <1>3, <1>4, <2>1 DEF AllLabelled
<1>8. \A i \in 1 .. n : Element(acc.trs[i]) # e
  BY <1>2, <1>3 DEF Placed
<1>9. Placed(ts, map, expand_id)
  <2> HIDE DEF e, n
  <2>1. ASSUME NEW f \in DOMAIN map
        PROVE  /\ map[f][1] \in 0 .. expand_id
               /\ map[f][1] = expand_id => map[f][2] \in DOMAIN ts /\ Element(ts[map[f][2]]) = f
    <3>1. CASE f = e
      <4>1. n + 1 \in 1 .. n + 1 /\ expand_id \in 0 .. expand_id
        BY <1>3
      <4> QED  BY <1>4, <1>5, <3>1, <4>1 DEF e
    <3>2. CASE f # e
      <4>1. f \in DOMAIN acc.map /\ map[f] = acc.map[f]
        BY <1>5, <3>2
      <4>2. 1 .. n \subseteq 1 .. n + 1
        BY <1>3
      <4> QED  BY <1>2, <1>3, <1>4, <4>1, <4>2 DEF Placed
    <3> QED  BY <3>1, <3>2
  <2>2. ASSUME NEW i \in DOMAIN ts
        PROVE  /\ Element(ts[i]) \in DOMAIN map
               /\ map[Element(ts[i])][1] = expand_id /\ map[Element(ts[i])][2] = i
    <3>1. CASE i = n + 1
      BY <1>4, <1>5, <3>1 DEF e
    <3>2. CASE i # n + 1
      <4>1. i \in 1 .. n
        BY <1>3, <1>4, <3>2
      <4>2. /\ Element(ts[i]) \in DOMAIN acc.map \ {e}
            /\ acc.map[Element(ts[i])][1] = expand_id /\ acc.map[Element(ts[i])][2] = i
        BY <1>2, <1>3, <1>4, <1>8, <4>1 DEF Placed
      <4> QED  BY <1>5, <4>2
    <3> QED  BY <3>1, <3>2
  <2> QED  BY <2>1, <2>2 DEF Placed
<1> HIDE DEF new
<1> QED  BY <1>1, <1>2, <1>6, <1>7, <1>9 DEF AccInv

\* us is ts, but that its k-th transition weighs x more.
Heavier(us, ts, k, x) ==
    /\ us \in Seq(Range(us)) /\ DOMAIN us = DOMAIN ts
    /\ us[k].weight = Add(ts[k].weight, x)
    /\ \A i \in DOMAIN ts : /\ Element(us[i]) = Element(ts[i])
                            /\ i # k => us[i].weight = ts[i].weight

\* An element met before adds to the transition it has, and nothing else changes.
LEMMA MergedOld ==
    ASSUME NEW A, NEW acc, AccInv(acc, A), NEW tr,
           LET e == Element(tr) IN e \in DOMAIN acc.map /\ acc.map[e][1] = expand_id
    PROVE  LET k == acc.map[Element(tr)][2]
               new == Merged(acc, tr)
           IN  /\ k \in DOMAIN acc.trs /\ Element(acc.trs[k]) = Element(tr)
               /\ DOMAIN new = {"queue", "trs", "map"}
               /\ new.queue = acc.queue /\ new.map = acc.map
               /\ Heavier(new.trs, acc.trs, k, tr.weight)
               /\ \A i \in DOMAIN acc.trs : Labelled(new.trs[i])
<1> DEFINE e == Element(tr)
           k == acc.map[e][2]
           n == Len(acc.trs)
           new == [acc EXCEPT !.trs[k].weight = Add(@, tr.weight)]
<1>1. Merged(acc, tr) = new
  BY DEF Merged
<1>2. /\ DOMAIN acc = {"queue", "trs", "map"}
      /\ acc.trs \in Seq(Range(acc.trs)) /\ \A i \in DOMAIN acc.trs : Labelled(acc.trs[i])
      /\ Placed(acc.trs, acc.map, expand_id)
  BY DEF AccInv, AllLabelled
<1>3. n \in Nat /\ DOMAIN acc.trs = 1 .. n
  BY <1>2
<1>4. k \in DOMAIN acc.trs /\ Element(acc.trs[k]) = e
  BY <1>2 DEF Placed
<1>5. Labelled(acc.trs[k])
  BY <1>2, <1>4
<1> HIDE DEF k, e
<1> DEFINE sum == Add(acc.trs[k].weight, tr.weight)
           ts == [acc.trs EXCEPT ![k] = [acc.trs[k] EXCEPT !.weight = sum]]
<1>6. /\ DOMAIN new = {"queue", "trs", "map"} /\ new.queue = acc.queue
      /\ new.trs = ts /\ new.map = acc.map
  BY <1>2
<1>7. /\ DOMAIN ts = 1 .. n /\ ts = [i \in 1 .. n |-> ts[i]]
      /\ \A i \in 1 .. n : i # k => ts[i] = acc.trs[i]
      /\ ts[k] = [acc.trs[k] EXCEPT !.weight = sum]
  <2> HIDE DEF sum
  <2> QED  BY <1>3, <1>4
<1> HIDE DEF sum
<1>8. /\ DOMAIN ts[k] = DOMAIN acc.trs[k] /\ ts[k].weight = sum
      /\ ts[k].label = acc.trs[k].label /\ ts[k].nextstate = acc.trs[k].nextstate
  BY <1>5, <1>7 DEF Labelled
<1> HIDE DEF ts
<1>9. \A i \in 1 .. n : Labelled(ts[i]) /\ Element(ts[i]) = Element(acc.trs[i])
  <2>1. Labelled(ts[k]) /\ Element(ts[k]) = Element(acc.trs[k])
    BY <1>5, <1>8 DEF Labelled, Element, Keep
  <2> QED  BY <1>2, <1>3, <1>7, <2>1
<1>10. ts \in Seq(Range(ts))
  <2> DEFINE T == Range(ts)
  <2>1. \A i \in 1 .. n : ts[i] \in T
    BY <1>7 DEF Range
  <2> HIDE DEF T
  <2>2. ts \in [1 .. n -> T]
    BY <1>7, <2>1
  <2>3. ts \in Seq(T)
    BY <1>3, <2>2
  <2> QED  BY <2>3 DEF T
<1>11. Heavier(ts, acc.trs, k, tr.weight)
  BY <1>3, <1>7, <1>8, <1>9, <1>10 DEF Heavier, sum
<1> HIDE DEF new
<1> QED  BY <1>1, <1>3, <1>4, <1>6, <1>9, <1>11 DEF k, e

\* The map stays right.
LEMMA WeighedKeeps ==
    ASSUME expand_id \in Nat, NEW A, NEW acc, AccInv(acc, A), NEW tr,
           LET e == Element(tr) IN e \in DOMAIN acc.map /\ acc.map[e][1] = expand_id
    PROVE  AccInv(Merged(acc, tr), A)
<1> DEFINE k == acc.map[Element(tr)][2]
           new == Merged(acc, tr)
<1>1. /\ acc.queue \in Seq(A) /\ \A i \in DOMAIN acc.trs : Labelled(acc.trs[i])
      /\ Placed(acc.trs, acc.map, expand_id)
  BY DEF AccInv, AllLabelled
<1>2. /\ DOMAIN new = {"queue", "trs", "map"}
      /\ new.queue = acc.queue /\ new.map = acc.map
      /\ Heavier(new.trs, acc.trs, k, tr.weight)
      /\ \A i \in DOMAIN acc.trs : Labelled(new.trs[i])
  BY MergedOld
<1> HIDE DEF new, k
<1>3. AllLabelled(new.trs)
  BY <1>2 DEF AllLabelled, Heavier
<1>4. Placed(new.trs, acc.map, expand_id)
  <2> DEFINE us == new.trs
             ts == acc.trs
  <2>1. DOMAIN us = DOMAIN ts /\ \A i \in DOMAIN ts : Element(us[i]) = Element(ts[i])
    BY <1>2 DEF Heavier
  <2>2. Placed(ts, acc.map, expand_id)
    BY <1>1
  <2> HIDE DEF us, ts
  <2> QED  BY <2>1, <2>2 DEF Placed, us
<1> QED  BY <1>1, <1>2, <1>3, <1>4 DEF AccInv, new

LEMMA ExamineKeeps ==
    ASSUME expand_id \in Nat, NEW A, NEW acc, AccInv(acc, A), NEW tr,
           DOMAIN tr = {"label", "weight", "nextstate"}, tr.nextstate \in States,
           Keep(tr) => tr.nextstate \in A
    PROVE  AccInv(ExamineTr(acc, tr), A)
<1>1. CASE ~ Keep(tr)
  <2> DEFINE weight == Mul(DistanceRef(Top), tr.weight)
             weighed == [tr EXCEPT !.weight = weight]
  <2>1. ExamineTr(acc, tr) = Merged(acc, weighed)
    BY <1>1 DEF ExamineTr
  <2> HIDE DEF weight
  <2>2. /\ DOMAIN weighed = DOMAIN tr
        /\ weighed.label = tr.label /\ weighed.nextstate = tr.nextstate
    OBVIOUS
  <2> HIDE DEF weighed
  <2>3. Labelled(weighed)
    BY <1>1, <2>2 DEF Labelled, Keep
  <2> QED  BY <2>1, <2>3, AddedKeeps, WeighedKeeps
<1>2. CASE Keep(tr) /\ tr.nextstate \in visited \cup {Top}
  <2>1. ExamineTr(acc, tr) = acc
    BY <1>2 DEF ExamineTr
  <2> QED  BY <2>1
<1>3. CASE Keep(tr) /\ tr.nextstate \notin visited \cup {Top}
  <2> DEFINE new == [acc EXCEPT !.queue = Append(@, tr.nextstate)]
  <2>1. ExamineTr(acc, tr) = new
    BY <1>3 DEF ExamineTr
  <2>2. DOMAIN acc = {"queue", "trs", "map"} /\ acc.queue \in Seq(A) /\ tr.nextstate \in A
    BY <1>3 DEF AccInv
  <2>3. /\ DOMAIN new = DOMAIN acc /\ new.queue = Append(acc.queue, tr.nextstate)
        /\ new.trs = acc.trs /\ new.map = acc.map
    BY <2>2
  <2> HIDE DEF new
  <2>4. new.queue \in Seq(A)
    BY <2>2, <2>3
  <2> QED  BY <2>1, <2>3, <2>4 DEF AccInv
<1> QED  BY <1>1, <1>2, <1>3

\* The transitions of a state of the closure are examined one by one.
VisitSteps(s, A) ==
    LET f == fst.trs[Top] IN
    /\ s[0] = [queue |-> Popped, trs |-> trs, map |-> element_map]
    /\ \A i \in 1 .. Len(f) : s[i] = ExamineTr(s[i - 1], f[i])
    /\ \A i \in 0 .. Len(f) : AccInv(s[i], A)
    /\ eps_queue' = s[Len(f)].queue /\ trs' = s[Len(f)].trs /\ element_map' = s[Len(f)].map

LEMMA VisitFold ==
    ASSUME FstTyped(fst), expand_id \in Nat, NEW A, A \subseteq States, LeadsWithin(fst, A),
           eps_queue \in Seq(A), eps_queue # <<>>,
           AllLabelled(trs), Placed(trs, element_map, expand_id), WalkState
    PROVE  /\ Len(fst.trs[Top]) \in Nat /\ DOMAIN fst.trs[Top] = 1 .. Len(fst.trs[Top])
           /\ \E s : VisitSteps(s, A)
<1> DEFINE f == fst.trs[Top]
           count == Len(f)
           base == [queue |-> Popped, trs |-> trs, map |-> element_map]
           found == Walked(base, f)
<1>1. eps_queue' = found.queue /\ trs' = found.trs /\ element_map' = found.map
  BY DEF WalkState, Walked
<1>2. Top \in A /\ Popped \in Seq(A)
  BY DEF Top, Popped
<1>3. /\ f \in Seq(Range(f))
      /\ \A i \in DOMAIN f : /\ DOMAIN f[i] = {"label", "weight", "nextstate"}
                             /\ f[i].nextstate \in States
  BY <1>2 DEF FstTyped
<1>4. count \in Nat /\ DOMAIN f = 1 .. count
  BY <1>3
<1>5. ASSUME NEW i \in DOMAIN f, Keep(f[i]) PROVE f[i].nextstate \in A
  <2>1. Led(fst, Top, Past(fst, Top), A)
    BY <1>2 DEF LeadsWithin
  <2>2. i < Past(fst, Top)
    BY <1>4 DEF Past
  <2> QED  BY <1>5, <2>1, <2>2 DEF Led
<1>6. AccInv(base, A)
  <2>1. /\ DOMAIN base = {"queue", "trs", "map"}
        /\ base.queue = Popped /\ base.trs = trs /\ base.map = element_map
    OBVIOUS
  <2> HIDE DEF base
  <2> QED  BY <1>2, <2>1 DEF AccInv
<1> HIDE DEF base, f, count, found
<1>7. PICK s : /\ s[0] = base
               /\ \A i \in 1 .. count : s[i] = ExamineTr(s[i - 1], f[i])
               /\ found = s[count]
  BY <1>4, FoldPrefixes DEF found
<1> DEFINE Good == {i \in Nat : AccInv(s[i], A)}
<1>8. 0 \in Good
  BY <1>6, <1>7
<1>9. ASSUME NEW i \in 1 .. count, i - 1 \in Good PROVE i \in Good
  <2>1. AccInv(s[i - 1], A) /\ s[i] = ExamineTr(s[i - 1], f[i])
    BY <1>7, <1>9
  <2>2. i \in DOMAIN f /\ i \in Nat
    BY <1>4
  <2>3. AccInv(ExamineTr(s[i - 1], f[i]), A)
    <3>1. /\ DOMAIN f[i] = {"label", "weight", "nextstate"} /\ f[i].nextstate \in States
          /\ Keep(f[i]) => f[i].nextstate \in A
      BY <1>3, <1>5, <2>2
    <3> QED  BY <2>1, <3>1, ExamineKeeps
  <2> QED  BY <2>1, <2>2, <2>3
<1>10. \A i \in 0 .. count : i \in Good
  <2>1. Good \in SUBSET Nat
    OBVIOUS
  <2> HIDE DEF Good
  <2> QED  BY <1>4, <1>8, <1>9, <2>1, PrefixInduction
<1>11. VisitSteps(s, A)
  BY <1>1, <1>7, <1>10 DEF VisitSteps, base, f, count
<1> QED  BY <1>4, <1>11 DEF f, count

\* A state of the closure visited: what waits is in the closure, and what is
\* found is where the map says.
LEMMA VisitKeeps ==
    ASSUME FstTyped(fst), expand_id \in Nat, NEW A, A \subseteq States, LeadsWithin(fst, A),
           eps_queue \in Seq(A), eps_queue # <<>>,
           AllLabelled(trs), Placed(trs, element_map, expand_id), WalkState
    PROVE  eps_queue' \in Seq(A) /\ AllLabelled(trs') /\ Placed(trs', element_map', expand_id)
<1> DEFINE n == Len(fst.trs[Top])
<1>1. n \in Nat /\ \E s : VisitSteps(s, A)
  BY VisitFold
<1>2. PICK s : VisitSteps(s, A)
  BY <1>1
<1>3. n \in 0 .. n
  BY <1>1
<1>4. /\ AccInv(s[n], A) /\ eps_queue' = s[n].queue /\ trs' = s[n].trs
      /\ element_map' = s[n].map
  BY <1>2, <1>3 DEF VisitSteps
<1> QED  BY <1>4 DEF AccInv

LEMMA ReverseLabelled ==
    ASSUME NEW ts, AllLabelled(ts)
    PROVE  AllLabelled(Reverse(ts))
<1> DEFINE n == Len(ts)
           rs == Reverse(ts)
           T == Range(rs)
<1>1. n \in Nat /\ DOMAIN ts = 1 .. n
  BY DEF AllLabelled
<1>2. /\ rs = [i \in 1 .. n |-> rs[i]] /\ DOMAIN rs = 1 .. n
      /\ \A i \in 1 .. n : rs[i] = ts[n - i + 1] /\ n - i + 1 \in 1 .. n
  BY <1>1 DEF Reverse
<1> HIDE DEF rs
<1>3. \A i \in DOMAIN rs : Labelled(rs[i])
  BY <1>1, <1>2 DEF AllLabelled
<1>4. \A i \in 1 .. n : rs[i] \in T
  BY <1>2 DEF Range
<1> HIDE DEF T
<1>5. rs \in [1 .. n -> T]
  BY <1>2, <1>4
<1>6. rs \in Seq(T)
  BY <1>1, <1>5
<1> QED  BY <1>3, <1>6 DEF AllLabelled, T, rs

-----------------------------------------------------------------------------
(* The element map, whatever the weights are.                              *)

\* The entries of the map are of earlier expansions.
Aged == \A e \in DOMAIN element_map : element_map[e][1] \in 0 .. expand_id - 1

\* One transition for each label and destination.
Distinct == \A i, j \in DOMAIN trs : Element(trs[i]) = Element(trs[j]) => i = j

\* connect comes last: nothing is expanded after it.
MapInv ==
    /\ noneps_in \subseteq States /\ expand_id \in Nat
    /\ step # "done" => FstTyped(fst)
    /\ step # "walk" => Aged
    /\ step \in {"distance", "walk"} => eps_queue \in Seq(States)
    /\ step = "distance" => trs = <<>>
    /\ step = "walk" => Placed(trs, element_map, expand_id)
    /\ step \in {"walk", "expanded"} => AllLabelled(trs)
    /\ step = "expanded" => Distinct

LEMMA MapPrimed ==
    /\ (FstTyped(fst)' <=> FstTyped(fst'))
    /\ (AllLabelled(trs)' <=> AllLabelled(trs'))
    /\ (Placed(trs, element_map, expand_id)' <=> Placed(trs', element_map', expand_id'))
BY DEF FstTyped, AllLabelled, Labelled, Placed, Keep, Element

\* m with the transitions of some states replaced by ts.
Rewritten(m, n, ts) ==
    /\ DOMAIN n = {"start", "trs", "final"} /\ n.start = m.start /\ DOMAIN n.trs = States
    /\ \A s \in States : n.trs[s] = m.trs[s] \/ n.trs[s] = ts

LEMMA RewrittenFacts ==
    ASSUME NEW m, NEW n, NEW ts, FstTyped(m), AllLabelled(ts), Rewritten(m, n, ts)
    PROVE  FstTyped(n) /\ Thinner(m, n)
<1>1. /\ ts \in Seq(Range(ts))
      /\ \A i \in DOMAIN ts : /\ DOMAIN ts[i] = {"label", "weight", "nextstate"}
                              /\ ts[i].nextstate \in States /\ ~ Keep(ts[i])
  BY DEF AllLabelled, Labelled
<1>2. m.start \in States /\ \A s \in States :
        /\ m.trs[s] \in Seq(Range(m.trs[s]))
        /\ \A i \in DOMAIN m.trs[s] : /\ DOMAIN m.trs[s][i] = {"label", "weight", "nextstate"}
                                      /\ m.trs[s][i].nextstate \in States
  BY DEF FstTyped
<1>3. FstTyped(n)
  BY <1>1, <1>2 DEF FstTyped, Rewritten
<1>4. Thinner(m, n)
  BY <1>1 DEF Thinner, Rewritten
<1> QED  BY <1>3, <1>4

LEMMA ReplaceRewrites ==
    ASSUME FstTyped(fst), Replace
    PROVE  Rewritten(fst, fst', Reverse(trs))
<1> DEFINE h == Head(todo)
           ts == Reverse(trs)
<1>1. fst' = [fst EXCEPT !.trs[h] = ts, !.final[h] = final_weight]
  BY DEF Replace
<1> HIDE DEF h, ts
<1>2. /\ DOMAIN fst = {"start", "trs", "final"} /\ DOMAIN fst.trs = States
  BY DEF FstTyped
<1>3. /\ DOMAIN fst' = {"start", "trs", "final"} /\ fst'.start = fst.start
      /\ fst'.trs = [fst.trs EXCEPT ![h] = ts]
  BY <1>1, <1>2
<1>4. /\ DOMAIN fst'.trs = States
      /\ \A s \in States : fst'.trs[s] = fst.trs[s] \/ fst'.trs[s] = ts
  BY <1>2, <1>3
<1> QED  BY <1>3, <1>4 DEF Rewritten, ts

LEMMA DeleteRewrites ==
    ASSUME FstTyped(fst), DeleteTrs
    PROVE  Rewritten(fst, fst', <<>>) /\ AllLabelled(<<>>)
<1>1. fst' = [fst EXCEPT !.trs = [s \in States |-> IF s \in noneps_in THEN @[s] ELSE <<>>]]
  BY DEF DeleteTrs
<1>2. Rewritten(fst, fst', <<>>)
  BY <1>1 DEF FstTyped, Rewritten
<1>3. AllLabelled(<<>>)
  BY DEF AllLabelled
<1> QED  BY <1>2, <1>3

LEMMA MapInitHolds == RmInit => MapInv
<1> SUFFICES ASSUME RmInit PROVE MapInv
  OBVIOUS
<1>1. /\ SDNew /\ step \in {"prepare", "next"}
      /\ noneps_in = {} /\ expand_id = 0 /\ element_map = [e \in {} |-> 0]
  BY DEF RmInit
<1>2. FstTyped(fst)
  BY <1>1, FstsAssumption DEF SDNew
<1> QED  BY <1>1, <1>2 DEF MapInv, Aged

LEMMA MapDistance ==
    ASSUME MapInv, DistanceStep
    PROVE  MapInv'
<1>1. /\ step = "distance" /\ step' \in {"distance", "walk"}
      /\ UNCHANGED <<noneps_in, element_map, expand_id, eps_queue, trs>>
  BY DEF DistanceStep, walk
<1>2. fst' = fst
  BY DEF DistanceStep, Pass, DequeueState, RelaxNothing, RelaxMore, RelaxNone, EndPass
<1>3. /\ noneps_in \subseteq States /\ expand_id \in Nat /\ Aged /\ FstTyped(fst)
      /\ eps_queue \in Seq(States) /\ trs = <<>>
  BY <1>1 DEF MapInv
<1>4. AllLabelled(trs)
  BY <1>3 DEF AllLabelled
<1>5. Placed(trs, element_map, expand_id)
  <2>1. \A e \in DOMAIN element_map :
          element_map[e][1] \in 0 .. expand_id /\ element_map[e][1] # expand_id
    BY <1>3 DEF Aged
  <2>2. DOMAIN trs = {}
    BY <1>3
  <2> QED  BY <2>1, <2>2 DEF Placed
<1>6. Aged'
  BY <1>1, <1>3 DEF Aged
<1>7. FstTyped(fst)' /\ AllLabelled(trs)' /\ Placed(trs, element_map, expand_id)'
  BY <1>1, <1>2, <1>3, <1>4, <1>5, MapPrimed
<1> QED  BY <1>1, <1>3, <1>6, <1>7 DEF MapInv

LEMMA MapWalk ==
    ASSUME MapInv, WalkVisited \/ WalkState
    PROVE  MapInv'
<1>1. /\ step = "walk" /\ step' = step /\ eps_queue # <<>>
      /\ UNCHANGED <<noneps_in, expand_id, fst>>
  BY DEF WalkVisited, WalkState, vars
<1>2. /\ eps_queue \in Seq(States) /\ AllLabelled(trs) /\ FstTyped(fst)
      /\ Placed(trs, element_map, expand_id)
      /\ noneps_in \subseteq States /\ expand_id \in Nat
  BY <1>1 DEF MapInv
<1>3. eps_queue' \in Seq(States) /\ AllLabelled(trs') /\ Placed(trs', element_map', expand_id)
  <2>1. CASE WalkVisited
    <3>1. eps_queue' = Popped /\ trs' = trs /\ element_map' = element_map
      BY <2>1 DEF WalkVisited
    <3>2. Popped \in Seq(States)
      BY <1>1, <1>2 DEF Popped
    <3> QED  BY <1>2, <3>1, <3>2
  <2>2. CASE WalkState
    <3>1. LeadsWithin(fst, States)
      BY <1>2 DEF LeadsWithin, Led, FstTyped
    <3> QED  BY <1>1, <1>2, <2>2, <3>1, VisitKeeps
  <2> QED  BY <2>1, <2>2
<1>4. FstTyped(fst)' /\ AllLabelled(trs)' /\ Placed(trs, element_map, expand_id)'
  BY <1>1, <1>2, <1>3, MapPrimed
<1> QED  BY <1>1, <1>2, <1>3, <1>4 DEF MapInv

LEMMA MapWalkEnd ==
    ASSUME MapInv, WalkEnd
    PROVE  MapInv'
<1>1. /\ step = "walk" /\ step' = "expanded" /\ expand_id' = expand_id + 1
      /\ UNCHANGED <<fst, noneps_in, trs, element_map>>
  BY DEF WalkEnd, vars
<1>2. /\ AllLabelled(trs) /\ Placed(trs, element_map, expand_id) /\ FstTyped(fst)
      /\ noneps_in \subseteq States /\ expand_id \in Nat
  BY <1>1 DEF MapInv
<1>3. Aged'
  BY <1>1, <1>2 DEF Aged, Placed
<1>4. Distinct'
  <2>1. Distinct
    BY <1>2 DEF Distinct, Placed
  <2> QED  BY <1>1, <2>1 DEF Distinct, Element
<1>5. FstTyped(fst)' /\ AllLabelled(trs)'
  BY <1>1, <1>2, MapPrimed
<1> QED  BY <1>1, <1>2, <1>3, <1>4, <1>5 DEF MapInv

\* What comes between two expansions keeps the map.
LEMMA MapRest ==
    ASSUME MapInv, step # "walk", step' \notin {"walk", "expanded"},
           UNCHANGED <<element_map, expand_id>>, noneps_in' \subseteq States,
           step' # "done" => FstTyped(fst'),
           step' = "distance" => eps_queue' \in Seq(States) /\ trs' = <<>>
    PROVE  MapInv'
<1>1. expand_id \in Nat /\ Aged
  BY DEF MapInv
<1>2. Aged'
  BY <1>1 DEF Aged
<1> QED  BY <1>1, <1>2, MapPrimed DEF MapInv

LEMMA MapExpand ==
    ASSUME MapInv, step = "next", NEW s \in States, Expand(s)
    PROVE  MapInv'
<1>1. /\ step' = "distance" /\ eps_queue' = <<s>> /\ trs' = <<>>
      /\ UNCHANGED <<noneps_in, element_map, expand_id, fst>>
  BY DEF Expand, StartPass
<1>2. FstTyped(fst) /\ noneps_in \subseteq States
  BY DEF MapInv
<1>3. <<s>> \in Seq(States)
  OBVIOUS
<1> QED  BY <1>1, <1>2, <1>3, MapRest

LEMMA MapStutter ==
    ASSUME MapInv, UNCHANGED rm_vars
    PROVE  MapInv'
<1>1. UNCHANGED <<fst, step, noneps_in, eps_queue, trs, element_map, expand_id>>
  BY DEF rm_vars, vars, walk
<1>2. Aged' <=> Aged
  BY <1>1 DEF Aged
<1>3. Distinct' <=> Distinct
  BY <1>1 DEF Distinct, Element
<1> QED  BY <1>1, <1>2, <1>3, MapPrimed DEF MapInv

LEMMA MapKeeps ==
    ASSUME MapInv, [RmNext]_rm_vars
    PROVE  MapInv'
<1>1. CASE DistanceStep
  BY <1>1, MapDistance
<1>2. CASE WalkVisited \/ WalkState
  BY <1>2, MapWalk
<1>3. CASE WalkEnd
  BY <1>3, MapWalkEnd
<1>4. CASE Prepare
  <2>1. /\ step = "prepare" /\ step' = "next" /\ noneps_in' = NonEpsIn(fst)
        /\ UNCHANGED <<element_map, expand_id, fst>>
    BY <1>4 DEF Prepare, walk
  <2>2. FstTyped(fst)
    BY <2>1 DEF MapInv
  <2>3. noneps_in' \subseteq States
    BY <2>1, <2>2 DEF NonEpsIn, FstTyped
  <2> QED  BY <2>1, <2>2, <2>3, MapRest
<1>5. CASE ExpandNext
  <2>1. step = "next" /\ Head(todo) \in States /\ Expand(Head(todo))
    BY <1>5 DEF ExpandNext, MapInv
  <2> QED  BY <2>1, MapExpand
<1>6. CASE Replace
  <2>1. /\ step = "expanded" /\ step' = "next"
        /\ UNCHANGED <<noneps_in, element_map, expand_id>>
    BY <1>6 DEF Replace, walk
  <2>2. FstTyped(fst) /\ AllLabelled(trs) /\ noneps_in \subseteq States
    BY <2>1 DEF MapInv
  <2>3. FstTyped(fst')
    BY <1>6, <2>2, ReverseLabelled, ReplaceRewrites, RewrittenFacts
  <2> QED  BY <2>1, <2>2, <2>3, MapRest
<1>7. CASE DeleteTrs
  <2>1. /\ step = "next" /\ step' = "connect"
        /\ UNCHANGED <<noneps_in, element_map, expand_id>>
    BY <1>7 DEF DeleteTrs, walk
  <2>2. FstTyped(fst) /\ noneps_in \subseteq States
    BY <2>1 DEF MapInv
  <2>3. FstTyped(fst')
    BY <1>7, <2>2, DeleteRewrites, RewrittenFacts
  <2> QED  BY <2>1, <2>2, <2>3, MapRest
<1>8. CASE SkipNext \/ Connect \/ Answer
  <2>1. /\ step # "walk" /\ step' \in {"next", "done"} /\ step # "done"
        /\ UNCHANGED <<noneps_in, element_map, expand_id>>
        /\ step' # "done" => fst' = fst
    BY <1>8 DEF SkipNext, Connect, Answer, walk, vars
  <2>2. FstTyped(fst) /\ noneps_in \subseteq States
    BY <2>1 DEF MapInv
  <2> QED  BY <2>1, <2>2, MapRest
<1>9. CASE \E s \in States : Compute(s)
  <2>1. PICK s \in States : step = "next" /\ Expand(s)
    BY <1>9 DEF Compute
  <2> QED  BY <2>1, MapExpand
<1>10. CASE UNCHANGED rm_vars
  BY <1>10, MapStutter
<1> QED  BY <1>1, <1>2, <1>3, <1>4, <1>5, <1>6, <1>7, <1>8, <1>9, <1>10 DEF RmNext, Expanding

THEOREM MapInvHolds == RmSpec => []MapInv
<1>1. RmInit => MapInv
  BY MapInitHolds
<1>2. MapInv /\ [RmNext]_rm_vars => MapInv'
  BY MapKeeps
<1> QED  BY <1>1, <1>2, PTL DEF RmSpec

\* The entry of the element map that a labelled transition is merged by, when it
\* is of this expansion, lies within the transitions found and names the same
\* element (the access is unchecked, and the map outlives the expansion); and an
\* expansion answers each label and destination once.
ElementsPlaced ==
    /\ step = "walk" =>
         \A e \in DOMAIN element_map : element_map[e][1] = expand_id =>
           element_map[e][2] \in DOMAIN trs /\ Element(trs[element_map[e][2]]) = e
    /\ step = "expanded" => Distinct

\* For every machine and every weight type.
THEOREM ElementsPlacedHolds == RmSpec => []ElementsPlaced
<1>1. MapInv => ElementsPlaced
  BY DEF MapInv, Placed, ElementsPlaced
<1> QED  BY <1>1, MapInvHolds, PTL

-----------------------------------------------------------------------------
(* The states found.                                                       *)

PassPart ==
    /\ IInv /\ retain /\ (pc # "idle" <=> step = "distance")
    /\ \E K, D : Lasting(semiring, fst, K, D) /\ (pc # "idle" => FreshInv(K, D))

\* What the walk has to visit: states that the pass has found.
WalkPart == /\ step = "distance" => eps_queue = <<source>>
            /\ step = "walk" => eps_queue \in Seq(Found) /\ LeadsWithin(fst, Found)

\* connect comes last: nothing is expanded after it.
FoundInv == (step # "done" => PassPart) /\ WalkPart

RmInv == MapInv /\ FoundInv

LEMMA LastingPrimed ==
    ASSUME UNCHANGED <<semiring, fst>>
    PROVE  /\ \A K, D : Lasting(semiring, fst, K, D)' <=> Lasting(semiring, fst, K, D)
           /\ \A A : LeadsWithin(fst, A)' <=> LeadsWithin(fst, A)
<1>1. \A K, D : Lasting(semiring, fst, K, D)' <=> Lasting(semiring, fst, K, D)
  BY DEF Lasting, Keep
<1>2. \A A : LeadsWithin(fst, A)' <=> LeadsWithin(fst, A)
  BY DEF LeadsWithin, Led, Past, Keep
<1> QED  BY <1>1, <1>2


LEMMA FoundInitHolds == LoopsHarmless /\ NothingVanishes /\ RmInit => FoundInv
<1> SUFFICES ASSUME LoopsHarmless, NothingVanishes, RmInit PROVE FoundInv
  OBVIOUS
<1>1. SDNew /\ state_queue = NewList("fifo") /\ step \in {"prepare", "next"}
  BY DEF RmInit
<1>2. IInv
  BY <1>1, NewReady
<1>3. /\ retain /\ pc = "idle" /\ semiring \in Semirings /\ fst \in Fsts(semiring)
  BY <1>1, RmAssumption DEF SDNew
<1>4. \E K, D : Lasting(semiring, fst, K, D)
  BY <1>3 DEF NothingVanishes
<1> QED  BY <1>1, <1>2, <1>3, <1>4 DEF FoundInv, PassPart, WalkPart

\* A step that leaves the rows and the machine alone.
LEMMA OtherKeeps ==
    ASSUME PassPart, UNCHANGED vars, step # "distance", step' # "distance"
    PROVE  PassPart'
<1>1. pc = "idle" /\ pc' = pc /\ UNCHANGED <<semiring, fst>> /\ retain' = retain
  BY DEF PassPart, vars
<1>2. PICK K, D : Lasting(semiring, fst, K, D)
  BY DEF PassPart
<1>3. Lasting(semiring, fst, K, D)'
  BY <1>1, <1>2, LastingPrimed
<1>4. IInv'
  BY StutterKeeps DEF PassPart
<1> QED  BY <1>1, <1>3, <1>4 DEF PassPart

LEMMA FoundPrimed ==
    ASSUME UNCHANGED vars
    PROVE  Found' = Found /\ (LeadsWithin(fst, Found)' <=> LeadsWithin(fst, Found))
<1>1. UNCHANGED <<semiring, fst>> /\ rows' = rows /\ source_id' = source_id
  BY DEF vars
<1>2. Found' = Found
  BY <1>1 DEF Found
<1>3. LeadsWithin(fst, Found)' <=> LeadsWithin(fst, Found)
  BY <1>1, <1>2 DEF LeadsWithin, Led, Past, Keep
<1> QED  BY <1>2, <1>3

LEMMA FoundExpand ==
    ASSUME FoundInv, step = "next", NEW s \in States, Expand(s)
    PROVE  FoundInv'
<1>1. /\ StartPass(s) /\ step' = "distance" /\ eps_queue' = <<s>>
  BY DEF Expand
<1>2. /\ pc' = "dequeue" /\ source' = s /\ UNCHANGED <<semiring, fst>> /\ retain' = retain
  BY <1>1 DEF StartPass
<1>3. IInv /\ PassInv /\ retain
  BY DEF FoundInv, PassPart, IInv
<1>4. PICK K, D : Lasting(semiring, fst, K, D)
  BY DEF FoundInv, PassPart
<1>5. Lasting(semiring, fst, K, D)' /\ FreshInv(K, D)'
  BY <1>1, <1>2, <1>3, <1>4, LastingPrimed, StartFresh
<1>6. IInv'
  BY <1>1, <1>3, StartPassKeeps
<1>7. PassPart'
  BY <1>1, <1>2, <1>3, <1>5, <1>6 DEF PassPart
<1>8. WalkPart'
  BY <1>1, <1>2 DEF WalkPart
<1> QED  BY <1>7, <1>8 DEF FoundInv

\* A step of the pass other than the last.
LEMMA PassFresh ==
    ASSUME PassInv, retain, Pass, ~ EndPass, NEW K, NEW D,
           Lasting(semiring, fst, K, D), FreshInv(K, D)
    PROVE  /\ FreshInv(K, D)' /\ pc # "idle" /\ pc' # "idle"
           /\ UNCHANGED <<semiring, fst, retain, source>>
<1>1. CASE DequeueState
  BY <1>1, DequeueFresh DEF DequeueState
<1>2. CASE RelaxNothing
  <2>1. /\ pc = "relax" /\ pos <= Len(fst.trs[state]) /\ Examined
        /\ UNCHANGED <<semiring, fst, retain, source>>
    BY <1>2 DEF RelaxNothing
  <2> QED  BY <1>2, <2>1, NothingFresh, RelaxFacts
<1>3. CASE RelaxMore
  <2>1. /\ pc = "relax" /\ pos <= Len(fst.trs[state]) /\ Examined
        /\ UNCHANGED <<semiring, fst, retain, source>>
    BY <1>3 DEF RelaxMore
  <2> QED  BY <1>3, <2>1, MoreFresh, RelaxFacts
<1>4. CASE RelaxNone
  BY <1>4, NoneFresh DEF RelaxNone
<1> QED  BY <1>1, <1>2, <1>3, <1>4 DEF Pass

LEMMA FoundDistance ==
    ASSUME FoundInv, DistanceStep
    PROVE  FoundInv'
<1>1. /\ step = "distance" /\ Pass /\ step' = (IF pc' = "idle" THEN "walk" ELSE step)
      /\ eps_queue' = eps_queue
  BY DEF DistanceStep, walk
<1>2. IInv /\ PassInv /\ retain /\ pc # "idle" /\ eps_queue = <<source>>
  BY <1>1 DEF FoundInv, PassPart, WalkPart, IInv
<1>3. PICK K, D : Lasting(semiring, fst, K, D) /\ FreshInv(K, D)
  BY <1>1, <1>2 DEF FoundInv, PassPart
<1>4. IInv'
  BY <1>1, <1>2, PassKeeps
<1>5. CASE ~ EndPass
  <2>1. FreshInv(K, D)' /\ pc' # "idle" /\ UNCHANGED <<semiring, fst, retain, source>>
    BY <1>1, <1>2, <1>3, <1>5, PassFresh
  <2>2. Lasting(semiring, fst, K, D)'
    BY <1>3, <2>1, LastingPrimed
  <2>3. PassPart'
    BY <1>1, <1>2, <1>4, <2>1, <2>2 DEF PassPart
  <2> QED  BY <1>1, <1>2, <2>1, <2>3 DEF FoundInv, WalkPart
<1>6. CASE EndPass
  <2>1. pc' = "idle" /\ UNCHANGED <<semiring, fst, retain, source>> /\ step' = "walk"
    BY <1>1, <1>6 DEF EndPass
  <2>2. Lasting(semiring, fst, K, D)'
    BY <1>3, <2>1, LastingPrimed
  <2>3. PassPart'
    BY <1>2, <1>4, <2>1, <2>2 DEF PassPart
  <2>4. Found' = Live /\ source \in Live /\ LeadsWithin(fst, Live)
    BY <1>2, <1>3, <1>6, EndFound
  <2>5. LeadsWithin(fst, Found)'
    BY <2>1, <2>4 DEF LeadsWithin, Led, Past, Keep
  <2>6. eps_queue' \in Seq(Found')
    BY <1>1, <1>2, <2>4
  <2> QED  BY <2>1, <2>3, <2>5, <2>6 DEF FoundInv, WalkPart
<1> QED  BY <1>5, <1>6

LEMMA FoundWalk ==
    ASSUME MapInv, FoundInv, WalkVisited \/ WalkState
    PROVE  FoundInv'
<1>1. /\ step = "walk" /\ step' = step /\ eps_queue # <<>> /\ UNCHANGED vars
  BY DEF WalkVisited, WalkState
<1>2. PassPart'
  BY <1>1, OtherKeeps DEF FoundInv
<1>3. /\ eps_queue \in Seq(Found) /\ LeadsWithin(fst, Found) /\ AllLabelled(trs)
      /\ Placed(trs, element_map, expand_id) /\ expand_id \in Nat /\ FstTyped(fst)
  BY <1>1 DEF MapInv, FoundInv, WalkPart
<1>4. eps_queue' \in Seq(Found)
  <2>1. CASE WalkVisited
    BY <1>1, <1>3, <2>1 DEF WalkVisited, Popped
  <2>2. CASE WalkState
    <3>1. Found \subseteq States
      BY <1>1 DEF FoundInv, PassPart, IInv, PassInv, RowsInv, Found
    <3> QED  BY <1>1, <1>3, <2>2, <3>1, VisitKeeps
  <2> QED  BY <2>1, <2>2
<1>5. Found' = Found /\ LeadsWithin(fst, Found)'
  BY <1>1, <1>3, FoundPrimed
<1> QED  BY <1>1, <1>2, <1>4, <1>5 DEF FoundInv, WalkPart

LEMMA FoundPrepare ==
    ASSUME FoundInv, Prepare
    PROVE  FoundInv'
<1>1. /\ step = "prepare" /\ step' = "next" /\ state_queue' \in AutoQueues(fst)
      /\ UNCHANGED <<semiring, fst, retain, rows, source_id, pc, state, r, pos>>
  BY DEF Prepare
<1>2. IInv /\ retain /\ pc = "idle"
  BY <1>1 DEF FoundInv, PassPart
<1>3. PICK K, D : Lasting(semiring, fst, K, D)
  BY <1>1 DEF FoundInv, PassPart
<1>4. Lasting(semiring, fst, K, D)'
  BY <1>1, <1>3, LastingPrimed
<1>5. IInv'
  BY <1>1, <1>2, ChoiceKeeps
<1>6. PassPart'
  BY <1>1, <1>2, <1>4, <1>5 DEF PassPart
<1> QED  BY <1>1, <1>6 DEF FoundInv, WalkPart

\* A state of the machine has other transitions, none of them kept.
LEMMA FoundRewrite ==
    ASSUME FoundInv, step \in {"next", "expanded"}, step' \in {"next", "connect"},
           Thinner(fst, fst'), FstTyped(fst'),
           UNCHANGED <<semiring, retain, state_queue, rows, source_id, pc, state, r, pos>>
    PROVE  FoundInv'
<1>1. IInv /\ retain /\ pc = "idle"
  BY DEF FoundInv, PassPart
<1>2. IInv'
  BY <1>1, ThinnerKeeps
<1>3. PICK K, D : Lasting(semiring, fst, K, D)
  BY DEF FoundInv, PassPart
<1>4. Lasting(semiring, fst', K, D)
  BY <1>3, ThinnerFacts
<1>5. Lasting(semiring, fst, K, D)'
  BY <1>4 DEF Lasting, Keep
<1>6. PassPart'
  BY <1>1, <1>2, <1>5 DEF PassPart
<1> QED  BY <1>6 DEF FoundInv, WalkPart

LEMMA FoundStutter ==
    ASSUME FoundInv, UNCHANGED rm_vars
    PROVE  FoundInv'
<1>1. UNCHANGED vars /\ UNCHANGED <<step, eps_queue>>
  BY DEF rm_vars, walk
<1>2. UNCHANGED <<semiring, fst, retain, rows, source_id, pc, state, r, pos, source>>
  BY <1>1 DEF vars
<1>3. ASSUME PassPart PROVE PassPart'
  <2>1. IInv'
    BY <1>1, <1>3, StutterKeeps DEF PassPart
  <2>2. PICK K, D : Lasting(semiring, fst, K, D) /\ (pc # "idle" => FreshInv(K, D))
    BY <1>3 DEF PassPart
  <2>3. Lasting(semiring, fst, K, D)'
    BY <1>2, <2>2, LastingPrimed
  <2>4. FreshInv(K, D) => FreshInv(K, D)'
    <3>1. Live' = Live
      BY <1>2 DEF Live
    <3> QED  BY <1>2, <3>1 DEF FreshInv
  <2> QED  BY <1>1, <1>2, <1>3, <2>1, <2>2, <2>3, <2>4 DEF PassPart
<1>4. Found' = Found /\ (LeadsWithin(fst, Found)' <=> LeadsWithin(fst, Found))
  BY <1>1, FoundPrimed
<1>5. WalkPart'
  BY <1>1, <1>2, <1>4 DEF FoundInv, WalkPart
<1> QED  BY <1>1, <1>3, <1>5 DEF FoundInv

LEMMA FoundKeeps ==
    ASSUME MapInv, FoundInv, [RmNext]_rm_vars
    PROVE  FoundInv'
<1>1. CASE DistanceStep
  BY <1>1, FoundDistance
<1>2. CASE WalkVisited \/ WalkState
  BY <1>2, FoundWalk
<1>3. CASE WalkEnd \/ SkipNext \/ Answer
  <2>1. /\ step \in {"walk", "next", "expanded"} /\ step' \in {"expanded", "next"}
        /\ UNCHANGED vars
    BY <1>3 DEF WalkEnd, SkipNext, Answer
  <2>2. PassPart'
    BY <2>1, OtherKeeps DEF FoundInv
  <2> QED  BY <2>1, <2>2 DEF FoundInv, WalkPart
<1>4. CASE Prepare
  BY <1>4, FoundPrepare
<1>5. CASE ExpandNext
  <2>1. step = "next" /\ Head(todo) \in States /\ Expand(Head(todo))
    BY <1>5 DEF ExpandNext, MapInv
  <2> QED  BY <2>1, FoundExpand
<1>6. CASE Replace
  <2>1. /\ step = "expanded" /\ step' = "next"
        /\ UNCHANGED <<semiring, retain, state_queue, rows, source_id, pc, state, r, pos>>
    BY <1>6 DEF Replace
  <2>2. FstTyped(fst) /\ AllLabelled(trs)
    BY <2>1 DEF MapInv
  <2>3. FstTyped(fst') /\ Thinner(fst, fst')
    BY <1>6, <2>2, ReverseLabelled, ReplaceRewrites, RewrittenFacts
  <2> QED  BY <2>1, <2>3, FoundRewrite
<1>7. CASE DeleteTrs
  <2>1. /\ step = "next" /\ step' = "connect"
        /\ UNCHANGED <<semiring, retain, state_queue, rows, source_id, pc, state, r, pos>>
    BY <1>7 DEF DeleteTrs
  <2>2. FstTyped(fst)
    BY <2>1 DEF MapInv
  <2>3. FstTyped(fst') /\ Thinner(fst, fst')
    BY <1>7, <2>2, DeleteRewrites, RewrittenFacts
  <2> QED  BY <2>1, <2>3, FoundRewrite
<1>8. CASE Connect
  BY <1>8 DEF Connect, FoundInv, WalkPart
<1>9. CASE \E s \in States : Compute(s)
  <2>1. PICK s \in States : step = "next" /\ Expand(s)
    BY <1>9 DEF Compute
  <2> QED  BY <2>1, FoundExpand
<1>10. CASE UNCHANGED rm_vars
  BY <1>10, FoundStutter
<1> QED  BY <1>1, <1>2, <1>3, <1>4, <1>5, <1>6, <1>7, <1>8, <1>9, <1>10 DEF RmNext, Expanding

\* Whatever earlier expansions left in the retained rows and however the
\* machine has been rewritten, the walk of an epsilon closure reads no distance
\* past the end of the vector and none of an earlier source.
THEOREM DistancesFreshHolds ==
    LoopsHarmless /\ NothingVanishes => (RmSpec => []DistancesFresh)
<1> SUFFICES ASSUME LoopsHarmless, NothingVanishes PROVE RmSpec => []DistancesFresh
  OBVIOUS
<1>1. RmInit => RmInv
  BY MapInitHolds, FoundInitHolds DEF RmInv
<1>2. RmInv /\ [RmNext]_rm_vars => RmInv'
  BY MapKeeps, FoundKeeps DEF RmInv
<1>3. RmInv => DistancesFresh
  <2> SUFFICES ASSUME RmInv, step = "walk", eps_queue # <<>>
               PROVE  Top \in DOMAIN rows /\ rows[Top].source = source_id - 1
    BY DEF DistancesFresh
  <2>1. eps_queue \in Seq(Found)
    BY DEF RmInv, FoundInv, WalkPart
  <2>2. Top \in Found
    BY <2>1 DEF Top
  <2> QED  BY <2>2 DEF Found
<1> QED  BY <1>1, <1>2, <1>3, PTL DEF RmSpec

-----------------------------------------------------------------------------
(* Sums that are taken further.                                            *)

\* A sum of multiples is the multiple of the sum.
LEMMA TotalTimes ==
    ASSUME NEW w, NEW K, SemiringOn(w, K), NEW n \in Nat, NEW y \in K,
           NEW f \in [1 .. n -> K], NEW g \in [1 .. n -> K],
           \A i \in 1 .. n : g[i] = Times(w, y, f[i])
    PROVE  Total(w, g) = Times(w, y, Total(w, f))
<1>1. PICK s : PrefixSums(w, f, K, n, s) /\ Total(w, f) = s[n]
  BY TotalPrefixes
<1>2. PICK t : PrefixSums(w, g, K, n, t) /\ Total(w, g) = t[n]
  BY TotalPrefixes
<1> DEFINE Good == {i \in Nat : i \in 0 .. n => t[i] = Times(w, y, s[i])}
<1>3. 0 \in Good
  <2>1. Times(w, y, Zero(w)) = Zero(w)
    BY MulLaws
  <2> QED  BY <1>1, <1>2, <2>1 DEF PrefixSums
<1>4. ASSUME NEW i \in 1 .. n, i - 1 \in Good PROVE i \in Good
  <2>1. /\ s[i] = Plus(w, s[i - 1], f[i]) /\ t[i] = Plus(w, t[i - 1], g[i])
        /\ i - 1 \in 0 .. n /\ s[i - 1] \in K /\ f[i] \in K /\ g[i] = Times(w, y, f[i])
    BY <1>1, <1>2 DEF PrefixSums
  <2>2. t[i - 1] = Times(w, y, s[i - 1])
    BY <1>4, <2>1
  <2>3. Times(w, y, Plus(w, s[i - 1], f[i]))
          = Plus(w, Times(w, y, s[i - 1]), Times(w, y, f[i]))
    <3>1. \A a, b \in K : Times(w, y, Plus(w, a, b)) = Plus(w, Times(w, y, a), Times(w, y, b))
      BY MulLaws
    <3> QED  BY <2>1, <3>1
  <2> QED  BY <2>1, <2>2, <2>3
<1>5. \A i \in 0 .. n : i \in Good
  <2>1. Good \in SUBSET Nat
    OBVIOUS
  <2> HIDE DEF Good
  <2> QED  BY <1>3, <1>4, <2>1, PrefixInduction
<1>6. n \in 0 .. n
  OBVIOUS
<1> QED  BY <1>1, <1>2, <1>5, <1>6

\* One more weight.
LEMMA TotalMore ==
    ASSUME NEW w, NEW K, SemiringOn(w, K), NEW n \in Nat,
           NEW f \in [1 .. n -> K], NEW g \in [1 .. n + 1 -> K],
           \A i \in 1 .. n : g[i] = f[i]
    PROVE  Total(w, g) = Plus(w, Total(w, f), g[n + 1])
<1>1. PICK s : PrefixSums(w, f, K, n, s) /\ Total(w, f) = s[n]
  BY TotalPrefixes
<1>2. n + 1 \in Nat
  OBVIOUS
<1>3. PICK t : PrefixSums(w, g, K, n + 1, t) /\ Total(w, g) = t[n + 1]
  BY <1>2, TotalPrefixes
<1> DEFINE Good == {i \in Nat : i \in 0 .. n => t[i] = s[i]}
<1>4. 0 \in Good
  BY <1>1, <1>3 DEF PrefixSums
<1>5. ASSUME NEW i \in 1 .. n, i - 1 \in Good PROVE i \in Good
  <2>1. i \in 1 .. n + 1 /\ i - 1 \in 0 .. n
    OBVIOUS
  <2>2. s[i] = Plus(w, s[i - 1], f[i]) /\ t[i] = Plus(w, t[i - 1], g[i])
    BY <1>1, <1>3, <2>1 DEF PrefixSums
  <2> QED  BY <1>5, <2>1, <2>2
<1>6. \A i \in 0 .. n : i \in Good
  <2>1. Good \in SUBSET Nat
    OBVIOUS
  <2> HIDE DEF Good
  <2> QED  BY <1>4, <1>5, <2>1, PrefixInduction
<1>7. t[n] = s[n]
  <2>1. n \in 0 .. n
    OBVIOUS
  <2> QED  BY <1>6, <2>1
<1>8. t[n + 1] = Plus(w, t[n], g[n + 1])
  <2>1. n + 1 \in 1 .. n + 1 /\ (n + 1) - 1 = n
    OBVIOUS
  <2> QED  BY <1>3, <2>1 DEF PrefixSums
<1> QED  BY <1>1, <1>3, <1>7, <1>8

\* A set of states that no kept transition leaves: nothing is carried out of it.
LEMMA OutsideNothing ==
    ASSUME NEW w, NEW K, SemiringOn(w, K), NEW m, MachineOn(K, m), NEW V, V \subseteq States,
           LeadsWithin(m, V), NEW s \in V, NEW p \in States, p \notin V
    PROVE  PathSums(w, m)[PathBound][s][p] = Zero(w)
<1> DEFINE u == PathSums(w, m)
           Good == {i \in Nat : \A x \in V : u[i][x][p] = Zero(w)}
<1>1. IsPathSums(w, m, K, PathBound, u) /\ PathBound \in Nat
  BY PathSumsHold, SDAssumption
<1> HIDE DEF u
<1>2. \A x \in V : x \in States /\ EmptyPath(w, x, p) = Zero(w)
  BY DEF EmptyPath
<1>3. 0 \in Good
  BY <1>1, <1>2 DEF IsPathSums
<1>4. ASSUME NEW i \in 1 .. PathBound, i - 1 \in Good PROVE i \in Good
  <2> SUFFICES ASSUME NEW x \in V PROVE u[i][x][p] = Zero(w)
    BY <1>1
  <2> DEFINE f == Carried(w, m, u[i - 1], x, 1, p)
             n == Len(m.trs[x])
  <2>1. u[i - 1] \in Sums(K) /\ u[i] = Longer(w, m, u[i - 1])
    BY <1>1 DEF IsPathSums
  <2>2. u[i][x][p] = Plus(w, Zero(w), Total(w, f))
    BY <1>2, <2>1, LongerType DEF Onward
  <2>3. n \in Nat /\ DOMAIN m.trs[x] = 1 .. n /\ f \in [1 .. n -> K]
    BY <1>2, <2>1, CarriedType
  <2>4. ASSUME NEW j \in 1 .. n PROVE f[j] = Zero(w)
    <3> DEFINE tr == m.trs[x][j]
    <3>1. CASE Keep(tr)
      <4>1. tr.weight \in K /\ tr.nextstate \in V
        <5>1. j < Past(m, x)
          BY <2>3 DEF Past
        <5>2. j \in DOMAIN m.trs[x] /\ Led(m, x, Past(m, x), V)
          BY <2>3 DEF LeadsWithin
        <5> QED  BY <1>2, <3>1, <5>1, <5>2 DEF Led, MachineOn
      <4>2. u[i - 1][tr.nextstate][p] = Zero(w)
        BY <1>4, <4>1
      <4>3. Times(w, tr.weight, Zero(w)) = Zero(w)
        <5>1. \A a \in K : Times(w, a, Zero(w)) = Zero(w)
          BY MulLaws
        <5> QED  BY <4>1, <5>1
      <4> QED  BY <2>3, <3>1, <4>2, <4>3 DEF Carried
    <3>2. CASE ~ Keep(tr)
      BY <2>3, <3>2 DEF Carried
    <3> QED  BY <3>1, <3>2
  <2>5. Total(w, f) = Zero(w)
    <3> HIDE DEF f, n
    <3> QED  BY <2>3, <2>4, TotalZero
  <2>6. Zero(w) \in K
    BY DEF SemiringOn
  <2>7. Plus(w, Zero(w), Zero(w)) = Zero(w)
    BY <2>6, AddLaws
  <2> QED  BY <2>2, <2>5, <2>7
<1>5. \A i \in 0 .. PathBound : i \in Good
  <2>1. Good \in SUBSET Nat
    OBVIOUS
  <2> HIDE DEF Good
  <2> QED  BY <1>1, <1>3, <1>4, <2>1, PrefixInduction
<1> QED  BY <1>1, <1>5 DEF u

-----------------------------------------------------------------------------
(* What the transitions of an element weigh.                               *)

WeighIn(ts, K) == \A i \in DOMAIN ts : ts[i].weight \in K

\* The weights that an ElementSum adds up.
Terms(ts, e) == [i \in DOMAIN ts |-> IF Element(ts[i]) = e THEN ts[i].weight ELSE zero]

LEMMA ElementType ==
    ASSUME NEW K, SemiringOn(semiring, K), NEW ts, ts \in Seq(Range(ts)), WeighIn(ts, K), NEW e
    PROVE  /\ Len(ts) \in Nat /\ DOMAIN ts = 1 .. Len(ts)
           /\ Terms(ts, e) \in [1 .. Len(ts) -> K]
           /\ ElementSum(ts, e) = Total(semiring, Terms(ts, e))
           /\ ElementSum(ts, e) \in K
<1>1. Len(ts) \in Nat /\ DOMAIN ts = 1 .. Len(ts)
  OBVIOUS
<1>2. Terms(ts, e) \in [1 .. Len(ts) -> K]
  <2>1. zero \in K
    BY DEF SemiringOn, zero
  <2> QED  BY <1>1, <2>1 DEF Terms, WeighIn
<1>3. ElementSum(ts, e) = Total(semiring, Terms(ts, e))
  BY DEF ElementSum, SumOver, Terms
<1> QED  BY <1>1, <1>2, <1>3, TotalType

\* A transition added.
LEMMA AppendAdds ==
    ASSUME NEW K, SemiringOn(semiring, K), NEW ts, ts \in Seq(Range(ts)), WeighIn(ts, K),
           NEW tr, tr.weight \in K, NEW e
    PROVE  LET g == Append(ts, tr) IN
           /\ WeighIn(g, K)
           /\ ElementSum(g, e)
                = Add(ElementSum(ts, e), IF Element(tr) = e THEN tr.weight ELSE zero)
<1> DEFINE g == Append(ts, tr)
           n == Len(ts)
<1>1. n \in Nat /\ DOMAIN ts = 1 .. n
  OBVIOUS
<1>2. /\ g \in Seq(Range(g)) /\ DOMAIN g = 1 .. n + 1
      /\ \A i \in 1 .. n : g[i] = ts[i]
      /\ g[n + 1] = tr
  BY AppendFacts
<1> HIDE DEF g
<1>3. WeighIn(g, K)
  <2>1. \A i \in 1 .. n + 1 : i \in 1 .. n \/ i = n + 1
    BY <1>1
  <2> QED  BY <1>1, <1>2, <2>1 DEF WeighIn
<1>4. /\ Terms(ts, e) \in [1 .. n -> K] /\ ElementSum(ts, e) = Total(semiring, Terms(ts, e))
  BY ElementType
<1>5. /\ Terms(g, e) \in [1 .. n + 1 -> K] /\ ElementSum(g, e) = Total(semiring, Terms(g, e))
  <2>1. Len(g) = n + 1
    BY <1>1, <1>2
  <2> QED  BY <1>2, <1>3, <2>1, ElementType
<1>6. /\ \A i \in 1 .. n : Terms(g, e)[i] = Terms(ts, e)[i]
      /\ Terms(g, e)[n + 1] = IF Element(tr) = e THEN tr.weight ELSE zero
  <2>1. n + 1 \in 1 .. n + 1 /\ \A i \in 1 .. n : i \in 1 .. n + 1
    BY <1>1
  <2> QED  BY <1>1, <1>2, <2>1 DEF Terms
<1>7. Total(semiring, Terms(g, e))
      = Plus(semiring, Total(semiring, Terms(ts, e)), Terms(g, e)[n + 1])
  BY <1>1, <1>4, <1>5, <1>6, TotalMore
<1> QED  BY <1>3, <1>4, <1>5, <1>6, <1>7 DEF Add, g

LEMMA WeightAdds ==
    ASSUME NEW K, SemiringOn(semiring, K), NEW ts, ts \in Seq(Range(ts)), WeighIn(ts, K),
           NEW us, NEW k \in DOMAIN ts, NEW x \in K, Heavier(us, ts, k, x), NEW e
    PROVE  /\ WeighIn(us, K)
           /\ ElementSum(us, e) = Add(ElementSum(ts, e), IF Element(ts[k]) = e THEN x ELSE zero)
<1> DEFINE n == Len(ts)
           y == IF Element(ts[k]) = e THEN x ELSE zero
<1>1. n \in Nat /\ DOMAIN ts = 1 .. n /\ us \in Seq(Range(us)) /\ Len(us) = n
  BY DEF Heavier
<1>2. zero = Zero(semiring) /\ zero \in K /\ y \in K
  BY DEF SemiringOn, zero
<1>3. ts[k].weight \in K /\ us[k].weight \in K
  <2>1. ts[k].weight \in K
    BY DEF WeighIn
  <2> QED  BY <2>1, AddLaws DEF Add, Heavier
<1>4. WeighIn(us, K)
  BY <1>3 DEF WeighIn, Heavier
<1>5. /\ Terms(ts, e) \in [1 .. n -> K] /\ ElementSum(ts, e) = Total(semiring, Terms(ts, e))
  BY ElementType
<1>6. /\ Terms(us, e) \in [1 .. n -> K] /\ ElementSum(us, e) = Total(semiring, Terms(us, e))
  BY <1>1, <1>4, ElementType
<1>7. /\ \A i \in 1 .. n : i # k => Terms(us, e)[i] = Terms(ts, e)[i]
      /\ Terms(us, e)[k] = Plus(semiring, Terms(ts, e)[k], y)
  <2>1. \A i \in 1 .. n : i # k => Terms(us, e)[i] = Terms(ts, e)[i]
    BY <1>1 DEF Terms, Heavier
  <2>2. CASE Element(ts[k]) = e
    BY <2>2 DEF Terms, Add, Heavier
  <2>3. CASE Element(ts[k]) # e
    <3>1. Terms(us, e)[k] = zero /\ Terms(ts, e)[k] = zero /\ y = zero
      BY <2>3 DEF Terms, Heavier
    <3>2. \A a \in K : Plus(semiring, a, Zero(semiring)) = a
      BY AddLaws
    <3>3. Plus(semiring, zero, zero) = zero
      BY <1>2, <3>2
    <3> HIDE DEF y
    <3> QED  BY <2>1, <3>1, <3>3
  <2> QED  BY <2>1, <2>2, <2>3
<1> HIDE DEF y, n
<1>8. Total(semiring, Terms(us, e)) = Plus(semiring, Total(semiring, Terms(ts, e)), y)
  <2> DEFINE f == Terms(ts, e)
             g == Terms(us, e)
  <2>1. /\ n \in Nat /\ k \in 1 .. n /\ y \in K /\ f \in [1 .. n -> K] /\ g \in [1 .. n -> K]
        /\ g[k] = Plus(semiring, f[k], y) /\ \A i \in 1 .. n : i # k => g[i] = f[i]
    BY <1>1, <1>2, <1>5, <1>6, <1>7
  <2> HIDE DEF f, g
  <2>2. Total(semiring, g) = Plus(semiring, Total(semiring, f), y)
    BY <2>1, TotalChange
  <2> QED  BY <2>2 DEF f, g
<1> QED  BY <1>4, <1>5, <1>6, <1>8 DEF Add, y

\* A transition adds its weight to its element.
LEMMA MergedAdds ==
    ASSUME NEW K, SemiringOn(semiring, K), NEW A, NEW acc, AccInv(acc, A),
           WeighIn(acc.trs, K), NEW tr, tr.weight \in K, NEW e
    PROVE  LET new == Merged(acc, tr) IN
           /\ WeighIn(new.trs, K)
           /\ ElementSum(new.trs, e)
                = Add(ElementSum(acc.trs, e), IF Element(tr) = e THEN tr.weight ELSE zero)
<1> DEFINE el == Element(tr)
<1>1. DOMAIN acc = {"queue", "trs", "map"} /\ acc.trs \in Seq(Range(acc.trs))
  BY DEF AccInv, AllLabelled
<1>2. CASE el \in DOMAIN acc.map /\ acc.map[el][1] = expand_id
  <2> DEFINE k == acc.map[el][2]
             new == Merged(acc, tr)
  <2>1. /\ k \in DOMAIN acc.trs /\ Element(acc.trs[k]) = el
        /\ Heavier(new.trs, acc.trs, k, tr.weight)
    BY <1>2, MergedOld
  <2> HIDE DEF k, new
  <2>2. /\ WeighIn(new.trs, K)
        /\ ElementSum(new.trs, e)
             = Add(ElementSum(acc.trs, e), IF Element(acc.trs[k]) = e THEN tr.weight ELSE zero)
    BY <1>1, <2>1, WeightAdds
  <2> QED  BY <2>1, <2>2 DEF new
<1>3. CASE ~ (el \in DOMAIN acc.map /\ acc.map[el][1] = expand_id)
  <2> DEFINE new == Merged(acc, tr)
  <2>1. new.trs = Append(acc.trs, tr)
    BY <1>1, <1>3 DEF Merged
  <2> HIDE DEF new
  <2> QED  BY <1>1, <2>1, AppendAdds DEF new
<1> QED  BY <1>2, <1>3

\* What a transition of the state visited adds to the element e.
Added(tr, e) ==
    IF ~ Keep(tr) /\ Element(tr) = e THEN Mul(DistanceRef(Top), tr.weight) ELSE zero

LEMMA ExamineAdds ==
    ASSUME NEW K, SemiringOn(semiring, K), NEW A, NEW acc, AccInv(acc, A),
           WeighIn(acc.trs, K), NEW tr, DOMAIN tr = {"label", "weight", "nextstate"},
           tr.weight \in K, DistanceRef(Top) \in K, NEW e
    PROVE  LET new == ExamineTr(acc, tr) IN
           /\ WeighIn(new.trs, K)
           /\ ElementSum(new.trs, e) = Add(ElementSum(acc.trs, e), Added(tr, e))
<1>1. CASE ~ Keep(tr)
  <2> DEFINE weight == Mul(DistanceRef(Top), tr.weight)
             weighed == [tr EXCEPT !.weight = weight]
  <2>1. ExamineTr(acc, tr) = Merged(acc, weighed)
    BY <1>1 DEF ExamineTr
  <2>2. weight \in K
    BY MulLaws DEF Mul
  <2>3. Added(tr, e) = IF Element(tr) = e THEN weight ELSE zero
    BY <1>1 DEF Added
  <2> HIDE DEF weight
  <2>4. weighed.weight = weight /\ Element(weighed) = Element(tr)
    BY DEF Element
  <2> HIDE DEF weighed
  <2> QED  BY <2>1, <2>2, <2>3, <2>4, MergedAdds
<1>2. CASE Keep(tr)
  <2>1. ExamineTr(acc, tr).trs = acc.trs
    BY <1>2 DEF ExamineTr, AccInv
  <2>2. Added(tr, e) = Zero(semiring)
    BY <1>2 DEF Added, zero
  <2>3. ElementSum(acc.trs, e) \in K
    BY ElementType DEF AccInv, AllLabelled
  <2>4. Plus(semiring, ElementSum(acc.trs, e), Zero(semiring)) = ElementSum(acc.trs, e)
    BY <2>3, AddLaws
  <2> QED  BY <2>1, <2>2, <2>4 DEF Add
<1> QED  BY <1>1, <1>2

\* The destination of an epsilon transition is visited or waits.
LEMMA ExamineQueues ==
    ASSUME NEW A, NEW acc, AccInv(acc, A), NEW tr
    PROVE  LET new == ExamineTr(acc, tr) IN
           /\ Range(acc.queue) \subseteq Range(new.queue)
           /\ Keep(tr) => tr.nextstate \in visited \cup {Top} \cup Range(new.queue)
<1> DEFINE new == ExamineTr(acc, tr)
<1>1. DOMAIN acc = {"queue", "trs", "map"} /\ acc.queue \in Seq(A)
  BY DEF AccInv
<1>2. CASE ~ Keep(tr)
  <2>1. new.queue = acc.queue
    BY <1>1, <1>2 DEF ExamineTr, Merged
  <2> QED  BY <1>2, <2>1
<1>3. CASE Keep(tr) /\ tr.nextstate \in visited \cup {Top}
  BY <1>3 DEF ExamineTr
<1>4. CASE Keep(tr) /\ tr.nextstate \notin visited \cup {Top}
  <2> DEFINE q == Append(acc.queue, tr.nextstate)
             n == Len(acc.queue)
  <2>1. new.queue = q
    BY <1>1, <1>4 DEF ExamineTr
  <2>2. n \in Nat /\ DOMAIN acc.queue = 1 .. n
    BY <1>1
  <2>3. /\ DOMAIN q = 1 .. n + 1 /\ \A i \in 1 .. n : q[i] = acc.queue[i]
        /\ q[n + 1] = tr.nextstate
    BY <1>1, AppendFacts
  <2>4. n + 1 \in 1 .. n + 1 /\ 1 .. n \subseteq 1 .. n + 1
    BY <2>2
  <2> HIDE DEF q, n, new
  <2>5. Range(acc.queue) \subseteq Range(q) /\ tr.nextstate \in Range(q)
    BY <2>2, <2>3, <2>4 DEF Range
  <2> QED  BY <2>1, <2>5 DEF new
<1> QED  BY <1>2, <1>3, <1>4

\* The state visited has transitions that weigh in K, and so has what was found.
VisitTyped(K) ==
    LET f == fst.trs[Top] IN
    /\ Len(f) \in Nat /\ DOMAIN f = 1 .. Len(f) /\ f \in Seq(Range(f)) /\ WeighIn(f, K)
    /\ \A i \in DOMAIN f : DOMAIN f[i] = {"label", "weight", "nextstate"}
    /\ DistanceRef(Top) \in K /\ WeighIn(trs, K)

\* What a state visited adds to the transitions found.
LEMMA VisitAdds ==
    ASSUME NEW K, SemiringOn(semiring, K), NEW A, NEW s, VisitSteps(s, A), VisitTyped(K),
           NEW e, e.label # Eps
    PROVE  /\ WeighIn(trs', K)
           /\ ElementSum(trs', e)
                = Add(ElementSum(trs, e), Mul(DistanceRef(Top), ElementSum(fst.trs[Top], e)))
<1> DEFINE f == fst.trs[Top]
           n == Len(f)
           d == DistanceRef(Top)
           t == [i \in 1 .. n |-> Added(f[i], e)]
           a == ElementSum(trs, e)
<1>1. /\ s[0].trs = trs /\ trs' = s[n].trs
      /\ \A i \in 1 .. n : s[i] = ExamineTr(s[i - 1], f[i])
      /\ \A i \in 0 .. n : AccInv(s[i], A)
  BY DEF VisitSteps
<1>2. /\ n \in Nat /\ DOMAIN f = 1 .. n /\ d \in K
      /\ \A i \in 1 .. n : f[i].weight \in K /\ DOMAIN f[i] = {"label", "weight", "nextstate"}
      /\ f \in Seq(Range(f)) /\ WeighIn(f, K) /\ WeighIn(trs, K)
  BY DEF VisitTyped, WeighIn
<1>3. /\ Terms(f, e) \in [1 .. n -> K] /\ ElementSum(f, e) = Total(semiring, Terms(f, e))
  <2> HIDE DEF f
  <2> QED  BY <1>2, ElementType DEF n
<1> HIDE DEF f, n, d
<1>4. \A i \in 1 .. n : t[i] = Times(semiring, d, Terms(f, e)[i])
  <2> SUFFICES ASSUME NEW i \in 1 .. n
               PROVE  Added(f[i], e) = Times(semiring, d, Terms(f, e)[i])
    OBVIOUS
  <2>1. CASE Element(f[i]) = e
    <3>1. f[i].label = e.label
      BY <2>1 DEF Element
    <3>2. ~ Keep(f[i])
      BY <3>1, RmAssumption DEF Keep
    <3> QED  BY <1>2, <2>1, <3>2 DEF Added, Terms, Mul, d
  <2>2. CASE Element(f[i]) # e
    <3>1. Added(f[i], e) = Zero(semiring) /\ Terms(f, e)[i] = Zero(semiring)
      BY <1>2, <2>2 DEF Added, Terms, zero
    <3>2. Times(semiring, d, Zero(semiring)) = Zero(semiring)
      BY <1>2, MulLaws
    <3> QED  BY <3>1, <3>2
  <2> QED  BY <2>1, <2>2
<1>5. t \in [1 .. n -> K]
  <2>1. ASSUME NEW i \in 1 .. n PROVE t[i] \in K
    <3>1. Terms(f, e)[i] \in K
      BY <1>3
    <3> HIDE DEF t
    <3>2. Times(semiring, d, Terms(f, e)[i]) \in K
      BY <1>2, <3>1, MulLaws
    <3> QED  BY <1>4, <3>2
  <2> QED  BY <2>1
<1>6. \A i \in 1 .. n : t[i] = Added(f[i], e)
  OBVIOUS
<1> HIDE DEF t
<1>7. Total(semiring, t) = Times(semiring, d, Total(semiring, Terms(f, e)))
  <2> DEFINE u == Terms(f, e)
  <2>1. /\ n \in Nat /\ d \in K /\ u \in [1 .. n -> K] /\ t \in [1 .. n -> K]
        /\ \A i \in 1 .. n : t[i] = Times(semiring, d, u[i])
    BY <1>2, <1>3, <1>4, <1>5
  <2> HIDE DEF u
  <2>2. Total(semiring, t) = Times(semiring, d, Total(semiring, u))
    BY <2>1, TotalTimes
  <2> QED  BY <2>2 DEF u
<1>8. PICK p : PrefixSums(semiring, t, K, n, p) /\ Total(semiring, t) = p[n]
  BY <1>2, <1>5, TotalPrefixes
<1>9. a \in K
  <2>1. AccInv(s[0], A)
    BY <1>1, <1>2
  <2>2. trs \in Seq(Range(trs))
    BY <1>1, <2>1 DEF AccInv, AllLabelled
  <2> QED  BY <1>2, <2>2, ElementType
<1> HIDE DEF a
<1> DEFINE Good == {i \in Nat : /\ WeighIn(s[i].trs, K)
                                /\ i \in 0 .. n => ElementSum(s[i].trs, e) = Add(a, p[i])}
<1>10. 0 \in Good
  <2>1. p[0] = Zero(semiring)
    BY <1>8 DEF PrefixSums
  <2>2. Plus(semiring, a, Zero(semiring)) = a
    BY <1>9, AddLaws
  <2> QED  BY <1>1, <1>2, <2>1, <2>2 DEF Add, a
<1>11. ASSUME NEW i \in 1 .. n, i - 1 \in Good PROVE i \in Good
  <2>1. /\ i - 1 \in 0 .. n /\ i \in Nat /\ s[i] = ExamineTr(s[i - 1], f[i])
        /\ AccInv(s[i - 1], A) /\ WeighIn(s[i - 1].trs, K)
        /\ ElementSum(s[i - 1].trs, e) = Add(a, p[i - 1])
    BY <1>1, <1>2, <1>11
  <2>2. f[i].weight \in K /\ DOMAIN f[i] = {"label", "weight", "nextstate"}
    BY <1>2
  <2>3. /\ WeighIn(s[i].trs, K)
        /\ ElementSum(s[i].trs, e) = Add(ElementSum(s[i - 1].trs, e), Added(f[i], e))
    <3>1. DistanceRef(Top) \in K
      BY <1>2 DEF d
    <3> DEFINE x == s[i - 1]
               tr == f[i]
    <3>2. /\ AccInv(x, A) /\ WeighIn(x.trs, K) /\ tr.weight \in K
          /\ DOMAIN tr = {"label", "weight", "nextstate"}
      BY <2>1, <2>2
    <3> HIDE DEF x, tr
    <3>3. /\ WeighIn(ExamineTr(x, tr).trs, K)
          /\ ElementSum(ExamineTr(x, tr).trs, e) = Add(ElementSum(x.trs, e), Added(tr, e))
      BY <3>1, <3>2, ExamineAdds
    <3> QED  BY <2>1, <3>3 DEF x, tr
  <2>4. p[i] = Plus(semiring, p[i - 1], t[i]) /\ p[i - 1] \in K /\ t[i] \in K
    BY <1>5, <1>8, <2>1 DEF PrefixSums
  <2>5. \A x, y \in K : Plus(semiring, Plus(semiring, a, x), y)
                         = Plus(semiring, a, Plus(semiring, x, y))
    BY <1>9, AddLaws
  <2>6. ElementSum(s[i].trs, e) = Add(a, p[i])
    BY <1>6, <2>1, <2>3, <2>4, <2>5 DEF Add
  <2> QED  BY <2>1, <2>3, <2>6
<1>12. \A i \in 0 .. n : i \in Good
  <2>1. Good \in SUBSET Nat
    OBVIOUS
  <2> HIDE DEF Good
  <2> QED  BY <1>2, <1>10, <1>11, <2>1, PrefixInduction
<1>13. WeighIn(trs', K) /\ ElementSum(trs', e) = Add(a, p[n])
  <2>1. n \in 0 .. n
    BY <1>2
  <2> QED  BY <1>1, <1>12, <2>1
<1> QED  BY <1>3, <1>7, <1>8, <1>13 DEF a, d, f, Mul

\* The states to which the state visited leads are visited or wait.
LEMMA VisitQueues ==
    ASSUME NEW A, NEW s, VisitSteps(s, A),
           Len(fst.trs[Top]) \in Nat, DOMAIN fst.trs[Top] = 1 .. Len(fst.trs[Top])
    PROVE  /\ Range(Popped) \subseteq Range(eps_queue')
           /\ Led(fst, Top, Past(fst, Top), visited \cup {Top} \cup Range(eps_queue'))
<1> DEFINE f == fst.trs[Top]
           n == Len(f)
           Met(i) == visited \cup {Top} \cup Range(s[i].queue)
<1>1. /\ s[0].queue = Popped /\ eps_queue' = s[n].queue
      /\ \A i \in 1 .. n : s[i] = ExamineTr(s[i - 1], f[i])
      /\ \A i \in 0 .. n : AccInv(s[i], A)
  BY DEF VisitSteps
<1>2. n \in Nat /\ DOMAIN f = 1 .. n
  OBVIOUS
<1> HIDE DEF f, n
<1> DEFINE Good == {i \in Nat : /\ Range(Popped) \subseteq Range(s[i].queue)
                                /\ \A j \in 1 .. n : j <= i /\ Keep(f[j]) =>
                                     f[j].nextstate \in Met(i)}
<1>3. 0 \in Good
  BY <1>1
<1>4. ASSUME NEW i \in 1 .. n, i - 1 \in Good PROVE i \in Good
  <2>1. /\ i - 1 \in 0 .. n /\ i \in Nat /\ s[i] = ExamineTr(s[i - 1], f[i])
        /\ AccInv(s[i - 1], A) /\ Range(Popped) \subseteq Range(s[i - 1].queue)
        /\ \A j \in 1 .. n : j <= i - 1 /\ Keep(f[j]) => f[j].nextstate \in Met(i - 1)
    BY <1>1, <1>2, <1>4
  <2>2. /\ Range(s[i - 1].queue) \subseteq Range(s[i].queue)
        /\ Keep(f[i]) => f[i].nextstate \in Met(i)
    BY <2>1, ExamineQueues
  <2>3. \A j \in 1 .. n : j <= i => j <= i - 1 \/ j = i
    BY <2>1
  <2> QED  BY <2>1, <2>2, <2>3
<1>5. \A i \in 0 .. n : i \in Good
  <2>1. Good \in SUBSET Nat
    OBVIOUS
  <2> HIDE DEF Good
  <2> QED  BY <1>2, <1>3, <1>4, <2>1, PrefixInduction
<1>6. n \in Good /\ \A j \in 1 .. n : j <= n
  <2>1. n \in 0 .. n
    BY <1>2
  <2> HIDE DEF Good
  <2> QED  BY <1>2, <1>5, <2>1
<1>7. \A j \in DOMAIN f : Keep(f[j]) => f[j].nextstate \in Met(n)
  BY <1>2, <1>6
<1> QED  BY <1>1, <1>6, <1>7 DEF Led, f

-----------------------------------------------------------------------------
(* Sums over the states visited.                                           *)

\* What the states of V have of g, each after what c has to it.
PartTerms(c, V, g) ==
    [i \in 1 .. N |-> IF i - 1 \in V THEN Mul(c[i - 1], g[i - 1]) ELSE zero]

PartOf(c, V, g) == Total(semiring, PartTerms(c, V, g))

LEMMA PartType ==
    ASSUME NEW K, SemiringOn(semiring, K), NEW c \in [States -> K], NEW g \in [States -> K],
           NEW V
    PROVE  PartTerms(c, V, g) \in [1 .. N -> K] /\ PartOf(c, V, g) \in K
<1>1. ASSUME NEW i \in 1 .. N
      PROVE  (IF i - 1 \in V THEN Mul(c[i - 1], g[i - 1]) ELSE zero) \in K
  <2>1. i - 1 \in States
    BY NumberOfStates
  <2>2. c[i - 1] \in K /\ g[i - 1] \in K
    BY <2>1
  <2>3. Mul(c[i - 1], g[i - 1]) \in K
    BY <2>2, MulLaws DEF Mul
  <2>4. zero \in K
    BY DEF SemiringOn, zero
  <2> QED  BY <2>3, <2>4
<1>2. PartTerms(c, V, g) \in [1 .. N -> K]
  BY <1>1 DEF PartTerms
<1> QED  BY <1>2, NumberOfStates, TotalType DEF PartOf

\* No state.
LEMMA PartNone ==
    ASSUME NEW K, SemiringOn(semiring, K), NEW c \in [States -> K], NEW g \in [States -> K]
    PROVE  PartOf(c, {}, g) = zero
<1>1. PartTerms(c, {}, g) \in [1 .. N -> K]
  BY PartType
<1>2. \A i \in 1 .. N : PartTerms(c, {}, g)[i] = Zero(semiring)
  BY DEF PartTerms, zero
<1> QED  BY <1>1, <1>2, NumberOfStates, TotalZero DEF PartOf, zero

\* One more state.
LEMMA PartMore ==
    ASSUME NEW K, SemiringOn(semiring, K), NEW c \in [States -> K], NEW g \in [States -> K],
           NEW V, NEW p \in States, p \notin V
    PROVE  PartOf(c, V \cup {p}, g) = Add(PartOf(c, V, g), Mul(c[p], g[p]))
<1> DEFINE t == PartTerms(c, V, g)
           u == PartTerms(c, V \cup {p}, g)
           x == Mul(c[p], g[p])
<1>1. t \in [1 .. N -> K] /\ u \in [1 .. N -> K]
  BY PartType
<1>2. p + 1 \in 1 .. N /\ (p + 1) - 1 = p /\ N \in Nat
  BY NumberOfStates
<1>3. t[p + 1] = Zero(semiring) /\ u[p + 1] = x
  BY <1>2 DEF zero, PartTerms
<1>4. \A i \in 1 .. N : i # p + 1 => u[i] = t[i]
  <2> SUFFICES ASSUME NEW i \in 1 .. N, i # p + 1 PROVE u[i] = t[i]
    OBVIOUS
  <2>1. i - 1 # p
    BY <1>2
  <2> QED  BY <2>1 DEF PartTerms
<1>5. x \in K
  BY MulLaws DEF Mul
<1> HIDE DEF t, u, x
<1>6. u[p + 1] = Plus(semiring, t[p + 1], x)
  <2>1. Plus(semiring, Zero(semiring), x) = x
    BY <1>5, AddLaws
  <2> QED  BY <1>3, <2>1
<1>7. Total(semiring, u) = Plus(semiring, Total(semiring, t), x)
  BY <1>1, <1>2, <1>4, <1>5, <1>6, TotalChange
<1> QED  BY <1>7 DEF Add, PartOf, t, u, x

\* What all the states have.
AllOf(c, g) == SumOfStates(LAMBDA p : Mul(c[p], g[p]))

\* The states that c does not reach add nothing.
LEMMA PartAll ==
    ASSUME NEW K, SemiringOn(semiring, K), NEW c \in [States -> K], NEW g \in [States -> K],
           NEW V, \A p \in States \ V : c[p] = Zero(semiring)
    PROVE  PartOf(c, V, g) = AllOf(c, g)
<1> DEFINE u == [i \in 1 .. N |-> Mul(c[i - 1], g[i - 1])]
<1>1. AllOf(c, g) = Total(semiring, u)
  BY DEF AllOf, SumOfStates, N
<1>2. ASSUME NEW i \in 1 .. N
      PROVE  (IF i - 1 \in V THEN Mul(c[i - 1], g[i - 1]) ELSE zero) = Mul(c[i - 1], g[i - 1])
  <2>1. CASE i - 1 \in V
    BY <2>1
  <2>2. CASE i - 1 \notin V
    <3>1. i - 1 \in States
      BY NumberOfStates
    <3>2. c[i - 1] = Zero(semiring) /\ g[i - 1] \in K
      BY <2>2, <3>1
    <3>3. \A a \in K : Times(semiring, Zero(semiring), a) = Zero(semiring)
      BY MulLaws
    <3>4. Times(semiring, c[i - 1], g[i - 1]) = Zero(semiring)
      BY <3>2, <3>3
    <3> QED  BY <2>2, <3>4 DEF Mul, zero
  <2> QED  BY <2>1, <2>2
<1>3. PartTerms(c, V, g) = u
  BY <1>2 DEF PartTerms
<1> QED  BY <1>1, <1>3 DEF PartOf

-----------------------------------------------------------------------------
(* The machine as it is rewritten.                                         *)

\* The weights K are exact ones (see ShortestDistance_proofs), the machine
\* weighs in K, and in it, and in what is left of it when the transitions of
\* some states are replaced by labelled ones, the paths of more than PathBound
\* epsilon transitions add nothing to the sums over the others.
Sound(w, K, m) ==
    /\ ExactOn(w, K) /\ m.final \in [States -> K] /\ \A s \in States : WeighIn(m.trs[s], K)
    /\ \A n : FstTyped(n) /\ Thinner(m, n) => Closes(w, n, PathSums(w, n)[PathBound])

\* (In the tropical semiring, without negative cycles, PathBound is one less
\* than there are states.)
StaysExact == \A w \in Semirings : \A m \in Fsts(w) : \E K : Sound(w, K, m)

LEMMA SoundExact ==
    ASSUME NEW w, NEW K, NEW m, FstTyped(m), Sound(w, K, m)
    PROVE  Exact(w, K, m) /\ SemiringOn(w, K)
<1>1. Thinner(m, m)
  BY DEF Thinner
<1>2. MachineOn(K, m)
  BY DEF MachineOn, FstTyped, Sound, WeighIn
<1> QED  BY <1>1, <1>2 DEF Sound, Exact, ExactOn

LEMMA SoundRewritten ==
    ASSUME NEW w, NEW K, NEW m, NEW n, Sound(w, K, m), Thinner(m, n),
           n.final \in [States -> K], \A s \in States : WeighIn(n.trs[s], K)
    PROVE  Sound(w, K, n)
<1>1. ASSUME NEW o, Thinner(n, o) PROVE Thinner(m, o)
  BY <1>1 DEF Thinner
<1> QED  BY <1>1 DEF Sound

LEMMA ReverseWeighs ==
    ASSUME NEW ts, ts \in Seq(Range(ts)), NEW K, WeighIn(ts, K)
    PROVE  WeighIn(Reverse(ts), K)
<1> DEFINE n == Len(ts)
<1>1. n \in Nat /\ DOMAIN ts = 1 .. n
  OBVIOUS
<1>2. \A i \in 1 .. n : n - i + 1 \in 1 .. n
  BY <1>1
<1> QED  BY <1>1, <1>2 DEF Reverse, WeighIn

-----------------------------------------------------------------------------
(* The sums of an expansion.                                               *)

Elements == [label : Labels, nextstate : States]

\* What the transitions of an element weigh together, by state.
ElementSums(m, e) == [p \in States |-> ElementSum(m.trs[p], e)]

\* The transitions ts and the final weight x are those of the states of V, each
\* after what c has to it.
SumsOf(c, V, ts, x) ==
    /\ x = PartOf(c, V, fst.final)
    /\ \A e \in Elements : ElementSum(ts, e) = PartOf(c, V, ElementSums(fst, e))

\* The states visited or to visit.
Reached == visited \cup Range(eps_queue)

\* The walk has added up the states visited, and will visit what they lead to.
WalkSums(K) ==
    /\ source \in States /\ source \in Reached
    /\ \A s \in visited : Led(fst, s, Past(fst, s), Reached)
    /\ WeighIn(trs, K) /\ SumsOf(closure[source], visited, trs, final_weight)

\* They are those of all the states.
AllSumsOf(c, ts, x) ==
    /\ x = AllOf(c, fst.final)
    /\ \A e \in Elements : ElementSum(ts, e) = AllOf(c, ElementSums(fst, e))

WalkInv(K) ==
    /\ visited \subseteq States
    /\ step # "walk" => visited = {}
    /\ step = "distance" => final_weight = zero
    /\ step = "walk" => WalkSums(K)
    /\ step = "expanded" => /\ final_weight \in K /\ WeighIn(trs, K)
                           /\ AllSumsOf(closure[source], trs, final_weight)

\* What an expansion maintains besides RmInv.
SumInv ==
    /\ SumsInv
    /\ step = "walk" => AnswerInv
    /\ \E K : (step # "done" => Sound(semiring, K, fst)) /\ WalkInv(K)

LEMMA SumsOfPrimed ==
    ASSUME UNCHANGED <<semiring, fst>>
    PROVE  /\ SumsOf(closure[source], visited, trs, final_weight)'
                <=> SumsOf(closure'[source'], visited', trs', final_weight')
           /\ AllSumsOf(closure[source], trs, final_weight)'
                <=> AllSumsOf(closure'[source'], trs', final_weight')
           /\ \A K : /\ WeighIn(trs, K)' <=> WeighIn(trs', K)
                     /\ Sound(semiring, K, fst)' <=> Sound(semiring, K, fst)
           /\ \A A, s : Led(fst, s, Past(fst, s), A)' <=> Led(fst, s, Past(fst, s), A)
<1>1. SumsOf(closure[source], visited, trs, final_weight)'
        <=> SumsOf(closure'[source'], visited', trs', final_weight')
  BY DEF SumsOf, PartOf, PartTerms, ElementSums, ElementSum, SumOver, Element, zero, Add, Mul
<1>5. AllSumsOf(closure[source], trs, final_weight)'
        <=> AllSumsOf(closure'[source'], trs', final_weight')
  BY DEF AllSumsOf, AllOf, SumOfStates, ElementSums, ElementSum, SumOver, Element, zero, Mul
<1>2. \A K : WeighIn(trs, K)' <=> WeighIn(trs', K)
  BY DEF WeighIn
<1>3. \A K : Sound(semiring, K, fst)' <=> Sound(semiring, K, fst)
  BY DEF Sound, ExactOn, SemiringOn, IdempotentOn, WeighIn, FstTyped, Thinner, Keep, Closes,
         Longer, EmptyPath, Onward, Carried, PathSums
<1>4. \A A, s : Led(fst, s, Past(fst, s), A)' <=> Led(fst, s, Past(fst, s), A)
  BY DEF Led, Past, Keep
<1> QED  BY <1>1, <1>2, <1>3, <1>4, <1>5

\* Of the machine that a step leaves.
LEMMA SoundPrimed ==
    ASSUME semiring' = semiring
    PROVE  \A K : Sound(semiring, K, fst)' <=> Sound(semiring, K, fst')
BY DEF Sound, ExactOn, SemiringOn, IdempotentOn, WeighIn, FstTyped, Thinner, Keep, Closes,
       Longer, EmptyPath, Onward, Carried, PathSums

\* What the walk can rely on.
LEMMA SoundFacts ==
    ASSUME PassInv, NEW K, Sound(semiring, K, fst)
    PROVE  LET C == PathSums(semiring, fst)[PathBound] IN
           /\ Exact(semiring, K, fst) /\ SemiringOn(semiring, K)
           /\ \A s \in States : C[s] \in [States -> K]
           /\ fst.final \in [States -> K]
           /\ \A e : ElementSums(fst, e) \in [States -> K]
<1>1. FstTyped(fst)
  BY DEF PassInv
<1>2. Exact(semiring, K, fst) /\ SemiringOn(semiring, K)
  BY <1>1, SoundExact
<1>3. PathSums(semiring, fst)[PathBound] \in Sums(K)
  BY <1>2, SumsType
<1>4. ASSUME NEW e, NEW p \in States PROVE ElementSum(fst.trs[p], e) \in K
  <2>1. fst.trs[p] \in Seq(Range(fst.trs[p])) /\ WeighIn(fst.trs[p], K)
    BY <1>1 DEF FstTyped, Sound
  <2> QED  BY <1>2, <2>1, ElementType
<1>5. \A e : ElementSums(fst, e) \in [States -> K]
  BY <1>4 DEF ElementSums
<1> QED  BY <1>2, <1>3, <1>5 DEF Sound, Sums

LEMMA SumExpand ==
    ASSUME FoundInv, SumInv, step = "next", NEW s \in States, Expand(s)
    PROVE  SumInv'
<1>1. /\ StartPass(s) /\ step' = "distance" /\ final_weight' = zero /\ visited' = visited
      /\ UNCHANGED <<semiring, fst>>
  BY DEF Expand, StartPass
<1>2. SumsInv'
  BY <1>1, StartSums DEF FoundInv, PassPart, SumInv
<1>3. PICK K : Sound(semiring, K, fst) /\ WalkInv(K)
  BY DEF SumInv
<1>4. Sound(semiring, K, fst)' /\ zero' = zero
  BY <1>1, <1>3, SumsOfPrimed DEF zero
<1>5. WalkInv(K)'
  BY <1>1, <1>3, <1>4 DEF WalkInv
<1> QED  BY <1>1, <1>2, <1>4, <1>5 DEF SumInv

\* Nothing is visited yet.
LEMMA NoneVisited ==
    ASSUME NEW K, SemiringOn(semiring, K), NEW c \in [States -> K],
           fst.final \in [States -> K], \A e : ElementSums(fst, e) \in [States -> K]
    PROVE  SumsOf(c, {}, <<>>, zero) /\ WeighIn(<<>>, K)
<1>1. WeighIn(<<>>, K) /\ <<>> \in Seq(Range(<<>>))
  BY DEF WeighIn
<1>2. ASSUME NEW e PROVE ElementSum(<<>>, e) = zero
  <2>1. /\ Terms(<<>>, e) \in [1 .. 0 -> K]
        /\ ElementSum(<<>>, e) = Total(semiring, Terms(<<>>, e))
    <3>1. Len(<<>>) = 0
      OBVIOUS
    <3> QED  BY <1>1, <3>1, ElementType
  <2>2. \A i \in 1 .. 0 : Terms(<<>>, e)[i] = Zero(semiring)
    OBVIOUS
  <2>3. 0 \in Nat
    OBVIOUS
  <2>4. Total(semiring, Terms(<<>>, e)) = Zero(semiring)
    BY <2>1, <2>2, <2>3, TotalZero
  <2> QED  BY <2>1, <2>4 DEF zero
<1>3. ASSUME NEW e PROVE PartOf(c, {}, ElementSums(fst, e)) = zero
  <2>1. ElementSums(fst, e) \in [States -> K]
    OBVIOUS
  <2> QED  BY <2>1, PartNone
<1>4. PartOf(c, {}, fst.final) = zero
  BY PartNone
<1> QED  BY <1>1, <1>2, <1>3, <1>4 DEF SumsOf

LEMMA SumDistance ==
    ASSUME MapInv, FoundInv, SumInv, DistanceStep
    PROVE  SumInv'
<1>1. /\ step = "distance" /\ Pass /\ step' = (IF pc' = "idle" THEN "walk" ELSE step)
      /\ UNCHANGED <<visited, eps_queue, trs, final_weight>>
      /\ UNCHANGED <<semiring, fst, source, closure>>
  BY DEF DistanceStep, walk, Pass, DequeueState, RelaxNothing, RelaxMore, RelaxNone, EndPass
<1>2. /\ IInv /\ PassInv /\ pc # "idle" /\ eps_queue = <<source>> /\ trs = <<>> /\ SumsInv
  BY <1>1 DEF MapInv, FoundInv, PassPart, WalkPart, IInv, SumInv
<1>3. SumsInv' /\ AnswerInv'
  BY <1>1, <1>2, PassSums
<1>4. PICK K : Sound(semiring, K, fst) /\ WalkInv(K)
  BY <1>1 DEF SumInv
<1>5. visited = {} /\ final_weight = zero
  BY <1>1, <1>4 DEF WalkInv
<1>6. Exact(semiring, K, fst) /\ SemiringOn(semiring, K)
  BY <1>2, <1>4, SoundFacts
<1>7. source \in States /\ closure = PathSums(semiring, fst)[PathBound]
  BY <1>2, <1>6 DEF SumsInv
<1>8. SumsOf(closure[source], {}, <<>>, zero) /\ WeighIn(<<>>, K)
  <2> DEFINE c == closure[source]
  <2>1. /\ c \in [States -> K] /\ fst.final \in [States -> K]
        /\ \A e : ElementSums(fst, e) \in [States -> K]
    BY <1>2, <1>4, <1>7, SoundFacts
  <2> HIDE DEF c
  <2> QED  BY <1>6, <2>1, NoneVisited DEF c
<1>9. WeighIn(trs, K)' /\ SumsOf(closure[source], visited, trs, final_weight)'
      /\ Sound(semiring, K, fst)' /\ zero' = zero
  BY <1>1, <1>2, <1>4, <1>5, <1>8, SumsOfPrimed DEF zero
<1>10. Reached' = {source}
  BY <1>1, <1>2, <1>5 DEF Reached, Range
<1>11. WalkSums(K)'
  BY <1>1, <1>5, <1>7, <1>9, <1>10 DEF WalkSums
<1>12. WalkInv(K)'
  BY <1>1, <1>5, <1>9, <1>11 DEF WalkInv
<1> QED  BY <1>1, <1>3, <1>9, <1>12 DEF SumInv

\* The state on top is one of those that wait.
LEMMA PoppedWaits ==
    ASSUME NEW A, eps_queue \in Seq(A), eps_queue # <<>>
    PROVE  Top \in A /\ Range(eps_queue) = Range(Popped) \cup {Top}
<1> DEFINE n == Len(eps_queue)
<1>1. n \in Nat /\ n # 0 /\ DOMAIN eps_queue = 1 .. n /\ Top = eps_queue[n] /\ Top \in A
  BY DEF Top
<1> HIDE DEF n
<1>2. DOMAIN Popped = 1 .. n - 1 /\ \A i \in 1 .. n - 1 : Popped[i] = eps_queue[i]
  BY <1>1 DEF Popped, n
<1>3. \A i \in 1 .. n : i = n \/ i \in 1 .. n - 1
  BY <1>1
<1>4. n \in 1 .. n /\ 1 .. n - 1 \subseteq 1 .. n
  BY <1>1
<1> QED  BY <1>1, <1>2, <1>3, <1>4 DEF Range

LEMMA SumVisited ==
    ASSUME FoundInv, SumInv, WalkVisited
    PROVE  SumInv'
<1>1. /\ step = "walk" /\ step' = step /\ eps_queue # <<>> /\ Top \in visited
      /\ eps_queue' = Popped /\ UNCHANGED <<visited, trs, final_weight>>
      /\ UNCHANGED vars /\ UNCHANGED <<semiring, fst, source, closure>>
  BY DEF WalkVisited, vars
<1>2. PICK K : Sound(semiring, K, fst) /\ WalkInv(K)
  BY <1>1 DEF SumInv
<1>3. WalkSums(K) /\ visited \subseteq States
  BY <1>1, <1>2 DEF WalkInv
<1>4. Reached' = Reached
  <2>1. eps_queue \in Seq(Found)
    BY <1>1 DEF FoundInv, WalkPart
  <2>2. Range(eps_queue) = Range(Popped) \cup {Top}
    BY <1>1, <2>1, PoppedWaits
  <2>3. Range(eps_queue)' = Range(Popped)
    BY <1>1 DEF Range
  <2> QED  BY <1>1, <2>2, <2>3 DEF Reached
<1>5. /\ WeighIn(trs, K)' /\ SumsOf(closure[source], visited, trs, final_weight)'
      /\ Sound(semiring, K, fst)'
  <2>1. WeighIn(trs, K) /\ SumsOf(closure[source], visited, trs, final_weight)
    BY <1>3 DEF WalkSums
  <2> QED  BY <1>1, <1>2, <2>1, SumsOfPrimed
<1>6. (\A s \in visited : Led(fst, s, Past(fst, s), Reached))'
  <2>1. \A s \in visited : Led(fst, s, Past(fst, s), Reached)
    BY <1>3 DEF WalkSums
  <2> QED  BY <1>1, <1>4, <2>1 DEF Led, Past, Keep
<1>7. WalkInv(K)'
  <2>1. WalkSums(K)'
    BY <1>1, <1>3, <1>4, <1>5, <1>6 DEF WalkSums
  <2> QED  BY <1>1, <1>3, <2>1 DEF WalkInv
<1>8. SumsInv' /\ AnswerInv'
  BY <1>1, StutterSums DEF SumInv
<1> QED  BY <1>1, <1>5, <1>7, <1>8 DEF SumInv

\* The distance that the walk reads is the sum.
LEMMA DistanceRead ==
    ASSUME FoundInv, SumInv, step = "walk", eps_queue # <<>>,
           NEW K, Sound(semiring, K, fst), source \in States
    PROVE  /\ closure = PathSums(semiring, fst)[PathBound]
           /\ Top \in States /\ DistanceRef(Top) = closure[source][Top]
<1>1. /\ PassInv /\ retain /\ pc = "idle" /\ eps_queue \in Seq(Found) /\ AnswerInv
  BY DEF FoundInv, PassPart, WalkPart, IInv, SumInv
<1>2. Top \in Found
  BY <1>1, PoppedWaits
<1>3. Exact(semiring, K, fst)
  BY <1>1, SoundFacts
<1>4. source # None
  BY StatesAreNaturals
<1>5. Answered /\ closure = PathSums(semiring, fst)[PathBound]
  BY <1>1, <1>3, <1>4 DEF AnswerInv
<1>6. Top \in States /\ Top \in LastIn /\ Top \in DOMAIN rows
  BY <1>1, <1>2 DEF Found, LastIn, PassInv, RowsInv
<1> QED  BY <1>5, <1>6 DEF Answered, DistanceRef

\* What a state visited adds to the sums.
LEMMA VisitSums ==
    ASSUME MapInv, FoundInv, SumInv, WalkState, NEW K, Sound(semiring, K, fst), WalkInv(K)
    PROVE  /\ WeighIn(trs', K)
           /\ SumsOf(closure[source], visited \cup {Top}, trs', final_weight')
           /\ Reached \cup {Top} \subseteq Reached' /\ Top \in States
           /\ Led(fst, Top, Past(fst, Top), Reached')
<1>1. /\ step = "walk" /\ eps_queue # <<>> /\ Top \notin visited
      /\ visited' = visited \cup {Top}
      /\ final_weight' = Add(final_weight, Mul(DistanceRef(Top), fst.final[Top]))
  BY DEF WalkState
<1>2. /\ PassInv /\ eps_queue \in Seq(Found) /\ LeadsWithin(fst, Found)
      /\ AllLabelled(trs) /\ Placed(trs, element_map, expand_id) /\ expand_id \in Nat
      /\ FstTyped(fst) /\ Found \subseteq States
  BY <1>1 DEF MapInv, FoundInv, PassPart, WalkPart, IInv, PassInv, RowsInv, Found
<1>3. WalkSums(K)
  BY <1>1 DEF WalkInv
<1>4. /\ source \in States /\ source \in Reached /\ WeighIn(trs, K)
      /\ SumsOf(closure[source], visited, trs, final_weight)
  BY <1>3 DEF WalkSums
<1>5. /\ closure = PathSums(semiring, fst)[PathBound]
      /\ Top \in States /\ DistanceRef(Top) = closure[source][Top]
  BY <1>1, <1>4, DistanceRead
<1> DEFINE c == closure[source]
<1>6. /\ SemiringOn(semiring, K) /\ c \in [States -> K] /\ fst.final \in [States -> K]
      /\ \A e : ElementSums(fst, e) \in [States -> K]
  BY <1>2, <1>4, <1>5, SoundFacts
<1> HIDE DEF c
<1>7. /\ Len(fst.trs[Top]) \in Nat /\ DOMAIN fst.trs[Top] = 1 .. Len(fst.trs[Top])
      /\ \E s : VisitSteps(s, Found)
  BY <1>1, <1>2, VisitFold
<1>8. PICK s : VisitSteps(s, Found)
  BY <1>7
<1>9. VisitTyped(K)
  <2>1. /\ fst.trs[Top] \in Seq(Range(fst.trs[Top])) /\ WeighIn(fst.trs[Top], K)
        /\ \A i \in DOMAIN fst.trs[Top] :
             DOMAIN fst.trs[Top][i] = {"label", "weight", "nextstate"}
    BY <1>2, <1>5 DEF FstTyped, Sound
  <2>2. DistanceRef(Top) \in K
    BY <1>5, <1>6 DEF c
  <2> QED  BY <1>4, <1>7, <2>1, <2>2 DEF VisitTyped
<1>10. WeighIn(trs', K)
  <2>1. PICK x \in {0, 1} : x # Eps
    OBVIOUS
  <2> DEFINE e == [label |-> x, nextstate |-> 0]
  <2>2. e.label # Eps
    BY <2>1
  <2> HIDE DEF e
  <2> QED  BY <1>6, <1>8, <1>9, <2>2, VisitAdds
<1>11. ASSUME NEW e \in Elements
       PROVE  ElementSum(trs', e) = PartOf(c, visited \cup {Top}, ElementSums(fst, e))
  <2>1. e.label # Eps
    BY RmAssumption DEF Elements
  <2>2. ElementSum(trs', e)
          = Add(ElementSum(trs, e), Mul(DistanceRef(Top), ElementSum(fst.trs[Top], e)))
    BY <1>6, <1>8, <1>9, <2>1, VisitAdds
  <2>3. ElementSum(trs, e) = PartOf(c, visited, ElementSums(fst, e))
    BY <1>4 DEF SumsOf, c
  <2> DEFINE g == ElementSums(fst, e)
  <2>4. g[Top] = ElementSum(fst.trs[Top], e) /\ g \in [States -> K]
    BY <1>5, <1>6 DEF ElementSums
  <2> HIDE DEF g
  <2>5. PartOf(c, visited \cup {Top}, g) = Add(PartOf(c, visited, g), Mul(c[Top], g[Top]))
    BY <1>1, <1>5, <1>6, <2>4, PartMore
  <2> QED  BY <1>5, <2>2, <2>3, <2>4, <2>5 DEF c, g
<1>12. final_weight' = PartOf(c, visited \cup {Top}, fst.final)
  <2> DEFINE g == fst.final
  <2>1. g \in [States -> K]
    BY <1>6
  <2> HIDE DEF g
  <2>2. PartOf(c, visited \cup {Top}, g) = Add(PartOf(c, visited, g), Mul(c[Top], g[Top]))
    BY <1>1, <1>5, <1>6, <2>1, PartMore
  <2>3. final_weight = PartOf(c, visited, g)
    BY <1>4 DEF SumsOf, c, g
  <2> QED  BY <1>1, <1>5, <2>2, <2>3 DEF c, g
<1>13. SumsOf(c, visited \cup {Top}, trs', final_weight')
  BY <1>11, <1>12 DEF SumsOf
<1>14. /\ Range(Popped) \subseteq Range(eps_queue')
       /\ Led(fst, Top, Past(fst, Top), visited \cup {Top} \cup Range(eps_queue'))
  BY <1>7, <1>8, VisitQueues
<1>15. Range(eps_queue) = Range(Popped) \cup {Top}
  BY <1>1, <1>2, PoppedWaits
<1>16. Reached' = visited \cup {Top} \cup Range(eps_queue')
  BY <1>1 DEF Reached, Range
<1> QED  BY <1>5, <1>10, <1>13, <1>14, <1>15, <1>16 DEF Reached, c

LEMMA SumVisit ==
    ASSUME MapInv, FoundInv, SumInv, WalkState
    PROVE  SumInv'
<1>1. /\ step = "walk" /\ step' = step /\ visited' = visited \cup {Top}
      /\ UNCHANGED vars /\ UNCHANGED <<semiring, fst, source, closure>>
  BY DEF WalkState, vars
<1>2. PICK K : Sound(semiring, K, fst) /\ WalkInv(K)
  BY <1>1 DEF SumInv
<1>3. WalkSums(K) /\ visited \subseteq States
  BY <1>1, <1>2 DEF WalkInv
<1>4. /\ WeighIn(trs', K)
      /\ SumsOf(closure[source], visited \cup {Top}, trs', final_weight')
      /\ Reached \cup {Top} \subseteq Reached' /\ Top \in States
      /\ Led(fst, Top, Past(fst, Top), Reached')
  BY <1>2, VisitSums
<1>5. /\ WeighIn(trs, K)' /\ SumsOf(closure[source], visited, trs, final_weight)'
      /\ Sound(semiring, K, fst)'
  BY <1>1, <1>2, <1>4, SumsOfPrimed
<1>6. (\A s \in visited : Led(fst, s, Past(fst, s), Reached))'
  <2>1. ASSUME NEW s \in visited' PROVE Led(fst, s, Past(fst, s), Reached')
    <3>1. CASE s \in visited
      <4>1. Led(fst, s, Past(fst, s), Reached)
        BY <1>3, <3>1 DEF WalkSums
      <4> QED  BY <1>4, <4>1, LedGrows
    <3>2. CASE s = Top
      BY <1>4, <3>2
    <3> QED  BY <1>1, <3>1, <3>2
  <2> QED  BY <1>1, <2>1 DEF Led, Past, Keep
<1>7. WalkInv(K)'
  <2>1. WalkSums(K)'
    BY <1>1, <1>3, <1>4, <1>5, <1>6 DEF WalkSums
  <2> QED  BY <1>1, <1>3, <1>4, <2>1 DEF WalkInv
<1>8. SumsInv' /\ AnswerInv'
  BY <1>1, StutterSums DEF SumInv
<1> QED  BY <1>1, <1>5, <1>7, <1>8 DEF SumInv

\* Nothing waits to be visited: all the states that the source leads to have been.
LEMMA AllVisited ==
    ASSUME PassInv, NEW K, Sound(semiring, K, fst), NEW V, V \subseteq States,
           NEW s \in V, LeadsWithin(fst, V), NEW c,
           c = PathSums(semiring, fst)[PathBound][s], NEW ts, NEW x, SumsOf(c, V, ts, x)
    PROVE  AllSumsOf(c, ts, x) /\ x \in K
<1>1. /\ Exact(semiring, K, fst) /\ SemiringOn(semiring, K) /\ c \in [States -> K]
      /\ fst.final \in [States -> K] /\ \A e : ElementSums(fst, e) \in [States -> K]
  BY SoundFacts
<1>2. MachineOn(K, fst)
  BY <1>1 DEF Exact
<1>3. \A p \in States \ V : c[p] = Zero(semiring)
  BY <1>1, <1>2, OutsideNothing
<1>4. \A g \in [States -> K] : PartOf(c, V, g) = AllOf(c, g) /\ PartOf(c, V, g) \in K
  BY <1>1, <1>3, PartAll, PartType
<1> QED  BY <1>1, <1>4 DEF SumsOf, AllSumsOf

LEMMA SumWalkEnd ==
    ASSUME FoundInv, SumInv, WalkEnd
    PROVE  SumInv'
<1>1. /\ step = "walk" /\ step' = "expanded" /\ eps_queue = <<>> /\ visited' = {}
      /\ UNCHANGED vars /\ UNCHANGED <<semiring, fst, source, closure, trs, final_weight>>
  BY DEF WalkEnd, vars
<1>2. PICK K : Sound(semiring, K, fst) /\ WalkInv(K)
  BY <1>1 DEF SumInv
<1>3. WalkSums(K) /\ visited \subseteq States
  BY <1>1, <1>2 DEF WalkInv
<1>4. Reached = visited
  BY <1>1 DEF Reached, Range
<1>5. source \in visited /\ LeadsWithin(fst, visited) /\ WeighIn(trs, K)
      /\ SumsOf(closure[source], visited, trs, final_weight)
  BY <1>3, <1>4 DEF WalkSums, LeadsWithin
<1>6. PassInv /\ pc = "idle" /\ AnswerInv
  BY <1>1 DEF FoundInv, PassPart, IInv, SumInv
<1>7. closure = PathSums(semiring, fst)[PathBound]
  <2>1. Exact(semiring, K, fst)
    BY <1>2, <1>6, SoundFacts
  <2>2. source # None
    BY <1>3, <1>5, StatesAreNaturals
  <2> QED  BY <1>6, <2>1, <2>2 DEF AnswerInv
<1>8. AllSumsOf(closure[source], trs, final_weight) /\ final_weight \in K
  <2> DEFINE c == closure[source]
  <2>1. c = PathSums(semiring, fst)[PathBound][source] /\ SumsOf(c, visited, trs, final_weight)
    BY <1>5, <1>7
  <2> HIDE DEF c
  <2>2. AllSumsOf(c, trs, final_weight) /\ final_weight \in K
    BY <1>2, <1>3, <1>5, <1>6, <2>1, AllVisited
  <2> QED  BY <2>2 DEF c
<1>9. /\ AllSumsOf(closure[source], trs, final_weight)' /\ WeighIn(trs, K)'
      /\ Sound(semiring, K, fst)'
  BY <1>1, <1>2, <1>5, <1>8, SumsOfPrimed
<1>10. WalkInv(K)'
  BY <1>1, <1>8, <1>9 DEF WalkInv
<1>11. SumsInv'
  BY <1>1, StutterSums DEF SumInv
<1> QED  BY <1>1, <1>9, <1>10, <1>11 DEF SumInv

\* A step that leaves the sums alone, between two expansions.
LEMMA SumRest ==
    ASSUME SumInv, step \in {"prepare", "next", "expanded"}, step' \in {"next", "connect"},
           visited' = visited, pc' = "idle", NEW K, WalkInv(K), Sound(semiring, K, fst)'
    PROVE  SumInv'
<1>1. SumsInv'
  BY DEF SumsInv
<1>2. visited = {} /\ WalkInv(K)'
  BY DEF WalkInv
<1> QED  BY <1>1, <1>2 DEF SumInv

\* The machine rewritten is as sound as it was.
LEMMA SumReplace ==
    ASSUME MapInv, FoundInv, SumInv, Replace
    PROVE  SumInv'
<1>1. /\ step = "expanded" /\ step' = "next" /\ visited' = visited
      /\ pc' = pc /\ semiring' = semiring
      /\ fst' = [fst EXCEPT !.trs[Head(todo)] = Reverse(trs),
                            !.final[Head(todo)] = final_weight]
  BY DEF Replace, walk
<1>2. FstTyped(fst) /\ AllLabelled(trs) /\ pc = "idle"
  BY <1>1 DEF MapInv, FoundInv, PassPart
<1>3. PICK K : Sound(semiring, K, fst) /\ WalkInv(K)
  BY <1>1 DEF SumInv
<1>4. final_weight \in K /\ WeighIn(trs, K)
  BY <1>1, <1>3 DEF WalkInv
<1>5. Rewritten(fst, fst', Reverse(trs)) /\ AllLabelled(Reverse(trs))
  BY <1>2, ReplaceRewrites, ReverseLabelled
<1>6. Thinner(fst, fst')
  BY <1>2, <1>5, RewrittenFacts
<1>7. WeighIn(Reverse(trs), K)
  BY <1>2, <1>4, ReverseWeighs DEF AllLabelled
<1>8. \A s \in States : WeighIn(fst'.trs[s], K)
  BY <1>3, <1>5, <1>7 DEF Rewritten, Sound
<1>9. fst'.final \in [States -> K]
  <2>1. fst.final \in [States -> K]
    BY <1>3 DEF Sound
  <2>2. fst'.final = [fst.final EXCEPT ![Head(todo)] = final_weight]
    BY <1>1, <1>2 DEF FstTyped
  <2> QED  BY <1>4, <2>1, <2>2
<1>10. Sound(semiring, K, fst')
  BY <1>3, <1>6, <1>8, <1>9, SoundRewritten
<1>11. Sound(semiring, K, fst)'
  BY <1>1, <1>10, SoundPrimed
<1> QED  BY <1>1, <1>2, <1>3, <1>11, SumRest

LEMMA SumDelete ==
    ASSUME MapInv, FoundInv, SumInv, DeleteTrs
    PROVE  SumInv'
<1>1. /\ step = "next" /\ step' = "connect" /\ visited' = visited
      /\ pc' = pc /\ semiring' = semiring
      /\ fst' = [fst EXCEPT !.trs = [s \in States |-> IF s \in noneps_in THEN @[s] ELSE <<>>]]
  BY DEF DeleteTrs, walk
<1>2. FstTyped(fst) /\ pc = "idle"
  BY <1>1 DEF MapInv, FoundInv, PassPart
<1>3. PICK K : Sound(semiring, K, fst) /\ WalkInv(K)
  BY <1>1 DEF SumInv
<1>4. Rewritten(fst, fst', <<>>) /\ AllLabelled(<<>>)
  BY <1>2, DeleteRewrites
<1>5. Thinner(fst, fst')
  BY <1>2, <1>4, RewrittenFacts
<1>6. \A s \in States : WeighIn(fst'.trs[s], K)
  <2>1. WeighIn(<<>>, K)
    BY DEF WeighIn
  <2> QED  BY <1>3, <1>4, <2>1 DEF Rewritten, Sound
<1>7. fst'.final \in [States -> K]
  BY <1>1, <1>2, <1>3 DEF FstTyped, Sound
<1>8. Sound(semiring, K, fst')
  BY <1>3, <1>5, <1>6, <1>7, SoundRewritten
<1>9. Sound(semiring, K, fst)'
  BY <1>1, <1>8, SoundPrimed
<1> QED  BY <1>1, <1>2, <1>3, <1>9, SumRest

LEMMA SumStutter ==
    ASSUME SumInv, UNCHANGED rm_vars
    PROVE  SumInv'
<1>1. /\ UNCHANGED vars /\ UNCHANGED <<step, eps_queue, visited, trs, final_weight>>
      /\ UNCHANGED <<semiring, fst, source, closure>>
  BY DEF rm_vars, walk, vars
<1>2. PICK K : (step # "done" => Sound(semiring, K, fst)) /\ WalkInv(K)
  BY DEF SumInv
<1>3. Reached' = Reached /\ zero' = zero
  BY <1>1 DEF Reached, Range, zero
<1>4. WalkSums(K) => WalkSums(K)'
  <2> SUFFICES ASSUME WalkSums(K) PROVE WalkSums(K)'
    OBVIOUS
  <2>1. /\ WeighIn(trs, K) /\ SumsOf(closure[source], visited, trs, final_weight)
        /\ \A s \in visited : Led(fst, s, Past(fst, s), Reached)
    BY DEF WalkSums
  <2>2. WeighIn(trs, K)' /\ SumsOf(closure[source], visited, trs, final_weight)'
    BY <1>1, <2>1, SumsOfPrimed
  <2>3. (\A s \in visited : Led(fst, s, Past(fst, s), Reached))'
    BY <1>1, <1>3, <2>1 DEF Led, Past, Keep
  <2> QED  BY <1>1, <1>3, <2>2, <2>3 DEF WalkSums
<1>5. /\ AllSumsOf(closure[source], trs, final_weight)
           => AllSumsOf(closure[source], trs, final_weight)'
      /\ WeighIn(trs, K) => WeighIn(trs, K)'
      /\ Sound(semiring, K, fst) => Sound(semiring, K, fst)'
  BY <1>1, SumsOfPrimed
<1>6. WalkInv(K)'
  BY <1>1, <1>2, <1>3, <1>4, <1>5 DEF WalkInv
<1>7. SumsInv' /\ (step' = "walk" => AnswerInv')
  BY <1>1, StutterSums DEF SumInv
<1> QED  BY <1>1, <1>2, <1>5, <1>6, <1>7 DEF SumInv

LEMMA ExpansionKeeps ==
    ASSUME MapInv, FoundInv, SumInv, [RmNext]_rm_vars
    PROVE  SumInv'
<1>1. CASE DistanceStep
  BY <1>1, SumDistance
<1>2. CASE WalkVisited
  BY <1>2, SumVisited
<1>3. CASE WalkState
  BY <1>3, SumVisit
<1>4. CASE WalkEnd
  BY <1>4, SumWalkEnd
<1>5. CASE Prepare \/ SkipNext \/ Answer
  <2>1. /\ step \in {"prepare", "next", "expanded"} /\ step' = "next"
        /\ visited' = visited /\ UNCHANGED <<pc, semiring, fst>>
    BY <1>5 DEF Prepare, SkipNext, Answer, walk, vars
  <2>2. pc = "idle"
    BY <2>1 DEF FoundInv, PassPart
  <2>3. PICK K : Sound(semiring, K, fst) /\ WalkInv(K)
    BY <2>1 DEF SumInv
  <2>4. Sound(semiring, K, fst)'
    BY <2>1, <2>3, SumsOfPrimed
  <2> QED  BY <2>1, <2>2, <2>3, <2>4, SumRest
<1>6. CASE ExpandNext
  <2>1. step = "next" /\ Head(todo) \in States /\ Expand(Head(todo))
    BY <1>6 DEF ExpandNext, MapInv
  <2> QED  BY <2>1, SumExpand
<1>7. CASE Replace
  BY <1>7, SumReplace
<1>8. CASE DeleteTrs
  BY <1>8, SumDelete
<1>9. CASE Connect
  <2>1. step = "connect" /\ step' = "done" /\ visited' = visited /\ pc' = pc
    BY <1>9 DEF Connect, walk
  <2>2. pc = "idle"
    BY <2>1 DEF FoundInv, PassPart
  <2>3. SumsInv'
    BY <2>1, <2>2 DEF SumsInv
  <2>4. PICK K : WalkInv(K)
    BY DEF SumInv
  <2>5. WalkInv(K)'
    BY <2>1, <2>4 DEF WalkInv
  <2> QED  BY <2>1, <2>3, <2>5 DEF SumInv
<1>10. CASE \E s \in States : Compute(s)
  <2>1. PICK s \in States : step = "next" /\ Expand(s)
    BY <1>10 DEF Compute
  <2> QED  BY <2>1, SumExpand
<1>11. CASE UNCHANGED rm_vars
  BY <1>11, SumStutter
<1> QED  BY <1>1, <1>2, <1>3, <1>4, <1>5, <1>6, <1>7, <1>8, <1>9, <1>10, <1>11
         DEF RmNext, Expanding

LEMMA SumInitHolds == StaysExact /\ RmInit => SumInv
<1> SUFFICES ASSUME StaysExact, RmInit PROVE SumInv
  OBVIOUS
<1>1. /\ pc = "idle" /\ semiring \in Semirings /\ fst \in Fsts(semiring)
      /\ step \in {"prepare", "next"} /\ visited = {}
  BY DEF RmInit, SDNew
<1>2. PICK K : Sound(semiring, K, fst)
  BY <1>1 DEF StaysExact
<1>3. SumsInv /\ WalkInv(K)
  BY <1>1 DEF SumsInv, WalkInv
<1> QED  BY <1>1, <1>2, <1>3 DEF SumInv

\* An expansion answers exactly the sums over the epsilon closure of its state,
\* one transition for each label and destination, whatever was expanded before
\* and however the machine has been rewritten since.
THEOREM ExpandExactHolds ==
    LoopsHarmless /\ NothingVanishes /\ StaysExact => (RmSpec => []ExpandExact)
<1> SUFFICES ASSUME LoopsHarmless, NothingVanishes, StaysExact PROVE RmSpec => []ExpandExact
  OBVIOUS
<1> DEFINE Inv == RmInv /\ SumInv
<1>1. RmInit => Inv
  BY MapInitHolds, FoundInitHolds, SumInitHolds DEF RmInv
<1>2. Inv /\ [RmNext]_rm_vars => Inv'
  BY MapKeeps, FoundKeeps, ExpansionKeeps DEF RmInv
<1>3. Inv => ExpandExact
  <2> SUFFICES ASSUME Inv, step = "expanded" PROVE ExpandExact
    BY DEF ExpandExact
  <2>1. Distinct
    BY DEF RmInv, MapInv
  <2>2. AllSumsOf(closure[source], trs, final_weight)
    BY DEF SumInv, WalkInv
  <2>3. ASSUME NEW label \in Labels, NEW q \in States
        PROVE  LET e == [label |-> label, nextstate |-> q] IN
               ElementSum(trs, e)
               = SumOfStates(LAMBDA p : Mul(closure[source][p], ElementSum(fst.trs[p], e)))
    <3> DEFINE e == [label |-> label, nextstate |-> q]
    <3>1. e \in Elements
      BY DEF Elements
    <3> HIDE DEF e
    <3>2. ElementSum(trs, e) = AllOf(closure[source], ElementSums(fst, e))
      BY <2>2, <3>1 DEF AllSumsOf
    <3>3. \A i \in 1 .. N : ElementSums(fst, e)[i - 1] = ElementSum(fst.trs[i - 1], e)
      BY NumberOfStates DEF ElementSums
    <3>4. AllOf(closure[source], ElementSums(fst, e))
          = SumOfStates(LAMBDA p : Mul(closure[source][p], ElementSum(fst.trs[p], e)))
      BY <3>3 DEF AllOf, SumOfStates, N
    <3> QED  BY <3>2, <3>4 DEF e
  <2>4. final_weight = SumOfStates(LAMBDA p : Mul(closure[source][p], fst.final[p]))
    BY <2>2 DEF AllSumsOf, AllOf
  <2> QED  BY <2>1, <2>3, <2>4 DEF ExpandExact, Distinct
<1> QED  BY <1>1, <1>2, <1>3, PTL DEF RmSpec

=============================================================================
