---------------------- MODULE ShortestDistance_proofs ----------------------
(***************************************************************************)
(* Proofs about ShortestDistance and its queues, for any machine and any   *)
(* weights: whichever discipline AutoQueue picks, a weight that waits at a *)
(* state waits in the queue, and the queue answers within its bounds.      *)
(*                                                                         *)
(* And what is computed is the sum over all the paths: the distances, the  *)
(* weights that wait and the one under way, each carried on over the paths *)
(* from where it is, always add up to the sum from the source; a weight    *)
(* that is dropped because it does not change a distance is, when the sum  *)
(* is idempotent, already there with all that follows it.                  *)
(***************************************************************************)
EXTENDS ShortestDistance, FiniteSetTheorems, TLAPS

-----------------------------------------------------------------------------
(* The ranks that a queue skips.                                           *)

LEMMA LeastNatural ==
    ASSUME NEW S \in SUBSET Nat, S # {}
    PROVE  \E m \in S : \A n \in S : m <= n
<1>1. PICK m \in S : \A n \in S : ~ (<<n, m>> \in OpToRel(<, Nat))
  BY NatLessThanWellFounded, WFMin
<1>2. \A n \in S : ~ (n < m)
  BY <1>1 DEF OpToRel
<1> QED  BY <1>2

LEMMA MinOfNaturals ==
    ASSUME NEW S \in SUBSET Nat, S # {}
    PROVE  Min(S) \in S /\ \A n \in S : Min(S) <= n
BY LeastNatural DEF Min

LEMMA MaxOfTwo ==
    ASSUME NEW a \in Int, NEW b \in Int
    PROVE  Max({a, b}) = IF a >= b THEN a ELSE b
<1> DEFINE m == IF a >= b THEN a ELSE b
<1>1. m \in {a, b} /\ \A y \in {a, b} : m >= y
  OBVIOUS
<1>2. \A x \in {a, b} : (\A y \in {a, b} : x >= y) => x = m
  OBVIOUS
<1> QED  BY <1>1, <1>2 DEF Max

\* update_front stops at the first rank that is in use, or past the last.
LEMMA AdvancedStops ==
    ASSUME NEW p \in Nat, NEW back \in Nat \cup {None}, NEW empty
    PROVE  LET m == Advanced(p, back, empty) IN
           /\ m \in Nat /\ p <= m
           /\ m > back \/ m \notin empty
           /\ \A k \in p .. m - 1 : k <= back /\ k \in empty
<1> DEFINE last == IF p >= back + 1 THEN p ELSE back + 1
           R == {k \in p .. last : k > back \/ k \notin empty}
<1>1. last \in Nat /\ p <= last /\ last > back
  BY DEF None
<1>2. Max({p, back + 1}) = last
  BY MaxOfTwo DEF None
<1>3. Advanced(p, back, empty) = Min(R)
  BY <1>2 DEF Advanced
<1>4. last \in R /\ R \in SUBSET Nat
  BY <1>1
<1>5. Min(R) \in R /\ \A n \in R : Min(R) <= n
  BY <1>4, MinOfNaturals
<1>6. \A k \in p .. Min(R) - 1 : k \in p .. last /\ k \notin R
  BY <1>1, <1>4, <1>5
<1> QED  BY <1>1, <1>3, <1>5, <1>6

-----------------------------------------------------------------------------
(* FifoQueue, LifoQueue and TrivialQueue.                                  *)

LEMMA ListEnqueues ==
    ASSUME NEW S, NEW q, ListInv(q, S), NEW s \in S,
           q.kind = "trivial" => Range(q.items) \subseteq {s}
    PROVE  /\ ListInv(ListEnqueue(q, s), S)
           /\ ListEnqueue(q, s).kind = q.kind
           /\ ListEnqueue(q, s).items # <<>>
           /\ Range(ListEnqueue(q, s).items) = Range(q.items) \cup {s}
<1> DEFINE items == IF q.kind = "trivial" THEN <<s>> ELSE Append(q.items, s)
<1>1. /\ DOMAIN q = {"kind", "items"} /\ q.kind \in {"fifo", "lifo", "trivial"}
      /\ q.items \in Seq(S)
  BY DEF ListInv
<1>2. ListEnqueue(q, s) = [q EXCEPT !.items = items]
  BY DEF ListEnqueue
<1>3. items \in Seq(S) /\ items # <<>> /\ Range(items) = Range(q.items) \cup {s}
  <2>1. CASE q.kind = "trivial"
    BY <2>1 DEF Range
  <2>2. CASE q.kind # "trivial"
    <3>1. items = Append(q.items, s) /\ items \in Seq(S) /\ Len(items) = Len(q.items) + 1
      BY <1>1, <2>2
    <3>2. /\ \A k \in 1 .. Len(q.items) : items[k] = q.items[k]
          /\ items[Len(q.items) + 1] = s /\ Len(q.items) \in Nat
      BY <1>1, <3>1
    <3> HIDE DEF items
    <3>3. DOMAIN items = 1 .. Len(q.items) + 1 /\ DOMAIN q.items = 1 .. Len(q.items)
      BY <1>1, <3>1
    <3>4. Range(items) = Range(q.items) \cup {s}
      BY <3>2, <3>3 DEF Range
    <3> QED  BY <3>1, <3>2, <3>4
  <2> QED  BY <2>1, <2>2
<1> HIDE DEF items
<1>4. /\ DOMAIN ListEnqueue(q, s) = {"kind", "items"}
      /\ ListEnqueue(q, s).kind = q.kind /\ ListEnqueue(q, s).items = items
  BY <1>1, <1>2
<1> QED  BY <1>1, <1>3, <1>4 DEF ListInv

LEMMA ListDequeues ==
    ASSUME NEW S, NEW q, ListInv(q, S), q.items # <<>>
    PROVE  /\ ListInv(ListRest(q), S)
           /\ ListRest(q).kind = q.kind
           /\ ListHead(q) \in Range(q.items)
           /\ Range(ListRest(q).items) \subseteq Range(q.items)
           /\ Range(q.items) \subseteq Range(ListRest(q).items) \cup {ListHead(q)}
<1> DEFINE n == Len(q.items)
           rest == IF q.kind = "lifo" THEN SubSeq(q.items, 1, n - 1) ELSE Tail(q.items)
<1>1. /\ DOMAIN q = {"kind", "items"} /\ q.kind \in {"fifo", "lifo", "trivial"}
      /\ q.items \in Seq(S)
  BY DEF ListInv
<1>2. ListRest(q) = [q EXCEPT !.items = rest]
  BY DEF ListRest
<1>3. n \in Nat \ {0} /\ DOMAIN q.items = 1 .. n
  BY <1>1
<1>4. /\ rest \in Seq(S) /\ DOMAIN rest = 1 .. n - 1
      /\ IF q.kind = "lifo" THEN \A k \in 1 .. n - 1 : rest[k] = q.items[k]
                            ELSE \A k \in 1 .. n - 1 : rest[k] = q.items[k + 1]
  <2>1. CASE q.kind = "lifo"
    BY <1>1, <1>3, <2>1
  <2>2. CASE q.kind # "lifo"
    BY <1>1, <1>3, <2>2
  <2> QED  BY <2>1, <2>2
<1>5. ListHead(q) = IF q.kind = "lifo" THEN q.items[n] ELSE q.items[1]
  BY <1>1, <1>3 DEF ListHead
<1> HIDE DEF n, rest
<1>6. /\ DOMAIN ListRest(q) = {"kind", "items"}
      /\ ListRest(q).kind = q.kind /\ ListRest(q).items = rest
  BY <1>1, <1>2
<1>7. ListHead(q) \in Range(q.items)
  BY <1>3, <1>5 DEF Range
<1>8. ASSUME NEW k \in 1 .. n - 1 PROVE rest[k] \in Range(q.items)
  <2>1. k \in DOMAIN q.items /\ k + 1 \in DOMAIN q.items
    BY <1>3, <1>8
  <2>2. rest[k] = q.items[k] \/ rest[k] = q.items[k + 1]
    BY <1>4, <1>8
  <2> QED  BY <2>1, <2>2, Zenon DEF Range
<1>9. ASSUME NEW k \in 1 .. n PROVE q.items[k] \in Range(rest) \cup {ListHead(q)}
  <2>1. CASE q.kind = "lifo"
    BY <1>3, <1>4, <1>5, <2>1 DEF Range
  <2>2. CASE q.kind # "lifo"
    <3>1. CASE k # 1
      <4>1. k - 1 \in 1 .. n - 1 /\ rest[k - 1] = q.items[k]
        BY <1>3, <1>4, <2>2, <3>1
      <4> QED  BY <1>4, <4>1, Zenon DEF Range
    <3> QED  BY <1>5, <2>2, <3>1
  <2> QED  BY <2>1, <2>2
<1>10. Range(rest) \subseteq Range(q.items)
  BY <1>4, <1>8 DEF Range
<1>11. Range(q.items) \subseteq Range(rest) \cup {ListHead(q)}
  BY <1>3, <1>9 DEF Range
<1> QED  BY <1>1, <1>4, <1>6, <1>7, <1>10, <1>11 DEF ListInv

LEMMA ListEmpties ==
    ASSUME NEW S, NEW q, ListInv(q, S)
    PROVE  /\ q.items = <<>> <=> Range(q.items) = {}
           /\ Range(q.items) \subseteq S
<1>1. q.items \in Seq(S)
  BY DEF ListInv
<1>2. q.items # <<>> => q.items[1] \in Range(q.items)
  <2>1. q.items # <<>> => 1 \in DOMAIN q.items
    BY <1>1
  <2> QED  BY <2>1, Zenon DEF Range
<1>3. Range(q.items) \subseteq S
  BY <1>1 DEF Range
<1>4. q.items = <<>> => Range(q.items) = {}
  BY DEF Range
<1> QED  BY <1>2, <1>3, <1>4

-----------------------------------------------------------------------------
(* StateOrderQueue and TopOrderQueue.                                      *)

\* The interval after a rank is enqueued.
LEMMA WidenedBounds ==
    ASSUME NEW q, {"front", "back"} \subseteq DOMAIN q,
           q.front \in Nat, q.back \in Nat \cup {None}, NEW p \in Nat
    PROVE  LET w == Widened(q, p) IN
           /\ DOMAIN w = DOMAIN q
           /\ \A x \in DOMAIN q \ {"front", "back"} : w[x] = q[x]
           /\ w.front = IF q.front > q.back \/ p < q.front THEN p ELSE q.front
           /\ w.back = IF q.front > q.back \/ p > q.back THEN p ELSE q.back
           /\ p \in w.front .. w.back
           /\ \A c \in Nat : c \in q.front .. q.back => c \in w.front .. w.back
<1>1. CASE q.front > q.back
  <2>1. Widened(q, p) = [q EXCEPT !.front = p, !.back = p]
    BY <1>1 DEF Widened
  <2>2. /\ DOMAIN Widened(q, p) = DOMAIN q
        /\ \A x \in DOMAIN q \ {"front", "back"} : Widened(q, p)[x] = q[x]
        /\ Widened(q, p).front = p /\ Widened(q, p).back = p
    BY <2>1
  <2>3. p \in p .. p /\ \A c \in Nat : ~ (c \in q.front .. q.back)
    BY <1>1 DEF None
  <2> QED  BY <1>1, <2>2, <2>3
<1>2. CASE ~ (q.front > q.back) /\ p > q.back
  BY <1>2 DEF Widened, None
<1>3. CASE ~ (q.front > q.back) /\ ~ (p > q.back)
  BY <1>3 DEF Widened, None
<1> QED  BY <1>1, <1>2, <1>3

LEMMA OrderedEnqueues ==
    ASSUME NEW S, None \notin S, NEW q, q.kind = "ordered", OrderedInv(q, S), NEW s \in S
    PROVE  LET e == Enqueue(q, s) IN
           /\ e.kind = "ordered" /\ OrderedInv(e, S)
           /\ Waiting(e) = Waiting(q) \cup {s}
<1> DEFINE p == q.order[s]
           w == Widened(q, p)
           e == Enqueue(q, s)
<1>1. /\ DOMAIN q = {"kind", "order", "slots", "front", "back"}
      /\ q.order \in [S -> Nat] /\ q.front \in Nat /\ q.back \in Range(q.order) \cup {None}
      /\ q.slots \in [Range(q.order) -> S \cup {None}]
  BY DEF OrderedInv, Ranked
<1>2. p \in Nat /\ p \in Range(q.order) /\ Range(q.order) \subseteq Nat
  BY <1>1 DEF Range
<1>3. /\ DOMAIN w = DOMAIN q /\ w.kind = q.kind /\ w.order = q.order /\ w.slots = q.slots
      /\ w.front \in Nat /\ w.back \in Range(q.order) \cup {None}
      /\ w.front = IF q.front > q.back \/ p < q.front THEN p ELSE q.front
      /\ p \in w.front .. w.back
      /\ \A c \in Nat : c \in q.front .. q.back => c \in w.front .. w.back
  <2>1. q.back \in Nat \cup {None}
    BY <1>1, <1>2
  <2> HIDE DEF p, w
  <2>2. {"front", "back"} \subseteq DOMAIN q
    BY <1>1
  <2>3. /\ DOMAIN w = DOMAIN q /\ \A x \in DOMAIN q \ {"front", "back"} : w[x] = q[x]
        /\ w.front = IF q.front > q.back \/ p < q.front THEN p ELSE q.front
        /\ w.back = IF q.front > q.back \/ p > q.back THEN p ELSE q.back
        /\ p \in w.front .. w.back
        /\ \A c \in Nat : c \in q.front .. q.back => c \in w.front .. w.back
    BY <1>1, <1>2, <2>1, <2>2, WidenedBounds DEF w
  <2>4. w.kind = q.kind /\ w.order = q.order /\ w.slots = q.slots
    BY <1>1, <2>3
  <2> QED  BY <1>1, <1>2, <2>3, <2>4
<1>4. e = [w EXCEPT !.slots = [w.slots EXCEPT ![p] = s]]
  BY DEF Enqueue
<1> HIDE DEF w
<1>5. /\ DOMAIN e = DOMAIN q /\ e.kind = "ordered" /\ e.order = q.order
      /\ e.front = w.front /\ e.back = w.back /\ e.slots = [q.slots EXCEPT ![p] = s]
  BY <1>1, <1>3, <1>4
<1> HIDE DEF e
<1>6. /\ e.slots \in [Range(q.order) -> S \cup {None}] /\ e.slots[p] = s
      /\ \A k \in Range(q.order) \ {p} : e.slots[k] = q.slots[k]
  BY <1>1, <1>2, <1>5
<1>7. q.slots[p] \in {None, s}
  BY <1>1, <1>2 DEF OrderedInv, IsInjective
<1>8. Range(e.slots) \ {None} = (Range(q.slots) \ {None}) \cup {s}
  <2>1. DOMAIN e.slots = Range(q.order) /\ DOMAIN q.slots = Range(q.order)
    BY <1>1, <1>6
  <2>2. ASSUME NEW k \in Range(q.order)
        PROVE  /\ e.slots[k] \in Range(q.slots) \cup {s}
               /\ q.slots[k] \in Range(e.slots) \cup {None}
    <3>1. CASE k = p
      <4>1. s \in Range(e.slots)
        BY <1>2, <1>6, <2>1, Zenon DEF Range
      <4> QED  BY <1>6, <1>7, <3>1, <4>1
    <3>2. CASE k # p
      BY <1>6, <2>1, <2>2, <3>2 DEF Range
    <3> QED  BY <3>1, <3>2
  <2>3. s \in Range(e.slots)
    BY <1>2, <1>6, <2>1, Zenon DEF Range
  <2>4. Range(e.slots) \subseteq Range(q.slots) \cup {s}
    BY <2>1, <2>2 DEF Range
  <2>5. Range(q.slots) \subseteq Range(e.slots) \cup {None}
    BY <2>1, <2>2 DEF Range
  <2> QED  BY <2>3, <2>4, <2>5
<1>9. \A k \in Range(q.order) : e.slots[k] # None =>
        q.order[e.slots[k]] = k /\ k \in e.front .. e.back
  <2> SUFFICES ASSUME NEW k \in Range(q.order), e.slots[k] # None
               PROVE  q.order[e.slots[k]] = k /\ k \in e.front .. e.back
    OBVIOUS
  <2>1. CASE k = p
    BY <1>3, <1>5, <1>6, <2>1
  <2>2. CASE k # p
    <3>1. q.slots[k] # None /\ e.slots[k] = q.slots[k] /\ k \in Nat
      BY <1>2, <1>6, <2>2
    <3>2. q.order[q.slots[k]] = k /\ k \in q.front .. q.back
      BY <3>1 DEF OrderedInv
    <3> QED  BY <1>3, <1>5, <3>1, <3>2
  <2> QED  BY <2>1, <2>2
<1>10. e.front <= e.back => e.slots[e.front] # None
  <2>1. CASE e.front = p
    BY <1>6, <2>1
  <2>2. CASE e.front # p
    <3>1. e.front = q.front /\ ~ (q.front > q.back)
      BY <1>3, <1>5, <2>2
    <3>2. q.back \in Nat \cup {None} /\ q.front <= q.back
      BY <1>1, <1>2, <3>1 DEF None
    <3>3. q.slots[q.front] # None /\ q.back \in Range(q.order)
      BY <1>1, <3>2 DEF OrderedInv, None
    <3>4. q.front \in Range(q.order)
      BY <1>1, <1>2, <3>2, <3>3 DEF OrderedInv, Ranked
    <3> QED  BY <1>6, <2>2, <3>1, <3>3, <3>4
  <2> QED  BY <2>1, <2>2
<1>11. OrderedInv(e, S)
  BY <1>1, <1>3, <1>5, <1>6, <1>9, <1>10 DEF OrderedInv, Ranked
<1>12. Waiting(e) = Waiting(q) \cup {s}
  BY <1>5, <1>8 DEF Waiting
<1> QED  BY <1>5, <1>11, <1>12 DEF e

LEMMA OrderedDequeues ==
    ASSUME NEW S, None \notin S, NEW q, q.kind = "ordered", OrderedInv(q, S),
           q.front <= q.back
    PROVE  LET d == Dequeue(q) IN
           /\ d.kind = "ordered" /\ OrderedInv(d, S)
           /\ Dequeued(q) \in Waiting(q)
           /\ Waiting(q) \ {Dequeued(q)} \subseteq Waiting(d)
           /\ Waiting(d) \subseteq Waiting(q)
<1> DEFINE slots == [q.slots EXCEPT ![q.front] = None]
           empty == {p \in DOMAIN slots : slots[p] = None}
           front == Advanced(q.front, q.back, empty)
           d == Dequeue(q)
<1>1. /\ DOMAIN q = {"kind", "order", "slots", "front", "back"}
      /\ q.order \in [S -> Nat] /\ q.front \in Nat /\ q.back \in Range(q.order) \cup {None}
      /\ q.slots \in [Range(q.order) -> S \cup {None}]
  BY DEF OrderedInv, Ranked
<1>2. Range(q.order) \subseteq Nat
  BY <1>1 DEF Range
<1>3. q.back \in Nat /\ 0 .. q.back \subseteq Range(q.order)
  <2>1. q.back # None
    BY <1>1 DEF None
  <2> QED  BY <1>1, <1>2, <2>1 DEF OrderedInv, Ranked
<1>4. q.front \in Range(q.order) /\ q.slots[q.front] # None
  BY <1>1, <1>3 DEF OrderedInv
<1>5. d = [q EXCEPT !.slots = slots, !.front = front]
  BY DEF Dequeue
<1>6. /\ slots \in [Range(q.order) -> S \cup {None}] /\ slots[q.front] = None
      /\ \A k \in Range(q.order) \ {q.front} : slots[k] = q.slots[k]
  BY <1>1, <1>4
<1> HIDE DEF slots
<1>7. /\ front \in Nat /\ q.front <= front
      /\ front > q.back \/ front \notin empty
      /\ \A k \in q.front .. front - 1 : k <= q.back /\ k \in empty
  <2> HIDE DEF empty
  <2> QED  BY <1>1, <1>3, AdvancedStops
<1> HIDE DEF front
<1>8. /\ DOMAIN d = DOMAIN q /\ d.kind = "ordered" /\ d.order = q.order
      /\ d.front = front /\ d.back = q.back /\ d.slots = slots
  BY <1>1, <1>5
<1> HIDE DEF d
<1>9. DOMAIN slots = Range(q.order) /\ DOMAIN q.slots = Range(q.order)
  BY <1>1, <1>6
<1>10. ASSUME NEW k \in Range(q.order), slots[k] # None
       PROVE  /\ k # q.front /\ slots[k] = q.slots[k]
              /\ q.order[slots[k]] = k /\ k \in front .. q.back
  <2>1. k # q.front /\ slots[k] = q.slots[k] /\ k \in Nat
    BY <1>2, <1>6, <1>10
  <2>2. q.order[q.slots[k]] = k /\ k \in q.front .. q.back
    BY <1>10, <2>1 DEF OrderedInv
  <2>3. k \notin empty
    BY <1>10
  <2>4. ~ (k \in q.front .. front - 1)
    BY <1>7, <2>3
  <2> QED  BY <1>3, <1>7, <2>1, <2>2, <2>4
<1>11. front <= q.back => slots[front] # None
  <2> SUFFICES ASSUME front <= q.back PROVE slots[front] # None
    OBVIOUS
  <2>1. front \in Range(q.order) /\ front \notin empty
    BY <1>3, <1>7
  <2> QED  BY <1>9, <2>1
<1>12. OrderedInv(d, S)
  BY <1>1, <1>6, <1>7, <1>8, <1>10, <1>11 DEF OrderedInv, Ranked
<1>13. Dequeued(q) = q.slots[q.front]
  BY DEF Dequeued
<1>14. q.slots[q.front] \in Range(q.slots) \ {None}
  BY <1>4, <1>9, Zenon DEF Range
<1>15. Range(slots) \ {None} \subseteq Range(q.slots)
  BY <1>9, <1>10 DEF Range
<1>16. Range(q.slots) \ {q.slots[q.front]} \subseteq Range(slots)
  BY <1>6, <1>9 DEF Range
<1>17. Waiting(q) = Range(q.slots) \ {None} /\ Waiting(d) = Range(slots) \ {None}
  BY <1>8 DEF Waiting
<1> QED  BY <1>8, <1>12, <1>13, <1>14, <1>15, <1>16, <1>17 DEF d

LEMMA OrderedClears ==
    ASSUME NEW S, NEW q, q.kind = "ordered", OrderedInv(q, S)
    PROVE  LET c == Cleared(q) IN
           c.kind = "ordered" /\ OrderedInv(c, S) /\ Waiting(c) = {}
<1> DEFINE slots == [p \in DOMAIN q.slots |->
                       IF p \in q.front .. q.back THEN None ELSE q.slots[p]]
           c == Cleared(q)
<1>1. /\ DOMAIN q = {"kind", "order", "slots", "front", "back"}
      /\ q.slots \in [Range(q.order) -> S \cup {None}]
      /\ Ranked(q, q.order, S) /\ IsInjective(q.order)
  BY DEF OrderedInv
<1>2. c = [q EXCEPT !.slots = slots, !.front = 0, !.back = None]
  BY DEF Cleared
<1>3. DOMAIN slots = Range(q.order) /\ \A p \in Range(q.order) : slots[p] = None
  BY <1>1 DEF OrderedInv
<1>4. slots \in [Range(q.order) -> S \cup {None}]
  BY <1>3
<1> HIDE DEF slots
<1>5. /\ DOMAIN c = DOMAIN q /\ c.kind = "ordered" /\ c.order = q.order
      /\ c.front = 0 /\ c.back = None /\ c.slots = slots
  BY <1>1, <1>2
<1> HIDE DEF c
<1>6. OrderedInv(c, S)
  BY <1>1, <1>3, <1>4, <1>5 DEF OrderedInv, Ranked, None
<1>7. Range(slots) \ {None} = {}
  BY <1>3 DEF Range
<1>8. Waiting(c) = {}
  BY <1>5, <1>7 DEF Waiting
<1> QED  BY <1>5, <1>6, <1>8 DEF c

-----------------------------------------------------------------------------
(* SccQueue.                                                               *)

LEMMA SccWaits ==
    ASSUME NEW q, q.kind = "scc", NEW x
    PROVE  x \in Waiting(q) <=> \E c \in DOMAIN q.queues : x \in Range(q.queues[c].items)
BY DEF Waiting

LEMMA SccFields ==
    ASSUME NEW S, NEW q, SccInv(q, S)
    PROVE  /\ DOMAIN q = {"kind", "sccs", "queues", "front", "back"}
           /\ q.sccs \in [S -> Nat] /\ Range(q.sccs) \subseteq Nat
           /\ q.front \in Nat /\ q.back \in Nat \cup {None}
           /\ DOMAIN q.queues = Range(q.sccs)
           /\ q.back # None => 0 .. q.back \subseteq Range(q.sccs)
           /\ \A c \in Range(q.sccs) :
                ListInv(q.queues[c], S) /\ Range(q.queues[c].items) \subseteq S
<1>1. q.sccs \in [S -> Nat] /\ q.front \in Nat /\ q.back \in Range(q.sccs) \cup {None}
  BY DEF SccInv, Ranked
<1>2. Range(q.sccs) \subseteq Nat
  BY <1>1 DEF Range
<1>3. \A c \in Range(q.sccs) : ListInv(q.queues[c], S)
  BY DEF SccInv
<1>4. \A c \in Range(q.sccs) : Range(q.queues[c].items) \subseteq S
  BY <1>3, ListEmpties
<1>5. q.back # None => 0 .. q.back \subseteq Range(q.sccs)
  BY <1>1 DEF SccInv, Ranked
<1> QED  BY <1>1, <1>2, <1>3, <1>4, <1>5 DEF SccInv

\* No component before the front one is enqueued.
LEMMA SccEnqueues ==
    ASSUME NEW S, NEW q, q.kind = "scc", SccInv(q, S), NEW s \in S,
           q.front > q.back \/ q.front <= q.sccs[s]
    PROVE  LET e == Enqueue(q, s) IN
           /\ e.kind = "scc" /\ SccInv(e, S) /\ e.sccs = q.sccs
           /\ Waiting(e) = Waiting(q) \cup {s}
           /\ q.front <= q.back => e.front = q.front
           /\ e.front <= e.back
<1> DEFINE p == q.sccs[s]
           w == Widened(q, p)
           l == ListEnqueue(q.queues[p], s)
           e == Enqueue(q, s)
<1>1. /\ DOMAIN q = {"kind", "sccs", "queues", "front", "back"}
      /\ q.sccs \in [S -> Nat] /\ Range(q.sccs) \subseteq Nat
      /\ q.front \in Nat /\ q.back \in Nat \cup {None}
      /\ DOMAIN q.queues = Range(q.sccs)
      /\ \A c \in Range(q.sccs) :
           ListInv(q.queues[c], S) /\ Range(q.queues[c].items) \subseteq S
  BY SccFields
<1>2. p \in Nat /\ p \in Range(q.sccs)
  BY <1>1 DEF Range
<1>3. /\ DOMAIN w = DOMAIN q /\ w.kind = q.kind /\ w.sccs = q.sccs /\ w.queues = q.queues
      /\ w.front = IF q.front > q.back \/ p < q.front THEN p ELSE q.front
      /\ w.back = IF q.front > q.back \/ p > q.back THEN p ELSE q.back
      /\ p \in w.front .. w.back
      /\ \A c \in Nat : c \in q.front .. q.back => c \in w.front .. w.back
  <2> HIDE DEF p, w
  <2>1. {"front", "back"} \subseteq DOMAIN q
    BY <1>1
  <2>2. /\ DOMAIN w = DOMAIN q /\ \A x \in DOMAIN q \ {"front", "back"} : w[x] = q[x]
        /\ w.front = IF q.front > q.back \/ p < q.front THEN p ELSE q.front
        /\ w.back = IF q.front > q.back \/ p > q.back THEN p ELSE q.back
        /\ p \in w.front .. w.back
        /\ \A c \in Nat : c \in q.front .. q.back => c \in w.front .. w.back
    BY <1>1, <1>2, <2>1, WidenedBounds DEF w
  <2>3. w.kind = q.kind /\ w.sccs = q.sccs /\ w.queues = q.queues
    BY <1>1, <2>2
  <2> QED  BY <2>2, <2>3
<1>4. e = [w EXCEPT !.queues[p] = l]
  <2>1. e = [w EXCEPT !.queues[p] = ListEnqueue(@, s)]
    BY DEF Enqueue, SccRank
  <2> HIDE DEF w, p
  <2> QED  BY <1>3, <2>1
<1> HIDE DEF w, e
<1>5. /\ ListInv(l, S) /\ l.kind = q.queues[p].kind /\ l.items # <<>>
      /\ Range(l.items) = Range(q.queues[p].items) \cup {s}
  <2>1. q.queues[p].kind = "trivial" => Range(q.queues[p].items) \subseteq {s}
    BY <1>1, <1>2 DEF SccInv
  <2>2. ListInv(q.queues[p], S)
    BY <1>1, <1>2
  <2> HIDE DEF p
  <2> QED  BY <2>1, <2>2, ListEnqueues
<1> HIDE DEF l
<1>6. /\ DOMAIN e = DOMAIN q /\ e.kind = "scc" /\ e.sccs = q.sccs
      /\ e.front = w.front /\ e.back = w.back
      /\ DOMAIN e.queues = Range(q.sccs) /\ e.queues[p] = l
      /\ \A c \in Range(q.sccs) \ {p} : e.queues[c] = q.queues[c]
  BY <1>1, <1>2, <1>3, <1>4
<1>7. Ranked(e, e.sccs, S)
  BY <1>1, <1>2, <1>3, <1>6 DEF SccInv, Ranked
<1>8. ASSUME NEW c \in Range(q.sccs)
      PROVE  /\ ListInv(e.queues[c], S)
             /\ \A t \in Range(e.queues[c].items) : q.sccs[t] = c /\ c \in e.front .. e.back
             /\ e.queues[c].kind = "trivial" =>
                  \A t, u \in S : q.sccs[t] = c /\ q.sccs[u] = c => t = u
  <2>1. /\ ListInv(q.queues[c], S)
        /\ \A t \in Range(q.queues[c].items) : q.sccs[t] = c /\ c \in q.front .. q.back
        /\ q.queues[c].kind = "trivial" =>
             \A t, u \in S : q.sccs[t] = c /\ q.sccs[u] = c => t = u
    BY <1>8 DEF SccInv
  <2>2. c \in q.front .. q.back => c \in e.front .. e.back
    BY <1>1, <1>3, <1>6
  <2>3. CASE c = p
    BY <1>3, <1>5, <1>6, <2>1, <2>2, <2>3
  <2>4. CASE c # p
    BY <1>6, <2>1, <2>2, <2>4
  <2> QED  BY <2>3, <2>4
<1>9. e.front < e.back => e.queues[e.back].items # <<>>
  <2> SUFFICES ASSUME e.front < e.back, e.back # p PROVE e.queues[e.back].items # <<>>
    BY <1>5, <1>6
  <2>1. ~ (q.front > q.back) /\ e.back = q.back /\ q.front < q.back
    BY <1>1, <1>2, <1>3, <1>6 DEF None
  <2>2. q.back \in Range(q.sccs)
    BY <1>1, <2>1, SccFields DEF None, SccInv, Ranked
  <2>3. q.queues[q.back].items # <<>>
    BY <2>1 DEF SccInv
  <2> QED  BY <1>6, <2>1, <2>2, <2>3
<1>10. SccInv(e, S)
  BY <1>1, <1>6, <1>7, <1>8, <1>9 DEF SccInv
<1>11. Waiting(e) = Waiting(q) \cup {s}
  <2>1. \A c \in Range(q.sccs) : \A x :
          x \in Range(e.queues[c].items) <=> x \in Range(q.queues[c].items) \/ (c = p /\ x = s)
    BY <1>5, <1>6
  <2>2. \A x : x \in Waiting(e) <=> \E c \in Range(q.sccs) : x \in Range(e.queues[c].items)
    BY <1>6, SccWaits
  <2>3. \A x : x \in Waiting(q) <=> \E c \in Range(q.sccs) : x \in Range(q.queues[c].items)
    BY <1>1, SccWaits
  <2> QED  BY <1>2, <2>1, <2>2, <2>3
<1>12. (q.front <= q.back => e.front = q.front) /\ e.front <= e.back
  BY <1>1, <1>2, <1>3, <1>6 DEF None
<1> QED  BY <1>6, <1>10, <1>11, <1>12 DEF e

\* The state dequeued is of the component that is the front one from then on.
LEMMA SccDequeues ==
    ASSUME NEW S, NEW q, q.kind = "scc", SccInv(q, S), ~ IsEmpty(q)
    PROVE  LET d == Dequeue(q) IN
           /\ d.kind = "scc" /\ SccInv(d, S) /\ d.sccs = q.sccs
           /\ Dequeued(q) \in Waiting(q)
           /\ Waiting(q) \ {Dequeued(q)} \subseteq Waiting(d)
           /\ Waiting(d) \subseteq Waiting(q)
           /\ d.front = q.sccs[Dequeued(q)] /\ d.front <= d.back
           /\ SccFront(q) <= q.back
<1> DEFINE empty == {c \in DOMAIN q.queues : q.queues[c].items = <<>>}
           f == SccFront(q)
           h == ListHead(q.queues[f])
           l == ListRest(q.queues[f])
           d == Dequeue(q)
<1>1. /\ DOMAIN q = {"kind", "sccs", "queues", "front", "back"}
      /\ q.sccs \in [S -> Nat] /\ Range(q.sccs) \subseteq Nat
      /\ q.front \in Nat /\ q.back \in Nat \cup {None}
      /\ DOMAIN q.queues = Range(q.sccs)
      /\ q.back # None => 0 .. q.back \subseteq Range(q.sccs)
      /\ \A c \in Range(q.sccs) :
           ListInv(q.queues[c], S) /\ Range(q.queues[c].items) \subseteq S
  BY SccFields
<1>2. /\ q.front <= q.back
      /\ q.front = q.back => q.queues[q.front].items # <<>>
  BY <1>1 DEF IsEmpty, None
<1>3. q.back \in Nat /\ 0 .. q.back \subseteq Range(q.sccs)
  BY <1>1, <1>2 DEF None
<1>4. /\ f \in Nat /\ q.front <= f
      /\ f > q.back \/ f \notin empty
      /\ \A k \in q.front .. f - 1 : k <= q.back /\ k \in empty
  <2>1. f = Advanced(q.front, q.back, empty)
    BY DEF SccFront
  <2> HIDE DEF empty, f
  <2> QED  BY <1>1, <2>1, AdvancedStops
<1>5. q.queues[q.back].items # <<>>
  <2>1. CASE q.front = q.back
    BY <1>2, <2>1
  <2>2. CASE q.front < q.back
    BY <2>2 DEF SccInv
  <2> QED  BY <1>1, <1>2, <1>3, <2>1, <2>2
<1>6. f <= q.back
  <2> SUFFICES ASSUME f > q.back PROVE FALSE
    BY <1>3, <1>4
  <2>1. q.back \in q.front .. f - 1
    BY <1>1, <1>2, <1>3, <1>4
  <2>2. q.back \in empty
    BY <1>4, <2>1
  <2> QED  BY <1>5, <2>2
<1>7. f \in Range(q.sccs) /\ q.queues[f].items # <<>>
  BY <1>1, <1>3, <1>4, <1>6
<1>8. d = [q EXCEPT !.front = f, !.queues[f] = l]
  BY <1>1, <1>7 DEF Dequeue
<1>9. Dequeued(q) = h
  BY DEF Dequeued
<1> HIDE DEF f, d
<1>10. /\ ListInv(l, S) /\ l.kind = q.queues[f].kind /\ h \in Range(q.queues[f].items)
       /\ Range(l.items) \subseteq Range(q.queues[f].items)
       /\ Range(q.queues[f].items) \subseteq Range(l.items) \cup {h}
  BY <1>1, <1>7, ListDequeues
<1> HIDE DEF l, h
<1>11. /\ DOMAIN d = DOMAIN q /\ d.kind = "scc" /\ d.sccs = q.sccs
       /\ d.front = f /\ d.back = q.back
       /\ DOMAIN d.queues = Range(q.sccs) /\ d.queues[f] = l
       /\ \A c \in Range(q.sccs) \ {f} : d.queues[c] = q.queues[c]
  BY <1>1, <1>7, <1>8
<1>12. Ranked(d, d.sccs, S)
  BY <1>4, <1>11 DEF SccInv, Ranked
<1>13. \A c \in Range(q.sccs) : Range(d.queues[c].items) \subseteq Range(q.queues[c].items)
  BY <1>10, <1>11
<1>14. ASSUME NEW c \in Range(q.sccs)
       PROVE  /\ ListInv(d.queues[c], S)
              /\ \A t \in Range(d.queues[c].items) : q.sccs[t] = c /\ c \in f .. q.back
              /\ d.queues[c].kind = "trivial" =>
                   \A t, u \in S : q.sccs[t] = c /\ q.sccs[u] = c => t = u
  <2>1. /\ ListInv(q.queues[c], S)
        /\ \A t \in Range(q.queues[c].items) : q.sccs[t] = c /\ c \in q.front .. q.back
        /\ q.queues[c].kind = "trivial" =>
             \A t, u \in S : q.sccs[t] = c /\ q.sccs[u] = c => t = u
    BY <1>14 DEF SccInv
  <2>2. ASSUME NEW t \in Range(q.queues[c].items) PROVE c \in f .. q.back
    <3>1. c \in q.front .. q.back /\ c \in Nat
      BY <1>1, <2>1
    <3>2. q.queues[c].items # <<>>
      BY <1>1, ListEmpties
    <3>3. c \notin empty
      BY <3>2
    <3> QED  BY <1>1, <1>3, <1>4, <3>1, <3>3
  <2>3. ListInv(d.queues[c], S) /\ d.queues[c].kind = q.queues[c].kind
    BY <1>1, <1>10, <1>11
  <2> QED  BY <1>13, <2>1, <2>2, <2>3
<1>15. d.front < d.back => d.queues[d.back].items # <<>>
  BY <1>1, <1>3, <1>4, <1>5, <1>11
<1>16. SccInv(d, S)
  BY <1>1, <1>11, <1>12, <1>14, <1>15 DEF SccInv
<1>17. h \in Waiting(q) /\ q.sccs[h] = f
  BY <1>1, <1>7, <1>10, SccWaits DEF SccInv
<1>18. Waiting(d) \subseteq Waiting(q)
  BY <1>1, <1>11, <1>13, SccWaits
<1>19. Waiting(q) \ {h} \subseteq Waiting(d)
  <2>1. \A c \in Range(q.sccs) : Range(q.queues[c].items) \subseteq Range(d.queues[c].items) \cup {h}
    BY <1>10, <1>11
  <2> QED  BY <1>1, <1>11, <2>1, SccWaits
<1> QED  BY <1>6, <1>9, <1>11, <1>16, <1>17, <1>18, <1>19 DEF d, f

LEMMA SccClears ==
    ASSUME NEW S, NEW q, q.kind = "scc", SccInv(q, S)
    PROVE  LET c == Cleared(q) IN
           /\ c.kind = "scc" /\ SccInv(c, S) /\ c.sccs = q.sccs
           /\ Waiting(c) = {} /\ c.front > c.back
<1> DEFINE queues == [k \in DOMAIN q.queues |->
                        IF k \in q.front .. q.back
                        THEN [q.queues[k] EXCEPT !.items = <<>>] ELSE q.queues[k]]
           c == Cleared(q)
<1>1. /\ DOMAIN q = {"kind", "sccs", "queues", "front", "back"}
      /\ DOMAIN q.queues = Range(q.sccs)
      /\ \A k \in Range(q.sccs) :
           ListInv(q.queues[k], S) /\ Range(q.queues[k].items) \subseteq S
  BY SccFields
<1>2. c = [q EXCEPT !.queues = queues, !.front = 0, !.back = None]
  BY DEF Cleared
<1>3. ASSUME NEW k \in Range(q.sccs)
      PROVE  /\ ListInv(queues[k], S) /\ queues[k].items = <<>>
             /\ queues[k].kind = q.queues[k].kind
  <2>1. ListInv(q.queues[k], S)
    BY <1>1
  <2>2. CASE k \in q.front .. q.back
    <3>1. queues[k] = [q.queues[k] EXCEPT !.items = <<>>]
      BY <1>1, <2>2
    <3>2. <<>> \in Seq(S)
      OBVIOUS
    <3> HIDE DEF queues
    <3> QED  BY <2>1, <3>1, <3>2 DEF ListInv
  <2>3. CASE ~ (k \in q.front .. q.back)
    <3>1. queues[k] = q.queues[k]
      BY <1>1, <2>3
    <3>2. Range(q.queues[k].items) = {}
      BY <2>3 DEF SccInv
    <3> HIDE DEF queues
    <3> QED  BY <2>1, <3>1, <3>2, ListEmpties
  <2> QED  BY <2>2, <2>3
<1>4. DOMAIN queues = Range(q.sccs)
  BY <1>1
<1> HIDE DEF queues
<1>5. /\ DOMAIN c = DOMAIN q /\ c.kind = "scc" /\ c.sccs = q.sccs
      /\ c.front = 0 /\ c.back = None /\ c.queues = queues
  BY <1>1, <1>2
<1> HIDE DEF c
<1>6. \A k \in Range(q.sccs) : Range(queues[k].items) = {}
  BY <1>3, ListEmpties
<1>7. Ranked(c, c.sccs, S)
  BY <1>5 DEF SccInv, Ranked
<1>8. SccInv(c, S)
  <2>1. \A k \in Range(q.sccs) : q.queues[k].kind = "trivial" =>
          \A t, u \in S : q.sccs[t] = k /\ q.sccs[u] = k => t = u
    BY DEF SccInv
  <2> QED  BY <1>1, <1>3, <1>4, <1>5, <1>6, <1>7, <2>1 DEF SccInv, None
<1>9. Waiting(c) = {}
  BY <1>4, <1>5, <1>6, SccWaits
<1> QED  BY <1>5, <1>8, <1>9 DEF c, None

-----------------------------------------------------------------------------
(* Any of the queues.                                                      *)

LEMMA ListKinds ==
    ASSUME NEW S, NEW q, QueueInv(q, S), q.kind # "ordered", q.kind # "scc"
    PROVE  ListInv(q, S)
BY DEF QueueInv

LEMMA Answers ==
    ASSUME NEW S, None \notin S, NEW q, QueueInv(q, S)
    PROVE  WellFormed(q) /\ Waiting(q) \subseteq S
<1>1. CASE q.kind = "ordered"
  <2>1. /\ OrderedInv(q, S) /\ q.slots \in [Range(q.order) -> S \cup {None}]
        /\ IsEmpty(q) <=> q.front > q.back
        /\ Waiting(q) = Range(q.slots) \ {None}
    BY <1>1 DEF QueueInv, OrderedInv, IsEmpty, Waiting
  <2>2. Waiting(q) \subseteq S
    BY <2>1 DEF Range
  <2>3. Range(q.order) \subseteq Nat /\ q.front \in Nat /\ q.back \in Range(q.order) \cup {None}
    BY <2>1 DEF OrderedInv, Ranked, Range
  <2>4. ASSUME q.front > q.back PROVE Waiting(q) = {}
    <3>1. \A p \in Range(q.order) : q.slots[p] = None
      BY <2>1, <2>3, <2>4 DEF OrderedInv, None
    <3> QED  BY <2>1, <3>1 DEF Range
  <2>5. ASSUME ~ (q.front > q.back)
        PROVE  q.slots[q.front] # None /\ q.slots[q.front] \in Range(q.slots)
    <3>1. q.front <= q.back
      BY <2>3, <2>5 DEF None
    <3>2. q.back # None
      BY <2>3, <3>1 DEF None
    <3>3. q.front \in Range(q.order)
      BY <2>1, <2>3, <3>1, <3>2 DEF OrderedInv, Ranked
    <3>4. DOMAIN q.slots = Range(q.order)
      BY <2>1
    <3>5. q.slots[q.front] \in Range(q.slots)
      BY <3>3, <3>4, Zenon DEF Range
    <3> QED  BY <2>1, <3>1, <3>5 DEF OrderedInv
  <2> QED  BY <1>1, <2>1, <2>2, <2>4, <2>5 DEF WellFormed
<1>2. CASE q.kind = "scc"
  <2>1. SccInv(q, S)
    BY <1>2 DEF QueueInv
  <2>2. DOMAIN q.queues = Range(q.sccs) /\ Range(q.sccs) \subseteq Nat
    BY <2>1, SccFields
  <2>3. Waiting(q) \subseteq S
    BY <1>2, <2>1, SccWaits, SccFields
  <2>4. ASSUME IsEmpty(q) PROVE Waiting(q) = {}
    <3> SUFFICES ASSUME NEW c \in Range(q.sccs), NEW x \in Range(q.queues[c].items)
                 PROVE  FALSE
      BY <1>2, <2>2, SccWaits
    <3>1. q.front \in Nat /\ q.back \in Nat \cup {None} /\ c \in Nat
      BY <2>1, <2>2, SccFields
    <3>2. c \in q.front .. q.back
      BY <2>1 DEF SccInv
    <3>3. q.front = q.back /\ q.queues[q.front].items = <<>>
      BY <1>2, <2>4, <3>1, <3>2 DEF IsEmpty, None
    <3>4. c = q.front
      BY <3>1, <3>2, <3>3
    <3> QED  BY <3>3, <3>4 DEF Range
  <2>5. ASSUME ~ IsEmpty(q) PROVE Waiting(q) # {} /\ SccFront(q) <= q.back
    BY <1>2, <2>1, <2>5, SccDequeues
  <2> QED  BY <1>2, <2>3, <2>4, <2>5 DEF WellFormed
<1>3. CASE q.kind # "ordered" /\ q.kind # "scc"
  <2>1. Waiting(q) = Range(q.items) /\ (IsEmpty(q) <=> q.items = <<>>)
    BY <1>3 DEF Waiting, IsEmpty
  <2>2. (q.items = <<>> <=> Range(q.items) = {}) /\ Range(q.items) \subseteq S
    BY <1>3, ListKinds, ListEmpties
  <2> QED  BY <1>3, <2>1, <2>2 DEF WellFormed
<1> QED  BY <1>1, <1>2, <1>3

LEMMA Enqueues ==
    ASSUME NEW S, None \notin S, NEW q, QueueInv(q, S), q.kind # "trivial", NEW s \in S,
           q.kind = "scc" => q.front > q.back \/ q.front <= q.sccs[s]
    PROVE  LET e == Enqueue(q, s) IN
           /\ e.kind = q.kind /\ QueueInv(e, S)
           /\ Waiting(e) = Waiting(q) \cup {s}
           /\ q.kind = "scc" => /\ e.sccs = q.sccs /\ e.front <= e.back
                                /\ q.front <= q.back => e.front = q.front
<1>1. CASE q.kind = "ordered"
  BY <1>1, OrderedEnqueues DEF QueueInv
<1>2. CASE q.kind = "scc"
  BY <1>2, SccEnqueues DEF QueueInv
<1>3. CASE q.kind # "ordered" /\ q.kind # "scc"
  <2>1. ListInv(q, S)
    BY <1>3, ListKinds
  <2>2. /\ ListInv(ListEnqueue(q, s), S) /\ ListEnqueue(q, s).kind = q.kind
        /\ Range(ListEnqueue(q, s).items) = Range(q.items) \cup {s}
    BY <2>1, ListEnqueues
  <2>3. Enqueue(q, s) = ListEnqueue(q, s)
    BY <1>3 DEF Enqueue
  <2> QED  BY <1>3, <2>2, <2>3 DEF QueueInv, Waiting
<1> QED  BY <1>1, <1>2, <1>3

LEMMA Dequeues ==
    ASSUME NEW S, None \notin S, NEW q, QueueInv(q, S), ~ IsEmpty(q)
    PROVE  LET d == Dequeue(q) IN
           /\ d.kind = q.kind /\ QueueInv(d, S)
           /\ Dequeued(q) \in Waiting(q)
           /\ Waiting(q) \ {Dequeued(q)} \subseteq Waiting(d)
           /\ Waiting(d) \subseteq Waiting(q)
           /\ q.kind = "scc" => /\ d.sccs = q.sccs /\ d.front <= d.back
                                /\ d.front = q.sccs[Dequeued(q)]
<1>1. CASE q.kind = "ordered"
  <2>1. OrderedInv(q, S) /\ ~ (q.front > q.back)
    BY <1>1 DEF QueueInv, IsEmpty
  <2>2. q.front \in Nat /\ q.back \in Nat \cup {None}
    BY <2>1 DEF OrderedInv, Ranked, Range
  <2>3. q.front <= q.back
    BY <2>1, <2>2 DEF None
  <2> QED  BY <1>1, <2>1, <2>3, OrderedDequeues DEF QueueInv
<1>2. CASE q.kind = "scc"
  BY <1>2, SccDequeues DEF QueueInv
<1>3. CASE q.kind # "ordered" /\ q.kind # "scc"
  <2>1. ListInv(q, S) /\ q.items # <<>>
    BY <1>3, ListKinds DEF IsEmpty
  <2>2. /\ ListInv(ListRest(q), S) /\ ListRest(q).kind = q.kind
        /\ ListHead(q) \in Range(q.items)
        /\ Range(ListRest(q).items) \subseteq Range(q.items)
        /\ Range(q.items) \subseteq Range(ListRest(q).items) \cup {ListHead(q)}
    BY <2>1, ListDequeues
  <2>3. Dequeue(q) = ListRest(q) /\ Dequeued(q) = ListHead(q)
    BY <1>3 DEF Dequeue, Dequeued
  <2> QED  BY <1>3, <2>2, <2>3 DEF QueueInv, Waiting
<1> QED  BY <1>1, <1>2, <1>3

LEMMA Clears ==
    ASSUME NEW S, NEW q, QueueInv(q, S)
    PROVE  LET c == Cleared(q) IN
           /\ c.kind = q.kind /\ QueueInv(c, S) /\ Waiting(c) = {}
           /\ q.kind = "scc" => c.sccs = q.sccs /\ c.front > c.back
<1>1. CASE q.kind = "ordered"
  BY <1>1, OrderedClears DEF QueueInv
<1>2. CASE q.kind = "scc"
  BY <1>2, SccClears DEF QueueInv
<1>3. CASE q.kind # "ordered" /\ q.kind # "scc"
  <2>1. ListInv(q, S)
    BY <1>3, ListKinds
  <2>2. Cleared(q) = [q EXCEPT !.items = <<>>]
    BY <1>3 DEF Cleared
  <2>3. /\ DOMAIN Cleared(q) = {"kind", "items"}
        /\ Cleared(q).kind = q.kind /\ Cleared(q).items = <<>>
    BY <2>1, <2>2 DEF ListInv
  <2>4. ListInv(Cleared(q), S)
    BY <2>1, <2>3 DEF ListInv
  <2>5. Range(Cleared(q).items) = {}
    BY <2>3 DEF Range
  <2> QED  BY <1>3, <2>3, <2>4, <2>5 DEF QueueInv, Waiting
<1> QED  BY <1>1, <1>2, <1>3

-----------------------------------------------------------------------------
(* The queue AutoQueue picks.                                              *)

\* A queue to begin with: nothing waits in it.
Ready(q, m) == /\ q.kind \in {"ordered", "scc", "lifo"}
               /\ QueueInv(q, States) /\ Waiting(q) = {}
               /\ q.kind = "scc" => \A a \in KeptArcs(m) : q.sccs[a[1]] <= q.sccs[a[2]]

LEMMA StatesAreNaturals ==
    /\ States \subseteq Nat /\ None \notin States
    /\ \A s \in States : 0 .. s \subseteq States
<1>1. Cardinality(States) \in Nat /\ States = 0 .. Cardinality(States) - 1
  BY SDAssumption, FS_CardinalityType
<1> DEFINE n == Cardinality(States)
<1>2. n \in Nat /\ States = 0 .. n - 1
  BY <1>1
<1> HIDE DEF n
<1> QED  BY <1>2 DEF None

LEMMA NewOrderedReady ==
    ASSUME NEW m, NEW order \in [States -> Nat], IsInjective(order),
           \A c \in Range(order) : 0 .. c \subseteq Range(order)
    PROVE  Ready(NewOrdered(order), m)
<1> DEFINE q == NewOrdered(order)
           slots == [p \in Range(order) |-> None]
<1>1. q = [kind |-> "ordered", order |-> order, slots |-> slots, front |-> 0, back |-> None]
  BY DEF NewOrdered
<1>2. slots \in [Range(order) -> States \cup {None}] /\ \A p \in Range(order) : slots[p] = None
  OBVIOUS
<1>3. DOMAIN slots = Range(order)
  OBVIOUS
<1> HIDE DEF slots
<1>4. /\ DOMAIN q = {"kind", "order", "slots", "front", "back"}
      /\ q.kind = "ordered" /\ q.order = order /\ q.slots = slots
      /\ q.front = 0 /\ q.back = None
  BY <1>1
<1> HIDE DEF q
<1>5. OrderedInv(q, States)
  BY <1>2, <1>4 DEF OrderedInv, Ranked, None
<1>6. Waiting(q) = {}
  BY <1>2, <1>3, <1>4 DEF Waiting, Range
<1> QED  BY <1>4, <1>5, <1>6 DEF Ready, QueueInv, q

LEMMA NewListReady == ASSUME NEW m PROVE Ready(NewList("lifo"), m)
<1>1. /\ DOMAIN NewList("lifo") = {"kind", "items"}
      /\ NewList("lifo").kind = "lifo" /\ NewList("lifo").items = <<>>
  BY DEF NewList
<1>2. ListInv(NewList("lifo"), States)
  <2>1. <<>> \in Seq(States)
    OBVIOUS
  <2> QED  BY <1>1, <2>1 DEF ListInv
<1>3. Waiting(NewList("lifo")) = {}
  BY <1>1 DEF Waiting, Range
<1> QED  BY <1>1, <1>2, <1>3 DEF Ready, QueueInv

LEMMA NewSccReady ==
    ASSUME NEW m, NEW n \in [States -> Nat], NEW kinds,
           \A c \in Range(n) : 0 .. c \subseteq Range(n),
           \A a \in KeptArcs(m) : n[a[1]] <= n[a[2]],
           DOMAIN kinds = Range(n),
           \A c \in Range(n) :
             /\ kinds[c] \in {"fifo", "trivial"}
             /\ kinds[c] = "trivial" => \A s, t \in States : n[s] = c /\ n[t] = c => s = t
    PROVE  Ready(NewScc(n, kinds), m)
<1> DEFINE q == NewScc(n, kinds)
           queues == [c \in Range(n) |-> NewList(kinds[c])]
<1>1. q = [kind |-> "scc", sccs |-> n, queues |-> queues, front |-> 0, back |-> None]
  BY DEF NewScc
<1>2. /\ DOMAIN queues = Range(n)
      /\ \A c \in Range(n) : queues[c] = [kind |-> kinds[c], items |-> <<>>]
  BY DEF NewList
<1> HIDE DEF queues
<1>3. /\ DOMAIN q = {"kind", "sccs", "queues", "front", "back"}
      /\ q.kind = "scc" /\ q.sccs = n /\ q.queues = queues
      /\ q.front = 0 /\ q.back = None
  BY <1>1
<1> HIDE DEF q
<1>4. ASSUME NEW c \in Range(n)
      PROVE  /\ ListInv(queues[c], States) /\ queues[c].items = <<>>
             /\ queues[c].kind = kinds[c] /\ Range(queues[c].items) = {}
  <2>1. /\ DOMAIN queues[c] = {"kind", "items"}
        /\ queues[c].kind = kinds[c] /\ queues[c].items = <<>>
    BY <1>2
  <2>2. Range(queues[c].items) = {}
    BY <2>1 DEF Range
  <2>3. ListInv(queues[c], States)
    BY <2>1 DEF ListInv
  <2> QED  BY <2>1, <2>2, <2>3
<1>5. SccInv(q, States)
  BY <1>2, <1>3, <1>4 DEF SccInv, Ranked, None
<1>6. Waiting(q) = {}
  BY <1>2, <1>3, <1>4, SccWaits
<1> QED  BY <1>3, <1>5, <1>6 DEF Ready, QueueInv, q

LEMMA LeadsGrows ==
    ASSUME NEW A, NEW B, A \subseteq B
    PROVE  Leads(A) \subseteq Leads(B)
BY DEF Leads

LEMMA NumberingFacts ==
    ASSUME NEW m, NEW n \in Numberings(m)
    PROVE  /\ n \in [States -> Nat]
           /\ \A c \in Range(n) : 0 .. c \subseteq Range(n)
           /\ \A a \in KeptArcs(m) : n[a[1]] <= n[a[2]]
           /\ \A p, q \in States : n[p] = n[q] => <<p, q>> \in Leads(KeptArcs(m))
<1>1. /\ n \in [States -> States] /\ Range(n) = 0 .. Cardinality(Range(n)) - 1
      /\ \A a \in KeptArcs(m) : n[a[1]] <= n[a[2]]
      /\ \A p, q \in States : n[p] = n[q] => <<p, q>> \in Leads(KeptArcs(m))
  BY DEF Numberings
<1>2. n \in [States -> Nat]
  BY <1>1, StatesAreNaturals
<1>3. Cardinality(Range(n)) \in Nat
  <2>1. Range(n) \subseteq States
    BY <1>1 DEF Range
  <2>2. IsFiniteSet(Range(n))
    BY <2>1, SDAssumption, FS_Subset
  <2> QED  BY <2>2, FS_CardinalityType
<1> DEFINE k == Cardinality(Range(n))
<1>4. k \in Nat /\ Range(n) = 0 .. k - 1
  BY <1>1, <1>3
<1> HIDE DEF k
<1>5. \A c \in Range(n) : 0 .. c \subseteq Range(n)
  BY <1>4
<1> QED  BY <1>1, <1>2, <1>5

\* Two states of one component: a kept transition stays in it.
LEMMA CycleInside ==
    ASSUME NEW m, NEW n \in Numberings(m), NEW p \in States, NEW q \in States,
           p # q, n[p] = n[q]
    PROVE  \E a \in KeptArcs(m) : n[a[1]] = n[p] /\ n[a[2]] = n[p]
<1> SUFFICES ASSUME \A a \in KeptArcs(m) : ~ (n[a[1]] = n[p] /\ n[a[2]] = n[p])
             PROVE  FALSE
  OBVIOUS
<1> DEFINE C == {p} \cup {v \in States : n[v] > n[p]}
<1>1. /\ n \in [States -> Nat]
      /\ \A a \in KeptArcs(m) : n[a[1]] <= n[a[2]]
      /\ <<p, q>> \in Leads(KeptArcs(m))
  BY NumberingFacts
<1>2. ASSUME NEW b \in KeptArcs(m), b[1] \in C PROVE b[2] \in C
  <2>1. b[1] \in States /\ b[2] \in States
    BY DEF KeptArcs
  <2>2. n[b[1]] <= n[b[2]] /\ n[b[1]] \in Nat /\ n[b[2]] \in Nat /\ n[p] \in Nat
    BY <1>1, <2>1
  <2>3. CASE b[1] = p
    BY <2>1, <2>2, <2>3
  <2>4. CASE n[b[1]] > n[p]
    BY <2>1, <2>2, <2>4
  <2> QED  BY <1>2, <2>3, <2>4
<1>3. q \in C
  <2>1. C \in SUBSET States /\ p \in C
    OBVIOUS
  <2> HIDE DEF C
  <2> QED  BY <1>1, <1>2, <2>1 DEF Leads
<1> QED  BY <1>1, <1>3

LEMMA AcyclicNumbering ==
    ASSUME NEW m, NEW n \in Numberings(m), Acyclic(m),
           NEW a \in KeptArcs(m), n[a[1]] = n[a[2]]
    PROVE  FALSE
<1>1. KeptArcs(m) \subseteq Steps(m)
  BY DEF KeptArcs, Steps
<1>2. a[1] \in States /\ a[2] \in States
  BY DEF KeptArcs
<1>3. <<a[2], a[1]>> \in Leads(KeptArcs(m))
  BY <1>2, NumberingFacts
<1>4. <<a[2], a[1]>> \in Leads(Steps(m))
  BY <1>1, <1>3, LeadsGrows
<1> QED  BY <1>1, <1>4 DEF Acyclic

LEMMA AutoQueueReady ==
    ASSUME NEW m, NEW q \in AutoQueues(m)
    PROVE  Ready(q, m)
<1> DEFINE Inside(n) == {a \in KeptArcs(m) : n[a[1]] = n[a[2]]}
           Kinds(n) == [c \in Range(n) |-> IF \E a \in Inside(n) : n[a[1]] = c
                                           THEN "fifo" ELSE "trivial"]
<1>1. \/ q = NewOrdered([s \in States |-> s])
      \/ q = NewList("lifo")
      \/ \E n \in Numberings(m) : q = NewScc(n, Kinds(n))
      \/ \E n \in Numberings(m) : /\ q = NewOrdered(n)
                                  /\ Acyclic(m) \/ Inside(n) = {}
  BY DEF AutoQueues
<1>2. CASE q = NewOrdered([s \in States |-> s])
  <2> DEFINE order == [s \in States |-> s]
  <2>1. order \in [States -> Nat] /\ IsInjective(order) /\ Range(order) = States
    BY StatesAreNaturals DEF IsInjective, Range
  <2> HIDE DEF order
  <2> QED  BY <1>2, <2>1, StatesAreNaturals, NewOrderedReady DEF order
<1>3. CASE q = NewList("lifo")
  BY <1>3, NewListReady
<1>4. ASSUME NEW n \in Numberings(m), q = NewScc(n, Kinds(n)) PROVE Ready(q, m)
  <2>1. \A c \in Range(n) :
          /\ Kinds(n)[c] \in {"fifo", "trivial"}
          /\ Kinds(n)[c] = "trivial" => ~ \E a \in Inside(n) : n[a[1]] = c
    OBVIOUS
  <2>2. DOMAIN Kinds(n) = Range(n)
    OBVIOUS
  <2> HIDE DEF Kinds
  <2>3. ASSUME NEW c \in Range(n), Kinds(n)[c] = "trivial",
               NEW s \in States, NEW t \in States, n[s] = c, n[t] = c
        PROVE  s = t
    BY <2>1, <2>3, CycleInside
  <2> QED  BY <1>4, <2>1, <2>2, <2>3, NumberingFacts, NewSccReady
<1>5. ASSUME NEW n \in Numberings(m), q = NewOrdered(n), Acyclic(m) \/ Inside(n) = {}
      PROVE  Ready(q, m)
  <2>1. Inside(n) = {}
    BY <1>5, AcyclicNumbering
  <2>2. n \in [States -> Nat]
    BY NumberingFacts
  <2>3. IsInjective(n)
    <3> SUFFICES ASSUME NEW s \in States, NEW t \in States, n[s] = n[t], s # t PROVE FALSE
      BY <2>2 DEF IsInjective
    <3>1. \E a \in KeptArcs(m) : n[a[1]] = n[s] /\ n[a[2]] = n[s]
      BY CycleInside
    <3> QED  BY <2>1, <3>1
  <2> QED  BY <1>5, <2>2, <2>3, NumberingFacts, NewOrderedReady
<1> QED  BY <1>1, <1>2, <1>3, <1>4, <1>5

-----------------------------------------------------------------------------
(* Loops.  The test that decides whether a state is enqueued reads the row *)
(* of the state being expanded, so a loop that changes its distance must   *)
(* be its last transition; or the weights make every loop change nothing.  *)

LoopsLast(m) ==
    \A s \in States : \A i \in DOMAIN m.trs[s] :
      Keep(m.trs[s][i]) /\ m.trs[s][i].nextstate = s => i = Len(m.trs[s])

\* The weights D absorb: a loop that weighs one of them does not improve.
Absorbs(w, D) ==
    /\ Zero(w) \in D /\ One(w) \in D
    /\ \A x, y \in D : /\ Plus(w, x, y) \in D /\ Times(w, x, y) \in D
                       /\ Plus(w, x, y) = Plus(w, y, x)
                       /\ Plus(w, x, Times(w, x, y)) = x
    /\ \A x, y, z \in D : Plus(w, Plus(w, x, y), z) = Plus(w, x, Plus(w, y, z))
    /\ \A x \in D : /\ Plus(w, x, x) = x /\ Plus(w, x, Zero(w)) = x
                    /\ ApproxEqual(w, x, x)

Weighs(m, D) ==
    \A s \in States : \A i \in DOMAIN m.trs[s] : Keep(m.trs[s][i]) => m.trs[s][i].weight \in D

LoopHarmless(w, m) == LoopsLast(m) \/ \E D : Absorbs(w, D) /\ Weighs(m, D)

LoopsHarmless == \A w \in Semirings : \A m \in Fsts(w) : LoopHarmless(w, m)

\* A row's distance has its radder in it, and that of the state being expanded
\* the radder taken: no loop changes it.
LoopInv ==
    \A D : Absorbs(semiring, D) /\ Weighs(fst, D) =>
      /\ pc # "idle" => \A s \in Live :
           /\ rows[s].distance \in D /\ rows[s].radder \in D
           /\ rows[s].adder = rows[s].distance
           /\ Add(rows[s].distance, rows[s].radder) = rows[s].distance
      /\ pc = "relax" => r \in D /\ Add(rows[state].distance, r) = rows[state].distance

IInv == PassInv /\ LoopInv /\ LoopHarmless(semiring, fst)

LiveIn(rs) == IF retain THEN {x \in DOMAIN rs : rs[x].source = source_id} ELSE DOMAIN rs

RowsTyped(rs) == /\ DOMAIN rs \subseteq States
                 /\ \A x \in DOMAIN rs : /\ DOMAIN rs[x] = DOMAIN NewRow
                                         /\ rs[x].source \in None .. source_id

LEMMA NewRowFields ==
    /\ DOMAIN NewRow = {"distance", "adder", "radder", "enqueued", "source"}
    /\ NewRow.distance = zero /\ NewRow.adder = zero /\ NewRow.radder = zero
    /\ NewRow.enqueued = FALSE /\ NewRow.source = None
BY DEF NewRow

LEMMA EnsuredRows ==
    ASSUME NEW rs, RowsTyped(rs), source_id \in Nat, NEW s \in States
    PROVE  LET e == Ensured(rs, s) IN
           /\ RowsTyped(e) /\ s \in DOMAIN e
           /\ DOMAIN e = DOMAIN rs \cup 0 .. s
           /\ \A x \in DOMAIN rs : e[x] = rs[x]
           /\ \A x \in DOMAIN e \ DOMAIN rs : e[x] = NewRow
<1> DEFINE e == Ensured(rs, s)
<1>1. e = [i \in DOMAIN rs \cup 0 .. s |-> IF i \in DOMAIN rs THEN rs[i] ELSE NewRow]
  BY DEF Ensured
<1>2. /\ DOMAIN e = DOMAIN rs \cup 0 .. s
      /\ \A x \in DOMAIN rs : e[x] = rs[x]
      /\ \A x \in DOMAIN e \ DOMAIN rs : e[x] = NewRow
  BY <1>1
<1> HIDE DEF e
<1>3. s \in 0 .. s /\ 0 .. s \subseteq States
  BY StatesAreNaturals
<1>4. None \in None .. source_id
  BY DEF None
<1>5. RowsTyped(e)
  BY <1>2, <1>3, <1>4, NewRowFields DEF RowsTyped
<1> QED  BY <1>2, <1>3, <1>5 DEF e

LEMMA TouchedRows ==
    ASSUME NEW rs, RowsTyped(rs), source_id \in Nat, NEW s \in States
    PROVE  LET t == Touched(rs, s) IN
           /\ RowsTyped(t) /\ s \in DOMAIN t /\ s \in LiveIn(t)
           /\ \A x \in DOMAIN t :
                \/ x \in DOMAIN rs /\ t[x] = rs[x]
                \/ t[x].distance = zero /\ t[x].adder = zero /\ t[x].radder = zero
           /\ LiveIn(rs) \subseteq LiveIn(t)
           /\ \A x \in LiveIn(rs) : t[x] = rs[x]
           /\ \A x \in LiveIn(t) : x \in LiveIn(rs) \/ t[x].radder = zero
<1> DEFINE e == Ensured(rs, s)
           t == Touched(rs, s)
<1>1. /\ RowsTyped(e) /\ s \in DOMAIN e
      /\ DOMAIN e = DOMAIN rs \cup 0 .. s
      /\ \A x \in DOMAIN rs : e[x] = rs[x]
      /\ \A x \in DOMAIN e \ DOMAIN rs : e[x] = NewRow
  BY EnsuredRows
<1>2. CASE retain /\ e[s].source # source_id
  <2> DEFINE fresh == [NewRow EXCEPT !.source = source_id]
  <2>1. t = [e EXCEPT ![s] = fresh]
    BY <1>2 DEF Touched
  <2>2. /\ DOMAIN fresh = DOMAIN NewRow /\ fresh.source = source_id
        /\ fresh.distance = zero /\ fresh.adder = zero /\ fresh.radder = zero
    BY NewRowFields
  <2> HIDE DEF e, fresh, t
  <2>3. DOMAIN t = DOMAIN e /\ t[s] = fresh /\ \A x \in DOMAIN e \ {s} : t[x] = e[x]
    BY <1>1, <2>1
  <2>4. source_id \in None .. source_id
    BY DEF None
  <2>5. RowsTyped(t)
    BY <1>1, <2>2, <2>3, <2>4 DEF RowsTyped
  <2>6. s \notin LiveIn(rs)
    BY <1>1, <1>2 DEF LiveIn
  <2> QED  BY <1>1, <1>2, <2>2, <2>3, <2>5, <2>6, NewRowFields DEF LiveIn, t
<1>3. CASE ~ (retain /\ e[s].source # source_id)
  <2>1. t = e
    BY <1>3 DEF Touched
  <2> HIDE DEF e, t
  <2> QED  BY <1>1, <1>3, <2>1, NewRowFields DEF LiveIn, t
<1> QED  BY <1>2, <1>3

-----------------------------------------------------------------------------
(* The passes.                                                             *)

LEMMA InitReady == SDInit => PassInv
<1> SUFFICES ASSUME SDInit PROVE PassInv
  OBVIOUS
<1>1. /\ semiring \in Semirings /\ FstTyped(fst) /\ retain \in BOOLEAN
      /\ rows = NoRows /\ source_id = 0 /\ pc = "idle"
  BY SDAssumption, FstsAssumption DEF SDInit, SDNew
<1>2. Ready(state_queue, fst)
  BY AutoQueueReady DEF SDInit
<1>3. DOMAIN rows = {} /\ Live = {}
  BY <1>1 DEF NoRows, Live
<1>4. QueueReady
  BY <1>1, <1>2 DEF Ready, QueueReady
<1>5. RowsInv
  BY <1>1, <1>2, <1>3 DEF Ready, RowsInv
<1>6. QueueFaithful
  BY <1>1, <1>2, Answers, StatesAreNaturals DEF Ready, QueueFaithful
<1> QED  BY <1>1, <1>4, <1>5, <1>6 DEF PassInv

LEMMA StartKeeps ==
    ASSUME PassInv, NEW s \in States, StartPass(s)
    PROVE  PassInv'
<1> DEFINE rs == IF retain THEN rows ELSE NoRows
           kept == Ensured(rs, s)
           row == [distance |-> one, adder |-> one, radder |-> one, enqueued |-> TRUE,
                   source |-> IF retain THEN source_id ELSE kept[s].source]
           c == Cleared(state_queue)
<1>1. /\ pc = "idle" /\ pc' = "dequeue"
      /\ state_queue' = Enqueue(c, s)
      /\ UNCHANGED <<semiring, fst, retain, source_id>>
      /\ rows' = [kept EXCEPT ![s] = row]
  BY DEF StartPass
<1>2. RowsTyped(rs) /\ source_id \in Nat
  <2>1. source_id \in Nat /\ RowsTyped(rows)
    BY DEF PassInv, RowsInv, RowsTyped
  <2>2. RowsTyped(NoRows)
    BY DEF RowsTyped, NoRows
  <2> QED  BY <2>1, <2>2
<1>3. /\ RowsTyped(kept) /\ s \in DOMAIN kept
      /\ DOMAIN kept = DOMAIN rs \cup 0 .. s
      /\ \A x \in DOMAIN rs : kept[x] = rs[x]
      /\ \A x \in DOMAIN kept \ DOMAIN rs : kept[x] = NewRow
  <2> HIDE DEF rs
  <2> QED  BY <1>2, EnsuredRows
<1>4. /\ DOMAIN row = DOMAIN NewRow /\ row.source \in None .. source_id
      /\ retain => row.source = source_id
  <2>1. source_id \in None .. source_id
    BY <1>2 DEF None
  <2>2. kept[s].source \in None .. source_id
    BY <1>3 DEF RowsTyped
  <2> HIDE DEF kept
  <2> QED  BY <2>1, <2>2, NewRowFields
<1> HIDE DEF kept, row
<1>5. DOMAIN rows' = DOMAIN kept /\ rows'[s] = row /\ \A x \in DOMAIN kept \ {s} : rows'[x] = kept[x]
  BY <1>1, <1>3
<1>6. RowsTyped(rows')
  BY <1>3, <1>4, <1>5 DEF RowsTyped
<1>7. s \in Live'
  BY <1>1, <1>3, <1>4, <1>5 DEF Live
<1>8. ASSUME NEW x \in Live', x # s PROVE rows'[x].radder = zero
  <2>1. x \in DOMAIN kept /\ rows'[x] = kept[x]
    BY <1>5, <1>8 DEF Live
  <2>2. x \notin DOMAIN rs
    <3> SUFFICES ASSUME x \in DOMAIN rs PROVE FALSE
      OBVIOUS
    <3>1. retain /\ rs = rows
      BY DEF NoRows
    <3>2. rows[x].source = source_id
      BY <1>1, <1>3, <1>8, <2>1, <3>1 DEF Live
    <3>3. x \in Live
      BY <3>1, <3>2 DEF Live
    <3> QED  BY <1>1, <3>1, <3>3 DEF PassInv, RowsInv
  <2> QED  BY <1>3, <2>1, <2>2, NewRowFields
<1>9. /\ c.kind = state_queue.kind /\ QueueInv(c, States) /\ Waiting(c) = {}
      /\ state_queue.kind = "scc" => c.sccs = state_queue.sccs /\ c.front > c.back
  BY Clears DEF PassInv, QueueReady
<1> HIDE DEF c
<1>10. /\ state_queue'.kind = state_queue.kind /\ QueueInv(state_queue', States)
       /\ Waiting(state_queue') = {s}
       /\ state_queue.kind = "scc" => state_queue'.sccs = state_queue.sccs
  BY <1>1, <1>9, Enqueues, StatesAreNaturals DEF PassInv, QueueReady
<1>11. QueueReady'
  <2>1. KeptArcs(fst)' = KeptArcs(fst)
    BY <1>1 DEF KeptArcs, Keep
  <2> QED  BY <1>1, <1>10, <2>1 DEF PassInv, QueueReady
<1>12. RowsInv'
  <2>1. NewRow' = NewRow
    BY <1>1 DEF NewRow, zero
  <2> QED  BY <1>1, <1>2, <1>6, <1>7, <1>10, <2>1 DEF RowsInv, RowsTyped
<1>13. QueueFaithful'
  <2>1. WellFormed(state_queue')
    BY <1>10, Answers, StatesAreNaturals
  <2>2. zero' = zero
    BY <1>1 DEF zero
  <2>3. \A x \in Live' : rows'[x].radder # zero => x \in Waiting(state_queue')
    BY <1>8, <1>10
  <2> QED  BY <2>1, <2>2, <2>3 DEF QueueFaithful
<1> QED  BY <1>1, <1>11, <1>12, <1>13 DEF PassInv

LEMMA DequeueKeeps ==
    ASSUME PassInv, DequeueState
    PROVE  PassInv'
<1> DEFINE h == Dequeued(state_queue)
<1>1. /\ pc = "dequeue" /\ pc' = "relax" /\ state' = h /\ pos' = 1
      /\ ~ IsEmpty(state_queue) /\ state_queue' = Dequeue(state_queue)
      /\ UNCHANGED <<semiring, fst, retain, source_id>>
      /\ rows' = [rows EXCEPT ![h].enqueued = FALSE, ![h].radder = zero]
  BY DEF DequeueState
<1>2. /\ state_queue'.kind = state_queue.kind /\ QueueInv(state_queue', States)
      /\ h \in Waiting(state_queue)
      /\ Waiting(state_queue) \ {h} \subseteq Waiting(state_queue')
      /\ Waiting(state_queue') \subseteq Waiting(state_queue)
      /\ state_queue.kind = "scc" => /\ state_queue'.sccs = state_queue.sccs
                                     /\ state_queue'.front <= state_queue'.back
                                     /\ state_queue'.front = state_queue.sccs[h]
  BY <1>1, Dequeues, StatesAreNaturals DEF PassInv, QueueReady
<1> HIDE DEF h
<1>3. h \in Live /\ RowsTyped(rows) /\ source_id \in Nat
  BY <1>1, <1>2 DEF PassInv, RowsInv, RowsTyped
<1>4. h \in DOMAIN rows /\ h \in States
  BY <1>3 DEF Live, RowsTyped
<1>5. DOMAIN rows[h] = {"distance", "adder", "radder", "enqueued", "source"}
  BY <1>3, <1>4, NewRowFields DEF RowsTyped
<1>6. /\ DOMAIN rows' = DOMAIN rows /\ \A x \in DOMAIN rows \ {h} : rows'[x] = rows[x]
      /\ DOMAIN rows'[h] = DOMAIN rows[h] /\ rows'[h].source = rows[h].source
      /\ rows'[h].enqueued = FALSE /\ rows'[h].radder = zero
  BY <1>1, <1>4, <1>5
<1>7. RowsTyped(rows') /\ Live' = Live
  BY <1>1, <1>3, <1>4, <1>6 DEF RowsTyped, Live
<1>8. fst.trs[h] \in Seq(Range(fst.trs[h]))
  BY <1>4 DEF PassInv, FstTyped
<1>9. 1 \in 1 .. Len(fst.trs[h]) + 1
  BY <1>8
<1>10. QueueReady'
  <2>1. KeptArcs(fst)' = KeptArcs(fst)
    BY <1>1 DEF KeptArcs, Keep
  <2> QED  BY <1>1, <1>2, <2>1 DEF PassInv, QueueReady
<1>11. RowsInv'
  <2>1. NewRow' = NewRow
    BY <1>1 DEF NewRow, zero
  <2> QED  BY <1>1, <1>2, <1>3, <1>6, <1>7, <1>9, <2>1 DEF PassInv, RowsInv, RowsTyped
<1>12. QueueFaithful'
  <2>1. WellFormed(state_queue')
    BY <1>2, Answers, StatesAreNaturals
  <2>2. zero' = zero
    BY <1>1 DEF zero
  <2>3. \A s \in Live : rows[s].radder # zero => s \in Waiting(state_queue)
    BY <1>1 DEF PassInv, QueueFaithful
  <2>4. \A s \in Live' : rows'[s].radder # zero => s # h /\ s \in DOMAIN rows
    BY <1>6, <1>7 DEF Live
  <2>5. \A s \in Live' : rows'[s].radder # zero => s \in Waiting(state_queue')
    BY <1>2, <1>6, <1>7, <2>3, <2>4
  <2> QED  BY <2>1, <2>2, <2>5 DEF QueueFaithful
<1> QED  BY <1>1, <1>10, <1>11, <1>12 DEF PassInv

LEMMA RelaxFacts ==
    ASSUME PassInv, pc = "relax", pos <= Len(fst.trs[state])
    PROVE  LET tr == fst.trs[state][pos] IN
           /\ state \in Live /\ state \in States /\ ~ rows[state].enqueued
           /\ pos \in DOMAIN fst.trs[state] /\ pos \in Nat /\ Len(fst.trs[state]) \in Nat
           /\ tr.nextstate \in States
           /\ Keep(tr) => <<state, tr.nextstate>> \in KeptArcs(fst)
           /\ RowsTyped(rows) /\ source_id \in Nat /\ Live = LiveIn(rows)
           /\ Examined => \/ pc' = "dequeue"
                          \/ /\ pc' = "relax" /\ pos # Len(fst.trs[state])
                             /\ pos' \in 1 .. Len(fst.trs[state]) + 1
<1> DEFINE trs == fst.trs[state]
<1>1. /\ state \in Live /\ ~ rows[state].enqueued /\ pos \in 1 .. Len(trs) + 1
      /\ RowsTyped(rows) /\ source_id \in Nat
  BY DEF PassInv, RowsInv, RowsTyped
<1>2. state \in States
  BY <1>1 DEF Live, RowsTyped
<1>3. trs \in Seq(Range(trs)) /\ \A i \in DOMAIN trs : trs[i].nextstate \in States
  BY <1>2 DEF PassInv, FstTyped
<1>4. Len(trs) \in Nat /\ pos \in DOMAIN trs /\ pos \in Nat
  BY <1>1, <1>3
<1>5. Keep(trs[pos]) => <<state, trs[pos].nextstate>> \in KeptArcs(fst)
  BY <1>2, <1>3, <1>4 DEF KeptArcs
<1>6. Examined => \/ pc' = "dequeue"
                  \/ pc' = "relax" /\ pos # Len(trs) /\ pos' \in 1 .. Len(trs) + 1
  BY <1>4 DEF Examined
<1>7. Live = LiveIn(rows)
  BY DEF Live, LiveIn
<1> QED  BY <1>1, <1>2, <1>3, <1>4, <1>5, <1>6, <1>7

LEMMA RelaxNothingKeeps ==
    ASSUME PassInv, RelaxNothing
    PROVE  PassInv'
<1> DEFINE tr == fst.trs[state][pos]
           t == Touched(rows, tr.nextstate)
<1>1. /\ pc = "relax" /\ pos <= Len(fst.trs[state]) /\ Examined
      /\ rows' = rows \/ rows' = t
      /\ UNCHANGED <<semiring, fst, retain, state_queue, source_id, state>>
  BY DEF RelaxNothing
<1>2. /\ state \in Live /\ ~ rows[state].enqueued /\ tr.nextstate \in States
      /\ RowsTyped(rows) /\ source_id \in Nat /\ Live = LiveIn(rows)
      /\ \/ pc' = "dequeue"
         \/ pc' = "relax" /\ pos' \in 1 .. Len(fst.trs[state]) + 1
  BY <1>1, RelaxFacts
<1>3. /\ RowsTyped(t) /\ Live \subseteq LiveIn(t)
      /\ \A x \in Live : t[x] = rows[x]
      /\ \A x \in LiveIn(t) : x \in Live \/ t[x].radder = zero
  <2> HIDE DEF tr
  <2> QED  BY <1>2, TouchedRows
<1> HIDE DEF t
<1>4. /\ RowsTyped(rows') /\ Live \subseteq Live'
      /\ \A x \in Live : rows'[x] = rows[x]
      /\ \A x \in Live' : x \in Live \/ rows'[x].radder = zero
  <2>1. Live' = LiveIn(rows')
    BY <1>1 DEF Live, LiveIn
  <2> QED  BY <1>1, <1>2, <1>3, <2>1
<1>5. QueueReady'
  <2>1. KeptArcs(fst)' = KeptArcs(fst)
    BY <1>1 DEF KeptArcs, Keep
  <2> QED  BY <1>1, <1>2, <2>1 DEF PassInv, QueueReady
<1>6. RowsInv'
  <2>1. NewRow' = NewRow
    BY <1>1 DEF NewRow, zero
  <2>2. Waiting(state_queue) \subseteq Live
    BY <1>1 DEF PassInv, RowsInv
  <2> QED  BY <1>1, <1>2, <1>4, <2>1, <2>2 DEF RowsInv, RowsTyped
<1>7. QueueFaithful'
  <2>1. WellFormed(state_queue) /\ \A s \in Live : rows[s].radder # zero => s \in Waiting(state_queue)
    BY <1>1 DEF PassInv, QueueFaithful
  <2>2. zero' = zero
    BY <1>1 DEF zero
  <2> QED  BY <1>1, <1>4, <2>1, <2>2 DEF QueueFaithful
<1>8. pc' \in {"idle", "dequeue", "relax"}
  BY <1>2
<1> QED  BY <1>1, <1>5, <1>6, <1>7, <1>8 DEF PassInv

\* A loop that changes the distance is the last transition.
LEMMA LoopChanges ==
    ASSUME IInv, RelaxMore, fst.trs[state][pos].nextstate = state
    PROVE  pos = Len(fst.trs[state])
<1> DEFINE tr == fst.trs[state][pos]
           t == Touched(rows, tr.nextstate)
           d == rows[state].distance
<1>1. /\ pc = "relax" /\ pos <= Len(fst.trs[state]) /\ Keep(tr)
      /\ ~ Same(t[tr.nextstate].distance, Add(t[tr.nextstate].distance, Mul(r, tr.weight)))
  BY DEF RelaxMore
<1>2. /\ state \in Live /\ state \in States /\ pos \in DOMAIN fst.trs[state]
      /\ RowsTyped(rows) /\ source_id \in Nat /\ Live = LiveIn(rows)
  BY <1>1, RelaxFacts DEF IInv
<1>3. CASE LoopsLast(fst)
  BY <1>1, <1>2, <1>3 DEF LoopsLast
<1>4. ASSUME NEW D, Absorbs(semiring, D), Weighs(fst, D) PROVE FALSE
  <2>1. t[state] = rows[state]
    BY <1>2, TouchedRows
  <2>2. ~ Same(d, Add(d, Mul(r, tr.weight)))
    BY <1>1, <2>1
  <2>3. d \in D /\ r \in D /\ Add(d, r) = d
    BY <1>1, <1>2, <1>4 DEF IInv, LoopInv
  <2>4. tr.weight \in D
    BY <1>1, <1>2, <1>4 DEF Weighs
  <2> HIDE DEF d, tr
  <2> DEFINE w == tr.weight
  <2>5. Mul(r, w) \in D /\ Add(r, Mul(r, w)) = r
    BY <1>4, <2>3, <2>4 DEF Absorbs, Add, Mul
  <2>6. Add(Add(d, r), Mul(r, w)) = Add(d, Add(r, Mul(r, w)))
    BY <1>4, <2>3, <2>5 DEF Absorbs, Add
  <2>7. Add(d, Mul(r, w)) = d
    BY <2>3, <2>5, <2>6
  <2>8. Same(d, d)
    BY <1>4, <2>3 DEF Absorbs, Same
  <2> QED  BY <2>2, <2>7, <2>8
<1> QED  BY <1>3, <1>4 DEF IInv, LoopHarmless

\* What RelaxMore writes in the row of the next state.
LEMMA RelaxedRows ==
    ASSUME NEW t, NEW next \in DOMAIN t, NEW weight, NEW waits,
           DOMAIN t[next] = {"distance", "adder", "radder", "enqueued", "source"}
    PROVE  LET u == [t EXCEPT ![next].adder = Add(@, weight),
                              ![next].distance = Add(t[next].adder, weight),
                              ![next].radder = Add(@, weight),
                              ![next].enqueued = @ \/ ~ waits]
           IN  /\ DOMAIN u = DOMAIN t /\ \A x \in DOMAIN t \ {next} : u[x] = t[x]
               /\ DOMAIN u[next] = DOMAIN t[next] /\ u[next].source = t[next].source
               /\ u[next].adder = Add(t[next].adder, weight)
               /\ u[next].distance = Add(t[next].adder, weight)
               /\ u[next].radder = Add(t[next].radder, weight)
<1> DEFINE total == Add(t[next].adder, weight)
           onward == Add(t[next].radder, weight)
           t1 == [t EXCEPT ![next].adder = Add(@, weight)]
           t2 == [t1 EXCEPT ![next].distance = Add(t[next].adder, weight)]
           t3 == [t2 EXCEPT ![next].radder = Add(@, weight)]
           t4 == [t3 EXCEPT ![next].enqueued = @ \/ ~ waits]
           Rest(u) == /\ DOMAIN u = DOMAIN t /\ \A x \in DOMAIN t \ {next} : u[x] = t[x]
                      /\ DOMAIN u[next] = DOMAIN t[next] /\ u[next].source = t[next].source
<1>1. Rest(t1) /\ t1[next].adder = total /\ t1[next].radder = t[next].radder
  OBVIOUS
<1> HIDE DEF t1
<1>2. /\ Rest(t2) /\ t2[next].adder = total /\ t2[next].radder = t[next].radder
      /\ t2[next].distance = total
  BY <1>1
<1> HIDE DEF t2
<1>3. /\ Rest(t3) /\ t3[next].adder = total /\ t3[next].radder = onward
      /\ t3[next].distance = total
  BY <1>2
<1> HIDE DEF t3
<1>4. /\ Rest(t4) /\ t4[next].adder = total /\ t4[next].radder = onward
      /\ t4[next].distance = total
  BY <1>3
<1> HIDE DEF t4
<1> QED  BY <1>4 DEF t1, t2, t3, t4

LEMMA RelaxMoreKeeps ==
    ASSUME IInv, RelaxMore
    PROVE  PassInv'
<1> DEFINE tr == fst.trs[state][pos]
           next == tr.nextstate
           t == Touched(rows, next)
           weight == Mul(r, tr.weight)
           waits == t[state].enqueued
<1>1. /\ pc = "relax" /\ pos <= Len(fst.trs[state]) /\ Keep(tr) /\ Examined
      /\ state_queue' = IF waits THEN state_queue ELSE Enqueue(state_queue, next)
      /\ UNCHANGED <<semiring, fst, retain, source_id, state>>
  BY DEF RelaxMore
<1>2. /\ state \in Live /\ state \in States /\ ~ rows[state].enqueued /\ next \in States
      /\ RowsTyped(rows) /\ source_id \in Nat /\ Live = LiveIn(rows)
      /\ <<state, next>> \in KeptArcs(fst)
      /\ \/ pc' = "dequeue"
         \/ /\ pc' = "relax" /\ pos # Len(fst.trs[state])
            /\ pos' \in 1 .. Len(fst.trs[state]) + 1
  BY <1>1, RelaxFacts DEF IInv
<1>3. PassInv
  BY DEF IInv
<1>4. pc' = "relax" => next # state
  BY <1>2, LoopChanges
<1> HIDE DEF weight, next
<1>5. /\ RowsTyped(t) /\ next \in DOMAIN t /\ next \in LiveIn(t) /\ Live \subseteq LiveIn(t)
      /\ \A x \in Live : t[x] = rows[x]
      /\ \A x \in LiveIn(t) : x \in Live \/ t[x].radder = zero
  BY <1>2, TouchedRows
<1>6. ~ waits
  BY <1>2, <1>5
<1> HIDE DEF t
<1>7. DOMAIN t[next] = {"distance", "adder", "radder", "enqueued", "source"}
  BY <1>5, NewRowFields DEF RowsTyped
<1>8. /\ DOMAIN rows' = DOMAIN t /\ \A x \in DOMAIN t \ {next} : rows'[x] = t[x]
      /\ DOMAIN rows'[next] = DOMAIN t[next] /\ rows'[next].source = t[next].source
  <2> HIDE DEF t, waits
  <2> DEFINE u == [t EXCEPT ![next].adder = Add(@, weight),
                            ![next].distance = Add(t[next].adder, weight),
                            ![next].radder = Add(@, weight),
                            ![next].enqueued = @ \/ ~ waits]
  <2>1. rows' = u
    BY Zenon DEF RelaxMore, t, next, weight, waits
  <2>2. /\ DOMAIN u = DOMAIN t /\ \A x \in DOMAIN t \ {next} : u[x] = t[x]
        /\ DOMAIN u[next] = DOMAIN t[next] /\ u[next].source = t[next].source
    BY <1>5, <1>7, RelaxedRows, Zenon
  <2> HIDE DEF u
  <2> QED  BY <2>1, <2>2
<1>9. RowsTyped(rows') /\ Live' = LiveIn(t)
  BY <1>1, <1>5, <1>8 DEF RowsTyped, Live, LiveIn
<1>10. state_queue' = Enqueue(state_queue, next)
  BY <1>1, <1>6
<1>11. /\ QueueInv(state_queue, States) /\ state_queue.kind # "trivial"
       /\ state_queue.kind = "scc" =>
            /\ \A a \in KeptArcs(fst) : state_queue.sccs[a[1]] <= state_queue.sccs[a[2]]
            /\ state_queue.front = state_queue.sccs[state]
            /\ state_queue.front <= state_queue.back
  BY <1>1, <1>3 DEF PassInv, QueueReady
<1>12. state_queue.kind = "scc" => state_queue.front <= state_queue.sccs[next]
  BY <1>2, <1>11
<1>13. /\ state_queue'.kind = state_queue.kind /\ QueueInv(state_queue', States)
       /\ Waiting(state_queue') = Waiting(state_queue) \cup {next}
       /\ state_queue.kind = "scc" => /\ state_queue'.sccs = state_queue.sccs
                                      /\ state_queue'.front <= state_queue'.back
                                      /\ state_queue'.front = state_queue.front
  BY <1>2, <1>10, <1>11, <1>12, Enqueues, StatesAreNaturals
<1>14. QueueReady'
  <2>1. KeptArcs(fst)' = KeptArcs(fst)
    BY <1>1 DEF KeptArcs, Keep
  <2> QED  BY <1>1, <1>11, <1>13, <2>1 DEF QueueReady
<1>15. RowsInv'
  <2>1. NewRow' = NewRow
    BY <1>1 DEF NewRow, zero
  <2>2. Waiting(state_queue) \subseteq Live
    BY <1>1, <1>3 DEF PassInv, RowsInv
  <2>3. Waiting(state_queue') \subseteq Live'
    BY <1>5, <1>9, <1>13, <2>2
  <2>4. pc' = "relax" => ~ rows'[state].enqueued
    BY <1>2, <1>4, <1>5, <1>8 DEF LiveIn
  <2> QED  BY <1>1, <1>2, <1>5, <1>9, <2>1, <2>3, <2>4 DEF RowsInv, RowsTyped
<1>16. QueueFaithful'
  <2>1. \A s \in Live : rows[s].radder # zero => s \in Waiting(state_queue)
    BY <1>1, <1>3 DEF PassInv, QueueFaithful
  <2>2. zero' = zero
    BY <1>1 DEF zero
  <2>3. WellFormed(state_queue')
    BY <1>13, Answers, StatesAreNaturals
  <2>4. ASSUME NEW x \in Live', rows'[x].radder # zero, x # next
        PROVE  x \in Waiting(state_queue)
    <3>1. x \in LiveIn(t) /\ rows'[x] = t[x]
      BY <1>8, <1>9, <2>4 DEF LiveIn
    <3> QED  BY <1>5, <2>1, <2>4, <3>1
  <2> QED  BY <1>13, <2>2, <2>3, <2>4 DEF QueueFaithful
<1>17. pc' \in {"idle", "dequeue", "relax"}
  BY <1>2
<1> QED  BY <1>1, <1>3, <1>14, <1>15, <1>16, <1>17 DEF PassInv

LEMMA RelaxNoneKeeps ==
    ASSUME PassInv, RelaxNone
    PROVE  PassInv'
<1>1. /\ pc = "relax" /\ pc' = "dequeue"
      /\ UNCHANGED <<semiring, fst, retain, state_queue, rows, source_id>>
  BY DEF RelaxNone
<1>2. KeptArcs(fst)' = KeptArcs(fst) /\ NewRow' = NewRow /\ zero' = zero /\ Live' = Live
  BY <1>1 DEF KeptArcs, Keep, NewRow, zero, Live
<1>3. QueueReady'
  BY <1>1, <1>2 DEF PassInv, QueueReady
<1>4. RowsInv'
  BY <1>1, <1>2 DEF PassInv, RowsInv
<1>5. QueueFaithful'
  BY <1>1, <1>2 DEF PassInv, QueueFaithful
<1> QED  BY <1>1, <1>3, <1>4, <1>5 DEF PassInv

LEMMA EndPassKeeps ==
    ASSUME PassInv, EndPass
    PROVE  PassInv'
<1>1. /\ pc = "dequeue" /\ pc' = "idle" /\ source_id' = source_id + 1
      /\ IsEmpty(state_queue)
      /\ UNCHANGED <<semiring, fst, retain, state_queue, rows>>
  BY DEF EndPass
<1>2. KeptArcs(fst)' = KeptArcs(fst) /\ NewRow' = NewRow
  BY <1>1 DEF KeptArcs, Keep, NewRow, zero
<1>3. WellFormed(state_queue) /\ Waiting(state_queue) = {}
  BY <1>1 DEF PassInv, QueueFaithful, WellFormed
<1>4. /\ source_id \in Nat /\ source_id' \in Nat
      /\ \A s \in DOMAIN rows : /\ rows[s].source \in None .. source_id
                                /\ rows[s].source \in None .. source_id'
                                /\ rows[s].source # source_id'
  BY <1>1 DEF PassInv, RowsInv, None
<1>5. retain => Live' = {}
  BY <1>1, <1>4 DEF Live
<1>6. QueueReady'
  BY <1>1, <1>2 DEF PassInv, QueueReady
<1>7. RowsInv'
  BY <1>1, <1>2, <1>3, <1>4, <1>5 DEF PassInv, RowsInv
<1>8. QueueFaithful'
  BY <1>1, <1>3 DEF QueueFaithful
<1> QED  BY <1>1, <1>6, <1>7, <1>8 DEF PassInv

-----------------------------------------------------------------------------
(* Absorbing weights: no loop changes the row being expanded.              *)

RowsAbsorb(rs, D) == \A s \in LiveIn(rs) :
    /\ rs[s].distance \in D /\ rs[s].radder \in D
    /\ rs[s].adder = rs[s].distance
    /\ Add(rs[s].distance, rs[s].radder) = rs[s].distance

LEMMA InitAbsorbs == SDInit => LoopInv
<1> SUFFICES ASSUME SDInit PROVE LoopInv
  OBVIOUS
<1>1. pc = "idle"
  BY DEF SDInit, SDNew
<1> QED  BY <1>1 DEF LoopInv

\* What LoopInv says of the rows after a step that keeps the rest.
LEMMA LoopPrimed ==
    ASSUME UNCHANGED <<semiring, fst, retain, source_id>>
    PROVE  /\ \A D : Weighs(fst, D)' <=> Weighs(fst, D)
           /\ \A D : Absorbs(semiring, D)' <=> Absorbs(semiring, D)
           /\ Live' = LiveIn(rows')
           /\ LoopHarmless(semiring, fst) => LoopHarmless(semiring, fst)'
<1>1. Live' = LiveIn(rows')
  BY DEF Live, LiveIn
<1>2. \A D : Weighs(fst, D)' <=> Weighs(fst, D)
  BY DEF Weighs, Keep
<1>3. \A D : Absorbs(semiring, D)' <=> Absorbs(semiring, D)
  BY DEF Absorbs
<1>4. LoopsLast(fst)' <=> LoopsLast(fst)
  BY DEF LoopsLast, Keep
<1> QED  BY <1>1, <1>2, <1>3, <1>4 DEF LoopHarmless

LEMMA TouchedAbsorb ==
    ASSUME NEW rs, RowsTyped(rs), source_id \in Nat, NEW s \in States,
           NEW D, Absorbs(semiring, D), RowsAbsorb(rs, D)
    PROVE  RowsAbsorb(Touched(rs, s), D)
<1> DEFINE t == Touched(rs, s)
<1>1. /\ \A x \in DOMAIN t :
           \/ x \in DOMAIN rs /\ t[x] = rs[x]
           \/ t[x].distance = zero /\ t[x].adder = zero /\ t[x].radder = zero
      /\ \A x \in LiveIn(rs) : t[x] = rs[x]
  BY TouchedRows
<1>2. zero \in D /\ Add(zero, zero) = zero
  BY DEF Absorbs, zero, Add
<1> HIDE DEF t
<1>3. ASSUME NEW x \in LiveIn(t)
      PROVE  \/ x \in LiveIn(rs) /\ t[x] = rs[x]
             \/ t[x].distance = zero /\ t[x].adder = zero /\ t[x].radder = zero
  <2>1. x \in DOMAIN t
    BY DEF LiveIn
  <2>2. x \in DOMAIN rs /\ t[x] = rs[x] => x \in LiveIn(rs)
    BY DEF LiveIn
  <2> QED  BY <1>1, <2>1, <2>2
<1>4. RowsAbsorb(t, D)
  BY <1>2, <1>3 DEF RowsAbsorb
<1> QED  BY <1>4 DEF t

\* The only row of a pass that starts.
LEMMA StartRows ==
    ASSUME PassInv, NEW s \in States, StartPass(s)
    PROVE  /\ s \in LiveIn(rows') /\ rows'[s].distance = one /\ rows'[s].adder = one
           /\ rows'[s].radder = one
           /\ \A x \in LiveIn(rows') : x # s =>
                /\ rows'[x].distance = zero /\ rows'[x].adder = zero /\ rows'[x].radder = zero
                /\ x \notin DOMAIN rows \/ ~ retain
<1> DEFINE rs == IF retain THEN rows ELSE NoRows
           kept == Ensured(rs, s)
           row == [distance |-> one, adder |-> one, radder |-> one, enqueued |-> TRUE,
                   source |-> IF retain THEN source_id ELSE kept[s].source]
<1>1. pc = "idle" /\ pc' = "dequeue" /\ rows' = [kept EXCEPT ![s] = row]
  BY DEF StartPass
<1>2. RowsTyped(rs) /\ source_id \in Nat
  <2>1. source_id \in Nat /\ RowsTyped(rows)
    BY DEF PassInv, RowsInv, RowsTyped
  <2>2. RowsTyped(NoRows)
    BY DEF RowsTyped, NoRows
  <2> QED  BY <2>1, <2>2
<1>3. /\ s \in DOMAIN kept
      /\ \A x \in DOMAIN rs : kept[x] = rs[x]
      /\ \A x \in DOMAIN kept \ DOMAIN rs : kept[x] = NewRow
  <2> HIDE DEF rs
  <2> QED  BY <1>2, EnsuredRows
<1>4. /\ row.distance = one /\ row.adder = one /\ row.radder = one
      /\ retain => row.source = source_id
  OBVIOUS
<1> HIDE DEF kept, row
<1>5. DOMAIN rows' = DOMAIN kept /\ rows'[s] = row /\ \A x \in DOMAIN kept \ {s} : rows'[x] = kept[x]
  BY <1>1, <1>3
<1>6. s \in LiveIn(rows')
  BY <1>3, <1>4, <1>5 DEF LiveIn
<1>7. ASSUME NEW x \in LiveIn(rows'), x # s
      PROVE  /\ rows'[x].distance = zero /\ rows'[x].adder = zero /\ rows'[x].radder = zero
             /\ x \notin DOMAIN rows \/ ~ retain
  <2>1. x \in DOMAIN kept /\ rows'[x] = kept[x]
    BY <1>5, <1>7 DEF LiveIn
  <2>2. x \notin DOMAIN rs
    <3> SUFFICES ASSUME x \in DOMAIN rs PROVE FALSE
      OBVIOUS
    <3>1. retain /\ rs = rows
      BY DEF NoRows
    <3>2. rows[x].source = source_id
      BY <1>3, <1>7, <2>1, <3>1 DEF LiveIn
    <3>3. x \in Live
      BY <3>1, <3>2 DEF Live
    <3> QED  BY <1>1, <3>1, <3>3 DEF PassInv, RowsInv
  <2> QED  BY <1>3, <2>1, <2>2, NewRowFields
<1> QED  BY <1>4, <1>5, <1>6, <1>7

LEMMA StartAbsorbs ==
    ASSUME IInv, NEW s \in States, StartPass(s)
    PROVE  LoopInv'
<1>1. /\ pc' = "dequeue" /\ UNCHANGED <<semiring, fst, retain, source_id>>
  BY DEF StartPass
<1>2. Live' = LiveIn(rows')
  BY <1>1, LoopPrimed
<1> SUFFICES ASSUME NEW D, Absorbs(semiring, D) PROVE RowsAbsorb(rows', D)
  BY <1>1, <1>2, LoopPrimed DEF LoopInv, RowsAbsorb, Add
<1>3. /\ zero \in D /\ one \in D /\ Add(zero, zero) = zero /\ Add(one, one) = one
  BY DEF Absorbs, zero, one, Add
<1> QED  BY <1>3, StartRows DEF RowsAbsorb, IInv

LEMMA DequeueAbsorbs ==
    ASSUME IInv, DequeueState
    PROVE  LoopInv'
<1> DEFINE h == Dequeued(state_queue)
<1>1. /\ pc = "dequeue" /\ state' = h /\ ~ IsEmpty(state_queue)
      /\ UNCHANGED <<semiring, fst, retain, source_id>> /\ r' = rows[h].radder
      /\ rows' = [rows EXCEPT ![h].enqueued = FALSE, ![h].radder = zero]
  BY DEF DequeueState
<1>2. h \in Live /\ RowsTyped(rows)
  BY <1>1, Dequeues, StatesAreNaturals DEF IInv, PassInv, QueueReady, RowsInv, RowsTyped
<1> HIDE DEF h
<1>3. h \in DOMAIN rows
  BY <1>2 DEF Live
<1>4. DOMAIN rows[h] = {"distance", "adder", "radder", "enqueued", "source"}
  BY <1>2, <1>3, NewRowFields DEF RowsTyped
<1>5. /\ DOMAIN rows' = DOMAIN rows /\ \A x \in DOMAIN rows \ {h} : rows'[x] = rows[x]
      /\ rows'[h].radder = zero /\ rows'[h].source = rows[h].source
      /\ rows'[h].distance = rows[h].distance /\ rows'[h].adder = rows[h].adder
  BY <1>1, <1>3, <1>4
<1>a. /\ LiveIn(rows') = LiveIn(rows) /\ h \in LiveIn(rows) /\ LiveIn(rows) \subseteq DOMAIN rows
      /\ Live' = LiveIn(rows') /\ Live = LiveIn(rows)
  BY <1>1, <1>2, <1>5, LoopPrimed DEF LiveIn, Live
<1> SUFFICES ASSUME NEW D, Absorbs(semiring, D), Weighs(fst, D)
             PROVE  RowsAbsorb(rows', D) /\ r' \in D /\ Add(rows'[h].distance, r') = rows'[h].distance
  BY <1>1, <1>a, LoopPrimed DEF LoopInv, RowsAbsorb, Add
<1>6. RowsAbsorb(rows, D)
  BY <1>1, <1>a DEF IInv, LoopInv, RowsAbsorb
<1>7. zero \in D /\ \A x \in D : Add(x, zero) = x
  BY DEF Absorbs, zero, Add
<1>8. /\ rows[h].distance \in D /\ rows[h].radder \in D
      /\ rows[h].adder = rows[h].distance
      /\ Add(rows[h].distance, rows[h].radder) = rows[h].distance
  BY <1>6, <1>a DEF RowsAbsorb
<1>9. RowsAbsorb(rows', D)
  BY <1>5, <1>6, <1>7, <1>8, <1>a DEF RowsAbsorb
<1> QED  BY <1>1, <1>5, <1>8, <1>9

LEMMA RelaxNothingAbsorbs ==
    ASSUME IInv, RelaxNothing
    PROVE  LoopInv'
<1> DEFINE tr == fst.trs[state][pos]
           t == Touched(rows, tr.nextstate)
<1>1. /\ pc = "relax" /\ pos <= Len(fst.trs[state])
      /\ rows' = rows \/ rows' = t
      /\ UNCHANGED <<semiring, fst, retain, source_id, state, r>>
  BY DEF RelaxNothing
<1>2. /\ state \in Live /\ tr.nextstate \in States
      /\ RowsTyped(rows) /\ source_id \in Nat /\ Live = LiveIn(rows)
  BY <1>1, RelaxFacts DEF IInv
<1> HIDE DEF tr
<1>3. t[state] = rows[state]
  BY <1>2, TouchedRows
<1>a. Live' = LiveIn(rows')
  BY <1>1, LoopPrimed
<1> SUFFICES ASSUME NEW D, Absorbs(semiring, D), Weighs(fst, D)
             PROVE  RowsAbsorb(rows', D) /\ r \in D /\ Add(rows'[state].distance, r) = rows'[state].distance
  BY <1>1, <1>a, LoopPrimed DEF LoopInv, RowsAbsorb, Add
<1>4. /\ RowsAbsorb(rows, D) /\ r \in D
      /\ Add(rows[state].distance, r) = rows[state].distance
  BY <1>1, <1>2 DEF IInv, LoopInv, RowsAbsorb
<1>5. RowsAbsorb(t, D)
  BY <1>2, <1>4, TouchedAbsorb
<1> HIDE DEF t
<1> QED  BY <1>1, <1>3, <1>4, <1>5

LEMMA RelaxMoreAbsorbs ==
    ASSUME IInv, RelaxMore
    PROVE  LoopInv'
<1> DEFINE tr == fst.trs[state][pos]
           next == tr.nextstate
           t == Touched(rows, next)
           weight == Mul(r, tr.weight)
           waits == t[state].enqueued
<1>1. /\ pc = "relax" /\ pos <= Len(fst.trs[state]) /\ Examined /\ Keep(tr)
      /\ UNCHANGED <<semiring, fst, retain, source_id, state, r>>
  BY DEF RelaxMore
<1>2. /\ state \in Live /\ state \in States /\ pos \in DOMAIN fst.trs[state] /\ next \in States
      /\ RowsTyped(rows) /\ source_id \in Nat /\ Live = LiveIn(rows)
      /\ pc' = "relax" => pos # Len(fst.trs[state])
  BY <1>1, RelaxFacts DEF IInv
<1>3. pc' = "relax" => next # state
  BY <1>2, LoopChanges
<1> HIDE DEF next
<1>4. /\ RowsTyped(t) /\ next \in DOMAIN t /\ state \in DOMAIN t /\ t[state] = rows[state]
      /\ next \in LiveIn(t) /\ state \in LiveIn(t)
  BY <1>2, TouchedRows DEF LiveIn
<1>5. DOMAIN t[next] = {"distance", "adder", "radder", "enqueued", "source"}
  BY <1>4, NewRowFields DEF RowsTyped
<1>6. /\ DOMAIN rows' = DOMAIN t /\ \A x \in DOMAIN t \ {next} : rows'[x] = t[x]
      /\ rows'[next].source = t[next].source
      /\ rows'[next].adder = Add(t[next].adder, weight)
      /\ rows'[next].distance = Add(t[next].adder, weight)
      /\ rows'[next].radder = Add(t[next].radder, weight)
  <2> HIDE DEF t, weight, waits
  <2> DEFINE u == [t EXCEPT ![next].adder = Add(@, weight),
                            ![next].distance = Add(t[next].adder, weight),
                            ![next].radder = Add(@, weight),
                            ![next].enqueued = @ \/ ~ waits]
  <2>1. rows' = u
    BY Zenon DEF RelaxMore, t, next, weight, waits
  <2>2. /\ DOMAIN u = DOMAIN t /\ \A x \in DOMAIN t \ {next} : u[x] = t[x]
        /\ u[next].source = t[next].source
        /\ u[next].adder = Add(t[next].adder, weight)
        /\ u[next].distance = Add(t[next].adder, weight)
        /\ u[next].radder = Add(t[next].radder, weight)
    BY <1>4, <1>5, RelaxedRows, Zenon
  <2> HIDE DEF u
  <2> QED  BY <2>1, <2>2
<1>a. LiveIn(rows') = LiveIn(t)
  <2> HIDE DEF t
  <2> QED  BY <1>4, <1>6 DEF LiveIn
<1>b. Live' = LiveIn(rows')
  BY <1>1, LoopPrimed
<1> SUFFICES ASSUME NEW D, Absorbs(semiring, D), Weighs(fst, D)
             PROVE  /\ RowsAbsorb(rows', D)
                    /\ pc' = "relax" => /\ r \in D
                                        /\ Add(rows'[state].distance, r) = rows'[state].distance
  <2> HIDE DEF t
  <2> QED  BY <1>1, <1>b, LoopPrimed DEF LoopInv, RowsAbsorb, Add
<1>7. /\ RowsAbsorb(rows, D) /\ r \in D
      /\ Add(rows[state].distance, r) = rows[state].distance
  BY <1>1, <1>2 DEF IInv, LoopInv, RowsAbsorb
<1>8. RowsAbsorb(t, D)
  BY <1>2, <1>7, TouchedAbsorb
<1>9. tr.weight \in D
  BY <1>1, <1>2 DEF Weighs
<1> HIDE DEF t, tr
<1>10. weight \in D
  BY <1>7, <1>9 DEF Absorbs, Mul
<1> HIDE DEF weight
<1>11. ASSUME NEW d \in D, NEW x \in D, NEW w \in D, Add(d, x) = d
       PROVE  /\ Add(d, w) \in D /\ Add(x, w) \in D
              /\ Add(Add(d, w), Add(x, w)) = Add(d, w)
  <2>1. /\ \A a, b \in D : Add(a, b) \in D /\ Add(a, b) = Add(b, a)
        /\ \A a, b, c \in D : Add(Add(a, b), c) = Add(a, Add(b, c))
        /\ \A a \in D : Add(a, a) = a
    BY DEF Absorbs, Add
  <2>2. Add(d, w) \in D /\ Add(x, w) \in D
    BY <2>1
  <2>3. Add(w, Add(x, w)) = Add(x, w)
    <3>1. Add(x, w) = Add(w, x) /\ Add(w, Add(w, x)) = Add(Add(w, w), x)
      BY <2>1
    <3> QED  BY <2>1, <3>1
  <2>4. Add(Add(d, w), Add(x, w)) = Add(d, Add(w, Add(x, w)))
    BY <2>1, <2>2
  <2>5. Add(d, Add(x, w)) = Add(Add(d, x), w)
    BY <2>1
  <2> QED  BY <1>11, <2>2, <2>3, <2>4, <2>5
<1>12. RowsAbsorb(rows', D)
  <2> SUFFICES ASSUME NEW x \in LiveIn(t)
               PROVE  /\ rows'[x].distance \in D /\ rows'[x].radder \in D
                      /\ rows'[x].adder = rows'[x].distance
                      /\ Add(rows'[x].distance, rows'[x].radder) = rows'[x].distance
    BY <1>a DEF RowsAbsorb
  <2>1. CASE x # next
    BY <1>6, <1>8, <2>1 DEF RowsAbsorb, LiveIn
  <2>2. CASE x = next
    <3>1. /\ t[next].distance \in D /\ t[next].radder \in D
          /\ t[next].adder = t[next].distance
          /\ Add(t[next].distance, t[next].radder) = t[next].distance
      BY <1>4, <1>8 DEF RowsAbsorb
    <3> DEFINE d == t[next].distance
               q == t[next].radder
    <3>2. d \in D /\ q \in D /\ Add(d, q) = d
      BY <3>1
    <3>3. /\ rows'[next].adder = Add(d, weight) /\ rows'[next].distance = Add(d, weight)
          /\ rows'[next].radder = Add(q, weight)
      BY <1>6, <3>1
    <3> HIDE DEF d, q
    <3>4. /\ Add(d, weight) \in D /\ Add(q, weight) \in D
          /\ Add(Add(d, weight), Add(q, weight)) = Add(d, weight)
      BY <1>10, <1>11, <3>2
    <3> QED  BY <2>2, <3>3, <3>4
  <2> QED  BY <2>1, <2>2
<1>13. pc' = "relax" => rows'[state] = rows[state]
  BY <1>3, <1>4, <1>6
<1> QED  BY <1>7, <1>12, <1>13

-----------------------------------------------------------------------------
LEMMA InitHolds == LoopsHarmless /\ SDInit => IInv
<1> SUFFICES ASSUME LoopsHarmless, SDInit PROVE IInv
  OBVIOUS
<1>1. LoopHarmless(semiring, fst)
  BY DEF LoopsHarmless, SDInit, SDNew
<1> QED  BY <1>1, InitReady, InitAbsorbs DEF IInv

LEMMA PassKeeps ==
    ASSUME IInv, Pass
    PROVE  IInv'
<1> USE DEF IInv
<1>1. CASE DequeueState
  <2>1. LoopHarmless(semiring, fst)'
    BY <1>1, LoopPrimed DEF DequeueState
  <2> QED  BY <1>1, <2>1, DequeueKeeps, DequeueAbsorbs
<1>2. CASE RelaxNothing
  <2>1. LoopHarmless(semiring, fst)'
    BY <1>2, LoopPrimed DEF RelaxNothing
  <2> QED  BY <1>2, <2>1, RelaxNothingKeeps, RelaxNothingAbsorbs
<1>3. CASE RelaxMore
  <2>1. LoopHarmless(semiring, fst)'
    BY <1>3, LoopPrimed DEF RelaxMore
  <2> QED  BY <1>3, <2>1, RelaxMoreKeeps, RelaxMoreAbsorbs
<1>4. CASE RelaxNone
  <2>1. /\ pc = "relax" /\ pc' = "dequeue"
        /\ UNCHANGED <<semiring, fst, retain, rows, source_id>>
    BY <1>4 DEF RelaxNone
  <2>2. LoopHarmless(semiring, fst)' /\ Live' = Live
    BY <2>1, LoopPrimed DEF Live
  <2>3. LoopInv'
    BY <2>1, <2>2, LoopPrimed DEF LoopInv, Add
  <2> QED  BY <1>4, <2>2, <2>3, RelaxNoneKeeps
<1>5. CASE EndPass
  <2>1. pc' = "idle" /\ UNCHANGED <<semiring, fst>>
    BY <1>5 DEF EndPass
  <2>2. LoopInv'
    BY <2>1 DEF LoopInv
  <2>3. LoopHarmless(semiring, fst)'
    BY <2>1 DEF LoopHarmless, LoopsLast, Absorbs, Weighs, Keep
  <2> QED  BY <1>5, <2>2, <2>3, EndPassKeeps
<1> QED  BY <1>1, <1>2, <1>3, <1>4, <1>5 DEF Pass

LEMMA StartPassKeeps ==
    ASSUME IInv, NEW s \in States, StartPass(s)
    PROVE  IInv'
<1>1. LoopHarmless(semiring, fst)'
  BY LoopPrimed DEF StartPass, IInv
<1> QED  BY <1>1, StartKeeps, StartAbsorbs DEF IInv

LEMMA StutterKeeps == IInv /\ UNCHANGED vars => IInv'
<1> SUFFICES ASSUME IInv, UNCHANGED vars PROVE IInv'
  OBVIOUS
<1>1. /\ UNCHANGED <<semiring, fst, retain, state_queue, rows, source_id, pc, state, r, pos>>
  BY DEF vars
<1>2. LoopHarmless(semiring, fst)' /\ Live' = Live
  BY <1>1, LoopPrimed DEF Live, IInv
<1>3. LoopInv'
  BY <1>1, <1>2, LoopPrimed DEF LoopInv, Add, IInv
<1>4. PassInv'
  BY <1>1, <1>2 DEF IInv, PassInv, QueueReady, RowsInv, QueueFaithful, KeptArcs, Keep, NewRow,
                    zero, FstTyped
<1> QED  BY <1>2, <1>3, <1>4 DEF IInv

LEMMA StepKeeps ==
    ASSUME IInv, [SDNext]_vars
    PROVE  IInv'
<1>1. fst.start \in States
  BY DEF IInv, PassInv, FstTyped
<1> QED  BY <1>1, PassKeeps, StartPassKeeps, StutterKeeps DEF SDNext

\* Every pass keeps the queue and the rows in step, whichever discipline
\* AutoQueue chose and whatever an earlier pass left in the rows.
THEOREM PassInvHolds == LoopsHarmless => (SDSpec => []PassInv)
<1> SUFFICES ASSUME LoopsHarmless PROVE SDSpec => []PassInv
  OBVIOUS
<1>1. SDInit => IInv
  BY InitHolds
<1>2. IInv /\ [SDNext]_vars => IInv'
  BY StepKeeps
<1>3. IInv => PassInv
  BY DEF IInv
<1> QED  BY <1>1, <1>2, <1>3, PTL DEF SDSpec

\* A weight that waits at a state waits in the queue, so no pass ends with a
\* distance that should still be carried on, and the queue's indices stay within
\* its vectors: for every machine and weight type in which a loop that changes
\* a distance is the last transition of its state.
THEOREM QueueFaithfulHolds == LoopsHarmless => (SDSpec => []QueueFaithful)
<1>1. PassInv => QueueFaithful
  BY DEF PassInv
<1> QED  BY <1>1, PassInvHolds, PTL

-----------------------------------------------------------------------------
(* Weights, and sums of a sequence of them.                                *)

\* The weights K with the operations of w: a semiring.
SemiringOn(w, K) ==
    /\ Zero(w) \in K /\ One(w) \in K
    /\ \A x, y \in K : /\ Plus(w, x, y) \in K /\ Times(w, x, y) \in K
                       /\ Plus(w, x, y) = Plus(w, y, x)
    /\ \A x, y, z \in K :
         /\ Plus(w, Plus(w, x, y), z) = Plus(w, x, Plus(w, y, z))
         /\ Times(w, Times(w, x, y), z) = Times(w, x, Times(w, y, z))
         /\ Times(w, x, Plus(w, y, z)) = Plus(w, Times(w, x, y), Times(w, x, z))
         /\ Times(w, Plus(w, x, y), z) = Plus(w, Times(w, x, z), Times(w, y, z))
    /\ \A x \in K : /\ Plus(w, x, Zero(w)) = x
                    /\ Times(w, x, Zero(w)) = Zero(w) /\ Times(w, Zero(w), x) = Zero(w)
                    /\ Times(w, x, One(w)) = x /\ Times(w, One(w), x) = x

\* g[s] is the sum of f over s, the greatest index last.
IsFold(w, f, K, n, g) ==
    /\ g \in [SUBSET (1 .. n) -> K]
    /\ \A s \in SUBSET (1 .. n) :
         g[s] = IF s = {} THEN Zero(w) ELSE Plus(w, g[s \ {Max(s)}], f[Max(s)])

\* A set of indices has a greatest one.
LEMMA MaxOfSome ==
    ASSUME NEW n \in Nat, NEW s \in SUBSET (1 .. n), s # {}
    PROVE  Max(s) \in s /\ \A x \in s : x <= Max(s)
<1> DEFINE R == {n - x : x \in s}
<1>1. R \in SUBSET Nat /\ R # {}
  <2>1. \A x \in s : x \in 1 .. n
    OBVIOUS
  <2>2. \A x \in 1 .. n : n - x \in Nat
    OBVIOUS
  <2> QED  BY <2>1, <2>2
<1>2. PICK m \in R : \A y \in R : m <= y
  BY <1>1, LeastNatural
<1>3. PICK x \in s : m = n - x
  BY <1>2
<1>4. \A y \in s : y <= x
  <2> SUFFICES ASSUME NEW y \in s PROVE y <= x
    OBVIOUS
  <2>1. n - y \in R
    OBVIOUS
  <2>2. m <= n - y
    BY <1>2, <2>1
  <2> QED  BY <1>3, <2>2
<1>5. \A y \in s : y \in Int
  OBVIOUS
<1>6. ASSUME NEW y \in s, \A z \in s : y >= z PROVE y = x
  <2>1. y >= x /\ y <= x /\ x \in Int /\ y \in Int
    BY <1>3, <1>4, <1>5, <1>6
  <2> QED  BY <2>1
<1> QED  BY <1>3, <1>4, <1>5, <1>6 DEF Max

\* The recursive function behind Total exists, and has its equations.
LEMMA FoldExists ==
    ASSUME NEW w, NEW K, SemiringOn(w, K), NEW N \in Nat, NEW f \in [1 .. N -> K]
    PROVE  \E g : IsFold(w, f, K, N, g)
<1> DEFINE Bad == {n \in 0 .. N : ~ \E g : IsFold(w, f, K, n, g)}
<1> SUFFICES ASSUME Bad # {} PROVE FALSE
  OBVIOUS
<1>1. PICK m \in Bad : \A n \in Bad : m <= n
  <2>1. Bad \in SUBSET Nat
    OBVIOUS
  <2> HIDE DEF Bad
  <2> QED  BY <2>1, LeastNatural
<1>2. m # 0
  <2> SUFFICES ASSUME m = 0 PROVE FALSE
    OBVIOUS
  <2> DEFINE g == [s \in SUBSET (1 .. 0) |-> Zero(w)]
  <2>1. \A s \in SUBSET (1 .. 0) : s = {}
    OBVIOUS
  <2>2. IsFold(w, f, K, 0, g)
    BY <2>1 DEF IsFold, SemiringOn
  <2> QED  BY <1>1, <2>2
<1>3. m \in 1 .. N /\ m - 1 \in 0 .. N /\ m - 1 \notin Bad
  BY <1>1, <1>2
<1>4. PICK g : IsFold(w, f, K, m - 1, g)
  BY <1>3
<1> HIDE DEF Bad
<1> DEFINE h == [s \in SUBSET (1 .. m) |->
                   IF m \in s THEN Plus(w, g[s \ {m}], f[m]) ELSE g[s]]
<1>5. ASSUME NEW s \in SUBSET (1 .. m), m \notin s PROVE s \in SUBSET (1 .. m - 1)
  BY <1>3, <1>5
<1>6. ASSUME NEW s \in SUBSET (1 .. m), m \in s
      PROVE  s \ {m} \in SUBSET (1 .. m - 1) /\ Max(s) = m
  <2>1. Max(s) \in s /\ m <= Max(s)
    <3>1. m \in Nat /\ s # {}
      BY <1>3, <1>6
    <3> QED  BY <1>6, <3>1, MaxOfSome
  <2>2. \A x \in s : x \in 1 .. m
    OBVIOUS
  <2>3. Max(s) = m
    <3>1. Max(s) \in 1 .. m /\ m <= Max(s)
      BY <2>1, <2>2
    <3> QED  BY <1>3, <3>1
  <2>4. \A x \in 1 .. m : x = m \/ x \in 1 .. m - 1
    BY <1>3
  <2> QED  BY <2>2, <2>3, <2>4
<1>7. h \in [SUBSET (1 .. m) -> K]
  <2> SUFFICES ASSUME NEW s \in SUBSET (1 .. m)
               PROVE  (IF m \in s THEN Plus(w, g[s \ {m}], f[m]) ELSE g[s]) \in K
    OBVIOUS
  <2>1. CASE m \in s
    <3>1. g[s \ {m}] \in K /\ f[m] \in K
      BY <1>3, <1>4, <1>6, <2>1 DEF IsFold
    <3> QED  BY <2>1, <3>1 DEF SemiringOn
  <2>2. CASE m \notin s
    BY <1>4, <1>5, <2>2 DEF IsFold
  <2> QED  BY <2>1, <2>2
<1>8. ASSUME NEW s \in SUBSET (1 .. m)
      PROVE  h[s] = IF s = {} THEN Zero(w) ELSE Plus(w, h[s \ {Max(s)}], f[Max(s)])
  <2>1. CASE m \in s
    <3>1. Max(s) = m /\ s \ {m} \in SUBSET (1 .. m) /\ m \notin s \ {m}
      BY <1>6, <2>1
    <3>2. h[s \ {m}] = g[s \ {m}] /\ h[s] = Plus(w, g[s \ {m}], f[m])
      BY <2>1, <3>1
    <3> HIDE DEF h
    <3> QED  BY <2>1, <3>1, <3>2
  <2>2. CASE m \notin s
    <3>1. s \in SUBSET (1 .. m - 1)
      BY <1>5, <2>2
    <3>2. h[s] = g[s]
      BY <2>2
    <3>3. s \ {Max(s)} \in SUBSET (1 .. m) /\ m \notin s \ {Max(s)}
      BY <2>2
    <3>4. h[s \ {Max(s)}] = g[s \ {Max(s)}]
      BY <3>3
    <3> HIDE DEF h
    <3> QED  BY <1>4, <3>1, <3>2, <3>4 DEF IsFold
  <2> QED  BY <2>1, <2>2
<1>9. IsFold(w, f, K, m, h)
  <2> HIDE DEF h
  <2> QED  BY <1>7, <1>8 DEF IsFold
<1> QED  BY <1>1, <1>9 DEF Bad

\* The sum is that of the first n - 1 weights, and the n-th.
PrefixSums(w, f, K, n, s) ==
    /\ s \in [0 .. n -> K] /\ s[0] = Zero(w)
    /\ \A i \in 1 .. n : s[i] = Plus(w, s[i - 1], f[i])

\* Total is the last of the partial sums.
LEMMA TotalPrefixes ==
    ASSUME NEW w, NEW K, SemiringOn(w, K), NEW N \in Nat, NEW f \in [1 .. N -> K]
    PROVE  \E s : PrefixSums(w, f, K, N, s) /\ Total(w, f) = s[N]
<1> DEFINE Def(g) == [s \in SUBSET (1 .. N) |->
                        IF s = {} THEN Zero(w) ELSE Plus(w, g[s \ {Max(s)}], f[Max(s)])]
           iter == CHOOSE g : g = Def(g)
<1>1. DOMAIN f = 1 .. N
  OBVIOUS
<1>2. Total(w, f) = iter[1 .. N]
  BY <1>1 DEF Total, FoldLeft, MapThenFoldSet
<1>3. PICK g : IsFold(w, f, K, N, g)
  BY FoldExists
<1>4. g = Def(g)
  BY <1>3 DEF IsFold
<1>5. iter = Def(iter)
  BY <1>4
<1> HIDE DEF iter
<1> DEFINE s == [k \in 0 .. N |-> iter[1 .. k]]
<1>6. s[0] = Zero(w)
  <2>1. 1 .. 0 = {} /\ {} \in SUBSET (1 .. N) /\ 0 \in 0 .. N
    OBVIOUS
  <2>2. iter[{}] = Zero(w)
    BY <1>5, <2>1
  <2> QED  BY <2>1, <2>2
<1>7. ASSUME NEW i \in 1 .. N PROVE s[i] = Plus(w, s[i - 1], f[i])
  <2>1. 1 .. i \in SUBSET (1 .. N) /\ 1 .. i # {} /\ i \in 0 .. N /\ i - 1 \in 0 .. N
    <3>1. i \in Nat /\ 1 <= i /\ i <= N
      OBVIOUS
    <3>2. i \in 1 .. i
      BY <3>1
    <3>3. \A x \in 1 .. i : x \in 1 .. N
      BY <3>1
    <3>4. i \in 0 .. N /\ i - 1 \in 0 .. N
      BY <3>1
    <3> QED  BY <3>2, <3>3, <3>4
  <2>2. Max(1 .. i) = i
    <3>1. Max(1 .. i) \in 1 .. i /\ \A x \in 1 .. i : x <= Max(1 .. i)
      BY <2>1, MaxOfSome
    <3> QED  BY <3>1
  <2>3. (1 .. i) \ {i} = 1 .. i - 1
    OBVIOUS
  <2>4. iter[1 .. i] = Plus(w, iter[1 .. i - 1], f[i])
    BY <1>5, <2>1, <2>2, <2>3
  <2> QED  BY <2>1, <2>4
<1> HIDE DEF s
<1>8. ASSUME NEW i \in 0 .. N PROVE s[i] \in K
  <2> DEFINE Bad == {k \in 0 .. N : s[k] \notin K}
  <2> SUFFICES ASSUME Bad # {} PROVE FALSE
    OBVIOUS
  <2>1. PICK m \in Bad : \A n \in Bad : m <= n
    <3>1. Bad \in SUBSET Nat
      OBVIOUS
    <3> HIDE DEF Bad
    <3> QED  BY <3>1, LeastNatural
  <2>2. m # 0
    BY <1>6 DEF SemiringOn
  <2>3. m \in 1 .. N /\ m - 1 \in 0 .. N /\ m - 1 \notin Bad
    BY <2>1, <2>2
  <2>4. s[m - 1] \in K /\ f[m] \in K
    BY <2>3
  <2>5. s[m] = Plus(w, s[m - 1], f[m])
    BY <1>7, <2>3
  <2>6. s[m] \in K
    <3>1. Plus(w, s[m - 1], f[m]) \in K
      BY <2>4 DEF SemiringOn
    <3> QED  BY <2>5, <3>1
  <2> QED  BY <2>6
<1>9. s \in [0 .. N -> K] /\ Total(w, f) = s[N]
  BY <1>2, <1>8 DEF s
<1> QED  BY <1>6, <1>7, <1>9 DEF PrefixSums

\* A property of the prefix sums that the empty one has and the next one keeps.
LEMMA PrefixInduction ==
    ASSUME NEW N \in Nat, NEW Good \in SUBSET Nat, 0 \in Good,
           \A i \in 1 .. N : i - 1 \in Good => i \in Good
    PROVE  \A i \in 0 .. N : i \in Good
<1> DEFINE Bad == {i \in 0 .. N : i \notin Good}
<1> SUFFICES ASSUME Bad # {} PROVE FALSE
  OBVIOUS
<1>1. PICK m \in Bad : \A n \in Bad : m <= n
  <2>1. Bad \in SUBSET Nat
    OBVIOUS
  <2> HIDE DEF Bad
  <2> QED  BY <2>1, LeastNatural
<1>2. m \in 1 .. N /\ m - 1 \in 0 .. N /\ m - 1 \notin Bad
  BY <1>1
<1> QED  BY <1>1, <1>2

\* A sum of weights is a weight.
LEMMA TotalType ==
    ASSUME NEW w, NEW K, SemiringOn(w, K), NEW N \in Nat, NEW f \in [1 .. N -> K]
    PROVE  Total(w, f) \in K
<1>1. PICK s : PrefixSums(w, f, K, N, s) /\ Total(w, f) = s[N]
  BY TotalPrefixes
<1> QED  BY <1>1 DEF PrefixSums

\* The laws of the sum alone, to be cited one by one.
LEMMA AddLaws ==
    ASSUME NEW w, NEW K, SemiringOn(w, K), NEW x \in K, NEW y \in K, NEW z \in K
    PROVE  /\ Zero(w) \in K /\ Plus(w, x, y) \in K
           /\ Plus(w, x, y) = Plus(w, y, x)
           /\ Plus(w, Plus(w, x, y), z) = Plus(w, x, Plus(w, y, z))
           /\ Plus(w, x, Zero(w)) = x /\ Plus(w, Zero(w), x) = x
BY DEF SemiringOn

\* The last two of three summands change places.
LEMMA AddSwap ==
    ASSUME NEW w, NEW K, SemiringOn(w, K), NEW x \in K, NEW y \in K, NEW z \in K
    PROVE  Plus(w, Plus(w, x, y), z) = Plus(w, Plus(w, x, z), y)
<1>1. Plus(w, Plus(w, x, y), z) = Plus(w, x, Plus(w, y, z))
  BY AddLaws
<1>2. Plus(w, y, z) = Plus(w, z, y)
  BY AddLaws
<1>3. Plus(w, Plus(w, x, z), y) = Plus(w, x, Plus(w, z, y))
  BY AddLaws
<1> QED  BY <1>1, <1>2, <1>3

\* The laws of the product.
LEMMA MulLaws ==
    ASSUME NEW w, NEW K, SemiringOn(w, K), NEW x \in K, NEW y \in K, NEW z \in K
    PROVE  /\ One(w) \in K /\ Times(w, x, y) \in K
           /\ Times(w, Times(w, x, y), z) = Times(w, x, Times(w, y, z))
           /\ Times(w, x, Plus(w, y, z)) = Plus(w, Times(w, x, y), Times(w, x, z))
           /\ Times(w, Plus(w, x, y), z) = Plus(w, Times(w, x, z), Times(w, y, z))
           /\ Times(w, x, Zero(w)) = Zero(w) /\ Times(w, Zero(w), x) = Zero(w)
           /\ Times(w, x, One(w)) = x /\ Times(w, One(w), x) = x
BY DEF SemiringOn

\* A sum of zeros.
LEMMA TotalZero ==
    ASSUME NEW w, NEW K, SemiringOn(w, K), NEW N \in Nat, NEW f \in [1 .. N -> K],
           \A i \in 1 .. N : f[i] = Zero(w)
    PROVE  Total(w, f) = Zero(w)
<1>1. PICK s : PrefixSums(w, f, K, N, s) /\ Total(w, f) = s[N]
  BY TotalPrefixes
<1> DEFINE Good == {i \in Nat : i \in 0 .. N /\ s[i] = Zero(w)}
<1>2. 0 \in Good
  BY <1>1 DEF PrefixSums
<1>3. ASSUME NEW i \in 1 .. N, i - 1 \in Good PROVE i \in Good
  <2>1. s[i] = Plus(w, Zero(w), Zero(w))
    BY <1>1, <1>3 DEF PrefixSums
  <2>2. Zero(w) \in K
    BY DEF SemiringOn
  <2>3. Plus(w, Zero(w), Zero(w)) = Zero(w)
    BY <2>2, AddLaws
  <2> QED  BY <2>1, <2>3
<1>4. \A i \in 0 .. N : i \in Good
  <2> HIDE DEF Good
  <2> QED  BY <1>2, <1>3, PrefixInduction DEF Good
<1> QED  BY <1>1, <1>4

\* One of the weights has x more: so has the sum.
LEMMA TotalChange ==
    ASSUME NEW w, NEW K, SemiringOn(w, K), NEW N \in Nat,
           NEW f \in [1 .. N -> K], NEW g \in [1 .. N -> K],
           NEW j \in 1 .. N, NEW x \in K, g[j] = Plus(w, f[j], x),
           \A i \in 1 .. N : i # j => g[i] = f[i]
    PROVE  Total(w, g) = Plus(w, Total(w, f), x)
<1>1. PICK s : PrefixSums(w, f, K, N, s) /\ Total(w, f) = s[N]
  BY TotalPrefixes
<1>2. PICK t : PrefixSums(w, g, K, N, t) /\ Total(w, g) = t[N]
  BY TotalPrefixes
<1> DEFINE Good == {i \in Nat : i \in 0 .. N => t[i] = IF i < j THEN s[i] ELSE Plus(w, s[i], x)}
<1>3. 0 \in Good
  BY <1>1, <1>2 DEF PrefixSums
<1>4. ASSUME NEW i \in 1 .. N, i - 1 \in Good PROVE i \in Good
  <2>1. /\ s[i] = Plus(w, s[i - 1], f[i]) /\ t[i] = Plus(w, t[i - 1], g[i])
        /\ i - 1 \in 0 .. N /\ s[i - 1] \in K /\ f[i] \in K
    BY <1>1, <1>2 DEF PrefixSums
  <2>2. t[i - 1] = IF i - 1 < j THEN s[i - 1] ELSE Plus(w, s[i - 1], x)
    BY <1>4, <2>1
  <2>3. CASE i < j
    BY <2>1, <2>2, <2>3
  <2>4. CASE i = j
    <3>1. t[i] = Plus(w, s[i - 1], Plus(w, f[i], x))
      BY <2>1, <2>2, <2>4
    <3>2. Plus(w, Plus(w, s[i - 1], f[i]), x) = Plus(w, s[i - 1], Plus(w, f[i], x))
      <4>1. \A a, b \in K : Plus(w, Plus(w, a, b), x) = Plus(w, a, Plus(w, b, x))
        BY AddLaws
      <4> QED  BY <2>1, <4>1
    <3> QED  BY <2>1, <2>4, <3>1, <3>2
  <2>5. CASE i > j
    <3>1. t[i] = Plus(w, Plus(w, s[i - 1], x), f[i])
      BY <2>1, <2>2, <2>5
    <3>2. Plus(w, Plus(w, s[i - 1], x), f[i]) = Plus(w, Plus(w, s[i - 1], f[i]), x)
      BY <2>1, AddSwap
    <3> QED  BY <2>1, <2>5, <3>1, <3>2
  <2> QED  BY <2>3, <2>4, <2>5
<1>5. \A i \in 0 .. N : i \in Good
  <2>1. Good \in SUBSET Nat
    OBVIOUS
  <2> HIDE DEF Good
  <2> QED  BY <1>3, <1>4, <2>1, PrefixInduction
<1> QED  BY <1>1, <1>2, <1>5

-----------------------------------------------------------------------------
(* Idempotent weights: x is below y when y has it already.                 *)

\* The order of an idempotent sum.
Below(w, x, y) == Plus(w, x, y) = y

IdempotentOn(w, K) == \A x \in K : Plus(w, x, x) = x

\* It is an order that the sum and the product respect.
LEMMA BelowAll ==
    ASSUME NEW w, NEW K, SemiringOn(w, K), IdempotentOn(w, K),
           NEW x \in K, NEW y \in K, NEW z \in K
    PROVE  /\ Below(w, x, x) /\ Below(w, Zero(w), x)
           /\ Below(w, x, Plus(w, x, y)) /\ Below(w, y, Plus(w, x, y))
           /\ Below(w, x, y) /\ Below(w, y, z) => Below(w, x, z)
           /\ Below(w, x, z) /\ Below(w, y, z) => Below(w, Plus(w, x, y), z)
           /\ Below(w, x, y) => /\ Below(w, Times(w, x, z), Times(w, y, z))
                               /\ Below(w, Times(w, z, x), Times(w, z, y))
<1>1. Below(w, x, x) /\ Below(w, Zero(w), x)
  BY AddLaws DEF Below, IdempotentOn
<1>2. Below(w, x, Plus(w, x, y))
  <2>1. Plus(w, x, Plus(w, x, y)) = Plus(w, Plus(w, x, x), y)
    BY AddLaws
  <2> QED  BY <2>1 DEF Below, IdempotentOn
<1>3. Below(w, y, Plus(w, x, y))
  <2>1. Plus(w, x, y) = Plus(w, y, x)
    BY AddLaws
  <2>2. Plus(w, y, Plus(w, y, x)) = Plus(w, Plus(w, y, y), x)
    BY AddLaws
  <2> QED  BY <2>1, <2>2 DEF Below, IdempotentOn
<1>4. ASSUME Below(w, x, y), Below(w, y, z) PROVE Below(w, x, z)
  <2>1. Plus(w, x, Plus(w, y, z)) = Plus(w, Plus(w, x, y), z)
    BY AddLaws
  <2> QED  BY <1>4, <2>1 DEF Below
<1>5. ASSUME Below(w, x, z), Below(w, y, z) PROVE Below(w, Plus(w, x, y), z)
  <2>1. Plus(w, Plus(w, x, y), z) = Plus(w, x, Plus(w, y, z))
    BY AddLaws
  <2> QED  BY <1>5, <2>1 DEF Below
<1>6. ASSUME Below(w, x, y)
      PROVE  /\ Below(w, Times(w, x, z), Times(w, y, z))
             /\ Below(w, Times(w, z, x), Times(w, z, y))
  <2>1. Times(w, Plus(w, x, y), z) = Plus(w, Times(w, x, z), Times(w, y, z))
    BY MulLaws
  <2>2. Times(w, z, Plus(w, x, y)) = Plus(w, Times(w, z, x), Times(w, z, y))
    BY MulLaws
  <2> QED  BY <1>6, <2>1, <2>2 DEF Below
<1> QED  BY <1>1, <1>2, <1>3, <1>4, <1>5, <1>6

\* Two of these facts.
LEMMA BelowPasses ==
    ASSUME NEW w, NEW K, SemiringOn(w, K), IdempotentOn(w, K),
           NEW x \in K, NEW y \in K, NEW z \in K, Below(w, x, y), Below(w, y, z)
    PROVE  Below(w, x, z)
BY BelowAll

LEMMA BelowBoth ==
    ASSUME NEW w, NEW K, SemiringOn(w, K), IdempotentOn(w, K),
           NEW x \in K, NEW y \in K, NEW z \in K, Below(w, x, z), Below(w, y, z)
    PROVE  Below(w, Plus(w, x, y), z)
BY BelowAll

\* A weight is below the sum it is in.
LEMMA TotalAbove ==
    ASSUME NEW w, NEW K, SemiringOn(w, K), IdempotentOn(w, K), NEW N \in Nat,
           NEW f \in [1 .. N -> K], NEW j \in 1 .. N
    PROVE  Below(w, f[j], Total(w, f))
<1>1. f[j] = Plus(w, f[j], f[j]) /\ f[j] \in K
  BY DEF IdempotentOn
<1>2. Total(w, f) = Plus(w, Total(w, f), f[j])
  BY <1>1, TotalChange
<1>3. Total(w, f) \in K
  BY TotalType
<1>4. Plus(w, Total(w, f), f[j]) = Plus(w, f[j], Total(w, f))
  BY <1>1, <1>3, AddLaws
<1> QED  BY <1>2, <1>4 DEF Below

\* A multiple of a sum is below what the multiples of its weights are below.
LEMMA TotalBelow ==
    ASSUME NEW w, NEW K, SemiringOn(w, K), IdempotentOn(w, K), NEW N \in Nat,
           NEW f \in [1 .. N -> K], NEW k \in K, NEW t \in K,
           \A i \in 1 .. N : Below(w, Times(w, k, f[i]), t)
    PROVE  Below(w, Times(w, k, Total(w, f)), t)
<1>1. PICK s : PrefixSums(w, f, K, N, s) /\ Total(w, f) = s[N]
  BY TotalPrefixes
<1> DEFINE Good == {i \in Nat : i \in 0 .. N => Below(w, Times(w, k, s[i]), t)}
<1>2. 0 \in Good
  <2>1. Times(w, k, s[0]) = Zero(w)
    <3>1. s[0] = Zero(w)
      BY <1>1 DEF PrefixSums
    <3> QED  BY <3>1, MulLaws
  <2>2. Below(w, Zero(w), t)
    BY BelowAll
  <2> QED  BY <2>1, <2>2
<1>3. ASSUME NEW i \in 1 .. N, i - 1 \in Good PROVE i \in Good
  <2>1. /\ s[i] = Plus(w, s[i - 1], f[i])
        /\ i - 1 \in 0 .. N /\ s[i - 1] \in K /\ f[i] \in K
    BY <1>1 DEF PrefixSums
  <2>2. Below(w, Times(w, k, s[i - 1]), t)
    BY <1>3, <2>1
  <2>3. Times(w, k, s[i]) = Plus(w, Times(w, k, s[i - 1]), Times(w, k, f[i]))
    <3>1. Times(w, k, Plus(w, s[i - 1], f[i]))
            = Plus(w, Times(w, k, s[i - 1]), Times(w, k, f[i]))
      <4>1. \A a, b \in K : Times(w, k, Plus(w, a, b))
                             = Plus(w, Times(w, k, a), Times(w, k, b))
        BY MulLaws
      <4> QED  BY <2>1, <4>1
    <3> QED  BY <2>1, <3>1
  <2>4. Times(w, k, s[i - 1]) \in K /\ Times(w, k, f[i]) \in K
    BY <2>1, MulLaws
  <2>5. Below(w, Times(w, k, s[i]), t)
    BY <2>2, <2>3, <2>4, BelowAll
  <2> QED  BY <2>5
<1>4. \A i \in 0 .. N : i \in Good
  <2>1. Good \in SUBSET Nat
    OBVIOUS
  <2> HIDE DEF Good
  <2> QED  BY <1>2, <1>3, <2>1, PrefixInduction
<1> QED  BY <1>1, <1>4


-----------------------------------------------------------------------------
(* The sums over paths.                                                    *)

\* The kept transitions of a machine weigh in K and lead to its states.
MachineOn(K, m) ==
    \A s \in States :
      /\ m.trs[s] \in Seq(Range(m.trs[s]))
      /\ \A i \in DOMAIN m.trs[s] : /\ m.trs[s][i].nextstate \in States
                                    /\ Keep(m.trs[s][i]) => m.trs[s][i].weight \in K

\* A weight for every pair of states.
Sums(K) == [States -> [States -> K]]

\* What is carried on from a state is a weight.
LEMMA CarriedType ==
    ASSUME NEW w, NEW K, SemiringOn(w, K), NEW m, MachineOn(K, m), NEW sums \in Sums(K),
           NEW p \in States, NEW k \in Nat, NEW q \in States
    PROVE  /\ Len(m.trs[p]) \in Nat /\ DOMAIN m.trs[p] = 1 .. Len(m.trs[p])
           /\ Carried(w, m, sums, p, k, q) \in [1 .. Len(m.trs[p]) -> K]
           /\ Onward(w, m, sums, p, k, q) \in K
<1>1. Len(m.trs[p]) \in Nat /\ DOMAIN m.trs[p] = 1 .. Len(m.trs[p])
  <2>1. m.trs[p] \in Seq(Range(m.trs[p]))
    BY DEF MachineOn
  <2> QED  BY <2>1
<1>2. ASSUME NEW i \in DOMAIN m.trs[p]
      PROVE  (IF i >= k /\ Keep(m.trs[p][i])
              THEN Times(w, m.trs[p][i].weight, sums[m.trs[p][i].nextstate][q])
              ELSE Zero(w)) \in K
  <2>1. CASE Keep(m.trs[p][i])
    <3>1. m.trs[p][i].weight \in K /\ m.trs[p][i].nextstate \in States
      BY <2>1 DEF MachineOn
    <3>2. sums[m.trs[p][i].nextstate][q] \in K
      BY <3>1 DEF Sums
    <3>3. Zero(w) \in K /\ Times(w, m.trs[p][i].weight, sums[m.trs[p][i].nextstate][q]) \in K
      BY <3>1, <3>2 DEF SemiringOn
    <3> QED  BY <3>3
  <2>2. CASE ~ Keep(m.trs[p][i])
    BY <2>2 DEF SemiringOn
  <2> QED  BY <2>1, <2>2
<1>3. Carried(w, m, sums, p, k, q) \in [1 .. Len(m.trs[p]) -> K]
  BY <1>1, <1>2 DEF Carried
<1> QED  BY <1>1, <1>3, TotalType DEF Onward

\* What the j-th transition adds.
LEMMA CarriedAt ==
    ASSUME NEW w, NEW m, NEW sums, NEW p, NEW k, NEW q, NEW j \in DOMAIN m.trs[p]
    PROVE  Carried(w, m, sums, p, k, q)[j]
           = IF j >= k /\ Keep(m.trs[p][j])
             THEN Times(w, m.trs[p][j].weight, sums[m.trs[p][j].nextstate][q])
             ELSE Zero(w)
BY DEF Carried

\* Past the last transition there is nothing.
LEMMA OnwardPast ==
    ASSUME NEW w, NEW K, SemiringOn(w, K), NEW m, MachineOn(K, m), NEW sums \in Sums(K),
           NEW p \in States, NEW q \in States
    PROVE  Onward(w, m, sums, p, Len(m.trs[p]) + 1, q) = Zero(w)
<1> DEFINE k == Len(m.trs[p]) + 1
           f == Carried(w, m, sums, p, k, q)
<1>1. /\ Len(m.trs[p]) \in Nat /\ DOMAIN m.trs[p] = 1 .. Len(m.trs[p])
  BY CarriedType
<1>2. k \in Nat /\ \A i \in 1 .. Len(m.trs[p]) : ~ i >= k
  BY <1>1
<1>3. f \in [1 .. Len(m.trs[p]) -> K]
  <2> HIDE DEF k
  <2> QED  BY <1>2, CarriedType
<1>4. \A i \in 1 .. Len(m.trs[p]) : f[i] = Zero(w)
  <2> HIDE DEF k
  <2> QED  BY <1>1, <1>2 DEF Carried
<1> HIDE DEF f
<1>5. Total(w, f) = Zero(w)
  BY <1>1, <1>3, <1>4, TotalZero
<1> QED  BY <1>5 DEF Onward, f

\* From the k-th on: the k-th, and the next ones.
LEMMA OnwardNext ==
    ASSUME NEW w, NEW K, SemiringOn(w, K), NEW m, MachineOn(K, m), NEW sums \in Sums(K),
           NEW p \in States, NEW k \in 1 .. Len(m.trs[p]), NEW q \in States
    PROVE  LET tr == m.trs[p][k] IN
           Onward(w, m, sums, p, k, q)
           = Plus(w, Onward(w, m, sums, p, k + 1, q),
                  IF Keep(tr) THEN Times(w, tr.weight, sums[tr.nextstate][q]) ELSE Zero(w))
<1> DEFINE tr == m.trs[p][k]
           x == IF Keep(tr) THEN Times(w, tr.weight, sums[tr.nextstate][q]) ELSE Zero(w)
           f == Carried(w, m, sums, p, k + 1, q)
           g == Carried(w, m, sums, p, k, q)
           N == Len(m.trs[p])
<1>1. N \in Nat /\ DOMAIN m.trs[p] = 1 .. N /\ k \in Nat
  BY CarriedType, k \in Int
<1>2. f \in [1 .. N -> K] /\ g \in [1 .. N -> K]
  BY <1>1, CarriedType
<1>3. \A i \in 1 .. N : i # k => g[i] = f[i]
  <2>1. \A i \in 1 .. N : i # k => (i >= k <=> i >= k + 1)
    BY <1>1
  <2> QED  BY <1>1, <2>1 DEF Carried
<1>4. g[k] = x /\ f[k] = Zero(w)
  <2>1. k >= k /\ ~ k >= k + 1
    BY <1>1
  <2> QED  BY <1>1, <2>1 DEF Carried
<1>5. g[k] = Plus(w, f[k], x) /\ x \in K
  <2>1. x \in K
    BY <1>2, <1>4
  <2> HIDE DEF x, f, g, N
  <2>2. x = Plus(w, Zero(w), x)
    BY <2>1, AddLaws
  <2> QED  BY <1>4, <2>1, <2>2
<1> HIDE DEF f, g, x, N
<1>6. Total(w, g) = Plus(w, Total(w, f), x)
  <2>1. N \in Nat /\ k \in 1 .. N
    BY <1>1 DEF N
  <2> QED  BY <1>2, <1>3, <1>5, <2>1, TotalChange
<1> QED  BY <1>6 DEF Onward, f, g, x, N

\* Paths of one more transition have sums.
LEMMA LongerType ==
    ASSUME NEW w, NEW K, SemiringOn(w, K), NEW m, MachineOn(K, m), NEW sums \in Sums(K)
    PROVE  /\ Longer(w, m, sums) \in Sums(K)
           /\ \A p, q \in States :
                /\ EmptyPath(w, p, q) \in K
                /\ Longer(w, m, sums)[p][q]
                     = Plus(w, EmptyPath(w, p, q), Onward(w, m, sums, p, 1, q))
<1>1. \A p, q \in States : EmptyPath(w, p, q) \in K
  BY DEF EmptyPath, SemiringOn
<1>2. \A p, q \in States : Onward(w, m, sums, p, 1, q) \in K
  BY CarriedType
<1>3. \A p, q \in States : Plus(w, EmptyPath(w, p, q), Onward(w, m, sums, p, 1, q)) \in K
  BY <1>1, <1>2, AddLaws
<1> QED  BY <1>1, <1>3 DEF Longer, Sums

\* u[i] is the sum over the paths of at most i transitions.
IsPathSums(w, m, K, n, u) ==
    /\ u \in [0 .. n -> Sums(K)]
    /\ u[0] = [p \in States |-> [q \in States |-> EmptyPath(w, p, q)]]
    /\ \A i \in 1 .. n : u[i] = Longer(w, m, u[i - 1])

\* The recursive function PathSums exists, and has its equations.
LEMMA PathSumsExist ==
    ASSUME NEW w, NEW K, SemiringOn(w, K), NEW m, MachineOn(K, m), NEW N \in Nat
    PROVE  \E u : IsPathSums(w, m, K, N, u)
<1> DEFINE Good == {n \in Nat : \E u : IsPathSums(w, m, K, n, u)}
           empty == [p \in States |-> [q \in States |-> EmptyPath(w, p, q)]]
<1>1. empty \in Sums(K)
  BY DEF EmptyPath, SemiringOn, Sums
<1> HIDE DEF empty
<1>2. 0 \in Good
  <2> DEFINE u == [n \in 0 .. 0 |-> empty]
  <2>1. u[0] = empty /\ u \in [0 .. 0 -> Sums(K)] /\ 1 .. 0 = {}
    BY <1>1
  <2> HIDE DEF u
  <2>2. IsPathSums(w, m, K, 0, u)
    BY <2>1 DEF IsPathSums, empty
  <2> QED  BY <2>2
<1>3. ASSUME NEW i \in 1 .. N, i - 1 \in Good PROVE i \in Good
  <2>1. PICK u : IsPathSums(w, m, K, i - 1, u)
    BY <1>3
  <2>2. u \in [0 .. i - 1 -> Sums(K)] /\ i - 1 \in 0 .. i - 1 /\ i \in Nat
    BY <2>1 DEF IsPathSums
  <2> DEFINE v == [n \in 0 .. i |-> IF n = i THEN Longer(w, m, u[i - 1]) ELSE u[n]]
  <2>3. Longer(w, m, u[i - 1]) \in Sums(K)
    BY <2>2, LongerType
  <2>4. v \in [0 .. i -> Sums(K)]
    BY <2>2, <2>3
  <2>5. v[0] = u[0]
    BY <2>2
  <2>6. \A n \in 1 .. i : v[n] = Longer(w, m, v[n - 1])
    <3> SUFFICES ASSUME NEW n \in 1 .. i PROVE v[n] = Longer(w, m, v[n - 1])
      OBVIOUS
    <3>1. v[n - 1] = u[n - 1]
      BY <2>2
    <3>2. CASE n = i
      BY <2>2, <3>1, <3>2
    <3>3. CASE n # i
      <4>1. n \in 1 .. i - 1 /\ v[n] = u[n]
        BY <2>2, <3>3
      <4> HIDE DEF v
      <4> QED  BY <2>1, <3>1, <4>1 DEF IsPathSums
    <3> QED  BY <3>2, <3>3
  <2> HIDE DEF v
  <2>7. IsPathSums(w, m, K, i, v)
    BY <2>1, <2>4, <2>5, <2>6 DEF IsPathSums
  <2> QED  BY <2>2, <2>7
<1>4. \A i \in 0 .. N : i \in Good
  <2>1. Good \in SUBSET Nat
    OBVIOUS
  <2> HIDE DEF Good
  <2> QED  BY <1>2, <1>3, <2>1, PrefixInduction
<1> QED  BY <1>4

\* PathSums is that function.
LEMMA PathSumsHold ==
    ASSUME NEW w, NEW K, SemiringOn(w, K), NEW m, MachineOn(K, m)
    PROVE  IsPathSums(w, m, K, PathBound, PathSums(w, m))
<1>1. PathBound \in Nat
  BY SDAssumption
<1>2. PICK u : IsPathSums(w, m, K, PathBound, u)
  BY <1>1, PathSumsExist
<1> DEFINE Def(v) == [n \in 0 .. PathBound |->
             IF n = 0 THEN [p \in States |-> [q \in States |-> EmptyPath(w, p, q)]]
             ELSE Longer(w, m, v[n - 1])]
<1>3. u = Def(u)
  BY <1>1, <1>2 DEF IsPathSums
<1>4. PathSums(w, m) = CHOOSE v : v = Def(v)
  BY DEF PathSums
<1> DEFINE v == PathSums(w, m)
<1>5. v = Def(v)
  BY <1>3, <1>4
<1> HIDE DEF v
<1>6. v[0] = [p \in States |-> [q \in States |-> EmptyPath(w, p, q)]]
  BY <1>1, <1>5
<1>7. ASSUME NEW i \in 1 .. PathBound PROVE v[i] = Longer(w, m, v[i - 1])
  <2>1. i \in 0 .. PathBound /\ i # 0
    BY <1>1
  <2> QED  BY <1>5, <2>1
<1> DEFINE Good == {n \in Nat : v[n] \in Sums(K)}
<1>8. \A i \in 0 .. PathBound : i \in Good
  <2>1. 0 \in Good
    <3>1. \A p, q \in States : EmptyPath(w, p, q) \in K
      BY DEF EmptyPath, SemiringOn
    <3>2. v[0] \in Sums(K)
      BY <1>6, <3>1 DEF Sums
    <3> QED  BY <3>2
  <2>2. ASSUME NEW i \in 1 .. PathBound, i - 1 \in Good PROVE i \in Good
    <3>1. v[i] \in Sums(K)
      BY <1>7, <2>2, LongerType
    <3> QED  BY <1>1, <3>1
  <2>3. Good \in SUBSET Nat
    OBVIOUS
  <2> HIDE DEF Good
  <2> QED  BY <1>1, <2>1, <2>2, <2>3, PrefixInduction
<1>9. v \in [0 .. PathBound -> Sums(K)]
  <2>1. v = [n \in 0 .. PathBound |-> v[n]]
    BY <1>5
  <2> QED  BY <1>8, <2>1
<1> QED  BY <1>6, <1>7, <1>9 DEF IsPathSums, v

-----------------------------------------------------------------------------
(* Sums over paths of idempotent weights.                                  *)

\* C is one more transition of C: longer paths add nothing.
Closes(w, m, C) == Longer(w, m, C) = C

\* The paths of at most n transitions are below the closed sum.
LEMMA PathsBelow ==
    ASSUME NEW w, NEW K, SemiringOn(w, K), IdempotentOn(w, K), NEW m, MachineOn(K, m),
           NEW C \in Sums(K), Closes(w, m, C), NEW n \in 0 .. PathBound
    PROVE  \A p, q \in States : Below(w, PathSums(w, m)[n][p][q], C[p][q])
<1> DEFINE u == PathSums(w, m)
           Good == {i \in Nat : \A p, q \in States : Below(w, u[i][p][q], C[p][q])}
<1>1. IsPathSums(w, m, K, PathBound, u) /\ PathBound \in Nat
  BY PathSumsHold, SDAssumption
<1> HIDE DEF u
<1>2. \A p, q \in States :
        /\ C[p][q] = Plus(w, EmptyPath(w, p, q), Onward(w, m, C, p, 1, q))
        /\ C[p][q] \in K /\ EmptyPath(w, p, q) \in K /\ Onward(w, m, C, p, 1, q) \in K
  <2>1. \A p, q \in States : C[p][q] = Plus(w, EmptyPath(w, p, q), Onward(w, m, C, p, 1, q))
    BY LongerType DEF Closes
  <2>2. \A p, q \in States : Onward(w, m, C, p, 1, q) \in K
    BY CarriedType
  <2>3. \A p, q \in States : C[p][q] \in K /\ EmptyPath(w, p, q) \in K
    BY LongerType DEF Sums
  <2> QED  BY <2>1, <2>2, <2>3
<1>3. 0 \in Good
  <2> SUFFICES ASSUME NEW p \in States, NEW q \in States
               PROVE  Below(w, u[0][p][q], C[p][q])
    OBVIOUS
  <2>1. u[0][p][q] = EmptyPath(w, p, q)
    BY <1>1 DEF IsPathSums
  <2>2. Below(w, EmptyPath(w, p, q), Plus(w, EmptyPath(w, p, q), Onward(w, m, C, p, 1, q)))
    BY <1>2, BelowAll
  <2> QED  BY <1>2, <2>1, <2>2
<1>4. ASSUME NEW i \in 1 .. PathBound, i - 1 \in Good PROVE i \in Good
  <2> SUFFICES ASSUME NEW p \in States, NEW q \in States
               PROVE  Below(w, u[i][p][q], C[p][q])
    BY <1>1
  <2> DEFINE f == Carried(w, m, u[i - 1], p, 1, q)
             g == Carried(w, m, C, p, 1, q)
             N == Len(m.trs[p])
  <2>1. /\ u[i - 1] \in Sums(K) /\ u[i] = Longer(w, m, u[i - 1])
        /\ \A s, t \in States : Below(w, u[i - 1][s][t], C[s][t])
    BY <1>1, <1>4 DEF IsPathSums
  <2>2. /\ u[i][p][q] = Plus(w, EmptyPath(w, p, q), Total(w, f))
        /\ C[p][q] = Plus(w, EmptyPath(w, p, q), Total(w, g))
    BY <1>2, <2>1, LongerType DEF Onward
  <2>3. /\ N \in Nat /\ DOMAIN m.trs[p] = 1 .. N
        /\ f \in [1 .. N -> K] /\ g \in [1 .. N -> K]
    BY <2>1, CarriedType
  <2>4. Total(w, f) \in K /\ Total(w, g) \in K /\ EmptyPath(w, p, q) \in K
    <3> HIDE DEF f, g, N
    <3> QED  BY <1>2, <2>3, TotalType
  <2>5. ASSUME NEW j \in 1 .. N PROVE Below(w, f[j], g[j])
    <3> DEFINE tr == m.trs[p][j]
    <3>1. CASE Keep(tr)
      <4>1. tr.weight \in K /\ tr.nextstate \in States
        BY <2>3, <3>1 DEF MachineOn
      <4>2. u[i - 1][tr.nextstate][q] \in K /\ C[tr.nextstate][q] \in K
        BY <1>2, <2>1, <4>1 DEF Sums
      <4>3. Below(w, u[i - 1][tr.nextstate][q], C[tr.nextstate][q])
        BY <2>1, <4>1
      <4>4. Below(w, Times(w, tr.weight, u[i - 1][tr.nextstate][q]),
                     Times(w, tr.weight, C[tr.nextstate][q]))
        BY <4>1, <4>2, <4>3, BelowAll
      <4>5. /\ f[j] = Times(w, tr.weight, u[i - 1][tr.nextstate][q])
            /\ g[j] = Times(w, tr.weight, C[tr.nextstate][q])
        <5>1. j \in DOMAIN m.trs[p] /\ j >= 1
          BY <2>3
        <5> QED  BY <3>1, <5>1, CarriedAt
      <4> QED  BY <4>4, <4>5
    <3>2. CASE ~ Keep(tr)
      <4>1. f[j] = Zero(w) /\ g[j] = Zero(w)
        BY <2>3, <3>2 DEF Carried
      <4>2. Zero(w) \in K
        BY DEF SemiringOn
      <4> QED  BY <4>1, <4>2, BelowAll
    <3> QED  BY <3>1, <3>2
  <2>6. Below(w, Total(w, f), Total(w, g))
    <3> HIDE DEF f, g, N
    <3>1. One(w) \in K
      BY DEF SemiringOn
    <3>2. ASSUME NEW j \in 1 .. N PROVE Below(w, Times(w, One(w), f[j]), Total(w, g))
      <4>1. f[j] \in K /\ g[j] \in K
        BY <2>3
      <4>2. Below(w, f[j], g[j]) /\ Below(w, g[j], Total(w, g))
        BY <2>3, <2>5, TotalAbove
      <4>3. Below(w, f[j], Total(w, g))
        BY <2>4, <4>1, <4>2, BelowAll
      <4>4. Times(w, One(w), f[j]) = f[j]
        BY <4>1, MulLaws
      <4> QED  BY <4>3, <4>4
    <3>3. Below(w, Times(w, One(w), Total(w, f)), Total(w, g))
      BY <2>3, <2>4, <3>1, <3>2, TotalBelow
    <3>4. Times(w, One(w), Total(w, f)) = Total(w, f)
      BY <2>4, MulLaws
    <3> QED  BY <3>3, <3>4
  <2> HIDE DEF f, g
  <2>7. /\ Below(w, EmptyPath(w, p, q), C[p][q]) /\ Below(w, Total(w, g), C[p][q])
        /\ C[p][q] \in K
    BY <1>2, <2>2, <2>4, BelowAll
  <2>8. Below(w, Total(w, f), C[p][q])
    BY <2>4, <2>6, <2>7, BelowAll
  <2>9. Below(w, Plus(w, EmptyPath(w, p, q), Total(w, f)), C[p][q])
    BY <2>4, <2>7, <2>8, BelowAll
  <2> QED  BY <2>2, <2>9
<1>5. \A i \in 0 .. PathBound : i \in Good
  <2>1. Good \in SUBSET Nat
    OBVIOUS
  <2> HIDE DEF Good
  <2> QED  BY <1>1, <1>3, <1>4, <2>1, PrefixInduction
<1> QED  BY <1>5 DEF u

\* The weight d[p] that a state has goes on along each of its transitions in two
\* parts: one that its destination has already, and one that every state it leads
\* to has, by t, already.
Carries(w, m, C, K, d, t) ==
    \A p \in States :
      /\ Below(w, d[p], t[p])
      /\ \A i \in DOMAIN m.trs[p] : Keep(m.trs[p][i]) =>
           \E a, b \in K :
             /\ d[p] = Plus(w, a, b)
             /\ Below(w, Times(w, a, m.trs[p][i].weight), d[m.trs[p][i].nextstate])
             /\ \A q \in States :
                  Below(w, Times(w, b, Times(w, m.trs[p][i].weight,
                                             C[m.trs[p][i].nextstate][q])), t[q])

\* Then t has what d[p] is worth along every path.
LEMMA PathsCarried ==
    ASSUME NEW w, NEW K, SemiringOn(w, K), IdempotentOn(w, K), NEW m, MachineOn(K, m),
           NEW C \in Sums(K), Closes(w, m, C), C = PathSums(w, m)[PathBound],
           NEW d \in [States -> K], NEW t \in [States -> K], Carries(w, m, C, K, d, t)
    PROVE  \A p, q \in States : Below(w, Times(w, d[p], C[p][q]), t[q])
<1> DEFINE u == PathSums(w, m)
           Good == {i \in Nat : i \in 0 .. PathBound =>
                      \A p, q \in States : Below(w, Times(w, d[p], u[i][p][q]), t[q])}
<1>1. IsPathSums(w, m, K, PathBound, u) /\ PathBound \in Nat
  BY PathSumsHold, SDAssumption
<1>2. \A i \in 0 .. PathBound : \A p, q \in States : Below(w, u[i][p][q], C[p][q])
  BY PathsBelow
<1> HIDE DEF u
<1>3. ASSUME NEW p \in States, NEW q \in States
      PROVE  Below(w, Times(w, d[p], EmptyPath(w, p, q)), t[q])
  <2>1. d[p] \in K /\ t[q] \in K
    OBVIOUS
  <2>2. CASE p = q
    <3>1. Times(w, d[p], One(w)) = d[p]
      BY <2>1, MulLaws
    <3> QED  BY <2>2, <3>1 DEF Carries, EmptyPath
  <2>3. CASE p # q
    <3>1. Times(w, d[p], Zero(w)) = Zero(w) /\ Below(w, Zero(w), t[q])
      BY <2>1, MulLaws, BelowAll
    <3> QED  BY <2>3, <3>1 DEF EmptyPath
  <2> QED  BY <2>2, <2>3
<1>4. 0 \in Good
  BY <1>1, <1>3 DEF IsPathSums
<1>5. ASSUME NEW i \in 1 .. PathBound, i - 1 \in Good PROVE i \in Good
  <2> SUFFICES ASSUME NEW p \in States, NEW q \in States
               PROVE  Below(w, Times(w, d[p], u[i][p][q]), t[q])
    BY <1>1
  <2> DEFINE f == Carried(w, m, u[i - 1], p, 1, q)
             N == Len(m.trs[p])
  <2>1. /\ u[i - 1] \in Sums(K) /\ u[i] = Longer(w, m, u[i - 1])
        /\ \A s \in States : Below(w, Times(w, d[s], u[i - 1][s][q]), t[q])
        /\ \A s \in States : Below(w, u[i - 1][s][q], C[s][q])
    BY <1>1, <1>2, <1>5 DEF IsPathSums
  <2>2. u[i][p][q] = Plus(w, EmptyPath(w, p, q), Total(w, f)) /\ EmptyPath(w, p, q) \in K
    BY <2>1, LongerType DEF Onward
  <2>3. N \in Nat /\ DOMAIN m.trs[p] = 1 .. N /\ f \in [1 .. N -> K]
    BY <2>1, CarriedType
  <2>4. d[p] \in K /\ t[q] \in K
    OBVIOUS
  <2>5. ASSUME NEW j \in 1 .. N PROVE Below(w, Times(w, d[p], f[j]), t[q])
    <3> DEFINE tr == m.trs[p][j]
               x == tr.weight
               y == u[i - 1][tr.nextstate][q]
               c == C[tr.nextstate][q]
    <3>1. CASE Keep(tr)
      <4>1. x \in K /\ tr.nextstate \in States
        BY <2>3, <3>1 DEF MachineOn
      <4>2. y \in K /\ c \in K /\ d[tr.nextstate] \in K
        BY <2>1, <4>1 DEF Sums
      <4>3. Below(w, y, c) /\ Below(w, Times(w, d[tr.nextstate], y), t[q])
        BY <2>1, <4>1
      <4>4. PICK a \in K, b \in K : /\ d[p] = Plus(w, a, b)
                                    /\ Below(w, Times(w, a, x), d[tr.nextstate])
                                    /\ Below(w, Times(w, b, Times(w, x, c)), t[q])
        BY <2>3, <3>1 DEF Carries
      <4>5. f[j] = Times(w, x, y)
        <5>1. j \in DOMAIN m.trs[p] /\ j >= 1
          BY <2>3
        <5> QED  BY <3>1, <5>1, CarriedAt
      <4> HIDE DEF x, y, c, f
      <4>6. Times(w, x, y) \in K /\ Times(w, x, c) \in K /\ Times(w, a, x) \in K
        BY <4>1, <4>2, MulLaws
      <4>7. Times(w, d[p], f[j]) = Plus(w, Times(w, a, Times(w, x, y)), Times(w, b, Times(w, x, y)))
        BY <4>4, <4>5, <4>6, MulLaws
      <4>8. Below(w, Times(w, a, Times(w, x, y)), t[q])
        <5>1. Times(w, Times(w, a, x), y) = Times(w, a, Times(w, x, y))
          BY <4>1, <4>2, MulLaws
        <5>2. Below(w, Times(w, Times(w, a, x), y), Times(w, d[tr.nextstate], y))
          BY <4>2, <4>4, <4>6, BelowAll
        <5>3. /\ Times(w, Times(w, a, x), y) \in K /\ Times(w, d[tr.nextstate], y) \in K
          BY <4>2, <4>6, MulLaws
        <5> QED  BY <2>4, <4>3, <5>1, <5>2, <5>3, BelowAll
      <4>9. Below(w, Times(w, b, Times(w, x, y)), t[q])
        <5>1. Below(w, Times(w, x, y), Times(w, x, c))
          BY <4>1, <4>2, <4>3, BelowAll
        <5>2. Below(w, Times(w, b, Times(w, x, y)), Times(w, b, Times(w, x, c)))
          BY <4>6, <5>1, BelowAll
        <5>3. Times(w, b, Times(w, x, y)) \in K /\ Times(w, b, Times(w, x, c)) \in K
          BY <4>6, MulLaws
        <5> QED  BY <2>4, <4>4, <5>2, <5>3, BelowAll
      <4>10. Times(w, a, Times(w, x, y)) \in K /\ Times(w, b, Times(w, x, y)) \in K
        BY <4>6, MulLaws
      <4> QED  BY <2>4, <4>7, <4>8, <4>9, <4>10, BelowAll
    <3>2. CASE ~ Keep(tr)
      <4>1. f[j] = Zero(w)
        BY <2>3, <3>2 DEF Carried
      <4>2. Times(w, d[p], Zero(w)) = Zero(w) /\ Below(w, Zero(w), t[q])
        BY <2>4, MulLaws, BelowAll
      <4> QED  BY <4>1, <4>2
    <3> QED  BY <3>1, <3>2
  <2> HIDE DEF f, N
  <2>6. Below(w, Times(w, d[p], Total(w, f)), t[q])
    BY <2>3, <2>4, <2>5, TotalBelow
  <2>7. Below(w, Times(w, d[p], EmptyPath(w, p, q)), t[q])
    BY <1>3
  <2>8. Total(w, f) \in K
    BY <2>3, TotalType
  <2>9. Times(w, d[p], Plus(w, EmptyPath(w, p, q), Total(w, f)))
          = Plus(w, Times(w, d[p], EmptyPath(w, p, q)), Times(w, d[p], Total(w, f)))
    BY <2>2, <2>4, <2>8, MulLaws
  <2>10. Times(w, d[p], EmptyPath(w, p, q)) \in K /\ Times(w, d[p], Total(w, f)) \in K
    BY <2>2, <2>4, <2>8, MulLaws
  <2> QED  BY <2>2, <2>4, <2>6, <2>7, <2>9, <2>10, BelowAll
<1>6. \A i \in 0 .. PathBound : i \in Good
  <2>1. Good \in SUBSET Nat
    OBVIOUS
  <2> HIDE DEF Good
  <2> QED  BY <1>1, <1>4, <1>5, <2>1, PrefixInduction
<1>7. C = u[PathBound]
  BY DEF u
<1> QED  BY <1>1, <1>6, <1>7

-----------------------------------------------------------------------------
(* What the distances d, the weights h that wait at the states and a weight *)
(* x[q] under way add up to.                                                *)

\* Rearranged sums.
LEMMA AddUnder ==
    ASSUME NEW w, NEW K, SemiringOn(w, K), NEW d \in K, NEW x \in K, NEW h \in K, NEW a \in K
    PROVE  Plus(w, d, Plus(w, Plus(w, x, a), h)) = Plus(w, Plus(w, d, Plus(w, x, h)), a)
<1>1. Plus(w, x, h) \in K
  BY AddLaws
<1>2. Plus(w, Plus(w, x, a), h) = Plus(w, Plus(w, x, h), a)
  BY AddSwap
<1>3. Plus(w, d, Plus(w, Plus(w, x, h), a)) = Plus(w, Plus(w, d, Plus(w, x, h)), a)
  BY <1>1, AddLaws
<1> QED  BY <1>2, <1>3

\* Two parts a and b are added at different places.
LEMMA AddCarries ==
    ASSUME NEW w, NEW K, SemiringOn(w, K)
    PROVE  \A d, x, h, a, b \in K :
             Plus(w, d, Plus(w, Plus(w, x, Plus(w, a, b)), h))
             = Plus(w, Plus(w, d, a), Plus(w, x, Plus(w, h, b)))
<1> TAKE d, x, h, a, b \in K
<1>1. /\ Plus(w, x, h) \in K /\ Plus(w, d, Plus(w, x, h)) \in K
      /\ Plus(w, a, b) \in K /\ Plus(w, d, a) \in K
  BY AddLaws
<1>2. Plus(w, d, Plus(w, Plus(w, x, Plus(w, a, b)), h))
        = Plus(w, Plus(w, d, Plus(w, x, h)), Plus(w, a, b))
  BY <1>1, AddUnder
<1>3. Plus(w, x, Plus(w, h, b)) = Plus(w, Plus(w, x, h), b)
  BY AddLaws
<1>4. Plus(w, Plus(w, d, a), Plus(w, Plus(w, x, h), b))
        = Plus(w, Plus(w, Plus(w, d, a), Plus(w, x, h)), b)
  BY <1>1, AddLaws
<1>5. Plus(w, Plus(w, d, a), Plus(w, x, h)) = Plus(w, Plus(w, d, Plus(w, x, h)), a)
  BY <1>1, AddSwap
<1>6. Plus(w, Plus(w, Plus(w, d, Plus(w, x, h)), a), b)
        = Plus(w, Plus(w, d, Plus(w, x, h)), Plus(w, a, b))
  BY <1>1, AddLaws
<1> QED  BY <1>2, <1>3, <1>4, <1>5, <1>6

\* The same when the parts are products with a weight z.
LEMMA MovesOn ==
    ASSUME NEW w, NEW K, SemiringOn(w, K), NEW d \in K, NEW x \in K, NEW h \in K,
           NEW z \in K, NEW e \in K, NEW o \in K
    PROVE  Plus(w, Plus(w, d, Times(w, z, e)), Plus(w, x, Plus(w, h, Times(w, z, o))))
           = Plus(w, d, Plus(w, Plus(w, x, Times(w, z, Plus(w, e, o))), h))
<1>1. Times(w, z, Plus(w, e, o)) = Plus(w, Times(w, z, e), Times(w, z, o))
  BY MulLaws
<1>2. Times(w, z, e) \in K /\ Times(w, z, o) \in K
  BY MulLaws
<1> QED  BY <1>1, <1>2, AddCarries

\* The states are 0 .. N-1; what waits at s is the term s+1 of a sum.
N == Cardinality(States)

\* The terms and the states correspond.
LEMMA NumberOfStates == /\ N \in Nat
                        /\ \A i \in 1 .. N : i - 1 \in States
                        /\ \A s \in States : s + 1 \in 1 .. N /\ (s + 1) - 1 = s
<1>1. N \in Nat /\ States = 0 .. N - 1
  BY SDAssumption, FS_CardinalityType DEF N
<1> QED  BY <1>1

\* The weights that wait, carried on to q.
HeldAt(w, m, C, h, q) == [i \in 1 .. N |-> Times(w, h[i - 1], Onward(w, m, C, i - 1, 1, q))]

\* What q has, what is under way to it, and what waits for it elsewhere.
Sum(w, m, C, d, h, x, q) == Plus(w, d[q], Plus(w, x, Total(w, HeldAt(w, m, C, h, q))))

\* What waits for a state is a weight.
LEMMA HeldType ==
    ASSUME NEW w, NEW K, SemiringOn(w, K), NEW m, MachineOn(K, m), NEW C \in Sums(K),
           NEW h \in [States -> K], NEW q \in States
    PROVE  /\ HeldAt(w, m, C, h, q) \in [1 .. N -> K]
           /\ Total(w, HeldAt(w, m, C, h, q)) \in K
           /\ \A s \in States : /\ HeldAt(w, m, C, h, q)[s + 1]
                                     = Times(w, h[s], Onward(w, m, C, s, 1, q))
                                /\ Onward(w, m, C, s, 1, q) \in K
<1>1. \A s \in States : Onward(w, m, C, s, 1, q) \in K
  BY CarriedType
<1>2. HeldAt(w, m, C, h, q) \in [1 .. N -> K]
  <2> SUFFICES ASSUME NEW i \in 1 .. N
               PROVE  Times(w, h[i - 1], Onward(w, m, C, i - 1, 1, q)) \in K
    BY DEF HeldAt
  <2>1. i - 1 \in States
    BY NumberOfStates
  <2>2. h[i - 1] \in K /\ Onward(w, m, C, i - 1, 1, q) \in K
    BY <1>1, <2>1
  <2> QED  BY <2>2, MulLaws
<1>3. \A s \in States : HeldAt(w, m, C, h, q)[s + 1] = Times(w, h[s], Onward(w, m, C, s, 1, q))
  BY NumberOfStates DEF HeldAt
<1> QED  BY <1>1, <1>2, <1>3, NumberOfStates, TotalType

\* The same weights, but z more at n.
MoreAt(w, f, d, n, z) == f[n] = Plus(w, d[n], z) /\ \A p \in States : p # n => f[p] = d[p]

\* A weight y more waits at s.
LEMMA HeldMore ==
    ASSUME NEW w, NEW K, SemiringOn(w, K), NEW m, MachineOn(K, m), NEW C \in Sums(K),
           NEW h \in [States -> K], NEW g \in [States -> K], NEW s \in States, NEW y \in K,
           MoreAt(w, g, h, s, y), NEW q \in States
    PROVE  Total(w, HeldAt(w, m, C, g, q))
           = Plus(w, Total(w, HeldAt(w, m, C, h, q)), Times(w, y, Onward(w, m, C, s, 1, q)))
<1> DEFINE a == HeldAt(w, m, C, h, q)
           b == HeldAt(w, m, C, g, q)
           o == Onward(w, m, C, s, 1, q)
<1>1. /\ a \in [1 .. N -> K] /\ b \in [1 .. N -> K] /\ o \in K
      /\ \A p \in States : /\ a[p + 1] = Times(w, h[p], Onward(w, m, C, p, 1, q))
                           /\ b[p + 1] = Times(w, g[p], Onward(w, m, C, p, 1, q))
  BY HeldType
<1> HIDE DEF a, b, o
<1>2. b[s + 1] = Plus(w, a[s + 1], Times(w, y, o)) /\ Times(w, y, o) \in K
  <2>1. h[s] \in K
    OBVIOUS
  <2>2. Times(w, Plus(w, h[s], y), o) = Plus(w, Times(w, h[s], o), Times(w, y, o))
    BY <1>1, <2>1, MulLaws
  <2>3. Times(w, y, o) \in K
    BY <1>1, MulLaws
  <2> QED  BY <1>1, <2>2, <2>3 DEF o, MoreAt
<1>3. \A i \in 1 .. N : i # s + 1 => b[i] = a[i]
  <2> SUFFICES ASSUME NEW i \in 1 .. N, i # s + 1 PROVE b[i] = a[i]
    OBVIOUS
  <2>1. i - 1 \in States /\ (i - 1) + 1 = i /\ i - 1 # s
    BY NumberOfStates, StatesAreNaturals
  <2>2. g[i - 1] = h[i - 1]
    BY <2>1 DEF MoreAt
  <2> QED  BY <1>1, <2>1, <2>2
<1>4. s + 1 \in 1 .. N /\ N \in Nat
  BY NumberOfStates
<1>5. Total(w, b) = Plus(w, Total(w, a), Times(w, y, o))
  BY <1>1, <1>2, <1>3, <1>4, TotalChange
<1> QED  BY <1>5 DEF a, b, o

\* Nothing waits anywhere.
LEMMA HeldNothing ==
    ASSUME NEW w, NEW K, SemiringOn(w, K), NEW m, MachineOn(K, m), NEW C \in Sums(K),
           NEW h \in [States -> K], \A s \in States : h[s] = Zero(w), NEW q \in States
    PROVE  Total(w, HeldAt(w, m, C, h, q)) = Zero(w)
<1> DEFINE a == HeldAt(w, m, C, h, q)
<1>1. /\ a \in [1 .. N -> K]
      /\ \A p \in States : /\ a[p + 1] = Times(w, h[p], Onward(w, m, C, p, 1, q))
                           /\ Onward(w, m, C, p, 1, q) \in K
  BY HeldType
<1> HIDE DEF a
<1>2. ASSUME NEW i \in 1 .. N PROVE a[i] = Zero(w)
  <2>1. i - 1 \in States /\ (i - 1) + 1 = i
    BY NumberOfStates
  <2>2. a[i] = Times(w, Zero(w), Onward(w, m, C, i - 1, 1, q))
    BY <1>1, <2>1
  <2> QED  BY <1>1, <2>1, <2>2, MulLaws
<1> QED  BY <1>1, <1>2, NumberOfStates, TotalZero DEF a

\* The start: all the weight is at s.
LEMMA SumStarts ==
    ASSUME NEW w, NEW K, SemiringOn(w, K), NEW m, MachineOn(K, m), NEW C \in Sums(K),
           Closes(w, m, C), NEW s \in States, NEW q \in States,
           NEW d, d = [p \in States |-> IF p = s THEN One(w) ELSE Zero(w)]
    PROVE  Sum(w, m, C, d, d, Zero(w), q) = C[s][q]
<1> DEFINE z == [p \in States |-> Zero(w)]
           o == Onward(w, m, C, s, 1, q)
           H == Total(w, HeldAt(w, m, C, d, q))
<1>1. Zero(w) \in K /\ One(w) \in K
  BY DEF SemiringOn
<1>2. z \in [States -> K] /\ d \in [States -> K] /\ \A p \in States : z[p] = Zero(w)
  BY <1>1
<1>3. MoreAt(w, d, z, s, One(w))
  BY <1>1, AddLaws DEF MoreAt
<1>4. d[q] = EmptyPath(w, s, q) /\ d[q] \in K
  BY <1>2 DEF EmptyPath
<1> HIDE DEF z
<1>5. o \in K
  BY CarriedType
<1>6. H = Plus(w, Total(w, HeldAt(w, m, C, z, q)), Times(w, One(w), o))
  BY <1>1, <1>2, <1>3, HeldMore
<1>7. Total(w, HeldAt(w, m, C, z, q)) = Zero(w)
  BY <1>2, HeldNothing
<1>8. H = o
  <2>1. Times(w, One(w), o) = o /\ Plus(w, Zero(w), o) = o
    BY <1>5, MulLaws, AddLaws
  <2> QED  BY <1>6, <1>7, <2>1
<1>9. Plus(w, Zero(w), H) = o
  <2> HIDE DEF o, H
  <2> QED  BY <1>5, <1>8, AddLaws
<1>10. C[s][q] = Plus(w, EmptyPath(w, s, q), o)
  BY LongerType DEF Closes
<1> QED  BY <1>4, <1>9, <1>10 DEF Sum

\* The weight that waits at s is taken to be carried on.
LEMMA SumTakes ==
    ASSUME NEW w, NEW K, SemiringOn(w, K), NEW m, MachineOn(K, m), NEW C \in Sums(K),
           NEW d \in [States -> K], NEW h \in [States -> K], NEW g \in [States -> K],
           NEW s \in States, g[s] = Zero(w), \A p \in States : p # s => g[p] = h[p],
           NEW q \in States
    PROVE  Sum(w, m, C, d, g, Times(w, h[s], Onward(w, m, C, s, 1, q)), q)
           = Sum(w, m, C, d, h, Zero(w), q)
<1> DEFINE x == Times(w, h[s], Onward(w, m, C, s, 1, q))
           G == Total(w, HeldAt(w, m, C, g, q))
           H == Total(w, HeldAt(w, m, C, h, q))
<1>1. h[s] \in K /\ MoreAt(w, h, g, s, h[s])
  BY AddLaws DEF MoreAt
<1>2. H = Plus(w, G, x)
  BY <1>1, HeldMore
<1>3. x \in K /\ G \in K /\ H \in K
  <2>1. G \in K /\ H \in K
    BY HeldType
  <2>2. Onward(w, m, C, s, 1, q) \in K
    BY CarriedType
  <2> QED  BY <1>1, <2>1, <2>2, MulLaws
<1> HIDE DEF x, G, H
<1>4. Plus(w, x, G) = Plus(w, Zero(w), H)
  BY <1>2, <1>3, AddLaws
<1> QED  BY <1>4 DEF Sum, x, G, H

\* The sum is the same when a weight z under way is split: e arrives, o waits.
LEMMA SumMoves ==
    ASSUME NEW w, NEW K, SemiringOn(w, K), NEW m, NEW C, NEW d, NEW h, NEW f, NEW g, NEW q,
           NEW x \in K, NEW z \in K, NEW e \in K, NEW o \in K,
           d[q] \in K, Total(w, HeldAt(w, m, C, h, q)) \in K,
           f[q] = Plus(w, d[q], Times(w, z, e)),
           Total(w, HeldAt(w, m, C, g, q))
             = Plus(w, Total(w, HeldAt(w, m, C, h, q)), Times(w, z, o))
    PROVE  Sum(w, m, C, f, g, x, q)
           = Sum(w, m, C, d, h, Plus(w, x, Times(w, z, Plus(w, e, o))), q)
<1> DEFINE D == d[q]
           H == Total(w, HeldAt(w, m, C, h, q))
<1>1. Sum(w, m, C, f, g, x, q)
        = Plus(w, Plus(w, D, Times(w, z, e)), Plus(w, x, Plus(w, H, Times(w, z, o))))
  BY DEF Sum
<1>2. Sum(w, m, C, d, h, Plus(w, x, Times(w, z, Plus(w, e, o))), q)
        = Plus(w, D, Plus(w, Plus(w, x, Times(w, z, Plus(w, e, o))), H))
  BY DEF Sum
<1>3. D \in K /\ H \in K
  OBVIOUS
<1> HIDE DEF D, H
<1>4. ASSUME NEW a \in K, NEW b \in K
      PROVE  Plus(w, Plus(w, a, Times(w, z, e)), Plus(w, x, Plus(w, b, Times(w, z, o))))
             = Plus(w, a, Plus(w, Plus(w, x, Times(w, z, Plus(w, e, o))), b))
  BY MovesOn, SMTT(30)
<1> QED  BY <1>1, <1>2, <1>3, <1>4

\* A kept transition of s is followed by the weight y: the first part of what is
\* under way becomes a weight at its end and one that waits there.
LEMMA SumGoesOn ==
    ASSUME NEW w, NEW K, SemiringOn(w, K), NEW m, MachineOn(K, m), NEW C \in Sums(K),
           Closes(w, m, C),
           NEW d \in [States -> K], NEW h \in [States -> K],
           NEW f \in [States -> K], NEW g \in [States -> K],
           NEW s \in States, NEW k \in 1 .. Len(m.trs[s]), Keep(m.trs[s][k]),
           NEW y \in K, NEW q \in States,
           MoreAt(w, f, d, m.trs[s][k].nextstate, Times(w, y, m.trs[s][k].weight)),
           MoreAt(w, g, h, m.trs[s][k].nextstate, Times(w, y, m.trs[s][k].weight))
    PROVE  Sum(w, m, C, f, g, Times(w, y, Onward(w, m, C, s, k + 1, q)), q)
           = Sum(w, m, C, d, h, Times(w, y, Onward(w, m, C, s, k, q)), q)
<1> DEFINE n == m.trs[s][k].nextstate
           z == Times(w, y, m.trs[s][k].weight)
           c == C[n][q]
           x == Times(w, y, Onward(w, m, C, s, k + 1, q))
           G == Total(w, HeldAt(w, m, C, g, q))
           H == Total(w, HeldAt(w, m, C, h, q))
           o == Onward(w, m, C, n, 1, q)
           e == EmptyPath(w, n, q)
           v == m.trs[s][k].weight
<1>1. /\ n \in States /\ v \in K /\ z \in K /\ k \in Nat
  <2>1. DOMAIN m.trs[s] = 1 .. Len(m.trs[s]) /\ Len(m.trs[s]) \in Nat
    BY CarriedType
  <2>2. n \in States /\ v \in K /\ k \in Nat
    BY <2>1 DEF MachineOn
  <2> QED  BY <2>2, MulLaws
<1>2. /\ G \in K /\ H \in K /\ o \in K /\ e \in K /\ c \in K /\ x \in K
      /\ c = Plus(w, e, o) /\ d[q] \in K /\ Onward(w, m, C, s, k + 1, q) \in K
  <2>1. G \in K /\ H \in K
    BY HeldType
  <2>2. o \in K /\ Onward(w, m, C, s, k + 1, q) \in K
    BY <1>1, CarriedType
  <2>3. e \in K /\ c = Plus(w, e, o)
    BY <1>1, LongerType DEF Closes
  <2>4. c \in K /\ x \in K
    BY <1>1, <2>2, MulLaws DEF Sums
  <2> QED  BY <2>1, <2>2, <2>3, <2>4
<1>3. G = Plus(w, H, Times(w, z, o))
  BY <1>1, HeldMore
<1>4. f[q] = Plus(w, d[q], Times(w, z, e))
  <2>1. CASE q = n
    BY <1>1, <2>1, MulLaws DEF EmptyPath, MoreAt
  <2>2. CASE q # n
    <3>1. Times(w, z, Zero(w)) = Zero(w)
      BY <1>1, MulLaws
    <3>2. \A a \in K : Plus(w, a, Zero(w)) = a
      BY AddLaws
    <3> QED  BY <1>2, <2>2, <3>1, <3>2 DEF EmptyPath, MoreAt
  <2> QED  BY <2>1, <2>2
<1>5. Times(w, y, Onward(w, m, C, s, k, q)) = Plus(w, x, Times(w, z, c))
  <2>1. Onward(w, m, C, s, k, q) = Plus(w, Onward(w, m, C, s, k + 1, q), Times(w, v, c))
    BY OnwardNext
  <2>2. Times(w, v, c) \in K /\ Times(w, z, c) = Times(w, y, Times(w, v, c))
    <3> HIDE DEF c, v
    <3>1. Times(w, v, c) \in K
      BY <1>1, <1>2, MulLaws
    <3>2. Times(w, Times(w, y, v), c) = Times(w, y, Times(w, v, c))
      BY <1>1, <1>2, MulLaws
    <3> QED  BY <3>1, <3>2 DEF v
  <2> HIDE DEF c, v
  <2>3. Times(w, y, Plus(w, Onward(w, m, C, s, k + 1, q), Times(w, v, c)))
          = Plus(w, x, Times(w, y, Times(w, v, c)))
    BY <1>2, <2>2, MulLaws DEF x
  <2> QED  BY <2>1, <2>2, <2>3
<1> HIDE DEF c, x, o, e
<1>6. /\ x \in K /\ z \in K /\ e \in K /\ o \in K
      /\ d[q] \in K /\ Total(w, HeldAt(w, m, C, h, q)) \in K
  BY <1>1, <1>2
<1>7. Sum(w, m, C, f, g, x, q) = Sum(w, m, C, d, h, Plus(w, x, Times(w, z, Plus(w, e, o))), q)
  BY <1>3, <1>4, <1>6, SumMoves
<1>8. Plus(w, x, Times(w, z, Plus(w, e, o))) = Times(w, y, Onward(w, m, C, s, k, q))
  BY <1>2, <1>5
<1> QED  BY <1>7, <1>8 DEF x

\* The same, of any maps: the sums of the machine m, and its k-th transition of s.
Closed(w, K, m, C) == SemiringOn(w, K) /\ MachineOn(K, m) /\ C \in Sums(K) /\ Closes(w, m, C)
Keeps(m, s, k)     == s \in States /\ k \in 1 .. Len(m.trs[s]) /\ Keep(m.trs[s][k])

\* SumGoesOn for any maps.
LEMMA SumCarriesOn ==
    ASSUME NEW w, NEW K, NEW m, NEW C, Closed(w, K, m, C), NEW s, NEW k, Keeps(m, s, k),
           NEW y \in K
    PROVE  \A d, h, f, g \in [States -> K] :
             /\ MoreAt(w, f, d, m.trs[s][k].nextstate, Times(w, y, m.trs[s][k].weight))
             /\ MoreAt(w, g, h, m.trs[s][k].nextstate, Times(w, y, m.trs[s][k].weight))
             => \A q \in States :
                  Sum(w, m, C, f, g, Times(w, y, Onward(w, m, C, s, k + 1, q)), q)
                  = Sum(w, m, C, d, h, Times(w, y, Onward(w, m, C, s, k, q)), q)
<1>1. /\ SemiringOn(w, K) /\ MachineOn(K, m) /\ C \in Sums(K) /\ Closes(w, m, C)
      /\ s \in States /\ k \in 1 .. Len(m.trs[s]) /\ Keep(m.trs[s][k])
  BY DEF Closed, Keeps
<1>2. ASSUME NEW d \in [States -> K], NEW h \in [States -> K],
             NEW f \in [States -> K], NEW g \in [States -> K],
             MoreAt(w, f, d, m.trs[s][k].nextstate, Times(w, y, m.trs[s][k].weight)),
             MoreAt(w, g, h, m.trs[s][k].nextstate, Times(w, y, m.trs[s][k].weight)),
             NEW q \in States
      PROVE  Sum(w, m, C, f, g, Times(w, y, Onward(w, m, C, s, k + 1, q)), q)
             = Sum(w, m, C, d, h, Times(w, y, Onward(w, m, C, s, k, q)), q)
  BY <1>1, <1>2, SumGoesOn, SMTT(30)
<1> QED  BY <1>2

-----------------------------------------------------------------------------
(* Idempotent weights: what a transition does not change is there already. *)

\* A distance is a part that has been handed on along every transition, the
\* weight that waits and the weight under way, handed on before the k-th one.
Spread(w, m, K, d, h, y, k) ==
    \A p \in States : \E e \in K :
      /\ d[p] = Plus(w, Plus(w, e, h[p]), y[p])
      /\ \A i \in DOMAIN m.trs[p] : Keep(m.trs[p][i]) =>
           /\ Below(w, Times(w, e, m.trs[p][i].weight), d[m.trs[p][i].nextstate])
           /\ i < k => Below(w, Times(w, y[p], m.trs[p][i].weight),
                                d[m.trs[p][i].nextstate])

\* x has what y is worth from the k-th transition on.
UnderWay(w, m, C, y, k, x) ==
    \A p, q \in States : \A i \in DOMAIN m.trs[p] :
      Keep(m.trs[p][i]) /\ i >= k =>
        Below(w, Times(w, y[p], Times(w, m.trs[p][i].weight, C[m.trs[p][i].nextstate][q])),
                 x[q])

\* The weight y is under way from s, and nothing from elsewhere.
AllAt(w, s, y) == [p \in States |-> IF p = s THEN y ELSE Zero(w)]

\* What one transition carries on is in what all of them do.
LEMMA OnwardAbove ==
    ASSUME NEW w, NEW K, SemiringOn(w, K), IdempotentOn(w, K), NEW m, MachineOn(K, m),
           NEW C \in Sums(K), NEW s \in States, NEW k \in Nat, NEW q \in States,
           NEW i \in DOMAIN m.trs[s], Keep(m.trs[s][i]), i >= k
    PROVE  /\ Times(w, m.trs[s][i].weight, C[m.trs[s][i].nextstate][q]) \in K
           /\ Below(w, Times(w, m.trs[s][i].weight, C[m.trs[s][i].nextstate][q]),
                       Onward(w, m, C, s, k, q))
<1> DEFINE f == Carried(w, m, C, s, k, q)
           x == Times(w, m.trs[s][i].weight, C[m.trs[s][i].nextstate][q])
<1>1. /\ Len(m.trs[s]) \in Nat /\ i \in 1 .. Len(m.trs[s])
      /\ f \in [1 .. Len(m.trs[s]) -> K]
  BY CarriedType
<1>2. f[i] = x
  BY DEF Carried
<1> HIDE DEF f, x
<1>3. x \in K /\ Below(w, x, Total(w, f))
  BY <1>1, <1>2, TotalAbove
<1> QED  BY <1>3 DEF x, f, Onward

\* What is under way from s is worth what its next transitions carry on.
LEMMA AllUnderWay ==
    ASSUME NEW w, NEW K, SemiringOn(w, K), IdempotentOn(w, K), NEW m, MachineOn(K, m),
           NEW C \in Sums(K), NEW s \in States, NEW k \in Nat, NEW y \in K
    PROVE  LET x == [q \in States |-> Times(w, y, Onward(w, m, C, s, k, q))] IN
           /\ AllAt(w, s, y) \in [States -> K] /\ x \in [States -> K]
           /\ UnderWay(w, m, C, AllAt(w, s, y), k, x)
<1> DEFINE x == [q \in States |-> Times(w, y, Onward(w, m, C, s, k, q))]
<1>1. Zero(w) \in K
  BY DEF SemiringOn
<1>2. \A q \in States : Onward(w, m, C, s, k, q) \in K
  BY CarriedType
<1>3. \A q \in States : x[q] = Times(w, y, Onward(w, m, C, s, k, q)) /\ x[q] \in K
  BY <1>2, MulLaws
<1>4. AllAt(w, s, y) \in [States -> K] /\ x \in [States -> K]
  BY <1>1, <1>3 DEF AllAt
<1> HIDE DEF x
<1>5. ASSUME NEW p \in States, NEW q \in States, NEW i \in DOMAIN m.trs[p],
             Keep(m.trs[p][i]), i >= k
      PROVE  Below(w, Times(w, AllAt(w, s, y)[p],
                            Times(w, m.trs[p][i].weight, C[m.trs[p][i].nextstate][q])), x[q])
  <2> DEFINE z == Times(w, m.trs[p][i].weight, C[m.trs[p][i].nextstate][q])
             o == Onward(w, m, C, p, k, q)
  <2>1. z \in K /\ Below(w, z, o)
    BY <1>5, OnwardAbove
  <2>2. o \in K
    BY CarriedType
  <2>3. CASE p = s
    <3>1. AllAt(w, s, y)[p] = y /\ x[q] = Times(w, y, o)
      BY <1>3, <2>3 DEF AllAt
    <3> HIDE DEF z, o
    <3>2. Below(w, Times(w, y, z), Times(w, y, o))
      BY <2>1, <2>2, BelowAll
    <3> QED  BY <3>1, <3>2 DEF z
  <2>4. CASE p # s
    <3>1. AllAt(w, s, y)[p] = Zero(w)
      BY <2>4 DEF AllAt
    <3> HIDE DEF z, o
    <3>2. Times(w, Zero(w), z) = Zero(w)
      BY <2>1, MulLaws
    <3>3. Below(w, Zero(w), x[q])
      BY <1>3, BelowAll
    <3> QED  BY <3>1, <3>2, <3>3 DEF z
  <2> QED  BY <2>3, <2>4
<1>6. UnderWay(w, m, C, AllAt(w, s, y), k, x)
  BY <1>5 DEF UnderWay
<1> QED  BY <1>4, <1>6 DEF x

\* The sum at a state is a weight.
LEMMA SumType ==
    ASSUME NEW w, NEW K, SemiringOn(w, K), NEW m, MachineOn(K, m), NEW C \in Sums(K),
           NEW d \in [States -> K], NEW h \in [States -> K], NEW x \in K, NEW q \in States
    PROVE  Sum(w, m, C, d, h, x, q) \in K
<1>1. Total(w, HeldAt(w, m, C, h, q)) \in K
  BY HeldType
<1>2. Plus(w, x, Total(w, HeldAt(w, m, C, h, q))) \in K /\ d[q] \in K
  BY <1>1, AddLaws
<1> QED  BY <1>2, AddLaws DEF Sum

\* The summands are below the sum.
LEMMA SumAbove ==
    ASSUME NEW w, NEW K, SemiringOn(w, K), IdempotentOn(w, K), NEW m, MachineOn(K, m),
           NEW C \in Sums(K), NEW d \in [States -> K], NEW h \in [States -> K],
           NEW x \in K, NEW q \in States
    PROVE  /\ Below(w, d[q], Sum(w, m, C, d, h, x, q))
           /\ Below(w, x, Sum(w, m, C, d, h, x, q))
           /\ \A s \in States : Below(w, Times(w, h[s], Onward(w, m, C, s, 1, q)),
                                         Sum(w, m, C, d, h, x, q))
<1> DEFINE H == Total(w, HeldAt(w, m, C, h, q))
           t == Sum(w, m, C, d, h, x, q)
           rest == Plus(w, x, H)
           D == d[q]
<1>1. H \in K /\ HeldAt(w, m, C, h, q) \in [1 .. N -> K]
  BY HeldType
<1>2. t = Plus(w, D, rest) /\ D \in K
  BY DEF Sum
<1>3. t \in K
  BY SumType
<1> HIDE DEF t, D
<1>4. rest \in K /\ Below(w, x, rest) /\ Below(w, H, rest)
  <2> HIDE DEF H
  <2> QED  BY <1>1, AddLaws, BelowAll
<1> HIDE DEF rest
<1>5. Below(w, D, t) /\ Below(w, rest, t)
  BY <1>2, <1>4, BelowAll
<1>6. Below(w, x, t)
  BY <1>3, <1>4, <1>5, BelowAll
<1>7. ASSUME NEW s \in States PROVE Below(w, Times(w, h[s], Onward(w, m, C, s, 1, q)), t)
  <2> DEFINE a == HeldAt(w, m, C, h, q)[s + 1]
  <2>1. a = Times(w, h[s], Onward(w, m, C, s, 1, q))
    BY HeldType
  <2>2. s + 1 \in 1 .. N /\ N \in Nat
    BY NumberOfStates
  <2>3. a \in K /\ Below(w, a, H)
    <3> DEFINE all == HeldAt(w, m, C, h, q)
    <3> HIDE DEF all
    <3>1. all \in [1 .. N -> K]
      BY <1>1 DEF all
    <3>2. all[s + 1] \in K /\ Below(w, all[s + 1], Total(w, all))
      BY <2>2, <3>1, TotalAbove
    <3> QED  BY <3>2 DEF all
  <2> HIDE DEF a, H
  <2>4. Below(w, a, rest)
    BY <1>1, <1>4, <2>3, BelowAll
  <2>5. Below(w, a, t)
    BY <1>3, <1>4, <1>5, <2>3, <2>4, BelowAll
  <2> QED  BY <2>1, <2>5
<1> QED  BY <1>5, <1>6, <1>7 DEF D, t

\* If every distance is spread out, the sums carry all that it is worth.
LEMMA SpreadCarries ==
    ASSUME NEW w, NEW K, SemiringOn(w, K), IdempotentOn(w, K), NEW m, MachineOn(K, m),
           NEW C \in Sums(K), NEW d \in [States -> K], NEW h \in [States -> K],
           NEW y \in [States -> K], NEW k \in Nat, NEW x \in [States -> K],
           Spread(w, m, K, d, h, y, k), UnderWay(w, m, C, y, k, x)
    PROVE  Carries(w, m, C, K, d, [q \in States |-> Sum(w, m, C, d, h, x[q], q)])
<1> DEFINE t == [q \in States |-> Sum(w, m, C, d, h, x[q], q)]
<1>1. ASSUME NEW q \in States
      PROVE  /\ t[q] \in K /\ Below(w, d[q], t[q]) /\ Below(w, x[q], t[q])
             /\ \A s \in States : Below(w, Times(w, h[s], Onward(w, m, C, s, 1, q)), t[q])
  <2>1. x[q] \in K
    OBVIOUS
  <2> QED  BY <2>1, SumType, SumAbove
<1> HIDE DEF t
<1>2. ASSUME NEW p \in States, NEW i \in DOMAIN m.trs[p], Keep(m.trs[p][i])
      PROVE  \E a, b \in K :
               /\ d[p] = Plus(w, a, b)
               /\ Below(w, Times(w, a, m.trs[p][i].weight), d[m.trs[p][i].nextstate])
               /\ \A q \in States :
                    Below(w, Times(w, b, Times(w, m.trs[p][i].weight,
                                               C[m.trs[p][i].nextstate][q])), t[q])
  <2> DEFINE v == m.trs[p][i].weight
             n == m.trs[p][i].nextstate
  <2>1. v \in K /\ n \in States /\ DOMAIN m.trs[p] = 1 .. Len(m.trs[p])
    BY <1>2, CarriedType DEF MachineOn
  <2>2. i >= 1 /\ i \in Nat
    BY <2>1
  <2>3. PICK e \in K : /\ d[p] = Plus(w, Plus(w, e, h[p]), y[p])
                       /\ Below(w, Times(w, e, v), d[n])
                       /\ i < k => Below(w, Times(w, y[p], v), d[n])
    BY <1>2 DEF Spread
  <2>4. ASSUME NEW q \in States
        PROVE  /\ Times(w, v, C[n][q]) \in K
               /\ Below(w, Times(w, h[p], Times(w, v, C[n][q])), t[q])
               /\ i >= k => Below(w, Times(w, y[p], Times(w, v, C[n][q])), t[q])
    <3> DEFINE z == Times(w, v, C[n][q])
               o == Onward(w, m, C, p, 1, q)
    <3>1. z \in K /\ Below(w, z, o)
      BY <1>2, <2>2, OnwardAbove
    <3>2. o \in K
      BY CarriedType
    <3>3. /\ h[p] \in K /\ y[p] \in K /\ x[q] \in K /\ t[q] \in K
          /\ Below(w, Times(w, h[p], o), t[q]) /\ Below(w, x[q], t[q])
      BY <1>1
    <3>4. i >= k => Below(w, Times(w, y[p], z), x[q])
      BY <1>2 DEF UnderWay
    <3> HIDE DEF z, o
    <3>5. /\ Times(w, h[p], z) \in K /\ Times(w, h[p], o) \in K /\ Times(w, y[p], z) \in K
      BY <3>1, <3>2, <3>3, MulLaws
    <3>6. Below(w, Times(w, h[p], z), Times(w, h[p], o))
      BY <3>1, <3>2, <3>3, BelowAll
    <3>7. Below(w, Times(w, h[p], z), t[q])
      BY <3>3, <3>5, <3>6, BelowAll
    <3>8. ASSUME i >= k PROVE Below(w, Times(w, y[p], z), t[q])
      <4>1. Below(w, Times(w, y[p], z), x[q])
        BY <3>4, <3>8
      <4> QED  BY <3>3, <3>5, <4>1, BelowAll
    <3> QED  BY <3>1, <3>7, <3>8 DEF z
  <2>5. h[p] \in K /\ y[p] \in K /\ d[n] \in K
    BY <2>1
  <2> HIDE DEF v, n
  <2>6. CASE i < k
    <3> DEFINE a == Plus(w, e, y[p])
    <3>1. a \in K /\ d[p] = Plus(w, a, h[p])
      BY <2>3, <2>5, AddLaws, AddSwap
    <3>2. Times(w, a, v) = Plus(w, Times(w, e, v), Times(w, y[p], v))
      BY <2>1, <2>3, <2>5, MulLaws
    <3>3. Times(w, e, v) \in K /\ Times(w, y[p], v) \in K
      BY <2>1, <2>3, <2>5, MulLaws
    <3>4. Below(w, Times(w, a, v), d[n])
      BY <2>3, <2>5, <2>6, <3>2, <3>3, BelowAll
    <3> HIDE DEF a
    <3> QED  BY <2>4, <2>5, <3>1, <3>4 DEF v, n
  <2>7. CASE ~ i < k
    <3> DEFINE b == Plus(w, h[p], y[p])
    <3>1. b \in K /\ d[p] = Plus(w, e, b)
      BY <2>3, <2>5, AddLaws
    <3>2. i >= k
      BY <2>2, <2>7
    <3>3. ASSUME NEW q \in States PROVE Below(w, Times(w, b, Times(w, v, C[n][q])), t[q])
      <4> DEFINE z == Times(w, v, C[n][q])
      <4>1. /\ z \in K /\ t[q] \in K
            /\ Below(w, Times(w, h[p], z), t[q]) /\ Below(w, Times(w, y[p], z), t[q])
        BY <1>1, <2>4, <3>2
      <4> HIDE DEF z
      <4>2. Times(w, b, z) = Plus(w, Times(w, h[p], z), Times(w, y[p], z))
        BY <2>5, <4>1, MulLaws
      <4>3. Times(w, h[p], z) \in K /\ Times(w, y[p], z) \in K
        BY <2>5, <4>1, MulLaws
      <4>4. Below(w, Times(w, b, z), t[q])
        BY <4>1, <4>2, <4>3, BelowAll
      <4> QED  BY <4>4 DEF z
    <3> HIDE DEF b
    <3> QED  BY <2>3, <3>1, <3>3 DEF v, n
  <2> QED  BY <2>6, <2>7
<1> QED  BY <1>1, <1>2 DEF Carries, t

\* A transition that changes nothing loses nothing.
LEMMA SumKeeps ==
    ASSUME NEW w, NEW K, SemiringOn(w, K), NEW m, MachineOn(K, m), NEW C \in Sums(K),
           Closes(w, m, C), C = PathSums(w, m)[PathBound],
           NEW d \in [States -> K], NEW h \in [States -> K],
           NEW s \in States, NEW k \in 1 .. Len(m.trs[s]), Keep(m.trs[s][k]),
           NEW n, n = m.trs[s][k].nextstate, NEW y \in K,
           NEW z, z = Times(w, y, m.trs[s][k].weight),
           Plus(w, d[n], z) = d[n],
           \/ z = Zero(w)
           \/ IdempotentOn(w, K) /\ Spread(w, m, K, d, h, AllAt(w, s, y), k + 1),
           NEW q \in States
    PROVE  Sum(w, m, C, d, h, Times(w, y, Onward(w, m, C, s, k + 1, q)), q)
           = Sum(w, m, C, d, h, Times(w, y, Onward(w, m, C, s, k, q)), q)
<1> DEFINE c == C[n][q]
           o == Onward(w, m, C, s, k + 1, q)
           x == Times(w, y, o)
           v == m.trs[s][k].weight
           H == Total(w, HeldAt(w, m, C, h, q))
           D == d[q]
           t == Sum(w, m, C, d, h, x, q)
<1>1. n \in States /\ v \in K /\ k \in Nat
  <2>1. DOMAIN m.trs[s] = 1 .. Len(m.trs[s]) /\ Len(m.trs[s]) \in Nat
    BY CarriedType
  <2> QED  BY <2>1 DEF MachineOn
<1>2. z \in K /\ c \in K /\ o \in K /\ H \in K /\ D \in K /\ d[n] \in K
  <2>1. o \in K
    BY <1>1, CarriedType
  <2>2. H \in K
    BY HeldType
  <2>3. z \in K
    BY <1>1, MulLaws
  <2> QED  BY <1>1, <2>1, <2>2, <2>3 DEF Sums
<1>3. x \in K
  <2> HIDE DEF o
  <2> QED  BY <1>2, MulLaws
<1>4. t \in K /\ t = Plus(w, D, Plus(w, x, H))
  BY <1>3, SumType DEF Sum
<1>5. Times(w, y, Onward(w, m, C, s, k, q)) = Plus(w, x, Times(w, z, c))
  <2>1. Onward(w, m, C, s, k, q) = Plus(w, o, Times(w, v, c))
    BY OnwardNext, SMTT(20)
  <2> HIDE DEF c, v, o
  <2>2. Times(w, v, c) \in K
    BY <1>1, <1>2, MulLaws
  <2>3. Times(w, z, c) = Times(w, y, Times(w, v, c))
    <3>1. Times(w, Times(w, y, v), c) = Times(w, y, Times(w, v, c))
      BY <1>1, <1>2, MulLaws
    <3> QED  BY <3>1 DEF v
  <2>4. Times(w, y, Plus(w, o, Times(w, v, c))) = Plus(w, x, Times(w, y, Times(w, v, c)))
    <3>1. \A a, b \in K : Times(w, y, Plus(w, a, b)) = Plus(w, Times(w, y, a), Times(w, y, b))
      BY MulLaws
    <3> QED  BY <1>2, <2>2, <3>1
  <2> QED  BY <2>1, <2>3, <2>4
<1>6. Below(w, Times(w, z, c), t)
  <2>1. CASE z = Zero(w)
    <3> HIDE DEF c, t
    <3>1. Times(w, z, c) = Zero(w)
      BY <1>2, <2>1, MulLaws
    <3>2. \A a \in K : Plus(w, Zero(w), a) = a
      BY AddLaws
    <3> QED  BY <1>4, <3>1, <3>2 DEF Below
  <2>2. CASE IdempotentOn(w, K) /\ Spread(w, m, K, d, h, AllAt(w, s, y), k + 1)
    <3> DEFINE X == [p \in States |-> Times(w, y, Onward(w, m, C, s, k + 1, p))]
               T == [p \in States |-> Sum(w, m, C, d, h, X[p], p)]
    <3>1. k + 1 \in Nat
      BY <1>1
    <3>2. /\ AllAt(w, s, y) \in [States -> K] /\ X \in [States -> K]
          /\ UnderWay(w, m, C, AllAt(w, s, y), k + 1, X)
      BY <2>2, <3>1, AllUnderWay
    <3>3. X[q] = x /\ T[q] = t
      OBVIOUS
    <3> HIDE DEF X
    <3>4. Carries(w, m, C, K, d, T)
      BY <2>2, <3>1, <3>2, SpreadCarries
    <3>5. T \in [States -> K]
      <4>1. \A p \in States : X[p] \in K
        BY <3>2
      <4> QED  BY <4>1, SumType
    <3> HIDE DEF T
    <3>6. \A p, l \in States : Below(w, Times(w, d[p], C[p][l]), T[l])
      BY <2>2, <3>4, <3>5, PathsCarried
    <3>7. Below(w, Times(w, d[n], c), t)
      BY <1>1, <3>3, <3>6
    <3>8. Below(w, Times(w, z, c), Times(w, d[n], c))
      <4>1. Below(w, z, d[n])
        <5>1. Plus(w, z, d[n]) = Plus(w, d[n], z)
          BY <1>2, AddLaws
        <5> QED  BY <5>1 DEF Below
      <4> HIDE DEF c
      <4>2. z \in K /\ d[n] \in K /\ c \in K /\ IdempotentOn(w, K)
        BY <1>2, <2>2
      <4>3. ASSUME NEW a \in K, NEW b \in K, Below(w, a, b)
            PROVE  Below(w, Times(w, a, c), Times(w, b, c))
        BY <4>2, <4>3, BelowAll
      <4> QED  BY <4>1, <4>2, <4>3
    <3> HIDE DEF c, t
    <3>9. Times(w, z, c) \in K /\ Times(w, d[n], c) \in K
      BY <1>2, MulLaws
    <3> QED  BY <1>4, <2>2, <3>7, <3>8, <3>9, BelowPasses
  <2> QED  BY <2>1, <2>2
<1> HIDE DEF c, x, H, D, t
<1>7. Times(w, z, c) \in K
  BY <1>2, MulLaws
<1>8. Plus(w, D, Plus(w, Plus(w, x, Times(w, z, c)), H)) = Plus(w, t, Times(w, z, c))
  BY <1>2, <1>3, <1>4, <1>7, AddUnder
<1>9. Plus(w, t, Times(w, z, c)) = Plus(w, Times(w, z, c), t)
  BY <1>4, <1>7, AddLaws
<1>10. Plus(w, D, Plus(w, Plus(w, x, Times(w, z, c)), H)) = t
  BY <1>6, <1>8, <1>9 DEF Below
<1>11. Sum(w, m, C, d, h, Plus(w, x, Times(w, z, c)), q)
         = Plus(w, D, Plus(w, Plus(w, x, Times(w, z, c)), H))
  BY DEF Sum, D, H
<1> QED  BY <1>5, <1>10, <1>11 DEF t, x


\* No weight is under way.
Nothing(w) == [p \in States |-> Zero(w)]

\* When a pass starts all waits at the source.
LEMMA SpreadStarts ==
    ASSUME NEW w, NEW K, SemiringOn(w, K), NEW m, MachineOn(K, m), NEW s \in States, NEW k,
           NEW d, d = AllAt(w, s, One(w))
    PROVE  Spread(w, m, K, d, d, Nothing(w), k)
<1>1. Zero(w) \in K /\ One(w) \in K
  BY DEF SemiringOn
<1>2. \A p \in States : d[p] \in K /\ Nothing(w)[p] = Zero(w)
  BY <1>1 DEF AllAt, Nothing
<1>3. \A x \in K : /\ Times(w, Zero(w), x) = Zero(w) /\ Below(w, Zero(w), x)
                   /\ x = Plus(w, Plus(w, Zero(w), x), Zero(w))
  BY <1>1, AddLaws, MulLaws DEF Below
<1> SUFFICES ASSUME NEW p \in States
             PROVE  /\ d[p] = Plus(w, Plus(w, Zero(w), d[p]), Nothing(w)[p])
                    /\ \A i \in DOMAIN m.trs[p] : Keep(m.trs[p][i]) =>
                         /\ Below(w, Times(w, Zero(w), m.trs[p][i].weight), d[m.trs[p][i].nextstate])
                         /\ Below(w, Times(w, Nothing(w)[p], m.trs[p][i].weight),
                                     d[m.trs[p][i].nextstate])
  BY <1>1 DEF Spread
<1> HIDE DEF Nothing
<1>4. d[p] = Plus(w, Plus(w, Zero(w), d[p]), Nothing(w)[p])
  BY <1>2, <1>3
<1>5. ASSUME NEW i \in DOMAIN m.trs[p], Keep(m.trs[p][i])
      PROVE  /\ Below(w, Times(w, Zero(w), m.trs[p][i].weight), d[m.trs[p][i].nextstate])
             /\ Below(w, Times(w, Nothing(w)[p], m.trs[p][i].weight), d[m.trs[p][i].nextstate])
  <2>1. m.trs[p][i].weight \in K /\ m.trs[p][i].nextstate \in States
    BY <1>5 DEF MachineOn
  <2>2. Times(w, Zero(w), m.trs[p][i].weight) = Zero(w)
    BY <1>3, <2>1
  <2>3. d[m.trs[p][i].nextstate] \in K
    BY <1>2, <2>1
  <2> QED  BY <1>2, <1>3, <2>2, <2>3
<1> QED  BY <1>4, <1>5

\* The weight that waits at s is the one under way.
LEMMA SpreadTakes ==
    ASSUME NEW w, NEW K, SemiringOn(w, K), NEW m, MachineOn(K, m),
           NEW d \in [States -> K], NEW h \in [States -> K], NEW g \in [States -> K],
           NEW s \in States, g[s] = Zero(w), \A p \in States : p # s => g[p] = h[p],
           NEW k, NEW j, Spread(w, m, K, d, h, Nothing(w), j), k = 1
    PROVE  Spread(w, m, K, d, g, AllAt(w, s, h[s]), k)
<1> SUFFICES ASSUME NEW p \in States
             PROVE  \E e \in K :
                      /\ d[p] = Plus(w, Plus(w, e, g[p]), AllAt(w, s, h[s])[p])
                      /\ \A i \in DOMAIN m.trs[p] : Keep(m.trs[p][i]) =>
                           /\ Below(w, Times(w, e, m.trs[p][i].weight), d[m.trs[p][i].nextstate])
                           /\ i < k => Below(w, Times(w, AllAt(w, s, h[s])[p], m.trs[p][i].weight),
                                                d[m.trs[p][i].nextstate])
  BY DEF Spread
<1>1. PICK e \in K :
        /\ d[p] = Plus(w, Plus(w, e, h[p]), Nothing(w)[p])
        /\ \A i \in DOMAIN m.trs[p] : Keep(m.trs[p][i]) =>
             Below(w, Times(w, e, m.trs[p][i].weight), d[m.trs[p][i].nextstate])
  BY DEF Spread
<1>2. Nothing(w)[p] = Zero(w) /\ AllAt(w, s, h[s])[p] = IF p = s THEN h[s] ELSE Zero(w)
  BY DEF Nothing, AllAt
<1>3. d[p] = Plus(w, Plus(w, e, g[p]), AllAt(w, s, h[s])[p])
  <2>1. h[p] \in K /\ Zero(w) \in K
    BY DEF SemiringOn
  <2>2. CASE p = s
    <3>1. Plus(w, Plus(w, e, h[p]), Zero(w)) = Plus(w, Plus(w, e, Zero(w)), h[p])
      BY <2>1, AddSwap
    <3> QED  BY <1>1, <1>2, <2>2, <3>1
  <2>3. CASE p # s
    BY <1>1, <1>2, <2>3
  <2> QED  BY <2>2, <2>3
<1>4. \A i \in DOMAIN m.trs[p] : ~ (i < k)
  <2>1. m.trs[p] \in Seq(Range(m.trs[p]))
    BY DEF MachineOn
  <2> QED  BY <2>1
<1> QED  BY <1>1, <1>3, <1>4

\* The k-th transition of s is examined: d may have grown.
LEMMA SpreadGoesOn ==
    ASSUME NEW w, NEW K, SemiringOn(w, K), IdempotentOn(w, K), NEW m, MachineOn(K, m),
           NEW d \in [States -> K], NEW h \in [States -> K],
           NEW f \in [States -> K], NEW g \in [States -> K],
           \A p \in States : \E z \in K : f[p] = Plus(w, d[p], z) /\ g[p] = Plus(w, h[p], z),
           NEW s \in States, NEW k \in 1 .. Len(m.trs[s]), NEW y \in K,
           Spread(w, m, K, d, h, AllAt(w, s, y), k),
           Keep(m.trs[s][k]) =>
             Below(w, Times(w, y, m.trs[s][k].weight), f[m.trs[s][k].nextstate])
    PROVE  Spread(w, m, K, f, g, AllAt(w, s, y), k + 1)
<1> DEFINE a == AllAt(w, s, y)
<1>1. \A p \in States : a[p] = (IF p = s THEN y ELSE Zero(w)) /\ a[p] \in K
  BY DEF AllAt, SemiringOn
<1>2. ASSUME NEW p \in States PROVE Below(w, d[p], f[p])
  <2>1. PICK z \in K : f[p] = Plus(w, d[p], z)
    OBVIOUS
  <2> QED  BY <2>1, BelowAll
<1>3. ASSUME NEW p \in States, NEW x \in K, Below(w, x, d[p]) PROVE Below(w, x, f[p])
  BY <1>2, <1>3, BelowAll
<1> SUFFICES ASSUME NEW p \in States
             PROVE  \E e \in K :
                      /\ f[p] = Plus(w, Plus(w, e, g[p]), a[p])
                      /\ \A i \in DOMAIN m.trs[p] : Keep(m.trs[p][i]) =>
                           /\ Below(w, Times(w, e, m.trs[p][i].weight), f[m.trs[p][i].nextstate])
                           /\ i < k + 1 => Below(w, Times(w, a[p], m.trs[p][i].weight),
                                                    f[m.trs[p][i].nextstate])
  BY DEF Spread
<1>4. PICK e \in K :
        /\ d[p] = Plus(w, Plus(w, e, h[p]), a[p])
        /\ \A i \in DOMAIN m.trs[p] : Keep(m.trs[p][i]) =>
             /\ Below(w, Times(w, e, m.trs[p][i].weight), d[m.trs[p][i].nextstate])
             /\ i < k => Below(w, Times(w, a[p], m.trs[p][i].weight), d[m.trs[p][i].nextstate])
  BY DEF Spread
<1> HIDE DEF a
<1>5. PICK z \in K : f[p] = Plus(w, d[p], z) /\ g[p] = Plus(w, h[p], z)
  OBVIOUS
<1>6. f[p] = Plus(w, Plus(w, e, g[p]), a[p])
  <2>1. h[p] \in K /\ a[p] \in K
    BY <1>1
  <2>2. Plus(w, e, h[p]) \in K /\ Plus(w, Plus(w, e, h[p]), z) = Plus(w, e, Plus(w, h[p], z))
    BY <2>1, AddLaws
  <2>3. Plus(w, Plus(w, Plus(w, e, h[p]), a[p]), z) = Plus(w, Plus(w, Plus(w, e, h[p]), z), a[p])
    BY <2>1, <2>2, AddSwap
  <2> QED  BY <1>4, <1>5, <2>2, <2>3
<1>7. ASSUME NEW i \in DOMAIN m.trs[p], Keep(m.trs[p][i])
      PROVE  /\ Below(w, Times(w, e, m.trs[p][i].weight), f[m.trs[p][i].nextstate])
             /\ i < k + 1 => Below(w, Times(w, a[p], m.trs[p][i].weight), f[m.trs[p][i].nextstate])
  <2> DEFINE v == m.trs[p][i].weight
             n == m.trs[p][i].nextstate
  <2>1. v \in K /\ n \in States
    BY <1>7 DEF MachineOn
  <2>2. Times(w, e, v) \in K /\ Times(w, a[p], v) \in K /\ Times(w, Zero(w), v) = Zero(w)
    BY <1>1, <2>1, MulLaws
  <2>3. Below(w, Times(w, e, v), f[n])
    BY <1>3, <1>4, <1>7, <2>1, <2>2
  <2>4. i < k => Below(w, Times(w, a[p], v), f[n])
    BY <1>3, <1>4, <1>7, <2>1, <2>2
  <2>5. p # s => Below(w, Times(w, a[p], v), f[n])
    <3>1. f[n] \in K
      BY <2>1
    <3> QED  BY <1>1, <2>2, <3>1, BelowAll
  <2>6. p = s /\ i = k => Below(w, Times(w, a[p], v), f[n])
    BY <1>1, <1>7
  <2>7. i \in Nat /\ k \in Nat
    <3>1. m.trs[p] \in Seq(Range(m.trs[p])) /\ m.trs[s] \in Seq(Range(m.trs[s]))
      BY DEF MachineOn
    <3> QED  BY <3>1
  <2>8. i < k + 1 => i < k \/ i = k
    BY <2>7
  <2> QED  BY <1>7, <2>3, <2>4, <2>5, <2>6, <2>8
<1> QED  BY <1>6, <1>7

\* All the transitions of s are examined.
LEMMA SpreadEnds ==
    ASSUME NEW w, NEW K, SemiringOn(w, K), IdempotentOn(w, K), NEW m, MachineOn(K, m),
           NEW d \in [States -> K], NEW h \in [States -> K],
           NEW s \in States, NEW y \in K, NEW j,
           Spread(w, m, K, d, h, AllAt(w, s, y), Len(m.trs[s]) + 1)
    PROVE  Spread(w, m, K, d, h, Nothing(w), j)
<1> DEFINE a == AllAt(w, s, y)
<1>1. \A p \in States : /\ a[p] = (IF p = s THEN y ELSE Zero(w)) /\ a[p] \in K
                        /\ Nothing(w)[p] = Zero(w)
  BY DEF AllAt, SemiringOn, Nothing
<1> SUFFICES ASSUME NEW p \in States
             PROVE  \E b \in K :
                      /\ d[p] = Plus(w, Plus(w, b, h[p]), Nothing(w)[p])
                      /\ \A i \in DOMAIN m.trs[p] : Keep(m.trs[p][i]) =>
                           /\ Below(w, Times(w, b, m.trs[p][i].weight), d[m.trs[p][i].nextstate])
                           /\ Below(w, Times(w, Nothing(w)[p], m.trs[p][i].weight),
                                       d[m.trs[p][i].nextstate])
  BY DEF Spread
<1>2. PICK e \in K :
        /\ d[p] = Plus(w, Plus(w, e, h[p]), a[p])
        /\ \A i \in DOMAIN m.trs[p] : Keep(m.trs[p][i]) =>
             /\ Below(w, Times(w, e, m.trs[p][i].weight), d[m.trs[p][i].nextstate])
             /\ i < Len(m.trs[s]) + 1 =>
                  Below(w, Times(w, a[p], m.trs[p][i].weight), d[m.trs[p][i].nextstate])
  BY DEF Spread
<1> HIDE DEF a
<1> DEFINE b == Plus(w, e, a[p])
<1>3. b \in K /\ h[p] \in K /\ a[p] \in K
  BY <1>1, AddLaws
<1>4. d[p] = Plus(w, Plus(w, b, h[p]), Nothing(w)[p])
  <2>1. Plus(w, Plus(w, e, h[p]), a[p]) = Plus(w, b, h[p])
    BY <1>3, AddSwap
  <2>2. Plus(w, b, h[p]) \in K
    BY <1>3, AddLaws
  <2>3. Plus(w, Plus(w, b, h[p]), Zero(w)) = Plus(w, b, h[p])
    BY <2>2, AddLaws
  <2> QED  BY <1>1, <1>2, <2>1, <2>3
<1>5. ASSUME NEW i \in DOMAIN m.trs[p], Keep(m.trs[p][i])
      PROVE  /\ Below(w, Times(w, b, m.trs[p][i].weight), d[m.trs[p][i].nextstate])
             /\ Below(w, Times(w, Nothing(w)[p], m.trs[p][i].weight), d[m.trs[p][i].nextstate])
  <2> DEFINE v == m.trs[p][i].weight
             n == m.trs[p][i].nextstate
  <2>1. v \in K /\ n \in States
    BY <1>5 DEF MachineOn
  <2>2. d[n] \in K
    BY <2>1
  <2>3. /\ Times(w, e, v) \in K /\ Times(w, a[p], v) \in K /\ Times(w, Zero(w), v) = Zero(w)
        /\ Times(w, b, v) = Plus(w, Times(w, e, v), Times(w, a[p], v))
    <3>1. \A k, l, z \in K : Times(w, Plus(w, k, l), z) = Plus(w, Times(w, k, z), Times(w, l, z))
      BY MulLaws
    <3>2. Times(w, b, v) = Plus(w, Times(w, e, v), Times(w, a[p], v))
      BY <1>3, <2>1, <3>1
    <3>3. Times(w, e, v) \in K
      BY <2>1, MulLaws
    <3>4. Times(w, a[p], v) \in K /\ Times(w, Zero(w), v) = Zero(w)
      BY <1>3, <2>1, MulLaws
    <3> QED  BY <3>2, <3>3, <3>4
  <2>4. Below(w, Zero(w), d[n])
    BY <2>2, BelowAll
  <2>5. Below(w, Times(w, a[p], v), d[n])
    <3>1. CASE p = s
      <4>1. m.trs[s] \in Seq(Range(m.trs[s]))
        BY DEF MachineOn
      <4>2. i < Len(m.trs[s]) + 1
        BY <3>1, <4>1
      <4> QED  BY <1>2, <1>5, <4>2
    <3>2. CASE p # s
      BY <1>1, <2>3, <2>4, <3>2
    <3> QED  BY <3>1, <3>2
  <2>6. Below(w, Times(w, e, v), d[n])
    BY <1>2, <1>5
  <2>7. Below(w, Times(w, b, v), d[n])
    BY <2>2, <2>3, <2>5, <2>6, BelowBoth
  <2> QED  BY <1>1, <2>3, <2>4, <2>7
<1> HIDE DEF b
<1> QED  BY <1>3, <1>4, <1>5

-----------------------------------------------------------------------------
(* The sums of a pass.                                                     *)

\* The weights K form a semiring in which equality up to delta is equality; the
\* sum is idempotent, or nothing but zero is lost in it.
ExactOn(w, K) ==
    /\ SemiringOn(w, K)
    /\ \A x, y \in K : ApproxEqual(w, x, y) <=> x = y
    /\ IdempotentOn(w, K) \/ \A x, y \in K : Plus(w, x, y) = x => y = Zero(w)

\* They are those of the machine m, and its paths of more than PathBound
\* transitions add nothing to the sums over the others.
Exact(w, K, m) ==
    ExactOn(w, K) /\ MachineOn(K, m) /\ Closes(w, m, PathSums(w, m)[PathBound])

\* The rows of the pass as maps over all states.
DistancesIn(rs) == [q \in States |-> IF q \in LiveIn(rs) THEN rs[q].distance ELSE zero]
RaddersIn(rs) == [q \in States |-> IF q \in LiveIn(rs) THEN rs[q].radder ELSE zero]

\* What is under way to q, and what is under way from each state.
Way(q) == IF pc = "relax" THEN Mul(r, Onward(semiring, fst, closure, state, pos, q)) ELSE zero
Taken == IF pc = "relax" THEN AllAt(semiring, state, r) ELSE Nothing(semiring)

\* The rows of the pass hold weights, and the adder is the distance.
RowsIn(rs, K) == \A s \in LiveIn(rs) :
    rs[s].distance \in K /\ rs[s].radder \in K /\ rs[s].adder = rs[s].distance

\* Nothing is lost and nothing counted twice.
SumsUp ==
    \A q \in States : Sum(semiring, fst, closure, DistancesIn(rows), RaddersIn(rows), Way(q), q)
                        = closure[source][q]

\* What an idempotent sum adds to that.
SpreadOut(K) ==
    IdempotentOn(semiring, K) =>
      Spread(semiring, fst, K, DistancesIn(rows), RaddersIn(rows), Taken, pos)

\* Between two passes the rows of the last one are its sums.
LastIn == IF retain THEN {s \in DOMAIN rows : rows[s].source = source_id - 1} ELSE DOMAIN rows

\* The last pass found the sums.
Answered ==
    \A q \in States : (IF q \in LastIn THEN rows[q].distance ELSE zero) = closure[source][q]

\* The inductive invariant: what a pass maintains.
SumsInv ==
    \A K : Exact(semiring, K, fst) =>
      /\ pc # "idle" => /\ source \in States /\ closure = PathSums(semiring, fst)[PathBound]
                        /\ RowsIn(rows, K) /\ SumsUp /\ SpreadOut(K)
      /\ pc = "relax" => r \in K

\* The answer of the last pass.
AnswerInv ==
    \A K : Exact(semiring, K, fst) /\ pc = "idle" /\ source # None =>
      source \in States /\ Answered /\ closure = PathSums(semiring, fst)[PathBound]

\* The sums of a machine over the weights K are in K.
LEMMA SumsType ==
    ASSUME NEW K, Exact(semiring, K, fst), PassInv
    PROVE  LET C == PathSums(semiring, fst)[PathBound] IN
           /\ MachineOn(K, fst) /\ C \in Sums(K) /\ Closes(semiring, fst, C)
           /\ zero \in K /\ one \in K /\ zero = Zero(semiring) /\ one = One(semiring)
<1>2. MachineOn(K, fst) /\ Closes(semiring, fst, PathSums(semiring, fst)[PathBound])
  BY DEF Exact
<1>3. IsPathSums(semiring, fst, K, PathBound, PathSums(semiring, fst))
  BY <1>2, PathSumsHold DEF Exact, ExactOn
<1>4. PathSums(semiring, fst)[PathBound] \in Sums(K)
  BY <1>3, SDAssumption DEF IsPathSums
<1>5. zero \in K /\ one \in K
  BY DEF Exact, ExactOn, SemiringOn, zero, one
<1> QED  BY <1>2, <1>4, <1>5 DEF zero, one

\* The rows as maps of weights.
LEMMA RowsAdd ==
    ASSUME NEW K, Exact(semiring, K, fst), NEW rs, RowsIn(rs, K)
    PROVE  DistancesIn(rs) \in [States -> K] /\ RaddersIn(rs) \in [States -> K]
<1>1. zero \in K
  BY DEF Exact, ExactOn, SemiringOn, zero
<1>2. LiveIn(rs) \subseteq DOMAIN rs
  BY DEF LiveIn
<1> QED  BY <1>1, <1>2 DEF DistancesIn, RaddersIn, RowsIn

\* A row that starts afresh adds nothing.
LEMMA TouchedSame ==
    ASSUME NEW K, Exact(semiring, K, fst), NEW rs, RowsIn(rs, K), RowsTyped(rs),
           source_id \in Nat, NEW s \in States
    PROVE  LET t == Touched(rs, s) IN
           /\ RowsIn(t, K)
           /\ DistancesIn(t) = DistancesIn(rs) /\ RaddersIn(t) = RaddersIn(rs)
<1> DEFINE t == Touched(rs, s)
<1>1. /\ \A x \in DOMAIN t :
           \/ x \in DOMAIN rs /\ t[x] = rs[x]
           \/ t[x].distance = zero /\ t[x].adder = zero /\ t[x].radder = zero
      /\ LiveIn(rs) \subseteq LiveIn(t)
      /\ \A x \in LiveIn(rs) : t[x] = rs[x]
  BY TouchedRows
<1>2. zero \in K
  BY DEF Exact, ExactOn, SemiringOn, zero
<1> HIDE DEF t
<1>3. ASSUME NEW x \in LiveIn(t), x \notin LiveIn(rs)
      PROVE  t[x].distance = zero /\ t[x].adder = zero /\ t[x].radder = zero
  <2>1. ~ (x \in DOMAIN rs /\ t[x] = rs[x])
    BY <1>3 DEF LiveIn
  <2>2. x \in DOMAIN t
    BY DEF LiveIn
  <2> QED  BY <1>1, <2>1, <2>2
<1>4. RowsIn(t, K)
  BY <1>1, <1>2, <1>3 DEF RowsIn
<1>5. \A x \in States : DistancesIn(t)[x] = DistancesIn(rs)[x]
  BY <1>1, <1>3 DEF DistancesIn
<1>6. \A x \in States : RaddersIn(t)[x] = RaddersIn(rs)[x]
  BY <1>1, <1>3 DEF RaddersIn
<1>7. DistancesIn(t) = DistancesIn(rs)
  BY <1>5 DEF DistancesIn
<1>8. RaddersIn(t) = RaddersIn(rs)
  BY <1>6 DEF RaddersIn
<1> QED  BY <1>4, <1>7, <1>8 DEF t

\* What is left of the expansion after the transition that is examined.
LEMMA ExaminedLeaves ==
    ASSUME NEW K, Exact(semiring, K, fst), PassInv, r \in K, pc = "relax",
           pos <= Len(fst.trs[state]), Examined,
           closure = PathSums(semiring, fst)[PathBound],
           UNCHANGED <<semiring, fst, closure, state, r>>
    PROVE  /\ \A q \in States :
                Way(q)' = Times(semiring, r, Onward(semiring, fst, closure, state, pos + 1, q))
           /\ \A d \in [States -> K], h \in [States -> K] :
                IdempotentOn(semiring, K)
                /\ Spread(semiring, fst, K, d, h, AllAt(semiring, state, r), pos + 1)
                => Spread(semiring, fst, K, d, h, Taken', pos')
<1>1. /\ state \in States /\ pos \in DOMAIN fst.trs[state] /\ pos \in Nat
      /\ Len(fst.trs[state]) \in Nat
  BY RelaxFacts
<1>2. /\ MachineOn(K, fst) /\ closure \in Sums(K) /\ SemiringOn(semiring, K)
  BY SumsType DEF Exact, ExactOn
<1>3. CASE pos = Len(fst.trs[state])
  <2>1. pc' = "dequeue" /\ pos' = 1
    BY <1>3 DEF Examined
  <2>2. ASSUME NEW q \in States
        PROVE  Way(q)' = Times(semiring, r, Onward(semiring, fst, closure, state, pos + 1, q))
    <3>1. Onward(semiring, fst, closure, state, pos + 1, q) = Zero(semiring)
      BY <1>1, <1>2, <1>3, OnwardPast
    <3>2. Times(semiring, r, Zero(semiring)) = Zero(semiring)
      BY <1>2, MulLaws
    <3>3. Way(q)' = Zero(semiring)
      BY <2>1 DEF Way, zero
    <3> QED  BY <3>1, <3>2, <3>3
  <2>3. Taken' = Nothing(semiring)
    BY <2>1 DEF Taken, Nothing
  <2> QED  BY <1>1, <1>2, <1>3, <2>2, <2>3, SpreadEnds
<1>4. CASE pos # Len(fst.trs[state])
  <2>1. pc' = "relax" /\ pos' = pos + 1
    BY <1>4 DEF Examined
  <2>2. \A q \in States :
          Way(q)' = Times(semiring, r, Onward(semiring, fst, closure, state, pos + 1, q))
    BY <2>1 DEF Way, Mul
  <2>3. Taken' = AllAt(semiring, state, r)
    BY <2>1 DEF Taken, AllAt
  <2> QED  BY <2>1, <2>2, <2>3
<1> QED  BY <1>3, <1>4

\* LiveIn and the rest follow the rows when the pass and the weights stay.
LEMMA InPrimed ==
    ASSUME UNCHANGED <<semiring, retain, source_id>>
    PROVE  /\ DistancesIn(rows)' = DistancesIn(rows') /\ RaddersIn(rows)' = RaddersIn(rows')
           /\ \A K : RowsIn(rows, K)' <=> RowsIn(rows', K)
           /\ zero' = zero /\ one' = one
BY DEF DistancesIn, RaddersIn, RowsIn, LiveIn, zero, one

\* A pass starts: the rows of earlier passes count for nothing.
LEMMA StartSums ==
    ASSUME IInv, SumsInv, NEW s \in States, StartPass(s)
    PROVE  SumsInv'
<1> DEFINE d == AllAt(semiring, s, One(semiring))
<1>1. /\ pc = "idle" /\ pc' = "dequeue" /\ source' = s /\ closure' = Closure(fst)
      /\ UNCHANGED <<semiring, fst, retain, source_id, pos>>
  BY DEF StartPass
<1>2. PassInv
  BY DEF IInv
<1> SUFFICES ASSUME NEW K, Exact(semiring, K, fst)
             PROVE  /\ RowsIn(rows, K)'
                    /\ closure' = PathSums(semiring, fst)[PathBound]
                    /\ SumsUp' /\ SpreadOut(K)'
  BY <1>1 DEF SumsInv
<1>3. zero \in K /\ one \in K /\ zero = Zero(semiring) /\ one = One(semiring)
  BY <1>2, SumsType
<1>4. /\ s \in LiveIn(rows') /\ rows'[s].distance = one /\ rows'[s].adder = one
      /\ rows'[s].radder = one
      /\ \A x \in LiveIn(rows') : x # s =>
           rows'[x].distance = zero /\ rows'[x].adder = zero /\ rows'[x].radder = zero
  BY <1>2, StartRows
<1>10. RowsIn(rows', K)
  BY <1>3, <1>4 DEF RowsIn
<1>11. DistancesIn(rows') = d
  <2>1. \A q \in States : (IF q \in LiveIn(rows') THEN rows'[q].distance ELSE zero)
                           = IF q = s THEN One(semiring) ELSE Zero(semiring)
    BY <1>3, <1>4
  <2> QED  BY <2>1 DEF DistancesIn, AllAt
<1>12. RaddersIn(rows') = d
  <2>1. \A q \in States : (IF q \in LiveIn(rows') THEN rows'[q].radder ELSE zero)
                           = IF q = s THEN One(semiring) ELSE Zero(semiring)
    BY <1>3, <1>4
  <2> QED  BY <2>1 DEF RaddersIn, AllAt
<1>13. DistancesIn(rows)' = d /\ RaddersIn(rows)' = d /\ RowsIn(rows, K)'
  BY <1>1, <1>10, <1>11, <1>12, InPrimed
<1>14. closure' = PathSums(semiring, fst)[PathBound]
  BY <1>1 DEF Closure
<1>15. /\ MachineOn(K, fst) /\ closure' \in Sums(K) /\ Closes(semiring, fst, closure')
       /\ SemiringOn(semiring, K)
  BY <1>2, <1>14, SumsType DEF Exact, ExactOn
<1>16. SumsUp'
  <2>1. ASSUME NEW q \in States
        PROVE  Sum(semiring, fst, closure', d, d, Zero(semiring), q) = closure'[s][q]
    <3>1. d = [p \in States |-> IF p = s THEN One(semiring) ELSE Zero(semiring)]
      BY DEF AllAt
    <3> HIDE DEF d
    <3> QED  BY <1>15, <3>1, SumStarts
  <2>2. \A q \in States : Way(q)' = Zero(semiring)
    BY <1>1 DEF Way, zero
  <2> HIDE DEF d
  <2> QED  BY <1>1, <1>13, <2>1, <2>2 DEF SumsUp
<1>17. SpreadOut(K)'
  <2>1. Taken' = Nothing(semiring)
    BY <1>1 DEF Taken, Nothing
  <2> HIDE DEF d
  <2>2. Spread(semiring, fst, K, d, d, Nothing(semiring), pos')
    BY <1>15, SpreadStarts DEF d
  <2> QED  BY <1>1, <1>13, <2>1, <2>2 DEF SpreadOut
<1> QED  BY <1>13, <1>14, <1>16, <1>17

\* A state leaves the queue: what waited there is under way.
LEMMA DequeueSums ==
    ASSUME IInv, SumsInv, DequeueState
    PROVE  SumsInv'
<1> DEFINE h == Dequeued(state_queue)
           d == DistancesIn(rows)
           a == RaddersIn(rows)
           b == RaddersIn(rows')
<1>1. /\ pc = "dequeue" /\ pc' = "relax" /\ state' = h /\ pos' = 1 /\ ~ IsEmpty(state_queue)
      /\ r' = rows[h].radder
      /\ rows' = [rows EXCEPT ![h].enqueued = FALSE, ![h].radder = zero]
      /\ UNCHANGED <<semiring, fst, retain, source_id, source, closure>>
  BY DEF DequeueState
<1>2. h \in Live /\ RowsTyped(rows) /\ PassInv
  BY <1>1, Dequeues, StatesAreNaturals DEF IInv, PassInv, QueueReady, RowsInv, RowsTyped
<1> HIDE DEF h
<1>3. h \in DOMAIN rows /\ h \in States
  BY <1>2 DEF Live, RowsTyped
<1>4. DOMAIN rows[h] = {"distance", "adder", "radder", "enqueued", "source"}
  BY <1>2, <1>3, NewRowFields DEF RowsTyped
<1>5. /\ DOMAIN rows' = DOMAIN rows /\ \A x \in DOMAIN rows \ {h} : rows'[x] = rows[x]
      /\ rows'[h].radder = zero /\ rows'[h].source = rows[h].source
      /\ rows'[h].distance = rows[h].distance /\ rows'[h].adder = rows[h].adder
  BY <1>1, <1>3, <1>4
<1>6. LiveIn(rows') = LiveIn(rows) /\ h \in LiveIn(rows)
  BY <1>2, <1>5 DEF LiveIn, Live
<1> SUFFICES ASSUME NEW K, Exact(semiring, K, fst)
             PROVE  RowsIn(rows, K)' /\ SumsUp' /\ SpreadOut(K)' /\ r' \in K
  BY <1>1 DEF SumsInv
<1>7. /\ RowsIn(rows, K) /\ source \in States /\ SumsUp /\ SpreadOut(K)
      /\ closure = PathSums(semiring, fst)[PathBound]
  BY <1>1 DEF SumsInv
<1>8. /\ MachineOn(K, fst) /\ closure \in Sums(K) /\ SemiringOn(semiring, K)
      /\ zero \in K /\ zero = Zero(semiring)
  BY <1>2, <1>7, SumsType DEF Exact, ExactOn
<1>9. RowsIn(rows', K) /\ r' \in K
  <2>1. LiveIn(rows) \subseteq DOMAIN rows
    BY DEF LiveIn
  <2> QED  BY <1>1, <1>3, <1>5, <1>6, <1>7, <1>8, <2>1 DEF RowsIn
<1>10. DistancesIn(rows') = d
  <2>1. \A q \in States : DistancesIn(rows')[q] = DistancesIn(rows)[q]
    BY <1>5, <1>6 DEF DistancesIn, LiveIn
  <2> QED  BY <2>1 DEF DistancesIn
<1>11. a[h] = r' /\ b[h] = zero /\ \A p \in States : p # h => b[p] = a[p]
  BY <1>1, <1>3, <1>5, <1>6 DEF RaddersIn, LiveIn
<1>12. d \in [States -> K] /\ a \in [States -> K] /\ b \in [States -> K]
  BY <1>7, <1>9, RowsAdd
<1>13. DistancesIn(rows)' = d /\ RaddersIn(rows)' = b /\ RowsIn(rows, K)'
  BY <1>1, <1>9, <1>10, InPrimed
<1> HIDE DEF a, b, d
<1>14. SumsUp'
  <2>1. ASSUME NEW q \in States
        PROVE  Sum(semiring, fst, closure, d, b,
                   Times(semiring, a[h], Onward(semiring, fst, closure, h, 1, q)), q)
               = closure[source][q]
    <3>1. Sum(semiring, fst, closure, d, a, Zero(semiring), q) = closure[source][q]
      BY <1>1, <1>7, <1>8 DEF SumsUp, Way, d, a
    <3> QED  BY <1>3, <1>8, <1>11, <1>12, <3>1, SumTakes
  <2>2. \A q \in States : Way(q)' = Times(semiring, a[h], Onward(semiring, fst, closure, h, 1, q))
    BY <1>1, <1>11 DEF Way, Mul
  <2> QED  BY <1>1, <1>13, <2>1, <2>2 DEF SumsUp
<1>15. SpreadOut(K)'
  <2>1. Taken = Nothing(semiring) /\ Taken' = AllAt(semiring, h, a[h])
    BY <1>1, <1>11 DEF Taken, AllAt
  <2>2. IdempotentOn(semiring, K) => Spread(semiring, fst, K, d, a, Nothing(semiring), pos)
    BY <1>7, <2>1 DEF SpreadOut, d, a
  <2>3. IdempotentOn(semiring, K) => Spread(semiring, fst, K, d, b, AllAt(semiring, h, a[h]), 1)
    BY <1>3, <1>8, <1>11, <1>12, <2>2, SpreadTakes
  <2> QED  BY <1>1, <1>13, <2>1, <2>3 DEF SpreadOut
<1> QED  BY <1>9, <1>13, <1>14, <1>15


\* What SumsInv says while a state is expanded.
LEMMA SumsHere ==
    ASSUME IInv, SumsInv, NEW K, Exact(semiring, K, fst), pc = "relax", pos <= Len(fst.trs[state])
    PROVE  /\ RowsIn(rows, K) /\ source \in States /\ r \in K
           /\ closure = PathSums(semiring, fst)[PathBound]
           /\ MachineOn(K, fst) /\ closure \in Sums(K) /\ Closes(semiring, fst, closure)
           /\ SemiringOn(semiring, K)
           /\ state \in States /\ pos \in 1 .. Len(fst.trs[state])
           /\ fst.trs[state][pos].nextstate \in States
           /\ Keep(fst.trs[state][pos]) =>
                /\ fst.trs[state][pos].weight \in K
                /\ Mul(r, fst.trs[state][pos].weight) \in K
           /\ DistancesIn(rows) \in [States -> K] /\ RaddersIn(rows) \in [States -> K]
           /\ \A q \in States :
                Sum(semiring, fst, closure, DistancesIn(rows), RaddersIn(rows),
                    Times(semiring, r, Onward(semiring, fst, closure, state, pos, q)), q)
                = closure[source][q]
           /\ IdempotentOn(semiring, K) =>
                Spread(semiring, fst, K, DistancesIn(rows), RaddersIn(rows),
                       AllAt(semiring, state, r), pos)
<1>1. PassInv
  BY DEF IInv
<1>2. /\ RowsIn(rows, K) /\ source \in States /\ r \in K /\ SumsUp /\ SpreadOut(K)
      /\ closure = PathSums(semiring, fst)[PathBound]
  BY DEF SumsInv
<1>3. /\ MachineOn(K, fst) /\ closure \in Sums(K) /\ Closes(semiring, fst, closure)
      /\ SemiringOn(semiring, K)
  BY <1>1, <1>2, SumsType DEF Exact, ExactOn
<1>4. /\ state \in States /\ pos \in DOMAIN fst.trs[state] /\ pos \in Nat
      /\ Len(fst.trs[state]) \in Nat /\ fst.trs[state][pos].nextstate \in States
  BY <1>1, RelaxFacts
<1>5. pos \in 1 .. Len(fst.trs[state])
  <2>1. fst.trs[state] \in Seq(Range(fst.trs[state]))
    BY <1>3, <1>4 DEF MachineOn
  <2> QED  BY <1>4, <2>1
<1>6. Keep(fst.trs[state][pos]) => /\ fst.trs[state][pos].weight \in K
                                   /\ Mul(r, fst.trs[state][pos].weight) \in K
  <2>1. Keep(fst.trs[state][pos]) => fst.trs[state][pos].weight \in K
    BY <1>3, <1>4 DEF MachineOn
  <2>2. \A x \in K : Mul(r, x) \in K
    BY <1>2, <1>3, MulLaws DEF Mul
  <2> QED  BY <2>1, <2>2
<1>7. DistancesIn(rows) \in [States -> K] /\ RaddersIn(rows) \in [States -> K]
  BY <1>2, RowsAdd
<1>8. \A q \in States :
        Way(q) = Times(semiring, r, Onward(semiring, fst, closure, state, pos, q))
  BY DEF Way, Mul
<1>9. \A q \in States :
        Sum(semiring, fst, closure, DistancesIn(rows), RaddersIn(rows),
            Times(semiring, r, Onward(semiring, fst, closure, state, pos, q)), q)
        = closure[source][q]
  BY <1>2, <1>8 DEF SumsUp
<1>10. Taken = AllAt(semiring, state, r)
  BY DEF Taken
<1>11. IdempotentOn(semiring, K) =>
         Spread(semiring, fst, K, DistancesIn(rows), RaddersIn(rows),
                AllAt(semiring, state, r), pos)
  BY <1>2, <1>10 DEF SpreadOut
<1> QED  BY <1>2, <1>3, <1>4, <1>5, <1>6, <1>7, <1>9, <1>11

\* An expansion goes on: the sums and what is handed on are those after it.
LEMMA SumsGoOn ==
    ASSUME IInv, SumsInv, NEW K, Exact(semiring, K, fst), pc = "relax", Examined,
           pos <= Len(fst.trs[state]),
           UNCHANGED <<semiring, fst, retain, source_id, state, r, source, closure>>,
           RowsIn(rows', K),
           NEW d, d = DistancesIn(rows'), NEW h, h = RaddersIn(rows'),
           \A q \in States :
             Sum(semiring, fst, closure, d, h,
                 Times(semiring, r, Onward(semiring, fst, closure, state, pos + 1, q)), q)
             = closure[source][q],
           IdempotentOn(semiring, K) =>
             Spread(semiring, fst, K, d, h, AllAt(semiring, state, r), pos + 1)
    PROVE  /\ RowsIn(rows, K)' /\ source' \in States /\ r' \in K
           /\ closure' = PathSums(semiring', fst')[PathBound]
           /\ SumsUp' /\ SpreadOut(K)' /\ pc' # "idle"
<1>1. /\ source \in States /\ r \in K /\ PassInv
      /\ closure = PathSums(semiring, fst)[PathBound]
  BY SumsHere DEF IInv
<1>2. d \in [States -> K] /\ h \in [States -> K]
  BY RowsAdd
<1>3. /\ \A q \in States :
           Way(q)' = Times(semiring, r, Onward(semiring, fst, closure, state, pos + 1, q))
      /\ IdempotentOn(semiring, K) => Spread(semiring, fst, K, d, h, Taken', pos')
  BY <1>1, <1>2, ExaminedLeaves
<1>4. DistancesIn(rows)' = d /\ RaddersIn(rows)' = h /\ RowsIn(rows, K)'
  BY InPrimed
<1>5. SumsUp'
  <2>1. \A q \in States : Sum(semiring, fst, closure, d, h, Way(q)', q) = closure[source][q]
    BY <1>3
  <2> QED  BY <1>4, <2>1 DEF SumsUp
<1>6. SpreadOut(K)'
  BY <1>3, <1>4 DEF SpreadOut
<1>7. pc' # "idle"
  BY DEF Examined
<1> QED  BY <1>1, <1>4, <1>5, <1>6, <1>7

\* A weight that does not change the distance is dropped.
LEMMA RelaxNothingSums ==
    ASSUME IInv, SumsInv, RelaxNothing
    PROVE  SumsInv'
<1> DEFINE tr == fst.trs[state][pos]
           n == tr.nextstate
           t == Touched(rows, n)
           d == DistancesIn(rows)
           h == RaddersIn(rows)
           z == Mul(r, tr.weight)
<1>1. /\ pc = "relax" /\ pos <= Len(fst.trs[state]) /\ Examined
      /\ \/ ~ Keep(tr) /\ rows' = rows
         \/ /\ Keep(tr) /\ Same(t[n].distance, Add(t[n].distance, z)) /\ rows' = t
      /\ UNCHANGED <<semiring, fst, retain, source_id, state, r, source, closure>>
  BY DEF RelaxNothing
<1> SUFFICES ASSUME NEW K, Exact(semiring, K, fst)
             PROVE  /\ RowsIn(rows, K)' /\ source' \in States /\ r' \in K
                    /\ closure' = PathSums(semiring', fst')[PathBound]
                    /\ SumsUp' /\ SpreadOut(K)' /\ pc' # "idle"
  BY <1>1 DEF SumsInv
<1>2. /\ RowsIn(rows, K) /\ source \in States /\ r \in K
      /\ closure = PathSums(semiring, fst)[PathBound]
      /\ MachineOn(K, fst) /\ closure \in Sums(K) /\ Closes(semiring, fst, closure)
      /\ SemiringOn(semiring, K)
      /\ state \in States /\ pos \in 1 .. Len(fst.trs[state]) /\ n \in States
      /\ Keep(tr) => tr.weight \in K /\ z \in K
      /\ d \in [States -> K] /\ h \in [States -> K]
  BY <1>1, SumsHere
<1>3. \A q \in States :
        Sum(semiring, fst, closure, d, h,
            Times(semiring, r, Onward(semiring, fst, closure, state, pos, q)), q)
        = closure[source][q]
  BY <1>1, SumsHere
<1>4. IdempotentOn(semiring, K) =>
        Spread(semiring, fst, K, d, h, AllAt(semiring, state, r), pos)
  BY <1>1, SumsHere
<1>5. RowsTyped(rows) /\ source_id \in Nat
  BY <1>1, RelaxFacts DEF IInv
<1>6. /\ RowsIn(t, K) /\ DistancesIn(t) = d /\ RaddersIn(t) = h
  <2> HIDE DEF n
  <2> QED  BY <1>2, <1>5, TouchedSame
<1>7. /\ RowsIn(rows', K) /\ DistancesIn(rows') = d /\ RaddersIn(rows') = h
  BY <1>1, <1>2, <1>6
<1>8. CASE ~ Keep(tr)
  <2>1. ASSUME NEW q \in States
        PROVE  Onward(semiring, fst, closure, state, pos + 1, q)
               = Onward(semiring, fst, closure, state, pos, q)
    <3>1. Onward(semiring, fst, closure, state, pos, q)
          = Plus(semiring, Onward(semiring, fst, closure, state, pos + 1, q), Zero(semiring))
      BY <1>2, <1>8, OnwardNext
    <3>2. Onward(semiring, fst, closure, state, pos + 1, q) \in K
      <4>1. pos + 1 \in Nat /\ state \in States
        BY <1>2
      <4>2. MachineOn(K, fst) /\ closure \in Sums(K) /\ SemiringOn(semiring, K)
        BY <1>2
      <4> HIDE DEF d, h, t, n, z, tr
      <4> QED  BY <4>1, <4>2, CarriedType
    <3>3. \A x \in K : Plus(semiring, x, Zero(semiring)) = x
      BY <1>2, AddLaws
    <3> QED  BY <3>1, <3>2, <3>3
  <2>2. IdempotentOn(semiring, K) =>
          Spread(semiring, fst, K, d, h, AllAt(semiring, state, r), pos + 1)
    <3> HIDE DEF d, h
    <3>1. \A x \in K : x = Plus(semiring, x, Zero(semiring)) /\ Zero(semiring) \in K
      BY <1>2, AddLaws
    <3>2. \A p \in States : \E y \in K :
            d[p] = Plus(semiring, d[p], y) /\ h[p] = Plus(semiring, h[p], y)
      BY <1>2, <3>1
    <3> QED  BY <1>2, <1>4, <1>8, <3>2, SpreadGoesOn
  <2>3. \A q \in States :
          Sum(semiring, fst, closure, d, h,
              Times(semiring, r, Onward(semiring, fst, closure, state, pos + 1, q)), q)
          = closure[source][q]
    BY <1>3, <2>1
  <2> HIDE DEF d, h
  <2> QED  BY <1>1, <1>7, <2>2, <2>3, SumsGoOn
<1>9. CASE Keep(tr)
  <2>1. Plus(semiring, d[n], z) = d[n]
    <3>1. Same(t[n].distance, Add(t[n].distance, z))
      BY <1>1, <1>9
    <3>2. n \in LiveIn(t) /\ n \in DOMAIN t
      BY <1>2, <1>5, TouchedRows
    <3>3. t[n].distance = d[n]
      <4>1. DistancesIn(t)[n] = t[n].distance
        <5> HIDE DEF n, t
        <5> QED  BY <1>2, <3>2 DEF DistancesIn
      <4> QED  BY <1>6, <4>1
    <3>4. d[n] \in K /\ z \in K
      BY <1>2, <1>9
    <3> HIDE DEF d, n, z, t
    <3>5. Plus(semiring, d[n], z) \in K
      BY <1>2, <3>4, AddLaws
    <3> QED  BY <3>1, <3>3, <3>4, <3>5 DEF Exact, ExactOn, Same, Add
  <2>2. z = Times(semiring, r, tr.weight)
    BY DEF Mul
  <2>3. IdempotentOn(semiring, K) =>
          Spread(semiring, fst, K, d, h, AllAt(semiring, state, r), pos + 1)
    <3> HIDE DEF d, h, z
    <3>1. \A x \in K : x = Plus(semiring, x, Zero(semiring)) /\ Zero(semiring) \in K
      BY <1>2, AddLaws
    <3>2. \A p \in States : \E y \in K :
            d[p] = Plus(semiring, d[p], y) /\ h[p] = Plus(semiring, h[p], y)
      BY <1>2, <3>1
    <3>3. Below(semiring, z, d[n])
      <4>1. d[n] \in K /\ z \in K
        BY <1>2, <1>9
      <4>2. Plus(semiring, z, d[n]) = Plus(semiring, d[n], z)
        BY <1>2, <4>1, AddLaws
      <4> QED  BY <2>1, <4>2 DEF Below
    <3> QED  BY <1>2, <1>4, <2>2, <3>2, <3>3, SpreadGoesOn
  <2>4. z = Zero(semiring) \/ IdempotentOn(semiring, K)
    BY <1>2, <1>9, <2>1 DEF Exact, ExactOn
  <2>5. ASSUME NEW q \in States
        PROVE  Sum(semiring, fst, closure, d, h,
                   Times(semiring, r, Onward(semiring, fst, closure, state, pos + 1, q)), q)
               = closure[source][q]
    <3> HIDE DEF d, h, z, n
    <3>1. n = fst.trs[state][pos].nextstate
      BY DEF n
    <3>2. Sum(semiring, fst, closure, d, h,
              Times(semiring, r, Onward(semiring, fst, closure, state, pos + 1, q)), q)
          = Sum(semiring, fst, closure, d, h,
                Times(semiring, r, Onward(semiring, fst, closure, state, pos, q)), q)
      <4>1. \/ z = Zero(semiring)
            \/ /\ IdempotentOn(semiring, K)
               /\ Spread(semiring, fst, K, d, h, AllAt(semiring, state, r), pos + 1)
        BY <2>3, <2>4
      <4>2. Keep(fst.trs[state][pos]) /\ z = Times(semiring, r, fst.trs[state][pos].weight)
        BY <1>9, <2>2
      <4>3. /\ MachineOn(K, fst) /\ closure \in Sums(K) /\ Closes(semiring, fst, closure)
            /\ SemiringOn(semiring, K) /\ closure = PathSums(semiring, fst)[PathBound]
        BY <1>2
      <4>4. r \in K /\ state \in States /\ pos \in 1 .. Len(fst.trs[state])
        BY <1>2
      <4>5. d \in [States -> K] /\ h \in [States -> K]
        BY <1>2
      <4> HIDE DEF tr
      <4> QED  BY <2>1, <3>1, <4>1, <4>2, <4>3, <4>4, <4>5, SumKeeps
    <3> QED  BY <1>3, <3>2
  <2> HIDE DEF d, h
  <2> QED  BY <1>1, <1>7, <2>3, <2>5, SumsGoOn
<1> QED  BY <1>8, <1>9


\* A weight that changes it is added, and waits.
LEMMA RelaxMoreSums ==
    ASSUME IInv, SumsInv, RelaxMore
    PROVE  SumsInv'
<1> DEFINE tr == fst.trs[state][pos]
           n == tr.nextstate
           t == Touched(rows, n)
           d == DistancesIn(rows)
           h == RaddersIn(rows)
           f == DistancesIn(rows')
           g == RaddersIn(rows')
           z == Mul(r, tr.weight)
           waits == t[state].enqueued
<1>1. /\ pc = "relax" /\ pos <= Len(fst.trs[state]) /\ Keep(tr) /\ Examined
      /\ UNCHANGED <<semiring, fst, retain, source_id, state, r, source, closure>>
  BY DEF RelaxMore
<1> SUFFICES ASSUME NEW K, Exact(semiring, K, fst)
             PROVE  /\ RowsIn(rows, K)' /\ source' \in States /\ r' \in K
                    /\ closure' = PathSums(semiring', fst')[PathBound]
                    /\ SumsUp' /\ SpreadOut(K)' /\ pc' # "idle"
  BY <1>1 DEF SumsInv
<1>2. /\ RowsIn(rows, K) /\ source \in States /\ r \in K
      /\ closure = PathSums(semiring, fst)[PathBound]
      /\ MachineOn(K, fst) /\ closure \in Sums(K) /\ Closes(semiring, fst, closure)
      /\ SemiringOn(semiring, K)
      /\ state \in States /\ pos \in 1 .. Len(fst.trs[state]) /\ n \in States
      /\ tr.weight \in K /\ z \in K
      /\ d \in [States -> K] /\ h \in [States -> K]
  BY <1>1, SumsHere
<1>3. \A q \in States :
        Sum(semiring, fst, closure, d, h,
            Times(semiring, r, Onward(semiring, fst, closure, state, pos, q)), q)
        = closure[source][q]
  BY <1>1, SumsHere
<1>4. IdempotentOn(semiring, K) =>
        Spread(semiring, fst, K, d, h, AllAt(semiring, state, r), pos)
  BY <1>1, SumsHere
<1>5. RowsTyped(rows) /\ source_id \in Nat
  BY <1>1, RelaxFacts DEF IInv
<1>6. z = Times(semiring, r, tr.weight)
  BY DEF Mul
<1> HIDE DEF n
<1>7. /\ RowsIn(t, K) /\ DistancesIn(t) = d /\ RaddersIn(t) = h
      /\ RowsTyped(t) /\ n \in DOMAIN t /\ n \in LiveIn(t)
  BY <1>2, <1>5, TouchedRows, TouchedSame
<1>8. DOMAIN t[n] = {"distance", "adder", "radder", "enqueued", "source"}
  BY <1>7, NewRowFields DEF RowsTyped
<1>9. /\ DOMAIN rows' = DOMAIN t /\ \A x \in DOMAIN t \ {n} : rows'[x] = t[x]
      /\ rows'[n].source = t[n].source
      /\ rows'[n].adder = Add(t[n].adder, z)
      /\ rows'[n].distance = Add(t[n].adder, z)
      /\ rows'[n].radder = Add(t[n].radder, z)
  <2> HIDE DEF t, z, waits
  <2> DEFINE u == [t EXCEPT ![n].adder = Add(@, z),
                            ![n].distance = Add(t[n].adder, z),
                            ![n].radder = Add(@, z),
                            ![n].enqueued = @ \/ ~ waits]
  <2>1. rows' = u
    BY Zenon DEF RelaxMore, t, n, z, waits
  <2>2. /\ DOMAIN u = DOMAIN t /\ \A x \in DOMAIN t \ {n} : u[x] = t[x]
        /\ u[n].source = t[n].source
        /\ u[n].adder = Add(t[n].adder, z)
        /\ u[n].distance = Add(t[n].adder, z)
        /\ u[n].radder = Add(t[n].radder, z)
    BY <1>7, <1>8, RelaxedRows, Zenon
  <2> HIDE DEF u
  <2> QED  BY <2>1, <2>2
<1> HIDE DEF t, z, tr
<1>10. LiveIn(rows') = LiveIn(t)
  BY <1>7, <1>9 DEF LiveIn
<1>11. /\ t[n].distance = d[n] /\ t[n].radder = h[n] /\ t[n].adder = d[n]
  <2>1. DistancesIn(t)[n] = t[n].distance /\ RaddersIn(t)[n] = t[n].radder
    BY <1>2, <1>7 DEF DistancesIn, RaddersIn
  <2>2. t[n].adder = t[n].distance
    BY <1>7 DEF RowsIn
  <2> HIDE DEF d, h
  <2> QED  BY <1>7, <2>1, <2>2
<1>12. MoreAt(semiring, f, d, n, z)
  <2>1. f[n] = Plus(semiring, d[n], z)
    <3>1. DistancesIn(rows')[n] = rows'[n].distance
      BY <1>2, <1>7, <1>10 DEF DistancesIn
    <3> HIDE DEF d
    <3> QED  BY <1>9, <1>11, <3>1 DEF Add
  <2>2. \A p \in States : p # n => f[p] = DistancesIn(t)[p]
    BY <1>7, <1>9, <1>10 DEF DistancesIn, LiveIn
  <2> HIDE DEF d, f
  <2> QED  BY <1>7, <2>1, <2>2 DEF MoreAt
<1>13. MoreAt(semiring, g, h, n, z)
  <2>1. g[n] = Plus(semiring, h[n], z)
    <3>1. RaddersIn(rows')[n] = rows'[n].radder
      BY <1>2, <1>7, <1>10 DEF RaddersIn
    <3> HIDE DEF h
    <3> QED  BY <1>9, <1>11, <3>1 DEF Add
  <2>2. \A p \in States : p # n => g[p] = RaddersIn(t)[p]
    BY <1>7, <1>9, <1>10 DEF RaddersIn, LiveIn
  <2> HIDE DEF h, g
  <2> QED  BY <1>7, <2>1, <2>2 DEF MoreAt
<1>14. RowsIn(rows', K)
  <2>1. \A x \in K : Plus(semiring, x, z) \in K
    BY <1>2, AddLaws
  <2>2. t[n].adder \in K /\ t[n].radder \in K
    BY <1>7 DEF RowsIn
  <2>3. rows'[n].adder \in K /\ rows'[n].radder \in K /\ rows'[n].distance = rows'[n].adder
    BY <1>9, <2>1, <2>2 DEF Add
  <2>4. LiveIn(t) \subseteq DOMAIN t
    BY DEF LiveIn
  <2> QED  BY <1>7, <1>9, <1>10, <2>3, <2>4 DEF RowsIn
<1>15. f \in [States -> K] /\ g \in [States -> K]
  BY <1>14, RowsAdd
<1> HIDE DEF d, h, f, g
<1>16. /\ n = fst.trs[state][pos].nextstate
       /\ z = Times(semiring, r, fst.trs[state][pos].weight)
       /\ Keep(fst.trs[state][pos])
       /\ MoreAt(semiring, f, d, fst.trs[state][pos].nextstate,
                 Times(semiring, r, fst.trs[state][pos].weight))
       /\ MoreAt(semiring, g, h, fst.trs[state][pos].nextstate,
                 Times(semiring, r, fst.trs[state][pos].weight))
  <2>1. /\ n = fst.trs[state][pos].nextstate
        /\ z = Times(semiring, r, fst.trs[state][pos].weight)
        /\ Keep(fst.trs[state][pos])
    BY <1>1, <1>6 DEF n, tr
  <2> QED  BY <1>12, <1>13, <2>1
<1>17. ASSUME NEW q \in States
       PROVE  Sum(semiring, fst, closure, f, g,
                  Times(semiring, r, Onward(semiring, fst, closure, state, pos + 1, q)), q)
              = closure[source][q]
  <2>1. Sum(semiring, fst, closure, f, g,
            Times(semiring, r, Onward(semiring, fst, closure, state, pos + 1, q)), q)
        = Sum(semiring, fst, closure, d, h,
              Times(semiring, r, Onward(semiring, fst, closure, state, pos, q)), q)
    <3>1. Closed(semiring, K, fst, closure) /\ Keeps(fst, state, pos) /\ r \in K
      BY <1>2, <1>16 DEF Closed, Keeps
    <3>2. d \in [States -> K] /\ h \in [States -> K]
      BY <1>2
    <3> QED  BY <1>15, <1>16, <3>1, <3>2, SumCarriesOn
  <2> QED  BY <1>3, <2>1
<1>18. IdempotentOn(semiring, K) =>
         Spread(semiring, fst, K, f, g, AllAt(semiring, state, r), pos + 1)
  <2> SUFFICES ASSUME IdempotentOn(semiring, K)
               PROVE  Spread(semiring, fst, K, f, g, AllAt(semiring, state, r), pos + 1)
    OBVIOUS
  <2>1. \A x \in K : x = Plus(semiring, x, Zero(semiring)) /\ Zero(semiring) \in K
    BY <1>2, AddLaws
  <2>2. ASSUME NEW p \in States
        PROVE  \E y \in K : f[p] = Plus(semiring, d[p], y) /\ g[p] = Plus(semiring, h[p], y)
    <3>1. d[p] \in K /\ h[p] \in K
      BY <1>2
    <3>2. CASE p = n
      BY <1>2, <1>12, <1>13, <3>2 DEF MoreAt
    <3>3. CASE p # n
      <4>1. f[p] = d[p] /\ g[p] = h[p]
        BY <1>12, <1>13, <3>3 DEF MoreAt
      <4> QED  BY <2>1, <3>1, <4>1
    <3> QED  BY <3>2, <3>3
  <2>3. Below(semiring, z, f[n])
    <3>1. d[n] \in K
      BY <1>2
    <3>2. f[n] = Plus(semiring, d[n], z)
      BY <1>12 DEF MoreAt
    <3> QED  BY <1>2, <3>1, <3>2, BelowAll
  <2> QED  BY <1>2, <1>4, <1>15, <1>16, <2>2, <2>3, SpreadGoesOn
<1> QED  BY <1>1, <1>14, <1>17, <1>18, SumsGoOn DEF f, g

\* The transition is not of the kind that is followed.
LEMMA RelaxNoneSums ==
    ASSUME IInv, SumsInv, RelaxNone
    PROVE  SumsInv'
<1> DEFINE d == DistancesIn(rows)
           h == RaddersIn(rows)
<1>1. /\ pc = "relax" /\ pc' = "dequeue" /\ fst.trs[state] = <<>>
      /\ UNCHANGED <<semiring, fst, retain, rows, source_id, state, r, pos, source, closure>>
  BY DEF RelaxNone
<1>2. PassInv /\ pos = Len(fst.trs[state]) + 1 /\ state \in States
  BY <1>1 DEF IInv, PassInv, RowsInv, Live
<1> SUFFICES ASSUME NEW K, Exact(semiring, K, fst)
             PROVE  /\ RowsIn(rows, K)' /\ SumsUp' /\ SpreadOut(K)'
                    /\ source \in States /\ closure = PathSums(semiring, fst)[PathBound]
  BY <1>1 DEF SumsInv
<1>3. /\ RowsIn(rows, K) /\ source \in States /\ r \in K /\ SumsUp /\ SpreadOut(K)
      /\ closure = PathSums(semiring, fst)[PathBound]
  BY <1>1 DEF SumsInv
<1>4. MachineOn(K, fst) /\ closure \in Sums(K) /\ SemiringOn(semiring, K)
  BY <1>2, <1>3, SumsType DEF Exact, ExactOn
<1>5. DistancesIn(rows)' = d /\ RaddersIn(rows)' = h /\ RowsIn(rows, K)'
  BY <1>1, <1>3, InPrimed
<1>6. d \in [States -> K] /\ h \in [States -> K]
  BY <1>3, RowsAdd
<1> HIDE DEF d, h
<1>7. ASSUME NEW q \in States PROVE Way(q) = Way(q)'
  <2>1. Onward(semiring, fst, closure, state, pos, q) = Zero(semiring)
    BY <1>2, <1>4, OnwardPast
  <2>2. Times(semiring, r, Zero(semiring)) = Zero(semiring)
    BY <1>3, <1>4, MulLaws
  <2>3. Way(q) = Zero(semiring)
    BY <1>1, <2>1, <2>2 DEF Way, Mul
  <2>4. Way(q)' = Zero(semiring)
    BY <1>1 DEF Way, zero
  <2> QED  BY <2>3, <2>4
<1>8. SumsUp'
  <2>1. \A q \in States : Sum(semiring, fst, closure, d, h, Way(q), q) = closure[source][q]
    BY <1>3 DEF SumsUp, d, h
  <2>2. \A q \in States : Sum(semiring, fst, closure, d, h, Way(q)', q) = closure[source][q]
    BY <1>7, <2>1
  <2> QED  BY <1>1, <1>5, <2>2 DEF SumsUp
<1>9. SpreadOut(K)'
  <2>1. Taken = AllAt(semiring, state, r) /\ Taken' = Nothing(semiring)
    BY <1>1 DEF Taken, Nothing
  <2>2. IdempotentOn(semiring, K) =>
          Spread(semiring, fst, K, d, h, AllAt(semiring, state, r), Len(fst.trs[state]) + 1)
    BY <1>2, <1>3, <2>1 DEF SpreadOut, d, h
  <2>3. IdempotentOn(semiring, K) => Spread(semiring, fst, K, d, h, Nothing(semiring), pos)
    BY <1>2, <1>3, <1>4, <1>6, <2>2, SpreadEnds
  <2> QED  BY <1>1, <1>5, <2>1, <2>3 DEF SpreadOut
<1> QED  BY <1>3, <1>5, <1>8, <1>9

\* The queue is empty: nothing waits, the distances are the sums.
LEMMA EndSums ==
    ASSUME IInv, SumsInv, EndPass
    PROVE  SumsInv' /\ AnswerInv'
<1> DEFINE d == DistancesIn(rows)
           h == RaddersIn(rows)
<1>1. /\ pc = "dequeue" /\ pc' = "idle" /\ source_id' = source_id + 1 /\ IsEmpty(state_queue)
      /\ UNCHANGED <<semiring, fst, retain, rows, source, closure>>
  BY DEF EndPass
<1>2. PassInv /\ source_id \in Nat
  BY DEF IInv, PassInv, RowsInv
<1> SUFFICES ASSUME NEW K, Exact(semiring, K, fst)
             PROVE  /\ Answered'
                    /\ source \in States /\ closure = PathSums(semiring, fst)[PathBound]
  BY <1>1 DEF SumsInv, AnswerInv
<1>3. /\ RowsIn(rows, K) /\ source \in States /\ SumsUp
      /\ closure = PathSums(semiring, fst)[PathBound]
  BY <1>1 DEF SumsInv
<1>5. MachineOn(K, fst) /\ closure \in Sums(K) /\ SemiringOn(semiring, K)
  BY <1>2, <1>3, SumsType DEF Exact, ExactOn
<1>6. d \in [States -> K] /\ h \in [States -> K]
  BY <1>3, RowsAdd
<1>7. \A s \in States : h[s] = Zero(semiring)
  <2>1. Waiting(state_queue) = {}
    BY <1>1, <1>2 DEF PassInv, QueueFaithful, WellFormed
  <2>2. \A s \in Live : rows[s].radder = zero
    BY <1>1, <1>2, <2>1 DEF PassInv, QueueFaithful
  <2> QED  BY <2>2 DEF RaddersIn, LiveIn, Live, zero
<1>8. ASSUME NEW q \in States PROVE d[q] = closure[source][q]
  <2>1. Sum(semiring, fst, closure, d, h, Zero(semiring), q) = closure[source][q]
    BY <1>1, <1>3 DEF SumsUp, Way, zero
  <2> HIDE DEF d, h
  <2>2. Total(semiring, HeldAt(semiring, fst, closure, h, q)) = Zero(semiring)
    BY <1>5, <1>6, <1>7, HeldNothing
  <2>3. d[q] \in K /\ Zero(semiring) \in K
    BY <1>5, <1>6 DEF SemiringOn
  <2>4. \A x \in K : Plus(semiring, x, Zero(semiring)) = x
    BY <1>5, AddLaws
  <2> QED  BY <2>1, <2>2, <2>3, <2>4 DEF Sum
<1>9. LastIn' = LiveIn(rows)
  BY <1>1, <1>2 DEF LastIn, LiveIn
<1>10. Answered'
  <2>1. \A q \in States : (IF q \in LiveIn(rows) THEN rows[q].distance ELSE zero)
                           = closure[source][q]
    BY <1>8 DEF DistancesIn
  <2> QED  BY <1>1, <1>9, <2>1 DEF Answered, zero
<1> QED  BY <1>3, <1>10

-----------------------------------------------------------------------------
(* The theorems.                                                           *)

\* The weight types and machines of which this can be said: the weights form a
\* semiring in which comparing up to delta is comparing, its sum is idempotent
\* or loses nothing but zero, and longer paths than PathBound add nothing.
SumsExact == \A w \in Semirings : \E K : \A m \in Fsts(w) : Exact(w, K, m)

\* It holds before the first pass.
LEMMA InitSums == SDInit => SumsInv /\ AnswerInv
<1> SUFFICES ASSUME SDInit PROVE SumsInv /\ AnswerInv
  OBVIOUS
<1>1. pc = "idle" /\ source = None
  BY DEF SDInit, SDNew
<1> QED  BY <1>1 DEF SumsInv, AnswerInv

\* The steps of a pass.
LEMMA PassSums ==
    ASSUME IInv, SumsInv, Pass
    PROVE  SumsInv' /\ AnswerInv'
<1>1. CASE DequeueState
  <2>1. pc' # "idle"
    BY <1>1 DEF DequeueState
  <2> QED  BY <1>1, <2>1, DequeueSums DEF AnswerInv
<1>2. CASE RelaxNothing
  <2>1. pc' # "idle"
    BY <1>2 DEF RelaxNothing, Examined
  <2> QED  BY <1>2, <2>1, RelaxNothingSums DEF AnswerInv
<1>3. CASE RelaxMore
  <2>1. pc' # "idle"
    BY <1>3 DEF RelaxMore, Examined
  <2> QED  BY <1>3, <2>1, RelaxMoreSums DEF AnswerInv
<1>4. CASE RelaxNone
  <2>1. pc' # "idle"
    BY <1>4 DEF RelaxNone
  <2> QED  BY <1>4, <2>1, RelaxNoneSums DEF AnswerInv
<1>5. CASE EndPass
  BY <1>5, EndSums
<1> QED  BY <1>1, <1>2, <1>3, <1>4, <1>5 DEF Pass

\* A step of something else.
LEMMA StutterSums ==
    ASSUME SumsInv, UNCHANGED vars
    PROVE  SumsInv' /\ (AnswerInv => AnswerInv')
<1>1. /\ UNCHANGED <<semiring, fst, retain, rows, source_id, pc, state, r, pos, source, closure>>
  BY DEF vars
<1>2. DistancesIn(rows)' = DistancesIn(rows) /\ RaddersIn(rows)' = RaddersIn(rows)
  BY <1>1, InPrimed
<1>3. (\A q \in States : Way(q)' = Way(q)) /\ Taken' = Taken
  BY <1>1 DEF Way, Taken, Mul, zero
<1>4. SumsUp => SumsUp'
  BY <1>1, <1>2, <1>3 DEF SumsUp
<1>5. \A K : SpreadOut(K) => SpreadOut(K)'
  BY <1>1, <1>2, <1>3 DEF SpreadOut
<1>6. Answered => Answered'
  BY <1>1 DEF Answered, LastIn, zero
<1>7. \A K : RowsIn(rows, K) => RowsIn(rows, K)'
  BY <1>1, InPrimed
<1>8. SumsInv'
  BY <1>1, <1>4, <1>5, <1>7 DEF SumsInv
<1>9. AnswerInv => AnswerInv'
  BY <1>1, <1>6 DEF AnswerInv
<1> QED  BY <1>8, <1>9

\* Every step.
LEMMA StepSums ==
    ASSUME IInv, SumsInv, AnswerInv, [SDNext]_vars
    PROVE  SumsInv' /\ AnswerInv'
<1>1. fst.start \in States
  BY DEF IInv, PassInv, FstTyped
<1>2. ASSUME NEW s \in States, StartPass(s) PROVE SumsInv' /\ AnswerInv'
  <2>1. pc' # "idle"
    BY <1>2 DEF StartPass
  <2> QED  BY <1>2, <2>1, StartSums DEF AnswerInv
<1> QED  BY <1>1, <1>2, PassSums, StutterSums DEF SDNext

\* What the invariant says to a caller.
LEMMA SumsConserved ==
    ASSUME PassInv, SumsInv, AnswerInv, NEW K, Exact(semiring, K, fst)
    PROVE  Conserved /\ DistanceExact
<1>2. SemiringOn(semiring, K) /\ MachineOn(K, fst)
  BY SumsType DEF Exact, ExactOn
<1>3. ASSUME pc # "idle", NEW q \in States
      PROVE  Add(Distance(q), Pending(q)) = closure[source][q]
  <2>1. RowsIn(rows, K) /\ closure = PathSums(semiring, fst)[PathBound] /\ SumsUp
    BY <1>3 DEF SumsInv
  <2>2. closure \in Sums(K)
    BY <2>1, SumsType
  <2>3. LiveIn(rows) = Live
    BY DEF LiveIn, Live
  <2>4. DistancesIn(rows)[q] = Distance(q)
    BY <2>3 DEF DistancesIn, Distance
  <2>5. HeldAt(semiring, fst, closure, RaddersIn(rows), q) = Held(q)
    <3> SUFFICES ASSUME NEW i \in 1 .. N
                 PROVE  Times(semiring, RaddersIn(rows)[i - 1],
                              Onward(semiring, fst, closure, i - 1, 1, q))
                        = IF i - 1 \in Live
                          THEN Mul(rows[i - 1].radder, Onward(semiring, fst, closure, i - 1, 1, q))
                          ELSE zero
      BY DEF HeldAt, Held, N
    <3>1. i - 1 \in States
      BY NumberOfStates
    <3>2. Onward(semiring, fst, closure, i - 1, 1, q) \in K
      BY <1>2, <2>2, <3>1, CarriedType
    <3>3. Times(semiring, Zero(semiring), Onward(semiring, fst, closure, i - 1, 1, q))
          = Zero(semiring)
      BY <1>2, <3>2, MulLaws
    <3> QED  BY <2>3, <3>1, <3>3 DEF RaddersIn, Mul, zero
  <2>6. Pending(q) = Add(Way(q), Total(semiring, Held(q)))
    BY DEF Pending, Way
  <2>7. Sum(semiring, fst, closure, DistancesIn(rows), RaddersIn(rows), Way(q), q)
        = closure[source][q]
    BY <2>1 DEF SumsUp
  <2> QED  BY <2>4, <2>5, <2>6, <2>7 DEF Sum, Add
<1>4. ASSUME pc = "idle", source # None, NEW q \in States
      PROVE  Same(closure[source][q], IF q \in LastIn THEN rows[q].distance ELSE zero)
  <2>1. /\ source \in States /\ closure = PathSums(semiring, fst)[PathBound] /\ Answered
    BY <1>4 DEF AnswerInv
  <2>2. closure[source][q] \in K
    BY <2>1, SumsType DEF Sums
  <2>3. (IF q \in LastIn THEN rows[q].distance ELSE zero) = closure[source][q]
    BY <2>1 DEF Answered
  <2> QED  BY <2>2, <2>3 DEF Exact, ExactOn, Same
<1> QED  BY <1>3, <1>4 DEF Conserved, DistanceExact, LastIn

\* The machine and the weights are those of the start.
FstGiven == semiring \in Semirings /\ fst \in Fsts(semiring)

\* Nothing changes them.
LEMMA GivenKept == (SDInit => FstGiven) /\ (FstGiven /\ [SDNext]_vars => FstGiven')
BY DEF FstGiven, SDInit, SDNew, SDNext, Pass, StartPass, DequeueState, RelaxNothing, RelaxMore,
       RelaxNone, EndPass, vars

\* No weight is lost and none is counted twice: at every step what a state has
\* and what is under way to it add up to the sum over all its paths.  For every
\* machine, queue discipline and weight type with the laws of a semiring that
\* is idempotent or loses only zero in a sum.
THEOREM ConservedHolds == LoopsHarmless /\ SumsExact => (SDSpec => []Conserved)
<1> SUFFICES ASSUME LoopsHarmless, SumsExact PROVE SDSpec => []Conserved
  OBVIOUS
<1> DEFINE Inv == IInv /\ SumsInv /\ AnswerInv /\ FstGiven
<1>1. SDInit => Inv
  BY InitHolds, InitSums, GivenKept
<1>2. Inv /\ [SDNext]_vars => Inv'
  BY StepKeeps, StepSums, GivenKept
<1>3. Inv => Conserved
  <2> SUFFICES ASSUME Inv PROVE Conserved
    OBVIOUS
  <2>1. PICK K : Exact(semiring, K, fst)
    BY DEF SumsExact, FstGiven
  <2> QED  BY <2>1, SumsConserved DEF IInv
<1> QED  BY <1>1, <1>2, <1>3, PTL DEF SDSpec

\* And so the answer of a pass is exactly the sum over all the paths, rows left
\* by earlier passes and the order of the queue notwithstanding.
THEOREM DistanceExactHolds == LoopsHarmless /\ SumsExact => (SDSpec => []DistanceExact)
<1> SUFFICES ASSUME LoopsHarmless, SumsExact PROVE SDSpec => []DistanceExact
  OBVIOUS
<1> DEFINE Inv == IInv /\ SumsInv /\ AnswerInv /\ FstGiven
<1>1. SDInit => Inv
  BY InitHolds, InitSums, GivenKept
<1>2. Inv /\ [SDNext]_vars => Inv'
  BY StepKeeps, StepSums, GivenKept
<1>3. Inv => DistanceExact
  <2> SUFFICES ASSUME Inv PROVE DistanceExact
    OBVIOUS
  <2>1. PICK K : Exact(semiring, K, fst)
    BY DEF SumsExact, FstGiven
  <2> QED  BY <2>1, SumsConserved DEF IInv
<1> QED  BY <1>1, <1>2, <1>3, PTL DEF SDSpec
=============================================================================
