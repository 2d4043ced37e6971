------------------------- MODULE MCShortestDistance -------------------------
(***************************************************************************)
(* Weights of three types.  "series": the polynomials in x with natural    *)
(* coefficients, cut after x^2, every transition weighing x: a path of n   *)
(* transitions weighs x^n, so a sum counts the paths of each length, and a *)
(* path that is lost or counted twice shows.  "tropical": min and +, with  *)
(* weights 0 and 1, where a path that does not improve must be dropped.    *)
(* "probability", in 64ths: + and *, where the code's delta of 1/8 matters. *)
(***************************************************************************)
EXTENDS ShortestDistance, TLC

CONSTANT Infinity

MCStates == 0 .. 2
MCSemirings == {"series", "tropical"}
MCIdempotent == {"tropical"}

X == <<0, 1, 0>>

MCZero(w) == CASE w = "series" -> <<0, 0, 0>>
               [] w = "tropical" -> Infinity [] w = "probability" -> 0
MCOne(w) == CASE w = "series" -> <<1, 0, 0>>
              [] w = "tropical" -> 0 [] w = "probability" -> 64

MCPlus(w, a, b) ==
    IF w = "series" THEN [i \in 1 .. 3 |-> a[i] + b[i]]
    ELSE IF w = "probability" THEN a + b
    ELSE IF a = Infinity THEN b
    ELSE IF b = Infinity THEN a
    ELSE Min({a, b})

MCTimes(w, a, b) ==
    IF w = "series"
    THEN <<a[1] * b[1], a[1] * b[2] + a[2] * b[1],
           a[1] * b[3] + a[2] * b[2] + a[3] * b[1]>>
    ELSE IF w = "probability" THEN (a * b) \div 64
    ELSE IF Infinity \in {a, b} THEN Infinity
    ELSE a + b

Delta == 8
MCApproxEqual(w, a, b) ==
    IF w = "probability" THEN a <= b + Delta /\ b <= a + Delta ELSE a = b

Weights(w) == IF w = "series" THEN {X} ELSE {0, 1}

Arcs(w) == [label : {Eps}, weight : Weights(w), nextstate : MCStates]

\* A loop that counts is the last transition of its state: shortest_distance is
\* wrong otherwise (see SelfLooped).
LoopLast(s, trs) == \A i \in DOMAIN trs : trs[i].nextstate = s => i = Len(trs)

\* At most two transitions from state 0, and from state 1 when they are
\* unweighted; at most one from the others.
Two(w, s) == s = 0 \/ (s = 1 /\ w = "series")

TrsOf(w, s) ==
    {trs \in {<<>>} \cup {<<t>> : t \in Arcs(w)}
             \cup (IF Two(w, s) THEN {<<t, u>> : t, u \in Arcs(w)} ELSE {}) :
       w = "series" => LoopLast(s, trs)}

MCFsts(w) ==
    {[start |-> 0, trs |-> 0 :> t0 @@ 1 :> t1 @@ 2 :> t2,
      final |-> [s \in MCStates |-> MCZero(w)]] :
       t0 \in TrsOf(w, 0), t1 \in TrsOf(w, 1), t2 \in TrsOf(w, 2)}

\* A machine over probabilities: state 0 has a loop of weight 1/2, then a
\* transition of weight 1/4 to state 1, which has one of weight 1 to state 2.
Step(weight, next) == [label |-> Eps, weight |-> weight, nextstate |-> next]
Probabilities == {"probability"}
SelfLooped(w) ==
    {[start |-> 0,
      trs |-> 0 :> <<Step(32, 0), Step(16, 1)>> @@ 1 :> <<Step(64, 2)>> @@ 2 :> <<>>,
      final |-> [s \in MCStates |-> 0]]}

\* What the theorems ask of these machines (see ShortestDistance_proofs): paths of
\* more than PathBound transitions add nothing to the sums over the others.
ASSUME SumsClose ==
    \A w \in Semirings \ Probabilities : \A m \in Fsts(w) :
      LET C == PathSums(w, m)[PathBound] IN Longer(w, m, C) = C

=============================================================================
