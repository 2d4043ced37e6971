----------------------------- MODULE FormalSums -----------------------------
(***************************************************************************)
(* One weight taken through a sequence of the operations of its semiring,  *)
(* beside the formal sum of strings and numbers that the same operations   *)
(* make.  A formal sum is a function from the strings that occur in it to  *)
(* their numbers; what a weight is worth is read off the whole sum, not    *)
(* kept step by step.                                                      *)
(***************************************************************************)
EXTENDS Semirings
LOCAL INSTANCE SequencesExt
LOCAL INSTANCE FiniteSetsExt
LOCAL INSTANCE TLC

CONSTANTS
  Kinds,           \* the semirings, with those of their reversed weights
  Terms(_),        \* of a kind: the terms <<string, number>> of its weights
  MaxOps,          \* operations of a behaviour
  MaxTerms         \* terms of a formal sum

VARIABLES kind, acc, sum, ops
vars == <<kind, acc, sum, ops>>

SemiringFor == [k \in Kinds |-> SemiringOf(k)]
S == SemiringFor[kind]
NumbersFor == [k \in Kinds |-> IF k.shape = "string" THEN Number("boolean") ELSE Number(k.of)]
Numbers == NumbersFor[kind]

(* The weight of one term, as the constructors make it, and of a sequence  *)
(* of terms.                                                               *)
WeightOf(k, term) ==
  CASE k.shape = "number" -> term[2]
    [] k.shape = "string" -> term[1]
    [] k.shape = "gallic" -> term
    [] k.shape = "union" -> <<term>>
WeightOfTerms(A, terms) ==
  FoldLeft(LAMBDA w, t : A.plus[w, WeightOf(kind, t)], A.zero, terms)

---------------------------------------------------------------------------
(* Formal sums. *)

Empty == [s \in {} |-> 0]
Single(term) == term[1] :> term[2]
ValueIn(p, s, B) == IF s \in DOMAIN p THEN p[s] ELSE B.zero
SumPlus(B, p, q) ==
  [s \in (DOMAIN p) \cup (DOMAIN q) |-> B.plus[ValueIn(p, s, B), ValueIn(q, s, B)]]
TotalOf(B, X, f(_)) == FoldSet(LAMBDA x, n : B.plus[n, f(x)], B.zero, X)
SumOfTerms(B, terms) == FoldLeft(LAMBDA p, t : SumPlus(B, p, Single(t)), Empty, terms)
SumTimes(B, p, q) ==
  [s \in {u \o v : u \in DOMAIN p, v \in DOMAIN q} |->
     TotalOf(B, {w \in (DOMAIN p) \X (DOMAIN q) : w[1] \o w[2] = s},
             LAMBDA w : B.times[p[w[1]], q[w[2]]])]
SumReverse(p) == [s \in {Reverse(t) : t \in DOMAIN p} |-> p[Reverse(s)]]
SumOver(B, p, d) ==
  [s \in {SubSeq(t, Len(d[1]) + 1, Len(t)) : t \in DOMAIN p} |-> B.overLeft[p[d[1] \o s], d[2]]]

---------------------------------------------------------------------------
Init == /\ kind \in Kinds
        /\ acc = S.zero
        /\ sum = Empty
        /\ ops = 0

Step(k, a, p) == /\ kind' = k
                 /\ acc' = a
                 /\ sum' = p
                 /\ ops' = ops + 1
(* An operation that returned an error leaves no weight to go on with. *)
Going == acc # Err /\ ops < MaxOps
Small(p) == Cardinality(DOMAIN p) <= MaxTerms
Becomes(a, p) == Small(p) /\ Step(kind, a, p)

Plus == Going /\ \E t \in Terms(kind) :
  Becomes(S.plus[acc, WeightOf(kind, t)], SumPlus(Numbers, sum, Single(t)))

(* A semiring is multiplied on the side it distributes from; by a sum of   *)
(* two terms only if it does from both.                                    *)
Factors == {<<t>> : t \in Terms(kind)}
           \cup (IF Ring \subseteq S.claims /\ kind.side # "restrict"
                 THEN {<<t, u>> : t \in Terms(kind), u \in Terms(kind)} ELSE {})
TimesLeft == /\ Going /\ "LEFT_SEMIRING" \in S.claims
             /\ \E f \in Factors :
                  Becomes(S.times[WeightOfTerms(S, f), acc],
                          SumTimes(Numbers, SumOfTerms(Numbers, f), sum))
TimesRight == /\ Going /\ "RIGHT_SEMIRING" \in S.claims
              /\ \E f \in Factors :
                   Becomes(S.times[acc, WeightOfTerms(S, f)],
                           SumTimes(Numbers, sum, SumOfTerms(Numbers, f)))

(* What common divisors are made for: a term that begins every term of the *)
(* sum is divided out of it.                                               *)
Divides(d) == sum # Empty /\ \A s \in DOMAIN sum : IsPrefix(d[1], s)
DivideBy(q, d) == q # Err /\ Step(kind, q, SumOver(Numbers, sum, d))
Divide == Going /\ \E d \in Terms(kind) :
  Divides(d) /\ DivideBy(S.overLeft[acc, WeightOf(kind, d)], d)

ReverseWeight == Going /\ Step(ReverseKind(kind), S.reverse[acc], SumReverse(sum))

Quantize == /\ Going /\ kind.of = "tropical"
            /\ Step(kind, S.quantize[acc], [s \in DOMAIN sum |-> Rounded(sum[s])])

(* Written to a file and read back. *)
WriteAndRead == Going /\ \E text \in BOOLEAN :
  /\ kind.of \notin {"boolean", "trivial"}
  /\ Step(kind, Read(kind, text, Write(kind, text, acc)).value, sum)

Next == \/ Plus \/ TimesLeft \/ TimesRight \/ Divide
        \/ ReverseWeight \/ Quantize \/ WriteAndRead
Spec == Init /\ [][Next]_vars

---------------------------------------------------------------------------
(* Properties. *)

Total(p) == TotalOf(Numbers, DOMAIN p, LAMBDA s : p[s])
(* The longest string that begins all strings of a set, as a definition. *)
BeginsAll(s, strings) ==
  /\ \A t \in strings : IsPrefix(s, t)
  /\ \A t \in strings : Len(t) > Len(s) =>
       \E u \in strings : ~IsPrefix(SubSeq(t, 1, Len(s) + 1), u)
StringOf(side, s, p) ==
  CASE DOMAIN p = {} -> s = Infinity
    [] DOMAIN p # {} /\ side = "left" -> BeginsAll(s, DOMAIN p)
    [] DOMAIN p # {} /\ side = "right" -> BeginsAll(Reverse(s), {Reverse(t) : t \in DOMAIN p})
    [] DOMAIN p # {} /\ side = "restrict" -> DOMAIN p = {s}
    [] DOMAIN p # {} /\ side = "min" -> s \in DOMAIN p /\ p[s] = Total(p)

(* A weight is what its semiring makes of the whole sum: the total, the    *)
(* longest common prefix or suffix, the only string, the string of the     *)
(* least number, or the sum itself, in order and without repetitions.  A   *)
(* sum is refused only by the restricted kinds, when it has two strings.   *)
(* (semirings/*.rs: any number of plus, times, divide, reverse, quantize,  *)
(* write and read in a row.)                                               *)
Denotes ==
  CASE acc = Err -> kind.side = "restrict" /\ kind.shape # "union" /\ Cardinality(DOMAIN sum) > 1
    [] acc # Err /\ kind.shape = "number" -> acc = Total(sum)
    [] acc # Err /\ kind.shape = "string" -> StringOf(kind.side, acc, sum)
    [] acc # Err /\ kind.shape = "gallic" ->
         StringOf(kind.side, acc[1], sum) /\ acc[2] = Total(sum)
    [] acc # Err /\ kind.shape = "union" ->
         /\ \A i \in 1 .. Len(acc) - 1 : Before(acc[i][1], acc[i + 1][1])
         /\ {acc[i] : i \in DOMAIN acc} = {<<s, sum[s]>> : s \in DOMAIN sum}

(* What the documentation of Semiring says of a semiring (a commutative    *)
(* monoid of sums, a monoid of products, an annihilator: semiring.rs:30-34) *)
(* and, as far as it claims them, what properties() adds: distribution from *)
(* a side, commutative products, idempotence, paths.  At the weight reached *)
(* and the weights of single terms.  One exception: see Commutes.          *)
Defined(x, y) == Err \notin {x, y} => x = y
Op(f, x, y) == IF Err \in {x, y} THEN Err ELSE f[x, y]
Distributes(A, a, b, c) ==
  /\ "LEFT_SEMIRING" \in A.claims =>
       Defined(Op(A.times, c, Op(A.plus, a, b)), Op(A.plus, A.times[c, a], A.times[c, b]))
  /\ "RIGHT_SEMIRING" \in A.claims =>
       Defined(Op(A.times, Op(A.plus, a, b), c), Op(A.plus, A.times[a, c], A.times[b, c]))
  /\ Defined(Op(A.plus, Op(A.plus, a, b), c), Op(A.plus, a, Op(A.plus, b, c)))
  /\ A.times[A.times[a, b], c] = A.times[a, A.times[b, c]]
Claimed(A, a, b) ==
  /\ "COMMUTATIVE" \in A.claims => A.times[a, b] = A.times[b, a]
  /\ "IDEMPOTENT" \in A.claims => A.plus[a, a] = a
  /\ "PATH" \in A.claims => A.plus[a, b] \in {a, b}
Units(A, a) ==
  /\ A.plus[a, A.zero] = a /\ A.plus[A.zero, a] = a
  /\ A.times[a, A.one] = a /\ A.times[A.one, a] = a
  /\ A.times[a, A.zero] = A.zero /\ A.times[A.zero, a] = A.zero

(* Division undoes multiplication on its side; reversal turns products     *)
(* around and undoes itself.                                               *)
Undone(A, a, d) ==
  d # A.zero => /\ Defined(A.overLeft[A.times[d, a], d], a)
                /\ Defined(A.overRight[A.times[a, d], d], a)
Reversed(A, R, a, b) ==
  /\ R.reverse[A.reverse[a]] = a
  /\ A.reverse[A.times[a, b]] = R.times[A.reverse[b], A.reverse[a]]
  /\ A.plus[a, b] # Err => A.reverse[A.plus[a, b]] = R.plus[A.reverse[a], A.reverse[b]]

(* Sums commute, except those of gallic weights of side min that have the  *)
(* same number: each order keeps the string of its second operand          *)
(* (gallic_weight.rs:107-111), against semiring.rs:32.                     *)
Tied(a, b) == kind.shape = "gallic" /\ kind.side = "min" /\ a[2] = b[2]
Commutes(A, a, b) ==
  /\ ~Tied(a, b) => A.plus[a, b] = A.plus[b, a]
  /\ Tied(a, b) => A.plus[a, b] = b /\ A.plus[b, a] = a

LawfulAt(A, R, a, samples) ==
  /\ Units(A, a)
  /\ \A b \in samples : /\ Commutes(A, a, b) /\ Claimed(A, a, b)
                         /\ Undone(A, a, b) /\ Reversed(A, R, a, b)
  /\ \A b, c \in samples : Distributes(A, a, b, c)
Lawful == acc # Err => LawfulAt(S, SemiringFor[ReverseKind(kind)], acc,
                                {WeightOf(kind, t) : t \in Terms(kind)})
=============================================================================
