----------------------------- MODULE Semirings ------------------------------
(***************************************************************************)
(* The weights of src/rustfst/src/semirings.  A semiring is a record of    *)
(* the functions its type implements:                                      *)
(*   zero, one, plus, times, reverse        the trait Semiring             *)
(*   overLeft, overRight                    divide with DivideLeft, Right  *)
(*   quantize                               WeightQuantize                 *)
(*   claims                                 Semiring::properties           *)
(* and of the set of its values.  A function that answers with an error    *)
(* returns Err.  Floats are replaced by exact numbers: tropical weights by *)
(* integers, probabilities by fractions, and a log weight by the           *)
(* probability it is the logarithm of.                                     *)
(*                                                                         *)
(* A kind names a semiring: [shape, side, of], where shape is "number",    *)
(* "string", "gallic" or "union", side tells the strings and of the        *)
(* numbers.                                                                *)
(***************************************************************************)
EXTENDS Integers, Sequences, FiniteSets
LOCAL INSTANCE SequencesExt
LOCAL INSTANCE FiniteSetsExt

CONSTANTS
  Err,         \* the answer of a call that returns an error
  Half,        \* an integer weight is in -Half .. Half - 1
  Delta        \* quantization rounds to a multiple of it

ASSUME SemiringsAssumption == Half \in Nat \ {0} /\ Delta \in Nat \ {0}

Ring == {"LEFT_SEMIRING", "RIGHT_SEMIRING"}
WithoutPath == Ring \cup {"COMMUTATIVE", "IDEMPOTENT"}
Kind(shape, side, of) == [shape |-> shape, side |-> side, of |-> of]

---------------------------------------------------------------------------
(* Numbers.  A type that has no division or no quantization answers Err.   *)

Boolean ==
  [values |-> BOOLEAN, zero |-> FALSE, one |-> TRUE,
   plus |-> [x, y \in BOOLEAN |-> x \/ y], times |-> [x, y \in BOOLEAN |-> x /\ y],
   over |-> [x, y \in BOOLEAN |-> IF y THEN x ELSE Err],
   quantize |-> [x \in BOOLEAN |-> Err],
   claims |-> Ring \cup {"COMMUTATIVE", "IDEMPOTENT", "PATH"}]

Trivial ==
  [values |-> {0}, zero |-> 0, one |-> 0,
   plus |-> [x, y \in {0} |-> 0], times |-> [x, y \in {0} |-> 0],
   over |-> [x, y \in {0} |-> Err], quantize |-> [x \in {0} |-> Err],
   claims |-> Ring \cup {"COMMUTATIVE", "IDEMPOTENT", "PATH"}]

(* i32, as it wraps in a release build. *)
Wrapped(n) == ((n + Half) % (2 * Half)) - Half
Integer ==
  [values |-> Int, zero |-> 0, one |-> 1,
   plus |-> [x, y \in Int |-> Wrapped(x + y)], times |-> [x, y \in Int |-> Wrapped(x * y)],
   over |-> [x, y \in Int |-> Err], quantize |-> [x \in Int |-> Err],
   claims |-> Ring \cup {"COMMUTATIVE"}]

(* A difference with the infinite weight is no tropical weight. *)
Inf == 1000
Rounded(n) == ((n + Delta \div 2) \div Delta) * Delta
TropicalPlus(x, y) == IF y < x THEN y ELSE x
TropicalTimes(x, y) == IF Inf \in {x, y} THEN Inf ELSE x + y
TropicalDivide(x, y) == IF y = Inf THEN Err ELSE IF x = Inf THEN Inf ELSE x - y
Tropical ==
  [values |-> Int, zero |-> Inf, one |-> 0,
   plus |-> [x, y \in Int |-> TropicalPlus(x, y)],
   times |-> [x, y \in Int |-> TropicalTimes(x, y)],
   over |-> [x, y \in Int |-> TropicalDivide(x, y)],
   quantize |-> [x \in Int |-> IF x = Inf THEN x ELSE Rounded(x)],
   claims |-> Ring \cup {"COMMUTATIVE", "PATH", "IDEMPOTENT"}]

(* Fractions in lowest terms. *)
Fractions == Nat \X (Nat \ {0})
Fraction(n, d) ==
  LET g == Max({k \in 1 .. d : d % k = 0 /\ n % k = 0}) IN <<n \div g, d \div g>>
SumOf(x, y) == Fraction(x[1] * y[2] + y[1] * x[2], x[2] * y[2])
ProductOf(x, y) == Fraction(x[1] * y[1], x[2] * y[2])
QuotientOf(x, y) == Fraction(x[1] * y[2], x[2] * y[1])
AtMost(x, y) == x[1] * y[2] <= y[1] * x[2]

(* The nearest multiple of Delta, the larger of two.                       *)
RoundedFraction(x) == Fraction(((2 * x[1] + Delta * x[2]) \div (2 * Delta * x[2])) * Delta, 1)

Probability ==
  [values |-> Fractions, zero |-> <<0, 1>>, one |-> <<1, 1>>,
   plus |-> [x, y \in Fractions |-> SumOf(x, y)],
   times |-> [x, y \in Fractions |-> ProductOf(x, y)],
   over |-> [x, y \in Fractions |-> IF y[1] = 0 THEN Err ELSE QuotientOf(x, y)],
   quantize |-> [x \in Fractions |-> RoundedFraction(x)],
   claims |-> Ring \cup {"COMMUTATIVE"}]

(* A log weight is rounded, not its probability: to the nearest multiple   *)
(* of Delta * ln 2, the larger weight of two, so that its probability is a *)
(* power of two again.                                                     *)
PowerOfTwo(n) == IF n >= 0 THEN <<2 ^ n, 1>> ELSE <<1, 2 ^ (-n)>>
RoundedLog(x) ==
  LET covers(m) == x[1] <= 2 ^ m /\ x[2] <= 2 ^ m   \* x is between 2 ^ -m and 2 ^ m
      size == CHOOSE m \in 0 .. x[1] + x[2] :
                covers(m) /\ \A n \in 0 .. m - 1 : ~covers(n)
      k == CHOOSE n \in -size .. size :
             /\ AtMost(ProductOf(x, x), PowerOfTwo((1 - 2 * n) * Delta))
             /\ ~AtMost(ProductOf(x, x), PowerOfTwo((-1 - 2 * n) * Delta))
  IN  PowerOfTwo(-k * Delta)

(* plus_assign and times_assign treat infinity, the zero, apart; of two    *)
(* others plus takes the smaller weight, the larger probability, out of    *)
(* the sum.                                                                *)
LnPosExp(x, y) == SumOf(<<1, 1>>, QuotientOf(x, y))
Log ==
  [values |-> Fractions, zero |-> <<0, 1>>, one |-> <<1, 1>>,
   plus |-> [x, y \in Fractions |->
     IF x[1] = 0 THEN y ELSE IF y[1] = 0 THEN x
     ELSE IF x[1] * y[2] < y[1] * x[2] THEN ProductOf(y, LnPosExp(x, y))
     ELSE ProductOf(x, LnPosExp(y, x))],
   times |-> [x, y \in Fractions |->
     IF x[1] = 0 THEN x ELSE IF y[1] = 0 THEN y ELSE ProductOf(x, y)],
   over |-> [x, y \in Fractions |-> IF y[1] = 0 THEN Err ELSE QuotientOf(x, y)],
   quantize |-> [x \in Fractions |-> IF x[1] = 0 THEN x ELSE RoundedLog(x)],
   claims |-> Ring \cup {"COMMUTATIVE"}]

(* They are their own reverse and do not look at the side of a division.   *)
Commutative(n) ==
  [values |-> n.values, zero |-> n.zero, one |-> n.one, plus |-> n.plus, times |-> n.times,
   overLeft |-> n.over, overRight |-> n.over, quantize |-> n.quantize,
   reverse |-> [x \in n.values |-> x], claims |-> n.claims]
Number(name) ==
  Commutative(CASE name = "boolean" -> Boolean [] name = "trivial" -> Trivial
                [] name = "integer" -> Integer [] name = "tropical" -> Tropical
                [] name = "log" -> Log [] name = "probability" -> Probability)

---------------------------------------------------------------------------
(* Strings of labels, and infinity, which is none. *)

Infinity == <<-1>>
Strings == Seq(Int)

CommonPrefix(s, t) ==
  SubSeq(s, 1, Max({n \in 0 .. Len(s) : n <= Len(t) /\ SubSeq(s, 1, n) = SubSeq(t, 1, n)}))
StringSum(side, s, t) ==
  CASE side = "left" -> CommonPrefix(s, t)
    [] side = "right" -> Reverse(CommonPrefix(Reverse(s), Reverse(t)))
    [] side = "restrict" -> IF s = t THEN s ELSE Err
StringPlus(side, s, t) ==
  IF s = Infinity THEN t ELSE IF t = Infinity THEN s ELSE StringSum(side, s, t)
StringTimes(s, t) == IF Infinity \in {s, t} THEN Infinity ELSE s \o t

(* A division by infinity panics. *)
StringDivideLeft(s, t) ==
  IF t = Infinity THEN Err ELSE IF s = Infinity THEN s ELSE SubSeq(s, Len(t) + 1, Len(s))
StringDivideRight(s, t) ==
  IF t = Infinity THEN Err ELSE IF s = Infinity THEN s ELSE SubSeq(s, 1, Len(s) - Len(t))
StringReverse(s) == IF s = Infinity THEN s ELSE Reverse(s)
StringClaimsRing(side) == {"IDEMPOTENT"} \cup Ring
StringClaims(side) ==
  {"IDEMPOTENT"} \cup (CASE side = "left" -> {"LEFT_SEMIRING"}
                         [] side = "right" -> {"RIGHT_SEMIRING"}
                         [] side = "restrict" -> Ring)

StringWeight(side) ==
  [values |-> Strings, zero |-> Infinity, one |-> <<>>,
   plus |-> [s, t \in Strings |-> StringPlus(side, s, t)],
   times |-> [s, t \in Strings |-> StringTimes(s, t)],
   overLeft |-> [s, t \in Strings |-> IF side = "right" THEN Err ELSE StringDivideLeft(s, t)],
   overRight |-> [s, t \in Strings |-> IF side = "left" THEN Err ELSE StringDivideRight(s, t)],
   quantize |-> [s \in Strings |-> s], reverse |-> [s \in Strings |-> StringReverse(s)],
   claims |-> StringClaims(side)]

---------------------------------------------------------------------------
(* Pairs. *)

Both(x, y) == IF Err \in {x, y} THEN Err ELSE <<x, y>>
ProductWeight(A, B) ==
  LET values == A.values \X B.values
  IN  [values |-> values, zero |-> <<A.zero, B.zero>>, one |-> <<A.one, B.one>>,
       plus |-> [x, y \in values |-> Both(A.plus[x[1], y[1]], B.plus[x[2], y[2]])],
       times |-> [x, y \in values |-> Both(A.times[x[1], y[1]], B.times[x[2], y[2]])],
       overLeft |-> [x, y \in values |-> Both(A.overLeft[x[1], y[1]], B.overLeft[x[2], y[2]])],
       overRight |-> [x, y \in values |-> Both(A.overRight[x[1], y[1]], B.overRight[x[2], y[2]])],
       quantize |-> [x \in values |-> Both(A.quantize[x[1]], B.quantize[x[2]])],
       reverse |-> [x \in values |-> Both(A.reverse[x[1]], B.reverse[x[2]])],
       claims |-> A.claims \cap B.claims \cap WithoutPath]

(* A string and a number.  The sum of side min is the operand of smaller   *)
(* number, the second one of two equals; its strings are restricted ones.  *)
NaturalLess(B, x, y) == B.plus[x, y] = x /\ x # y
GallicMinSum(B, x, y) == IF NaturalLess(B, x[2], y[2]) THEN x ELSE y
GallicOf(side, P, B) ==
  IF side = "min" THEN [P EXCEPT !.plus = [x, y \in P.values |-> GallicMinSum(B, x, y)]] ELSE P
GallicWeight(side, B) ==
  GallicOf(side, ProductWeight(StringWeight(IF side = "min" THEN "restrict" ELSE side), B), B)

---------------------------------------------------------------------------
(* Sets of pairs of different strings, as lists: shorter strings first,    *)
(* then in the order of the labels.  G is the semiring of the pairs and B  *)
(* that of their numbers.                                                  *)

LenLabels(s) == IF s = Infinity THEN 0 ELSE Len(s)
Before(s, t) ==
  \/ LenLabels(s) < LenLabels(t)
  \/ /\ LenLabels(s) = LenLabels(t)
     /\ \E i \in 1 .. LenLabels(s) : s[i] < t[i] /\ SubSeq(s, 1, i - 1) = SubSeq(t, 1, i - 1)
MergeFirst(B, x, y) == x
Merge(B, x, y) == <<x[1], B.plus[x[2], y[2]]>>

(* push_back(.., true): only the last element is looked at. *)
PushBack(B, list, x) ==
  IF list = <<>> THEN <<x>>
  ELSE IF Before(Last(list)[1], x[1]) THEN Append(list, x)
  ELSE Append(Front(list), Merge(B, Last(list), x))
Pushed(B, xs) == FoldLeft(LAMBDA list, x : PushBack(B, list, x), <<>>, xs)

RECURSIVE Merged(_, _)
Merged(xs, ys) ==
  IF xs = <<>> \/ ys = <<>> THEN xs \o ys
  ELSE IF Before(xs[1][1], ys[1][1]) THEN <<xs[1]>> \o Merged(Tail(xs), ys)
  ELSE <<ys[1]>> \o Merged(xs, Tail(ys))
UnionPlus(B, xs, ys) ==
  IF xs = <<>> THEN ys ELSE IF ys = <<>> THEN xs ELSE Pushed(B, Merged(xs, ys))
UnionTimes(G, B, xs, ys) ==
  IF <<>> \in {xs, ys} THEN <<>>
  ELSE FoldLeft(LAMBDA sum, x :
                  UnionPlus(B, sum, Pushed(B, [j \in DOMAIN ys |-> G.times[x, ys[j]]])),
                <<>>, xs)

(* One of the two must be a single pair. *)
UnionOver(B, over, xs, ys) ==
  LET dividend == IF ys = <<>> THEN <<>> ELSE xs
      quotients == IF Len(dividend) = 1 THEN Reverse([j \in DOMAIN ys |-> over[xs[1], ys[j]]])
                   ELSE [i \in DOMAIN dividend |-> over[dividend[i], ys[1]]]
  IN  IF Len(dividend) # 1 /\ Len(ys) # 1 THEN Err
      ELSE IF Err \in ToSet(quotients) THEN Err
      ELSE Pushed(B, quotients)
UnionReverse(G, xs) ==
  SortSeq([i \in DOMAIN xs |-> G.reverse[xs[i]]], LAMBDA x, y : Before(x[1], y[1]))

UnionOf(G, B) ==
  LET values == Seq(G.values)
  IN  [values |-> values, zero |-> <<>>, one |-> <<G.one>>,
       plus |-> [xs, ys \in values |-> UnionPlus(B, xs, ys)],
       times |-> [xs, ys \in values |-> UnionTimes(G, B, xs, ys)],
       overLeft |-> [xs, ys \in values |-> UnionOver(B, G.overLeft, xs, ys)],
       overRight |-> [xs, ys \in values |-> UnionOver(B, G.overRight, xs, ys)],
       quantize |-> [xs \in values |-> Pushed(B, [i \in DOMAIN xs |-> G.quantize[xs[i]]])],
       reverse |-> [xs \in values |-> UnionReverse(G, xs)],
       claims |-> G.claims \cap WithoutPath]
UnionWeight(B) == UnionOf(GallicWeight("restrict", B), B)

(* The semiring of a kind, and the kind of its reversed weights. *)
SemiringOver(kind, B) ==
  CASE kind.shape = "number" -> B
    [] kind.shape = "gallic" -> GallicWeight(kind.side, B)
    [] kind.shape = "union" -> UnionWeight(B)
SemiringOf(kind) ==
  IF kind.shape = "string" THEN StringWeight(kind.side) ELSE SemiringOver(kind, Number(kind.of))
OtherSide(side) == CASE side = "left" -> "right" [] side = "right" -> "left" [] OTHER -> side
ReverseKind(kind) == [kind EXCEPT !.side = OtherSide(@)]

---------------------------------------------------------------------------
(* The file forms.  A file is a sequence of numbers and, in a text, words; *)
(* reading answers with the weight and what follows it.                    *)

Num(n) == <<"num", n>>
Word(w) == <<"word", w>>
Parsed(value, rest) == [value |-> value, rest |-> rest]
Tagged(w, i) == i # <<>> /\ i[1] = Word(w)
Joined(sep, parts) ==
  FlattenSeq([k \in DOMAIN parts |-> IF k = 1 THEN parts[k] ELSE <<Word(sep)>> \o parts[k]])

WriteString(text, s) ==
  CASE text /\ s = Infinity -> <<Word("Infinity")>>
    [] text /\ s = <<>> -> <<Word("Epsilon")>>
    [] text /\ s \notin {Infinity, <<>>} -> Joined("_", [k \in DOMAIN s |-> <<Num(s[k])>>])
    [] ~text -> <<Num(Len(s))>> \o [k \in DOMAIN s |-> Num(s[k])]   \* infinity: 1, -1
RECURSIVE Write(_, _, _)
Write(kind, text, x) ==
  LET pair == Kind("gallic", "restrict", kind.of)
  IN  CASE kind.shape = "number" -> <<Num(x)>>
        [] kind.shape = "string" -> WriteString(text, x)
        [] kind.shape = "gallic" -> LET parts == <<WriteString(text, x[1]), <<Num(x[2])>>>>
                                    IN  IF text THEN Joined(",", parts) ELSE FlattenSeq(parts)
        [] kind.shape = "union" /\ text ->
             IF x = <<>> THEN <<Word("EmptySet")>>
             ELSE Joined(",", [k \in DOMAIN x |-> Write(pair, TRUE, x[k])])
        [] kind.shape = "union" /\ ~text ->
             <<Num(Len(x))>> \o FlattenSeq([k \in DOMAIN x |-> Write(pair, FALSE, x[k])])

ReadNum(i) == IF i = <<>> \/ i[1][1] # "num" THEN Err ELSE Parsed(i[1][2], Tail(i))

(* separated_list0 and count. *)
RECURSIVE Read(_, _, _), SeparatedList(_, _, _), Count(_, _, _)
SeparatedList(sep, kind, i) ==
  LET first == Read(kind, TRUE, i)
      more == SeparatedList(sep, kind, Tail(first.rest))
  IN  IF first = Err THEN Parsed(<<>>, i)
      ELSE IF ~Tagged(sep, first.rest) \/ more.value = <<>> THEN Parsed(<<first.value>>, first.rest)
      ELSE Parsed(<<first.value>> \o more.value, more.rest)
Count(kind, n, i) ==
  IF n = 0 THEN Parsed(<<>>, i)
  ELSE LET first == Read(kind, FALSE, i)
           more == Count(kind, n - 1, first.rest)
       IN  IF first = Err THEN Err ELSE IF more = Err THEN Err
           ELSE Parsed(<<first.value>> \o more.value, more.rest)

Label == Kind("label", "none", "none")
ReadString(text, i) ==
  IF ~text THEN Count(Label, i[1][2], Tail(i))
  ELSE IF Tagged("Infinity", i) THEN Parsed(Infinity, Tail(i))
  ELSE IF Tagged("Epsilon", i) THEN Parsed(<<>>, Tail(i))
  ELSE SeparatedList("_", Label, i)
ReadPair(text, i) ==
  LET s == ReadString(text, i)
      n == ReadNum(IF text THEN Tail(s.rest) ELSE s.rest)
  IN  IF s = Err \/ (text /\ ~Tagged(",", s.rest)) THEN Err
      ELSE IF n = Err THEN Err ELSE Parsed(<<s.value, n.value>>, n.rest)
Read(kind, text, i) ==
  LET pair == Kind("gallic", "restrict", kind.of)
  IN  CASE kind.shape \in {"number", "label"} -> ReadNum(i)
        [] kind.shape = "string" -> ReadString(text, i)
        [] kind.shape = "gallic" -> ReadPair(text, i)
        [] kind.shape = "union" /\ text ->
             IF Tagged("EmptySet", i) THEN Parsed(<<>>, Tail(i)) ELSE SeparatedList(",", pair, i)
        [] kind.shape = "union" /\ ~text -> Count(pair, i[1][2], Tail(i))
=============================================================================
