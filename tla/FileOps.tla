------------------------------ MODULE FileOps ------------------------------
(***************************************************************************)
(* Machines that leave memory or change their representation: the text of  *)
(* a machine and what is read of it, binary files, the constant machine    *)
(* with all its transitions in one array, and conversions.                 *)
(***************************************************************************)
EXTENDS StaticOps
LOCAL INSTANCE SequencesExt

(* A constant machine: of each state the place and the number of its       *)
(* transitions in trs.                                                     *)
FlatTrs(f) == FlattenSeq([k \in 1..NumStates(f) |-> f.trs[k - 1]])
PosOf(f, s) == FoldLeft(LAMBDA pos, q : pos + Len(f.trs[q]), 0, Upto(s))
ConstFst(f, props) ==
  [states |-> [s \in StatesOf(f) |-> [final |-> f.final[s], pos |-> PosOf(f, s),
                                      ntrs |-> Len(f.trs[s]), eps |-> f.eps[s]]],
   trs |-> FlatTrs(f), start |-> f.start, props |-> props]

(* From<VectorFst>: all bits are computed first.                           *)
FromVectorFst(f) ==
  LET known == ComputeAndUpdate(f, CopyProperties) IN ConstFst(known, known.props)

(* Transitions by their place, or, when the machine is consumed, taken off *)
(* the front of the array one state after the other.                       *)
ConstTrs(c, s) == SubSeq(c.trs, c.states[s].pos + 1, c.states[s].pos + c.states[s].ntrs)
ConstIter(c) == [s \in DOMAIN c.states |-> ConstTrs(c, s)]
Drain(acc, n) ==
  [given |-> Append(acc.given, SubSeq(acc.left, 1, n)),
   left |-> SubSeq(acc.left, n + 1, Len(acc.left))]
ConstIntoIter(c) ==
  LET drained == FoldLeft(LAMBDA acc, s : Drain(acc, c.states[s].ntrs),
                          [given |-> <<>>, left |-> c.trs], Upto(Cardinality(DOMAIN c.states)))
  IN  [s \in DOMAIN c.states |-> drained.given[s + 1]]

(* fst_convert, with the transitions an iterator gives: nothing but states *)
(* and bits of a machine without a start state.                            *)
FstConvert(c, trs) ==
  LET n == Cardinality(DOMAIN c.states)
      states == AddStates(NewFst, n)
      copied == FoldLeft(LAMBDA g, s : LET h == AddTrs(g, s, trs[s])
                                       IN  IF c.states[s].final = None THEN h
                                           ELSE SetFinal(h, s, c.states[s].final),
                         SetStart(states, c.start), Upto(n))
  IN  MoreProperties(IF c.start = None THEN states ELSE copied, c.props)

---------------------------------------------------------------------------
(* Text: one row for each transition, those of the start state first, then *)
(* one for each final state.  OpenFST writes a row for every state that is *)
(* final or has no transitions, after its transitions, with an infinite    *)
(* weight when it is not final, and leaves weights of one out.             *)

Shown(w, ones) == IF w = One /\ ~ones THEN None ELSE w
StateRows(f, s, ones) ==
  [i \in DOMAIN f.trs[s] |->
     [kind |-> "transition", state |-> s, tr |-> [f.trs[s][i] EXCEPT !.w = Shown(@, ones)]]]
FinalRow(f, s, ones) ==
  [kind |-> "final", state |-> s, weight |-> Shown(f.final[s], ones)]
StartFirst(f, Rows(_)) ==
  Rows(f.start) \o FlattenSeq([k \in 1..NumStates(f) |->
                                 IF k - 1 = f.start THEN <<>> ELSE Rows(k - 1)])
WriteFst(f) ==
  LET finals == InOrder(f, Finals(f))
  IN  IF f.start = None THEN <<>>
      ELSE StartFirst(f, LAMBDA s : StateRows(f, s, TRUE))
             \o [k \in DOMAIN finals |-> FinalRow(f, finals[k], TRUE)]
OpenFstText(f) ==
  LET rows(s) == StateRows(f, s, FALSE)
                   \o (IF f.final[s] # None THEN <<FinalRow(f, s, FALSE)>>
                       ELSE IF f.trs[s] = <<>> THEN <<[kind |-> "infinity", state |-> s]>>
                       ELSE <<>>)
  IN  IF f.start = None THEN <<>> ELSE StartFirst(f, rows)

(* The state of the first row is the start state; there are as many states *)
(* as the largest that some row names tells.                               *)
ReadWeight(w) == IF w = None THEN One ELSE w
ParsedTextFst(rows) ==
  [start |-> IF rows = <<>> THEN None ELSE rows[1].state,
   transitions |-> SelectSeq(rows, LAMBDA r : r.kind = "transition"),
   finals |-> SelectSeq(rows, LAMBDA r : r.kind = "final")]
ParsedStates(p) ==
  LET named == {p.transitions[i].state : i \in DOMAIN p.transitions}
                 \cup {p.transitions[i].tr.ns : i \in DOMAIN p.transitions}
                 \cup {p.finals[i].state : i \in DOMAIN p.finals}
                 \cup ({p.start} \ {None})
  IN  IF named = {} THEN 0 ELSE 1 + CHOOSE s \in named : \A t \in named : t <= s

ReadTr(r) == [r.tr EXCEPT !.w = ReadWeight(@)]
VectorFromText(p) ==
  LET blank == [start |-> p.start, trs |-> [s \in 0..ParsedStates(p) - 1 |-> <<>>],
                final |-> [s \in 0..ParsedStates(p) - 1 |-> None],
                eps |-> [s \in 0..ParsedStates(p) - 1 |-> [side \in Sides |-> 0]], props |-> {}]
      linked == FoldLeft(LAMBDA g, r : AddTr(g, r.state, ReadTr(r)), blank, p.transitions)
  IN  ComputeAndUpdate(FoldLeft(LAMBDA g, r : SetFinal(g, r.state, ReadWeight(r.weight)),
                                linked, p.finals), CopyProperties)

(* A constant machine sorts the rows by state, which leaves the order of   *)
(* the rows of one state; the last of several final rows counts.           *)
ConstFromText(p) ==
  LET states == 0..ParsedStates(p) - 1
      of(s) == SelectSeq(p.transitions, LAMBDA r : r.state = s)
      trs == [s \in states |-> [i \in DOMAIN of(s) |-> ReadTr(of(s)[i])]]
      finals(s) == SelectSeq(p.finals, LAMBDA r : r.state = s)
      f == [start |-> p.start, trs |-> trs,
            final |-> [s \in states |-> IF finals(s) = <<>> THEN None
                                        ELSE ReadWeight(finals(s)[Len(finals(s))].weight)],
            eps |-> [s \in states |-> [side \in Sides |-> EpsIn(trs[s], side)]], props |-> {}]
  IN  ConstFst(f, ComputeFstProperties(f, CopyProperties))

---------------------------------------------------------------------------
(* Binary files.  "no start state" and "not final" have codes of their own *)
(* among states and weights; the bits carry one that no machine in memory  *)
(* has; the arcs of a vector machine are counted state by state.           *)

Static == {"EXPANDED"}
NoStart == -1
StartCode(start) == IF start = None THEN NoStart ELSE start
ParseStart(code) == IF code = NoStart THEN None ELSE code
ParseFinal(w) == IF w = Zero THEN None ELSE w
FromBitsTruncate(bits) == bits \cap CopyProperties
FstHeader(type, props, start, n, ntrs) ==
  [type |-> type, properties |-> props \cup Static, start |-> StartCode(start),
   states |-> n, trs |-> ntrs]

StoreVector(f) ==
  [header |-> FstHeader("vector", f.props, f.start, NumStates(f), 0),
   body |-> [k \in 1..NumStates(f) |-> [final |-> OrZero(f.final[k - 1]), trs |-> f.trs[k - 1]]]]
ParseVectorState(x) ==
  [final |-> ParseFinal(x.final), trs |-> x.trs,
   eps |-> [side \in Sides |-> EpsIn(x.trs, side)]]
LoadVector(file) ==
  LET states == [s \in 0..file.header.states - 1 |-> ParseVectorState(file.body[s + 1])]
  IN  [start |-> ParseStart(file.header.start), trs |-> [s \in DOMAIN states |-> states[s].trs],
       final |-> [s \in DOMAIN states |-> states[s].final],
       eps |-> [s \in DOMAIN states |-> states[s].eps],
       props |-> FromBitsTruncate(file.header.properties)]

StoreConst(c) ==
  LET n == Cardinality(DOMAIN c.states)
  IN  [header |-> FstHeader("const", c.props, c.start, n, Len(c.trs)),
       states |-> [k \in 1..n |-> [c.states[k - 1] EXCEPT !.final = OrZero(@)]], trs |-> c.trs]
ParseConstState(x) == [x EXCEPT !.final = ParseFinal(@)]
LoadConst(file) ==
  [states |-> [s \in 0..file.header.states - 1 |-> ParseConstState(file.states[s + 1])],
   trs |-> SubSeq(file.trs, 1, file.header.trs), start |-> ParseStart(file.header.start),
   props |-> FromBitsTruncate(file.header.properties)]

---------------------------------------------------------------------------
(* Ways out of memory and back.  A constant machine comes back through a   *)
(* conversion, which copies it or consumes it.                             *)

Copied(c) == FstConvert(c, ConstIter(c))
Consumed(c) == FstConvert(c, ConstIntoIter(c))
RoundTrips ==
  {"convert", "vector_binary", "const_binary", "vector_text", "const_text", "openfst_text"}
RoundTrip(f, way) ==
  CASE way = "convert" -> Consumed(FromVectorFst(f))
    [] way = "vector_binary" -> LoadVector(StoreVector(f))
    [] way = "const_binary" -> Copied(LoadConst(StoreConst(FromVectorFst(f))))
    [] way = "vector_text" -> VectorFromText(ParsedTextFst(WriteFst(f)))
    [] way = "const_text" -> Consumed(ConstFromText(ParsedTextFst(WriteFst(f))))
    [] way = "openfst_text" -> VectorFromText(ParsedTextFst(OpenFstText(f)))
---------------------------------------------------------------------------
(* Symbol tables: a map from symbols to labels, and the symbols by label,  *)
(* where the empty string fills the holes that explicit keys leave.  A key *)
(* given twice leaves the map of the symbol it named before, and a symbol  *)
(* given a second key leaves the first place that held it.                 *)

Hole == ""
EpsSymbol == "<eps>"
EmptyTable == [ids |-> <<>>, strings |-> <<>>]
AddSymbol(T, x) ==
  IF x \in DOMAIN T.ids THEN T
  ELSE [ids |-> (x :> Len(T.strings)) @@ T.ids, strings |-> Append(T.strings, x)]
AddSymbols(T, xs) == FoldLeft(AddSymbol, T, xs)
NewTable == AddSymbol(EmptyTable, EpsSymbol)
AddSymbolWithKey(T, x, key) ==
  LET grown == T.strings \o [k \in 1..key + 1 - Len(T.strings) |-> Hole]
  IN  [ids |-> (x :> key) @@ T.ids, strings |-> [grown EXCEPT ![key + 1] = x]]

(* Every label up to the last one has a symbol, the empty one in a hole.   *)
GetLabel(T, x) == IF x \in DOMAIN T.ids THEN T.ids[x] ELSE None
GetSymbol(T, l) == IF l < Len(T.strings) THEN T.strings[l + 1] ELSE None
Rows(T) ==
  SelectSeq([k \in DOMAIN T.strings |-> <<T.strings[k], k - 1>>], LAMBDA row : row[1] # Hole)
AddTable(T, U) == AddSymbols(T, [k \in DOMAIN Rows(U) |-> Rows(U)[k][1]])

(* Text lists the rows, and is read with labels counted from zero; binary  *)
(* files keep the keys.                                                    *)
TableFromText(rows) ==
  LET T == AddSymbols(EmptyTable, [k \in DOMAIN rows |-> rows[k][1]])
  IN  IF \A k \in DOMAIN rows : GetLabel(T, rows[k][1]) = rows[k][2] THEN T ELSE Err
TableFromBinary(rows) ==
  FoldLeft(LAMBDA T, row : AddSymbolWithKey(T, row[1], row[2]), EmptyTable, rows)

(* relabel_tables: each label takes that of the same symbol in the other   *)
(* table.  The first transition that cannot be renamed ends it, those      *)
(* before it stay renamed.                                                 *)
Renamed(T, U, l) ==
  IF GetSymbol(T, l) = None THEN None ELSE GetLabel(U, GetSymbol(T, l))
RelabelTables(f, T, U) ==
  LET relabel(acc, s, i) ==
        LET t == f.trs[s][i]
            il == Renamed(T, U, t.il)
            ol == Renamed(T, U, t.ol)
        IN  IF ~acc.ok THEN acc
            ELSE IF il = None \/ ol = None THEN [acc EXCEPT !.ok = FALSE]
            ELSE [acc EXCEPT !.fst = SetLabels(SetLabels(@, s, i, il, t.ol), s, i, il, ol)]
  IN  FoldLeft(LAMBDA acc, s : FoldLeft(LAMBDA a, i : relabel(a, s, i), acc,
                                        [i \in DOMAIN f.trs[s] |-> i]),
               [fst |-> f, ok |-> TRUE], Upto(NumStates(f)))
=============================================================================
