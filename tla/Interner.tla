------------------------------ MODULE Interner ------------------------------
(***************************************************************************)
(* What a compose operation asks of its state store (ComposeStateStore's   *)
(* intern and resolve): a state table whose calls may fail.  A call that   *)
(* fails changes nothing; a call that succeeds answers what the table      *)
(* says, wherever the store keeps it.                                      *)
(***************************************************************************)
EXTENDS StateTable

VARIABLES
    table,    \* the table, as StateTable defines it
    answer    \* of the last call: <<id, tuple>>, or Failed

vars == <<table, answer>>

Failed == <<>>

Init == /\ table = TableOf(<<>>)
        /\ answer = Failed

Intern(t) == /\ answer' = <<FindId(table, t), t>>
             /\ table' = Interned(table, t)

Resolve(id) == /\ answer' = <<id, FindTuple(table, id)>>
               /\ UNCHANGED table

Fail == /\ answer' = Failed
        /\ UNCHANGED table

Next == \/ \E t \in Tuples : Intern(t)
        \/ \E id \in Allocated(table) : Resolve(id)
        \/ Fail

Spec == Init /\ [][Next]_vars

=============================================================================
