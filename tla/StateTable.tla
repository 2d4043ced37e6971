----------------------------- MODULE StateTable -----------------------------
(***************************************************************************)
(* The state table of the lazy operations: the bijection between the       *)
(* tuples an operation explores (pairs of states for compose, a state and  *)
(* a residual weight for factor_weight, ...) and the dense StateIds of the *)
(* machine it builds (BiHashMap and StateTable of                          *)
(* algorithms/lazy/state_table.rs).                                        *)
(*                                                                         *)
(* Every operation runs under the table's Mutex, so it is one atomic step  *)
(* of whoever calls it: this module has the operations as operators on a   *)
(* table value, and the modules that own a table apply them in an action.  *)
(***************************************************************************)
EXTENDS Integers, Sequences

CONSTANT Tuples     \* the tuples the operation can meet

\* Entry::Vacant of the forward map.
Vacant == -1

TableType == [tuple_to_id : [Tuples -> Nat \cup {Vacant}],
              id_to_tuple : Seq(Tuples)]

\* The ids the table has handed out: 0, 1, ..., as many as it holds tuples.
Allocated(table) == 0 .. Len(table.id_to_tuple) - 1

\* What a table read back from a file holds: ids follow the stored order
\* (StateTable::new is the case of no names).
IdIn(names, t) == (CHOOSE i \in DOMAIN names : names[i] = t) - 1

TableOf(names) ==
    [tuple_to_id |-> [t \in Tuples |-> IF \E i \in DOMAIN names : names[i] = t
                                      THEN IdIn(names, t)
                                      ELSE Vacant],
     id_to_tuple |-> names]

(***************************************************************************)
(* find_id: FindId is the id it answers and Interned the table it leaves.  *)
(* StateId is a u32; a table of 2^32 tuples is not modelled.               *)
(***************************************************************************)
FindId(table, t) ==
    IF table.tuple_to_id[t] # Vacant
    THEN table.tuple_to_id[t]
    ELSE Len(table.id_to_tuple)

\* Mutant: the entry is pushed on the reverse table only.
InternedReverseOnly(table, t) ==
    IF table.tuple_to_id[t] # Vacant
    THEN table
    ELSE [table EXCEPT !.id_to_tuple = Append(@, t)]

Interned(table, t) ==
    IF table.tuple_to_id[t] # Vacant
    THEN table
    ELSE [tuple_to_id |-> [table.tuple_to_id EXCEPT
                             ![t] = Len(table.id_to_tuple)],
          id_to_tuple |-> Append(table.id_to_tuple, t)]

\* find_tuple; defined on Allocated(table) only (the code's index panics
\* elsewhere, with the Mutex held).
FindTuple(table, id) == table.id_to_tuple[id + 1]

\* The two maps are inverse of each other: no tuple has two ids, no id two
\* tuples, and the ids are dense.
Bijective(table) ==
    /\ \A id \in Allocated(table) : table.tuple_to_id[FindTuple(table, id)] = id
    /\ \A t \in Tuples : table.tuple_to_id[t] # Vacant =>
         /\ table.tuple_to_id[t] \in Allocated(table)
         /\ FindTuple(table, table.tuple_to_id[t]) = t

=============================================================================
