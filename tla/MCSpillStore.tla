---------------------------- MODULE MCSpillStore ----------------------------
(***************************************************************************)
(* Five tuples: a and b have one hash, d the same in tables of 2 and 4     *)
(* slots, but not of 8.  The hash table starts with 2 slots and grows      *)
(* twice; the fifth tuple meets NO_STATE_ID.  The caps stop the resident   *)
(* maps at no tuple, at the first growth of each map, and never.           *)
(***************************************************************************)
EXTENDS SpillStore

CONSTANTS a, b, c, d, e

MCTuples == {a, b, c, d, e}
MCHash == [t \in MCTuples |-> CASE t \in {a, b} -> 1
                                [] t = c -> 3
                                [] t = d -> 5
                                [] t = e -> 6]
MCTupleBytes == 12
MCCaps == {0, 119, 120, 144, 1000}

=============================================================================
