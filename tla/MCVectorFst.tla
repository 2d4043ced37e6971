---------------------------- MODULE MCVectorFst ----------------------------
(* Two states, two transitions, epsilon and one label, one weight that is  *)
(* not trivial: every mutation in any order.  No mutation computes with    *)
(* weights; 0 stands for one and 1000 for zero.                            *)
EXTENDS VectorFst
Unused(x, y) == x
=============================================================================
