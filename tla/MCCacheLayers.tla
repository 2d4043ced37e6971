--------------------------- MODULE MCCacheLayers ---------------------------
(***************************************************************************)
(* Two threads and a writer on a machine of two states: a start with a     *)
(* loop and a transition to a state with none.  The first thread walks the *)
(* machine with fst_iter, the second one asks and clears.                  *)
(***************************************************************************)
EXTENDS CacheLayers, TLC

CONSTANTS r, a, t1, t2

MCTuples == {r, a}
MCSucc == (r :> <<r, a>>) @@ (a :> <<>>)
MCFinal == (r :> 0) @@ (a :> 1)
MCJobs == (t1 :> {"iter"}) @@ (t2 :> {"start", "final", "clear"})

Machine(lazy2, wrapped, kind) == [lazy2 |-> lazy2, wrapped |-> wrapped, kind |-> kind]
MCLayers ==
    {Machine(l, w, "hash") : l \in BOOLEAN, w \in BOOLEAN} \cup {Machine(FALSE, FALSE, "vec")}
=============================================================================
