----------------------------- MODULE MCLazyWalk -----------------------------
(***************************************************************************)
(* A machine of 3 states and 4 transitions, traversed by thread w while    *)
(* thread r queries and clears the cache; the start tuple c is a machine of *)
(* one state and one transition.  The bounds fall on both sides of the     *)
(* large machine, and include 0, which only the small one gets past.       *)
(***************************************************************************)
EXTENDS LazyWalk, TLC

CONSTANTS w, r, a, b, c, isfinal

MCThreads == {w, r}
MCJobs == w :> {"start", "trs", "final"} @@ r :> {"trs", "clear"}
MCTuples == {a, b, c}
MCStartTuples == {a, c, NoTuple}
MCSucc == a :> <<b, c>> @@ b :> <<a>> @@ c :> <<c>>
MCFinal == a :> NoFinal @@ b :> NoFinal @@ c :> isfinal
MCWeights == {NoFinal, isfinal}
MCFallible == {b}
MCInitNames == {<<>>, <<a, c>>}
MCStateBounds == {Unbounded, 0, 2, 3}
MCTrBounds == {Unbounded, 3, 4}

=============================================================================
