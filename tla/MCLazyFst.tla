----------------------------- MODULE MCLazyFst -----------------------------
(***************************************************************************)
(* A machine with a fork, a shared destination and a cycle: a has an arc   *)
(* to b and one to c, b one to c, c one back to a.  Computing c may fail.  *)
(* Thread q queries and clears the cache, thread r queries and clones.     *)
(***************************************************************************)
EXTENDS LazyFst, TLC

CONSTANTS q, r, a, b, c, isfinal

MCThreads == {q, r}
MCJobs == q :> {"start", "trs", "clear"} @@ r :> {"start", "trs", "final", "clone"}
MCTuples == {a, b, c}
MCStartTuples == {a, NoTuple}
MCSucc == a :> <<b, c>> @@ b :> <<c>> @@ c :> <<a>>
MCFinal == a :> NoFinal @@ b :> NoFinal @@ c :> isfinal
MCWeights == {NoFinal, isfinal}
MCFallible == {c}
MCInitNames == {<<>>, <<a>>}

=============================================================================
