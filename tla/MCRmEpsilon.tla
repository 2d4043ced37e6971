---------------------------- MODULE MCRmEpsilon ----------------------------
(***************************************************************************)
(* Machines of three states over the polynomials in x cut after x^2 (see   *)
(* MCShortestDistance): an epsilon transition weighs x, a labelled one 1.  *)
(* State 0 has up to two transitions and states 1 and 2 up to one, so that *)
(* epsilon cycles of every length occur.  Words have up to two labels.     *)
(* NothingVanishes (see RmEpsilon_proofs) holds of them: D[k] are those     *)
(* with a term below x^k, and a kept transition raises a term by one.      *)
(***************************************************************************)
EXTENDS RmEpsilon, TLC

CONSTANTS a

MCStates == 0 .. 2
MCZero(w) == <<0, 0, 0>>
MCOne(w) == <<1, 0, 0>>
MCPlus(w, u, v) == [i \in 1 .. 3 |-> u[i] + v[i]]
MCTimes(w, u, v) == <<u[1] * v[1], u[1] * v[2] + u[2] * v[1],
                      u[1] * v[3] + u[2] * v[2] + u[3] * v[1]>>
MCApproxEqual(w, u, v) == u = v

MCLabels == {a}
MCWords == {<<>>, <<a>>, <<a, a>>}

Arcs(w) == [label : {Eps}, weight : {<<0, 1, 0>>}, nextstate : MCStates]
           \cup [label : {a}, weight : {MCOne(w)}, nextstate : MCStates]

\* An epsilon loop is the last transition of its state (see SelfLooped in MCShortestDistance).
LoopLast(s, ts) == \A i \in DOMAIN ts :
                     ts[i].label = Eps /\ ts[i].nextstate = s => i = Len(ts)

TrsOf(w, s) ==
    {ts \in {<<>>} \cup {<<t>> : t \in Arcs(w)}
             \cup (IF s = 0 THEN {<<t, u>> : t, u \in Arcs(w)} ELSE {}) : LoopLast(s, ts)}

MCFsts(w) ==
    {[start |-> 0, trs |-> 0 :> t0 @@ 1 :> t1 @@ 2 :> t2,
      final |-> 0 :> MCZero(w) @@ 1 :> MCZero(w) @@ 2 :> MCOne(w)] :
       t0 \in TrsOf(w, 0), t1 \in TrsOf(w, 1), t2 \in TrsOf(w, 2)}

=============================================================================
