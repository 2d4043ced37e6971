---------------------------- MODULE OnDemandFst ----------------------------
(***************************************************************************)
(* What a lazy FST promises, whatever the operation, the cache and the     *)
(* threads that use it: a machine over Tuples is discovered piece by piece *)
(* under StateIds chosen on the way.  A tuple is named once and for ever,  *)
(* nothing is named but what the machine reaches, and what is published    *)
(* about a state is exactly what the operation says of the tuple it names. *)
(* Clearing the cache may unpublish everything, but renames nothing, so    *)
(* what is published again is what was published before.                   *)
(***************************************************************************)
EXTENDS Integers, Sequences, Functions

CONSTANTS
    Tuples,       \* the states of the machine, as the operation knows them
    NoTuple,      \* not a tuple
    StartTuples,  \* the start states the machine may have, or NoTuple
    Succ,         \* Succ[t]: the destinations of t's transitions, in order
    Final,        \* Final[t]: the final weight of t
    InitNames     \* the names a new machine may start with

VARIABLES
    origin,       \* its start state, or NoTuple
    name,         \* name[id + 1] is the tuple that id stands for
    start,        \* the published start state
    arcs,         \* arcs[id]: the published transitions of id
    finals        \* finals[id]: the published final weight of id

vars == <<origin, name, start, arcs, finals>>

NoState == -1
NotComputed == -2

Nothing == [i \in {} |-> 0]

\* f with k mapped to v.
Extend(f, k, v) == [i \in DOMAIN f \cup {k} |-> IF i = k THEN v ELSE f[i]]

Named(t) == t \in Range(name)

IsIdOf(id, t) == /\ id \in 0 .. Len(name) - 1
                 /\ name[id + 1] = t

Init == /\ origin \in StartTuples
        /\ name \in InitNames
        /\ start = NotComputed
        /\ arcs = Nothing
        /\ finals = Nothing

\* The start tuple, or a successor of a named tuple, gets the next id.
Name(t) == /\ ~ Named(t)
           /\ \/ t = origin
              \/ \E u \in Range(name) : t \in Range(Succ[u])
           /\ name' = Append(name, t)
           /\ UNCHANGED <<origin, start, arcs, finals>>

PublishStart == /\ start = NotComputed
                /\ IF origin = NoTuple
                   THEN start' = NoState
                   ELSE \E id \in 0 .. Len(name) - 1 : /\ IsIdOf(id, origin)
                                                       /\ start' = id
                /\ UNCHANGED <<origin, name, arcs, finals>>

PublishArcs(id) ==
    LET succ == Succ[name[id + 1]] IN
    /\ id \notin DOMAIN arcs
    /\ \E trs \in [DOMAIN succ -> 0 .. Len(name) - 1] :
         /\ \A k \in DOMAIN succ : IsIdOf(trs[k], succ[k])
         /\ arcs' = Extend(arcs, id, trs)
    /\ UNCHANGED <<origin, name, start, finals>>

PublishFinal(id) ==
    /\ id \notin DOMAIN finals
    /\ finals' = Extend(finals, id, Final[name[id + 1]])
    /\ UNCHANGED <<origin, name, start, arcs>>

Unpublish == /\ start' = NotComputed
             /\ arcs' = Nothing
             /\ finals' = Nothing
             /\ UNCHANGED <<origin, name>>

Next == \/ \E t \in Tuples : Name(t)
        \/ PublishStart
        \/ \E id \in 0 .. Len(name) - 1 : PublishArcs(id) \/ PublishFinal(id)
        \/ Unpublish

Spec == Init /\ [][Next]_vars

=============================================================================
