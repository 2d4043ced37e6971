------------------------------- MODULE Queues -------------------------------
(***************************************************************************)
(* The queue disciplines of algorithms/queues, which decide the order in   *)
(* which the shortest-distance algorithms expand the states, and the       *)
(* choice AutoQueue makes among them.  A queue is a value here: the        *)
(* algorithm that owns it applies these operators in its actions.          *)
(*                                                                         *)
(* ShortestFirstQueue is left out: AutoQueue builds one only when it is    *)
(* given distances, and every caller gives it None.                        *)
(***************************************************************************)
EXTENDS Integers, Sequences, FiniteSetsExt, Functions

\* Option::None, for a StateId.
None == -1

\* FifoQueue, LifoQueue and TrivialQueue.  TrivialQueue keeps one state.
NewList(kind) == [kind |-> kind, items |-> <<>>]

\* StateOrderQueue and TopOrderQueue: slots in the order of the states, and
\* the interval front .. back in which the queued ones are.
NewOrdered(order) == [kind |-> "ordered", order |-> order,
                      slots |-> [p \in Range(order) |-> None],
                      front |-> 0, back |-> None]

\* SccQueue: a queue for each strongly connected component.
NewScc(sccs, kinds) == [kind |-> "scc", sccs |-> sccs,
                        queues |-> [c \in DOMAIN kinds |-> NewList(kinds[c])],
                        front |-> 0, back |-> None]

-----------------------------------------------------------------------------
ListEnqueue(q, s) == [q EXCEPT !.items = IF q.kind = "trivial" THEN <<s>>
                                        ELSE Append(@, s)]

ListHead(q) == IF q.kind = "lifo" THEN q.items[Len(q.items)] ELSE Head(q.items)

\* Mutant: the state is read and not removed.
ListRestAll(q) == q

ListRest(q) == [q EXCEPT !.items = IF q.kind = "lifo"
                                  THEN SubSeq(@, 1, Len(@) - 1)
                                  ELSE Tail(@)]

\* Mutant: the interval of an empty queue is widened, not replaced.
WidenedAlways(q, p) ==
    IF p > q.back THEN [q EXCEPT !.back = p]
    ELSE IF p < q.front THEN [q EXCEPT !.front = p]
    ELSE q

\* front and back after a state of rank p is enqueued: the test the ordered
\* queues and SccQueue share.
Widened(q, p) ==
    IF q.front > q.back THEN [q EXCEPT !.front = p, !.back = p]
    ELSE IF p > q.back THEN [q EXCEPT !.back = p]
    ELSE IF p < q.front THEN [q EXCEPT !.front = p]
    ELSE q

\* The first rank from p on that is not in `empty`, or the one past back.
Advanced(p, back, empty) == Min({r \in p .. Max({p, back + 1}) : r > back \/ r \notin empty})

SccRank(q, s) == q.sccs[s]

\* update_front.
SccFront(q) == Advanced(q.front, q.back,
                        {c \in DOMAIN q.queues : q.queues[c].items = <<>>})

-----------------------------------------------------------------------------
IsEmpty(q) ==
    CASE q.kind = "ordered" -> q.front > q.back
      [] q.kind = "scc" -> \/ q.front > q.back
                           \/ /\ q.front = q.back
                              /\ q.queues[q.front].items = <<>>
      [] OTHER -> q.items = <<>>

Enqueue(q, s) ==
    CASE q.kind = "ordered" -> [Widened(q, q.order[s]) EXCEPT !.slots[q.order[s]] = s]
      [] q.kind = "scc" -> [Widened(q, SccRank(q, s)) EXCEPT
                              !.queues[SccRank(q, s)] = ListEnqueue(@, s)]
      [] OTHER -> ListEnqueue(q, s)

\* dequeue of a queue that is not empty: the state, and what is left.
Dequeued(q) ==
    CASE q.kind = "ordered" -> q.slots[q.front]
      [] q.kind = "scc" -> ListHead(q.queues[SccFront(q)])
      [] OTHER -> ListHead(q)

Dequeue(q) ==
    CASE q.kind = "ordered" ->
           LET slots == [q.slots EXCEPT ![q.front] = None] IN
           [q EXCEPT !.slots = slots,
                     !.front = Advanced(q.front, q.back,
                                      {p \in DOMAIN slots : slots[p] = None})]
      [] q.kind = "scc" -> [q EXCEPT !.front = SccFront(q),
                                     !.queues[SccFront(q)] = ListRest(@)]
      [] OTHER -> ListRest(q)

\* clear().
Cleared(q) ==
    CASE q.kind = "ordered" ->
           [q EXCEPT !.slots = [p \in DOMAIN @ |->
                                  IF p \in q.front .. q.back THEN None ELSE @[p]],
                     !.front = 0, !.back = None]
      [] q.kind = "scc" ->
           [q EXCEPT !.queues = [c \in DOMAIN @ |->
                                   IF c \in q.front .. q.back
                                   THEN [@[c] EXCEPT !.items = <<>>] ELSE @[c]],
                     !.front = 0, !.back = None]
      [] OTHER -> [q EXCEPT !.items = <<>>]

\* The states that wait in a queue, wherever they are.
Waiting(q) ==
    CASE q.kind = "ordered" -> Range(q.slots) \ {None}
      [] q.kind = "scc" -> UNION {Range(q.queues[c].items) : c \in DOMAIN q.queues}
      [] OTHER -> Range(q.items)

\* Every access of SccQueue and of the ordered queues is within bounds, and
\* what is_empty says is so.
WellFormed(q) ==
    /\ IsEmpty(q) <=> Waiting(q) = {}
    /\ q.kind = "ordered" /\ ~ IsEmpty(q) => q.slots[q.front] # None
    /\ q.kind = "scc" /\ ~ IsEmpty(q) => SccFront(q) <= q.back

-----------------------------------------------------------------------------
\* What the operations rely on and keep, for a queue of states of S: whatever
\* waits is between front and back, and the ranks up to back are all in use.
ListInv(q, S) == /\ DOMAIN q = {"kind", "items"}
                 /\ q.kind \in {"fifo", "lifo", "trivial"}
                 /\ q.items \in Seq(S)

Ranked(q, rank, S) == /\ rank \in [S -> Nat]
                      /\ \A c \in Range(rank) : 0 .. c \subseteq Range(rank)
                      /\ q.front \in Nat
                      /\ q.back \in Range(rank) \cup {None}

\* One slot a state: the order gives each a rank of its own.
OrderedInv(q, S) ==
    /\ DOMAIN q = {"kind", "order", "slots", "front", "back"}
    /\ Ranked(q, q.order, S)
    /\ IsInjective(q.order)
    /\ q.slots \in [Range(q.order) -> S \cup {None}]
    /\ \A p \in Range(q.order) : q.slots[p] # None =>
         q.order[q.slots[p]] = p /\ p \in q.front .. q.back
    /\ q.front <= q.back => q.slots[q.front] # None

\* The last component of the interval is not exhausted before the others, and
\* a trivial one has one state.
SccInv(q, S) ==
    /\ DOMAIN q = {"kind", "sccs", "queues", "front", "back"}
    /\ Ranked(q, q.sccs, S)
    /\ DOMAIN q.queues = Range(q.sccs)
    /\ \A c \in Range(q.sccs) :
         /\ ListInv(q.queues[c], S)
         /\ \A s \in Range(q.queues[c].items) : q.sccs[s] = c /\ c \in q.front .. q.back
         /\ q.queues[c].kind = "trivial" =>
              \A s, t \in S : q.sccs[s] = c /\ q.sccs[t] = c => s = t
    /\ q.front < q.back => q.queues[q.back].items # <<>>

QueueInv(q, S) == CASE q.kind = "ordered" -> OrderedInv(q, S)
                    [] q.kind = "scc" -> SccInv(q, S)
                    [] OTHER -> ListInv(q, S)

=============================================================================
