# rustfst: TLA+ models, checks and proofs

This directory holds a formal model of `rustfst`: the lazy machines that threads share and what
they keep in caches, tables, scratch files and cache files; the mutable machine with its property
bits; the static algorithms from connect to optimize, each as what it does to a machine and its
bits; composition with its filters, matchers and lookahead; the semirings. TLC checks the
models on small instances; TLAPS proves the shared lazy machine, its traversals, the cache layers, the
spillable store, the mutable machine and the shortest distances for every instance. Paths below are relative to `src/rustfst/src/` unless they begin with `src/`.

    tlc -workers 2 -config MCLazyFst.cfg MCLazyFst      # any run: module and cfg of one name
    tlc -config MCSpillPoison.cfg MCSpillStore          # the second run of MCSpillStore
    tlc -config MCSelfLoop.cfg MCShortestDistance       # of MCShortestDistance
    tlc -config MCMinimize.cfg MCAlgorithms             # of MCAlgorithms
    for m in *_proofs.tla; do tlapm $m; done            # the proofs

## 1. The system

The crate represents weighted finite-state machines: states are numbers, a transition has an
input label, an output label, a weight and a destination, a state may have a final weight.

| Component (source) | State | Operations | Hard behaviour | What makes it correct |
|---|---|---|---|---|
| lazy FST core (`algorithms/lazy/lazy_fst.rs`, `cache/simple_vec_cache.rs`) | a cache behind three Mutexes, an operation | start, get_trs, final_weight, clone, clear | no lock is held between a miss and the insertion | every answer is what the operation says of the state asked about; the threads see one machine |
| state table (`lazy/state_table.rs`) | tuples by id and ids by tuple, behind a Mutex | find_id, find_tuple, clone, file | find_tuple panics under the lock on an unknown id | a bijection that only grows |
| traversals (`lazy_fst.rs`: iterators, `compute_bounded`) | position, or queue and visited marks | next, compute | the machine grows or its cache is cleared under the traversal | nothing is missed, bounds are exact, it ends |
| LazyFst2, FirstCache, hash-map cache, cache files (`lazy/`) | same, with transitions and final weight together, or a last entry in front | same, plus write, read | two insertions; nested locks; header and entries read at different times | as above; a file that can be read back |
| compose state store (`compose/compose_state_store.rs`) | resident maps; then slot, offset and tuple files | intern, resolve | byte cap, migration, growth, collisions, an I/O failure at each step | it is a state table throughout; after a disk failure it stops for good |
| compose operation, filters, matchers (`compose/`) | a state table of triples | compute_start, compute_trs, compute_final_weight | epsilon filters, sigma; the side that is matched | the relational composition, each pair of paths once |
| label lookahead (`compose/label_reachable.rs`, `interval_set.rs`, `lookahead_*`) | intervals of labels by state | relabel, reach, check, push | relabelling, interval normalisation, weights and labels pushed ahead of their transition | never says no to a label that can be read; composition stays what it was |
| queues (`algorithms/queues/`) | a list, or slots and an interval, or a queue per component | enqueue, dequeue, clear, is_empty | front and back of the interval | gives back what was put in, within bounds |
| shortest distance (`algorithms/shortest_distance.rs`) | distance, adder, radder, queued marks and sources by state, source_id | a pass from a source | rows kept between passes; any queue order; cycles | the sum over all paths |
| epsilon removal (`algorithms/rm_epsilon/`), optimize | the above, visited marks, element map | expand, in-place removal, lazy operation | state kept between expansions; the machine is rewritten while it is read | the language is kept, no epsilon is left |
| VectorFst and property bits (`fst_impls/vector_fst/`, `fst_properties/`) | states, epsilon counters, 32 bits | each mutation; each algorithm's rule for bits | bits updated from partial knowledge, trusted later | a bit that is set is true |
| connect, DFS, SCC, top_sort, condense (`algorithms/visitors/`, ...) | Tarjan's stacks | callbacks of a visit | propagation along the stack | components, and useful states |
| determinize (`algorithms/determinize/`, `gallic_to_new_symbol`, factor_weight) | a state table of weighted subsets | expansion, of acceptors or through gallic weights | residual weights and strings | deterministic and equivalent |
| minimize, partition (`algorithms/minimize.rs`, `partition.rs`) | classes | split, refine | classes split while others wait | bisimilarity classes |
| shortest path, prune, push, reweight | distances, a heap of paths | one pass | ties, potentials | the n best paths; equivalence |
| union, concat, closure, replace, static and delayed | operand machines, a stack of calls | rewriting, or on demand | bits that come from operands | union, product, star, substitution |
| maps, sorts, sums, projections, relabelling, encodings, isomorphism | - | one pass each | bits again | what each one says it does |
| random paths (`algorithms/randgen/`) | sampled states, a path in progress | sample, visit | a tree visited depth-first while paths are copied | paths of the machine, as many as asked |
| ConstFst, conversions, files (`fst_impls/const_fst/`, `fst_traits/macros.rs`, ...) | one array of transitions | iterate, convert, write, read | what a format cannot say | the machine comes back |
| semirings (`semirings/`) | - | plus, times, divide, reverse, quantize, write, read | lists kept in order; partial operations | the laws `properties()` claims |
| symbol tables (`symbol_table.rs`, `relabel_tables`) | symbols by label with holes, labels by symbol | add, add with a label, union, write, read, relabel a machine by them | a label past the end leaves holes; a symbol given a second label | a machine relabelled spells what it spelled |
| string paths, drawing, bindings, command line, benchmarks | handles | wrappers and output | none shared with the algorithms | unit tests reach them |

How they interact: a static algorithm is called with a `&mut` machine and is sequential; it reads
property bits that earlier mutations and algorithms left, which is how one goes wrong through the
fault of another. A lazy machine is `Sync`: every method takes `&self`, calls its cache (three
Mutexes) and its operation (which calls the state table, one Mutex, or the compose store, one
Mutex), and never holds a lock while it calls another object; FirstCache alone nests its slot's
lock around the inner cache's. Epsilon removal owns a shortest-distance state, which owns a queue.
Compose owns a state table whose store may be the spillable one. determinize, minimize and push
of transducers go through gallic weights, hence through the semirings, and back.

## 2. Modules

| Module | Models |
|---|---|
| `StateTable` | `BiHashMap` and `StateTable`, as operators on a table |
| `LazyFst` | a `LazyFst` shared by threads, one action per critical section |
| `OnDemandFst` | the abstract promise: a machine discovered piece by piece |
| `LazyWalk` | the state iterator and `compute_bounded` as one thread among others |
| `StateTable_proofs`, `LazyFst_proofs`, `LazyWalk_proofs`, `CacheLayers_proofs`, `SpillStore_proofs`, `VectorFst_proofs`, `ShortestDistance_proofs`, `RmEpsilon_proofs` | the proofs about the module each is named after |
| `CacheLayers` | LazyFst2, FirstCache, both caches, `fst_iter`, and the writing and reading of a machine in use |
| `SpillStore`, `Interner` | the compose state store; its abstract promise: one table, calls that may fail |
| `Queues`, `ShortestDistance` | the queue disciplines; the relaxation, over the queues `AutoQueue` may build |
| `RmEpsilon` | the expansion and both removals, over `ShortestDistance` |
| `FstProperties` | the 32 bits, what each says of a machine (`Truth`), their computation |
| `Mutations`, `VectorFst` | how each mutation and each algorithm derives bits; the mutations; a machine under any sequence of them |
| `Visits` | the depth-first visit as the sequence of its callbacks, the visitors as folds over it |
| `StaticOps`, `StructureOps`, `PathOps` | the algorithms that rewrite labels and transitions; that change states (connect, sorts, condense, encode, push); that follow distances (prune, shortest path, isomorphism) |
| `Minimize`, `DeterminizeOps` | minimization and determinization of acceptors |
| `GallicOps`, `TransducerOps` | the same for transducers, through gallic weights; the rewriting of rm_epsilon, and optimize |
| `ComposeFilters`, `ComposeOps` | matchers and epsilon filters; lookahead, and composition over them |
| `ReplaceOps` | replacement with its stack of calls, and the delayed union, concat and closure built on it |
| `FileOps`, `PathIteration` | text, binary, ConstFst, conversions and symbol tables; paths, linear machines and random paths |
| `Algorithms` | what a machine means (a weight for every pair of words: not a translation but the specification); one action per algorithm on a machine; the properties of all of them |
| `Semirings` | the semirings |
| `FormalSums` | a weight taken through operations, beside the formal sum they make |
| `MC*` | the instances for TLC |

**LazyFst.** `cstart`, `ctrs` and `cfinal` are the three Mutex-protected fields of the cache,
`table` the operation's state table; each thread has a `pc` that names its next critical section
and the locals of the call. A call misses (`TrsMiss`), finds the tuple (`FindTrsTuple`), interns
each destination (`InternNext`, one lock each), inserts (`InsertTrs`); `ComputeFails` is the `?`
in between. Clearing and cloning a cache are one action each because the code takes the three locks
in one order and holds them to the end; the derived `Clone` of the machine is two actions
(`CloneField`), cache first. `Succ` and `Final` are what the operation computes of a tuple; the
order in which it reads and interns tuples is that of the compose and factor-weight operations.

**LazyWalk.** The thread `Walker` calls `LazyFst` from outside. `num_known_states` takes three locks
in turn (`IterReadKnown`). `compute_bounded` is followed step by step, with its two bounds.

**CacheLayers.** `layer` says which machine it is: LazyFst2 or LazyFst, with FirstCache in front or
not, over the vector or the hash map. Here an operation interns all destinations at once (LazyFst
has the interleavings of these), so that the state goes to the layers: slots are locked, evicted and
refilled around the inner cache's own locks. The writer takes the locks `write` takes: the cache's
fields one after the other, the number of a map's entries under one lock and the entries under
the next, then the table. `quiet` is history: nobody touched the cache while it was written. The reader is exact: it takes the
announced number of entries (`Taken`; of a map, whose order is arbitrary, any that many), ignores what is left,
and finds the final weights only where the entries of the transitions end as announced (`OutOfStep` otherwise).

**SpillStore.** The store is behind a Mutex, so there is one call at a time; the steps of a call are
the file operations, each of which may fail. Hash-map capacities are modelled as the code
computes them (`ProspectiveMap`) next to what the standard library allocates (`ReservedMap`), since the cap
is checked against both.

**Queues, ShortestDistance.** A queue is a value; `AutoQueues(m)` is the set of the disciplines
`AutoQueue::new` may choose for `m`, a set because the property bits it consults may be known or
unknown, and because any topological numbering of the components may come out. One action is one
transition examined. `closure` is history: the sums the pass should find, by their definition.

**RmEpsilon.** The locals and retained fields of `RmEpsilonState::expand` are variables; `mode` says
whether the static removal drives it, with the machine rewritten in place (`Replace`), or the lazy
operation with any state (`Compute`). `connect` is taken by its result here; `TransducerOps` has the
whole removal as one rewriting, bits included.

**VectorFst and the bits.** A machine is a record `[start, trs, final, eps, props]`: transitions by
state, the stored epsilon counters, and the set of the bits that are on. A mutation is an operator that
returns the machine it leaves, with the bits it derives from what it changed (the first part of
`Mutations` translates `mutate_properties.rs` rule by rule). `Truth(f)` is the set of the bits that are true of `f`
by the definition of each, computed from the machine alone.

**Algorithms.** The sequential algorithms share no state with anybody, so each is one step, an
operator written as a fold of the mutations the code makes, in its order, with the bits it reads and
sets. The interest is in sequences: an algorithm trusts the bits its predecessor left. `was`, `op`
and `arg` remember the last step for the properties. A failure is the value `Err`. What decides a result
is kept: the n shortest paths come off the binary heap of the code, sift by sift (`HeapPush`,
`HeapPop`), since ties are broken by it; determinization counts states, subset elements and
transitions where the code counts them (`PastLimit`), so that a limit is met at the same state. A
symbol table is a sequence of symbols with holes (`AddSymbolWithKey` past the end makes them), and
`RelabelTables` is the whole of `relabel_tables`, one pair of tables to another.

**Semirings.** A semiring is a record of functions, generic code (gallic, union, strings) is built
over another record as the Rust types are over a type parameter. Log weights are represented by
the probabilities they stand for, as fractions; strings of labels as sequences, zero as `Infinity`.

## 3. Runs

| Run | Question | Bounds |
|---|---|---|
| `lazy_fst` | do threads that query, clone and clear see one sound machine? | 2 threads, 3 tuples with a fork, a shared destination and a cycle; an empty operand, a failing state, a table filled beforehand |
| `lazy_walk` | does a traversal see all of the machine while another thread uses and clears it? | 3 tuples (a fork, a cycle back, a loop); started at the loop alone, a machine of one state; state bounds none, 0, 2, 3 and transition bounds none, 3, 4, on both sides of 3 states and 4 transitions, and 0, which one state gets past |
| `cache_layers` | do the other layers answer rightly under threads, and what does a reader make of a machine written while it is used? | 2 threads (one iterates, one asks and clears, once) and a writer; 2 tuples; five layers |
| `spill_store` | is the store one state table through the cap, the migration, growth, and failures? | 5 tuples, of which three share a probe sequence; two growths; five caps; ids end at 4 |
| `spill_poison` (violation) | is a store only refused after an I/O failure? | as above |
| `shortest_distance` | is every path counted exactly once, under every queue and over retained rows? | every machine of 3 states in the families of the MC module, two passes |
| `self_loop` (violation) | is the distance the sum over all paths, whatever the order of transitions? | one machine of 3 states |
| `rm_epsilon` | is each expansion exact whatever preceded it, and is the language kept by each rewriting? | every machine of 3 states in the family, words of up to 2 labels, two lazy expansions |
| `vector_fst` | are the bits and counters true after any sequence of mutations? | 2 states, 2 transitions, epsilon and a label, two weights; any number of mutations |
| `algorithms` | does each algorithm keep, or change as it says, the transduction, with true bits? | some 110 machines, with bits as mutations leave them, with all bits computed, or both; two algorithms in a row on two of them; see below |
| `minimize` (violation) | does minimization of a nondeterministic acceptor, allowed for idempotent weights, keep the language? | one acceptor of 7 states |
| `semirings` | is each weight what its semiring makes of the whole sum, and are the claimed laws true? | 18 kinds, 4 operations, sums of up to 3 terms |

What the instances reach. Two threads suffice for each race of `LazyFst`: its critical sections
touch one state or the table, and a race is between a thread that has read and one that writes; the proofs cover any number.
Three tuples give a destination that two states share and a cycle back. In `spill_store` the table
grows twice after migration, and the tuples collide before and after. Three states give
every shape of epsilon cycle (loop, two, three), a cycle entered in the middle, and diamonds. The
deadlock check is on for the lazy, cache and store runs; the algorithms of the other runs end.

*The machines of `algorithms`.* All machines of two states and one transition from the first state
(any destination, labels among epsilon and 1, weight 0 or 5) or from the second (weight 5), with the bits that
mutations leave and a final weight 0 or 5; then, both with these bits and with all bits computed, all
pairs of four chosen transitions (a loop, an epsilon, two that change their label), the empty ones,
machines with choices, loops and dead ends, and three chains of three or
four states whose order is not topological or whose output waits for more input. On each: the
operations with all their options; second operands and second machines of compose with epsilons to
wait for and with sigma; six filters, connect or not, three rewritings of sigma; ten
configurations of lookahead (label and transition, either side, with and without pushing of weights and
labels); five grammars of replace, two of which nest; the three types of determinization with at
most 5 subsets, and with a low limit on elements or on transitions; weights, labels, total and affix to push either way; 0, 1 or 2 shortest paths, unique or not,
in three queue orders; the files and conversions; relabelling by six pairs of symbol tables (another order, epsilon elsewhere, a
symbol missing, a hole, a symbol with two labels); two random paths of at most 2 or 4 transitions in
three ways, for every answer of the generator. `Meaning` compares words of up to 2 labels on both sides;
`PathLength` 4 is longer than any path of the acyclic machines. Two algorithms in a row are applied to a cycle
with an epsilon, whose bits are those mutations leave, and to an acyclic transducer all of whose bits are known: what one
algorithm says of its result, the next one trusts. Not in the instance: minimization of nondeterministic
acceptors (`Nondet`), which `minimize` shows to fail, and the branches of optimize for weights that are not idempotent.

*Sizes.* `cache_layers` has 2.3 million distinct states, `lazy_walk` 834 thousand, `vector_fst` 465 thousand, `spill_store` 176 thousand, `algorithms` 36 thousand, with
the transduction of each computed; no run takes more than four minutes on two workers.

*Weights.* The power series in x cut after x², each transition weighing x, have no
cancellation and no idempotence, so that a path counted twice, or not at all, shows in a coefficient;
the tropical weights 0 and 1 add the case in which a better path is found later. In the series, cycles
terminate because x³ is 0. Rounding by delta is only in `self_loop` (probabilities in 64ths) and in
`semirings` (`Quantize`). The tropical weights of `algorithms` are integers further apart than delta.
In a path semiring a path counted twice does not show in the transduction: `Promised` therefore counts paths, of compose and of
shortest path, one by one.

**Properties.** The type invariants of `LazyFst` and `VectorFst` are theorems, as are most of the safety properties of
the first four groups below (section 5). What the runs check:

- `TableBijective`, `CacheSound`, `AnswersSound`, `NoAbsentLookup`, `KnownCovers`, `CloneClosed`:
  the table stays a bijection, the cache holds what the operation says of the tuple an id names, so
  do the answers in flight; nobody asks for an id the table lacks; the counter of known states
  counts what the cache mentions; a clone names nothing its own table lacks. `Implements`: the
  threads implement `OnDemandFst`. `CallsReturn`: a call ends.
- `IterComplete`, `SingleTouch`, `ComputeFaithful`, `BudgetExact`, `WalkEnds`; `WalkerIsClient`: a
  traversal only makes calls any client may make, so what is shown of `LazyFst` holds under it. `BudgetExact` holds
  `compute_bounded` to its doc (`WithinBounds`), but for one named exception, `StartUncounted` (section 4).
- `AnswersRight`: whatever layer answers, it answers of its own state. `IterDefined`: the unchecked
  read of `fst_iter` finds its entry unless the cache is cleared meanwhile. `FilesClosed`: of files
  written while the machine grew, the reader finds as many transitions as announced, whichever they are they are right, and the
  table names all they mention; so with the final weights unless the file is out of step, which only a map's can be. `ReadsBack`: a
  quiet cache is in step and read back exactly, in one way only.
- `ImplementsInterner`, `ProbeSound`, `MigrationPresized`, `ResidentWithinCap`, `PoisonIsFinal`.
- `Conserved`: what a state has and what is under way to it add up, at every step, to the sum of all
  its paths. This is the loop invariant of the algorithm; the exactness of the result is its
  instance at an empty queue. `QueueFaithful`: a weight that waits at a state waits in the queue, and
  is_empty is right. `PassEnds`.
- `DistancesFresh`, `ExpandExact`, `LanguageKept`, `ExpandEnds`. No order of the states in
  the static removal is needed for `LanguageKept`: with the order reversed it holds as well, as each
  expansion keeps every state's weight of every word. The order is for speed.
- `BitsTrue` (in `vector_fst` and, less the claims `Misnamed` lists, in `algorithms`): a bit that is on is true of
  the machine, whatever was done before. `EpsilonCounts`: so are the stored counters.
- `Meaning`: the transduction after an algorithm is what the algorithm makes, by definition, of the one before;
  the right-hand side is computed over word pairs by fixed points, never by the algorithm.
  `Promised`: the shape of the result (deterministic, sorted, trim, epsilon-free, the n best paths, one
  path for each pair, isomorphic or not, every state in its place after a file, paths given once).
  `ComponentsRight`: Tarjan's components against mutual reachability, and distances of all
  pairs against those of each source. `ReachableRight`: label intervals against reachability.
- `Denotes`: a weight is the value in its semiring of the whole formal sum it was made from, after
  any operations in a row, reversal and files included. `Lawful`: the laws of a
  semiring as the doc of `Semiring` has them (associative and commutative sums, units, the annihilator), and those `properties()` claims, at each
  weight reached; `GallicWeightMin` on ties is the one exception (`Tied`, section 4).

**Fairness.** `LazyFst` and `LazyWalk` assume weak fairness of each thread's own steps: the scheduler
runs a thread that can run, and every lock is released by a bounded critical section. It is not
assumed that a thread makes calls, nor that anybody stops clearing. `ShortestDistance` and
`RmEpsilon` assume that a sequential loop goes on. The other modules have safety properties only: an
operation of theirs is one step, or a call that cannot wait (`SpillStore`), or deadlock is checked (`CacheLayers`).

**Mutants.** Each property of a passing run has a mutation of a translated definition that
breaks it, kept beside that definition and named after the fault (`WaitForgotten`: an epsilon filter
forgets that it waited; `TableFirst`: the table is written before the cache; ...). They are not part of any specification.

## 4. What the runs and the translation found

Runs that refute what a comment says:

- `self_loop`: `shortest_distance.rs:244` tests the queued mark of the state being expanded instead
  of the destination's. In a semiring where a loop adds weight (log, probability), a self-loop listed
  before another transition keeps the destination of the latter out of the queue: states behind
  it lack weight, or are missing from the result. The families of `shortest_distance` and `rm_epsilon`
  therefore put a self-loop last; this is the only shape they leave out for that reason.
- `spill_poison`: an error that is no I/O failure (an absent id asked of a spilled store) poisons a
  healthy store, which then reports "an earlier I/O failure"; in memory the same call leaves the store usable.
- `minimize`: `partition.rs:144` queues the smaller half of a split class only, which is sound for deterministic
  machines; `minimize.rs:90` promises nondeterministic ones as well. A random test of this is ignored in the crate.

Where the models follow code that does not quite do what its name, comment or sibling says. The
properties above are stated so that these are visible in them (`Misnamed`, `FirstWritten`, `OutOfStep`, `StartUncounted`, `Tied`,
`LookaheadFits`, conditions in `Promised`), or they lie outside the instances:

- *Bits.* The epsilon mappers announce epsilons with no transition to map; encoding weights keeps
  I_DETERMINISTIC though a final weight may become a transition; replace keeps bits of machines never
  called, NOT_TOP_SORTED and NOT_STRING after renumbering, and NOT_I_DETERMINISTIC when the labels of calls become
  epsilon; compose keeps ACCEPTOR when a sigma is rewritten on one side. `set_trs_unchecked` keeps
  the old bits (`mutable_fst.rs:254` says so of itself). `set_final` with a zero weight keeps UNWEIGHTED. The visit that computes bits returns
  early on states without a start state, where top_sort fails and condense panics.
- *Files.* `write_fst!` writes no row for a start state without transitions, so another state is the start when
  it is read back (OpenFST writes such a state): the first that has transitions, or else the first that is final, which
  `Meaning` and `Promised` say (`FirstWritten`); states mentioned nowhere are lost; a row that cannot be parsed silently ends the file.
  The header of a hash-map cache takes the number of entries under one lock (`simple_hash_map_cache.rs:227`) and the entries under the
  next: a thread that inserts between the two leaves a file out of step. Its reader takes the announced entries, then looks for the header of the
  final weights in the next entry; the file is refused, or bytes of transitions become final weights. `cache_layers` reaches such
  files; of final weights, written last, a surplus entry is only lost. The number of known states in a file may be older than its entries.
- *Bounds.* `compute_bounded` compares `max_states` when it discovers a destination (`lazy_fst.rs:322`), never for the start state: with a
  bound of 0 a machine of one state is written out, although the doc (`lazy_fst.rs:260`) has it abort once more than `max_states` states
  have been produced. A larger machine is refused, with two states discovered.
- *Paths.* `fst_path.rs:129` indexes the output labels with the position in the input; a machine without start
  accepts the empty path; a linear machine decoded from a machine without paths is the empty path. A random path as long as max_length is dropped.
- *Algorithms.* `union_static.rs:87` does not shift a start when the first machine has states but none; tr_unique keeps
  the third of the weights w1, w2, w1; `isomorphic.rs:64` does not check that a partner is nobody else's; pushing
  with labels where nothing is accepted divides by infinity (a panic for strings, -inf for weights), and REMOVE_TOTAL_WEIGHT without
  PUSH_WEIGHTS towards the final states divides by the least final weight alone; label lookahead that includes non-epsilons loses
  the paths on which the other machine waits; "sigma (all)" acts as the rest.
- *Semirings.* GallicWeightMin keeps the right operand on ties (`gallic_weight.rs:107`), so its sums do not commute, as
  `semiring.rs:32` asks of every semiring, and replaces by the right operand over weights without an order;
  division by a sum does not undo a product (`semiring.rs:92` has it for all divisors); a label u32::MAX reads back as infinity; the hash is
  exact where equality is up to delta; `GallicFactorRight` leaves the first label in.

## 5. What is proved

Each theorem holds for every value of the constants under the named assumptions of its module, hence for
any number of threads, tuples, states and transitions. Every module has an inductive invariant, checked by TLC
before it was proved; one lemma per action shows that it is kept, with one step for each conjunct
the action can disturb, and the properties follow from it.

**`LazyFst_proofs`** (`JobsAssumption`, `MachineAssumption`, `TableAssumption`: the operation is a function of the tuple, and
a table the machine starts from is injective). `InvHolds`, hence `TypeOK`, `TableBijective`, `CacheSound`,
`AnswersSound`, `NoAbsentLookup`, `KnownCovers` and `CloneClosed`. None of these is
inductive alone: that an answer is sound rests on the partial result of a call in progress being sound for the
tuple it looked up (`CallInv`), which another thread's step preserves because tables only grow
(`Extends` and the lemmas `...Extends`). A clone is closed since its cache part was
sound for the table at the time it was copied, and the table copied later extends that one.
`ImplementsHolds` is the refinement, `Spec => Implements`: under `Inv`, interning is `Name` or a stutter; an
insertion over an answer another thread inserted is a stutter, as both decode to the
same tuples and the table is a bijection.

**`LazyWalk_proofs`** (`WalkerAssumption`, and those of `LazyFst`). First `WalkerIsClientHolds`, the refinement
`Spec => WalkerIsClient`: every step of the whole is a step of `LazyFst` or a stutter, so that its theorems hold here too. Then
`WalkInvHolds`, hence `IterComplete`, `SingleTouch` and `ComputeFaithful`, and `BudgetExactHolds`. `IterInv` says what the three reads of
`num_known_states` have established: after the first lock the start of the machine is below the maximum, after the second
the destinations of all that was yielded; neither is lost when others insert, since cached transitions stay and ids
do not change, and both are conditional on no clear since the iteration began. `SearchInv` and `CopyInv` are the loop invariant of the
breadth-first copy: what was copied decodes to the machine's transitions, what it leads to is visited, what is
visited is queued or copied. `BudgetInv` adds the counting: as the table is a bijection there are as many discovered tuples as
discovered states (`TuplesCounted`), and each expanded state adds its own transitions once (`TrsFromAdds`, from `SingleTouch`). So a
bound that is passed is passed by a part of the machine, hence by the machine, and at the end the part is all of it. The machine need not be finite.

**`CacheLayers_proofs`** (`JobsAssumption`, `LayersAssumption`). `InvHolds`, hence `AnswersRight` (the slot of FirstCache holds what the cache
behind it holds, and both are right by the table), `IterDefined` (a call that has its transitions has them cached unless somebody cleared),
`FilesClosed` (each section of a file was right by the table of its time, and the table is written last) and `ReadsBack`
(`QuietInv`: while nobody touches the cache, each field written equals the cache's). That the announced entries are always there is
`CountsHold`: the entries of each part cover the number taken of it (`CountsInv`, by counting in `TrsCountKept` and `CountWritten`),
since other threads only insert: a clear waits for the lock of the start, which the writer holds until the cache is written.

**`SpillStore_proofs`** (`StoreAssumption`). `InvHolds`, hence `ProbeSound`, `MigrationPresized`, `ResidentWithinCap` and `PoisonIsFinal`, and
`ImplementsInternerHolds`, `Spec => ImplementsInterner`. The core is `TableSound`: each id is in one slot, and the
probe sequence of its hash reaches it over occupied slots. Taking a free slot keeps this because slots are never emptied; growth keeps it since it
copies into a table of twice the slots by the same search; a free slot exists because at most seven tenths are
taken, by counting (`SlotsInv`). Migration never rehashes as the table was sized for all resident tuples (`MovingInv`).

**`VectorFst_proofs`** (`LabelsAssumption`, `WeightsAssumption`, `BoundsAssumption`). `InvHolds`, hence `TypeOK` and `EpsilonCounts`: the counters that
each mutation updates by what it adds and takes away equal the number of epsilons among the transitions, whatever was done before.
The lemmas count a filtered sequence through `Append`, `SubSeq`, removal of places and concatenation; deleting states renumbers
destinations, drops transitions and keeps the counts of those that remain (`OldId`, and the lemmas around it).

In its second half (with `NoneAssumption`: no state and no weight is the `None` of an `Option`), `BitsTrueHolds`,
`Spec => []BitsTrue`: no bit that is set lies. `AllBits(p, f)` says of the bits question by question what `Truth` says
with a set (`TruthIs`); with the shape of the machine it is inductive. Its parts about reach and cycles need the
function that `ReachFrom` iterates to exist; it is given without an induction as the sets of ends of walks of each length (`RoundsExist`),
grows until it is closed, at most as often as there are states (`RoundsEnd`), and gives the least closed set (`ReachIs`).
Then the notion that carries the argument: `Embeds(g, f, old)`, the states of `g` are some of those of `f` in order, and its
transitions some of theirs in order. What `f` lacks `g` lacks: unequal or repeated labels, epsilons, inversions, weights,
cycles. A deletion embeds the new machine in the old one, an addition the old in the new, so one direction of each bit follows; the other is
`NOT_` a bit that the rule of the mutation drops, or one witnessed by the transition at hand (`AddTrHas`, `RelabelledHas`, `ReweighedHas`:
what each rule of `Mutations` keeps, bit by bit). `TopAcyclic` justifies that adding a transition to a sorted machine sets `ACYCLIC`.

**`ShortestDistance_proofs`** (`SDAssumption`, `FstsAssumption`: finitely many states, to which the transitions lead). `PassInvHolds`, hence
`QueueFaithfulHolds`, for any weights and under any queue `AutoQueue` may pick. First what each queue keeps (`ListInv`, `OrderedInv`, `SccInv`) and
what its operations do to the states that wait (`Enqueues`, `Dequeues`, `Clears`, `Answers`). SccQueue's `is_empty`, which looks at the two ends of the
interval only, is right because the last component of an interval of several is never drained before the others; that is kept since a pass enqueues
no component before the one it expands, which is the topological order of the components (`RelaxMoreKeeps`). An ordered queue has one slot a state
as no two states of a machine to which it is given share a component (`CycleInside`). `RowsInv` says that what waits has a row of this
pass. The theorems have a hypothesis, `LoopsHarmless`: for each weight type, a self-loop is the last of its state's kept transitions, or the
weights absorb (`x + x*y = x`, as min and + over non-negative numbers do), in which case no self-loop changes a distance (`LoopInv`). It
is not a convenience: the machine of `self_loop` has neither, and there a weight waits outside the queue. The two families of
`shortest_distance` satisfy it, one each way.

In its second half, `ConservedHolds`, `LoopsHarmless /\ SumsExact => (SDSpec => []Conserved)`, and
`DistanceExactHolds`: what a pass answers is the sum over all paths, under any queue and over rows left by earlier passes. The
invariant `SumsUp` says that the distance of a state, what is under way to it and what waits elsewhere, carried on over every path, add up to
the sum from the source. It holds at the start because the closed sum is one transition longer than itself (`SumStarts`); taking a
weight from a row moves it (`SumTakes`); a transition that changes a distance splits it into a part that arrives and a part that waits (`SumGoesOn`).
The hard case is a weight that is dropped since adding it changes nothing (`RelaxNothingSums`). With a sum that loses only zero nothing was dropped. With an idempotent one the weight is
below the distance it was compared with, but what would follow it must be in the sums as well: that needs the invariant `SpreadOut`, that
each distance is a part handed on along all its transitions, the weight that waits, and the weight under way, handed on as far as the pass
has come; hence whatever a distance is worth further on is in the sums there (`SpreadCarries`, and over paths of any length `PathsCarried`). The sums
`Total` and `PathSums` are recursive functions: that they exist, and have their equations, is proved for each length from the one before by well-foundedness
of the naturals (`FoldExists`, `PathSumsExist`), not by the induction theorem, which the provers cannot instantiate.
The hypotheses: `LoopsHarmless` as above. `SumsExact`: the weights of each type form a semiring, in which comparison up to delta is
equality (otherwise the code drops weights below delta, and the answer is approximate), whose sum is idempotent, as that of the tropical and the
string weights, or loses nothing but zero, as that of counts; and there is a length after which longer paths add nothing, as in every acyclic machine
and in a cyclic one when going round improves nothing. The two families of `shortest_distance` satisfy it (`SumsClose` in the MC module has TLC check the last part).

**`RmEpsilon_proofs`** (`RmAssumption`, and those of `ShortestDistance`). `ElementsPlacedHolds`, for every machine and weight type: the index that
`get_unchecked_mut` takes from the element map lies within the transitions found and names the same element, and an expansion answers each
label and destination once. The map outlives the expansion, so the invariant `MapInv` goes by the age of its entries: none is younger than `expand_id`, those
of this age are in place (`Placed`), the others are never followed. `Placed` is carried through the fold over the transitions of a state
(`FoldPrefixes`: a left fold goes through its prefixes one by one) and is vacuous after `expand_id` grows.

`DistancesFreshHolds`, `LoopsHarmless /\ NothingVanishes => (RmSpec => []DistancesFresh)`: the walk of an epsilon closure meets only states to which the
pass of this source gave a row, so that `distance_ref` never panics and never reads what an earlier source left. Two facts meet. While the pass
runs (`FreshInv`), the kept transitions of every state with a row of it, as far as they have been examined since a weight waited there last, lead to such
states; when nothing waits, these states are closed under epsilon transitions (`EndFound`). Then the walk, which starts at one of them, stays among them. Between passes
the machine is rewritten in place, but only so that kept transitions are left out (`Thinner`), hence the weights of the next pass are still those of the hypothesis.
That a state which gets a row is also expanded is not a matter of course: the row is made before the weight is compared, and a weight that changes nothing is
not enqueued. A first weight changes nothing exactly when it equals zero up to delta; hence the hypothesis `NothingVanishes`: no product of fewer
kept weights than there are states does (`D[k]` are the weights that a pass may carry while `k` states have a row of it; a product is only ever
compared with zero at a state without one). It holds of finite tropical weights, of labels, and of the polynomials of `rm_epsilon`; it fails for an epsilon transition that weighs
zero, and for probabilities whose product falls below delta. There the walk goes on to states that the pass has not touched.

`ExpandExactHolds`, `LoopsHarmless /\ NothingVanishes /\ StaysExact => (RmSpec => []ExpandExact)`: an expansion answers, for each label and
destination, the sum over the epsilon closure of its state, whatever the earlier expansions left in the rows, the marks and the element map. It joins the
other results. The pass has given exact distances (`SumsInv`, the invariant behind `DistanceExactHolds`, which here holds over a machine that changes between passes). The walk has added up
exactly the parts of the states it has visited, each its distance times what that state has (`WalkSums`), and whatever a visited state leads to is visited or on the stack (`Reached`). When
the stack is empty the visited states are closed under epsilon transitions; outside a closed set that holds the source, the closure is zero (`OutsideNothing`), so the sum over the visited states is
the sum over all (`PartAll`). That a state counts once, and an element found again is added to and not found anew, comes from the marks of this expansion and from `MapInv`.
The hypothesis `StaysExact`: the weights are as in `SumsExact`, and paths of more than `PathBound` epsilon transitions add nothing, in the machine and in
whatever the removal leaves of it (`SoundRewritten`: it only replaces the transitions of a state by labelled ones). In the tropical semiring without
negative cycles `PathBound` is one less than there are states; the polynomials of `rm_epsilon` vanish after two epsilon transitions.

**Model-checked only.** Liveness (`CallsReturn`, `WalkEnds`, `PassEnds`, `ExpandEnds`), since the
prover has no rule for ENABLED. `LanguageKept`, which compares
sums over all words along the whole rewriting: each step is exact by `ExpandExactHolds`, but that the words keep their weights is an induction over them. The algorithms and the semirings: what folds
and recursive definitions compute for every machine needs induction over data, beyond these provers.
RECURSIVE operators are declared only in modules that no theorem reaches.

## 6. What is not modelled

- String paths, drawing, both bindings, the command line and benchmarks: wrappers and output.
- The contents of files beyond their records: the bytes of the binary formats, their alignment and the checks of
  type and version; what a torn write leaves (a store is poisoned by it; a cache file cut short is refused).
- Memory exhaustion other than a failing reservation; poisoned Mutexes (the models show that
  the panic under a lock is not reached); `==` of two caches, which locks both and may deadlock, and which
  nothing but tests calls; NullCache, whose unchecked reads never find an entry.
- Limits: those of shortest path and prune on states; the thresholds of
  epsilon removal and first_path, which no public function sets; `ShortestFirstQueue`, which `AutoQueue` builds only for distances no caller gives.
- Weights: a semiring operation that fails inside a pass (`shortest_distance.rs:253`); closure(); PowerWeight, which is
  commented out; rounding of floats other than by delta.
- Inside modelled components: the linked lists and marks of a partition (a class is the sequence of its members in the order of the links, so that a wrong link would not show); the marks an epsilon removal leaves when a machine it reads fails; `set_trs` over transitions there already, whose stale bits are in section 4, the sharing of lookahead data
  between matchers, capacities of vectors, MultiEpsMatcher beyond its iteration.

## 7. What is left

1. Weights that fail in `ShortestDistance`.
2. A non-idempotent instance of `Algorithms`, for the other branches of optimize and the counting of paths in `Meaning`.
3. Equality of caches, with its lock order.
