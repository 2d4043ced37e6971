---------------------------- MODULE CacheLayers ----------------------------
(***************************************************************************)
(* The other layers of a lazy machine's cache, shared by several threads:  *)
(* LazyFst2, whose operation gives transitions and final weight together;  *)
(* FirstCache, which keeps the last answers in front of another cache; and *)
(* the files a cache and a state table are written to and read back from.  *)
(*                                                                         *)
(* One action per critical section, as in LazyFst.  clear() holds the      *)
(* three locks of the cache until it returns, the writer holds that of the *)
(* start state.                                                            *)
(***************************************************************************)
EXTENDS StateTable, FiniteSetsExt, Functions

CONSTANTS
    Threads,
    Jobs,       \* Jobs[t]: the calls thread t may make
    Start,      \* the start tuple
    Succ,       \* Succ[t]: the destinations of t's transitions
    Final,      \* Final[t]: its final weight
    Layers,     \* the machines: [lazy2, wrapped, kind]
    MaxClears   \* bound on the calls of clear

ASSUME JobsAssumption == Jobs \in [Threads -> SUBSET {"start", "trs", "final", "iter", "clear"}]

ASSUME LayersAssumption ==
    /\ Start \in Tuples
    /\ Succ \in [Tuples -> Seq(Tuples)]
    /\ Layers \subseteq [lazy2 : BOOLEAN, wrapped : BOOLEAN, kind : {"vec", "hash"}]

VARIABLES
    layer,    \* LazyFst2 or LazyFst; FirstCache in front or not; which cache
    table,    \* the operation's state table
    cstart, ctrs, cfinal,  \* the cache, as in LazyFst
    lastTrs, lastFinal,    \* the slots of FirstCache: <<>> or <<id, value>>
    calls,    \* calls[t]: what thread t is doing
    clears,   \* calls of clear so far
    writer,   \* the next critical section of the writer
    file,     \* what it has written
    quiet     \* history: the cache is as it was when the writer, if it did, began

cache == <<cstart, ctrs, cfinal>>
slots == <<lastTrs, lastFinal>>
files == <<writer, file>>
vars == <<layer, table, cache, slots, calls, clears, files, quiet>>

NotComputed == -1
Nothing == [i \in {} |-> 0]
NewCache(data) == [data |-> data, known |-> 0]
Raised(known, ids) == Max({known} \cup {i + 1 : i \in ids})
Put(data, id, v) == [i \in DOMAIN data \cup {id} |-> IF i = id THEN v ELSE data[i]]

\* What a thread is doing: the call it makes, the state it asks about, the
\* transitions an operation has built for it, and the answers it has.
Idle == [pc |-> "idle", job |-> "none", want |-> "none", id |-> 0, built |-> <<>>,
         trs |-> <<>>, final |-> 0, num |-> 0, cleared |-> FALSE]
At(t, pc) == calls[t].pc = pc
Step(t, new) == calls' = [calls EXCEPT ![t] = new]

Init ==
    /\ layer \in Layers
    /\ table = TableOf(<<Start>>)
    /\ cstart = NewCache(NotComputed)
    /\ ctrs = NewCache(Nothing) /\ cfinal = NewCache(Nothing)
    /\ lastTrs = <<>> /\ lastFinal = <<>>
    /\ calls = [t \in Threads |-> Idle]
    /\ clears = 0
    /\ writer = "idle" /\ file = Nothing /\ quiet = TRUE

-----------------------------------------------------------------------------
(* Answers of the caches.  FirstCache holds the lock of a slot while it    *)
(* asks, or fills, the cache behind it.                                    *)

\* Mutant: whatever state the slot was filled for.
SlotOfAny(slot, id) == layer.wrapped /\ slot # <<>>
Slot(slot, id) == layer.wrapped /\ slot # <<>> /\ slot[1] = id
TrsKnown(id) == Slot(lastTrs, id) \/ id \in DOMAIN ctrs.data
TrsOf(id) == IF Slot(lastTrs, id) THEN lastTrs[2] ELSE ctrs.data[id]
FinalKnown(id) == Slot(lastFinal, id) \/ id \in DOMAIN cfinal.data
FinalOf(id) == IF Slot(lastFinal, id) THEN lastFinal[2] ELSE cfinal.data[id]

\* The start lock is free.
StartFree == writer \in {"idle", "table", "done"}

Begin(t) ==
    \E job \in Jobs[t] \ {"clear"}, id \in Allocated(table) :
        /\ At(t, "idle")
        /\ job = "start" => id = 0
        /\ Step(t, [Idle EXCEPT !.job = job, !.id = id,
                                !.want = IF job = "final" THEN "final" ELSE "trs",
                                !.pc = CASE job = "start" -> "get_start"
                                         [] job = "final" -> "get_final"
                                         [] OTHER -> "get_trs"])
        /\ UNCHANGED <<layer, table, cache, slots, clears, files, quiet>>

GetStart(t) ==
    /\ At(t, "get_start") /\ StartFree
    /\ Step(t, IF cstart.data = NotComputed
               THEN [calls[t] EXCEPT !.pc = "insert_start", !.id = FindId(table, Start)]
               ELSE [calls[t] EXCEPT !.pc = "done", !.id = cstart.data])
    /\ UNCHANGED <<layer, table, cache, slots, clears, files, quiet>>

InsertStart(t) ==
    /\ At(t, "insert_start") /\ StartFree
    /\ cstart' = [data |-> calls[t].id, known |-> Raised(cstart.known, {calls[t].id})]
    /\ Step(t, [calls[t] EXCEPT !.pc = "done"])
    /\ quiet' = (writer = "idle")
    /\ UNCHANGED <<layer, table, ctrs, cfinal, slots, clears, files>>

\* fst_iter asks for the transitions, then the final weight, then the number
\* of transitions of a state.
After(t) == IF calls[t].job # "iter" THEN "done"
            ELSE IF calls[t].want = "trs" THEN "get_final" ELSE "num_trs"

GetTrs(t) ==
    /\ At(t, "get_trs")
    /\ Step(t, IF TrsKnown(calls[t].id)
               THEN [calls[t] EXCEPT !.pc = After(t), !.trs = TrsOf(calls[t].id)]
               ELSE [calls[t] EXCEPT !.pc = "compute"])
    /\ UNCHANGED <<layer, table, cache, slots, clears, files, quiet>>

GetFinal(t) ==
    /\ At(t, "get_final")
    /\ LET c == [calls[t] EXCEPT !.want = "final"]
       IN  Step(t, IF FinalKnown(c.id)
                   THEN [c EXCEPT !.pc = IF c.job = "iter" THEN "num_trs" ELSE "done",
                                  !.final = FinalOf(c.id)]
                   ELSE [c EXCEPT !.pc = "compute"])
    /\ UNCHANGED <<layer, table, cache, slots, clears, files, quiet>>

\* compute_trs_and_final_weight of LazyFst2, or one of the two computations of
\* LazyFst: the destinations are named one after the other.
Building(t) == layer.lazy2 \/ calls[t].want = "trs"
Tuple(t) == FindTuple(table, calls[t].id)

InternNext(t) ==
    LET c == calls[t]
        next == Succ[Tuple(t)][Len(c.built) + 1]
    IN  /\ At(t, "compute") /\ Building(t)
        /\ Len(c.built) < Len(Succ[Tuple(t)])
        /\ table' = Interned(table, next)
        /\ Step(t, [c EXCEPT !.built = Append(@, FindId(table, next))])
        /\ UNCHANGED <<layer, cache, slots, clears, files, quiet>>

ComputeFinal(t) ==
    /\ At(t, "compute") /\ ~Building(t)
    /\ Step(t, [calls[t] EXCEPT !.pc = "insert_final", !.built = <<>>,
                                !.final = Final[Tuple(t)]])
    /\ UNCHANGED <<layer, table, cache, slots, clears, files, quiet>>

\* What a slot of FirstCache keeps.
Last(id, v) == IF layer.wrapped THEN <<id, v>> ELSE <<>>
\* Mutant: the value is kept in the slot only.
InsertedSlotOnly(data, id, v) == IF layer.wrapped THEN data ELSE Put(data, id, v)
Inserted(data, id, v) == Put(data, id, v)

\* LazyFst2 inserts the final weight next, and answers what it was asked for.
InsertTrs(t) ==
    LET c == calls[t] IN
    /\ At(t, "compute") /\ Building(t)
    /\ Len(c.built) = Len(Succ[Tuple(t)])
    /\ lastTrs' = Last(c.id, c.built)
    /\ ctrs' = [data |-> Inserted(ctrs.data, c.id, c.built),
                known |-> Raised(ctrs.known, Range(c.built))]
    /\ Step(t, [c EXCEPT !.pc = IF layer.lazy2 THEN "insert_final" ELSE After(t),
                         !.built = <<>>,
                         !.trs = IF c.want = "trs" THEN c.built ELSE @,
                         !.final = IF layer.lazy2 THEN Final[Tuple(t)] ELSE @])
    /\ quiet' = (writer = "idle")
    /\ UNCHANGED <<layer, table, cstart, cfinal, lastFinal, clears, files>>

\* With LazyFst2 a call for the transitions has met the final weight too.
InsertFinal(t) ==
    LET c == calls[t] IN
    /\ At(t, "insert_final")
    /\ lastFinal' = Last(c.id, c.final)
    /\ cfinal' = [data |-> Inserted(cfinal.data, c.id, c.final),
                  known |-> Raised(cfinal.known, {c.id})]
    /\ Step(t, [c EXCEPT !.pc = After(t)])
    /\ quiet' = (writer = "idle")
    /\ UNCHANGED <<layer, table, cstart, ctrs, lastTrs, clears, files>>

\* num_trs_unchecked asks the cache behind the slot.  Without an entry it
\* reads an Option that is None: whatever it answers is undefined.
NumTrs(t) ==
    /\ At(t, "num_trs")
    /\ \E n \in IF calls[t].id \in DOMAIN ctrs.data THEN {Len(ctrs.data[calls[t].id])}
               ELSE 0..2 :
         Step(t, [calls[t] EXCEPT !.pc = "done", !.num = n])
    /\ UNCHANGED <<layer, table, cache, slots, clears, files, quiet>>

Finish(t) ==
    /\ At(t, "done")
    /\ Step(t, Idle)
    /\ UNCHANGED <<layer, table, cache, slots, clears, files, quiet>>

\* The cache behind a FirstCache is out of reach.
Clear(t) ==
    /\ "clear" \in Jobs[t] /\ At(t, "idle") /\ StartFree
    /\ clears < MaxClears /\ ~layer.wrapped
    /\ cstart' = NewCache(NotComputed)
    /\ ctrs' = NewCache(Nothing) /\ cfinal' = NewCache(Nothing)
    /\ clears' = clears + 1
    /\ calls' = [u \in Threads |-> [calls[u] EXCEPT !.cleared = TRUE]]
    /\ quiet' = (writer = "idle")
    /\ UNCHANGED <<layer, table, slots, files>>

-----------------------------------------------------------------------------
(* LazyFst::write: the cache's file, then the state table's.  The start's  *)
(* lock is held while the rest of the cache is written, the other two are  *)
(* taken anew for each number, and by the vector for each entry.           *)

\* Mutant: the state table before the cache.
TableFirst(step) ==
    CASE step = "idle" -> "table"        [] step = "table" -> "trs_known"
      [] step = "trs_known" -> "trs_count" [] step = "trs_count" -> "trs"
      [] step = "trs" -> "fin_known"     [] step = "fin_known" -> "fin_count"
      [] step = "fin_count" -> "fin"     [] step = "fin" -> "done"
\* The section after the one named.
Following(step) ==
    CASE step = "idle" -> "trs_known"
      [] step = "trs_known" -> "trs_count" [] step = "trs_count" -> "trs"
      [] step = "trs" -> "fin_known"     [] step = "fin_known" -> "fin_count"
      [] step = "fin_count" -> "fin"     [] step = "fin" -> "table"
      [] step = "table" -> "done"

Write(step, next, field, value) ==
    /\ writer = step
    /\ writer' = next
    /\ file' = [f \in DOMAIN file \cup {field} |-> IF f = field THEN value ELSE file[f]]
    /\ UNCHANGED <<layer, table, cache, slots, calls, clears>>

\* Mutant: the vector's computed entries are counted, not its places.
LenOfComputed(data) == Cardinality(DOMAIN data)
\* len_trs and len_final_weights: entries of a map, length of a vector.
LenOf(data) == IF layer.kind = "hash" THEN Cardinality(DOMAIN data)
               ELSE Raised(0, DOMAIN data)

\* The first section of write_simple_*_cache.
WriteStart ==
    /\ ~layer.lazy2 /\ ~layer.wrapped
    /\ Write("idle", Following("idle"), "start", cstart)
    /\ quiet' = TRUE
WriteField(step, field, n) ==
    Write(step, Following(step), field, n) /\ UNCHANGED quiet

\* All the entries of the map under one lock.
WriteMap(step, field, data) ==
    /\ layer.kind = "hash"
    /\ Write(step, Following(step), field, [i \in DOMAIN data |-> {data[i]}])
    /\ UNCHANGED quiet
\* One entry of the vector after another, computed or not, up to the length
\* that was written.
WriteVector(step, field, count, data) ==
    LET done == IF field \in DOMAIN file THEN file[field] ELSE Nothing
        i == Cardinality(DOMAIN done)
    IN  /\ layer.kind = "vec"
        /\ writer = step
        /\ IF i < file[count]
           THEN Write(step, step, field,
                      Put(done, i, IF i \in DOMAIN data THEN {data[i]} ELSE {}))
           ELSE Write(step, Following(step), field, done)
        /\ UNCHANGED quiet

WriteTrs ==
    \/ WriteMap("trs", "trs", ctrs.data)
    \/ WriteVector("trs", "trs", "trsCount", ctrs.data)
WriteFin ==
    \/ WriteMap("fin", "fin", cfinal.data)
    \/ WriteVector("fin", "fin", "finCount", cfinal.data)

\* The state table, under its own lock.
WriteTable == WriteField("table", "table", table)

WriterStep ==
    \/ WriteStart
    \/ WriteField("trs_known", "trsKnown", ctrs.known)
    \/ WriteField("trs_count", "trsCount", LenOf(ctrs.data))
    \/ WriteTrs
    \/ WriteField("fin_known", "finKnown", cfinal.known)
    \/ WriteField("fin_count", "finCount", LenOf(cfinal.data))
    \/ WriteFin
    \/ WriteTable

ThreadStep(t) ==
    \/ Begin(t) \/ GetStart(t) \/ InsertStart(t) \/ GetTrs(t) \/ GetFinal(t)
    \/ InternNext(t) \/ ComputeFinal(t) \/ InsertTrs(t) \/ InsertFinal(t)
    \/ NumTrs(t) \/ Finish(t) \/ Clear(t)
Next == (\E t \in Threads : ThreadStep(t)) \/ WriterStep
Spec == Init /\ [][Next]_vars

-----------------------------------------------------------------------------
(* What the two files of a finished write give back.                       *)

Computed(entries) ==
    [i \in {j \in DOMAIN entries : entries[j] # {}} |-> CHOOSE v \in entries[i] : TRUE]

\* A reader takes as many entries as were announced, no more and no less: of a
\* map, which was written in no particular order, any that many.
Taken(entries, n) == {Computed(Restrict(entries, A)) : A \in kSubset(n, DOMAIN entries)}

\* A map's transitions were counted under one lock and written under a later
\* one.  With an entry more, the reader looks for the final weights' header
\* where that entry is: it fails or takes the bytes of transitions for weights.
OutOfStep == file.trsCount # Cardinality(DOMAIN file.trs)

\* The transitions and the final weights that may be read; the latter from
\* where they are only.  What is left in the file is ignored, what is missing
\* is an error.
TrsRead == Taken(file.trs, file.trsCount)
FinalsRead == IF OutOfStep THEN {} ELSE Taken(file.fin, file.finCount)

Readings == {[start |-> file.start,
              trs |-> [data |-> trs, known |-> file.trsKnown],
              final |-> [data |-> finals, known |-> file.finKnown]] :
                trs \in TrsRead, finals \in FinalsRead}

\* The ids of some tuples.
Names(ts) == [k \in DOMAIN ts |-> FindId(table, ts[k])]

(***************************************************************************)
(* Whatever layer answers, and whatever the other threads insert, evict    *)
(* from a slot or clear meanwhile, a call returns the transitions and the  *)
(* final weight of its own state, by the names the operation gives.        *)
(***************************************************************************)
AnswersRight ==
    \A t \in Threads :
        LET c == calls[t]
            tuple == FindTuple(table, c.id)
        IN  At(t, "done") =>
              /\ c.job \in {"trs", "iter"} => c.trs = Names(Succ[tuple])
              /\ c.job \in {"final", "iter"} => c.final = Final[tuple]
              /\ c.job = "start" => tuple = Start

(***************************************************************************)
(* fst_iter reads the number of transitions without a check, under a third *)
(* lock: as long as nobody cleared the cache since the call began, the     *)
(* entry is there and it is the number of the transitions returned.        *)
(***************************************************************************)
IterDefined ==
    \A t \in Threads :
        At(t, "done") /\ calls[t].job = "iter" /\ ~calls[t].cleared =>
            calls[t].num = Len(calls[t].trs)

(***************************************************************************)
(* The files fit together though the machine grows while they are written: *)
(* the announced transitions are there, a machine reopened from the files  *)
(* names by its table every state its cache mentions, and its cached       *)
(* answers are those of the operation.  So are its final weights, and they *)
(* are found, unless the file is out of step, which a vector's never is; a *)
(* map's is when a thread inserted transitions between the two locks.      *)
(***************************************************************************)
FilesClosed ==
    writer = "done" =>
        LET ids == Allocated(file.table)
        IN  /\ file.start.data # NotComputed => file.start.data \in ids
            /\ TrsRead # {}
            /\ OutOfStep => layer.kind = "hash"
            /\ ~OutOfStep => FinalsRead # {}
            /\ \A trs \in TrsRead : \A i \in DOMAIN trs :
                   LET succ == Succ[FindTuple(file.table, i)]
                   IN  /\ i \in ids
                       /\ DOMAIN trs[i] = DOMAIN succ
                       /\ \A k \in DOMAIN succ :
                              /\ trs[i][k] \in ids
                              /\ FindTuple(file.table, trs[i][k]) = succ[k]
            /\ \A finals \in FinalsRead : \A i \in DOMAIN finals :
                   i \in ids /\ finals[i] = Final[FindTuple(file.table, i)]

(***************************************************************************)
(* A cache nobody touches while it is written is read back, and in one way *)
(* only: exactly, down to the entries not computed and the numbers of      *)
(* known states.                                                           *)
(***************************************************************************)
ReadsBack ==
    writer = "done" /\ quiet =>
        Readings = {[start |-> cstart, trs |-> ctrs, final |-> cfinal]}

-----------------------------------------------------------------------------
(* What the threads and the writer rely on at each step; together, the     *)
(* parts are inductive.                                                    *)

\* The ids of trs name tuple's first destinations, or all of them.
DecodesPrefix(tab, tuple, trs) ==
    /\ trs \in Seq(Nat)
    /\ Len(trs) <= Len(Succ[tuple])
    /\ \A k \in DOMAIN trs : /\ trs[k] \in Allocated(tab)
                             /\ FindTuple(tab, trs[k]) = Succ[tuple][k]
Decodes(tab, tuple, trs) == /\ DecodesPrefix(tab, tuple, trs)
                            /\ Len(trs) = Len(Succ[tuple])

TrsRight(tab, id, trs) == id \in Allocated(tab) /\ Decodes(tab, FindTuple(tab, id), trs)
FinalRight(tab, id, w) == id \in Allocated(tab) /\ w = Final[FindTuple(tab, id)]

\* The start has the first id.
TableInv == /\ table \in TableType
            /\ Bijective(table)
            /\ 0 \in Allocated(table)
            /\ FindTuple(table, 0) = Start

IsEntries(part) == part = [data |-> [i \in DOMAIN part.data |-> part.data[i]],
                           known |-> part.known]
CacheInv ==
    /\ cstart.data \in {NotComputed, 0}
    /\ \A i \in DOMAIN ctrs.data : TrsRight(table, i, ctrs.data[i])
    /\ \A i \in DOMAIN cfinal.data : FinalRight(table, i, cfinal.data[i])
    /\ cstart = [data |-> cstart.data, known |-> cstart.known]
    /\ IsEntries(ctrs) /\ IsEntries(cfinal)

\* A slot keeps what the cache behind it keeps too.
SlotsInv ==
    /\ layer \in Layers
    /\ ~layer.wrapped => lastTrs = <<>> /\ lastFinal = <<>>
    /\ lastTrs # <<>> => /\ lastTrs[1] \in DOMAIN ctrs.data
                         /\ TrsRight(table, lastTrs[1], lastTrs[2])
    /\ lastFinal # <<>> => FinalRight(table, lastFinal[1], lastFinal[2])

\* The call has its transitions, or its final weight.
TrsAnswered(c) == /\ c.job \in {"trs", "iter"}
                  /\ c.pc # "get_trs"
                  /\ c.pc = "compute" => c.want = "final"
FinalAnswered(c) == c.job \in {"final", "iter"} /\ c.pc \in {"num_trs", "done"}

\* A call c, of a machine whose table is tab and which has cached the
\* transitions of the states of cached.
CallInv(tab, cached, c) ==
    /\ DOMAIN c = DOMAIN Idle
    /\ c.id \in Allocated(tab)
    /\ \/ c.pc = "idle" /\ c.job = "none"
       \/ c.pc \in {"get_start", "insert_start"} /\ c.job = "start"
       \/ c.pc = "get_trs" /\ c.job \in {"trs", "iter"} /\ c.want = "trs"
       \/ c.pc = "get_final" /\ c.job \in {"final", "iter"}
       \/ c.pc = "num_trs" /\ c.job = "iter"
       \/ /\ c.pc \in {"compute", "insert_final"}
          /\ <<c.job, c.want>> \in {<<"trs", "trs">>, <<"final", "final">>,
                                    <<"iter", "trs">>, <<"iter", "final">>}
       \/ c.pc = "done" /\ c.job \in {"start", "trs", "final", "iter"}
    /\ c.job = "start" => c.id = 0
    /\ IF c.pc = "compute" THEN DecodesPrefix(tab, FindTuple(tab, c.id), c.built)
       ELSE c.built = <<>>
    /\ TrsAnswered(c) => /\ Decodes(tab, FindTuple(tab, c.id), c.trs)
                         /\ c.job = "iter" /\ ~c.cleared => c.id \in cached
    /\ c.pc = "insert_final" \/ FinalAnswered(c) => c.final = Final[FindTuple(tab, c.id)]
    /\ c.pc = "done" /\ c.job = "iter" /\ ~c.cleared => c.num = Len(c.trs)

\* The writer's sections after a field has been written.
AfterFin == {"table", "done"}
AfterFinCount == {"fin"} \cup AfterFin
AfterFinKnown == {"fin_count"} \cup AfterFinCount
AfterTrs == {"fin_known"} \cup AfterFinKnown
AfterTrsCount == {"trs"} \cup AfterTrs
AfterTrsKnown == {"trs_count"} \cup AfterTrsCount
AfterStart == {"trs_known"} \cup AfterTrsKnown

\* What is in the files is right by the table that will be, or is, in them.
FileTable == IF "table" \in DOMAIN file THEN file.table ELSE table
FileInv ==
    /\ writer \in {"idle"} \cup AfterStart
    /\ writer \in AfterStart => "start" \in DOMAIN file /\ file.start.data \in {NotComputed, 0}
    /\ writer \in AfterTrsKnown => "trsKnown" \in DOMAIN file
    /\ writer \in AfterTrsCount => "trsCount" \in DOMAIN file
    /\ writer \in AfterTrs => "trs" \in DOMAIN file
    /\ writer \in AfterFinKnown => "finKnown" \in DOMAIN file
    /\ writer \in AfterFinCount => "finCount" \in DOMAIN file
    /\ writer \in AfterFin => "fin" \in DOMAIN file
    /\ "trs" \in DOMAIN file =>
         /\ writer \in AfterTrsCount
         /\ \A i \in DOMAIN file.trs : \A v \in file.trs[i] : TrsRight(FileTable, i, v)
    /\ "fin" \in DOMAIN file =>
         /\ writer \in AfterFinCount
         /\ \A i \in DOMAIN file.fin : \A v \in file.fin[i] : FinalRight(FileTable, i, v)
    /\ "table" \in DOMAIN file <=> writer = "done"
    /\ writer = "done" => file.table \in TableType /\ 0 \in Allocated(file.table)

\* What was announced is written, or will be: nobody clears the cache meanwhile,
\* a vector's places are written up to the number announced, and a map only has
\* more entries by the time they are written.
Enough(n, section, done, data, field) ==
    /\ n \in Nat
    /\ layer.kind = "hash" /\ writer = section => n <= Cardinality(DOMAIN data)
    /\ layer.kind = "hash" /\ writer \in done =>
         IsFiniteSet(DOMAIN file[field]) /\ n <= Cardinality(DOMAIN file[field])
    /\ layer.kind = "vec" /\ field \in DOMAIN file =>
         \E k \in 0 .. n : DOMAIN file[field] = 0 .. k - 1
    /\ layer.kind = "vec" /\ writer \in done => DOMAIN file[field] = 0 .. n - 1
CountsInv ==
    /\ writer \in AfterTrsCount => Enough(file.trsCount, "trs", AfterTrs, ctrs.data, "trs")
    /\ writer \in AfterFinCount => Enough(file.finCount, "fin", AfterFin, cfinal.data, "fin")

\* What the file of a cache has of its first n places, and of all it holds.
Places(data, n) == [i \in 0 .. n - 1 |-> IF i \in DOMAIN data THEN {data[i]} ELSE {}]
Entries(data) == IF layer.kind = "hash" THEN [i \in DOMAIN data |-> {data[i]}]
                 ELSE Places(data, LenOf(data))
\* The places of the vector written so far.
Begun(field, data) == field \in DOMAIN file =>
    /\ layer.kind = "vec"
    /\ \E n \in 0 .. LenOf(data) : file[field] = Places(data, n)

\* While nobody touches the cache, the files have what is in it.
QuietInv == quiet =>
    /\ writer \in AfterStart => file.start = cstart
    /\ writer \in AfterTrsKnown => file.trsKnown = ctrs.known
    /\ writer \in AfterTrsCount => file.trsCount = LenOf(ctrs.data)
    /\ writer = "trs" => Begun("trs", ctrs.data)
    /\ writer \in AfterTrs => file.trs = Entries(ctrs.data)
    /\ writer \in AfterFinKnown => file.finKnown = cfinal.known
    /\ writer \in AfterFinCount => file.finCount = LenOf(cfinal.data)
    /\ writer = "fin" => Begun("fin", cfinal.data)
    /\ writer \in AfterFin => file.fin = Entries(cfinal.data)

Inv == /\ TableInv /\ CacheInv /\ SlotsInv
       /\ DOMAIN calls = Threads
       /\ \A t \in Threads : CallInv(table, DOMAIN ctrs.data, calls[t])
       /\ FileInv /\ QuietInv
=============================================================================
