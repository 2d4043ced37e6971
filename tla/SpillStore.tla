----------------------------- MODULE SpillStore -----------------------------
(***************************************************************************)
(* SpillableStateStore: the state store of a compose operation that keeps  *)
(* the tuples in memory up to a byte cap, then moves them to three files   *)
(* of a scratch directory and goes on there: an open-addressing hash table *)
(* of slots, the offsets of the tuples by id, and the tuples.              *)
(*                                                                         *)
(* The store is behind one Mutex, so calls come one at a time, and a call  *)
(* is a run of steps from pc = "idle" to pc = "idle".  A step is an        *)
(* operation on a file that may fail and leave what was done before it: a  *)
(* failure while the tuples are moved drops the files and leaves the store *)
(* in memory, a failure after that poisons it.                             *)
(*                                                                         *)
(* Files are modelled by their records: an offset is the position of a     *)
(* tuple in the tuples file.  What a failed write leaves of its own record *)
(* is not modelled: nothing reads the files once the store is poisoned.    *)
(***************************************************************************)
EXTENDS StateTable, FiniteSets, Functions

CONSTANTS
    NoTuple,              \* not a tuple: no call is in progress
    Hash,                 \* Hash[t]: the hash of tuple t
    Caps,                 \* the values of memory_cap_bytes to try
    TupleBytes,           \* size_of::<T>()
    RevSlack,             \* how much more than asked try_reserve_exact may take
    INITIAL_SLOT_COUNT,   \* 16 in the code
    NO_STATE_ID           \* 2^32 - 1 in the code

MAX_LOAD_NUMERATOR == 7
MAX_LOAD_DENOMINATOR == 10

ASSUME StoreAssumption ==
    /\ NoTuple \notin Tuples
    /\ Hash \in [Tuples -> Nat]
    /\ Caps \subseteq Nat
    /\ TupleBytes \in Nat
    /\ RevSlack \in Nat
    /\ INITIAL_SLOT_COUNT \in {2, 4, 8, 16}
    /\ NO_STATE_ID \in Nat \ {0}

VARIABLES
    cap,            \* config.memory_cap_bytes
    memory,         \* the resident maps: tuples by id, and the two capacities
    spilled,        \* the store is on disk: disk is Some, and memory is None
    disk,           \* the files, their hash capacity, how often it grew
    growing,        \* the bigger slot file, and how many slots it has met
    last_resolved,  \* the answer of the last resolve from disk, or Failed
    poisoned,       \* "no", or what went wrong
    pc,             \* the next step of the call in progress
    tuple,          \* the tuple being interned
    slot,           \* the vacant slot found for it
    answer          \* of the last call: <<id, tuple>>, or Failed

call == <<tuple, slot>>
files == <<disk, growing>>
vars == <<cap, memory, spilled, files, last_resolved, poisoned, pc, call, answer>>

Failed == <<>>

NoTuples == [names |-> <<>>, map_capacity |-> 0, reverse_capacity |-> 0]

-----------------------------------------------------------------------------
(***************************************************************************)
(* Memory accounting.                                                      *)
(***************************************************************************)
ProspectiveMap(m) == IF Len(m.names) < m.map_capacity THEN m.map_capacity
                     ELSE IF m.map_capacity = 0 THEN 3
                     ELSE 2 * m.map_capacity + 1

ProspectiveReverse(m) == IF Len(m.names) < m.reverse_capacity THEN m.reverse_capacity
                         ELSE Len(m.names) + 1

EstimatedBytes(map_capacity, reverse_capacity) ==
    map_capacity * (TupleBytes + 4 + 16) + reverse_capacity * TupleBytes

\* HashMap::try_reserve(1): the advertised capacities of std are 3, 7, 14, ...
ReservedMap(m) == IF Len(m.names) < m.map_capacity THEN m.map_capacity
                  ELSE IF m.map_capacity = 0 THEN 3
                  ELSE IF m.map_capacity = 3 THEN 7
                  ELSE 2 * m.map_capacity

\* Vec::try_reserve_exact(1): "the allocator may give more space".
ReservedReverse(m) == IF Len(m.names) < m.reverse_capacity
                      THEN {m.reverse_capacity}
                      ELSE Len(m.names) + 1 .. Len(m.names) + 1 + RevSlack

WithinCap(m) == EstimatedBytes(m.map_capacity, m.reverse_capacity) <= cap

-----------------------------------------------------------------------------
(***************************************************************************)
(* The hash table on disk.  id_plus_one = 0 is a vacant slot.              *)
(***************************************************************************)
VacantSlot == [hash |-> 0, id_plus_one |-> 0]

NewSlots(count) == [i \in 0 .. count - 1 |-> VacantSlot]

\* Mutant: growth only, no presizing.
SmallestSlotCount(len) == {INITIAL_SLOT_COUNT}

\* What the load factor requires, then checked_next_power_of_two: of the counts
\* between n and 2n - 1, one is a power of two.
PowerOfTwo(n) == \E k \in 0 .. n : n = 2 ^ k
InitialSlotCounts(len) ==
    LET required == (len * MAX_LOAD_DENOMINATOR + MAX_LOAD_NUMERATOR - 1)
                      \div MAX_LOAD_NUMERATOR
        enough == IF required > INITIAL_SLOT_COUNT THEN required ELSE INITIAL_SLOT_COUNT
    IN  {count \in enough .. 2 * enough - 1 : PowerOfTwo(count)}

NewDisk(count) == [slots |-> NewSlots(count), slot_count |-> count,
                   slot_generation |-> 0, len |-> 0,
                   offsets |-> <<>>, tuples |-> <<>>]
NoDisk == NewDisk(1)
NotGrowing == [slots |-> NewSlots(0), next |-> 0]

\* resolve of an id below len.
OnDisk(d, id) == d.tuples[d.offsets[id + 1]]

\* The k-th slot probed for a hash: from hash & (count - 1) on, the next one
\* each time, back to the first after the last.
Home(count, hash) == hash % count
Probed(count, hash, k) == LET i == Home(count, hash) + k
                          IN  IF i < count THEN i ELSE i - count

\* lookup stops at the k-th slot probed for t, vacant or t's own; and at no
\* earlier one.
Stops(d, t, k) == LET s == d.slots[Probed(d.slot_count, Hash[t], k)] IN
                  \/ s.id_plus_one = 0
                  \/ s.hash = Hash[t] /\ OnDisk(d, s.id_plus_one - 1) = t
FirstStop(d, t, k) == Stops(d, t, k) /\ \A j \in 0 .. k - 1 : ~ Stops(d, t, j)

NeedsGrowth(d) == (d.len + 1) * MAX_LOAD_DENOMINATOR
                    > d.slot_count * MAX_LOAD_NUMERATOR

\* Slots i with the first k slots probed for a hash occupied, i the next one.
Follows(slots, count, hash, k, i) ==
    /\ i = Probed(count, hash, k)
    /\ \A j \in 0 .. k - 1 : slots[Probed(count, hash, j)].id_plus_one # 0

\* Mutant: the slots are copied to the places they had.
SamePlace(slots, count, hash) == {growing.next}
\* place_raw_slot: the first vacant slot of the probe sequence.
FirstFree(slots, count, hash) ==
    {i \in 0 .. count - 1 :
       /\ slots[i].id_plus_one = 0
       /\ \E k \in 0 .. count - 1 : Follows(slots, count, hash, k, i)}

\* append_reverse: the offset first, then the tuple.
WithOffset(d) == [d EXCEPT !.offsets = Append(@, Len(d.tuples) + 1)]
WithTuple(d, t) == [d EXCEPT !.tuples = Append(@, t)]

\* The end of insert_at: the slot is written and the length counts it.
WithSlot(d, t, i) == [d EXCEPT !.slots[i] = [hash |-> Hash[t],
                                             id_plus_one |-> d.len + 1],
                               !.len = @ + 1]

-----------------------------------------------------------------------------
Init == /\ cap \in Caps
        /\ memory = NoTuples
        /\ spilled = FALSE
        /\ disk = NoDisk /\ growing = NotGrowing
        /\ last_resolved = Failed
        /\ poisoned = "no"
        /\ pc = "idle"
        /\ tuple = NoTuple
        /\ slot = 0
        /\ answer = Failed

Called == pc = "idle" /\ poisoned = "no"

Return(result) == /\ pc' = "idle"
                  /\ tuple' = NoTuple
                  /\ slot' = 0
                  /\ answer' = result

\* Mutant: a failed disk operation is reported, and the store goes on.
ReportOnly(why) == UNCHANGED poisoned /\ Return(Failed)

Poison(why) == poisoned' = why /\ Return(Failed)

\* ensure_healthy, at the head of intern and of resolve.
Refused == /\ pc = "idle"
           /\ poisoned # "no"
           /\ Return(Failed)
           /\ UNCHANGED <<cap, memory, spilled, files, last_resolved, poisoned>>

-----------------------------------------------------------------------------
(***************************************************************************)
(* intern, while the tuples are in memory.                                 *)
(***************************************************************************)
Resident(t) == t \in Range(memory.names)

InternKnown(t) ==
    /\ Called /\ ~ spilled /\ Resident(t)
    /\ \E i \in DOMAIN memory.names : /\ memory.names[i] = t
                                      /\ Return(<<i - 1, t>>)
    /\ UNCHANGED <<cap, memory, spilled, files, last_resolved, poisoned>>

\* An unknown tuple for which the accounting finds room.
RoomFor(t) ==
    /\ Called /\ ~ spilled /\ ~ Resident(t)
    /\ EstimatedBytes(ProspectiveMap(memory), ProspectiveReverse(memory)) <= cap

\* What the two reservations may leave.
Reserved == {[memory EXCEPT !.map_capacity = ReservedMap(memory),
                            !.reverse_capacity = r] : r \in ReservedReverse(memory)}

ToSpill(t) == /\ pc' = "spill"
              /\ tuple' = t
              /\ UNCHANGED <<slot, answer>>

InternNoRoom(t) ==
    /\ Called /\ ~ spilled /\ ~ Resident(t)
    /\ EstimatedBytes(ProspectiveMap(memory), ProspectiveReverse(memory)) > cap
    /\ ToSpill(t)
    /\ UNCHANGED <<cap, memory, spilled, files, last_resolved, poisoned>>

\* The allocator took more than was asked: also a reason to spill.
InternOverAllocated(t) ==
    /\ RoomFor(t)
    /\ memory' \in {m \in Reserved : ~ WithinCap(m)}
    /\ ToSpill(t)
    /\ UNCHANGED <<cap, spilled, files, last_resolved, poisoned>>

\* Mutant: what the allocator took is not accounted.
InternUnaccounted(t) ==
    /\ RoomFor(t)
    /\ Len(memory.names) # NO_STATE_ID
    /\ \E m \in Reserved : memory' = [m EXCEPT !.names = Append(@, t)]
    /\ Return(<<Len(memory.names), t>>)
    /\ UNCHANGED <<cap, spilled, files, last_resolved, poisoned>>

InternResident(t) ==
    /\ RoomFor(t)
    /\ Len(memory.names) # NO_STATE_ID
    /\ \E m \in Reserved : /\ WithinCap(m)
                            /\ memory' = [m EXCEPT !.names = Append(@, t)]
    /\ Return(<<Len(memory.names), t>>)
    /\ UNCHANGED <<cap, spilled, files, last_resolved, poisoned>>

\* No id is left.
InternExhausted(t) ==
    /\ RoomFor(t)
    /\ Len(memory.names) = NO_STATE_ID
    /\ memory' \in {m \in Reserved : WithinCap(m)}
    /\ Return(Failed)
    /\ UNCHANGED <<cap, spilled, files, last_resolved, poisoned>>

\* A reservation that has to allocate fails: that of the map, or that of the
\* reverse table when the map has grown already.
ReserveFails(t) ==
    /\ RoomFor(t)
    /\ \/ /\ Len(memory.names) = memory.map_capacity
          /\ UNCHANGED memory
       \/ /\ Len(memory.names) = memory.reverse_capacity
          /\ memory' = [memory EXCEPT !.map_capacity = ReservedMap(memory)]
    /\ Return(Failed)
    /\ UNCHANGED <<cap, spilled, files, last_resolved, poisoned>>

-----------------------------------------------------------------------------
(***************************************************************************)
(* spill: the files are filled, one tuple after another, before the store  *)
(* switches to them.                                                       *)
(***************************************************************************)
Step(from, to) == /\ pc = from
                  /\ pc' = to
                  /\ UNCHANGED <<cap, last_resolved, poisoned, answer>>

\* from_memory: the files, then insert_new of each tuple.
Spill == /\ Step("spill", "migrate")
         /\ \E count \in InitialSlotCounts(Len(memory.names)) : disk' = NewDisk(count)
         /\ UNCHANGED <<memory, spilled, growing, call>>

Migrate == /\ Step("migrate", "lookup")
           /\ disk.len < Len(memory.names)
           /\ UNCHANGED <<memory, spilled, files, call>>

Switch == /\ Step("migrate", "lookup")
          /\ disk.len = Len(memory.names)
          /\ spilled' = TRUE
          /\ memory' = NoTuples
          /\ UNCHANGED <<files, call>>

-----------------------------------------------------------------------------
(***************************************************************************)
(* intern on disk, and insert_new while the tuples are moved.              *)
(***************************************************************************)
InternDisk(t) == /\ Called /\ spilled
                 /\ pc' = "lookup"
                 /\ tuple' = t
                 /\ UNCHANGED <<cap, memory, spilled, files, last_resolved, poisoned,
                                slot, answer>>

\* The tuple that is looked up and inserted.
Current == IF spilled THEN tuple ELSE memory.names[disk.len + 1]

\* A file operation fails, with the earlier ones done: the new store is
\* dropped, or the store is poisoned.
Fail(why) == /\ growing' = NotGrowing
             /\ IF spilled THEN Poison(why) /\ UNCHANGED disk
                ELSE Return(Failed) /\ disk' = NoDisk /\ UNCHANGED poisoned
             /\ UNCHANGED <<cap, memory, spilled, last_resolved>>

Looking == pc \in {"lookup", "lookup_again"}
SlotAt(k) == Probed(disk.slot_count, Hash[Current], k)

\* While the tuples are moved one that is there already has a wrong id.
LookupFound ==
    \E k \in 0 .. disk.slot_count - 1 :
        LET s == disk.slots[SlotAt(k)] IN
        /\ Looking /\ FirstStop(disk, Current, k)
        /\ s.id_plus_one # 0
        /\ IF spilled
           THEN /\ Return(<<s.id_plus_one - 1, tuple>>)
                /\ UNCHANGED <<cap, memory, spilled, files, last_resolved, poisoned>>
           ELSE Fail("changed")

LookupVacant ==
    \E k \in 0 .. disk.slot_count - 1 :
        /\ Looking /\ FirstStop(disk, Current, k)
        /\ disk.slots[SlotAt(k)].id_plus_one = 0
        /\ slot' = SlotAt(k)
        /\ pc' = IF pc = "lookup" /\ NeedsGrowth(disk) THEN "grow" ELSE "append_offset"
        /\ UNCHANGED <<cap, memory, spilled, files, last_resolved, poisoned, tuple, answer>>

\* grow_slots: a file twice as big, the slots in use, in file order, and the
\* files are exchanged before the old one is removed.
GrowSlots == /\ Step("grow", "copy")
             /\ growing' = [slots |-> NewSlots(2 * disk.slot_count), next |-> 0]
             /\ UNCHANGED <<memory, spilled, disk, call>>

CopySlot == /\ Step("copy", "copy")
            /\ growing.next < disk.slot_count
            /\ LET s == disk.slots[growing.next]
                   count == 2 * disk.slot_count
               IN  IF s.id_plus_one = 0
                   THEN growing' = [growing EXCEPT !.next = @ + 1]
                   ELSE \E i \in FirstFree(growing.slots, count, s.hash) :
                          growing' = [slots |-> [growing.slots EXCEPT ![i] = s],
                                      next |-> growing.next + 1]
            /\ UNCHANGED <<memory, spilled, disk, call>>

ExchangeSlots == /\ Step("copy", "remove_old")
                 /\ growing.next = disk.slot_count
                 /\ disk' = [disk EXCEPT !.slots = growing.slots,
                                         !.slot_count = 2 * @,
                                         !.slot_generation = @ + 1]
                 /\ growing' = NotGrowing
                 /\ UNCHANGED <<memory, spilled, call>>

RemoveOldSlots == /\ Step("remove_old", "lookup_again")
                  /\ UNCHANGED <<memory, spilled, files, call>>

\* NO_STATE_ID is refused before anything is written.
DiskExhausted == /\ pc = "append_offset"
                 /\ disk.len = NO_STATE_ID
                 /\ Fail("exhausted")

AppendOffset == /\ Step("append_offset", "append_tuple")
                /\ disk.len # NO_STATE_ID
                /\ disk' = WithOffset(disk)
                /\ UNCHANGED <<memory, spilled, growing, call>>

AppendTuple == /\ Step("append_tuple", "write_slot")
               /\ disk' = WithTuple(disk, Current)
               /\ UNCHANGED <<memory, spilled, growing, call>>

WriteSlot == /\ pc = "write_slot"
             /\ disk' = WithSlot(disk, Current, slot)
             /\ IF spilled THEN Return(<<disk.len, tuple>>)
                ELSE pc' = "migrate" /\ slot' = 0 /\ UNCHANGED <<tuple, answer>>
             /\ UNCHANGED <<cap, memory, spilled, growing, last_resolved, poisoned>>

DiskSteps == {"spill", "migrate", "lookup", "grow", "copy", "remove_old", "lookup_again",
              "append_offset", "append_tuple", "write_slot"}

DiskFails == pc \in DiskSteps /\ Fail("io")

-----------------------------------------------------------------------------
(***************************************************************************)
(* resolve.  last_resolved is only written, and so only hit, on disk.      *)
(***************************************************************************)
Cached(id) == last_resolved # Failed /\ last_resolved[1] = id

\* Mutant: the cached answer is given before the health check.
ResolveCachedFirst(id) ==
    /\ pc = "idle" /\ Cached(id)
    /\ Return(last_resolved)
    /\ UNCHANGED <<cap, memory, spilled, files, last_resolved, poisoned>>

ResolveCached(id) ==
    /\ Called /\ Cached(id)
    /\ Return(last_resolved)
    /\ UNCHANGED <<cap, memory, spilled, files, last_resolved, poisoned>>

ResolveDisk(id) ==
    /\ Called /\ ~ Cached(id) /\ spilled
    /\ id < disk.len
    /\ last_resolved' = <<id, OnDisk(disk, id)>>
    /\ Return(last_resolved')
    /\ UNCHANGED <<cap, memory, spilled, files, poisoned>>

ResolveDiskFails(id) ==
    /\ Called /\ ~ Cached(id) /\ spilled
    /\ Poison(IF id < disk.len THEN "io" ELSE "absent")
    /\ UNCHANGED <<cap, memory, spilled, files, last_resolved>>

ResolveMemory(id) ==
    /\ Called /\ ~ Cached(id) /\ ~ spilled
    /\ Return(IF id < Len(memory.names) THEN <<id, memory.names[id + 1]>> ELSE Failed)
    /\ UNCHANGED <<cap, memory, spilled, files, last_resolved, poisoned>>

-----------------------------------------------------------------------------
\* The ids a caller may ask for: those there are, and one there is not.
Ids == 0 .. Cardinality(Tuples)

Intern(t) == \/ InternKnown(t) \/ InternNoRoom(t) \/ InternOverAllocated(t)
             \/ InternResident(t) \/ InternExhausted(t) \/ ReserveFails(t)
             \/ InternDisk(t)

Resolve(id) == \/ ResolveCached(id) \/ ResolveMemory(id)
               \/ ResolveDisk(id) \/ ResolveDiskFails(id)

Continue == \/ Spill \/ Migrate \/ Switch
            \/ LookupFound \/ LookupVacant
            \/ GrowSlots \/ CopySlot \/ ExchangeSlots \/ RemoveOldSlots
            \/ DiskExhausted \/ AppendOffset \/ AppendTuple \/ WriteSlot
            \/ DiskFails

Next == \/ Refused
        \/ \E t \in Tuples : Intern(t)
        \/ \E id \in Ids : Resolve(id)
        \/ Continue

Spec == Init /\ [][Next]_vars

-----------------------------------------------------------------------------
Healthy == pc = "idle" /\ poisoned = "no"

\* The tuples by id, wherever they are.
Names == IF spilled
         THEN [i \in 1 .. disk.len |-> OnDisk(disk, i - 1)]
         ELSE memory.names

\* The store is a state table, in memory, on disk, and while it moves from one
\* to the other: every id it answers is the id the tuple would have had, every
\* tuple the one the id was given for, and a failed call changes nothing.
InternerI == INSTANCE Interner WITH table <- TableOf(Names)

ImplementsInterner == InternerI!Spec

\* Between two calls of a healthy store, the probe sequence of every tuple it
\* holds stops at the tuple's own slot, that of any other tuple at a vacant
\* one (lookup bails out when there is none), after any number of growths and
\* whatever hashes collide.
ProbeSound == Healthy /\ spilled =>
    \A t \in Tuples : \E k \in 0 .. disk.slot_count - 1 :
      LET s == disk.slots[Probed(disk.slot_count, Hash[t], k)] IN
      /\ FirstStop(disk, t, k)
      /\ IF t \in Range(Names)
         THEN s.id_plus_one # 0 /\ Names[s.id_plus_one] = t
         ELSE s.id_plus_one = 0

\* Moving to disk never rehashes, and loses no tuple ("migration must not
\* rehash", the test of the presized slots), for every resident population.
MigrationPresized ==
    [][~ spilled /\ spilled' =>
         /\ disk'.slot_generation = 0
         /\ disk'.len = Len(memory.names)]_vars

\* A tuple stays in memory only if the maps that hold it, as they were really
\* allocated, are within memory_cap_bytes.
ResidentWithinCap ==
    [][Len(memory'.names) > Len(memory.names) => WithinCap(memory')]_vars

\* A store whose files may be inconsistent gives no more answers, not even the
\* one it remembers from before the failure.
PoisonIsFinal ==
    [][poisoned # "no" => /\ poisoned' = poisoned
                          /\ disk' = disk
                          /\ answer' = Failed]_vars

\* "compose state scratch is unusable after an earlier I/O failure": a store is
\* only refused for that.
PoisonedByIo == poisoned \in {"no", "io"}

-----------------------------------------------------------------------------
(* What the steps of a call rely on; together, the parts are inductive.    *)

\* The files exist, being filled or in use.
OnFiles == spilled \/ pc \in DiskSteps \ {"spill"}
DiskNames == [i \in 1 .. disk.len |-> OnDisk(disk, i - 1)]

\* A slot table has the ids of ids, once each, every one where the probe
\* sequence of its tuple, names[id], finds it.
TableSound(slots, count, ids, names) ==
    /\ \A i \in 0 .. count - 1 : slots[i].id_plus_one # 0 =>
         /\ slots[i].id_plus_one \in ids
         /\ slots[i].hash = Hash[names[slots[i].id_plus_one]]
    /\ \A i, j \in 0 .. count - 1 :
         slots[i].id_plus_one = slots[j].id_plus_one /\ slots[i].id_plus_one # 0 => i = j
    /\ \A id \in ids : \E i, k \in 0 .. count - 1 :
         slots[i].id_plus_one = id /\ Follows(slots, count, Hash[names[id]], k, i)

MemoryInv ==
    /\ memory \in [names : Seq(Tuples), map_capacity : Nat, reverse_capacity : Nat]
    /\ IsInjective(memory.names)

ControlInv ==
    /\ pc \in DiskSteps \cup {"idle"} /\ spilled \in BOOLEAN
    /\ pc # "idle" => poisoned = "no" /\ tuple \in Tuples
    /\ ~ spilled => poisoned = "no"
    /\ pc \in {"spill", "migrate"} => ~ spilled

\* The records of the reverse files, those of the tuple in progress last.
RecordsInv ==
    /\ DOMAIN disk = DOMAIN NoDisk
    /\ disk.len \in Nat
    /\ disk.offsets \in Seq(Nat) /\ disk.tuples \in Seq(Tuples)
    /\ disk.len <= Len(disk.offsets) /\ disk.len <= Len(disk.tuples)
    /\ \A i \in 1 .. disk.len : disk.offsets[i] = i
    /\ poisoned = "no" =>
         /\ Len(disk.offsets) = disk.len + IF pc \in {"append_tuple", "write_slot"} THEN 1 ELSE 0
         /\ Len(disk.tuples) = disk.len + IF pc = "write_slot" THEN 1 ELSE 0
    /\ pc \in {"append_tuple", "write_slot"} => disk.offsets[disk.len + 1] = disk.len + 1
    /\ pc = "write_slot" => disk.tuples[disk.len + 1] = Current
    /\ IsInjective(DiskNames)

\* The slots, never more than seven tenths full.
SlotsInv ==
    /\ disk.slot_count \in Nat \ {0, 1}
    /\ DOMAIN disk.slots = 0 .. disk.slot_count - 1
    /\ TableSound(disk.slots, disk.slot_count, 1 .. disk.len, DiskNames)
    /\ disk.len * MAX_LOAD_DENOMINATOR <= disk.slot_count * MAX_LOAD_NUMERATOR
    /\ pc \in {"remove_old", "lookup_again", "append_offset", "append_tuple", "write_slot"} =>
         ~ NeedsGrowth(disk)

\* The slot found for a tuple that is not there.
FoundInv ==
    pc \in {"append_offset", "append_tuple", "write_slot"} =>
      /\ slot \in 0 .. disk.slot_count - 1
      /\ disk.slots[slot].id_plus_one = 0
      /\ \E k \in 0 .. disk.slot_count - 1 :
           Follows(disk.slots, disk.slot_count, Hash[Current], k, slot)
      /\ \A i \in 1 .. disk.len : DiskNames[i] # Current

GrowingInv ==
    pc = "copy" =>
      /\ DOMAIN growing = DOMAIN NotGrowing
      /\ growing.next \in 0 .. disk.slot_count
      /\ DOMAIN growing.slots = 0 .. 2 * disk.slot_count - 1
      /\ TableSound(growing.slots, 2 * disk.slot_count,
                    {disk.slots[i].id_plus_one : i \in 0 .. growing.next - 1} \ {0},
                    DiskNames)

\* While the tuples are moved, the files have the first ones, and room for all.
MovingInv ==
    ~ spilled =>
      /\ disk.len <= Len(memory.names)
      /\ \A i \in 1 .. disk.len : DiskNames[i] = memory.names[i]
      /\ Len(memory.names) * MAX_LOAD_DENOMINATOR <= disk.slot_count * MAX_LOAD_NUMERATOR
      /\ disk.slot_generation = 0
      /\ pc \notin {"grow", "copy", "remove_old", "lookup_again"}
      /\ pc # "migrate" => disk.len < Len(memory.names)

LastInv ==
    last_resolved # Failed =>
      /\ spilled
      /\ last_resolved[1] \in 0 .. disk.len - 1
      /\ last_resolved = <<last_resolved[1], OnDisk(disk, last_resolved[1])>>

Inv == /\ MemoryInv /\ ControlInv /\ LastInv
       /\ OnFiles => RecordsInv /\ SlotsInv /\ FoundInv /\ GrowingInv /\ MovingInv
=============================================================================
