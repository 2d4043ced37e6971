------------------------- MODULE SpillStore_proofs -------------------------
(***************************************************************************)
(* Proofs about the spillable state store: the parts of Inv hold together  *)
(* in every reachable state, whatever the tuples, their hashes, the cap    *)
(* and the growth of the table; from them, that the probe sequences find   *)
(* what the store holds, and that the store implements a state table.      *)
(***************************************************************************)
EXTENDS SpillStore, StateTable_proofs, FiniteSetTheorems

-----------------------------------------------------------------------------
(* Probe sequences.                                                        *)

\* A probe sequence stays in the table.
LEMMA ProbedRange ==
    ASSUME NEW count \in Nat \ {0}, NEW hash \in Nat, NEW k \in 0 .. count - 1
    PROVE  Probed(count, hash, k) \in 0 .. count - 1
<1>1. Home(count, hash) \in 0 .. count - 1
  BY DEF Home
<1> QED  BY <1>1 DEF Probed

\* It reaches every slot.
LEMMA ProbedOnto ==
    ASSUME NEW count \in Nat \ {0}, NEW hash \in Nat, NEW i \in 0 .. count - 1
    PROVE  \E k \in 0 .. count - 1 : Probed(count, hash, k) = i
<1>1. Home(count, hash) \in 0 .. count - 1
  BY DEF Home
<1>2. CASE Home(count, hash) <= i
  <2>1. /\ i - Home(count, hash) \in 0 .. count - 1
        /\ Probed(count, hash, i - Home(count, hash)) = i
    BY <1>1, <1>2 DEF Probed
  <2> QED  BY <2>1
<1>3. CASE ~ (Home(count, hash) <= i)
  <2>1. /\ i - Home(count, hash) + count \in 0 .. count - 1
        /\ Probed(count, hash, i - Home(count, hash) + count) = i
    BY <1>1, <1>3 DEF Probed
  <2> QED  BY <2>1
<1> QED  BY <1>2, <1>3

\* A table with fewer ids than slots has a vacant slot.
LEMMA VacantSlotLeft ==
    ASSUME NEW slots, NEW count \in Nat, NEW len \in Nat, NEW names,
           TableSound(slots, count, 1 .. len, names), len < count
    PROVE  \E i \in 0 .. count - 1 : slots[i].id_plus_one = 0
<1> SUFFICES ASSUME \A i \in 0 .. count - 1 : slots[i].id_plus_one # 0
             PROVE  FALSE
  OBVIOUS
<1> DEFINE f == [i \in 0 .. count - 1 |-> slots[i].id_plus_one]
<1>1. f \in [0 .. count - 1 -> 1 .. len]
  BY DEF TableSound
<1>2. IsFiniteSet(0 .. count - 1) /\ Cardinality(0 .. count - 1) = count
  <2>1. 0 \in Int /\ count - 1 \in Int
    OBVIOUS
  <2>2. IsFiniteSet(0 .. count - 1)
    BY <2>1, FS_Interval, Zenon
  <2>3. Cardinality(0 .. count - 1) = IF 0 > count - 1 THEN 0 ELSE count - 1 - 0 + 1
    BY <2>1, FS_Interval, Zenon
  <2> QED  BY <2>2, <2>3
<1>3. IsFiniteSet(1 .. len) /\ Cardinality(1 .. len) = len
  <2>1. 1 \in Int /\ len \in Int
    OBVIOUS
  <2>2. IsFiniteSet(1 .. len)
    BY <2>1, FS_Interval, Zenon
  <2>3. Cardinality(1 .. len) = IF 1 > len THEN 0 ELSE len - 1 + 1
    BY <2>1, FS_Interval, Zenon
  <2> QED  BY <2>2, <2>3
<1>4. PICK i, j \in 0 .. count - 1 : i # j /\ f[i] = f[j]
  <2> HIDE DEF f
  <2> QED  BY <1>1, <1>2, <1>3, FS_PigeonHole
<1> QED  BY <1>4 DEF TableSound

-----------------------------------------------------------------------------
(* Slot tables.                                                            *)

\* An empty table has the ids of no tuple.
LEMMA NewSlotsSound ==
    ASSUME NEW count \in Nat, NEW names
    PROVE  TableSound(NewSlots(count), count, {}, names)
BY DEF TableSound, NewSlots, VacantSlot

\* A table is about the names of its ids only.
LEMMA SoundForNames ==
    ASSUME NEW slots, NEW count \in Nat, NEW ids, NEW names, NEW others,
           TableSound(slots, count, ids, names), \A id \in ids : others[id] = names[id]
    PROVE  TableSound(slots, count, ids, others)
BY DEF TableSound

\* A vacant slot that follows the occupied ones of its probe sequence takes a
\* new id: the probe sequences of the others still reach them.
LEMMA PlacedSound ==
    ASSUME NEW count \in Nat, NEW slots, DOMAIN slots = 0 .. count - 1,
           NEW ids \in SUBSET (Nat \ {0}), NEW names,
           TableSound(slots, count, ids, names),
           NEW s, s.id_plus_one \in Nat \ {0}, s.id_plus_one \notin ids,
           s.hash = Hash[names[s.id_plus_one]],
           NEW i \in 0 .. count - 1, slots[i].id_plus_one = 0,
           NEW k \in 0 .. count - 1,
           Follows(slots, count, s.hash, k, i),
           \A h \in Nat, j \in 0 .. count - 1 : Probed(count, h, j) \in 0 .. count - 1,
           \A id \in ids \cup {s.id_plus_one} : Hash[names[id]] \in Nat
    PROVE  TableSound([slots EXCEPT ![i] = s], count, ids \cup {s.id_plus_one}, names)
<1> DEFINE new == [slots EXCEPT ![i] = s]
           id0 == s.id_plus_one
<1>1. new[i] = s /\ \A j \in 0 .. count - 1 : j # i => new[j] = slots[j]
  OBVIOUS
<1> HIDE DEF new
<1>2. \A j \in 0 .. count - 1 : slots[j].id_plus_one # 0 => new[j] = slots[j]
  BY <1>1
<1>3. ASSUME NEW h \in Nat, NEW m \in 0 .. count - 1, NEW j \in 0 .. count - 1,
             Follows(slots, count, h, m, j)
      PROVE  Follows(new, count, h, m, j)
  <2>1. j = Probed(count, h, m)
    BY <1>3 DEF Follows
  <2>2. \A n \in 0 .. m - 1 : slots[Probed(count, h, n)].id_plus_one # 0
    BY <1>3 DEF Follows
  <2>3. \A n \in 0 .. m - 1 : n \in 0 .. count - 1
    OBVIOUS
  <2>4. \A n \in 0 .. m - 1 : new[Probed(count, h, n)].id_plus_one # 0
    BY <2>2, <2>3, <1>2
  <2> QED  BY <2>1, <2>4 DEF Follows
<1>4. ASSUME NEW j \in 0 .. count - 1, new[j].id_plus_one # 0
      PROVE  /\ new[j].id_plus_one \in ids \cup {id0}
             /\ new[j].hash = Hash[names[new[j].id_plus_one]]
  <2>1. CASE j = i
    BY <2>1, <1>1
  <2>2. CASE j # i
    <3>1. new[j] = slots[j]
      BY <2>2, <1>1
    <3>2. /\ slots[j].id_plus_one \in ids
          /\ slots[j].hash = Hash[names[slots[j].id_plus_one]]
      BY <3>1, <1>4 DEF TableSound
    <3> QED  BY <3>1, <3>2
  <2> QED  BY <2>1, <2>2
<1>5. ASSUME NEW j \in 0 .. count - 1, NEW m \in 0 .. count - 1,
             new[j].id_plus_one = new[m].id_plus_one, new[j].id_plus_one # 0
      PROVE  j = m
  <2>1. \A n \in 0 .. count - 1 : slots[n].id_plus_one # 0 => slots[n].id_plus_one # id0
    BY DEF TableSound
  <2>2. CASE j = i \/ m = i
    BY <2>1, <2>2, <1>1, <1>5
  <2>3. CASE j # i /\ m # i
    <3>1. new[j] = slots[j] /\ new[m] = slots[m]
      BY <2>3, <1>1
    <3> QED  BY <3>1, <1>5 DEF TableSound
  <2> QED  BY <2>2, <2>3
<1>6. \A id \in ids \cup {id0} : \E j, m \in 0 .. count - 1 :
        new[j].id_plus_one = id /\ Follows(new, count, Hash[names[id]], m, j)
  <2> TAKE id \in ids \cup {id0}
  <2>1. CASE id = id0
    <3>1. Follows(new, count, s.hash, k, i)
      BY <1>3
    <3> QED  BY <3>1, <2>1, <1>1
  <2>2. CASE id \in ids
    <3>1. PICK j, m \in 0 .. count - 1 :
            slots[j].id_plus_one = id /\ Follows(slots, count, Hash[names[id]], m, j)
      BY <2>2 DEF TableSound
    <3>2. new[j] = slots[j]
      BY <3>1, <2>2, <1>2
    <3>3. Follows(new, count, Hash[names[id]], m, j)
      BY <3>1, <2>2, <1>3
    <3> QED  BY <3>1, <3>2, <3>3
  <2> QED  BY <2>1, <2>2
<1> QED  BY <1>4, <1>5, <1>6 DEF TableSound, new

-----------------------------------------------------------------------------
(* Lookups.                                                                *)

\* The tuples of the files, by id.
LEMMA DiskNamed ==
    ASSUME RecordsInv
    PROVE  /\ disk.len \in Nat
           /\ DiskNames \in Seq(Tuples) /\ Len(DiskNames) = disk.len
           /\ \A i \in 1 .. disk.len : /\ DiskNames[i] = disk.tuples[i]
                                       /\ OnDisk(disk, i - 1) = disk.tuples[i]
                                       /\ disk.tuples[i] \in Tuples
<1>1. /\ disk.len \in Nat
      /\ disk.offsets \in Seq(Nat) /\ disk.tuples \in Seq(Tuples)
      /\ disk.len <= Len(disk.tuples)
      /\ \A i \in 1 .. disk.len : disk.offsets[i] = i
  BY DEF RecordsInv
<1>2. ASSUME NEW i \in 1 .. disk.len
      PROVE  OnDisk(disk, i - 1) = disk.tuples[i] /\ disk.tuples[i] \in Tuples
  <2>1. i - 1 + 1 = i /\ i \in 1 .. Len(disk.tuples)
    BY <1>1
  <2> QED  BY <2>1, <1>1 DEF OnDisk
<1>3. DiskNames \in [1 .. disk.len -> Tuples]
  BY <1>2 DEF DiskNames
<1>4. DiskNames \in Seq(Tuples) /\ Len(DiskNames) = disk.len
  BY <1>1, <1>3
<1>5. \A i \in 1 .. disk.len : DiskNames[i] = disk.tuples[i]
  BY <1>2 DEF DiskNames
<1> QED  BY <1>1, <1>2, <1>4, <1>5

\* Ids count from 0, positions from 1.
LEMMA IdBelow ==
    ASSUME NEW n \in Nat, NEW id \in 0 .. n - 1
    PROVE  \E i \in 1 .. n : i - 1 = id
<1>1. id + 1 \in 1 .. n /\ id + 1 - 1 = id
  OBVIOUS
<1> QED  BY <1>1

\* A lookup in a table with a vacant slot stops.
LEMMA LookupStops ==
    ASSUME SlotsInv, disk.len \in Nat, NEW t \in Tuples
    PROVE  \E k \in 0 .. disk.slot_count - 1 : FirstStop(disk, t, k)
<1> DEFINE count == disk.slot_count
           S == {k \in 0 .. count - 1 : Stops(disk, t, k)}
<1>1. count \in Nat \ {0} /\ disk.len < count /\ Hash[t] \in Nat
  BY StoreAssumption DEF SlotsInv, MAX_LOAD_NUMERATOR, MAX_LOAD_DENOMINATOR
<1>2. PICK i \in 0 .. count - 1 : disk.slots[i].id_plus_one = 0
  <2>1. TableSound(disk.slots, count, 1 .. disk.len, DiskNames)
    BY DEF SlotsInv
  <2> QED  BY <2>1, <1>1, VacantSlotLeft
<1>3. PICK k \in 0 .. count - 1 : Probed(count, Hash[t], k) = i
  BY <1>1, ProbedOnto
<1>4. k \in S
  BY <1>2, <1>3 DEF Stops
<1>5. PICK m \in S : \A x \in S : m <= x
  <2>1. S \in SUBSET Nat /\ S # {}
    BY <1>4
  <2> HIDE DEF S
  <2> QED  BY <2>1, LeastOf
<1>6. \A j \in 0 .. m - 1 : ~ Stops(disk, t, j)
  <2> SUFFICES ASSUME NEW j \in 0 .. m - 1, Stops(disk, t, j) PROVE FALSE
    OBVIOUS
  <2>1. j \in S
    BY <1>1
  <2> QED  BY <2>1, <1>5
<1> QED  BY <1>5, <1>6 DEF FirstStop

\* A lookup that stops at a vacant slot found a slot for a tuple that is not
\* there, one that stops elsewhere the tuple.
LEMMA LookupRight ==
    ASSUME RecordsInv, SlotsInv, NEW t \in Tuples,
           NEW k \in 0 .. disk.slot_count - 1, FirstStop(disk, t, k),
           NEW i, i = Probed(disk.slot_count, Hash[t], k)
    PROVE  /\ i \in 0 .. disk.slot_count - 1
           /\ disk.slots[i].id_plus_one # 0 =>
                /\ disk.slots[i].id_plus_one \in 1 .. disk.len
                /\ DiskNames[disk.slots[i].id_plus_one] = t
           /\ disk.slots[i].id_plus_one = 0 =>
                /\ Follows(disk.slots, disk.slot_count, Hash[t], k, i)
                /\ \A n \in 1 .. disk.len : DiskNames[n] # t
<1> DEFINE count == disk.slot_count
           h == Hash[t]
<1>1. count \in Nat \ {0} /\ h \in Nat
  BY StoreAssumption DEF SlotsInv
<1>2. i \in 0 .. count - 1
  BY <1>1, ProbedRange
<1>3. TableSound(disk.slots, count, 1 .. disk.len, DiskNames)
  BY DEF SlotsInv
<1>4. Stops(disk, t, k) /\ \A j \in 0 .. k - 1 : ~ Stops(disk, t, j)
  BY DEF FirstStop
<1>5. ASSUME disk.slots[i].id_plus_one # 0
      PROVE  /\ disk.slots[i].id_plus_one \in 1 .. disk.len
             /\ DiskNames[disk.slots[i].id_plus_one] = t
  <2>1. disk.slots[i].id_plus_one \in 1 .. disk.len
    BY <1>2, <1>3, <1>5 DEF TableSound
  <2>2. OnDisk(disk, disk.slots[i].id_plus_one - 1) = t
    BY <1>4, <1>5 DEF Stops
  <2> QED  BY <2>1, <2>2, DiskNamed
<1>6. Follows(disk.slots, count, h, k, i)
  BY <1>4 DEF Follows, Stops
<1>7. ASSUME disk.slots[i].id_plus_one = 0, NEW n \in 1 .. disk.len, DiskNames[n] = t
      PROVE  FALSE
  <2>1. PICK j, m \in 0 .. count - 1 :
          disk.slots[j].id_plus_one = n /\ Follows(disk.slots, count, h, m, j)
    BY <1>3, <1>7 DEF TableSound
  <2>2. j = Probed(count, h, m) /\ disk.slots[j].hash = h
    BY <2>1, <1>3, <1>7 DEF TableSound, Follows
  <2>3. OnDisk(disk, n - 1) = t
    BY <1>7, DiskNamed
  <2>4. Stops(disk, t, m)
    BY <2>1, <2>2, <2>3 DEF Stops
  <2>5. ~ (m \in 0 .. k - 1) /\ m # k
    BY <1>4, <1>7, <2>1, <2>2, <2>4
  <2>6. k \in 0 .. m - 1
    BY <2>5
  <2> QED  BY <2>1, <2>6, <1>7 DEF Follows
<1> QED  BY <1>2, <1>5, <1>6, <1>7

\* Between calls: the probe sequence of every tuple stops where it should.
LEMMA InvProbeSound == Inv => ProbeSound
<1> SUFFICES ASSUME Inv, Healthy, spilled, NEW t \in Tuples
             PROVE  \E k \in 0 .. disk.slot_count - 1 :
                      LET s == disk.slots[Probed(disk.slot_count, Hash[t], k)] IN
                      /\ FirstStop(disk, t, k)
                      /\ IF t \in Range(Names)
                         THEN s.id_plus_one # 0 /\ Names[s.id_plus_one] = t
                         ELSE s.id_plus_one = 0
  BY DEF ProbeSound
<1>1. RecordsInv /\ SlotsInv /\ Names = DiskNames
  BY DEF Inv, OnFiles, Names, DiskNames
<1>2. PICK k \in 0 .. disk.slot_count - 1 : FirstStop(disk, t, k)
  BY <1>1, DiskNamed, LookupStops
<1> DEFINE i == Probed(disk.slot_count, Hash[t], k)
<1>3. /\ disk.slots[i].id_plus_one # 0 =>
           /\ disk.slots[i].id_plus_one \in 1 .. disk.len
           /\ DiskNames[disk.slots[i].id_plus_one] = t
      /\ disk.slots[i].id_plus_one = 0 => \A n \in 1 .. disk.len : DiskNames[n] # t
  BY <1>1, <1>2, LookupRight
<1>4. DOMAIN DiskNames = 1 .. disk.len
  BY DEF DiskNames
<1>5. t \in Range(DiskNames) <=> disk.slots[i].id_plus_one # 0
  BY <1>3, <1>4 DEF Range
<1> QED  BY <1>1, <1>2, <1>3, <1>5

-----------------------------------------------------------------------------
(* Every step keeps the parts of Inv.                                      *)

LEMMA InvInit == Init => Inv
<1> SUFFICES ASSUME Init PROVE Inv
  OBVIOUS
<1>1. MemoryInv
  BY DEF Init, NoTuples, MemoryInv, IsInjective
<1>2. ControlInv /\ LastInv /\ ~ OnFiles
  BY DEF Init, ControlInv, LastInv, OnFiles, DiskSteps
<1> QED  BY <1>1, <1>2 DEF Inv

\* A call that is answered: what is on disk stays, whole or given up.
LEMMA AnsweredKeeps ==
    ASSUME Inv, pc \notin {"append_tuple", "write_slot"}, pc' = "idle",
           UNCHANGED <<spilled, disk>>,
           poisoned' = poisoned \/ (spilled /\ poisoned' # "no"),
           MemoryInv', LastInv'
    PROVE  Inv'
<1>1. ControlInv'
  BY DEF Inv, ControlInv
<1>2. ASSUME OnFiles'
      PROVE  (RecordsInv /\ SlotsInv /\ FoundInv /\ GrowingInv /\ MovingInv)'
  <2>1. spilled /\ spilled' /\ RecordsInv /\ SlotsInv
    BY <1>2 DEF OnFiles, DiskSteps, Inv
  <2>2. DiskNames' = DiskNames
    BY DEF DiskNames, OnDisk
  <2>3. RecordsInv'
    BY <2>1, <2>2 DEF RecordsInv
  <2>4. SlotsInv'
    BY <2>1, <2>2 DEF SlotsInv
  <2>5. FoundInv' /\ GrowingInv' /\ MovingInv'
    BY <2>1 DEF FoundInv, GrowingInv, MovingInv
  <2> QED  BY <2>3, <2>4, <2>5
<1> QED  BY <1>1, <1>2 DEF Inv

\* What the reservations leave is a table of the same tuples.
LEMMA ReservedKeeps ==
    ASSUME MemoryInv
    PROVE  /\ ReservedMap(memory) \in Nat
           /\ ReservedReverse(memory) \subseteq Nat
           /\ \A m \in Reserved :
                /\ m \in [names : Seq(Tuples), map_capacity : Nat, reverse_capacity : Nat]
                /\ m.names = memory.names
<1>1. /\ memory.names \in Seq(Tuples) /\ Len(memory.names) \in Nat
      /\ memory.map_capacity \in Nat /\ memory.reverse_capacity \in Nat
      /\ memory = [names |-> memory.names, map_capacity |-> memory.map_capacity,
                   reverse_capacity |-> memory.reverse_capacity]
  BY DEF MemoryInv
<1>2. ReservedMap(memory) \in Nat
  BY <1>1 DEF ReservedMap
<1>3. ReservedReverse(memory) \subseteq Nat
  BY <1>1, StoreAssumption DEF ReservedReverse
<1>4. ASSUME NEW r \in ReservedReverse(memory), NEW m,
             m = [memory EXCEPT !.map_capacity = ReservedMap(memory),
                                !.reverse_capacity = r]
      PROVE  /\ m \in [names : Seq(Tuples), map_capacity : Nat, reverse_capacity : Nat]
             /\ m.names = memory.names
  <2>1. m = [names |-> memory.names, map_capacity |-> ReservedMap(memory),
             reverse_capacity |-> r]
    BY <1>1, <1>4
  <2> QED  BY <2>1, <1>1, <1>2, <1>3
<1> QED  BY <1>2, <1>3, <1>4 DEF Reserved

\* intern, in memory.
LEMMA MemoryInternInv ==
    ASSUME Inv, NEW t \in Tuples,
           InternKnown(t) \/ InternNoRoom(t) \/ InternOverAllocated(t)
             \/ InternResident(t) \/ InternExhausted(t) \/ ReserveFails(t)
    PROVE  Inv'
<1>1. /\ MemoryInv /\ ControlInv /\ LastInv
      /\ pc = "idle" /\ ~ spilled /\ poisoned = "no" /\ last_resolved = Failed
      /\ UNCHANGED <<spilled, disk, poisoned, last_resolved>>
  BY DEF Inv, LastInv, InternKnown, InternNoRoom, InternOverAllocated, InternResident,
         InternExhausted, ReserveFails, RoomFor, Called, files
<1>2. LastInv'
  BY <1>1 DEF LastInv
<1>3. ASSUME pc' = "idle", MemoryInv' PROVE Inv'
  BY <1>1, <1>2, <1>3, AnsweredKeeps
<1>4. ASSUME pc' = "spill", tuple' = t, MemoryInv' PROVE Inv'
  <2>1. ControlInv' /\ ~ OnFiles'
    BY <1>1, <1>4 DEF ControlInv, OnFiles, DiskSteps
  <2> QED  BY <1>2, <1>4, <2>1 DEF Inv
<1>5. ASSUME memory' \in Reserved \/ memory' = memory PROVE MemoryInv'
  BY <1>1, <1>5, ReservedKeeps DEF MemoryInv
<1>6. CASE InternKnown(t)
  BY <1>3, <1>5, <1>6 DEF InternKnown, Return
<1>7. CASE InternNoRoom(t)
  BY <1>4, <1>5, <1>7 DEF InternNoRoom, ToSpill
<1>8. CASE InternOverAllocated(t)
  BY <1>4, <1>5, <1>8 DEF InternOverAllocated, ToSpill
<1>9. CASE InternResident(t)
  <2>1. PICK m \in Reserved : memory' = [m EXCEPT !.names = Append(@, t)]
    BY <1>9 DEF InternResident
  <2>2. /\ memory' \in [names : Seq(Tuples), map_capacity : Nat, reverse_capacity : Nat]
        /\ memory'.names = Append(memory.names, t)
    <3>1. /\ m \in [names : Seq(Tuples), map_capacity : Nat, reverse_capacity : Nat]
          /\ m.names = memory.names
      BY <1>1, ReservedKeeps
    <3>2. /\ memory' = [names |-> Append(m.names, t), map_capacity |-> m.map_capacity,
                        reverse_capacity |-> m.reverse_capacity]
          /\ m.names \in Seq(Tuples) /\ m.map_capacity \in Nat
          /\ m.reverse_capacity \in Nat
      BY <2>1, <3>1
    <3> QED  BY <3>1, <3>2
  <2>3. t \notin Range(memory.names)
    BY <1>9 DEF InternResident, RoomFor, Resident
  <2>4. IsInjective(memory'.names)
    <3>1. IsInjective(memory.names) /\ memory.names \in Seq(Tuples)
      BY <1>1 DEF MemoryInv
    <3>2. \A i \in 1 .. Len(memory.names) : memory.names[i] # t
      BY <2>3, <3>1 DEF Range
    <3> QED  BY <2>2, <3>1, <3>2 DEF IsInjective
  <2>5. pc' = "idle"
    BY <1>9 DEF InternResident, Return
  <2> QED  BY <1>3, <2>2, <2>4, <2>5 DEF MemoryInv
<1>10. CASE InternExhausted(t)
  BY <1>3, <1>5, <1>10 DEF InternExhausted, Return
<1>11. CASE ReserveFails(t)
  <2>1. pc' = "idle"
    BY <1>11 DEF ReserveFails, Return
  <2>2. CASE memory' = [memory EXCEPT !.map_capacity = ReservedMap(memory)]
    <3>1. /\ memory' \in [names : Seq(Tuples), map_capacity : Nat, reverse_capacity : Nat]
          /\ memory'.names = memory.names
      BY <2>2, <1>1, ReservedKeeps DEF MemoryInv
    <3>2. MemoryInv'
      BY <3>1, <1>1 DEF MemoryInv
    <3> QED  BY <1>3, <2>1, <3>2
  <2>3. CASE UNCHANGED memory
    BY <1>3, <1>5, <2>1, <2>3
  <2> QED  BY <1>11, <2>2, <2>3 DEF ReserveFails
<1> QED  BY <1>6, <1>7, <1>8, <1>9, <1>10, <1>11

\* A call on a poisoned store, and resolve.
LEMMA ResolveInv ==
    ASSUME Inv, Refused \/ \E id \in Ids : Resolve(id)
    PROVE  Inv'
<1>1. MemoryInv /\ ControlInv /\ LastInv /\ UNCHANGED memory
  BY DEF Inv, Refused, Resolve, ResolveCached, ResolveMemory, ResolveDisk,
         ResolveDiskFails
<1>2. MemoryInv'
  BY <1>1 DEF MemoryInv
<1>3. CASE Refused
  BY <1>1, <1>2, <1>3, AnsweredKeeps DEF Refused, Return, files, LastInv, OnDisk
<1>4. ASSUME NEW id \in Ids, ResolveCached(id) \/ ResolveMemory(id) PROVE Inv'
  BY <1>1, <1>2, <1>4, AnsweredKeeps
     DEF ResolveCached, ResolveMemory, Called, Return, files, LastInv, OnDisk
<1>5. ASSUME NEW id \in Ids, ResolveDiskFails(id) PROVE Inv'
  BY <1>1, <1>2, <1>5, AnsweredKeeps
     DEF ResolveDiskFails, Called, Return, Poison, files, LastInv, OnDisk
<1>6. ASSUME NEW id \in Ids, ResolveDisk(id) PROVE Inv'
  <2>1. id \in Nat
    BY DEF Ids
  <2>2. /\ pc = "idle" /\ pc' = "idle" /\ spilled /\ id < disk.len
        /\ last_resolved' = <<id, OnDisk(disk, id)>>
        /\ UNCHANGED <<spilled, disk, poisoned>>
    BY <1>6 DEF ResolveDisk, Called, Return, files
  <2>3. disk.len \in Nat
    BY <2>2 DEF Inv, OnFiles, RecordsInv
  <2>4. LastInv'
    BY <2>1, <2>2, <2>3 DEF LastInv, OnDisk
  <2> QED  BY <1>2, <2>2, <2>4, AnsweredKeeps
<1> QED  BY <1>3, <1>4, <1>5, <1>6 DEF Resolve

\* A file operation fails: the store is given up, or left in memory.
LEMMA FailKeeps ==
    ASSUME Inv, pc # "idle", NEW why, why # "no", Fail(why)
    PROVE  Inv'
<1>1. /\ MemoryInv /\ ControlInv /\ LastInv /\ poisoned = "no" /\ pc' = "idle"
      /\ UNCHANGED <<memory, spilled, last_resolved>>
      /\ ~ spilled => UNCHANGED poisoned
      /\ spilled => disk' = disk /\ poisoned' = why
  BY DEF Inv, ControlInv, Fail, Poison, Return
<1>2. MemoryInv' /\ ControlInv' /\ LastInv'
  BY <1>1 DEF MemoryInv, ControlInv, LastInv, OnDisk
<1>3. ASSUME OnFiles'
      PROVE  (RecordsInv /\ SlotsInv /\ FoundInv /\ GrowingInv /\ MovingInv)'
  <2>1. spilled /\ disk' = disk /\ poisoned' = why /\ RecordsInv /\ SlotsInv
    BY <1>1, <1>3 DEF OnFiles, DiskSteps, Inv
  <2>2. DiskNames' = DiskNames
    BY <2>1 DEF DiskNames, OnDisk
  <2>3. RecordsInv'
    BY <1>1, <2>1, <2>2 DEF RecordsInv
  <2>4. SlotsInv'
    BY <1>1, <2>1, <2>2 DEF SlotsInv
  <2>5. FoundInv' /\ GrowingInv' /\ MovingInv'
    BY <1>1, <2>1 DEF FoundInv, GrowingInv, MovingInv
  <2> QED  BY <2>3, <2>4, <2>5
<1> QED  BY <1>2, <1>3 DEF Inv

\* The presized table has room for every tuple it is made for.
LEMMA InitialSlotsEnough ==
    ASSUME NEW len \in Nat, NEW count \in InitialSlotCounts(len)
    PROVE  /\ count \in Nat \ {0, 1}
           /\ len * MAX_LOAD_DENOMINATOR <= count * MAX_LOAD_NUMERATOR
<1> DEFINE required == (len * 10 + 6) \div 7
<1>1. required \in Nat /\ len * 10 <= required * 7
  OBVIOUS
<1>2. /\ INITIAL_SLOT_COUNT \in Nat \ {0, 1}
      /\ count \in Nat /\ count >= INITIAL_SLOT_COUNT /\ count >= required
  <2>1. INITIAL_SLOT_COUNT \in Nat \ {0, 1}
    BY StoreAssumption
  <2>2. (len * MAX_LOAD_DENOMINATOR + MAX_LOAD_NUMERATOR - 1) \div MAX_LOAD_NUMERATOR
          = required
    BY DEF MAX_LOAD_NUMERATOR, MAX_LOAD_DENOMINATOR
  <2> HIDE DEF required
  <2>3. count \in (IF required > INITIAL_SLOT_COUNT THEN required ELSE INITIAL_SLOT_COUNT)
                   .. 2 * (IF required > INITIAL_SLOT_COUNT THEN required
                           ELSE INITIAL_SLOT_COUNT) - 1
    BY <2>2 DEF InitialSlotCounts
  <2> QED  BY <1>1, <2>1, <2>3
<1> HIDE DEF required
<1> QED  BY <1>1, <1>2 DEF MAX_LOAD_NUMERATOR, MAX_LOAD_DENOMINATOR

\* The files are created.
LEMMA SpillInv == Inv /\ Spill => Inv'
<1> SUFFICES ASSUME Inv, Spill PROVE Inv'
  OBVIOUS
<1>1. /\ MemoryInv /\ ControlInv /\ LastInv
      /\ pc = "spill" /\ pc' = "migrate" /\ ~ spilled /\ poisoned = "no"
      /\ UNCHANGED <<memory, spilled, last_resolved, poisoned, tuple>>
  BY DEF Inv, ControlInv, Spill, Step, call
<1>2. MemoryInv' /\ LastInv' /\ ControlInv'
  BY <1>1 DEF MemoryInv, LastInv, ControlInv, DiskSteps
<1>3. Len(memory.names) \in Nat
  BY <1>1 DEF MemoryInv
<1>4. PICK count \in InitialSlotCounts(Len(memory.names)) : disk' = NewDisk(count)
  BY DEF Spill
<1>5. /\ count \in Nat \ {0, 1}
      /\ Len(memory.names) * MAX_LOAD_DENOMINATOR <= count * MAX_LOAD_NUMERATOR
  BY <1>3, InitialSlotsEnough
<1>6. /\ disk'.len = 0 /\ disk'.slots = NewSlots(count) /\ disk'.slot_count = count
      /\ disk'.slot_generation = 0 /\ disk'.offsets = <<>> /\ disk'.tuples = <<>>
      /\ DOMAIN disk' = DOMAIN NoDisk
  BY <1>4 DEF NewDisk, NoDisk
<1>7. DOMAIN DiskNames' = {}
  BY <1>6 DEF DiskNames
<1>8. RecordsInv'
  BY <1>1, <1>6, <1>7 DEF RecordsInv, IsInjective
<1>9. SlotsInv'
  <2>1. DOMAIN NewSlots(count) = 0 .. count - 1
    BY DEF NewSlots
  <2>2. TableSound(NewSlots(count), count, {}, DiskNames')
    BY <1>5, NewSlotsSound
  <2>3. 1 .. disk'.len = {}
    BY <1>6
  <2>4. disk'.len * MAX_LOAD_DENOMINATOR <= disk'.slot_count * MAX_LOAD_NUMERATOR
    BY <1>5, <1>6 DEF MAX_LOAD_NUMERATOR, MAX_LOAD_DENOMINATOR
  <2>5. TableSound(disk.slots, disk.slot_count, 1 .. disk.len, DiskNames)'
    BY <2>2, <2>3, <1>6
  <2> QED  BY <1>1, <1>5, <1>6, <2>1, <2>4, <2>5 DEF SlotsInv
<1>10. FoundInv' /\ GrowingInv'
  BY <1>1 DEF FoundInv, GrowingInv
<1>11. MovingInv'
  BY <1>1, <1>3, <1>5, <1>6 DEF MovingInv
<1> QED  BY <1>2, <1>8, <1>9, <1>10, <1>11 DEF Inv

\* The steps that leave the files alone, between two steps that do.
LEMMA SteppedKeeps ==
    ASSUME Inv, OnFiles, poisoned = "no", UNCHANGED <<disk, poisoned>>,
           pc \notin {"append_tuple", "write_slot"},
           pc' \notin {"append_tuple", "write_slot", "idle"},
           pc' \in {"remove_old", "lookup_again", "append_offset"} => ~ NeedsGrowth(disk),
           MemoryInv', ControlInv', LastInv', FoundInv', GrowingInv', MovingInv'
    PROVE  Inv'
<1>1. RecordsInv /\ SlotsInv
  BY DEF Inv
<1>2. DiskNames' = DiskNames
  BY DEF DiskNames, OnDisk
<1>3. RecordsInv'
  BY <1>1, <1>2 DEF RecordsInv
<1>4. SlotsInv'
  BY <1>1, <1>2 DEF SlotsInv, NeedsGrowth
<1> QED  BY <1>3, <1>4 DEF Inv

\* The next tuple is moved; or all have been, and the store goes on on disk.
LEMMA MigrateInv == Inv /\ (Migrate \/ Switch) => Inv'
<1> SUFFICES ASSUME Inv, Migrate \/ Switch PROVE Inv'
  OBVIOUS
<1>1. /\ MemoryInv /\ ControlInv /\ LastInv /\ OnFiles /\ MovingInv
      /\ pc = "migrate" /\ pc' = "lookup" /\ ~ spilled /\ poisoned = "no"
      /\ UNCHANGED <<disk, last_resolved, poisoned, tuple>>
  BY DEF Inv, ControlInv, OnFiles, DiskSteps, Migrate, Switch, Step, files, call
<1>2. LastInv' /\ FoundInv' /\ GrowingInv'
  BY <1>1 DEF LastInv, FoundInv, GrowingInv
<1>3. CASE Migrate
  <2>1. UNCHANGED <<memory, spilled>> /\ disk.len < Len(memory.names)
    BY <1>3 DEF Migrate
  <2>2. MemoryInv' /\ ControlInv' /\ MovingInv'
    <3>1. DiskNames' = DiskNames
      BY <1>1 DEF DiskNames, OnDisk
    <3> QED  BY <1>1, <2>1, <3>1 DEF MemoryInv, ControlInv, MovingInv, DiskSteps
  <2> QED  BY <1>1, <1>2, <2>2, SteppedKeeps
<1>4. CASE Switch
  <2>1. spilled' /\ spilled' \in BOOLEAN /\ memory' = NoTuples
    BY <1>4 DEF Switch
  <2>2. MemoryInv'
    BY <2>1 DEF MemoryInv, NoTuples, IsInjective
  <2>3. ControlInv' /\ MovingInv'
    BY <1>1, <2>1 DEF ControlInv, MovingInv, DiskSteps
  <2> QED  BY <1>1, <1>2, <2>2, <2>3, SteppedKeeps
<1> QED  BY <1>3, <1>4

\* intern, on disk.
LEMMA InternDiskInv ==
    ASSUME Inv, NEW t \in Tuples, InternDisk(t)
    PROVE  Inv'
<1>1. /\ MemoryInv /\ ControlInv /\ LastInv /\ OnFiles
      /\ pc = "idle" /\ pc' = "lookup" /\ tuple' = t /\ spilled /\ poisoned = "no"
      /\ UNCHANGED <<memory, spilled, disk, last_resolved, poisoned>>
  BY DEF Inv, InternDisk, Called, OnFiles, files
<1>2. MemoryInv' /\ ControlInv' /\ LastInv' /\ FoundInv' /\ GrowingInv' /\ MovingInv'
  BY <1>1 DEF MemoryInv, ControlInv, LastInv, FoundInv, GrowingInv, MovingInv,
              DiskSteps, OnDisk
<1> QED  BY <1>1, <1>2, SteppedKeeps

\* What every step on the files starts from.
LEMMA OnFilesFacts ==
    ASSUME Inv, pc \in DiskSteps \ {"spill"}
    PROVE  /\ OnFiles /\ poisoned = "no" /\ spilled \in BOOLEAN
           /\ MemoryInv /\ ControlInv /\ LastInv
           /\ RecordsInv /\ SlotsInv /\ FoundInv /\ GrowingInv /\ MovingInv
           /\ disk.len \in Nat /\ disk.slot_count \in Nat \ {0, 1}
           /\ pc # "migrate" => Current \in Tuples
<1>1. /\ OnFiles /\ poisoned = "no" /\ tuple \in Tuples /\ spilled \in BOOLEAN
      /\ MemoryInv /\ ControlInv /\ LastInv
      /\ RecordsInv /\ SlotsInv /\ FoundInv /\ GrowingInv /\ MovingInv
  BY DEF Inv, ControlInv, OnFiles, DiskSteps
<1>2. disk.len \in Nat /\ disk.slot_count \in Nat \ {0, 1}
  BY <1>1 DEF RecordsInv, SlotsInv
<1>3. ASSUME pc # "migrate" PROVE Current \in Tuples
  <2>1. CASE spilled
    BY <1>1, <2>1 DEF Current
  <2>2. CASE ~ spilled
    <3>1. memory.names \in Seq(Tuples) /\ disk.len + 1 \in 1 .. Len(memory.names)
      BY <1>1, <1>2, <1>3, <2>2 DEF MemoryInv, MovingInv
    <3> QED  BY <3>1, <2>2 DEF Current
  <2> QED  BY <2>1, <2>2
<1> QED  BY <1>1, <1>2, <1>3

\* The tuple is there.
LEMMA LookupFoundInv == Inv /\ LookupFound => Inv'
<1> SUFFICES ASSUME Inv, LookupFound PROVE Inv'
  OBVIOUS
<1>1. /\ pc \in {"lookup", "lookup_again"}
      /\ \/ /\ pc' = "idle"
            /\ UNCHANGED <<memory, spilled, disk, last_resolved, poisoned>>
         \/ Fail("changed")
  BY DEF LookupFound, Looking, Return, files
<1>2. CASE Fail("changed")
  BY <1>1, <1>2, FailKeeps
<1>3. CASE /\ pc' = "idle"
           /\ UNCHANGED <<memory, spilled, disk, last_resolved, poisoned>>
  <2>1. MemoryInv' /\ LastInv'
    BY <1>3 DEF Inv, MemoryInv, LastInv, OnDisk
  <2> QED  BY <1>1, <1>3, <2>1, AnsweredKeeps
<1> QED  BY <1>1, <1>2, <1>3

\* The tuple is not there: the slot found for it follows its probe sequence.
LEMMA LookupVacantInv == Inv /\ LookupVacant => Inv'
<1> SUFFICES ASSUME Inv, LookupVacant PROVE Inv'
  OBVIOUS
<1>1. PICK k \in 0 .. disk.slot_count - 1 :
        /\ pc \in {"lookup", "lookup_again"} /\ FirstStop(disk, Current, k)
        /\ disk.slots[SlotAt(k)].id_plus_one = 0
        /\ slot' = SlotAt(k)
        /\ pc' = IF pc = "lookup" /\ NeedsGrowth(disk) THEN "grow" ELSE "append_offset"
        /\ UNCHANGED <<memory, spilled, disk, growing, last_resolved, poisoned, tuple>>
  BY DEF LookupVacant, Looking, files
<1>2. pc \in DiskSteps \ {"spill"}
  BY <1>1 DEF DiskSteps
<1>3. /\ OnFiles /\ poisoned = "no" /\ MemoryInv /\ ControlInv /\ LastInv
      /\ RecordsInv /\ SlotsInv /\ MovingInv /\ disk.len \in Nat
      /\ disk.slot_count \in Nat \ {0, 1} /\ Current \in Tuples
  BY <1>1, <1>2, OnFilesFacts
<1>4. Current' = Current /\ DiskNames' = DiskNames
  BY <1>1 DEF Current, DiskNames, OnDisk
<1>5. /\ slot' \in 0 .. disk.slot_count - 1
      /\ Follows(disk.slots, disk.slot_count, Hash[Current], k, slot')
      /\ \A n \in 1 .. disk.len : DiskNames[n] # Current
  BY <1>1, <1>3, LookupRight DEF SlotAt
<1>6. FoundInv'
  BY <1>1, <1>4, <1>5 DEF FoundInv
<1>7. ~ spilled => ~ NeedsGrowth(disk)
  <2> SUFFICES ASSUME ~ spilled PROVE ~ NeedsGrowth(disk)
    OBVIOUS
  <2>1. /\ Len(memory.names) \in Nat /\ disk.len < Len(memory.names)
        /\ Len(memory.names) * 10 <= disk.slot_count * 7
    BY <1>1, <1>3 DEF MemoryInv, MovingInv, MAX_LOAD_NUMERATOR, MAX_LOAD_DENOMINATOR
  <2> QED  BY <2>1, <1>3 DEF NeedsGrowth, MAX_LOAD_NUMERATOR, MAX_LOAD_DENOMINATOR
<1>8. MemoryInv' /\ ControlInv' /\ LastInv' /\ GrowingInv'
  BY <1>1, <1>3 DEF MemoryInv, ControlInv, LastInv, OnDisk, GrowingInv, DiskSteps
<1>9. MovingInv'
  BY <1>1, <1>3, <1>4, <1>7 DEF MovingInv
<1>10. pc' \in {"remove_old", "lookup_again", "append_offset"} => ~ NeedsGrowth(disk)
  BY <1>1, <1>3 DEF SlotsInv
<1> QED  BY <1>1, <1>3, <1>6, <1>8, <1>9, <1>10, SteppedKeeps

\* The bigger slot file is made.
LEMMA GrowSlotsInv == Inv /\ GrowSlots => Inv'
<1> SUFFICES ASSUME Inv, GrowSlots PROVE Inv'
  OBVIOUS
<1>1. /\ pc = "grow" /\ pc' = "copy"
      /\ growing' = [slots |-> NewSlots(2 * disk.slot_count), next |-> 0]
      /\ UNCHANGED <<memory, spilled, disk, last_resolved, poisoned, tuple>>
  BY DEF GrowSlots, Step, call
<1>2. pc \in DiskSteps \ {"spill"}
  BY <1>1 DEF DiskSteps
<1>3. /\ OnFiles /\ poisoned = "no" /\ MemoryInv /\ ControlInv /\ LastInv /\ MovingInv
      /\ disk.slot_count \in Nat \ {0, 1}
  BY <1>2, OnFilesFacts
<1>4. spilled
  BY <1>1, <1>3 DEF MovingInv
<1>5. GrowingInv'
  <2> DEFINE count == 2 * disk.slot_count
  <2>1. /\ growing'.next = 0 /\ growing'.slots = NewSlots(count)
        /\ DOMAIN growing' = DOMAIN NotGrowing
    BY <1>1 DEF NotGrowing
  <2>2. DOMAIN NewSlots(count) = 0 .. count - 1
    BY DEF NewSlots
  <2>3. TableSound(NewSlots(count), count, {}, DiskNames')
    BY <1>3, NewSlotsSound
  <2>4. {disk'.slots[i].id_plus_one : i \in 0 .. growing'.next - 1} \ {0} = {}
    BY <2>1
  <2> HIDE DEF count
  <2>5. count = 2 * disk'.slot_count
    BY <1>1 DEF count
  <2>6. /\ growing'.next \in 0 .. disk'.slot_count
        /\ DOMAIN growing'.slots = 0 .. 2 * disk'.slot_count - 1
    BY <1>1, <1>3, <2>1, <2>2, <2>5
  <2>7. TableSound(growing'.slots, 2 * disk'.slot_count,
                   {disk'.slots[i].id_plus_one : i \in 0 .. growing'.next - 1} \ {0},
                   DiskNames')
    BY <2>1, <2>3, <2>4, <2>5
  <2> QED  BY <2>1, <2>6, <2>7 DEF GrowingInv
<1>6. MemoryInv' /\ ControlInv' /\ LastInv' /\ FoundInv' /\ MovingInv'
  BY <1>1, <1>3, <1>4
     DEF MemoryInv, ControlInv, LastInv, OnDisk, FoundInv, MovingInv, DiskSteps
<1> QED  BY <1>1, <1>3, <1>5, <1>6, SteppedKeeps

\* A slot is copied to the bigger file, if it is in use.
LEMMA CopySlotInv == Inv /\ CopySlot => Inv'
<1> SUFFICES ASSUME Inv, CopySlot PROVE Inv'
  OBVIOUS
<1> DEFINE count == 2 * disk.slot_count
           next == growing.next
           s == disk.slots[next]
           copied == {disk.slots[i].id_plus_one : i \in 0 .. next - 1} \ {0}
           copied2 == {disk.slots[i].id_plus_one : i \in 0 .. next} \ {0}
<1>1. /\ pc = "copy" /\ pc' = "copy" /\ next < disk.slot_count
      /\ UNCHANGED <<memory, spilled, disk, last_resolved, poisoned, tuple>>
  BY DEF CopySlot, Step, call
<1>2. pc \in DiskSteps \ {"spill"}
  BY <1>1 DEF DiskSteps
<1>3. /\ OnFiles /\ poisoned = "no" /\ MemoryInv /\ ControlInv /\ LastInv /\ MovingInv
      /\ RecordsInv /\ SlotsInv /\ GrowingInv
      /\ disk.slot_count \in Nat \ {0, 1} /\ disk.len \in Nat
  BY <1>2, OnFilesFacts
<1>4. /\ DOMAIN growing = DOMAIN NotGrowing
      /\ next \in 0 .. disk.slot_count - 1
      /\ DOMAIN growing.slots = 0 .. count - 1
      /\ TableSound(growing.slots, count, copied, DiskNames)
  BY <1>1, <1>3 DEF GrowingInv
<1>5. /\ TableSound(disk.slots, disk.slot_count, 1 .. disk.len, DiskNames)
      /\ DiskNames' = DiskNames
  BY <1>1, <1>3 DEF SlotsInv, DiskNames, OnDisk
<1>6. copied2 = IF s.id_plus_one = 0 THEN copied ELSE copied \cup {s.id_plus_one}
  <2>1. 0 .. next = (0 .. next - 1) \cup {next}
    BY <1>4
  <2> QED  BY <2>1
<1>7. copied \in SUBSET (1 .. disk.len)
  <2>1. \A i \in 0 .. next - 1 : i \in 0 .. disk.slot_count - 1
    BY <1>3, <1>4
  <2> QED  BY <2>1, <1>5 DEF TableSound
<1>8. ASSUME growing' = [slots |-> growing'.slots, next |-> next + 1],
             DOMAIN growing'.slots = 0 .. count - 1,
             TableSound(growing'.slots, count, copied2, DiskNames)
      PROVE  GrowingInv'
  <2>1. growing'.next = next + 1 /\ DOMAIN growing' = DOMAIN NotGrowing
    BY <1>8 DEF NotGrowing
  <2>2. growing'.next \in 0 .. disk.slot_count /\ growing'.next - 1 = next
    BY <2>1, <1>3, <1>4
  <2>3. {disk'.slots[i].id_plus_one : i \in 0 .. growing'.next - 1} \ {0} = copied2
    BY <2>2, <1>1
  <2>4. TableSound(growing'.slots, 2 * disk'.slot_count,
                   {disk'.slots[i].id_plus_one : i \in 0 .. growing'.next - 1} \ {0},
                   DiskNames')
    BY <2>3, <1>1, <1>5, <1>8
  <2>5. /\ growing'.next \in 0 .. disk'.slot_count
        /\ DOMAIN growing'.slots = 0 .. 2 * disk'.slot_count - 1
    BY <2>2, <1>1, <1>8
  <2> HIDE DEF count, next, copied, copied2, s
  <2> QED  BY <2>1, <2>4, <2>5 DEF GrowingInv
<1>9. GrowingInv'
  <2>1. CASE s.id_plus_one = 0
    <3>1. growing' = [growing EXCEPT !.next = @ + 1]
      BY <2>1 DEF CopySlot
    <3>2. /\ growing' = [slots |-> growing.slots, next |-> next + 1]
          /\ growing'.slots = growing.slots
      BY <3>1, <1>4 DEF NotGrowing
    <3> QED  BY <3>2, <2>1, <1>4, <1>6, <1>8
  <2>2. CASE s.id_plus_one # 0
    <3>1. PICK i \in FirstFree(growing.slots, count, s.hash) :
            growing' = [slots |-> [growing.slots EXCEPT ![i] = s], next |-> next + 1]
      BY <2>2 DEF CopySlot
    <3>2. /\ i \in 0 .. count - 1 /\ growing.slots[i].id_plus_one = 0
          /\ \E k \in 0 .. count - 1 : Follows(growing.slots, count, s.hash, k, i)
      BY <3>1 DEF FirstFree
    <3>3. /\ s.id_plus_one \in 1 .. disk.len
          /\ s.hash = Hash[DiskNames[s.id_plus_one]]
      BY <2>2, <1>4, <1>5 DEF TableSound
    <3>4. s.id_plus_one \notin copied
      <4>1. \A j \in 0 .. next - 1 : j \in 0 .. disk.slot_count - 1 /\ j # next
        BY <1>3, <1>4
      <4>2. \A j \in 0 .. disk.slot_count - 1 :
              disk.slots[j].id_plus_one = s.id_plus_one => j = next
        BY <2>2, <1>4, <1>5 DEF TableSound
      <4>3. \A j \in 0 .. next - 1 : disk.slots[j].id_plus_one # s.id_plus_one
        BY <4>1, <4>2
      <4> QED  BY <4>3
    <3>5. /\ count \in Nat \ {0}
          /\ \A h \in Nat, j \in 0 .. count - 1 : Probed(count, h, j) \in 0 .. count - 1
      <4>1. count \in Nat \ {0}
        BY <1>3
      <4> HIDE DEF count
      <4> QED  BY <4>1, ProbedRange
    <3>6. \A id \in 1 .. disk.len : Hash[DiskNames[id]] \in Nat
      BY <1>3, DiskNamed, StoreAssumption
    <3>7. TableSound([growing.slots EXCEPT ![i] = s], count,
                     copied \cup {s.id_plus_one}, DiskNames)
      <4>0. 1 .. disk.len \subseteq Nat \ {0}
        BY <1>3
      <4>1. copied \in SUBSET (Nat \ {0}) /\ s.id_plus_one \in Nat \ {0}
        <5> HIDE DEF copied, s
        <5> QED  BY <1>7, <3>3, <4>0
      <4>2. \A id \in copied \cup {s.id_plus_one} : Hash[DiskNames[id]] \in Nat
        BY <1>7, <3>3, <3>6
      <4>3. PICK k \in 0 .. count - 1 : Follows(growing.slots, count, s.hash, k, i)
        BY <3>2
      <4> HIDE DEF count, copied, s
      <4> QED  BY <4>1, <4>2, <4>3, <1>4, <3>2, <3>3, <3>4, <3>5, PlacedSound
    <3>8. /\ growing'.slots = [growing.slots EXCEPT ![i] = s]
          /\ growing' = [slots |-> growing'.slots, next |-> next + 1]
          /\ DOMAIN growing'.slots = 0 .. count - 1
      BY <3>1, <1>4
    <3> HIDE DEF count, copied, copied2, s, next
    <3> QED  BY <3>7, <3>8, <2>2, <1>6, <1>8
  <2> QED  BY <2>1, <2>2
<1>10. MemoryInv' /\ ControlInv' /\ LastInv' /\ FoundInv' /\ MovingInv'
  BY <1>1, <1>3, <1>5
     DEF MemoryInv, ControlInv, LastInv, OnDisk, FoundInv, MovingInv, DiskSteps
<1> QED  BY <1>1, <1>3, <1>9, <1>10, SteppedKeeps

\* The bigger file, with every id, replaces the other; it has room for one more.
LEMMA ExchangeSlotsInv == Inv /\ ExchangeSlots => Inv' /\ DiskNames' = DiskNames
<1> SUFFICES ASSUME Inv, ExchangeSlots PROVE Inv' /\ DiskNames' = DiskNames
  OBVIOUS
<1> DEFINE count == disk.slot_count
<1>1. /\ pc = "copy" /\ pc' = "remove_old" /\ growing.next = count
      /\ disk' = [disk EXCEPT !.slots = growing.slots, !.slot_count = 2 * @,
                              !.slot_generation = @ + 1]
      /\ UNCHANGED <<memory, spilled, last_resolved, poisoned, tuple>>
  BY DEF ExchangeSlots, Step, call
<1>2. pc \in DiskSteps \ {"spill"}
  BY <1>1 DEF DiskSteps
<1>3. /\ OnFiles /\ poisoned = "no" /\ MemoryInv /\ ControlInv /\ LastInv /\ MovingInv
      /\ RecordsInv /\ SlotsInv /\ GrowingInv
      /\ count \in Nat \ {0, 1} /\ disk.len \in Nat
  BY <1>2, OnFilesFacts
<1>4. spilled
  BY <1>1, <1>3 DEF MovingInv
<1>5. /\ disk'.slots = growing.slots /\ disk'.slot_count = 2 * count
      /\ disk'.len = disk.len /\ disk'.offsets = disk.offsets
      /\ disk'.tuples = disk.tuples /\ DOMAIN disk' = DOMAIN disk
  BY <1>1, <1>3 DEF RecordsInv, NoDisk, NewDisk
<1>6. DiskNames' = DiskNames
  BY <1>5 DEF DiskNames, OnDisk
<1>7. RecordsInv'
  BY <1>1, <1>3, <1>5, <1>6 DEF RecordsInv
<1>8. SlotsInv'
  <2> DEFINE ids == {disk.slots[i].id_plus_one : i \in 0 .. count - 1} \ {0}
  <2>1. /\ DOMAIN growing.slots = 0 .. 2 * count - 1
        /\ TableSound(growing.slots, 2 * count, ids, DiskNames)
    BY <1>1, <1>3 DEF GrowingInv
  <2>2. ids = 1 .. disk.len
    <3>1. TableSound(disk.slots, count, 1 .. disk.len, DiskNames)
      BY <1>3 DEF SlotsInv
    <3>2. ids \subseteq 1 .. disk.len
      BY <3>1 DEF TableSound
    <3>3. \A id \in 1 .. disk.len : \E i \in 0 .. count - 1 :
            disk.slots[i].id_plus_one = id
      BY <3>1 DEF TableSound
    <3>4. 1 .. disk.len \subseteq ids
      BY <3>3, <1>3
    <3> QED  BY <3>2, <3>4
  <2>3. disk.len * 10 <= count * 7
    BY <1>3 DEF SlotsInv, MAX_LOAD_NUMERATOR, MAX_LOAD_DENOMINATOR
  <2> HIDE DEF ids, count
  <2>4. 2 * count \in Nat \ {0, 1} /\ disk.len * 10 <= 2 * count * 7
    BY <2>3, <1>3
  <2>5. (disk.len + 1) * 10 <= 2 * count * 7
    BY <2>3, <1>3
  <2>6. ~ NeedsGrowth(disk')
    BY <2>5, <1>5, <1>3 DEF NeedsGrowth, MAX_LOAD_NUMERATOR, MAX_LOAD_DENOMINATOR
  <2>7. TableSound(disk'.slots, disk'.slot_count, 1 .. disk'.len, DiskNames')
    BY <2>1, <2>2, <1>5, <1>6
  <2>8. disk'.len * MAX_LOAD_DENOMINATOR <= disk'.slot_count * MAX_LOAD_NUMERATOR
    BY <2>4, <1>5 DEF MAX_LOAD_NUMERATOR, MAX_LOAD_DENOMINATOR
  <2>9. disk'.slot_count \in Nat \ {0, 1} /\ DOMAIN disk'.slots = 0 .. disk'.slot_count - 1
    BY <2>1, <2>4, <1>5
  <2> QED  BY <2>6, <2>7, <2>8, <2>9 DEF SlotsInv
<1>9. MemoryInv' /\ ControlInv' /\ FoundInv' /\ GrowingInv' /\ MovingInv'
  BY <1>1, <1>3, <1>4 DEF MemoryInv, ControlInv, FoundInv, GrowingInv, MovingInv, DiskSteps
<1>10. LastInv'
  BY <1>1, <1>3, <1>5 DEF LastInv, OnDisk
<1> QED  BY <1>6, <1>7, <1>8, <1>9, <1>10 DEF Inv

\* The old file is removed.
LEMMA RemoveOldSlotsInv == Inv /\ RemoveOldSlots => Inv'
<1> SUFFICES ASSUME Inv, RemoveOldSlots PROVE Inv'
  OBVIOUS
<1>1. /\ pc = "remove_old" /\ pc' = "lookup_again"
      /\ UNCHANGED <<memory, spilled, disk, last_resolved, poisoned, tuple>>
  BY DEF RemoveOldSlots, Step, files, call
<1>2. pc \in DiskSteps \ {"spill"}
  BY <1>1 DEF DiskSteps
<1>3. /\ OnFiles /\ poisoned = "no" /\ MemoryInv /\ ControlInv /\ LastInv
      /\ SlotsInv /\ MovingInv
  BY <1>2, OnFilesFacts
<1>4. spilled /\ ~ NeedsGrowth(disk)
  BY <1>1, <1>3 DEF MovingInv, SlotsInv
<1>5. /\ MemoryInv' /\ ControlInv' /\ LastInv'
      /\ FoundInv' /\ GrowingInv' /\ MovingInv'
  BY <1>1, <1>3, <1>4 DEF MemoryInv, ControlInv, LastInv, OnDisk, FoundInv, GrowingInv,
                          MovingInv, DiskSteps
<1> QED  BY <1>1, <1>3, <1>4, <1>5, SteppedKeeps

\* The offset is written: the tuple it will be the position of comes next.
LEMMA AppendOffsetInv == Inv /\ AppendOffset => Inv' /\ DiskNames' = DiskNames
<1> SUFFICES ASSUME Inv, AppendOffset PROVE Inv' /\ DiskNames' = DiskNames
  OBVIOUS
<1>1. /\ pc = "append_offset" /\ pc' = "append_tuple" /\ disk' = WithOffset(disk)
      /\ UNCHANGED <<memory, spilled, growing, last_resolved, poisoned, tuple, slot>>
  BY DEF AppendOffset, Step, call
<1>2. pc \in DiskSteps \ {"spill"}
  BY <1>1 DEF DiskSteps
<1>3. /\ OnFiles /\ poisoned = "no" /\ MemoryInv /\ ControlInv /\ LastInv /\ MovingInv
      /\ RecordsInv /\ SlotsInv /\ FoundInv
      /\ disk.slot_count \in Nat \ {0, 1} /\ disk.len \in Nat
  BY <1>2, OnFilesFacts
<1>4. /\ disk'.slots = disk.slots /\ disk'.slot_count = disk.slot_count
      /\ disk'.len = disk.len /\ disk'.tuples = disk.tuples
      /\ disk'.slot_generation = disk.slot_generation
      /\ disk'.offsets = Append(disk.offsets, Len(disk.tuples) + 1)
      /\ DOMAIN disk' = DOMAIN disk
  BY <1>1, <1>3 DEF WithOffset, RecordsInv, NoDisk, NewDisk
<1>5. /\ disk.offsets \in Seq(Nat) /\ disk.tuples \in Seq(Tuples)
      /\ Len(disk.offsets) = disk.len /\ Len(disk.tuples) = disk.len
  BY <1>1, <1>3 DEF RecordsInv
<1>6. /\ disk'.offsets \in Seq(Nat) /\ Len(disk'.offsets) = disk.len + 1
      /\ disk'.offsets[disk.len + 1] = disk.len + 1
      /\ \A i \in 1 .. disk.len : disk'.offsets[i] = disk.offsets[i]
  BY <1>3, <1>4, <1>5
<1>7. \A i \in 1 .. disk.len : OnDisk(disk', i - 1) = OnDisk(disk, i - 1)
  <2> TAKE i \in 1 .. disk.len
  <2>1. i - 1 + 1 = i
    BY <1>3
  <2> QED  BY <2>1, <1>4, <1>6 DEF OnDisk
<1>8. DiskNames' = DiskNames /\ Current' = Current
  BY <1>1, <1>4, <1>7 DEF DiskNames, Current
<1>9. RecordsInv'
  <2>1. \A i \in 1 .. disk.len : disk.offsets[i] = i
    BY <1>3 DEF RecordsInv
  <2>2. IsInjective(DiskNames) /\ DOMAIN disk = DOMAIN NoDisk
    BY <1>3 DEF RecordsInv
  <2> QED  BY <1>1, <1>3, <1>4, <1>5, <1>6, <1>8, <2>1, <2>2 DEF RecordsInv
<1>10. SlotsInv'
  BY <1>1, <1>3, <1>4, <1>8 DEF SlotsInv, NeedsGrowth
<1>11. FoundInv'
  BY <1>1, <1>3, <1>4, <1>8 DEF FoundInv
<1>12. MemoryInv' /\ ControlInv' /\ GrowingInv'
  BY <1>1, <1>3 DEF MemoryInv, ControlInv, GrowingInv, DiskSteps
<1>13. LastInv'
  <2> SUFFICES ASSUME last_resolved # Failed PROVE LastInv'
    BY <1>1 DEF LastInv
  <2>1. last_resolved[1] \in 0 .. disk.len - 1
    BY <1>3 DEF LastInv
  <2>2. PICK i \in 1 .. disk.len : i - 1 = last_resolved[1]
    BY <2>1, <1>3, IdBelow
  <2>3. OnDisk(disk', i - 1) = OnDisk(disk, i - 1)
    BY <1>7
  <2> QED  BY <2>2, <2>3, <1>1, <1>3, <1>4 DEF LastInv
<1>14. MovingInv'
  BY <1>1, <1>3, <1>4, <1>8 DEF MovingInv
<1> QED  BY <1>8, <1>9, <1>10, <1>11, <1>12, <1>13, <1>14 DEF Inv

\* The tuple is written at the position its offset has.
LEMMA AppendTupleInv == Inv /\ AppendTuple => Inv' /\ DiskNames' = DiskNames
<1> SUFFICES ASSUME Inv, AppendTuple PROVE Inv' /\ DiskNames' = DiskNames
  OBVIOUS
<1>1. /\ pc = "append_tuple" /\ pc' = "write_slot" /\ disk' = WithTuple(disk, Current)
      /\ UNCHANGED <<memory, spilled, growing, last_resolved, poisoned, tuple, slot>>
  BY DEF AppendTuple, Step, call
<1>2. pc \in DiskSteps \ {"spill"}
  BY <1>1 DEF DiskSteps
<1>3. /\ OnFiles /\ poisoned = "no" /\ MemoryInv /\ ControlInv /\ LastInv /\ MovingInv
      /\ RecordsInv /\ SlotsInv /\ FoundInv
      /\ disk.slot_count \in Nat \ {0, 1} /\ disk.len \in Nat /\ Current \in Tuples
  BY <1>1, <1>2, OnFilesFacts
<1>4. /\ disk'.slots = disk.slots /\ disk'.slot_count = disk.slot_count
      /\ disk'.len = disk.len /\ disk'.offsets = disk.offsets
      /\ disk'.slot_generation = disk.slot_generation
      /\ disk'.tuples = Append(disk.tuples, Current)
      /\ DOMAIN disk' = DOMAIN disk
  BY <1>1, <1>3 DEF WithTuple, RecordsInv, NoDisk, NewDisk
<1>5. /\ disk.offsets \in Seq(Nat) /\ disk.tuples \in Seq(Tuples)
      /\ Len(disk.offsets) = disk.len + 1 /\ Len(disk.tuples) = disk.len
      /\ disk.offsets[disk.len + 1] = disk.len + 1
      /\ \A i \in 1 .. disk.len : disk.offsets[i] = i
  BY <1>1, <1>3 DEF RecordsInv
<1>6. /\ disk'.tuples \in Seq(Tuples) /\ Len(disk'.tuples) = disk.len + 1
      /\ disk'.tuples[disk.len + 1] = Current
      /\ \A i \in 1 .. disk.len : disk'.tuples[i] = disk.tuples[i]
  BY <1>3, <1>4, <1>5
<1>7. \A i \in 1 .. disk.len : OnDisk(disk', i - 1) = OnDisk(disk, i - 1)
  <2> TAKE i \in 1 .. disk.len
  <2>1. i - 1 + 1 = i
    BY <1>3
  <2> QED  BY <2>1, <1>4, <1>5, <1>6 DEF OnDisk
<1>8. DiskNames' = DiskNames /\ Current' = Current
  BY <1>1, <1>4, <1>7 DEF DiskNames, Current
<1>9. RecordsInv'
  <2>1. IsInjective(DiskNames) /\ DOMAIN disk = DOMAIN NoDisk
    BY <1>3 DEF RecordsInv
  <2> QED  BY <1>1, <1>3, <1>4, <1>5, <1>6, <1>8, <2>1 DEF RecordsInv
<1>10. SlotsInv'
  BY <1>1, <1>3, <1>4, <1>8 DEF SlotsInv, NeedsGrowth
<1>11. FoundInv'
  BY <1>1, <1>3, <1>4, <1>8 DEF FoundInv
<1>12. MemoryInv' /\ ControlInv' /\ GrowingInv'
  BY <1>1, <1>3 DEF MemoryInv, ControlInv, GrowingInv, DiskSteps
<1>13. LastInv'
  <2> SUFFICES ASSUME last_resolved # Failed PROVE LastInv'
    BY <1>1 DEF LastInv
  <2>1. last_resolved[1] \in 0 .. disk.len - 1
    BY <1>3 DEF LastInv
  <2>2. PICK i \in 1 .. disk.len : i - 1 = last_resolved[1]
    BY <2>1, <1>3, IdBelow
  <2>3. OnDisk(disk', i - 1) = OnDisk(disk, i - 1)
    BY <1>7
  <2> QED  BY <2>2, <2>3, <1>1, <1>3, <1>4 DEF LastInv
<1>14. MovingInv'
  BY <1>1, <1>3, <1>4, <1>8 DEF MovingInv
<1> QED  BY <1>8, <1>9, <1>10, <1>11, <1>12, <1>13, <1>14 DEF Inv

\* The slot of the tuple is written: the table has one id more.
LEMMA WriteSlotInv == Inv /\ WriteSlot => Inv' /\ DiskNames' = Append(DiskNames, Current)
<1> SUFFICES ASSUME Inv, WriteSlot PROVE Inv' /\ DiskNames' = Append(DiskNames, Current)
  OBVIOUS
<1> DEFINE s == [hash |-> Hash[Current], id_plus_one |-> disk.len + 1]
           count == disk.slot_count
<1>1. /\ pc = "write_slot" /\ disk' = WithSlot(disk, Current, slot)
      /\ UNCHANGED <<memory, spilled, last_resolved, poisoned>>
      /\ spilled => pc' = "idle"
      /\ ~ spilled => pc' = "migrate" /\ UNCHANGED tuple
  BY DEF WriteSlot, Return
<1>2. pc \in DiskSteps \ {"spill"}
  BY <1>1 DEF DiskSteps
<1>3. /\ OnFiles /\ poisoned = "no" /\ MemoryInv /\ ControlInv /\ LastInv /\ MovingInv
      /\ RecordsInv /\ SlotsInv /\ FoundInv
      /\ count \in Nat \ {0, 1} /\ disk.len \in Nat /\ Current \in Tuples
      /\ spilled \in BOOLEAN
  BY <1>1, <1>2, OnFilesFacts
<1>4. /\ disk'.slots = [disk.slots EXCEPT ![slot] = s]
      /\ disk'.slot_count = count
      /\ disk'.len = disk.len + 1 /\ disk'.offsets = disk.offsets
      /\ disk'.slot_generation = disk.slot_generation
      /\ disk'.tuples = disk.tuples /\ DOMAIN disk' = DOMAIN disk
  BY <1>1, <1>3 DEF WithSlot, RecordsInv, NoDisk, NewDisk
<1>5. /\ disk.offsets \in Seq(Nat) /\ disk.tuples \in Seq(Tuples)
      /\ Len(disk.offsets) = disk.len + 1 /\ Len(disk.tuples) = disk.len + 1
      /\ \A i \in 1 .. disk.len + 1 : disk.offsets[i] = i
      /\ disk.tuples[disk.len + 1] = Current
  BY <1>1, <1>3 DEF RecordsInv
<1>6. \A i \in 1 .. disk.len + 1 : OnDisk(disk', i - 1) = disk.tuples[i]
  <2> TAKE i \in 1 .. disk.len + 1
  <2>1. i - 1 + 1 = i
    BY <1>3
  <2> QED  BY <2>1, <1>4, <1>5 DEF OnDisk
<1>7. /\ DOMAIN DiskNames' = 1 .. disk.len + 1
      /\ DiskNames'[disk.len + 1] = Current
      /\ \A i \in 1 .. disk.len : DiskNames'[i] = DiskNames[i]
  <2>1. \A i \in 1 .. disk.len : DiskNames[i] = disk.tuples[i]
    BY <1>3, DiskNamed
  <2>2. DOMAIN DiskNames' = 1 .. disk.len + 1
    BY <1>4 DEF DiskNames
  <2>3. \A i \in 1 .. disk.len + 1 : DiskNames'[i] = disk.tuples[i]
    BY <1>4, <1>6 DEF DiskNames
  <2>4. disk.len + 1 \in 1 .. disk.len + 1 /\ 1 .. disk.len \subseteq 1 .. disk.len + 1
    BY <1>3
  <2>5. DiskNames'[disk.len + 1] = Current
    BY <1>5, <2>3, <2>4
  <2>6. \A i \in 1 .. disk.len : DiskNames'[i] = DiskNames[i]
    <3> TAKE i \in 1 .. disk.len
    <3>1. DiskNames'[i] = disk.tuples[i] /\ DiskNames[i] = disk.tuples[i]
      BY <2>1, <2>3, <2>4
    <3> QED  BY <3>1
  <2> QED  BY <2>2, <2>5, <2>6
<1>8. /\ slot \in 0 .. count - 1 /\ disk.slots[slot].id_plus_one = 0
      /\ \E k \in 0 .. count - 1 : Follows(disk.slots, count, Hash[Current], k, slot)
      /\ \A i \in 1 .. disk.len : DiskNames[i] # Current
  BY <1>1, <1>3 DEF FoundInv
<1>9. RecordsInv'
  <2>1. IsInjective(DiskNames) /\ DOMAIN DiskNames = 1 .. disk.len
    BY <1>3 DEF RecordsInv, DiskNames
  <2>2. IsInjective(DiskNames')
    <3> SUFFICES ASSUME NEW i \in 1 .. disk.len + 1, NEW j \in 1 .. disk.len + 1,
                        DiskNames'[i] = DiskNames'[j], i # j
                 PROVE  FALSE
      BY <1>7 DEF IsInjective
    <3>1. 1 .. disk.len + 1 = 1 .. disk.len \cup {disk.len + 1}
      BY <1>3
    <3>2. ~ (i \in 1 .. disk.len /\ j \in 1 .. disk.len)
      BY <1>7, <2>1 DEF IsInjective
    <3> QED  BY <3>1, <3>2, <1>7, <1>8
  <2>3. pc' \in {"idle", "migrate"} /\ DOMAIN disk = DOMAIN NoDisk
    BY <1>1, <1>3 DEF RecordsInv
  <2> QED  BY <1>3, <1>4, <1>5, <2>2, <2>3 DEF RecordsInv
<1>10. TableSound(disk'.slots, count, 1 .. disk.len + 1, DiskNames')
  <2>1. TableSound(disk.slots, count, 1 .. disk.len, DiskNames)
    BY <1>3 DEF SlotsInv
  <2>2. TableSound(disk.slots, count, 1 .. disk.len, DiskNames')
    BY <2>1, <1>3, <1>7, SoundForNames
  <2>3. PICK k \in 0 .. count - 1 : Follows(disk.slots, count, Hash[Current], k, slot)
    BY <1>8
  <2>4. /\ s.id_plus_one = disk.len + 1 /\ s.hash = Hash[Current]
        /\ s.hash = Hash[DiskNames'[s.id_plus_one]]
    BY <1>7
  <2>5. \A id \in (1 .. disk.len) \cup {disk.len + 1} : Hash[DiskNames'[id]] \in Nat
    BY <1>3, <1>7, DiskNamed, StoreAssumption
  <2>6. \A h \in Nat, j \in 0 .. count - 1 : Probed(count, h, j) \in 0 .. count - 1
    <3>1. count \in Nat \ {0}
      BY <1>3
    <3> HIDE DEF count
    <3> QED  BY <3>1, ProbedRange
  <2>7. /\ DOMAIN disk.slots = 0 .. count - 1 /\ 1 .. disk.len \in SUBSET (Nat \ {0})
        /\ disk.len + 1 \in Nat \ {0} /\ disk.len + 1 \notin 1 .. disk.len
        /\ count \in Nat
    BY <1>3 DEF SlotsInv
  <2> HIDE DEF s, count
  <2>8. TableSound([disk.slots EXCEPT ![slot] = s], count,
                   (1 .. disk.len) \cup {s.id_plus_one}, DiskNames')
    BY <1>8, <2>2, <2>3, <2>4, <2>5, <2>6, <2>7, PlacedSound
  <2>9. (1 .. disk.len) \cup {disk.len + 1} = 1 .. disk.len + 1
    BY <1>3
  <2> QED  BY <2>4, <2>8, <2>9, <1>4
<1>11. SlotsInv'
  <2>1. (disk.len + 1) * 10 <= count * 7
    BY <1>1, <1>3 DEF SlotsInv, NeedsGrowth, MAX_LOAD_NUMERATOR, MAX_LOAD_DENOMINATOR
  <2>2. DOMAIN disk'.slots = 0 .. count - 1
    BY <1>3, <1>4 DEF SlotsInv
  <2>3. disk'.len * MAX_LOAD_DENOMINATOR <= disk'.slot_count * MAX_LOAD_NUMERATOR
    BY <2>1, <1>4 DEF MAX_LOAD_NUMERATOR, MAX_LOAD_DENOMINATOR
  <2>4. pc' \in {"idle", "migrate"}
    BY <1>1, <1>3
  <2> QED  BY <2>2, <2>3, <2>4, <1>3, <1>4, <1>10 DEF SlotsInv
<1>12. MemoryInv' /\ ControlInv' /\ FoundInv' /\ GrowingInv'
  BY <1>1, <1>3 DEF MemoryInv, ControlInv, FoundInv, GrowingInv, DiskSteps
<1>13. LastInv'
  <2> SUFFICES ASSUME last_resolved # Failed PROVE LastInv'
    BY <1>1 DEF LastInv
  <2>1. last_resolved[1] \in 0 .. disk.len - 1
    BY <1>3 DEF LastInv
  <2>2. PICK i \in 1 .. disk.len : i - 1 = last_resolved[1]
    BY <2>1, <1>3, IdBelow
  <2>3. OnDisk(disk', i - 1) = OnDisk(disk, i - 1)
    BY <1>3, <1>6, DiskNamed
  <2>4. last_resolved[1] \in 0 .. disk'.len - 1
    BY <2>1, <1>3, <1>4
  <2> QED  BY <2>2, <2>3, <2>4, <1>1, <1>3 DEF LastInv
<1>14. MovingInv'
  <2> SUFFICES ASSUME ~ spilled PROVE MovingInv'
    BY <1>1 DEF MovingInv
  <2>1. /\ disk.len < Len(memory.names) /\ Len(memory.names) \in Nat
        /\ Current = memory.names[disk.len + 1]
    BY <1>1, <1>3 DEF MovingInv, MemoryInv, Current
  <2>2. \A i \in 1 .. disk.len + 1 : DiskNames'[i] = memory.names[i]
    BY <1>3, <1>7, <2>1 DEF MovingInv
  <2> QED  BY <2>1, <2>2, <1>1, <1>3, <1>4 DEF MovingInv
<1>15. DiskNames' = Append(DiskNames, Current)
  <2>1. DiskNames' = [i \in 1 .. disk.len + 1 |-> DiskNames'[i]]
    BY <1>4 DEF DiskNames
  <2>2. DiskNames \in Seq(Tuples) /\ Len(DiskNames) = disk.len
    BY <1>3, DiskNamed
  <2> DEFINE more == Append(DiskNames, Current)
  <2>3. /\ more \in Seq(Tuples) /\ Len(more) = disk.len + 1
        /\ more[disk.len + 1] = Current
        /\ \A i \in 1 .. disk.len : more[i] = DiskNames[i]
    BY <2>2, <1>3
  <2> HIDE DEF more
  <2>4. more = [i \in 1 .. disk.len + 1 |-> more[i]]
    BY <2>3, <1>3
  <2>5. \A i \in 1 .. disk.len + 1 : more[i] = DiskNames'[i]
    <3> TAKE i \in 1 .. disk.len + 1
    <3>1. i = disk.len + 1 \/ i \in 1 .. disk.len
      BY <1>3
    <3> QED  BY <3>1, <2>3, <1>7
  <2>6. DiskNames' = more
    BY <2>1, <2>4, <2>5
  <2> QED  BY <2>6 DEF more
<1> QED  BY <1>9, <1>11, <1>12, <1>13, <1>14, <1>15 DEF Inv

LEMMA InvNext == Inv /\ [Next]_vars => Inv'
<1> SUFFICES ASSUME Inv, [Next]_vars PROVE Inv'
  OBVIOUS
<1>1. ASSUME NEW t \in Tuples, Intern(t) PROVE Inv'
  BY <1>1, MemoryInternInv, InternDiskInv DEF Intern
<1>2. CASE Refused \/ \E id \in Ids : Resolve(id)
  BY <1>2, ResolveInv
<1>3. CASE Continue
  <2>1. CASE Spill
    BY <2>1, SpillInv
  <2>2. CASE Migrate \/ Switch
    BY <2>2, MigrateInv
  <2>3. CASE LookupFound
    BY <2>3, LookupFoundInv
  <2>4. CASE LookupVacant
    BY <2>4, LookupVacantInv
  <2>5. CASE GrowSlots
    BY <2>5, GrowSlotsInv
  <2>6. CASE CopySlot
    BY <2>6, CopySlotInv
  <2>7. CASE ExchangeSlots
    BY <2>7, ExchangeSlotsInv
  <2>8. CASE RemoveOldSlots
    BY <2>8, RemoveOldSlotsInv
  <2>9. CASE AppendOffset
    BY <2>9, AppendOffsetInv
  <2>10. CASE AppendTuple
    BY <2>10, AppendTupleInv
  <2>11. CASE WriteSlot
    BY <2>11, WriteSlotInv
  <2>12. CASE DiskExhausted
    BY <2>12, FailKeeps DEF DiskExhausted
  <2>13. CASE DiskFails
    BY <2>13, FailKeeps DEF DiskFails, DiskSteps
  <2> QED  BY <1>3, <2>1, <2>2, <2>3, <2>4, <2>5, <2>6, <2>7, <2>8, <2>9, <2>10, <2>11,
              <2>12, <2>13 DEF Continue
<1>4. CASE UNCHANGED vars
  <2>1. DiskNames' = DiskNames /\ Current' = Current
    BY <1>4 DEF vars, files, call, DiskNames, Current, OnDisk
  <2>2. /\ MemoryInv' = MemoryInv /\ ControlInv' = ControlInv /\ LastInv' = LastInv
        /\ OnFiles' = OnFiles
    BY <1>4 DEF vars, files, call, MemoryInv, ControlInv, LastInv, OnFiles, OnDisk
  <2>3. /\ RecordsInv' = RecordsInv /\ SlotsInv' = SlotsInv /\ FoundInv' = FoundInv
        /\ GrowingInv' = GrowingInv /\ MovingInv' = MovingInv
    BY <1>4, <2>1 DEF vars, files, call, RecordsInv, SlotsInv, FoundInv, GrowingInv,
                      MovingInv, NeedsGrowth
  <2> QED  BY <2>2, <2>3 DEF Inv
<1> QED  BY <1>1, <1>2, <1>3, <1>4 DEF Next

-----------------------------------------------------------------------------
(* The theorems.                                                           *)

\* The parts of the inductive invariant hold in every reachable state: the
\* resident maps have every tuple once; the files, while they are filled and
\* while they are used, have the tuples at the positions the offsets say, and a
\* slot for each, where its probe sequence finds it, in a table with vacant
\* slots left, even while the table is copied to a bigger one.
THEOREM InvHolds == Spec => []Inv
BY InvInit, InvNext, PTL DEF Spec

\* Between two calls of a healthy store on disk, lookup finds every tuple it
\* holds at the tuple's own slot and stops at a vacant slot for any other.
THEOREM ProbeSoundHolds == Spec => []ProbeSound
BY InvHolds, InvProbeSound, PTL

\* The store switches to disk with every tuple moved and no growth done.
THEOREM MigrationPresizedHolds == Spec => MigrationPresized
<1>1. Inv /\ [Next]_vars => [~ spilled /\ spilled' =>
                               /\ disk'.slot_generation = 0
                               /\ disk'.len = Len(memory.names)]_vars
  <2> SUFFICES ASSUME Inv, Next, ~ spilled, spilled'
               PROVE  disk'.slot_generation = 0 /\ disk'.len = Len(memory.names)
    OBVIOUS
  <2>1. Switch
    BY DEF Next, Intern, Resolve, Continue, Refused, InternKnown, InternNoRoom,
           InternOverAllocated, InternResident, InternExhausted, ReserveFails,
           InternDisk, ResolveCached, ResolveMemory, ResolveDisk, ResolveDiskFails,
           Spill, Migrate, LookupFound, LookupVacant, GrowSlots, CopySlot,
           ExchangeSlots, RemoveOldSlots, DiskExhausted, AppendOffset, AppendTuple,
           WriteSlot, DiskFails, Fail
  <2>2. OnFiles /\ disk' = disk /\ disk.len = Len(memory.names)
    BY <2>1 DEF Switch, Step, OnFiles, DiskSteps, files
  <2> QED  BY <2>2 DEF Inv, MovingInv
<1> QED  BY <1>1, InvHolds, PTL DEF Spec, MigrationPresized

\* A tuple is only kept in memory within the cap, with what the allocator
\* really took: no step but an accounted one makes the resident maps longer.
THEOREM ResidentWithinCapHolds == Spec => ResidentWithinCap
<1>1. Inv /\ [Next]_vars => [Len(memory'.names) > Len(memory.names)
                               => WithinCap(memory')]_vars
  <2> SUFFICES ASSUME Inv, Next, Len(memory'.names) > Len(memory.names)
               PROVE  WithinCap(memory')
    OBVIOUS
  <2>1. MemoryInv /\ memory.names \in Seq(Tuples) /\ Len(memory.names) \in Nat
    BY DEF Inv, MemoryInv
  <2>2. ~ UNCHANGED memory /\ memory' # NoTuples /\ memory' \notin Reserved
    BY <2>1, ReservedKeeps DEF NoTuples
  <2>3. memory' # [memory EXCEPT !.map_capacity = ReservedMap(memory)]
    BY <2>1 DEF MemoryInv
  <2>4. \E t \in Tuples : InternResident(t)
    BY <2>2, <2>3
       DEF Next, Intern, Resolve, Continue, Refused, InternKnown, InternNoRoom,
           InternOverAllocated, InternExhausted, ReserveFails,
           InternDisk, ResolveCached, ResolveMemory, ResolveDisk, ResolveDiskFails,
           Spill, Migrate, Switch, LookupFound, LookupVacant, GrowSlots, CopySlot,
           ExchangeSlots, RemoveOldSlots, DiskExhausted, AppendOffset, AppendTuple,
           WriteSlot, DiskFails, Fail
  <2>5. PICK t \in Tuples, m \in Reserved :
          WithinCap(m) /\ memory' = [m EXCEPT !.names = Append(@, t)] /\ cap' = cap
    BY <2>4 DEF InternResident
  <2>6. memory'.map_capacity = m.map_capacity /\ memory'.reverse_capacity = m.reverse_capacity
    BY <2>1, <2>5, ReservedKeeps
  <2> QED  BY <2>5, <2>6 DEF WithinCap
<1> QED  BY <1>1, InvHolds, PTL DEF Spec, ResidentWithinCap

\* A poisoned store stays so, leaves its files alone and answers nothing.
THEOREM PoisonIsFinalHolds == Spec => PoisonIsFinal
<1>1. Inv /\ [Next]_vars => [poisoned # "no" => /\ poisoned' = poisoned
                                              /\ disk' = disk
                                              /\ answer' = Failed]_vars
  <2> SUFFICES ASSUME Inv, Next, poisoned # "no"
               PROVE  poisoned' = poisoned /\ disk' = disk /\ answer' = Failed
    OBVIOUS
  <2>1. pc = "idle"
    BY DEF Inv, ControlInv
  <2>2. Refused
    BY <2>1 DEF Next, Intern, Resolve, Continue, InternKnown, InternNoRoom, RoomFor,
           InternOverAllocated, InternResident, InternExhausted, ReserveFails,
           InternDisk, ResolveCached, ResolveMemory, ResolveDisk, ResolveDiskFails,
           Called, Step, Looking, DiskSteps,
           Spill, Migrate, Switch, LookupFound, LookupVacant, GrowSlots, CopySlot,
           ExchangeSlots, RemoveOldSlots, DiskExhausted, AppendOffset, AppendTuple,
           WriteSlot, DiskFails
  <2> QED  BY <2>2 DEF Refused, Return, files
<1> QED  BY <1>1, InvHolds, PTL DEF Spec, PoisonIsFinal

-----------------------------------------------------------------------------
(* The refinement: each step is one of the state table, or changes neither *)
(* the table nor the answer.                                               *)

\* The names the store has, wherever they are, are distinct tuples.
LEMMA NamesFacts ==
    ASSUME Inv
    PROVE  /\ Names \in Seq(Tuples) /\ IsInjective(Names) /\ Len(Names) \in Nat
           /\ spilled => /\ RecordsInv /\ Names = DiskNames /\ Len(Names) = disk.len
                         /\ \A i \in 1 .. disk.len : Names[i] = OnDisk(disk, i - 1)
           /\ ~ spilled => Names = memory.names
<1>1. CASE spilled
  <2>1. RecordsInv /\ Names = DiskNames
    BY <1>1 DEF Inv, OnFiles, Names, DiskNames
  <2>2. IsInjective(DiskNames)
    BY <2>1 DEF RecordsInv
  <2> QED  BY <2>1, <2>2, <1>1, DiskNamed
<1>2. CASE ~ spilled
  BY <1>2 DEF Inv, MemoryInv, Names
<1> QED  BY <1>1, <1>2

\* The abstract table's operators are those of StateTable.
LEMMA SameTable ==
    /\ \A names : InternerI!TableOf(names) = TableOf(names)
    /\ \A tbl, t : /\ InternerI!FindId(tbl, t) = FindId(tbl, t)
                   /\ InternerI!Interned(tbl, t) = Interned(tbl, t)
    /\ \A tbl : InternerI!Allocated(tbl) = Allocated(tbl)
    /\ \A tbl, id : InternerI!FindTuple(tbl, id) = FindTuple(tbl, id)
<1>1. \A names : InternerI!TableOf(names) = TableOf(names)
  BY DEF InternerI!TableOf, TableOf, InternerI!IdIn, IdIn, InternerI!Vacant, Vacant
<1>2. \A tbl, t : /\ InternerI!FindId(tbl, t) = FindId(tbl, t)
                  /\ InternerI!Interned(tbl, t) = Interned(tbl, t)
  BY DEF InternerI!FindId, FindId, InternerI!Interned, Interned, InternerI!Vacant, Vacant
<1> QED  BY <1>1, <1>2 DEF InternerI!Allocated, Allocated, InternerI!FindTuple, FindTuple

\* A call fails.
LEMMA FailImplements ==
    ASSUME Names' = Names, answer' = Failed
    PROVE  InternerI!Next
BY DEF InternerI!Next, InternerI!Fail, InternerI!Failed, Failed

\* A call answers what the table has.
LEMMA AnswerImplements ==
    ASSUME Inv, NEW i \in 1 .. Len(Names), answer' = <<i - 1, Names[i]>>, Names' = Names
    PROVE  InternerI!Next
<1> DEFINE tbl == TableOf(Names)
<1>1. Names \in Seq(Tuples) /\ IsInjective(Names)
  BY NamesFacts
<1>2. tbl.id_to_tuple = Names
  BY <1>1, TableOfBijective
<1>3. i - 1 \in Allocated(tbl) /\ FindTuple(tbl, i - 1) = Names[i]
  <2>1. i - 1 \in 0 .. Len(Names) - 1 /\ i - 1 + 1 = i
    BY <1>1
  <2> HIDE DEF tbl
  <2> QED  BY <1>2, <2>1 DEF Allocated, FindTuple
<1>4. InternerI!Resolve(i - 1) /\ i - 1 \in InternerI!Allocated(TableOf(Names))
  BY <1>3, SameTable DEF InternerI!Resolve
<1> QED  BY <1>4 DEF InternerI!Next

\* A call gives a new tuple the next id.
LEMMA NewImplements ==
    ASSUME Inv, NEW t \in Tuples, \A i \in 1 .. Len(Names) : Names[i] # t,
           answer' = <<Len(Names), t>>, Names' = Append(Names, t)
    PROVE  InternerI!Next
<1>1. Names \in Seq(Tuples) /\ IsInjective(Names)
  BY NamesFacts
<1>2. /\ FindId(TableOf(Names), t) = Len(Names)
      /\ Interned(TableOf(Names), t) = TableOf(Append(Names, t))
  BY <1>1, TableOfAppend
<1>3. InternerI!Intern(t)
  BY <1>2, SameTable DEF InternerI!Intern
<1> QED  BY <1>3 DEF InternerI!Next

LEMMA InitImplements == Init => InternerI!Init
BY SameTable DEF Init, NoTuples, Names, Failed, InternerI!Init, InternerI!Failed

\* intern, in memory.
LEMMA MemoryInternImplements ==
    ASSUME Inv, NEW t \in Tuples,
           InternKnown(t) \/ InternNoRoom(t) \/ InternOverAllocated(t)
             \/ InternResident(t) \/ InternExhausted(t) \/ ReserveFails(t)
    PROVE  [InternerI!Next]_(InternerI!vars)
<1>1. ~ spilled /\ spilled' = spilled /\ Names = memory.names /\ Names' = memory'.names
  BY DEF InternKnown, InternNoRoom, InternOverAllocated, InternResident,
         InternExhausted, ReserveFails, RoomFor, Called, Names
<1>2. MemoryInv
  BY DEF Inv
<1>3. CASE InternKnown(t)
  <2>1. PICK i \in DOMAIN memory.names : memory.names[i] = t /\ answer' = <<i - 1, t>>
    BY <1>3 DEF InternKnown, Return
  <2>2. i \in 1 .. Len(Names) /\ answer' = <<i - 1, Names[i]>> /\ Names' = Names
    BY <2>1, <1>1, <1>2, <1>3 DEF MemoryInv, InternKnown
  <2> QED  BY <2>2, AnswerImplements
<1>4. CASE InternNoRoom(t) \/ InternOverAllocated(t)
  <2>1. answer' = answer /\ Names' = Names
    BY <1>1, <1>2, <1>4, ReservedKeeps DEF InternNoRoom, InternOverAllocated, ToSpill
  <2> QED  BY <2>1 DEF InternerI!vars
<1>5. CASE InternExhausted(t) \/ ReserveFails(t)
  <2>1. answer' = Failed
    BY <1>5 DEF InternExhausted, ReserveFails, Return
  <2>2. Names' = Names
    BY <1>1, <1>2, <1>5, ReservedKeeps DEF InternExhausted, ReserveFails, MemoryInv
  <2> QED  BY <2>1, <2>2, FailImplements
<1>6. CASE InternResident(t)
  <2>1. PICK m \in Reserved : memory' = [m EXCEPT !.names = Append(@, t)]
    BY <1>6 DEF InternResident
  <2>2. Names' = Append(Names, t)
    <3>1. /\ m \in [names : Seq(Tuples), map_capacity : Nat, reverse_capacity : Nat]
          /\ m.names = memory.names
      BY <1>2, ReservedKeeps
    <3> QED  BY <2>1, <3>1, <1>1
  <2>3. answer' = <<Len(Names), t>> /\ t \notin Range(Names)
    BY <1>1, <1>6 DEF InternResident, RoomFor, Resident, Return
  <2>4. \A i \in 1 .. Len(Names) : Names[i] # t
    BY <2>3, <1>1, <1>2 DEF Range, MemoryInv
  <2> QED  BY <2>2, <2>3, <2>4, NewImplements
<1> QED  BY <1>3, <1>4, <1>5, <1>6

\* A call on a poisoned store, and resolve.
LEMMA ResolveImplements ==
    ASSUME Inv, Refused \/ \E id \in Ids : Resolve(id)
    PROVE  [InternerI!Next]_(InternerI!vars)
<1>1. UNCHANGED <<spilled, memory, disk>> /\ MemoryInv /\ LastInv
  BY DEF Inv, Refused, Resolve, ResolveCached, ResolveMemory, ResolveDisk,
         ResolveDiskFails, files
<1>2. Names' = Names
  BY <1>1 DEF Names, OnDisk
<1>3. CASE Refused
  BY <1>2, <1>3, FailImplements DEF Refused, Return
<1>4. ASSUME NEW id \in Ids, Resolve(id) PROVE [InternerI!Next]_(InternerI!vars)
  <2>1. id \in Nat
    BY DEF Ids
  <2>2. ASSUME spilled, NEW x \in 0 .. disk.len - 1, answer' = <<x, OnDisk(disk, x)>>
        PROVE  InternerI!Next
    <3>1. PICK i \in 1 .. disk.len : i - 1 = x
      BY <2>2, NamesFacts, DiskNamed, IdBelow
    <3>2. i \in 1 .. Len(Names) /\ Names[i] = OnDisk(disk, i - 1)
      BY <2>2, NamesFacts
    <3>3. answer' = <<i - 1, Names[i]>>
      BY <2>2, <3>1, <3>2
    <3> QED  BY <3>2, <3>3, <1>2, AnswerImplements
  <2>3. CASE ResolveCached(id)
    BY <2>2, <2>3, <1>1 DEF ResolveCached, Cached, LastInv, Return
  <2>4. CASE ResolveDisk(id)
    <3>1. spilled /\ id < disk.len /\ answer' = <<id, OnDisk(disk, id)>>
      BY <2>4 DEF ResolveDisk, Return
    <3>2. id \in 0 .. disk.len - 1
      BY <2>1, <3>1, NamesFacts, DiskNamed
    <3> QED  BY <2>2, <3>1, <3>2
  <2>5. CASE ResolveMemory(id)
    <3>1. Names = memory.names /\ memory.names \in Seq(Tuples)
      BY <2>5, <1>1 DEF ResolveMemory, Names, MemoryInv
    <3>2. CASE id < Len(memory.names)
      <4>1. /\ id + 1 \in 1 .. Len(Names) /\ id + 1 - 1 = id
            /\ answer' = <<id, Names[id + 1]>>
        BY <2>1, <2>5, <3>1, <3>2 DEF ResolveMemory, Return
      <4>2. answer' = <<id + 1 - 1, Names[id + 1]>>
        BY <4>1
      <4> QED  BY <4>1, <4>2, <1>2, AnswerImplements
    <3>3. CASE ~ (id < Len(memory.names))
      BY <2>5, <3>3, <1>2, FailImplements DEF ResolveMemory, Return
    <3> QED  BY <3>2, <3>3
  <2>6. CASE ResolveDiskFails(id)
    BY <2>6, <1>2, FailImplements DEF ResolveDiskFails, Poison, Return
  <2> QED  BY <1>4, <2>3, <2>4, <2>5, <2>6 DEF Resolve
<1> QED  BY <1>3, <1>4

\* A file operation fails: the tuples are where they were.
LEMMA FailedImplements ==
    ASSUME Inv, NEW why, Fail(why)
    PROVE  InternerI!Next
<1>1. /\ UNCHANGED <<memory, spilled>> /\ answer' = Failed
      /\ spilled => disk' = disk
  BY DEF Fail, Poison, Return
<1>2. Names' = Names
  BY <1>1 DEF Names, OnDisk
<1> QED  BY <1>1, <1>2, FailImplements

\* The steps on the files.
LEMMA ContinueImplements ==
    ASSUME Inv, Continue
    PROVE  [InternerI!Next]_(InternerI!vars)
<1>1. ASSUME answer' = answer, Names' = Names PROVE [InternerI!Next]_(InternerI!vars)
  BY <1>1 DEF InternerI!vars
<1>2. CASE Migrate \/ GrowSlots \/ CopySlot \/ RemoveOldSlots \/ LookupVacant
  <2>1. UNCHANGED <<memory, spilled, disk, answer>>
    BY <1>2 DEF Migrate, GrowSlots, CopySlot, RemoveOldSlots, LookupVacant, Step, files
  <2>2. Names' = Names
    BY <2>1 DEF Names, OnDisk
  <2> QED  BY <1>1, <2>1, <2>2
<1>3. CASE Spill
  <2>1. pc = "spill" /\ UNCHANGED <<memory, spilled, answer>>
    BY <1>3 DEF Spill, Step
  <2>2. ~ spilled
    BY <2>1 DEF Inv, ControlInv
  <2> QED  BY <1>1, <2>1, <2>2 DEF Names
<1>4. CASE Switch
  <2>1. /\ pc = "migrate" /\ spilled' /\ disk' = disk /\ answer' = answer
        /\ disk.len = Len(memory.names)
    BY <1>4 DEF Switch, Step, files
  <2>2. ~ spilled /\ MovingInv /\ MemoryInv /\ RecordsInv
    BY <2>1 DEF Inv, ControlInv, OnFiles, DiskSteps
  <2>3. Names' = DiskNames /\ Names = memory.names
    BY <2>1, <2>2 DEF Names, DiskNames, OnDisk
  <2>4. \A i \in 1 .. disk.len : DiskNames[i] = memory.names[i]
    BY <2>2 DEF MovingInv
  <2>5. /\ DiskNames = [i \in 1 .. disk.len |-> DiskNames[i]]
        /\ memory.names = [i \in 1 .. disk.len |-> memory.names[i]]
    BY <2>1, <2>2 DEF DiskNames, MemoryInv
  <2>6. DiskNames = memory.names
    BY <2>4, <2>5
  <2> QED  BY <1>1, <2>1, <2>3, <2>6
<1>5. CASE ExchangeSlots \/ AppendOffset \/ AppendTuple
  <2>1. UNCHANGED <<memory, spilled, answer>>
    BY <1>5 DEF ExchangeSlots, AppendOffset, AppendTuple, Step
  <2>2. DiskNames' = DiskNames
    BY <1>5, ExchangeSlotsInv, AppendOffsetInv, AppendTupleInv
  <2>3. Names' = Names
    BY <2>1, <2>2 DEF Names, DiskNames
  <2> QED  BY <1>1, <2>1, <2>3
<1>6. CASE WriteSlot
  <2>1. /\ pc = "write_slot" /\ UNCHANGED <<memory, spilled>>
        /\ spilled => answer' = <<disk.len, tuple>>
        /\ ~ spilled => answer' = answer
    BY <1>6 DEF WriteSlot, Return
  <2>2. CASE ~ spilled
    BY <1>1, <2>1, <2>2 DEF Names
  <2>3. CASE spilled
    <3>1. Current = tuple /\ Current \in Tuples /\ FoundInv
      BY <2>1, <2>3, OnFilesFacts DEF Current, DiskSteps
    <3>2. Names' = Append(Names, tuple)
      BY <1>6, <2>1, <2>3, <3>1, WriteSlotInv DEF Names, DiskNames
    <3>3. Len(Names) = disk.len /\ Names = DiskNames
      BY <2>3, NamesFacts
    <3>4. \A i \in 1 .. Len(Names) : Names[i] # tuple
      BY <2>1, <3>1, <3>3 DEF FoundInv
    <3> QED  BY <2>1, <2>3, <3>1, <3>2, <3>3, <3>4, NewImplements
  <2> QED  BY <2>2, <2>3
<1>7. CASE LookupFound
  <2>1. PICK k \in 0 .. disk.slot_count - 1 :
          /\ pc \in {"lookup", "lookup_again"} /\ FirstStop(disk, Current, k)
          /\ disk.slots[SlotAt(k)].id_plus_one # 0
          /\ IF spilled
             THEN /\ answer' = <<disk.slots[SlotAt(k)].id_plus_one - 1, tuple>>
                  /\ UNCHANGED <<memory, spilled, disk>>
             ELSE Fail("changed")
    BY <1>7 DEF LookupFound, Looking, Return, files
  <2>2. CASE spilled
    <3> DEFINE id == disk.slots[SlotAt(k)].id_plus_one
    <3>1. Current = tuple /\ Current \in Tuples /\ RecordsInv /\ SlotsInv
      BY <2>1, <2>2, OnFilesFacts DEF Current, DiskSteps
    <3>2. id \in 1 .. disk.len /\ DiskNames[id] = tuple
      BY <2>1, <3>1, LookupRight DEF SlotAt
    <3>3. Len(Names) = disk.len /\ Names = DiskNames
      BY <2>2, NamesFacts
    <3>4. Names' = Names
      BY <2>1, <2>2 DEF Names, OnDisk
    <3>5. answer' = <<id - 1, Names[id]>>
      BY <2>1, <2>2, <3>2, <3>3
    <3> HIDE DEF id
    <3> QED  BY <3>2, <3>3, <3>4, <3>5, AnswerImplements
  <2>3. CASE ~ spilled
    BY <2>1, <2>3, FailedImplements
  <2> QED  BY <2>2, <2>3
<1>8. CASE DiskExhausted \/ DiskFails
  BY <1>8, FailedImplements DEF DiskExhausted, DiskFails
<1> QED  BY <1>2, <1>3, <1>4, <1>5, <1>6, <1>7, <1>8 DEF Continue

LEMMA NextImplements == Inv /\ [Next]_vars => [InternerI!Next]_(InternerI!vars)
<1> SUFFICES ASSUME Inv, [Next]_vars PROVE [InternerI!Next]_(InternerI!vars)
  OBVIOUS
<1>1. ASSUME NEW t \in Tuples, Intern(t) PROVE [InternerI!Next]_(InternerI!vars)
  <2>1. CASE InternDisk(t)
    <3>1. UNCHANGED <<memory, spilled, disk, answer>>
      BY <2>1 DEF InternDisk, files
    <3>2. Names' = Names
      BY <3>1 DEF Names, OnDisk
    <3> QED  BY <3>1, <3>2 DEF InternerI!vars
  <2>2. CASE ~ InternDisk(t)
    BY <1>1, <2>2, MemoryInternImplements DEF Intern
  <2> QED  BY <2>1, <2>2
<1>2. CASE UNCHANGED vars
  <2>1. Names' = Names
    BY <1>2 DEF vars, files, Names, OnDisk
  <2> QED  BY <1>2, <2>1 DEF vars, InternerI!vars
<1> QED  BY <1>1, <1>2, ResolveImplements, ContinueImplements DEF Next

\* The store is a state table whose calls may fail: while the tuples are in
\* memory, on disk, and while they move or the table grows, every id it answers
\* is the one the tuple was first given, every tuple the one the id was given
\* for, and a call that fails half way changes nothing.
THEOREM ImplementsInternerHolds == Spec => ImplementsInterner
BY InvHolds, InitImplements, NextImplements, PTL
   DEF Spec, ImplementsInterner, InternerI!Spec

=============================================================================
