------------------------ MODULE CommitRecoveryProofs ------------------------
(***************************************************************************)
(* An application that uses 2-phase commits only never loses a commit,     *)
(* however many transactions it makes and wherever it crashes.  One lemma  *)
(* for every action of CommitRecovery shows that the action preserves the  *)
(* inductive invariant TwoPhaseInv; the header's slots and the images that *)
(* a crash can leave of them have lemmas of their own.                     *)
(***************************************************************************)
EXTENDS CommitRecovery, TLAPS

\* DatabaseHeader's constructors and updates yield headers: new(),
\* swap_primary_slot(), to_bytes() and pick_primary_for_repair() keep the type.
LEMMA HeaderTypes ==
  /\ NewHeader \in Header
  /\ ZeroHeader \in Header
  /\ \A h \in Header : /\ swap_primary_slot(h) \in Header
                       /\ to_bytes(h) \in Header
                       /\ pick_primary_for_repair(h) \in Header
<1> USE BoundsAssumption DEF None, Garbage, Header, Slot, Roots
<1>1. NewHeader \in Header
  BY DEF NewHeader, NewSlot
<1>2. ZeroHeader \in Header
  <2>1. [i \in {0, 1} |-> [id |-> 0, data |-> Garbage, sys |-> Garbage, ok |-> FALSE]]
          \in [{0, 1} -> Slot]
    OBVIOUS
  <2>2. QED
    BY <2>1 DEF ZeroHeader
<1>3. ASSUME NEW h \in Header PROVE swap_primary_slot(h) \in Header
  BY DEF swap_primary_slot
<1>4. ASSUME NEW h \in Header PROVE to_bytes(h) \in Header
  BY Zenon DEF to_bytes
<1>5. QED
  BY <1>1, <1>2, <1>3, <1>4 DEF pick_primary_for_repair

\* to_bytes() leaves a header alone, but for the checksums of broken slots.
LEMMA ToBytes ==
  ASSUME NEW h \in Header
  PROVE  /\ to_bytes(h).primary = h.primary
         /\ to_bytes(h).two_phase = h.two_phase
         /\ to_bytes(h).recovery = h.recovery
         /\ \A i \in {0, 1} : h.slot[i].ok => to_bytes(h).slot[i] = h.slot[i]
BY Zenon DEF to_bytes, Header, Slot

\* An empty file, before Database::create(), satisfies the invariant.
LEMMA InitInv == Init => TwoPhaseInv
<1> USE BoundsAssumption
<1> SUFFICES ASSUME Init PROVE TwoPhaseInv
  OBVIOUS
<1>1. TypeOK
  <2>1. astate \in [Roots -> Nat \cup {None}]
    BY DEF Init
  <2>2. txn \in Txns /\ job \in Jobs /\ durable \in Pair /\ trying \subseteq Pair
    BY DEF Init, Txns, Jobs, NoJob, Pair, Roots
  <2>3. intact \subseteq Roots /\ next_root \in 1..(MaxRoots + 1)
    BY DEF Init, Roots
  <2>4. QED
    BY <2>1, <2>2, <2>3, HeaderTypes, Zenon DEF Init, TypeOK
<1>2. QED
  BY <1>1 DEF Init, TwoPhaseInv, FileSafe, CreationSafe, MemorySafe, CommitSafe,
              TreesSafe

\* Writing the header of a new file without the magic number is safe: there is
\* nothing to recover yet.
LEMMA CreateFileInv ==
  ASSUME TwoPhaseOnly, TwoPhaseInv, CreateFile
  PROVE  TwoPhaseInv'
<1>1. TypeOK'
  BY HeaderTypes DEF TwoPhaseInv, CreateFile, TypeOK, Jobs, Job, history
<1>2. FileSafe'
  BY DEF TwoPhaseInv, CreateFile, FileSafe, CreationSafe, history
<1>3. CreationSafe'
  BY DEF TwoPhaseInv, CreateFile, CreationSafe, history
<1>4. MemorySafe'
  BY DEF TwoPhaseInv, CreateFile, MemorySafe, history
<1>5. CommitSafe'
  BY DEF TwoPhaseInv, CreateFile, CommitSafe, history
<1>6. TreesSafe'
  BY DEF TwoPhaseInv, CreateFile, TreesSafe, history, Sync, file
<1>7. QED
  BY <1>1, <1>2, <1>3, <1>4, <1>5, <1>6 DEF TwoPhaseInv

\* Flushing the new header makes both of its slots durable.
LEMMA CreateFlushInv ==
  ASSUME TwoPhaseOnly, TwoPhaseInv, CreateFlush
  PROVE  TwoPhaseInv'
<1>1. TypeOK'
  BY DEF TwoPhaseInv, CreateFlush, TypeOK, Sync, memory, history
<1>2. FileSafe'
  BY DEF TwoPhaseInv, CreateFlush, FileSafe, CreationSafe, TypeOK, memory, history
<1>3. CreationSafe'
  BY DEF TwoPhaseInv, CreateFlush, CreationSafe, Sync, memory, history
<1>4. MemorySafe'
  BY DEF TwoPhaseInv, CreateFlush, MemorySafe, memory
<1>5. CommitSafe'
  BY DEF TwoPhaseInv, CreateFlush, CommitSafe, memory
<1>6. TreesSafe'
  BY DEF TwoPhaseInv, CreateFlush, TreesSafe, memory, Sync, file
<1>7. QED
  BY <1>1, <1>2, <1>3, <1>4, <1>5, <1>6 DEF TwoPhaseInv

\* Once the magic number is written, both god bytes lead to the empty trees of
\* the new header.
LEMMA CreateMagicInv ==
  ASSUME TwoPhaseOnly, TwoPhaseInv, CreateMagic
  PROVE  TwoPhaseInv'
<1>1. TypeOK'
  BY DEF TwoPhaseInv, CreateMagic, TypeOK, history
<1>2. FileSafe'
  <2>1. /\ disk = NewHeader /\ buf = NewHeader /\ 0 \in intact
        /\ durable = [data |-> 0, sys |-> 0]
    BY DEF TwoPhaseInv, CreateMagic, CreationSafe, TypeOK
  <2>2. QED
    BY <2>1 DEF CreateMagic, FileSafe, SafeGod, NewHeader, NewSlot, Verifies, PairOf,
         history
<1>3. CreationSafe'
  BY DEF TwoPhaseInv, CreateMagic, CreationSafe, history
<1>4. MemorySafe'
  <2>1. disk = NewHeader /\ buf = NewHeader
    BY DEF TwoPhaseInv, CreateMagic, CreationSafe
  <2>2. QED
    BY <2>1 DEF CreateMagic, MemorySafe, SamePrimary, NewHeader
<1>5. CommitSafe'
  BY DEF TwoPhaseInv, CreateMagic, CommitSafe
<1>6. TreesSafe'
  BY DEF TwoPhaseInv, CreateMagic, TreesSafe, Sync, file
<1>7. QED
  BY <1>1, <1>2, <1>3, <1>4, <1>5, <1>6 DEF TwoPhaseInv

\* Opening a closed database writes nothing, and the header read has the
\* primary of the disk.
LEMMA OpenCleanInv ==
  ASSUME TwoPhaseOnly, TwoPhaseInv, OpenClean
  PROVE  TwoPhaseInv'
<1>1. TypeOK'
  BY HeaderTypes DEF TwoPhaseInv, OpenClean, TypeOK, file, Jobs, Job, history
<1>2. FileSafe'
  BY DEF TwoPhaseInv, OpenClean, FileSafe, SafeGod, file, history
<1>3. CreationSafe'
  BY DEF TwoPhaseInv, OpenClean, CreationSafe, file, history
<1>4. MemorySafe'
  <2>1. disk \in Header /\ SafeGod(disk)
    BY DEF TwoPhaseInv, OpenClean, TypeOK, FileSafe
  <2>2. header' = to_bytes(disk) /\ disk' = disk /\ pc' = "loaded"
    BY DEF OpenClean, file
  <2>3. SamePrimary(header', disk')
    BY <2>1, <2>2, ToBytes DEF SamePrimary, SafeGod, Header
  <2>4. buf' = disk'
    BY DEF TwoPhaseInv, OpenClean, file, MemorySafe
  <2>5. QED
    BY <2>2, <2>3, <2>4 DEF MemorySafe
<1>5. CommitSafe'
  BY DEF TwoPhaseInv, OpenClean, CommitSafe
<1>6. TreesSafe'
  BY DEF TwoPhaseInv, OpenClean, TreesSafe, Sync, file
<1>7. QED
  BY <1>1, <1>2, <1>3, <1>4, <1>5, <1>6 DEF TwoPhaseInv

\* pick_primary_for_repair() keeps the primary of a 2-phase commit, so
\* rewriting the header after a crash touches at most the other slot.
LEMMA OpenPickInv ==
  ASSUME TwoPhaseOnly, TwoPhaseInv, OpenPick
  PROVE  TwoPhaseInv'
<1>1. TypeOK'
  BY HeaderTypes, SMTT(30) DEF TwoPhaseInv, OpenPick, TypeOK, Jobs, Job, history
<1>2. FileSafe'
  <2>1. /\ disk \in Header /\ SafeGod(disk)
        /\ header' = to_bytes(disk) /\ buf' = header'
    BY DEF TwoPhaseInv, OpenPick, TypeOK, FileSafe, SafeGod, pick_primary_for_repair,
           PickSwaps
  <2>2. SamePrimary(header', disk)
    BY <2>1, ToBytes DEF SamePrimary, SafeGod, Header
  <2>3. QED
    BY <2>1, <2>2, Zenon DEF OpenPick, FileSafe, SafeGod, SamePrimary, Verifies,
         PairOf, history
<1>3. CreationSafe'
  BY DEF TwoPhaseInv, OpenPick, CreationSafe, history
<1>4. MemorySafe'
  <2>1. /\ disk \in Header /\ SafeGod(disk)
        /\ header' = to_bytes(disk) /\ buf' = header'
    BY DEF TwoPhaseInv, OpenPick, TypeOK, FileSafe, SafeGod, pick_primary_for_repair,
           PickSwaps
  <2>2. SamePrimary(header', disk)
    BY <2>1, ToBytes DEF SamePrimary, SafeGod, Header
  <2>3. QED
    BY <2>1, <2>2 DEF OpenPick, MemorySafe, SamePrimary
<1>5. CommitSafe'
  BY DEF TwoPhaseInv, OpenPick, CommitSafe
<1>6. TreesSafe'
  BY DEF TwoPhaseInv, OpenPick, TreesSafe, Sync, file
<1>7. QED
  BY <1>1, <1>2, <1>3, <1>4, <1>5, <1>6 DEF TwoPhaseInv

\* The flush after picking a primary leaves that primary durable.
LEMMA OpenPickFlushInv ==
  ASSUME TwoPhaseOnly, TwoPhaseInv, OpenPickFlush
  PROVE  TwoPhaseInv'
<1>1. TypeOK'
  BY SMTT(30) DEF TwoPhaseInv, OpenPickFlush, TypeOK, Sync, memory, history
<1>2. FileSafe'
  BY DEF TwoPhaseInv, OpenPickFlush, FileSafe, SafeGod, Sync, memory, history, Verifies
<1>3. CreationSafe'
  BY DEF TwoPhaseInv, OpenPickFlush, CreationSafe, Sync, memory, history
<1>4. MemorySafe'
  BY DEF TwoPhaseInv, OpenPickFlush, MemorySafe, SamePrimary, Sync, memory
<1>5. CommitSafe'
  BY DEF TwoPhaseInv, OpenPickFlush, CommitSafe, memory
<1>6. TreesSafe'
  BY DEF TwoPhaseInv, OpenPickFlush, TreesSafe, memory, Sync, file
<1>7. QED
  BY <1>1, <1>2, <1>3, <1>4, <1>5, <1>6 DEF TwoPhaseInv

\* load_allocator_state() changes flags in memory only.
LEMMA LoadAllocatorStateInv ==
  ASSUME TwoPhaseOnly, TwoPhaseInv, LoadAllocatorState
  PROVE  TwoPhaseInv'
<1>1. TypeOK'
  <2>1. header' \in Header
    BY Zenon DEF TwoPhaseInv, LoadAllocatorState, TypeOK, Header
  <2>2. QED
    BY <2>1, Zenon DEF TwoPhaseInv, LoadAllocatorState, TypeOK, file, history
<1>2. FileSafe'
  BY DEF TwoPhaseInv, LoadAllocatorState, FileSafe, SafeGod, file, history
<1>3. CreationSafe'
  BY DEF TwoPhaseInv, LoadAllocatorState, CreationSafe, file, history
<1>4. MemorySafe'
  BY DEF TwoPhaseInv, LoadAllocatorState, TypeOK, Header, MemorySafe, SamePrimary, file
<1>5. CommitSafe'
  BY DEF TwoPhaseInv, LoadAllocatorState, CommitSafe
<1>6. TreesSafe'
  BY DEF TwoPhaseInv, LoadAllocatorState, TreesSafe, Sync, file
<1>7. QED
  BY <1>1, <1>2, <1>3, <1>4, <1>5, <1>6 DEF TwoPhaseInv

\* do_repair() keeps the primary.
LEMMA RepairKeepsPrimary ==
  ASSUME TwoPhaseOnly, TwoPhaseInv, DoRepair
  PROVE  /\ header' = [header EXCEPT !.recovery = FALSE]
         /\ disk' = header' /\ buf' = header'
         /\ intact' = intact \cup written
         /\ SamePrimary(header', disk)
         /\ SafeGod(disk)
<1>1. header \in Header /\ SafeGod(disk) /\ SamePrimary(header, disk)
  BY DEF TwoPhaseInv, DoRepair, TypeOK, FileSafe, CreationSafe, MemorySafe
<1>2. PICK g \in RepairHeaders(header) : header' = [g EXCEPT !.recovery = FALSE]
  BY Zenon DEF DoRepair
<1>3. g = header
  BY <1>1, <1>2 DEF RepairHeaders, SamePrimary
<1>4. QED
  BY <1>1, <1>2, <1>3, Zenon DEF DoRepair, Sync, SamePrimary, Header

\* do_repair() flushes a header with the primary that it found.
LEMMA DoRepairInv ==
  ASSUME TwoPhaseOnly, TwoPhaseInv, DoRepair
  PROVE  TwoPhaseInv'
<1>1. TypeOK'
  <2>1. header' \in Header
    BY RepairKeepsPrimary, Zenon DEF TwoPhaseInv, TypeOK, Header
  <2>2. QED
    BY <2>1, Zenon DEF TwoPhaseInv, DoRepair, TypeOK, Sync, history
<1>2. FileSafe'
  <2>1. SafeGod(disk)'
    BY RepairKeepsPrimary, Zenon DEF DoRepair, SafeGod, SamePrimary, Verifies,
         PairOf, history
  <2>2. QED
    BY <2>1, RepairKeepsPrimary DEF FileSafe
<1>3. CreationSafe'
  BY DEF TwoPhaseInv, DoRepair, CreationSafe, TypeOK, Sync, history
<1>4. MemorySafe'
  BY RepairKeepsPrimary, Zenon DEF TwoPhaseInv, DoRepair, MemorySafe, SamePrimary
<1>5. CommitSafe'
  BY DEF TwoPhaseInv, DoRepair, CommitSafe
<1>6. TreesSafe'
  BY DEF TwoPhaseInv, DoRepair, TreesSafe, TypeOK, Sync, file
<1>7. QED
  BY <1>1, <1>2, <1>3, <1>4, <1>5, <1>6 DEF TwoPhaseInv

\* A repair that finds nothing to verify leaves the file alone.
LEMMA DoRepairFailsInv ==
  ASSUME TwoPhaseOnly, TwoPhaseInv, DoRepairFails
  PROVE  TwoPhaseInv'
<1>1. TypeOK'
  <2>1. CASE pc = "loaded"
    <3>1. Forget /\ UNCHANGED <<file, next_root, history>>
      BY <2>1 DEF DoRepairFails
    <3>2. QED
      BY <3>1, HeaderTypes, Zenon DEF TwoPhaseInv, TypeOK, Forget, file, history, Txns,
                               Jobs, NoJob
  <2>2. CASE pc # "loaded"
    BY <2>2 DEF TwoPhaseInv, DoRepairFails, TypeOK, file, memory, history
  <2>3. QED
    BY <2>1, <2>2
<1>2. FileSafe'
  BY DEF TwoPhaseInv, DoRepairFails, FileSafe, SafeGod, file, history
<1>3. CreationSafe'
  BY DEF TwoPhaseInv, DoRepairFails, CreationSafe, TypeOK, Forget, file, history
<1>4. MemorySafe'
  BY DEF TwoPhaseInv, DoRepairFails, MemorySafe, Forget, file
<1>5. CommitSafe'
  BY DEF TwoPhaseInv, DoRepairFails, CommitSafe, Forget
<1>6. TreesSafe'
  BY DEF TwoPhaseInv, DoRepairFails, TreesSafe, Forget, memory, TypeOK, Sync, file
<1>7. QED
  BY <1>1, <1>2, <1>3, <1>4, <1>5, <1>6 DEF TwoPhaseInv

\* A repair that the callback aborts leaves the file alone.
LEMMA AbortRepairInv ==
  ASSUME TwoPhaseOnly, TwoPhaseInv, AbortRepair
  PROVE  TwoPhaseInv'
<1>1. TypeOK'
  BY HeaderTypes, Zenon DEF TwoPhaseInv, AbortRepair, TypeOK, Forget, file, history,
       Txns, Jobs, NoJob
<1>2. FileSafe'
  BY DEF TwoPhaseInv, AbortRepair, FileSafe, SafeGod, file, history
<1>3. CreationSafe'
  BY DEF TwoPhaseInv, AbortRepair, CreationSafe, TypeOK, Forget, file, history
<1>4. MemorySafe'
  BY DEF TwoPhaseInv, AbortRepair, MemorySafe, Forget, file
<1>5. CommitSafe'
  BY DEF TwoPhaseInv, AbortRepair, CommitSafe, Forget
<1>6. TreesSafe'
  BY DEF TwoPhaseInv, AbortRepair, TreesSafe, Forget, Sync, file
<1>7. QED
  BY <1>1, <1>2, <1>3, <1>4, <1>5, <1>6 DEF TwoPhaseInv

\* Assigning to the secondary slot of a header leaves the rest alone.
LEMMA SecondarySlotMut ==
  ASSUME NEW h \in Header, NEW slot \in Slot
  PROVE  /\ secondary_slot_mut(h, slot) \in Header
         /\ secondary_slot_mut(h, slot).primary = h.primary
         /\ secondary_slot_mut(h, slot).two_phase = h.two_phase
         /\ primary_slot(secondary_slot_mut(h, slot)) = primary_slot(h)
         /\ secondary_slot(secondary_slot_mut(h, slot)) = slot
BY DEF secondary_slot_mut, primary_slot, secondary_slot, Header

\* A commit in two phases that starts from trees that are written.
LEMMA CommitStartSafe ==
  ASSUME TwoPhaseInv, content = "formatted", pc \in {"repaired", "open"},
         next_header'.primary = header.primary,
         next_header'.two_phase = header.two_phase,
         primary_slot(next_header') = primary_slot(header),
         secondary_slot(next_header').ok,
         Verifies(secondary_slot(next_header'), intact' \cup written'),
         PairOf(secondary_slot(next_header')) \in {durable'} \cup trying',
         buf' = next_header', pc' = "flush", job'.two_phase,
         content' = content, disk' = disk, intact' = intact, header' = header,
         durable' = durable, trying \subseteq trying'
  PROVE  FileSafe' /\ MemorySafe' /\ CommitSafe'
<1>1. /\ header \in Header /\ buf = disk
      /\ SafeGod(disk) /\ SamePrimary(header, disk)
  BY SMTT(30) DEF TwoPhaseInv, TypeOK, FileSafe, MemorySafe
<1>2. FileSafe'
  BY <1>1, Zenon DEF FileSafe, SafeGod, SamePrimary, Verifies, PairOf, primary_slot
<1>3. MemorySafe'
  BY <1>1 DEF MemorySafe, SamePrimary
<1>4. CommitSafe'
  BY <1>1 DEF CommitSafe, SamePrimary, secondary_slot, primary_slot, Verifies, PairOf
<1>5. QED
  BY <1>2, <1>3, <1>4

\* The commit after a repair installs the repaired roots, whose trees are
\* durable, in the slot that is not the primary.
LEMMA CommitRepairedInv ==
  ASSUME TwoPhaseOnly, TwoPhaseInv, CommitRepaired
  PROVE  TwoPhaseInv'
<1> DEFINE slot == primary_slot(header)
           new == [id |-> slot.id + 1, data |-> slot.data, sys |-> slot.sys,
                   ok |-> TRUE]
<1>a. /\ header \in Header /\ SafeGod(disk) /\ SamePrimary(header, disk)
      /\ content = "formatted" /\ read_from_secondary = FALSE
  BY DEF TwoPhaseInv, CommitRepaired, TypeOK, FileSafe, CreationSafe, MemorySafe,
       TreesSafe
<1>b. /\ slot \in Slot /\ {slot.data, slot.sys} \subseteq intact
      /\ PairOf(slot) \in {durable} \cup trying
  BY <1>a DEF primary_slot, Header, SafeGod, SamePrimary, Verifies
<1>c. new \in Slot
  BY <1>b DEF Slot
<1>d. /\ next_header' = secondary_slot_mut(header, new)
      /\ buf' = next_header' /\ pc' = "flush"
      /\ job' = [for |-> job.for, two_phase |-> TRUE]
  BY <1>a DEF CommitRepaired, Current, CommitStart
<1>e. job' \in Jobs /\ job'.for = job.for /\ job'.two_phase
  BY <1>d DEF TwoPhaseInv, TypeOK, Jobs
<1>f. /\ content' = content /\ disk' = disk /\ intact' = intact
      /\ header' = header /\ durable' = durable /\ trying' = trying
      /\ pc \in {"repaired", "open"}
  BY DEF CommitRepaired, history
<1>g. /\ new.ok /\ Verifies(new, intact' \cup written')
      /\ PairOf(new) \in {durable'} \cup trying'
  BY <1>b, <1>f DEF PairOf, Verifies
<1> HIDE DEF new
<1>h. /\ next_header' \in Header
      /\ next_header'.primary = header.primary
      /\ next_header'.two_phase = header.two_phase
      /\ primary_slot(next_header') = primary_slot(header)
      /\ secondary_slot(next_header') = new
  BY <1>a, <1>c, <1>d, SecondarySlotMut
<1>i. FileSafe' /\ MemorySafe' /\ CommitSafe'
  BY <1>a, <1>d, <1>e, <1>f, <1>g, <1>h, CommitStartSafe
<1>1. TypeOK'
  BY <1>d, <1>e, <1>h DEF TwoPhaseInv, CommitRepaired, TypeOK, history
<1>2. FileSafe'
  BY <1>i
<1>3. CreationSafe'
  BY <1>a, <1>d DEF TwoPhaseInv, CommitRepaired, CreationSafe, history
<1>4. MemorySafe'
  BY <1>i
<1>5. CommitSafe'
  BY <1>i
<1>6. TreesSafe'
  BY <1>a, <1>d DEF TwoPhaseInv, CommitRepaired, TreesSafe, Sync, file
<1>7. QED
  BY <1>1, <1>2, <1>3, <1>4, <1>5, <1>6 DEF TwoPhaseInv

\* begin_writable() flushes the header with the recovery flag set, and the
\* outcome of an interrupted commit is settled: it is the primary.
LEMMA BeginWritableInv ==
  ASSUME TwoPhaseOnly, TwoPhaseInv, BeginWritable
  PROVE  TwoPhaseInv'
<1>a. /\ header \in Header /\ SafeGod(disk) /\ SamePrimary(header, disk)
      /\ content = "formatted" /\ read_from_secondary = FALSE
  BY DEF TwoPhaseInv, BeginWritable, TypeOK, FileSafe, CreationSafe, MemorySafe,
       TreesSafe
<1>b. /\ header' = [header EXCEPT !.recovery = TRUE] /\ disk' = header'
      /\ buf' = header' /\ intact' = intact \cup written
  BY DEF BeginWritable, Sync
<1>c. header' \in Header /\ SamePrimary(header', disk)
  BY <1>a, <1>b, Zenon DEF Header, SamePrimary
<1>1. TypeOK'
  <2>1. durable' \in Pair /\ trying' \subseteq Pair /\ next_id' \in Nat
    <3>1. /\ primary_slot(header).id \in Nat
          /\ PairOf(primary_slot(header)) \in Pair
      BY <1>a DEF TwoPhaseInv, TypeOK, SafeGod, SamePrimary, primary_slot, PairOf,
                  Verifies, Pair, Header, Slot
    <3>2. QED
      BY <3>1 DEF TwoPhaseInv, BeginWritable, TypeOK, history
  <2>2. QED
    BY <1>b, <1>c, <2>1 DEF TwoPhaseInv, BeginWritable, TypeOK, Sync, Jobs, NoJob
<1>2. FileSafe'
  <2>1. PairOf(disk.slot[header.primary]) \in {durable'} \cup trying'
    BY <1>a DEF BeginWritable, SafeGod, SamePrimary, PairOf, primary_slot, history
  <2>2. QED
    BY <1>a, <1>b, <1>c, <2>1, SMTT(30) DEF FileSafe, SafeGod, SamePrimary, Verifies,
         PairOf
<1>3. CreationSafe'
  BY <1>a DEF TwoPhaseInv, BeginWritable, CreationSafe, Sync
<1>4. MemorySafe'
  BY <1>b, <1>c DEF BeginWritable, MemorySafe, SamePrimary
<1>5. CommitSafe'
  BY DEF BeginWritable, CommitSafe
<1>6. TreesSafe'
  <2>1. Verifies(Current(header), intact \cup written)'
    BY <1>a, <1>b, <1>c DEF BeginWritable, SafeGod, SamePrimary, Verifies, Current,
         primary_slot
  <2>2. \A root \in (intact \cup written \cup stale)' : root < next_root'
    BY DEF TwoPhaseInv, BeginWritable, TreesSafe, Sync
  <2>3. txn' = NoTxn
    BY DEF TwoPhaseInv, BeginWritable, TreesSafe
  <2>4. QED
    BY <1>a, <2>1, <2>2, <2>3 DEF BeginWritable, TreesSafe
<1>7. QED
  BY <1>1, <1>2, <1>3, <1>4, <1>5, <1>6 DEF TwoPhaseInv

\* begin_write() hands out a root that no slot names.
LEMMA BeginWriteInv ==
  ASSUME TwoPhaseOnly, TwoPhaseInv, BeginWrite
  PROVE  TwoPhaseInv'
<1>1. TypeOK'
  <2>1. txn' \in Txns /\ next_id' \in Nat /\ next_root' \in 1..(MaxRoots + 1)
    BY BoundsAssumption DEF TwoPhaseInv, BeginWrite, TypeOK, Txns, Roots
  <2>2. written' \subseteq Roots
    BY BoundsAssumption, SMTT(30) DEF TwoPhaseInv, BeginWrite, TypeOK, Roots
  <2>3. QED
    BY <2>1, <2>2 DEF TwoPhaseInv, BeginWrite, TypeOK, history
<1>2. FileSafe'
  BY DEF TwoPhaseInv, BeginWrite, FileSafe, SafeGod, history
<1>3. CreationSafe'
  BY DEF TwoPhaseInv, BeginWrite, CreationSafe, history
<1>4. MemorySafe'
  BY SMTT(30) DEF TwoPhaseInv, BeginWrite, MemorySafe, SamePrimary
<1>5. CommitSafe'
  BY DEF TwoPhaseInv, BeginWrite, CommitSafe
<1>6. TreesSafe'
  <2>1. \A root \in (intact \cup written \cup stale)' : root < next_root'
    BY BoundsAssumption DEF TwoPhaseInv, BeginWrite, TypeOK, Roots, TreesSafe
  <2>2. Verifies(Current(header), intact \cup written)'
    BY DEF TwoPhaseInv, BeginWrite, TreesSafe, Verifies, Current
  <2>3. next_root \notin {Current(header).data, Current(header).sys}
    BY DEF TwoPhaseInv, BeginWrite, TypeOK, TreesSafe, Verifies
  <2>4. QED
    BY <2>1, <2>2, <2>3 DEF BeginWrite, TreesSafe, Current
<1>7. QED
  BY <1>1, <1>2, <1>3, <1>4, <1>5, <1>6 DEF TwoPhaseInv

\* Writing to free pages destroys only trees that neither the primary nor the
\* current commit names.
LEMMA ReusePagesInv ==
  ASSUME NEW root \in Roots, TwoPhaseOnly, TwoPhaseInv, ReusePages(root)
  PROVE  TwoPhaseInv'
<1>1. TypeOK'
  BY SMTT(30) DEF TwoPhaseInv, ReusePages, TypeOK, memory, history
<1>2. FileSafe'
  <2>1. SafeGod(disk) /\ SamePrimary(header, disk) /\ buf = disk
    BY SMTT(30) DEF TwoPhaseInv, ReusePages, FileSafe, CreationSafe, MemorySafe
  <2>2. Verifies(disk.slot[disk.primary], intact')
    BY <2>1 DEF ReusePages, Pinned, SafeGod, SamePrimary, Verifies, primary_slot
  <2>3. QED
    BY <2>1, <2>2 DEF ReusePages, FileSafe, SafeGod, memory, history
<1>3. CreationSafe'
  BY DEF TwoPhaseInv, ReusePages, CreationSafe, Pinned, memory, history
<1>4. MemorySafe'
  BY SMTT(30) DEF TwoPhaseInv, ReusePages, MemorySafe, SamePrimary, memory
<1>5. CommitSafe'
  BY Zenon DEF TwoPhaseInv, ReusePages, CommitSafe, memory
<1>6. TreesSafe'
  <2>1. Verifies(Current(header), intact \cup written)'
    BY Zenon DEF TwoPhaseInv, ReusePages, TreesSafe, Verifies, Current, Pinned,
         memory
  <2>2. txn.root \in (intact \cup written)'
    BY DEF TwoPhaseInv, ReusePages, TreesSafe
  <2>3. QED
    BY <2>1, <2>2, Zenon DEF TwoPhaseInv, ReusePages, TreesSafe, Current, memory
<1>7. QED
  BY <1>1, <1>2, <1>3, <1>4, <1>5, <1>6 DEF TwoPhaseInv

\* durable_commit() writes the new slot over the secondary, never over the
\* primary.
LEMMA CommitDurableInv ==
  ASSUME NEW kind \in CommitKinds, TwoPhaseOnly, TwoPhaseInv, CommitDurable(kind)
  PROVE  TwoPhaseInv'
<1> DEFINE new == [id |-> txn.id, data |-> txn.root, sys |-> txn.root, ok |-> TRUE]
<1>a. /\ header \in Header /\ content = "formatted"
      /\ txn.id \in Nat /\ txn.root \in Roots /\ txn.root \in intact \cup written
  BY SMTT(30) DEF TwoPhaseInv, CommitDurable, TypeOK, CreationSafe, TreesSafe, Txns
<1>b. new \in Slot
  BY <1>a DEF Slot
<1>c. kind # "one_phase"
  BY SMTT(30) DEF TwoPhaseOnly
<1>d. /\ next_header' = secondary_slot_mut(header, new)
      /\ buf' = next_header' /\ pc' = "flush"
      /\ job' = [for |-> "user", two_phase |-> TRUE]
  BY <1>c, Zenon DEF CommitDurable, CommitStart
<1>e. job' \in Jobs /\ job'.two_phase
  BY <1>d DEF Jobs
<1>f. /\ content' = content /\ disk' = disk /\ intact' = intact
      /\ header' = header /\ durable' = durable /\ trying \subseteq trying'
      /\ pc \in {"repaired", "open"}
  BY DEF CommitDurable
<1>g. /\ new.ok /\ Verifies(new, intact' \cup written')
      /\ PairOf(new) \in {durable'} \cup trying'
  BY <1>a DEF CommitDurable, PairOf, Verifies
<1> HIDE DEF new
<1>h. /\ next_header' \in Header
      /\ next_header'.primary = header.primary
      /\ next_header'.two_phase = header.two_phase
      /\ primary_slot(next_header') = primary_slot(header)
      /\ secondary_slot(next_header') = new
  BY <1>a, <1>b, <1>d, SecondarySlotMut
<1>i. FileSafe' /\ MemorySafe' /\ CommitSafe'
  BY <1>a, <1>d, <1>e, <1>f, <1>g, <1>h, CommitStartSafe
<1>1. TypeOK'
  <2>1. astate' \in [Roots -> Nat \cup {None}] /\ trying' \subseteq Pair
    BY <1>a DEF TwoPhaseInv, CommitDurable, TypeOK, Pair
  <2>2. QED
    BY <1>d, <1>e, <1>h, <2>1, SMTT(30) DEF TwoPhaseInv, CommitDurable, TypeOK
<1>2. FileSafe'
  BY <1>i, SMTT(30)
<1>3. CreationSafe'
  BY <1>a, <1>d, <1>f DEF TwoPhaseInv, CommitDurable, CreationSafe
<1>4. MemorySafe'
  BY <1>i
<1>5. CommitSafe'
  BY <1>i, SMTT(30)
<1>6. TreesSafe'
  BY <1>d DEF TwoPhaseInv, CommitDurable, TreesSafe
<1>7. QED
  BY <1>1, <1>2, <1>3, <1>4, <1>5, <1>6, SMTT(30) DEF TwoPhaseInv

\* The first flush of a 2-phase commit makes the new slot and its trees durable
\* while the old primary is in force.
LEMMA CommitFlushInv ==
  ASSUME TwoPhaseOnly, TwoPhaseInv, CommitFlush
  PROVE  TwoPhaseInv'
<1>1. TypeOK'
  BY SMTT(30) DEF TwoPhaseInv, CommitFlush, TypeOK, Sync, memory, history
<1>2. FileSafe'
  BY Zenon DEF TwoPhaseInv, CommitFlush, FileSafe, Sync, memory, history,
       CreationSafe, MemorySafe, CommitSafe, SafeGod, SamePrimary, Verifies, PairOf
<1>3. CreationSafe'
  BY SMTT(30) DEF TwoPhaseInv, CommitFlush, CreationSafe, Sync, memory, history
<1>4. MemorySafe'
  BY Zenon DEF TwoPhaseInv, CommitFlush, MemorySafe, CommitSafe, SamePrimary,
       Sync, memory
<1>5. CommitSafe'
  BY DEF TwoPhaseInv, CommitFlush, MemorySafe, CommitSafe, SamePrimary,
       secondary_slot, Verifies, PairOf, Sync, memory, history
<1>6. TreesSafe'
  BY DEF TwoPhaseInv, CommitFlush, TreesSafe, Sync, memory
<1>7. QED
  BY <1>1, <1>2, <1>3, <1>4, <1>5, <1>6 DEF TwoPhaseInv

\* Writing the god byte is safe, because both of the slots that it can lead to
\* are durable.
LEMMA CommitSwapInv ==
  ASSUME TwoPhaseOnly, TwoPhaseInv, CommitSwap
  PROVE  TwoPhaseInv'
<1> DEFINE p == next_header.primary
<1>a. /\ next_header \in Header /\ disk = next_header /\ buf = next_header
      /\ SafeGod(disk) /\ job.two_phase = TRUE /\ content = "formatted"
      /\ secondary_slot(next_header).ok
      /\ Verifies(secondary_slot(next_header), intact)
      /\ PairOf(secondary_slot(next_header)) \in {durable} \cup trying
  BY DEF TwoPhaseInv, CommitSwap, TypeOK, Jobs, FileSafe, CreationSafe, MemorySafe,
       CommitSafe
<1>b. p \in {0, 1} /\ 1 - p \in {0, 1}
  BY <1>a DEF Header
<1>c. /\ next_header' \in Header /\ buf' = next_header'
      /\ next_header'.primary = 1 - p /\ next_header'.two_phase
      /\ next_header'.slot = next_header.slot
  BY <1>a, <1>b, Zenon DEF CommitSwap, swap_primary_slot, Header
<1>1. TypeOK'
  BY <1>c DEF TwoPhaseInv, CommitSwap, TypeOK, history
<1>2. FileSafe'
  BY <1>a, <1>c DEF CommitSwap, FileSafe, SafeGod, secondary_slot, Verifies, PairOf,
       history
<1>3. CreationSafe'
  BY <1>a DEF TwoPhaseInv, CommitSwap, CreationSafe, history
<1>4. MemorySafe'
  BY DEF CommitSwap, MemorySafe
<1>5. CommitSafe'
  BY <1>a, <1>c DEF CommitSwap, CommitSafe
<1>6. TreesSafe'
  BY DEF TwoPhaseInv, CommitSwap, TreesSafe
<1>7. QED
  BY <1>1, <1>2, <1>3, <1>4, <1>5, <1>6 DEF TwoPhaseInv

\* The second flush of a commit settles the god byte.
LEMMA CommitSyncInv ==
  ASSUME TwoPhaseOnly, TwoPhaseInv, CommitSync
  PROVE  TwoPhaseInv'
<1>1. TypeOK'
  BY DEF TwoPhaseInv, CommitSync, TypeOK, Sync, memory, history
<1>2. FileSafe'
  BY DEF TwoPhaseInv, CommitSync, FileSafe, SafeGod, Verifies, Sync, memory, history
<1>3. CreationSafe'
  BY DEF TwoPhaseInv, CommitSync, CreationSafe, Sync, memory, history
<1>4. MemorySafe'
  BY DEF TwoPhaseInv, CommitSync, MemorySafe, Sync, memory
<1>5. CommitSafe'
  BY DEF TwoPhaseInv, CommitSync, CommitSafe, Sync, memory
<1>6. TreesSafe'
  BY DEF TwoPhaseInv, CommitSync, TreesSafe, Sync, memory
<1>7. QED
  BY <1>1, <1>2, <1>3, <1>4, <1>5, <1>6 DEF TwoPhaseInv

\* Publishing a commit replaces the header in memory by the durable one.
LEMMA CommitPublishInv ==
  ASSUME TwoPhaseOnly, TwoPhaseInv, CommitPublish
  PROVE  TwoPhaseInv'
<1>a. /\ next_header \in Header /\ disk = next_header /\ buf = next_header
      /\ SafeGod(disk) /\ content = "formatted"
  BY SMTT(30) DEF TwoPhaseInv, CommitPublish, TypeOK, FileSafe, CreationSafe,
       MemorySafe, CommitSafe
<1>b. PairOf(primary_slot(next_header)) \in Pair
  BY <1>a DEF TwoPhaseInv, TypeOK, SafeGod, PairOf, primary_slot, Verifies, Pair
<1>c. /\ durable' \in Pair /\ trying' \subseteq Pair
      /\ PairOf(primary_slot(next_header)) \in {durable'} \cup trying'
  BY <1>a, <1>b DEF TwoPhaseInv, CommitPublish, TypeOK, SafeGod, primary_slot, history
<1>d. pc' \in {"open", "closing", "ready"}
  BY DEF CommitPublish
<1>e. SamePrimary(header, disk)'
  BY <1>a DEF CommitPublish, SafeGod, SamePrimary, file
<1>1. TypeOK'
  BY <1>a, <1>c, <1>d, Zenon DEF TwoPhaseInv, CommitPublish, TypeOK, Txns, Jobs,
       NoJob, file
<1>2. FileSafe'
  BY <1>a, <1>c DEF CommitPublish, FileSafe, SafeGod, primary_slot, file
<1>3. CreationSafe'
  BY <1>a, <1>d DEF TwoPhaseInv, CommitPublish, CreationSafe, file
<1>4. MemorySafe'
  BY <1>a, <1>d, <1>e DEF CommitPublish, MemorySafe, file
<1>5. CommitSafe'
  BY <1>d DEF CommitSafe
<1>6. TreesSafe'
  <2>1. Verifies(Current(header), intact \cup written)'
    BY <1>a, <1>e DEF CommitPublish, SafeGod, SamePrimary, Verifies, Current,
         primary_slot, file
  <2>2. QED
    BY <2>1 DEF TwoPhaseInv, CommitPublish, TreesSafe, file
<1>7. QED
  BY <1>1, <1>2, <1>3, <1>4, <1>5, <1>6 DEF TwoPhaseInv

\* non_durable_commit() replaces the secondary slot in memory only.
LEMMA CommitNonDurableInv ==
  ASSUME TwoPhaseOnly, TwoPhaseInv, CommitNonDurable
  PROVE  TwoPhaseInv'
<1> DEFINE new == [id |-> txn.id, data |-> txn.root, sys |-> txn.root, ok |-> TRUE]
<1>a. /\ header \in Header /\ SamePrimary(header, disk)
      /\ txn.id \in Nat /\ txn.root \in Roots /\ txn.root \in intact \cup written
      /\ Current(header).sys \in Roots
  BY DEF TwoPhaseInv, CommitNonDurable, TypeOK, MemorySafe, TreesSafe, Txns, Verifies
<1>b. new \in Slot
  BY <1>a DEF Slot
<1>c. header' = secondary_slot_mut(header, new)
  BY DEF CommitNonDurable
<1>d. Verifies(new, intact' \cup written')
  BY <1>a, SMTT(30) DEF CommitNonDurable, Verifies
<1> HIDE DEF new
<1>e. /\ header' \in Header
      /\ header'.primary = header.primary
      /\ header'.two_phase = header.two_phase
      /\ primary_slot(header') = primary_slot(header)
      /\ secondary_slot(header') = new
  BY <1>a, <1>b, <1>c, SecondarySlotMut, Zenon
<1>1. TypeOK'
  <2>1. astate' \in [Roots -> Nat \cup {None}]
    BY <1>a, Zenon DEF TwoPhaseInv, CommitNonDurable, TypeOK
  <2>2. QED
    BY <1>e, <2>1, Zenon DEF TwoPhaseInv, CommitNonDurable, TypeOK, Txns, history
<1>2. FileSafe'
  BY DEF TwoPhaseInv, CommitNonDurable, FileSafe, SafeGod, history
<1>3. CreationSafe'
  BY SMTT(30) DEF TwoPhaseInv, CommitNonDurable, CreationSafe, history
<1>4. MemorySafe'
  BY <1>a, <1>e, Zenon DEF TwoPhaseInv, CommitNonDurable, MemorySafe, SamePrimary,
       primary_slot
<1>5. CommitSafe'
  BY DEF TwoPhaseInv, CommitNonDurable, CommitSafe
<1>6. TreesSafe'
  <2>1. Current(header)' = new
    BY <1>e DEF CommitNonDurable, Current
  <2>2. QED
    BY <1>d, <2>1 DEF TwoPhaseInv, CommitNonDurable, TreesSafe
<1>7. QED
  BY <1>1, <1>2, <1>3, <1>4, <1>5, <1>6 DEF TwoPhaseInv

\* abort() drops the trees of the transaction, which no slot names.
LEMMA AbortInv ==
  ASSUME TwoPhaseOnly, TwoPhaseInv, Abort
  PROVE  TwoPhaseInv'
<1>1. TypeOK'
  BY SMTT(30) DEF TwoPhaseInv, Abort, TypeOK, Txns, history
<1>2. FileSafe'
  BY DEF TwoPhaseInv, Abort, FileSafe, SafeGod, history
<1>3. CreationSafe'
  BY DEF TwoPhaseInv, Abort, CreationSafe, history
<1>4. MemorySafe'
  BY SMTT(30) DEF TwoPhaseInv, Abort, MemorySafe, SamePrimary
<1>5. CommitSafe'
  BY Zenon DEF TwoPhaseInv, Abort, CommitSafe
<1>6. TreesSafe'
  BY SMTT(30) DEF TwoPhaseInv, Abort, TreesSafe, Current, Verifies
<1>7. QED
  BY <1>1, <1>2, <1>3, <1>4, <1>5, <1>6 DEF TwoPhaseInv

\* Closing commits the current data root with quick-repair, in two phases.
LEMMA CloseInv ==
  ASSUME TwoPhaseOnly, TwoPhaseInv, Close
  PROVE  TwoPhaseInv'
<1> DEFINE new == [id |-> next_id + 1, data |-> Current(header).data,
                   sys |-> next_root, ok |-> TRUE]
<1>a. /\ header \in Header /\ content = "formatted"
      /\ Current(header).data \in Roots
      /\ Current(header).data \in intact \cup written
      /\ next_root \in Roots /\ next_root + 1 \in 1..(MaxRoots + 1)
  <2>1. next_root \in Roots /\ next_root + 1 \in 1..(MaxRoots + 1)
    BY BoundsAssumption DEF TwoPhaseInv, Close, TypeOK, Roots
  <2>2. QED
    BY <2>1, Zenon DEF TwoPhaseInv, Close, TypeOK, CreationSafe, TreesSafe, Verifies
<1>b. new \in Slot /\ next_id + 1 \in Nat
  BY <1>a, SMTT(30) DEF Slot, TwoPhaseInv, TypeOK
<1>d. /\ next_header' = secondary_slot_mut(header, new)
      /\ buf' = next_header' /\ pc' = "flush"
      /\ job' = [for |-> "close", two_phase |-> TRUE]
  BY DEF Close, CommitStart
<1>e. job' \in Jobs /\ job'.two_phase
  BY <1>d DEF Jobs
<1>f. /\ content' = content /\ disk' = disk /\ intact' = intact
      /\ header' = header /\ durable' = durable /\ trying \subseteq trying'
      /\ pc \in {"repaired", "open"}
  BY SMTT(30) DEF Close
<1>g. /\ new.ok /\ Verifies(new, intact' \cup written')
      /\ PairOf(new) \in {durable'} \cup trying'
  BY <1>a DEF Close, PairOf, Verifies
<1> HIDE DEF new
<1>h. /\ next_header' \in Header
      /\ next_header'.primary = header.primary
      /\ next_header'.two_phase = header.two_phase
      /\ primary_slot(next_header') = primary_slot(header)
      /\ secondary_slot(next_header') = new
  BY <1>a, <1>b, <1>d, SecondarySlotMut, SMTT(30)
<1>i. FileSafe' /\ MemorySafe' /\ CommitSafe'
  BY <1>a, <1>d, <1>e, <1>f, <1>g, <1>h, CommitStartSafe, Zenon
<1>1. TypeOK'
  <2>1. astate' \in [Roots -> Nat \cup {None}] /\ written' \subseteq Roots
    BY <1>a, <1>b DEF TwoPhaseInv, Close, TypeOK
  <2>2. trying' \subseteq Pair
    <3>1. [data |-> Current(header).data, sys |-> next_root] \in Pair
      BY <1>a DEF Pair
    <3>2. trying \subseteq Pair
      BY DEF TwoPhaseInv, TypeOK
    <3>3. QED
      BY <3>1, <3>2 DEF Close
  <2>3. QED
    BY <1>a, <1>b, <1>d, <1>e, <1>h, <2>1, <2>2, Zenon DEF TwoPhaseInv, Close, TypeOK
<1>2. FileSafe'
  BY <1>i
<1>3. CreationSafe'
  BY <1>a, <1>d, <1>f, Zenon DEF TwoPhaseInv, Close, CreationSafe
<1>4. MemorySafe'
  BY <1>i
<1>5. CommitSafe'
  BY <1>i
<1>6. TreesSafe'
  <2>1. \A root \in (intact \cup written \cup stale)' : root < next_root'
    BY <1>a, SMTT(30) DEF TwoPhaseInv, Close, TypeOK, Roots, TreesSafe
  <2>2. QED
    BY <1>d, <2>1, Zenon DEF TwoPhaseInv, Close, TreesSafe
<1>7. QED
  BY <1>1, <1>2, <1>3, <1>4, <1>5, <1>6 DEF TwoPhaseInv

\* close() flushes the header with the recovery flag cleared, and keeps the
\* primary.
LEMMA CloseFinishInv ==
  ASSUME TwoPhaseOnly, TwoPhaseInv, CloseFinish
  PROVE  TwoPhaseInv'
<1> DEFINE h == [header EXCEPT !.recovery = FALSE]
<1>a. /\ header \in Header /\ SafeGod(disk) /\ SamePrimary(header, disk)
      /\ content = "formatted"
  BY DEF TwoPhaseInv, CloseFinish, TypeOK, FileSafe, CreationSafe, MemorySafe
<1>b. h \in Header /\ SamePrimary(h, disk)
  BY <1>a, Zenon DEF Header, SamePrimary
<1>c. disk' = h /\ buf' = h /\ intact' = intact \cup written
  BY DEF CloseFinish, Sync
<1> HIDE DEF h
<1>1. TypeOK'
  BY <1>b, <1>c, HeaderTypes, Zenon DEF TwoPhaseInv, CloseFinish, Sync, Forget,
       TypeOK, Txns, Jobs, NoJob, history
<1>2. FileSafe'
  BY <1>a, <1>b, <1>c DEF CloseFinish, FileSafe, SafeGod, SamePrimary, Verifies,
       PairOf, history
<1>3. CreationSafe'
  BY <1>a, <1>c DEF TwoPhaseInv, CloseFinish, Forget, CreationSafe
<1>4. MemorySafe'
  BY <1>c DEF CloseFinish, Forget, MemorySafe
<1>5. CommitSafe'
  BY DEF CloseFinish, Forget, CommitSafe
<1>6. TreesSafe'
  BY SMTT(30) DEF TwoPhaseInv, CloseFinish, TreesSafe, Sync, Forget
<1>7. QED
  BY <1>1, <1>2, <1>3, <1>4, <1>5, <1>6 DEF TwoPhaseInv

\* check_integrity() reads the header again, with the same primary.
LEMMA CheckIntegrityInv ==
  ASSUME TwoPhaseOnly, TwoPhaseInv, CheckIntegrity
  PROVE  TwoPhaseInv'
<1>a. /\ disk \in Header /\ SafeGod(disk) /\ content = "formatted"
      /\ read_from_secondary = FALSE
  BY SMTT(30) DEF TwoPhaseInv, TwoPhaseOnly, CheckIntegrity, TypeOK, FileSafe,
       CreationSafe
<1>b. header' = to_bytes(disk)
  BY <1>a, Zenon DEF CheckIntegrity, SafeGod, pick_primary_for_repair, PickSwaps
<1>c. header' \in Header /\ SamePrimary(header', disk)
  <2>1. header' \in Header
    BY <1>a, <1>b, HeaderTypes, SMTT(30)
  <2>2. SamePrimary(header', disk)
    BY <1>a, <1>b, ToBytes, SMTT(30) DEF SamePrimary, SafeGod, Header
  <2>3. QED
    BY <2>1, <2>2
<1>d. disk' = header' /\ buf' = header' /\ intact' = intact \cup written
  BY SMTT(30) DEF CheckIntegrity, Sync
<1>1. TypeOK'
  BY <1>c, <1>d, Zenon DEF TwoPhaseInv, CheckIntegrity, Sync, TypeOK, Jobs, Job,
       history
<1>2. FileSafe'
  BY <1>a, <1>c, <1>d, Zenon DEF CheckIntegrity, FileSafe, SafeGod, SamePrimary,
       Verifies, PairOf, history
<1>3. CreationSafe'
  BY <1>a, <1>d, SMTT(30) DEF TwoPhaseInv, CheckIntegrity, CreationSafe, history
<1>4. MemorySafe'
  BY <1>c, <1>d DEF CheckIntegrity, MemorySafe, SamePrimary
<1>5. CommitSafe'
  BY SMTT(30) DEF CheckIntegrity, CommitSafe
<1>6. TreesSafe'
  BY <1>a, SMTT(30) DEF TwoPhaseInv, CheckIntegrity, TreesSafe, Sync
<1>7. QED
  BY <1>1, <1>2, <1>3, <1>4, <1>5, <1>6 DEF TwoPhaseInv

\* After an I/O error the file is what it was.
LEMMA IoErrorInv ==
  ASSUME TwoPhaseOnly, TwoPhaseInv, IoError
  PROVE  TwoPhaseInv'
<1>1. TypeOK'
  <2>1. needs_recovery' \in BOOLEAN
    BY SMTT(30) DEF TwoPhaseInv, IoError, TypeOK
  <2>2. QED
    BY <2>1 DEF TwoPhaseInv, IoError, TypeOK, file, history
<1>2. FileSafe'
  BY DEF TwoPhaseInv, IoError, FileSafe, SafeGod, file, history
<1>3. CreationSafe'
  BY DEF TwoPhaseInv, IoError, CreationSafe, file, history
<1>4. MemorySafe'
  BY DEF IoError, MemorySafe
<1>5. CommitSafe'
  BY DEF IoError, CommitSafe
<1>6. TreesSafe'
  BY DEF TwoPhaseInv, IoError, TreesSafe, file
<1>7. QED
  BY <1>1, <1>2, <1>3, <1>4, <1>5, <1>6 DEF TwoPhaseInv

\* What a crash can make of a slot is a slot, and one that is not being written
\* stays as it is.
LEMMA SlotImage ==
  ASSUME NEW old \in Slot, NEW new \in Slot
  PROVE  /\ SlotImages(old, new) \subseteq Slot
         /\ old = new => SlotImages(old, new) = {old}
BY Zenon DEF SlotImages, Slot

\* What a crash can make of the header has the god byte of one of the two.
LEMMA HeaderImage ==
  ASSUME TypeOK, NEW h \in HeaderImages
  PROVE  /\ h \in Header
         /\ \E god \in {disk, buf} :
              /\ h.primary = god.primary /\ h.two_phase = god.two_phase
              /\ h.slot[0] \in SlotImages(disk.slot[0], buf.slot[0])
              /\ h.slot[1] \in SlotImages(disk.slot[1], buf.slot[1])
<1>1. PICK god \in {disk, buf},
           s0 \in SlotImages(disk.slot[0], buf.slot[0]),
           s1 \in SlotImages(disk.slot[1], buf.slot[1]) :
        h = [god EXCEPT !.slot = [i \in {0, 1} |-> IF i = 0 THEN s0 ELSE s1]]
  BY DEF HeaderImages
<1>2. god \in Header /\ s0 \in Slot /\ s1 \in Slot
  BY <1>1, SlotImage DEF TypeOK, Header
<1>3. /\ h.primary = god.primary /\ h.two_phase = god.two_phase
      /\ h.slot[0] = s0 /\ h.slot[1] = s1
  BY <1>1, <1>2 DEF Header
<1>4. h \in Header
  BY <1>1, <1>2 DEF Header
<1>5. QED
  BY <1>1, <1>3, <1>4

\* Whatever a crash does to the header, the primary of the god byte that it
\* leaves is a slot that is durable together with its trees.
LEMMA ImagePrimary ==
  ASSUME TypeOK, FileSafe, content = "formatted", NEW h \in HeaderImages
  PROVE  /\ h \in Header /\ h.two_phase
         /\ primary_slot(h).ok
         /\ Verifies(primary_slot(h), intact)
         /\ PairOf(primary_slot(h)) \in {durable} \cup trying
<1>1. PICK god \in {disk, buf} :
        /\ h \in Header
        /\ h.primary = god.primary /\ h.two_phase = god.two_phase
        /\ h.slot[0] \in SlotImages(disk.slot[0], buf.slot[0])
        /\ h.slot[1] \in SlotImages(disk.slot[1], buf.slot[1])
  BY HeaderImage
<1>2. SafeGod(god)
  BY <1>1, SMTT(30) DEF FileSafe
<1>3. h.primary \in {0, 1} /\ disk.slot[h.primary] \in Slot
  BY <1>1, SMTT(30) DEF TypeOK, Header
<1>4. SlotImages(disk.slot[h.primary], disk.slot[h.primary]) = {disk.slot[h.primary]}
  BY <1>3, SlotImage, SMTT(30)
<1>5. primary_slot(h) = disk.slot[god.primary]
  <2>1. buf.slot[h.primary] = disk.slot[h.primary]
    BY <1>1, <1>2, Zenon DEF SafeGod
  <2>2. h.slot[h.primary] \in SlotImages(disk.slot[h.primary], buf.slot[h.primary])
    <3>1. CASE h.primary = 0
      BY <1>1, <3>1
    <3>2. CASE h.primary = 1
      BY <1>1, <3>2
    <3>3. QED
      BY <1>3, <3>1, <3>2, SMTT(30)
  <2>3. QED
    BY <1>1, <1>4, <2>1, <2>2, Zenon DEF primary_slot
<1>6. QED
  BY <1>1, <1>2, <1>5 DEF SafeGod

\* Whatever a crash leaves of the unsynced writes satisfies the invariant.
LEMMA CrashInv ==
  ASSUME TwoPhaseOnly, TwoPhaseInv, Crash
  PROVE  TwoPhaseInv'
<1>a. /\ disk' \in Header /\ buf' = disk' /\ intact \subseteq intact'
      /\ intact' \subseteq intact \cup written \cup stale
  BY HeaderImage, SMTT(30) DEF TwoPhaseInv, Crash, TreeImages
<1>1. TypeOK'
  BY <1>a, HeaderTypes, Zenon DEF TwoPhaseInv, Crash, Forget, TypeOK, Txns, Jobs,
       NoJob, history
<1>2. FileSafe'
  <2>1. SUFFICES ASSUME content' = "formatted" PROVE SafeGod(disk)'
    BY <1>a DEF FileSafe, SafeGod
  <2>2. content = "formatted"
    BY <2>1, SMTT(30) DEF Crash
  <2>3. QED
    BY <1>a, <2>2, ImagePrimary DEF TwoPhaseInv, Crash, SafeGod, primary_slot, Verifies,
                                    history
<1>3. CreationSafe'
  BY <1>a DEF TwoPhaseInv, Crash, Forget, CreationSafe, history
<1>4. MemorySafe'
  BY <1>a DEF Crash, Forget, MemorySafe
<1>5. CommitSafe'
  BY SMTT(30) DEF Crash, Forget, CommitSafe
<1>6. TreesSafe'
  BY <1>a DEF TwoPhaseInv, Crash, Forget, TreesSafe
<1>7. QED
  BY <1>1, <1>2, <1>3, <1>4, <1>5, <1>6 DEF TwoPhaseInv

-----------------------------------------------------------------------------

\* Every step of the specification preserves the invariant.
LEMMA NextInv == TwoPhaseOnly /\ TwoPhaseInv /\ [Next]_vars => TwoPhaseInv'
<1> SUFFICES ASSUME TwoPhaseOnly, TwoPhaseInv, [Next]_vars PROVE TwoPhaseInv'
  OBVIOUS
<1>1. CASE Next
  BY <1>1, CreateFileInv, CreateFlushInv, CreateMagicInv, OpenCleanInv, OpenPickInv,
     OpenPickFlushInv, LoadAllocatorStateInv, DoRepairInv, DoRepairFailsInv,
     AbortRepairInv, CommitRepairedInv, BeginWritableInv, BeginWriteInv,
     ReusePagesInv, CommitDurableInv, CommitFlushInv, CommitSwapInv, CommitSyncInv,
     CommitPublishInv, CommitNonDurableInv, AbortInv, CloseInv, CloseFinishInv,
     CheckIntegrityInv, IoErrorInv, CrashInv, Zenon
     DEF Next
<1>2. CASE UNCHANGED vars
  <2> USE <1>2 DEF vars, file, memory, history
  <2>1. TypeOK'
    BY Zenon DEF TwoPhaseInv, TypeOK
  <2>2. FileSafe' /\ CreationSafe'
    BY Zenon DEF TwoPhaseInv, FileSafe, SafeGod, CreationSafe
  <2>3. MemorySafe' /\ CommitSafe'
    BY Zenon DEF TwoPhaseInv, MemorySafe, CommitSafe
  <2>4. TreesSafe'
    BY DEF TwoPhaseInv, TreesSafe, Current
  <2>5. QED
    BY <2>1, <2>2, <2>3, <2>4, SMTT(30) DEF TwoPhaseInv
<1>3. QED
  BY <1>1, <1>2

\* The invariant says that every crash is survived.
LEMMA InvCrashSafe == TwoPhaseInv => CrashSafe
<1> SUFFICES ASSUME TwoPhaseInv, content = "formatted",
                    NEW h \in HeaderImages, NEW trees \in TreeImages
             PROVE  Recovered(h, trees) \in {durable} \cup trying
  BY DEF CrashSafe
<1>1. /\ h.two_phase /\ primary_slot(h).ok /\ Verifies(primary_slot(h), intact)
      /\ PairOf(primary_slot(h)) \in {durable} \cup trying
  BY ImagePrimary DEF TwoPhaseInv
<1>2. ~PickFails(h) /\ pick_primary_for_repair(h) = h
  BY <1>1 DEF PickFails, pick_primary_for_repair, PickSwaps
<1>3. Verifies(primary_slot(h), trees)
  BY <1>1 DEF TreeImages, Verifies
<1>4. Recovered(h, trees) = PairOf(primary_slot(h))
  BY <1>2, <1>3 DEF Recovered
<1>5. QED
  BY <1>1, <1>4

\* Type correctness, for every number of roots and ids and every kind of header
\* write: with 2-phase commits only, header, file and memory keep their types
\* through commits, repairs, crashes and reopening.
THEOREM TypeCorrect == TwoPhaseOnly => (Spec => []TypeOK)
<1>1. Init => TwoPhaseInv
  BY InitInv
<1>2. TwoPhaseOnly /\ TwoPhaseInv /\ [Next]_vars => TwoPhaseInv'
  BY NextInv
<1>3. TwoPhaseInv => TypeOK
  BY DEF TwoPhaseInv
<1>4. QED
  <2> SUFFICES ASSUME TwoPhaseOnly PROVE Spec => []TypeOK
    OBVIOUS
  <2> QED BY <1>1, <1>2, <1>3, PTL DEF Spec

\* Crash safety of 2-phase and quick-repair commits, for every number of roots
\* and ids, with torn header writes, and with crashes at every point of a
\* commit, of a repair and of closing: the database opens again, with the last
\* durable commit or the one that was in progress.
THEOREM TwoPhaseCrashSafe == TwoPhaseOnly => (Spec => []CrashSafe)
<1>1. TwoPhaseOnly => (TwoPhaseInv /\ [Next]_vars => TwoPhaseInv')
  BY NextInv
<1>2. QED
  <2> SUFFICES ASSUME TwoPhaseOnly PROVE Spec => []CrashSafe
    OBVIOUS
  <2> QED BY <1>1, InitInv, InvCrashSafe, PTL DEF Spec
=============================================================================
