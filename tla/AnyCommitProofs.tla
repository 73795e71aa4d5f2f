-------------------------- MODULE AnyCommitProofs ---------------------------
(***************************************************************************)
(* An application that uses commits of any kind, 1-phase ones included,    *)
(* never loses a commit, whatever order the god byte and the slots of a    *)
(* header reach the disk in, and also when a slot is torn.  The invariant  *)
(* is weaker than TwoPhaseInv: the slot that a repair looks at first need  *)
(* not have complete trees, but then the other one has, and belongs to the *)
(* last durable commit.                                                    *)
(***************************************************************************)
EXTENDS CommitRecoveryProofs

\* The regime.  A 1-phase commit is one fsync: nothing orders the god byte after
\* the slots, and a slot may be torn.  What stays out is what does lose a commit:
\* a crash in the first 1-phase commit after a quick repair that rolled a commit
\* back, unless the god byte happens to be last; a crash while a torn header is
\* being repaired; and check_integrity() after a non-durable commit.
Survivable ==
  /\ ~CheckAfterNonDurable
  /\ HeaderWrites # "ordered" => "first_commit" \notin CrashDuring
  /\ HeaderWrites = "torn" => "repair" \notin CrashDuring

\* The commits that may be found after a crash, and the trees that may be there.
Outcomes == {durable} \cup trying
Maybe == intact \cup written \cup stale

\* A slot to fall back on, and one that does no harm when it is found.
Good(slot, trees, outcomes) == Verifies(slot, trees) /\ PairOf(slot) \in outcomes
Harmless(slot, maybe, outcomes) == Verifies(slot, maybe) => PairOf(slot) \in outcomes

\* What opening a file with header h looks at first.
Picked(h) == IF h.recovery THEN pick_primary_for_repair(h) ELSE h

\* A repair of p ends with one of the outcomes, whichever trees from trees to
\* maybe are there.
Repairs(p, trees, maybe, outcomes) ==
  \/ Good(primary_slot(p), trees, outcomes)
  \/ /\ ~p.two_phase
     /\ Harmless(primary_slot(p), maybe, outcomes)
     /\ Good(secondary_slot(p), trees, outcomes)

\* So does opening a file with header h.
Opens(h, trees, maybe, outcomes) ==
  /\ h.recovery => ~PickFails(h)
  /\ Repairs(Picked(h), trees, maybe, outcomes)

SlotsOk(h) == h.slot[0].ok /\ h.slot[1].ok

\* A repair keeps the primary of h.
Settled(h) == h.two_phase \/ secondary_slot(h).id < primary_slot(h).id

\* What a crash may leave of header d on disk when b was written over it: the god
\* byte of one of them, and slots of both or torn ones.
ImageOf(h, d, b) ==
  /\ GodByteOf(h) \in {GodByteOf(d), GodByteOf(b)}
  /\ HeaderWrites = "ordered" => GodByteOf(h) = GodByteOf(d) \/ h = b
  /\ \A i \in {0, 1} :
       \/ h.slot[i] \in {d.slot[i], b.slot[i]}
       \/ HeaderWrites = "torn" /\ d.slot[i] # b.slot[i] /\ ~h.slot[i].ok

\* Whatever a crash leaves of the header opens.
ImagesSafe ==
  content = "formatted" =>
    /\ HeaderWrites # "torn" => SlotsOk(disk) /\ SlotsOk(buf)
    /\ Interruptible =>
         \A h \in Header :
           ImageOf(h, disk, buf) => Opens(h, intact, Maybe, Outcomes)

\* While a header is at rest it is the one on disk, and has a primary to rely on.
AtRest ==
  /\ pc \in {"closed", "loaded", "checking", "repaired", "ready", "open",
             "closing", "publish"} => buf = disk
  /\ pc \in {"checking", "repaired", "open", "closing", "flush", "swap", "sync",
             "publish"} => SlotsOk(disk) /\ SlotsOk(buf)
  /\ pc \in {"checking", "repaired", "closing"} => header = disk
  /\ pc \in {"checking", "repaired", "ready", "open", "closing"} =>
       Good(primary_slot(header), intact, Outcomes)
  /\ pc \in {"checking", "ready", "open", "closing"} => Settled(disk)

\* Opening a file, repairing and checking it.
OpeningSafe ==
  /\ pc \in {"creating", "created", "picking", "loaded", "repaired"} => job.for = "open"
  /\ pc = "checking" => job.for = "check"
  /\ pc = "picking" => buf = header /\ SlotsOk(header)
  /\ pc \in {"picking", "loaded"} =>
       /\ Repairs(header, intact, Maybe, Outcomes)
       /\ HeaderWrites # "torn" => Picked(header) = header
  /\ pc = "loaded" => header = to_bytes(disk) /\ (disk.recovery => SlotsOk(disk))
  /\ pc = "repaired" => ~header.recovery
  /\ pc = "ready" =>
       /\ header = [to_bytes(disk) EXCEPT !.recovery = FALSE]
       /\ job.for = "open" => header.two_phase
  /\ pc \in {"checking", "ready"} /\ job.for # "open" => next_id >= primary_slot(header).id

\* An open database: non-durable commits change the secondary slot in memory.
UseSafe ==
  pc = "open" =>
    /\ GodByteOf(header) = GodByteOf(disk) /\ header.recovery
    /\ primary_slot(header) = primary_slot(disk)
    /\ ~read_from_secondary => header = disk
    /\ next_id >= primary_slot(header).id
    /\ txn # NoTxn =>
         /\ txn.id > primary_slot(header).id /\ txn.id <= next_id
         /\ txn.root # primary_slot(header).sys

\* A commit in progress: the new slot is younger than the old primary, which
\* stays as it is until the god byte of the new one is on disk.
Installs(new, old) ==
  /\ new.id > old.id
  /\ job.for = "user" => next_id >= new.id
  /\ Verifies(new, intact \cup written)
  /\ PairOf(new) \in Outcomes

InstallSafe ==
  /\ pc \in {"flush", "swap", "sync", "publish"} =>
       /\ buf = next_header
       /\ job.for \in {"open", "user", "close"}
       /\ next_header.recovery <=> job.for # "open"
       /\ job.for = "open" => job.two_phase
  /\ pc \in {"flush", "swap"} =>
       /\ GodByteOf(next_header) = GodByteOf(disk)
       /\ primary_slot(next_header) = primary_slot(disk)
       /\ Good(primary_slot(next_header), intact, Outcomes)
       /\ Installs(secondary_slot(next_header), primary_slot(next_header))
  /\ pc = "flush" => job.two_phase
  /\ pc = "swap" /\ job.two_phase =>
       disk = next_header /\ Verifies(secondary_slot(next_header), intact)
  /\ pc = "swap" /\ ~job.two_phase => Settled(disk)
  /\ pc \in {"sync", "publish"} =>
       /\ next_header.two_phase = job.two_phase
       /\ Installs(primary_slot(next_header), secondary_slot(next_header))
  /\ pc = "publish" => Verifies(primary_slot(next_header), intact)

\* The inductive invariant: whatever part of the header and of the trees has
\* reached the disk, opening looks first at a slot that is complete and current,
\* or falls back to one that is.
SurvivalInv ==
  /\ TypeOK /\ ImagesSafe /\ CreationSafe /\ AtRest /\ OpeningSafe /\ UseSafe
  /\ InstallSafe /\ TreesSafe

-----------------------------------------------------------------------------
(* Headers.                                                                *)

\* Swapping the slots, and clearing or setting the recovery flag, keeps the rest.
LEMMA HeaderUpdates ==
  ASSUME NEW h \in Header
  PROVE  /\ primary_slot(h) \in Slot /\ secondary_slot(h) \in Slot
         /\ primary_slot(swap_primary_slot(h)) = secondary_slot(h)
         /\ secondary_slot(swap_primary_slot(h)) = primary_slot(h)
         /\ swap_primary_slot(h) \in Header
         /\ swap_primary_slot(h).slot = h.slot
         /\ swap_primary_slot(h).recovery = h.recovery
         /\ swap_primary_slot(h).two_phase = h.two_phase
<1>1. h.primary \in {0, 1} /\ 1 - h.primary \in {0, 1} /\ 1 - (1 - h.primary) = h.primary
  BY DEF Header
<1>2. swap_primary_slot(h).primary = 1 - h.primary
  BY DEF swap_primary_slot, Header
<1>3. swap_primary_slot(h) \in Header
  BY HeaderTypes
<1>4. /\ swap_primary_slot(h).slot = h.slot
      /\ swap_primary_slot(h).recovery = h.recovery
      /\ swap_primary_slot(h).two_phase = h.two_phase
  BY DEF swap_primary_slot, Header
<1>5. QED
  BY <1>1, <1>2, <1>3, <1>4 DEF primary_slot, secondary_slot, Header

\* Setting or clearing the recovery flag keeps the rest.
LEMMA RecoveryFlag ==
  ASSUME NEW h \in Header, NEW b \in BOOLEAN, NEW g, g = [h EXCEPT !.recovery = b]
  PROVE  /\ g \in Header /\ g.recovery = b
         /\ g.primary = h.primary /\ g.two_phase = h.two_phase /\ g.slot = h.slot
         /\ primary_slot(g) = primary_slot(h)
         /\ secondary_slot(g) = secondary_slot(h)
         /\ SlotsOk(h) => SlotsOk(g)
         /\ Settled(h) => Settled(g)
<1>1. /\ g \in Header /\ g.recovery = b
      /\ g.primary = h.primary /\ g.two_phase = h.two_phase /\ g.slot = h.slot
  BY Zenon DEF Header
<1>2. QED
  BY <1>1, Zenon DEF primary_slot, secondary_slot, SlotsOk, Settled

\* to_bytes() makes every slot valid and keeps what it says, so a header whose
\* slots are valid stays as it is.
LEMMA ToBytesSlots ==
  ASSUME NEW h \in Header
  PROVE  /\ to_bytes(h) \in Header /\ SlotsOk(to_bytes(h))
         /\ to_bytes(h).primary = h.primary /\ to_bytes(h).two_phase = h.two_phase
         /\ to_bytes(h).recovery = h.recovery
         /\ \A i \in {0, 1} : /\ to_bytes(h).slot[i].id = h.slot[i].id
                              /\ to_bytes(h).slot[i].data = h.slot[i].data
                              /\ to_bytes(h).slot[i].sys = h.slot[i].sys
         /\ SlotsOk(h) => to_bytes(h) = h
<1>1. /\ to_bytes(h) \in Header
      /\ to_bytes(h).primary = h.primary /\ to_bytes(h).two_phase = h.two_phase
      /\ to_bytes(h).recovery = h.recovery
  BY HeaderTypes, ToBytes
<1>2. \A i \in {0, 1} : to_bytes(h).slot[i] = [h.slot[i] EXCEPT !.ok = TRUE]
  BY Zenon DEF to_bytes, Header
<1>3. \A i \in {0, 1} : h.slot[i] \in Slot
  BY DEF Header
<1>4. \A i \in {0, 1} : /\ to_bytes(h).slot[i].id = h.slot[i].id
                        /\ to_bytes(h).slot[i].data = h.slot[i].data
                        /\ to_bytes(h).slot[i].sys = h.slot[i].sys
                        /\ to_bytes(h).slot[i].ok
  BY <1>2, <1>3 DEF Slot
<1>5. SlotsOk(h) => to_bytes(h) = h
  <2>1. SlotsOk(h) => to_bytes(h).slot[0] = h.slot[0] /\ to_bytes(h).slot[1] = h.slot[1]
    BY ToBytes DEF SlotsOk
  <2>2. SlotsOk(h) => to_bytes(h).slot = h.slot
    BY <1>1, <2>1 DEF Header
  <2>3. QED
    BY <1>1, <2>2 DEF Header
<1>6. QED
  BY <1>1, <1>4, <1>5 DEF SlotsOk

\* The roots in the slots, and which of them is the primary, decide on a repair.
LEMMA ToBytesRepairs ==
  ASSUME NEW h \in Header, NEW trees, NEW maybe, NEW outcomes
  PROVE  /\ \A slots : Verifies(primary_slot(to_bytes(h)), slots)
                         <=> Verifies(primary_slot(h), slots)
         /\ PairOf(primary_slot(to_bytes(h))) = PairOf(primary_slot(h))
         /\ primary_slot(to_bytes(h)).id = primary_slot(h).id
         /\ secondary_slot(to_bytes(h)).id = secondary_slot(h).id
         /\ Repairs(h, trees, maybe, outcomes) => Repairs(to_bytes(h), trees, maybe, outcomes)
<1>1. h.primary \in {0, 1} /\ 1 - h.primary \in {0, 1}
  BY DEF Header
<1>2. /\ primary_slot(to_bytes(h)).id = primary_slot(h).id
      /\ primary_slot(to_bytes(h)).data = primary_slot(h).data
      /\ primary_slot(to_bytes(h)).sys = primary_slot(h).sys
      /\ secondary_slot(to_bytes(h)).id = secondary_slot(h).id
      /\ secondary_slot(to_bytes(h)).data = secondary_slot(h).data
      /\ secondary_slot(to_bytes(h)).sys = secondary_slot(h).sys
      /\ to_bytes(h).two_phase = h.two_phase
  BY <1>1, ToBytesSlots DEF primary_slot, secondary_slot
<1>3. QED
  BY <1>2 DEF Repairs, Good, Harmless, Verifies, PairOf

\* pick_primary_for_repair() keeps the slots, and settles a header whose slots
\* are valid: it has nothing more to do when it is called again.
LEMMA PickSettles ==
  ASSUME NEW h \in Header
  PROVE  /\ Picked(h) \in Header
         /\ Picked(h).slot = h.slot /\ Picked(h).recovery = h.recovery
         /\ SlotsOk(h) => ~PickFails(h) /\ Picked(Picked(h)) = Picked(h)
<1>1. \A g \in Header : g.slot = h.slot /\ SlotsOk(h) => primary_slot(g).ok /\ secondary_slot(g).ok
  BY DEF SlotsOk, Header, primary_slot, secondary_slot
<1>2. CASE Picked(h) = h
  BY <1>1, <1>2 DEF PickFails
<1>3. CASE Picked(h) # h
  <2>1. h.recovery /\ PickSwaps(h) /\ Picked(h) = swap_primary_slot(h)
    BY <1>3 DEF Picked, pick_primary_for_repair
  <2>2. /\ Picked(h) \in Header /\ Picked(h).slot = h.slot
        /\ Picked(h).recovery = h.recovery
        /\ primary_slot(Picked(h)) = secondary_slot(h)
        /\ secondary_slot(Picked(h)) = primary_slot(h)
    BY <2>1, HeaderUpdates
  <2>3. SlotsOk(h) => secondary_slot(h).id > primary_slot(h).id
    BY <1>1, <2>1 DEF PickSwaps
  <2>4. primary_slot(h).id \in Nat /\ secondary_slot(h).id \in Nat
    BY HeaderUpdates DEF Slot
  <2>5. SlotsOk(h) => ~PickSwaps(Picked(h))
    BY <1>1, <2>2, <2>3, <2>4 DEF PickSwaps
  <2>6. SlotsOk(h) => Picked(Picked(h)) = Picked(h)
    BY <2>5 DEF Picked, pick_primary_for_repair
  <2>7. QED
    BY <1>1, <2>2, <2>6 DEF PickFails
<1>4. QED
  BY <1>2, <1>3

\* A settled header is not changed by a repair.
LEMMA SettledStays ==
  ASSUME NEW h \in Header, SlotsOk(h), Settled(h)
  PROVE  pick_primary_for_repair(h) = h /\ Picked(h) = h
<1>1. primary_slot(h).ok
  BY DEF SlotsOk, Header, primary_slot
<1>2. primary_slot(h).id \in Nat /\ secondary_slot(h).id \in Nat
  BY HeaderUpdates DEF Slot
<1>3. ~PickSwaps(h)
  BY <1>1, <1>2 DEF PickSwaps, Settled
<1>4. QED
  BY <1>3 DEF Picked, pick_primary_for_repair

\* A header that opens still does when more trees are durable, when fewer are
\* in doubt, and when there are more outcomes.
LEMMA OpensMonotone ==
  ASSUME NEW h, NEW trees, NEW maybe, NEW outcomes,
         NEW trees2, NEW maybe2, NEW outcomes2,
         trees \subseteq trees2, maybe2 \subseteq maybe, outcomes \subseteq outcomes2
  PROVE  /\ Repairs(h, trees, maybe, outcomes) => Repairs(h, trees2, maybe2, outcomes2)
         /\ Opens(h, trees, maybe, outcomes) => Opens(h, trees2, maybe2, outcomes2)
<1>1. \A g : Repairs(g, trees, maybe, outcomes) => Repairs(g, trees2, maybe2, outcomes2)
  BY DEF Repairs, Good, Harmless, Verifies
<1>2. QED
  BY <1>1 DEF Opens

\* A header with a good primary opens if it is settled, or if the other slot
\* names an outcome as well.
LEMMA GoodOpens ==
  ASSUME NEW h \in Header, NEW trees, NEW maybe, NEW outcomes,
         Good(primary_slot(h), trees, outcomes), h.recovery => primary_slot(h).ok,
         \/ Picked(h) = h
         \/ PairOf(secondary_slot(h)) \in outcomes
  PROVE  Opens(h, trees, maybe, outcomes)
<1>1. h.recovery => ~PickFails(h)
  BY DEF PickFails
<1>2. CASE Picked(h) = h
  BY <1>1, <1>2 DEF Opens, Repairs
<1>3. CASE Picked(h) # h
  <2>1. Picked(h) = swap_primary_slot(h) /\ ~h.two_phase
    BY <1>3 DEF Picked, pick_primary_for_repair, PickSwaps
  <2>2. QED
    BY <1>1, <1>3, <2>1, HeaderUpdates DEF Opens, Repairs, Harmless
<1>4. QED
  BY <1>2, <1>3

\* At rest there is only one header to look at.
LEMMA OneImage ==
  ASSUME NEW h \in Header, NEW d \in Header, ImageOf(h, d, d)
  PROVE  h = d
<1>1. GodByteOf(h) = GodByteOf(d) /\ h.slot[0] = d.slot[0] /\ h.slot[1] = d.slot[1]
  BY DEF ImageOf
<1>2. h.slot = d.slot
  BY <1>1 DEF Header
<1>3. h.primary = d.primary /\ h.recovery = d.recovery /\ h.two_phase = d.two_phase
  BY <1>1 DEF GodByteOf
<1>4. QED
  BY <1>2, <1>3 DEF Header

\* When only the god byte is being written there are two headers to look at.
LEMMA TwoImages ==
  ASSUME NEW h \in Header, NEW d \in Header, NEW b \in Header, b.slot = d.slot,
         ImageOf(h, d, b)
  PROVE  h \in {d, b}
<1>1. h.slot[0] = d.slot[0] /\ h.slot[1] = d.slot[1]
  BY DEF ImageOf
<1>2. h.slot = d.slot
  BY <1>1 DEF Header
<1>3. CASE GodByteOf(h) = GodByteOf(d)
  <2>1. h.primary = d.primary /\ h.recovery = d.recovery /\ h.two_phase = d.two_phase
    BY <1>3 DEF GodByteOf
  <2>2. QED
    BY <1>2, <2>1 DEF Header
<1>4. CASE GodByteOf(h) = GodByteOf(b)
  <2>1. h.primary = b.primary /\ h.recovery = b.recovery /\ h.two_phase = b.two_phase
    BY <1>4 DEF GodByteOf
  <2>2. QED
    BY <1>2, <2>1 DEF Header
<1>5. QED
  BY <1>3, <1>4 DEF ImageOf

-----------------------------------------------------------------------------
(* Each action preserves the invariant.                                    *)

\* When what was written is what is on disk, that header is all there is.
LEMMA RestingFile ==
  ASSUME buf' = disk', disk' \in Header, HeaderWrites # "torn" => SlotsOk(disk'),
         Interruptible' => Opens(disk', intact', Maybe', Outcomes')
  PROVE  ImagesSafe'
<1>1. \A h \in Header : ImageOf(h, disk', buf') => h = disk'
  BY OneImage
<1>2. QED
  BY <1>1 DEF ImagesSafe

\* A flush leaves no trees in doubt.
LEMMA SyncedFile ==
  ASSUME NEW h \in Header, Sync(h), UNCHANGED history, SlotsOk(h),
         Opens(h, intact, Maybe, Outcomes)
  PROVE  ImagesSafe'
<1>1. /\ intact \subseteq intact' /\ Maybe' \subseteq Maybe /\ Outcomes \subseteq Outcomes'
      /\ disk' = h /\ buf' = h
  BY DEF Sync, Maybe, Outcomes, history
<1>2. Opens(h, intact', Maybe', Outcomes')
  BY <1>1, OpensMonotone
<1>3. QED
  BY <1>1, <1>2, RestingFile

\* While the file and the outcomes stay, so does what was shown about the file.
LEMMA SameFile ==
  ASSUME ImagesSafe, UNCHANGED <<file, history>>, Interruptible' => Interruptible
  PROVE  ImagesSafe'
<1>1. /\ content' = content /\ disk' = disk /\ buf' = buf /\ intact' = intact
      /\ Maybe' = Maybe /\ Outcomes' = Outcomes
  BY DEF file, history, Maybe, Outcomes
<1>2. QED
  BY <1>1, Zenon DEF ImagesSafe

\* A file that is closed, or open and not being written to, opens.
LEMMA RestOpens ==
  ASSUME SurvivalInv, content = "formatted", buf = disk, Interruptible
  PROVE  disk \in Header /\ Opens(disk, intact, Maybe, Outcomes)
<1>1. disk \in Header
  BY DEF SurvivalInv, TypeOK
<1>2. ImageOf(disk, disk, buf)
  BY DEF ImageOf
<1>3. QED
  BY <1>1, <1>2 DEF SurvivalInv, ImagesSafe

\* An empty file, before Database::create(), satisfies the invariant.
LEMMA InitKeeps == Init => SurvivalInv
<1> SUFFICES ASSUME Init PROVE SurvivalInv
  OBVIOUS
<1>1. TypeOK /\ CreationSafe /\ TreesSafe
  BY InitInv DEF TwoPhaseInv
<1>2. QED
  BY <1>1 DEF Init, SurvivalInv, ImagesSafe, AtRest, OpeningSafe, UseSafe, InstallSafe

\* Creating a file: there is nothing to recover until the magic number is there.
LEMMA CreateFileKeeps ==
  ASSUME SurvivalInv, CreateFile
  PROVE  SurvivalInv'
<1>1. TypeOK'
  BY HeaderTypes DEF SurvivalInv, CreateFile, TypeOK, Jobs, Job, history
<1>2. ImagesSafe' /\ CreationSafe'
  BY DEF SurvivalInv, CreateFile, ImagesSafe, CreationSafe, history
<1>3. AtRest' /\ OpeningSafe' /\ UseSafe' /\ InstallSafe' /\ TreesSafe'
  BY DEF SurvivalInv, CreateFile, AtRest, OpeningSafe, UseSafe, InstallSafe, TreesSafe, Job
<1>4. QED
  BY <1>1, <1>2, <1>3 DEF SurvivalInv

\* Flushing the new header makes both of its slots durable.
LEMMA CreateFlushKeeps ==
  ASSUME SurvivalInv, CreateFlush
  PROVE  SurvivalInv'
<1>1. TypeOK'
  BY DEF SurvivalInv, CreateFlush, TypeOK, Sync, memory, history
<1>2. ImagesSafe' /\ CreationSafe'
  BY DEF SurvivalInv, CreateFlush, ImagesSafe, CreationSafe, Sync, memory, history
<1>3. AtRest' /\ OpeningSafe' /\ UseSafe' /\ InstallSafe' /\ TreesSafe'
  BY DEF SurvivalInv, CreateFlush, AtRest, OpeningSafe, UseSafe, InstallSafe, TreesSafe,
         Sync, memory
<1>4. QED
  BY <1>1, <1>2, <1>3 DEF SurvivalInv

\* Once the magic number is written, the file opens with empty trees.
LEMMA CreateMagicKeeps ==
  ASSUME SurvivalInv, CreateMagic
  PROVE  SurvivalInv'
<1>1. TypeOK'
  BY DEF SurvivalInv, CreateMagic, TypeOK, history
<1>a. /\ disk' = NewHeader /\ buf' = NewHeader /\ header' = NewHeader /\ 0 \in intact'
      /\ durable' = [data |-> 0, sys |-> 0] /\ pc' = "loaded" /\ job' = job
      /\ job.for = "open"
  BY DEF SurvivalInv, CreateMagic, CreationSafe, OpeningSafe, history
<1>b. /\ NewHeader \in Header /\ SlotsOk(NewHeader)
      /\ ~NewHeader.recovery /\ Picked(NewHeader) = NewHeader
  BY HeaderTypes DEF Picked, NewHeader, SlotsOk, NewSlot
<1>c. Good(primary_slot(NewHeader), intact', Outcomes')
  BY <1>a DEF Good, Verifies, PairOf, primary_slot, NewHeader, NewSlot, Outcomes
<1>d. to_bytes(NewHeader) = NewHeader
  BY <1>b, ToBytesSlots
<1>2. ImagesSafe'
  BY <1>a, <1>b, <1>c, GoodOpens, RestingFile
<1>3. CreationSafe'
  BY DEF SurvivalInv, CreateMagic, CreationSafe, history
<1>4. AtRest' /\ OpeningSafe' /\ UseSafe' /\ InstallSafe'
  BY <1>a, <1>b, <1>c, <1>d DEF AtRest, OpeningSafe, UseSafe, InstallSafe, Repairs
<1>5. TreesSafe'
  BY DEF SurvivalInv, CreateMagic, TreesSafe
<1>6. QED
  BY <1>1, <1>2, <1>3, <1>4, <1>5 DEF SurvivalInv

\* Opening a closed database writes nothing.
LEMMA OpenCleanKeeps ==
  ASSUME SurvivalInv, OpenClean
  PROVE  SurvivalInv'
<1>1. TypeOK'
  BY HeaderTypes DEF SurvivalInv, OpenClean, TypeOK, file, Jobs, Job, history
<1>a. /\ disk \in Header /\ buf = disk /\ ~disk.recovery
      /\ Opens(disk, intact, Maybe, Outcomes)
  <2>1. buf = disk /\ content = "formatted" /\ Interruptible
    BY DEF SurvivalInv, OpenClean, AtRest, Interruptible
  <2>2. QED
    BY <2>1, RestOpens DEF OpenClean
<1>b. /\ header' = to_bytes(disk) /\ disk' = disk /\ buf' = buf /\ intact' = intact
      /\ Maybe' = Maybe /\ Outcomes' = Outcomes /\ content' = content
      /\ pc' = "loaded" /\ job'.for = "open"
  BY DEF OpenClean, file, history, Maybe, Outcomes, Job
<1>c. ~header'.recovery /\ Picked(header') = header'
  BY <1>a, <1>b, ToBytesSlots DEF Picked
<1>d. Repairs(header', intact', Maybe', Outcomes')
  <2>1. Repairs(disk, intact, Maybe, Outcomes)
    BY <1>a DEF Opens, Picked
  <2>2. QED
    BY <1>a, <1>b, <2>1, ToBytesRepairs
<1>2. ImagesSafe'
  <2>1. HeaderWrites # "torn" => SlotsOk(disk)
    BY DEF SurvivalInv, OpenClean, ImagesSafe
  <2>2. QED
    BY <1>a, <1>b, <2>1, RestingFile
<1>3. CreationSafe'
  BY DEF SurvivalInv, OpenClean, CreationSafe, file, history
<1>4. AtRest' /\ OpeningSafe' /\ UseSafe' /\ InstallSafe'
  BY <1>a, <1>b, <1>c, <1>d DEF AtRest, OpeningSafe, UseSafe, InstallSafe
<1>5. TreesSafe'
  BY DEF SurvivalInv, OpenClean, TreesSafe, file
<1>6. QED
  BY <1>1, <1>2, <1>3, <1>4, <1>5 DEF SurvivalInv

\* Rewriting the header with the slot that was picked: a repair of it finds the
\* same, and so does picking again, as long as no slot was torn.
LEMMA OpenPickKeeps ==
  ASSUME Survivable, SurvivalInv, OpenPick
  PROVE  SurvivalInv'
<1>a. /\ disk \in Header /\ buf = disk /\ content = "formatted"
      /\ Opens(disk, intact, Maybe, Outcomes)
      /\ HeaderWrites # "torn" => SlotsOk(disk)
  <2>1. buf = disk /\ content = "formatted" /\ Interruptible
    BY DEF SurvivalInv, OpenPick, AtRest, Interruptible
  <2>2. QED
    BY <2>1, RestOpens DEF SurvivalInv, ImagesSafe
<1>b. disk.recovery /\ Picked(disk) = pick_primary_for_repair(disk)
  BY DEF OpenPick, Picked
<1>c. /\ Picked(disk) \in Header /\ Picked(disk).slot = disk.slot
      /\ Repairs(Picked(disk), intact, Maybe, Outcomes)
      /\ HeaderWrites # "torn" => SlotsOk(Picked(disk)) /\ Picked(Picked(disk)) = Picked(disk)
  BY <1>a, PickSettles DEF Opens, SlotsOk
<1>d. header' = to_bytes(Picked(disk)) /\ buf' = header'
  BY <1>b DEF OpenPick
<1>e. /\ header' \in Header /\ SlotsOk(header')
      /\ Repairs(header', intact, Maybe, Outcomes)
      /\ HeaderWrites # "torn" => header' = Picked(disk)
  BY <1>c, <1>d, ToBytesSlots, ToBytesRepairs
<1>f. /\ content' = content /\ disk' = disk /\ intact' = intact
      /\ Maybe' = Maybe /\ Outcomes' = Outcomes
      /\ pc' = "picking" /\ job' = Job("open")
  BY DEF OpenPick, Maybe, Outcomes, history
<1>1. TypeOK'
  BY <1>d, <1>e DEF SurvivalInv, OpenPick, TypeOK, Jobs, Job, history
<1>2. ImagesSafe'
  <2>1. ASSUME HeaderWrites # "torn", NEW h \in Header, ImageOf(h, disk', buf')
        PROVE  Opens(h, intact', Maybe', Outcomes')
    <3>1. h \in {disk, header'}
      BY <1>a, <1>c, <1>d, <1>e, <1>f, <2>1, TwoImages
    <3>2. Opens(header', intact, Maybe, Outcomes)
      BY <1>c, <1>e, <2>1, PickSettles DEF Opens
    <3>3. QED
      BY <1>a, <1>f, <3>1, <3>2
  <2>2. Interruptible' => HeaderWrites # "torn"
    BY <1>f DEF Interruptible, Survivable
  <2>3. HeaderWrites # "torn" => SlotsOk(disk') /\ SlotsOk(buf')
    BY <1>a, <1>d, <1>e, <1>f
  <2>4. QED
    BY <2>1, <2>2, <2>3 DEF ImagesSafe
<1>3. CreationSafe'
  BY DEF SurvivalInv, OpenPick, CreationSafe, history
<1>4. AtRest' /\ OpeningSafe' /\ UseSafe' /\ InstallSafe'
  BY <1>c, <1>d, <1>e, <1>f DEF AtRest, OpeningSafe, UseSafe, InstallSafe, Job
<1>5. TreesSafe'
  BY DEF SurvivalInv, OpenPick, TreesSafe
<1>6. QED
  BY <1>1, <1>2, <1>3, <1>4, <1>5 DEF SurvivalInv

\* The flush after it.
LEMMA OpenPickFlushKeeps ==
  ASSUME Survivable, SurvivalInv, OpenPickFlush
  PROVE  SurvivalInv'
<1>a. /\ header \in Header /\ buf = header /\ SlotsOk(header) /\ job.for = "open"
      /\ Repairs(header, intact, Maybe, Outcomes)
      /\ HeaderWrites # "torn" => Picked(header) = header
  BY DEF SurvivalInv, OpenPickFlush, TypeOK, OpeningSafe
<1>b. /\ disk' = header /\ buf' = header /\ header' = header /\ job' = job /\ pc' = "loaded"
      /\ intact \subseteq intact' /\ Maybe' \subseteq Maybe /\ Outcomes \subseteq Outcomes'
  BY <1>a DEF OpenPickFlush, Sync, memory, Maybe, Outcomes, history
<1>c. Repairs(header', intact', Maybe', Outcomes')
  BY <1>a, <1>b, OpensMonotone
<1>d. to_bytes(header) = header
  BY <1>a, ToBytesSlots
<1>1. TypeOK'
  BY SMTT(30) DEF SurvivalInv, OpenPickFlush, TypeOK, Sync, memory, history
<1>2. ImagesSafe'
  <2>1. Interruptible' => HeaderWrites # "torn"
    BY <1>b DEF Interruptible, Survivable
  <2>2. HeaderWrites # "torn" => Opens(disk', intact', Maybe', Outcomes')
    BY <1>a, <1>b, <1>c, PickSettles DEF Opens
  <2>3. QED
    BY <1>a, <1>b, <2>1, <2>2, RestingFile
<1>3. CreationSafe' /\ TreesSafe'
  BY DEF SurvivalInv, OpenPickFlush, CreationSafe, TreesSafe, Sync, memory, history
<1>4. AtRest' /\ OpeningSafe' /\ UseSafe' /\ InstallSafe'
  BY <1>a, <1>b, <1>c, <1>d DEF AtRest, OpeningSafe, UseSafe, InstallSafe
<1>5. QED
  BY <1>1, <1>2, <1>3, <1>4 DEF SurvivalInv

\* Quick repair relies on a 2-phase commit, whose primary is good.
LEMMA LoadAllocatorStateKeeps ==
  ASSUME SurvivalInv, LoadAllocatorState
  PROVE  SurvivalInv'
<1>a. /\ disk \in Header /\ buf = disk /\ job.for = "open"
      /\ header = to_bytes(disk) /\ header \in Header
      /\ Repairs(header, intact, Maybe, Outcomes)
      /\ disk.recovery => SlotsOk(disk)
      /\ HeaderWrites # "torn" => SlotsOk(disk)
  BY DEF SurvivalInv, LoadAllocatorState, TypeOK, ImagesSafe, CreationSafe, AtRest, OpeningSafe
<1>b. header.two_phase /\ AllocatorStateValid(header, intact)
  BY DEF LoadAllocatorState, AllocatorStateValid
<1>c. Good(primary_slot(header), intact, Outcomes)
  BY <1>a, <1>b DEF Repairs
<1>d. /\ header' = [to_bytes(disk) EXCEPT !.recovery = FALSE]
      /\ header' \in Header /\ header'.two_phase
      /\ primary_slot(header') = primary_slot(header)
  BY <1>a, <1>b, RecoveryFlag DEF LoadAllocatorState
<1>e. /\ disk' = disk /\ buf' = disk /\ intact' = intact /\ Outcomes' = Outcomes
      /\ pc' = "ready" /\ job' = job /\ astate' = astate
  BY <1>a DEF LoadAllocatorState, file, history, Outcomes
<1>f. disk.two_phase /\ Good(primary_slot(disk), intact', Outcomes')
  BY <1>a, <1>b, <1>c, <1>e, ToBytesSlots, ToBytesRepairs DEF Good
<1>g. Settled(disk)'
  BY <1>e, <1>f DEF Settled
<1>1. TypeOK'
  BY <1>d, Zenon DEF SurvivalInv, LoadAllocatorState, TypeOK, file, history
<1>2. ImagesSafe'
  <2>1. disk.recovery => primary_slot(disk).ok
    BY <1>a DEF SlotsOk, primary_slot, Header
  <2>2. Picked(disk) = disk
    BY <1>f DEF Picked, pick_primary_for_repair, PickSwaps
  <2>3. Opens(disk', intact', Maybe', Outcomes')
    BY <1>a, <1>e, <1>f, <2>1, <2>2, GoodOpens
  <2>4. QED
    BY <1>a, <1>e, <2>3, RestingFile
<1>3. CreationSafe' /\ TreesSafe'
  BY DEF SurvivalInv, LoadAllocatorState, CreationSafe, TreesSafe, file, history
<1>4. AtRest' /\ OpeningSafe' /\ UseSafe' /\ InstallSafe'
  BY <1>a, <1>c, <1>d, <1>e, <1>g DEF AtRest, OpeningSafe, UseSafe, InstallSafe
<1>5. QED
  BY <1>1, <1>2, <1>3, <1>4 DEF SurvivalInv

\* What do_repair() works on: a header with valid slots, one of which is good.
LEMMA RepairFacts ==
  ASSUME SurvivalInv, pc \in {"loaded", "checking"}
  PROVE  /\ header \in Header /\ SlotsOk(header) /\ read_from_secondary = FALSE
         /\ Repairs(header, intact, Maybe, Outcomes)
         /\ pc = "checking" => header = disk /\ Good(primary_slot(header), intact, Outcomes)
<1>1. header \in Header /\ disk \in Header /\ read_from_secondary = FALSE
  BY DEF SurvivalInv, TypeOK, TreesSafe
<1>2. CASE pc = "loaded"
  BY <1>1, <1>2, ToBytesSlots DEF SurvivalInv, OpeningSafe
<1>3. CASE pc = "checking"
  BY <1>1, <1>3 DEF SurvivalInv, AtRest, Repairs
<1>4. QED
  BY <1>2, <1>3

\* do_repair() settles on a good slot: the primary if its trees are complete, and
\* otherwise the one that opening falls back to.
LEMMA RepairFindsGood ==
  ASSUME SurvivalInv, pc \in {"loaded", "checking"}, NEW g \in RepairHeaders(header)
  PROVE  /\ g \in Header /\ g.slot = header.slot
         /\ Good(primary_slot(g), intact, Outcomes)
         /\ pc = "checking" => g = header
<1>a. /\ header \in Header /\ read_from_secondary = FALSE
      /\ Repairs(header, intact, Maybe, Outcomes)
      /\ pc = "checking" => Good(primary_slot(header), intact, Outcomes)
  BY RepairFacts
<1>b. /\ Verifies(primary_slot(g), intact)
      /\ \/ g = header
         \/ /\ g = swap_primary_slot(header) /\ ~header.two_phase
            /\ ~Verifies(primary_slot(header), intact)
  BY <1>a DEF RepairHeaders, Current
<1>1. g \in Header /\ g.slot = header.slot
  BY <1>a, <1>b, HeaderUpdates
<1>2. pc = "checking" => g = header
  BY <1>a, <1>b DEF Good
<1>3. Good(primary_slot(g), intact, Outcomes)
  <2>1. CASE g = header
    BY <1>a, <1>b, <2>1 DEF Repairs, Good, Harmless, Verifies, Maybe
  <2>2. CASE g # header
    BY <1>a, <1>b, <2>2, HeaderUpdates DEF Repairs, Good
  <2>3. QED
    BY <2>1, <2>2
<1>4. QED
  BY <1>1, <1>2, <1>3

\* So do_repair() does not fail.
LEMMA RepairSucceeds ==
  ASSUME SurvivalInv, pc \in {"loaded", "checking"}
  PROVE  RepairHeaders(header) # {}
<1>a. /\ header \in Header /\ read_from_secondary = FALSE
      /\ Repairs(header, intact, Maybe, Outcomes)
  BY RepairFacts
<1>1. CASE Verifies(primary_slot(header), intact)
  <2>1. header \in RepairHeaders(header)
    BY <1>a, <1>1 DEF RepairHeaders, Current
  <2>2. QED
    BY <2>1
<1>2. CASE ~Verifies(primary_slot(header), intact)
  <2>1. ~header.two_phase /\ Verifies(secondary_slot(header), intact)
    BY <1>a, <1>2 DEF Repairs, Good
  <2>2. swap_primary_slot(header) \in RepairHeaders(header)
    BY <1>a, <1>2, <2>1, HeaderUpdates DEF RepairHeaders, Current
  <2>3. QED
    BY <2>2
<1>3. QED
  BY <1>1, <1>2

\* The header that do_repair() writes has a good primary and the recovery flag off.
LEMMA DoRepairKeeps ==
  ASSUME SurvivalInv, DoRepair
  PROVE  SurvivalInv'
<1>a. /\ header \in Header /\ SlotsOk(header) /\ read_from_secondary = FALSE
      /\ pc \in {"loaded", "checking"}
      /\ pc = "checking" => header = disk
  BY RepairFacts DEF DoRepair
<1>b. PICK g \in RepairHeaders(header) :
        /\ header' = [g EXCEPT !.recovery = FALSE]
        /\ pc' \in IF pc = "loaded" \/ PairOf(Current(g)) # PairOf(Current(header))
                   THEN {"repaired"}
                   ELSE {"ready"} \cup {x \in {"repaired"} : read_from_secondary}
  BY DEF DoRepair
<1>c. /\ g \in Header /\ SlotsOk(g) /\ Good(primary_slot(g), intact, Outcomes)
      /\ pc = "checking" => g = header
  BY <1>a, RepairFindsGood DEF SlotsOk
<1>d. /\ header' \in Header /\ header'.recovery = FALSE /\ SlotsOk(header')
      /\ header'.primary = g.primary /\ header'.two_phase = g.two_phase
      /\ header'.slot = g.slot /\ primary_slot(header') = primary_slot(g)
  BY <1>b, <1>c, RecoveryFlag
<1>e. Picked(header') = header' /\ to_bytes(header') = header'
  BY <1>d, ToBytesSlots DEF Picked
<1>f. /\ Sync(header') /\ UNCHANGED history /\ job' = job /\ next_id' = next_id
      /\ astate' = astate
  BY DEF DoRepair
<1>g. Opens(header', intact, Maybe, Outcomes)
  BY <1>c, <1>d, <1>e, GoodOpens
<1>h. disk' = header' /\ buf' = header' /\ Good(primary_slot(header'), intact', Outcomes')
  BY <1>c, <1>d, <1>f DEF Sync, Good, Verifies, Outcomes, history
<1>i. \/ pc = "loaded" /\ pc' = "repaired" /\ job.for = "open"
      \/ pc = "checking" /\ pc' = "ready" /\ job.for = "check"
  BY <1>a, <1>b, <1>c DEF SurvivalInv, OpeningSafe
<1>1. TypeOK'
  BY <1>d, <1>i, Zenon DEF SurvivalInv, DoRepair, TypeOK, Sync, history
<1>2. ImagesSafe'
  BY <1>d, <1>f, <1>g, SyncedFile
<1>3. CreationSafe' /\ TreesSafe'
  BY <1>i DEF SurvivalInv, DoRepair, CreationSafe, TreesSafe, Sync, history
<1>4. AtRest' /\ OpeningSafe' /\ UseSafe' /\ InstallSafe'
  <2>1. CASE pc = "loaded"
    BY <1>d, <1>f, <1>h, <1>i, <2>1 DEF AtRest, OpeningSafe, UseSafe, InstallSafe
  <2>2. CASE pc = "checking"
    <3>1. Settled(disk)'
      <4>1. Settled(disk) /\ g = disk
        BY <1>a, <1>c, <2>2 DEF SurvivalInv, AtRest
      <4>2. primary_slot(disk') = primary_slot(disk) /\ secondary_slot(disk') = secondary_slot(disk)
        BY <1>d, <1>h, <4>1 DEF primary_slot, secondary_slot
      <4>3. QED
        BY <1>d, <1>h, <4>1, <4>2 DEF Settled
    <3>2. header' = [to_bytes(disk') EXCEPT !.recovery = FALSE]
      BY <1>d, <1>e, <1>h, Zenon DEF Header
    <3>3. next_id' >= primary_slot(header').id
      BY <1>c, <1>d, <1>f, <1>i, <2>2 DEF SurvivalInv, OpeningSafe
    <3>4. QED
      BY <1>f, <1>h, <1>i, <2>2, <3>1, <3>2, <3>3 DEF AtRest, OpeningSafe, UseSafe, InstallSafe
  <2>3. QED
    BY <1>a, <2>1, <2>2
<1>5. QED
  BY <1>1, <1>2, <1>3, <1>4 DEF SurvivalInv

\* A repair that is aborted leaves the file alone.
LEMMA AbortRepairKeeps ==
  ASSUME SurvivalInv, AbortRepair
  PROVE  SurvivalInv'
<1>a. pc = "loaded" /\ Forget /\ UNCHANGED <<file, next_root, history>> /\ Interruptible
  BY DEF AbortRepair, Interruptible
<1>1. TypeOK'
  BY <1>a, HeaderTypes, Zenon DEF SurvivalInv, TypeOK, Forget, file, history, Txns, Jobs, NoJob
<1>2. ImagesSafe'
  BY <1>a, SameFile DEF SurvivalInv
<1>3. CreationSafe' /\ TreesSafe'
  BY <1>a DEF SurvivalInv, CreationSafe, TreesSafe, Forget, file, history
<1>4. AtRest' /\ OpeningSafe' /\ UseSafe' /\ InstallSafe'
  BY <1>a DEF SurvivalInv, AtRest, OpeningSafe, UseSafe, InstallSafe, Forget, file
<1>5. QED
  BY <1>1, <1>2, <1>3, <1>4 DEF SurvivalInv

\* A database that has failed leaves the file alone.
LEMMA IoErrorKeeps ==
  ASSUME SurvivalInv, IoError
  PROVE  SurvivalInv'
<1>a. /\ pc \notin {"closed", "creating", "created"} /\ pc' = "failed" /\ Interruptible
      /\ UNCHANGED <<file, header, next_header, job, read_from_secondary, txn, next_id,
                     next_root, history>>
  BY DEF IoError
<1>1. TypeOK'
  <2>1. needs_recovery' \in BOOLEAN
    BY SMTT(30) DEF SurvivalInv, IoError, TypeOK
  <2>2. QED
    BY <1>a, <2>1 DEF SurvivalInv, TypeOK, file, history
<1>2. ImagesSafe'
  BY <1>a, SameFile DEF SurvivalInv
<1>3. CreationSafe' /\ TreesSafe'
  BY <1>a DEF SurvivalInv, TypeOK, CreationSafe, TreesSafe, file, history
<1>4. AtRest' /\ OpeningSafe' /\ UseSafe' /\ InstallSafe'
  BY <1>a DEF AtRest, OpeningSafe, UseSafe, InstallSafe
<1>5. QED
  BY <1>1, <1>2, <1>3, <1>4 DEF SurvivalInv

\* What a database at rest has: one header, whose primary opening will choose.
LEMMA RestFacts ==
  ASSUME SurvivalInv, pc \in {"repaired", "open"}
  PROVE  /\ header \in Header /\ disk \in Header /\ buf = disk /\ content = "formatted"
         /\ GodByteOf(header) = GodByteOf(disk)
         /\ header.primary = disk.primary /\ header.two_phase = disk.two_phase
         /\ header.recovery = disk.recovery
         /\ primary_slot(header) = primary_slot(disk)
         /\ SlotsOk(disk) /\ Picked(disk) = disk /\ primary_slot(disk).ok
         /\ Good(primary_slot(disk), intact, Outcomes)
         /\ pc = "open" => Settled(disk)
<1>1. /\ header \in Header /\ disk \in Header /\ buf = disk /\ content = "formatted"
      /\ SlotsOk(disk)
  BY DEF SurvivalInv, TypeOK, CreationSafe, AtRest
<1>2. GodByteOf(header) = GodByteOf(disk) /\ primary_slot(header) = primary_slot(disk)
  BY DEF SurvivalInv, AtRest, UseSafe
<1>3. /\ header.primary = disk.primary /\ header.two_phase = disk.two_phase
      /\ header.recovery = disk.recovery
  BY <1>2 DEF GodByteOf
<1>4. Good(primary_slot(disk), intact, Outcomes) /\ (pc = "open" => Settled(disk))
  BY <1>2 DEF SurvivalInv, AtRest
<1>5. Picked(disk) = disk
  <2>1. CASE pc = "open"
    BY <1>1, <1>4, <2>1, SettledStays
  <2>2. CASE pc = "repaired"
    BY <2>2 DEF SurvivalInv, AtRest, OpeningSafe, Picked
  <2>3. QED
    BY <2>1, <2>2
<1>6. primary_slot(disk).ok
  BY <1>1 DEF SlotsOk, primary_slot, Header
<1>7. QED
  BY <1>1, <1>2, <1>3, <1>4, <1>5, <1>6

\* Whatever an open database does to its trees, the file opens as long as the
\* primary stays good.
LEMMA UsedFile ==
  ASSUME SurvivalInv, pc = "open", UNCHANGED <<disk, buf>>,
         Good(primary_slot(disk), intact', Outcomes')
  PROVE  ImagesSafe'
<1>1. Opens(disk, intact', Maybe', Outcomes')
  BY RestFacts, GoodOpens
<1>2. QED
  BY <1>1, RestFacts, RestingFile

\* While b is written over d, to install a new slot beside a primary that is good,
\* whatever a crash leaves of them opens: the old slot is older than the primary
\* and a torn one is not valid, so in both cases the primary is taken.
LEMMA InstallOpens ==
  ASSUME NEW d \in Header, NEW b \in Header, NEW h \in Header, ImageOf(h, d, b),
         NEW trees, NEW maybe, NEW outcomes,
         SlotsOk(d), Picked(d) = d, b.recovery = d.recovery,
         b.slot[d.primary] = d.slot[d.primary],
         Good(primary_slot(d), trees, outcomes),
         PairOf(b.slot[1 - d.primary]) \in outcomes,
         \/ GodByteOf(b) = GodByteOf(d)
         \/ /\ b.primary = 1 - d.primary /\ ~b.two_phase /\ b.recovery
            /\ \/ HeaderWrites = "ordered"
               \/ secondary_slot(d).id < primary_slot(d).id
  PROVE  Opens(h, trees, maybe, outcomes)
<1> DEFINE p == h.slot[d.primary]
           s == h.slot[1 - d.primary]
<1>a. d.primary \in {0, 1} /\ 1 - d.primary \in {0, 1} /\ 1 - (1 - d.primary) = d.primary
  BY DEF Header
<1>b. p = primary_slot(d) /\ p.ok
  BY <1>a DEF ImageOf, primary_slot, SlotsOk
<1>c. s = secondary_slot(d) \/ s = b.slot[1 - d.primary] \/ ~s.ok
  BY <1>a DEF ImageOf, secondary_slot
<1>1. CASE GodByteOf(h) = GodByteOf(d)
  <2>1. /\ h.primary = d.primary /\ h.recovery = d.recovery /\ h.two_phase = d.two_phase
        /\ primary_slot(h) = p /\ secondary_slot(h) = s
    BY <1>1 DEF GodByteOf, primary_slot, secondary_slot
  <2>2. CASE s = secondary_slot(d)
    <3>1. h.slot[0] = d.slot[0] /\ h.slot[1] = d.slot[1]
      BY <1>a, <1>b, <2>2 DEF primary_slot, secondary_slot
    <3>2. h.slot = d.slot
      BY <3>1 DEF Header
    <3>3. h = d
      BY <2>1, <3>2 DEF Header
    <3>4. QED
      BY <1>b, <2>1, <3>3, GoodOpens
  <2>3. CASE s = b.slot[1 - d.primary]
    BY <1>b, <2>1, <2>3, GoodOpens
  <2>4. CASE ~s.ok
    <3>1. Picked(h) = h
      BY <2>1, <2>4 DEF Picked, pick_primary_for_repair, PickSwaps
    <3>2. QED
      BY <1>b, <2>1, <3>1, GoodOpens
  <2>5. QED
    BY <1>c, <2>2, <2>3, <2>4
<1>2. CASE GodByteOf(h) # GodByteOf(d)
  <2>1. /\ GodByteOf(h) = GodByteOf(b) /\ GodByteOf(b) # GodByteOf(d)
        /\ HeaderWrites = "ordered" => h = b
    BY <1>2 DEF ImageOf
  <2>2. /\ h.primary = 1 - d.primary /\ h.recovery /\ ~h.two_phase
        /\ primary_slot(h) = s /\ secondary_slot(h) = p
    BY <1>a, <2>1 DEF GodByteOf, primary_slot, secondary_slot
  <2>3. ~PickFails(h)
    BY <1>b, <2>2 DEF PickFails
  <2>4. CASE PickSwaps(h)
    <3>1. Picked(h) = swap_primary_slot(h) /\ primary_slot(Picked(h)) = p
      BY <2>2, <2>4, HeaderUpdates DEF Picked, pick_primary_for_repair
    <3>2. QED
      BY <1>b, <2>3, <3>1 DEF Opens, Repairs
  <2>5. CASE ~PickSwaps(h)
    <3>1. Picked(h) = h
      BY <2>5 DEF Picked, pick_primary_for_repair
    <3>2. s.ok /\ ~(p.id > s.id)
      BY <1>b, <2>2, <2>5 DEF PickSwaps
    <3>3. primary_slot(d).id \in Nat /\ secondary_slot(d).id \in Nat
      BY HeaderUpdates DEF Slot
    <3>4. s = b.slot[1 - d.primary]
      <4>1. CASE HeaderWrites = "ordered"
        BY <2>1, <4>1
      <4>2. CASE secondary_slot(d).id < primary_slot(d).id
        BY <1>b, <1>c, <3>2, <3>3, <4>2
      <4>3. QED
        BY <2>1, <4>1, <4>2
    <3>5. QED
      BY <1>b, <2>2, <2>3, <3>1, <3>4 DEF Opens, Repairs, Harmless
  <2>6. QED
    BY <2>4, <2>5
<1>3. QED
  BY <1>1, <1>2

\* commit_inner() up to its first write: the old primary is what opening finds,
\* or falls back to when it looks at the new slot first.
LEMMA CommitStartKeeps ==
  ASSUME SurvivalInv, pc \in {"repaired", "open"}, NEW new \in Slot, new.ok,
         next_header' = secondary_slot_mut(header, new), buf' = next_header',
         pc' = IF job'.two_phase THEN "flush" ELSE "swap",
         ~job'.two_phase => Settled(disk)',
         job'.for \in {"open", "user", "close"}, header.recovery <=> job'.for # "open",
         job'.for = "open" => job'.two_phase,
         new.id > primary_slot(header).id, job'.for = "user" => next_id' >= new.id,
         Verifies(new, intact' \cup written'), PairOf(new) \in Outcomes',
         disk' = disk, intact' = intact, Outcomes \subseteq Outcomes'
  PROVE  /\ next_header' \in Header
         /\ ImagesSafe' /\ AtRest' /\ OpeningSafe' /\ UseSafe' /\ InstallSafe'
<1> DEFINE next == next_header'
<1>1. /\ next \in Header /\ next.primary = disk.primary
      /\ next.two_phase = disk.two_phase /\ next.recovery = disk.recovery
      /\ primary_slot(next) = primary_slot(disk) /\ secondary_slot(next) = new
  <2>1. next.recovery = header.recovery
    BY RestFacts DEF secondary_slot_mut, Header
  <2>2. QED
    BY <2>1, RestFacts, SecondarySlotMut
<1>2. GodByteOf(next) = GodByteOf(disk)
  BY <1>1 DEF GodByteOf
<1>3. Good(primary_slot(disk), intact', Outcomes')
  BY RestFacts DEF Good
<1>4. SlotsOk(next)
  <2>1. primary_slot(next).ok /\ secondary_slot(next).ok
    BY <1>1, RestFacts
  <2>2. QED
    BY <1>1, <2>1, SMTT(30) DEF SlotsOk, primary_slot, secondary_slot, Header
<1>5. next.slot[disk.primary] = disk.slot[disk.primary] /\ next.slot[1 - disk.primary] = new
  BY <1>1 DEF primary_slot, secondary_slot
<1>6. \A h \in Header : ImageOf(h, disk, next) => Opens(h, intact', Maybe', Outcomes')
  BY <1>1, <1>2, <1>3, <1>5, RestFacts, InstallOpens
<1>7. ImagesSafe'
  BY <1>4, <1>6, RestFacts DEF ImagesSafe
<1>8. AtRest' /\ OpeningSafe' /\ UseSafe'
  BY <1>4, RestFacts DEF AtRest, OpeningSafe, UseSafe
<1>9. Installs(secondary_slot(next_header), primary_slot(next_header))'
  BY <1>1, RestFacts DEF Installs
<1>10. InstallSafe'
  BY <1>1, <1>2, <1>3, <1>9, RestFacts DEF InstallSafe
<1>11. QED
  BY <1>1, <1>7, <1>8, <1>10

\* The commit after a repair installs the repaired roots again.
LEMMA CommitRepairedKeeps ==
  ASSUME SurvivalInv, CommitRepaired
  PROVE  SurvivalInv'
<1> DEFINE slot == primary_slot(header)
           new == [id |-> slot.id + 1, data |-> slot.data, sys |-> slot.sys, ok |-> TRUE]
<1>a. /\ pc = "repaired" /\ job.for = "open" /\ ~header.recovery
      /\ read_from_secondary = FALSE
  BY DEF SurvivalInv, TypeOK, CommitRepaired, OpeningSafe, TreesSafe
<1>b. slot \in Slot /\ Good(slot, intact, Outcomes)
  BY <1>a, RestFacts, HeaderUpdates
<1>c. new \in Slot /\ new.ok /\ new.id > slot.id
  BY <1>b DEF Slot
<1>d. /\ next_header' = secondary_slot_mut(header, new)
      /\ buf' = next_header' /\ pc' = "flush"
      /\ job' = [for |-> "open", two_phase |-> TRUE]
  BY <1>a DEF CommitRepaired, Current, CommitStart
<1>e. job' \in Jobs /\ job'.for = "open" /\ job'.two_phase
  BY <1>d DEF Jobs
<1>f. disk' = disk /\ intact' = intact /\ Outcomes' = Outcomes
  BY DEF CommitRepaired, Outcomes, history
<1>g. Verifies(new, intact' \cup written') /\ PairOf(new) \in Outcomes'
  BY <1>b, <1>f DEF Good, Verifies, PairOf
<1> HIDE DEF new
<1>h. /\ next_header' \in Header
      /\ ImagesSafe' /\ AtRest' /\ OpeningSafe' /\ UseSafe' /\ InstallSafe'
  BY <1>a, <1>c, <1>d, <1>e, <1>f, <1>g, CommitStartKeeps
<1>1. TypeOK'
  BY <1>d, <1>e, <1>h DEF SurvivalInv, CommitRepaired, TypeOK, history
<1>2. CreationSafe' /\ TreesSafe'
  BY <1>a, <1>d DEF SurvivalInv, CommitRepaired, CreationSafe, TreesSafe, history
<1>3. QED
  BY <1>h, <1>1, <1>2 DEF SurvivalInv

\* begin_writable() flushes the recovery flag; the primary is now the last
\* durable commit.
LEMMA BeginWritableKeeps ==
  ASSUME SurvivalInv, BeginWritable
  PROVE  SurvivalInv'
<1>a. /\ disk \in Header /\ header = [to_bytes(disk) EXCEPT !.recovery = FALSE]
      /\ content = "formatted" /\ Settled(disk)
      /\ Good(primary_slot(header), intact, Outcomes)
      /\ read_from_secondary = FALSE /\ txn = NoTxn
  BY DEF SurvivalInv, BeginWritable, TypeOK, CreationSafe, AtRest, OpeningSafe, TreesSafe
<1>b. /\ header \in Header /\ SlotsOk(header) /\ header.two_phase = disk.two_phase
      /\ primary_slot(header) = primary_slot(to_bytes(disk))
      /\ secondary_slot(header) = secondary_slot(to_bytes(disk))
  <2>1. /\ to_bytes(disk) \in Header /\ SlotsOk(to_bytes(disk))
        /\ to_bytes(disk).two_phase = disk.two_phase
    BY <1>a, ToBytesSlots
  <2>2. header = [to_bytes(disk) EXCEPT !.recovery = FALSE]
    BY <1>a
  <2>3. /\ header \in Header /\ SlotsOk(header)
        /\ header.two_phase = to_bytes(disk).two_phase
        /\ primary_slot(header) = primary_slot(to_bytes(disk))
        /\ secondary_slot(header) = secondary_slot(to_bytes(disk))
    BY <2>1, <2>2, RecoveryFlag
  <2>4. QED
    BY <2>1, <2>3
<1>c. /\ header' \in Header /\ header'.recovery /\ SlotsOk(header')
      /\ header'.two_phase = disk.two_phase
      /\ primary_slot(header') = primary_slot(header)
      /\ secondary_slot(header') = secondary_slot(header)
  <2>1. header' = [header EXCEPT !.recovery = TRUE]
    BY DEF BeginWritable
  <2>2. /\ header' \in Header /\ header'.recovery = TRUE /\ SlotsOk(header')
        /\ header'.two_phase = header.two_phase
        /\ primary_slot(header') = primary_slot(header)
        /\ secondary_slot(header') = secondary_slot(header)
    BY <1>b, <2>1, RecoveryFlag
  <2>3. QED
    BY <1>b, <2>2
<1>d. disk' = header' /\ buf' = header' /\ intact' = intact \cup written /\ astate' = astate
  BY DEF BeginWritable, Sync
<1>e. Good(primary_slot(header'), intact', Outcomes')
  BY <1>a, <1>c, <1>d DEF BeginWritable, Good, Verifies, Outcomes, history
<1>f. primary_slot(header).id \in Nat /\ PairOf(primary_slot(header)) \in Pair
  <2>1. primary_slot(header) \in Slot
    BY <1>b, HeaderUpdates
  <2>2. QED
    BY <1>a, <2>1 DEF SurvivalInv, TypeOK, Good, Verifies, PairOf, Pair, Slot
<1>g. next_id' \in Nat /\ next_id' >= primary_slot(header).id
  BY <1>f DEF SurvivalInv, TypeOK, BeginWritable, OpeningSafe
<1>h. Settled(disk)'
  <2>1. /\ primary_slot(disk').id = primary_slot(disk).id
        /\ secondary_slot(disk').id = secondary_slot(disk).id
    BY <1>a, <1>b, <1>c, <1>d, ToBytesRepairs
  <2>2. QED
    BY <1>a, <1>c, <1>d, <2>1 DEF Settled
<1>1. TypeOK'
  <2>1. durable' \in Pair /\ trying' \subseteq Pair
    BY <1>f DEF SurvivalInv, BeginWritable, TypeOK, history
  <2>2. QED
    BY <1>c, <1>d, <1>g, <2>1 DEF SurvivalInv, BeginWritable, TypeOK, Sync, Jobs, NoJob
<1>2. ImagesSafe'
  <2>1. Picked(disk') = disk' /\ primary_slot(disk').ok
    BY <1>c, <1>d, <1>h, SettledStays DEF SlotsOk, primary_slot, Header
  <2>2. QED
    BY <1>c, <1>d, <1>e, <2>1, GoodOpens, RestingFile
<1>3. CreationSafe'
  BY <1>a DEF SurvivalInv, BeginWritable, CreationSafe, Sync
<1>4. AtRest' /\ OpeningSafe' /\ UseSafe' /\ InstallSafe'
  BY <1>a, <1>c, <1>d, <1>e, <1>g, <1>h DEF BeginWritable, AtRest, OpeningSafe, UseSafe,
     InstallSafe
<1>5. TreesSafe'
  <2>1. Verifies(Current(header), intact \cup written)'
    BY <1>a, <1>e DEF BeginWritable, Good, Verifies, Current
  <2>2. \A root \in (intact \cup written \cup stale)' : root < next_root'
    BY DEF SurvivalInv, BeginWritable, TreesSafe, Sync
  <2>3. QED
    BY <1>a, <2>1, <2>2 DEF BeginWritable, TreesSafe
<1>6. QED
  BY <1>1, <1>2, <1>3, <1>4, <1>5 DEF SurvivalInv

\* begin_write() hands out a root that no slot names.
LEMMA BeginWriteKeeps ==
  ASSUME SurvivalInv, BeginWrite
  PROVE  SurvivalInv'
<1>a. /\ pc = "open" /\ pc' = pc /\ intact' = intact /\ Outcomes' = Outcomes
      /\ header' = header /\ disk' = disk /\ buf' = buf
      /\ read_from_secondary' = read_from_secondary
      /\ txn' = [id |-> next_id + 1, root |-> next_root] /\ next_id' = next_id + 1
  BY DEF BeginWrite, Outcomes, history
<1>b. next_id \in Nat /\ primary_slot(header).id \in Nat
  BY <1>a, HeaderUpdates DEF SurvivalInv, TypeOK, Slot
<1>1. TypeOK'
  <2>1. txn' \in Txns /\ next_id' \in Nat /\ next_root' \in 1..(MaxRoots + 1)
    BY BoundsAssumption DEF SurvivalInv, BeginWrite, TypeOK, Txns, Roots
  <2>2. written' \subseteq Roots
    BY BoundsAssumption, SMTT(30) DEF SurvivalInv, BeginWrite, TypeOK, Roots
  <2>3. QED
    BY <2>1, <2>2 DEF SurvivalInv, BeginWrite, TypeOK, history
<1>2. ImagesSafe'
  BY <1>a, RestFacts, UsedFile
<1>3. CreationSafe'
  BY DEF SurvivalInv, BeginWrite, CreationSafe, history
<1>4. AtRest' /\ OpeningSafe' /\ InstallSafe'
  <2>1. Settled(disk)'
    BY <1>a, RestFacts
  <2>2. QED
    BY <1>a, <2>1 DEF SurvivalInv, AtRest, OpeningSafe, InstallSafe
<1>5. UseSafe'
  <2>1. next_root # primary_slot(header).sys
    BY <1>a, RestFacts, SMTT(30) DEF SurvivalInv, TypeOK, TreesSafe, Good, Verifies
  <2>2. QED
    BY <1>a, <1>b, <2>1 DEF SurvivalInv, UseSafe
<1>6. TreesSafe'
  <2>1. \A root \in (intact \cup written \cup stale)' : root < next_root'
    BY BoundsAssumption, SMTT(30) DEF SurvivalInv, BeginWrite, TypeOK, Roots, TreesSafe
  <2>2. Verifies(Current(header), intact \cup written)'
    BY DEF SurvivalInv, BeginWrite, TreesSafe, Verifies, Current
  <2>3. next_root \notin {Current(header).data, Current(header).sys}
    BY SMTT(30) DEF SurvivalInv, BeginWrite, TypeOK, TreesSafe, Verifies
  <2>4. QED
    BY <2>1, <2>2, <2>3 DEF BeginWrite, TreesSafe, Current
<1>7. QED
  BY <1>1, <1>2, <1>3, <1>4, <1>5, <1>6 DEF SurvivalInv

\* Writing to free pages spares the trees of the primary.
LEMMA ReusePagesKeeps ==
  ASSUME NEW root \in Roots, SurvivalInv, ReusePages(root)
  PROVE  SurvivalInv'
<1>a. /\ pc = "open" /\ pc' = pc /\ intact' = intact \ {root} /\ Outcomes' = Outcomes
      /\ disk' = disk /\ buf' = buf /\ UNCHANGED memory
      /\ root \notin Pinned(header)
  BY DEF ReusePages, Outcomes, history
<1>b. Good(primary_slot(disk), intact', Outcomes')
  BY <1>a, RestFacts DEF Good, Verifies, Pinned
<1>1. TypeOK'
  BY Zenon DEF SurvivalInv, ReusePages, TypeOK, memory, history
<1>2. ImagesSafe'
  BY <1>a, <1>b, UsedFile
<1>3. CreationSafe'
  BY DEF SurvivalInv, ReusePages, CreationSafe, Pinned, memory, history
<1>4. AtRest'
  <2>1. Settled(disk)'
    BY <1>a, RestFacts
  <2>2. QED
    BY <1>a, <1>b, <2>1, RestFacts DEF SurvivalInv, AtRest, memory
<1>5. OpeningSafe' /\ UseSafe' /\ InstallSafe'
  BY <1>a DEF SurvivalInv, OpeningSafe, UseSafe, InstallSafe, memory
<1>6. TreesSafe'
  <2>1. Verifies(Current(header), intact \cup written)'
    BY Zenon DEF SurvivalInv, ReusePages, TreesSafe, Verifies, Current, Pinned, memory
  <2>2. txn.root \in (intact \cup written)'
    BY DEF SurvivalInv, ReusePages, TreesSafe
  <2>3. QED
    BY <2>1, <2>2, Zenon DEF SurvivalInv, ReusePages, TreesSafe, Current, memory
<1>7. QED
  BY <1>1, <1>2, <1>3, <1>4, <1>5, <1>6 DEF SurvivalInv

\* durable_commit() writes the new slot over the secondary.
LEMMA CommitDurableKeeps ==
  ASSUME NEW kind \in CommitKinds, SurvivalInv, CommitDurable(kind)
  PROVE  SurvivalInv'
<1> DEFINE new == [id |-> txn.id, data |-> txn.root, sys |-> txn.root, ok |-> TRUE]
           two_phase == kind # "one_phase"
<1>a. /\ pc = "open" /\ txn.id \in Nat /\ txn.root \in Roots
      /\ txn.root \in intact \cup written
      /\ txn.id > primary_slot(header).id /\ txn.id <= next_id /\ header.recovery
  BY Zenon DEF SurvivalInv, CommitDurable, TypeOK, TreesSafe, UseSafe, Txns
<1>b. new \in Slot /\ new.ok
  BY <1>a DEF Slot
<1>d. /\ next_header' = secondary_slot_mut(header, new)
      /\ buf' = next_header' /\ pc' = IF two_phase THEN "flush" ELSE "swap"
      /\ job' = [for |-> "user", two_phase |-> two_phase]
  BY Zenon DEF CommitDurable, CommitStart
<1>e. job' \in Jobs /\ job'.for = "user" /\ job'.two_phase = two_phase
  BY <1>d DEF Jobs
<1>f. disk' = disk /\ intact' = intact /\ Outcomes \subseteq Outcomes' /\ next_id' = next_id
  BY DEF CommitDurable, Outcomes
<1>g. Verifies(new, intact' \cup written') /\ PairOf(new) \in Outcomes'
  BY <1>a DEF CommitDurable, PairOf, Verifies, Outcomes
<1>h. new.id > primary_slot(header).id /\ next_id' >= new.id
  BY <1>a, <1>f DEF SurvivalInv, TypeOK
<1>i. pc' = IF job'.two_phase THEN "flush" ELSE "swap"
  BY <1>d, <1>e
<1>k. Settled(disk)'
  BY <1>a, <1>f, RestFacts
<1> HIDE DEF new, two_phase
<1>j. /\ next_header' \in Header
      /\ ImagesSafe' /\ AtRest' /\ OpeningSafe' /\ UseSafe' /\ InstallSafe'
  BY <1>a, <1>b, <1>d, <1>e, <1>f, <1>g, <1>h, <1>i, <1>k, CommitStartKeeps
<1>1. TypeOK'
  <2>1. astate' \in [Roots -> Nat \cup {None}] /\ trying' \subseteq Pair
    BY <1>a DEF SurvivalInv, CommitDurable, TypeOK, Pair
  <2>2. QED
    BY <1>d, <1>e, <1>i, <1>j, <2>1, Zenon DEF SurvivalInv, CommitDurable, TypeOK
<1>2. CreationSafe' /\ TreesSafe'
  BY <1>a, <1>e, <1>i, Zenon DEF SurvivalInv, CommitDurable, CreationSafe, TreesSafe
<1>3. QED
  BY <1>j, <1>1, <1>2 DEF SurvivalInv

\* non_durable_commit() replaces the secondary slot in memory only.
LEMMA CommitNonDurableKeeps ==
  ASSUME SurvivalInv, CommitNonDurable
  PROVE  SurvivalInv'
<1> DEFINE new == [id |-> txn.id, data |-> txn.root, sys |-> txn.root, ok |-> TRUE]
<1>a. /\ pc = "open" /\ header \in Header
      /\ txn.id \in Nat /\ txn.root \in Roots /\ txn.root \in intact \cup written
      /\ Current(header).sys \in Roots
  BY DEF SurvivalInv, CommitNonDurable, TypeOK, TreesSafe, Txns, Verifies
<1>b. new \in Slot
  BY <1>a DEF Slot
<1>c. header' = secondary_slot_mut(header, new)
  BY DEF CommitNonDurable
<1>d. Verifies(new, intact' \cup written')
  BY <1>a DEF CommitNonDurable, Verifies
<1> HIDE DEF new
<1>e. /\ header' \in Header
      /\ header'.primary = header.primary /\ header'.two_phase = header.two_phase
      /\ header'.recovery = header.recovery
      /\ primary_slot(header') = primary_slot(header)
      /\ secondary_slot(header') = new
  <2>1. header'.recovery = header.recovery
    BY <1>a, <1>c DEF secondary_slot_mut, Header
  <2>2. QED
    BY <1>a, <1>b, <1>c, <2>1, SecondarySlotMut
<1>f. /\ pc' = pc /\ disk' = disk /\ buf' = buf /\ intact' = intact /\ Outcomes' = Outcomes
      /\ read_from_secondary' /\ txn' = NoTxn /\ next_id' = next_id
  BY DEF CommitNonDurable, Outcomes, history
<1>1. TypeOK'
  <2>1. astate' \in [Roots -> Nat \cup {None}]
    BY <1>a, Zenon DEF SurvivalInv, CommitNonDurable, TypeOK
  <2>2. QED
    BY <1>e, <2>1, Zenon DEF SurvivalInv, CommitNonDurable, TypeOK, Txns, history
<1>2. ImagesSafe'
  BY <1>a, <1>f, RestFacts, UsedFile
<1>3. CreationSafe'
  BY SMTT(30) DEF SurvivalInv, CommitNonDurable, CreationSafe, history
<1>g. Settled(disk)'
  BY <1>a, <1>f, RestFacts
<1>4. AtRest' /\ OpeningSafe' /\ InstallSafe'
  BY <1>a, <1>e, <1>f, <1>g DEF SurvivalInv, AtRest, OpeningSafe, InstallSafe
<1>5. UseSafe'
  BY <1>a, <1>e, <1>f DEF SurvivalInv, UseSafe, GodByteOf
<1>6. TreesSafe'
  <2>1. Current(header)' = new
    BY <1>e, <1>f DEF Current
  <2>2. QED
    BY <1>d, <2>1 DEF SurvivalInv, CommitNonDurable, TreesSafe
<1>7. QED
  BY <1>1, <1>2, <1>3, <1>4, <1>5, <1>6 DEF SurvivalInv

\* abort() drops the trees of the transaction, which no slot names.
LEMMA AbortKeeps ==
  ASSUME SurvivalInv, Abort
  PROVE  SurvivalInv'
<1>a. /\ pc = "open" /\ pc' = pc /\ disk' = disk /\ buf' = buf /\ intact' = intact
      /\ Outcomes' = Outcomes /\ header' = header /\ txn' = NoTxn /\ next_id' = next_id
      /\ read_from_secondary' = read_from_secondary
  BY DEF Abort, Outcomes, history
<1>1. TypeOK'
  BY SMTT(30) DEF SurvivalInv, Abort, TypeOK, Txns, history
<1>2. ImagesSafe'
  BY <1>a, RestFacts, UsedFile
<1>3. CreationSafe'
  BY DEF SurvivalInv, Abort, CreationSafe, history
<1>4. AtRest' /\ OpeningSafe' /\ UseSafe' /\ InstallSafe'
  <2>1. Settled(disk)'
    BY <1>a, RestFacts
  <2>2. QED
    BY <1>a, <2>1 DEF SurvivalInv, AtRest, OpeningSafe, UseSafe, InstallSafe
<1>5. TreesSafe'
  BY Zenon DEF SurvivalInv, Abort, TreesSafe, Current, Verifies
<1>6. QED
  BY <1>1, <1>2, <1>3, <1>4, <1>5 DEF SurvivalInv

\* Closing commits the current data root with quick-repair, in two phases.
LEMMA CloseKeeps ==
  ASSUME SurvivalInv, Close
  PROVE  SurvivalInv'
<1> DEFINE new == [id |-> next_id + 1, data |-> Current(header).data,
                   sys |-> next_root, ok |-> TRUE]
<1>a. /\ next_root \in Roots /\ next_root + 1 \in 1..(MaxRoots + 1)
  BY BoundsAssumption DEF SurvivalInv, Close, TypeOK, Roots
<1>b. /\ pc = "open" /\ header.recovery /\ Current(header).data \in Roots
      /\ Current(header).data \in intact \cup written
  BY Zenon DEF SurvivalInv, Close, TypeOK, TreesSafe, UseSafe, Verifies
<1>c. next_id \in Nat /\ next_id >= primary_slot(header).id /\ primary_slot(header).id \in Nat
  BY <1>b, HeaderUpdates DEF SurvivalInv, TypeOK, UseSafe, Slot
<1>d. /\ next_header' = secondary_slot_mut(header, new)
      /\ buf' = next_header' /\ pc' = "flush"
      /\ job' = [for |-> "close", two_phase |-> TRUE]
  BY DEF Close, CommitStart
<1>e. job' \in Jobs /\ job'.two_phase /\ job'.for = "close"
  BY <1>d DEF Jobs
<1>f. disk' = disk /\ intact' = intact /\ Outcomes \subseteq Outcomes'
  BY DEF Close, Outcomes
<1>g. Verifies(new, intact' \cup written') /\ PairOf(new) \in Outcomes'
  BY <1>b DEF Close, PairOf, Verifies, Outcomes
<1>h. new \in Slot /\ new.ok /\ new.id > primary_slot(header).id
  BY <1>a, <1>b, <1>c, SMTT(30) DEF Slot
<1> HIDE DEF new
<1>i. /\ next_header' \in Header
      /\ ImagesSafe' /\ AtRest' /\ OpeningSafe' /\ UseSafe' /\ InstallSafe'
  BY <1>b, <1>d, <1>e, <1>f, <1>g, <1>h, CommitStartKeeps
<1>1. TypeOK'
  <2>1. astate' \in [Roots -> Nat \cup {None}]
    BY <1>a, <1>c DEF SurvivalInv, Close, TypeOK
  <2>2. trying' \subseteq Pair
    <3>1. [data |-> Current(header).data, sys |-> next_root] \in Pair
      BY <1>a, <1>b DEF Pair
    <3>2. trying \subseteq Pair
      BY DEF SurvivalInv, TypeOK
    <3>3. QED
      BY <3>1, <3>2 DEF Close
  <2>3. written' \subseteq Roots /\ next_id' \in Nat
    BY <1>a, <1>c, SMTT(30) DEF SurvivalInv, Close, TypeOK
  <2>4. QED
    BY <1>a, <1>d, <1>e, <1>i, <2>1, <2>2, <2>3, Zenon DEF SurvivalInv, Close, TypeOK
<1>2. CreationSafe'
  BY <1>b, <1>d, <1>f, Zenon DEF SurvivalInv, Close, CreationSafe
<1>3. TreesSafe'
  <2>1. \A root \in (intact \cup written \cup stale)' : root < next_root'
    BY <1>a, SMTT(30) DEF SurvivalInv, Close, TypeOK, Roots, TreesSafe
  <2>2. QED
    BY <1>d, <1>e, <2>1, Zenon DEF SurvivalInv, Close, TreesSafe
<1>4. QED
  BY <1>i, <1>1, <1>2, <1>3 DEF SurvivalInv

\* The first flush of a 2-phase commit.
LEMMA CommitFlushKeeps ==
  ASSUME SurvivalInv, CommitFlush
  PROVE  SurvivalInv'
<1>a. /\ next_header \in Header /\ buf = next_header /\ SlotsOk(next_header) /\ job.two_phase
      /\ Good(primary_slot(next_header), intact, Outcomes)
      /\ PairOf(secondary_slot(next_header)) \in Outcomes
  BY DEF SurvivalInv, CommitFlush, TypeOK, AtRest, InstallSafe, Installs
<1>b. /\ disk' = next_header /\ buf' = next_header /\ next_header' = next_header
      /\ intact' = intact \cup written /\ written' = {} /\ Outcomes' = Outcomes
      /\ job' = job /\ next_id' = next_id /\ pc = "flush" /\ pc' = "swap"
  BY <1>a DEF CommitFlush, Sync, memory, history, Outcomes
<1>1. TypeOK'
  BY SMTT(30) DEF SurvivalInv, CommitFlush, TypeOK, Sync, memory, history
<1>2. ImagesSafe'
  <2>1. primary_slot(next_header).ok
    BY <1>a DEF SlotsOk, primary_slot, Header
  <2>2. Opens(next_header, intact, Maybe, Outcomes)
    BY <1>a, <2>1, GoodOpens
  <2>3. QED
    BY <1>a, <2>2, SyncedFile DEF CommitFlush
<1>3. CreationSafe' /\ TreesSafe'
  BY Zenon DEF SurvivalInv, CommitFlush, CreationSafe, TreesSafe, Sync, memory, history
<1>4. AtRest' /\ OpeningSafe' /\ UseSafe'
  BY <1>a, <1>b DEF AtRest, OpeningSafe, UseSafe
<1>5. InstallSafe'
  <2>1. /\ Good(primary_slot(next_header), intact', Outcomes')
        /\ Verifies(secondary_slot(next_header), intact')
        /\ Installs(secondary_slot(next_header), primary_slot(next_header))'
    BY <1>b DEF SurvivalInv, InstallSafe, Good, Installs, Verifies
  <2>2. QED
    BY <1>a, <1>b, <2>1 DEF SurvivalInv, InstallSafe
<1>6. QED
  BY <1>1, <1>2, <1>3, <1>4, <1>5 DEF SurvivalInv

\* The god byte of a 2-phase commit leads to durable trees.  That of a 1-phase
\* commit leads to a slot and trees in doubt, with the old primary to fall back
\* to; and if the new slot is not there, the one that is is older than the
\* primary.
LEMMA CommitSwapKeeps ==
  ASSUME Survivable, SurvivalInv, CommitSwap
  PROVE  SurvivalInv'
<1> DEFINE old == primary_slot(next_header)
           new == secondary_slot(next_header)
           next == next_header'
<1>a. /\ next_header \in Header /\ disk \in Header /\ content = "formatted"
      /\ job.two_phase \in BOOLEAN /\ SlotsOk(disk) /\ SlotsOk(next_header)
      /\ GodByteOf(next_header) = GodByteOf(disk) /\ old = primary_slot(disk)
      /\ Good(old, intact, Outcomes) /\ Installs(new, old)
      /\ job.two_phase => disk = next_header /\ Verifies(new, intact)
      /\ ~job.two_phase => Settled(disk) /\ next_header.recovery
  BY DEF SurvivalInv, CommitSwap, TypeOK, Jobs, CreationSafe, AtRest, InstallSafe
<1>b. /\ swap_primary_slot(next_header) \in Header
      /\ primary_slot(swap_primary_slot(next_header)) = new
      /\ secondary_slot(swap_primary_slot(next_header)) = old
      /\ swap_primary_slot(next_header).slot = next_header.slot
      /\ swap_primary_slot(next_header).recovery = next_header.recovery
      /\ swap_primary_slot(next_header).primary = 1 - next_header.primary
  BY <1>a, HeaderUpdates DEF swap_primary_slot, Header
<1>c. /\ next \in Header /\ next.two_phase = job.two_phase
      /\ next.slot = next_header.slot /\ next.recovery = next_header.recovery
      /\ next.primary = 1 - next_header.primary
      /\ primary_slot(next) = new /\ secondary_slot(next) = old
  <2>1. /\ next \in Header /\ next.two_phase = job.two_phase
        /\ next.slot = next_header.slot /\ next.recovery = next_header.recovery
        /\ next.primary = swap_primary_slot(next_header).primary
    BY <1>a, <1>b, Zenon DEF CommitSwap, Header
  <2>2. QED
    BY <1>b, <2>1 DEF primary_slot, secondary_slot
<1>d. /\ content' = content /\ disk' = disk /\ buf' = next /\ intact' = intact
      /\ written' = written /\ Maybe' = Maybe /\ Outcomes' = Outcomes /\ astate' = astate
      /\ job' = job /\ next_id' = next_id /\ pc = "swap" /\ pc' = "sync"
  BY DEF CommitSwap, Maybe, Outcomes, history
<1>e. PairOf(new) \in Outcomes /\ new.ok /\ old.ok
  BY <1>a DEF Installs, SlotsOk, primary_slot, secondary_slot, Header
<1>f. /\ next_header.primary = disk.primary /\ next_header.recovery = disk.recovery
      /\ next_header.two_phase = disk.two_phase
  BY <1>a DEF GodByteOf
<1>g. SlotsOk(next)
  BY <1>a, <1>c DEF SlotsOk
<1>1. TypeOK'
  BY <1>c, <1>d DEF SurvivalInv, CommitSwap, TypeOK, history
<1>2. ImagesSafe'
  <2>1. ASSUME job.two_phase, NEW h \in Header, ImageOf(h, disk, next)
        PROVE  Opens(h, intact, Maybe, Outcomes)
    <3>1. h \in {disk, next}
      BY <1>a, <1>c, <2>1, TwoImages
    <3>2. Opens(disk, intact, Maybe, Outcomes)
      BY <1>a, <1>e, <2>1, GoodOpens
    <3>3. Picked(next) = next
      BY <1>c, <2>1 DEF Picked, pick_primary_for_repair, PickSwaps
    <3>4. Opens(next, intact, Maybe, Outcomes)
      BY <1>a, <1>c, <1>e, <2>1, <3>3, GoodOpens DEF Good
    <3>5. QED
      BY <3>1, <3>2, <3>4
  <2>2. ASSUME ~job.two_phase, Interruptible', NEW h \in Header, ImageOf(h, disk, next)
        PROVE  Opens(h, intact, Maybe, Outcomes)
    <3>1. Picked(disk) = disk
      BY <1>a, <2>2, SettledStays
    <3>2. HeaderWrites = "ordered" \/ secondary_slot(disk).id < primary_slot(disk).id
      <4>1. disk.primary \in {0, 1} /\ next.primary # disk.primary
        BY <1>a, <1>c, <1>f DEF Header
      <4>2. HeaderWrites # "ordered" => ~(secondary_slot(disk).id >= primary_slot(disk).id)
        BY <1>d, <2>2, <4>1 DEF Survivable, Interruptible
      <4>3. secondary_slot(disk).id \in Nat /\ primary_slot(disk).id \in Nat
        BY <1>a, HeaderUpdates DEF Slot
      <4>4. QED
        BY <4>2, <4>3
    <3>3. /\ next.slot[disk.primary] = disk.slot[disk.primary]
          /\ next.slot[1 - disk.primary] = new
      BY <1>a, <1>c, <1>f DEF primary_slot, secondary_slot
    <3>4. /\ next.primary = 1 - disk.primary /\ ~next.two_phase /\ next.recovery
          /\ next.recovery = disk.recovery
      BY <1>a, <1>c, <1>f, <2>2
    <3>5. QED
      BY <1>a, <1>c, <1>e, <2>2, <3>1, <3>2, <3>3, <3>4, InstallOpens
  <2>3. QED
    BY <1>a, <1>d, <1>g, <2>1, <2>2 DEF ImagesSafe
<1>3. CreationSafe' /\ TreesSafe'
  BY DEF SurvivalInv, CommitSwap, CreationSafe, TreesSafe, history
<1>4. AtRest' /\ OpeningSafe' /\ UseSafe'
  BY <1>a, <1>d, <1>g DEF AtRest, OpeningSafe, UseSafe
<1>5. InstallSafe'
  <2>1. Installs(primary_slot(next_header), secondary_slot(next_header))'
    BY <1>a, <1>c, <1>d DEF Installs
  <2>2. QED
    BY <1>a, <1>c, <1>d, <2>1 DEF SurvivalInv, InstallSafe
<1>6. QED
  BY <1>1, <1>2, <1>3, <1>4, <1>5 DEF SurvivalInv

\* The last flush makes the new slot and its trees durable.
LEMMA CommitSyncKeeps ==
  ASSUME SurvivalInv, CommitSync
  PROVE  SurvivalInv'
<1>a. /\ next_header \in Header /\ buf = next_header /\ SlotsOk(next_header)
      /\ Installs(primary_slot(next_header), secondary_slot(next_header))
  BY DEF SurvivalInv, CommitSync, TypeOK, AtRest, InstallSafe
<1>b. /\ disk' = next_header /\ buf' = next_header /\ next_header' = next_header
      /\ intact' = intact \cup written /\ written' = {} /\ Outcomes' = Outcomes
      /\ job' = job /\ next_id' = next_id /\ pc = "sync" /\ pc' = "publish"
  BY <1>a DEF CommitSync, Sync, memory, history, Outcomes
<1>c. Good(primary_slot(next_header), intact', Outcomes')
  BY <1>a, <1>b DEF Installs, Good
<1>1. TypeOK'
  BY Zenon DEF SurvivalInv, CommitSync, TypeOK, Sync, memory, history
<1>2. ImagesSafe'
  <2>1. Settled(next_header)
    <3>1. primary_slot(next_header).id \in Nat /\ secondary_slot(next_header).id \in Nat
      BY <1>a, HeaderUpdates DEF Slot
    <3>2. QED
      BY <1>a, <3>1 DEF Installs, Settled
  <2>2. Picked(next_header) = next_header /\ primary_slot(next_header).ok
    BY <1>a, <2>1, SettledStays DEF SlotsOk, primary_slot, Header
  <2>3. Opens(next_header, intact', Maybe', Outcomes')
    BY <1>a, <1>c, <2>2, GoodOpens
  <2>4. QED
    BY <1>a, <1>b, <2>3, RestingFile
<1>3. CreationSafe' /\ TreesSafe'
  BY Zenon DEF SurvivalInv, CommitSync, CreationSafe, TreesSafe, Sync, memory, history
<1>4. AtRest' /\ OpeningSafe' /\ UseSafe'
  BY <1>a, <1>b DEF AtRest, OpeningSafe, UseSafe
<1>5. InstallSafe'
  <2>1. /\ Verifies(primary_slot(next_header), intact')
        /\ Installs(primary_slot(next_header), secondary_slot(next_header))'
    BY <1>b DEF SurvivalInv, InstallSafe, Installs, Verifies
  <2>2. QED
    BY <1>b, <2>1 DEF SurvivalInv, InstallSafe
<1>6. QED
  BY <1>1, <1>2, <1>3, <1>4, <1>5 DEF SurvivalInv

\* When commit() returns, the new primary is durable and the only outcome.
LEMMA CommitPublishKeeps ==
  ASSUME SurvivalInv, CommitPublish
  PROVE  SurvivalInv'
<1> DEFINE new == primary_slot(next_header)
           old == secondary_slot(next_header)
<1>a. /\ next_header \in Header /\ disk = next_header /\ buf = disk
      /\ content = "formatted" /\ SlotsOk(disk)
      /\ job.for \in {"open", "user", "close"}
      /\ next_header.recovery <=> job.for # "open"
      /\ job.for = "open" => next_header.two_phase
      /\ Verifies(new, intact) /\ Installs(new, old)
  BY DEF SurvivalInv, CommitPublish, TypeOK, CreationSafe, AtRest, InstallSafe
<1>b. PairOf(new) \in Pair /\ new.id \in Nat /\ old.id \in Nat
  BY <1>a, HeaderUpdates DEF SurvivalInv, TypeOK, Verifies, PairOf, Pair, Slot
<1>c. durable' \in Pair /\ trying' \subseteq Pair /\ PairOf(new) \in Outcomes'
  BY <1>a, <1>b DEF SurvivalInv, CommitPublish, TypeOK, Outcomes, Installs, history
<1>d. /\ header' = disk /\ disk' = disk /\ buf' = disk /\ intact' = intact
      /\ next_id' = next_id /\ txn' = NoTxn /\ read_from_secondary' = FALSE
      /\ \/ job.for = "user" /\ pc' = "open"
         \/ job.for = "close" /\ pc' = "closing"
         \/ job.for = "open" /\ pc' = "ready" /\ job' = job
  BY <1>a DEF CommitPublish, file
<1>e. secondary_slot(disk).id < primary_slot(disk).id
  BY <1>a, <1>b DEF Installs
<1>f. primary_slot(disk) = new /\ Good(primary_slot(disk), intact', Outcomes')
  BY <1>a, <1>c, <1>d DEF Good
<1>g. job.for = "user" => next_id >= new.id
  BY <1>a DEF Installs
<1>h. Settled(disk)' /\ Picked(disk) = disk /\ primary_slot(disk).ok
  <2>1. Settled(disk) /\ disk \in Header
    BY <1>a, <1>e DEF Settled
  <2>2. QED
    BY <1>a, <1>d, <1>e, <2>1, SettledStays DEF SlotsOk, primary_slot, Header
<1> HIDE DEF new, old
<1>1. TypeOK'
  BY <1>a, <1>c, <1>d, Zenon DEF SurvivalInv, CommitPublish, TypeOK, Txns, Jobs, NoJob, file
<1>2. ImagesSafe'
  BY <1>a, <1>d, <1>f, <1>h, GoodOpens, RestingFile
<1>3. CreationSafe'
  BY <1>a, <1>d DEF SurvivalInv, CommitPublish, CreationSafe, file
<1>4. AtRest' /\ InstallSafe'
  BY <1>a, <1>d, <1>f, <1>h DEF AtRest, InstallSafe
<1>5. OpeningSafe'
  <2>1. to_bytes(disk) = disk
    BY <1>a, ToBytesSlots
  <2>2. job.for = "open" => disk = [to_bytes(disk) EXCEPT !.recovery = FALSE]
    BY <1>a, <2>1 DEF Header
  <2>3. QED
    BY <1>a, <1>d, <2>2 DEF OpeningSafe
<1>6. UseSafe'
  BY <1>a, <1>d, <1>f, <1>g DEF UseSafe
<1>7. TreesSafe'
  <2>1. Verifies(Current(header), intact \cup written)'
    BY <1>d, <1>f DEF Current, Good, Verifies
  <2>2. QED
    BY <1>d, <2>1 DEF SurvivalInv, CommitPublish, TreesSafe, file
<1>8. QED
  BY <1>1, <1>2, <1>3, <1>4, <1>5, <1>6, <1>7 DEF SurvivalInv

\* close() clears the recovery flag: the next opening takes the primary.
LEMMA CloseFinishKeeps ==
  ASSUME SurvivalInv, CloseFinish
  PROVE  SurvivalInv'
<1> DEFINE h == [header EXCEPT !.recovery = FALSE]
<1>a. /\ header \in Header /\ SlotsOk(header) /\ Good(primary_slot(header), intact, Outcomes)
  BY DEF SurvivalInv, CloseFinish, TypeOK, AtRest
<1>b. h \in Header /\ SlotsOk(h) /\ primary_slot(h) = primary_slot(header) /\ ~h.recovery
  BY <1>a, RecoveryFlag
<1>c. Sync(h) /\ UNCHANGED history
  BY DEF CloseFinish
<1> HIDE DEF h
<1>d. Opens(h, intact, Maybe, Outcomes)
  BY <1>a, <1>b, GoodOpens DEF Picked
<1>1. TypeOK'
  BY <1>b, <1>c, HeaderTypes, Zenon DEF SurvivalInv, CloseFinish, Sync, Forget, TypeOK,
       Txns, Jobs, NoJob, history
<1>2. ImagesSafe'
  BY <1>b, <1>c, <1>d, SyncedFile
<1>3. CreationSafe' /\ TreesSafe'
  BY <1>c, SMTT(30) DEF SurvivalInv, CloseFinish, Forget, CreationSafe, TreesSafe, Sync, history
<1>4. AtRest' /\ OpeningSafe' /\ UseSafe' /\ InstallSafe'
  BY <1>c DEF CloseFinish, Forget, Sync, AtRest, OpeningSafe, UseSafe, InstallSafe
<1>5. QED
  BY <1>1, <1>2, <1>3, <1>4 DEF SurvivalInv

\* check_integrity() reads back the header that is in memory.
LEMMA CheckIntegrityKeeps ==
  ASSUME Survivable, SurvivalInv, CheckIntegrity
  PROVE  SurvivalInv'
<1>a. pc = "open" /\ read_from_secondary = FALSE /\ header = disk
  BY DEF Survivable, SurvivalInv, CheckIntegrity, TypeOK, UseSafe
<1>b. next_id >= primary_slot(header).id
  BY <1>a DEF SurvivalInv, UseSafe
<1>c. header' = disk
  <2>1. pick_primary_for_repair(disk) = disk
    BY <1>a, RestFacts, SettledStays
  <2>2. QED
    BY <1>a, <2>1, RestFacts, ToBytesSlots DEF CheckIntegrity
<1>d. /\ Sync(disk) /\ UNCHANGED history /\ pc' = "checking" /\ job' = Job("check")
      /\ astate' = astate
  BY <1>c DEF CheckIntegrity
<1>e. Opens(disk, intact, Maybe, Outcomes)
  BY <1>a, RestFacts, GoodOpens
<1>f. disk' = disk /\ buf' = disk /\ Good(primary_slot(disk), intact', Outcomes')
  BY <1>a, <1>d, RestFacts DEF Sync, Good, Verifies, Outcomes, history
<1>g. job'.for = "check" /\ next_id' = next_id
  BY <1>d DEF Job, CheckIntegrity
<1>h. Settled(disk)'
  BY <1>a, <1>f, RestFacts
<1>1. TypeOK'
  BY <1>c, Zenon DEF SurvivalInv, CheckIntegrity, Sync, TypeOK, Jobs, Job, history
<1>2. ImagesSafe'
  BY <1>a, <1>d, <1>e, RestFacts, SyncedFile
<1>3. CreationSafe' /\ TreesSafe'
  BY <1>a, <1>d, Zenon DEF SurvivalInv, CheckIntegrity, CreationSafe, TreesSafe, Sync, history
<1>4. AtRest' /\ OpeningSafe' /\ UseSafe' /\ InstallSafe'
  <2>1. SlotsOk(disk)
    BY <1>a, RestFacts
  <2>2. QED
    BY <1>a, <1>b, <1>c, <1>d, <1>f, <1>g, <1>h, <2>1
       DEF AtRest, OpeningSafe, UseSafe, InstallSafe
<1>5. QED
  BY <1>1, <1>2, <1>3, <1>4 DEF SurvivalInv

\* What Crash makes of the header is an image of what is on disk and what was
\* written.
LEMMA CrashImage ==
  ASSUME TypeOK, NEW h \in HeaderImages
  PROVE  h \in Header /\ ImageOf(h, disk, buf)
<1>a. h \in Header /\ disk \in Header /\ buf \in Header
  BY HeaderImage DEF TypeOK
<1>1. PICK god \in {disk, buf},
           s0 \in SlotImages(disk.slot[0], buf.slot[0]),
           s1 \in SlotImages(disk.slot[1], buf.slot[1]) :
        h = [god EXCEPT !.slot = [i \in {0, 1} |-> IF i = 0 THEN s0 ELSE s1]]
  BY DEF HeaderImages
<1>2. /\ h.primary = god.primary /\ h.recovery = god.recovery /\ h.two_phase = god.two_phase
      /\ h.slot[0] = s0 /\ h.slot[1] = s1
  BY <1>a, <1>1 DEF Header
<1>3. GodByteOf(h) \in {GodByteOf(disk), GodByteOf(buf)}
  BY <1>1, <1>2 DEF GodByteOf
<1>4. HeaderWrites = "ordered" => GodByteOf(h) = GodByteOf(disk) \/ h = buf
  BY DEF HeaderImages
<1>5. \A old, new : \A s \in SlotImages(old, new) :
        s \in {old, new} \/ (HeaderWrites = "torn" /\ old # new /\ ~s.ok)
  BY DEF SlotImages
<1>6. QED
  BY <1>a, <1>2, <1>3, <1>4, <1>5 DEF ImageOf

\* Whatever a crash leaves of the unsynced writes satisfies the invariant.
LEMMA CrashKeeps ==
  ASSUME SurvivalInv, Crash
  PROVE  SurvivalInv'
<1>a. /\ disk' \in Header /\ ImageOf(disk', disk, buf) /\ buf' = disk' /\ Interruptible
  BY CrashImage DEF SurvivalInv, Crash
<1>b. /\ intact \subseteq intact' /\ Maybe' \subseteq Maybe /\ Outcomes' = Outcomes
      /\ intact' \subseteq intact \cup written \cup stale
  BY SMTT(30) DEF Crash, TreeImages, Maybe, Outcomes, history
<1>1. TypeOK'
  BY <1>a, <1>b, HeaderTypes, Zenon DEF SurvivalInv, Crash, Forget, TypeOK, Txns, Jobs, NoJob,
       history
<1>2. ImagesSafe'
  <2>1. SUFFICES ASSUME content' = "formatted" PROVE ImagesSafe'
    BY DEF ImagesSafe
  <2>2. content = "formatted"
    BY <2>1, SMTT(30) DEF Crash
  <2>3. Opens(disk', intact, Maybe, Outcomes)
    BY <1>a, <2>2 DEF SurvivalInv, ImagesSafe
  <2>4. Opens(disk', intact', Maybe', Outcomes')
    BY <1>b, <2>3, OpensMonotone
  <2>5. HeaderWrites # "torn" => SlotsOk(disk')
    BY <1>a, <2>2 DEF SurvivalInv, ImagesSafe, ImageOf, SlotsOk
  <2>6. QED
    BY <1>a, <2>4, <2>5, RestingFile
<1>3. CreationSafe'
  BY <1>b DEF SurvivalInv, Crash, Forget, CreationSafe, history
<1>4. AtRest' /\ OpeningSafe' /\ UseSafe' /\ InstallSafe'
  BY <1>a DEF Crash, Forget, AtRest, OpeningSafe, UseSafe, InstallSafe
<1>5. TreesSafe'
  BY <1>b DEF SurvivalInv, Crash, Forget, TreesSafe
<1>6. QED
  BY <1>1, <1>2, <1>3, <1>4, <1>5 DEF SurvivalInv

-----------------------------------------------------------------------------

\* Every step of the specification preserves the invariant.
LEMMA NextKeeps == Survivable /\ SurvivalInv /\ [Next]_vars => SurvivalInv'
<1> SUFFICES ASSUME Survivable, SurvivalInv, [Next]_vars PROVE SurvivalInv'
  OBVIOUS
<1>1. CASE Next
  <2>1. ~DoRepairFails
    BY RepairSucceeds DEF DoRepairFails
  <2>2. QED
    BY <1>1, <2>1, CreateFileKeeps, CreateFlushKeeps, CreateMagicKeeps, OpenCleanKeeps,
       OpenPickKeeps, OpenPickFlushKeeps, LoadAllocatorStateKeeps, DoRepairKeeps,
       AbortRepairKeeps, CommitRepairedKeeps, BeginWritableKeeps, BeginWriteKeeps,
       ReusePagesKeeps, CommitDurableKeeps, CommitFlushKeeps, CommitSwapKeeps,
       CommitSyncKeeps, CommitPublishKeeps, CommitNonDurableKeeps, AbortKeeps,
       CloseKeeps, CloseFinishKeeps, CheckIntegrityKeeps, IoErrorKeeps, CrashKeeps, Zenon
       DEF Next
<1>2. CASE UNCHANGED vars
  <2> USE <1>2 DEF vars, file, memory, history
  <2>1. TypeOK'
    BY Zenon DEF SurvivalInv, TypeOK
  <2>2. ImagesSafe'
    <3>1. Interruptible' => Interruptible
      BY Zenon DEF Interruptible
    <3>2. QED
      BY <3>1, SameFile DEF SurvivalInv
  <2>3. CreationSafe' /\ TreesSafe'
    BY DEF SurvivalInv, CreationSafe, TreesSafe, Current
  <2>4. AtRest' /\ OpeningSafe' /\ UseSafe' /\ InstallSafe'
    <3>1. Settled(disk)' = Settled(disk)
      BY Zenon DEF Settled
    <3>2. Maybe' = Maybe /\ Outcomes' = Outcomes
      BY DEF Maybe, Outcomes
    <3>3. AtRest'
      BY <3>1, <3>2, Zenon DEF SurvivalInv, AtRest
    <3>4. OpeningSafe' /\ UseSafe'
      BY <3>2, Zenon DEF SurvivalInv, OpeningSafe, UseSafe
    <3>5. InstallSafe'
      BY <3>1, <3>2, Zenon DEF SurvivalInv, InstallSafe, Installs
    <3>6. QED
      BY <3>3, <3>4, <3>5
  <2>5. QED
    BY <2>1, <2>2, <2>3, <2>4 DEF SurvivalInv
<1>3. QED
  BY <1>1, <1>2

\* A header that opens recovers one of the outcomes, whichever trees are there.
LEMMA OpensRecovers ==
  ASSUME NEW h, NEW trees, NEW some, NEW maybe, NEW outcomes,
         some \subseteq trees, trees \subseteq maybe, Opens(h, some, maybe, outcomes)
  PROVE  Recovered(h, trees) \in outcomes
<1> DEFINE p == Picked(h)
<1>1. Recovered(h, trees) =
        IF Verifies(primary_slot(p), trees) THEN PairOf(primary_slot(p))
        ELSE IF ~p.two_phase /\ Verifies(secondary_slot(p), trees)
             THEN PairOf(secondary_slot(p))
        ELSE NoPair
  BY DEF Recovered, Picked, Opens
<1>2. CASE Good(primary_slot(p), some, outcomes)
  BY <1>1, <1>2 DEF Good, Verifies
<1>3. CASE ~Good(primary_slot(p), some, outcomes)
  <2>1. /\ ~p.two_phase /\ Harmless(primary_slot(p), maybe, outcomes)
        /\ Good(secondary_slot(p), some, outcomes)
    BY <1>3 DEF Opens, Repairs
  <2>2. QED
    BY <1>1, <2>1 DEF Good, Harmless, Verifies
<1>4. QED
  BY <1>2, <1>3

\* The invariant says that every crash is survived.
LEMMA SurvivalCrashSafe == SurvivalInv => CrashSafe
<1> SUFFICES ASSUME SurvivalInv, content = "formatted", Interruptible,
                    NEW h \in HeaderImages, NEW trees \in TreeImages
             PROVE  Recovered(h, trees) \in {durable} \cup trying
  BY DEF CrashSafe
<1>1. intact \subseteq trees /\ trees \subseteq Maybe
  BY DEF TreeImages, Maybe
<1>2. Opens(h, intact, Maybe, Outcomes)
  BY CrashImage DEF SurvivalInv, ImagesSafe
<1>3. Recovered(h, trees) \in Outcomes
  BY <1>1, <1>2, OpensRecovers
<1>4. QED
  BY <1>3 DEF Outcomes

\* Crash safety of every kind of commit, 1-phase ones included, for every number
\* of roots and ids: whether the god byte reaches the disk before or after the
\* slots, and even if a slot is torn, a database that crashes during a commit, a
\* check or closing opens again, with the last durable commit or the one that was
\* in progress.  A crash while an earlier one is being repaired is covered unless
\* a slot was torn; a crash in the first 1-phase commit over one that a quick repair
\* rolled back only if the god byte is written last.
THEOREM AnyCommitCrashSafe == Survivable => (Spec => []CrashSafe)
<1>1. Survivable => (SurvivalInv /\ [Next]_vars => SurvivalInv')
  BY NextKeeps
<1>2. SurvivalInv => CrashSafe
  BY SurvivalCrashSafe
<1>3. QED
  <2> SUFFICES ASSUME Survivable PROVE Spec => []CrashSafe
    OBVIOUS
  <2> QED BY <1>1, <1>2, InitKeeps, PTL DEF Spec
=============================================================================
