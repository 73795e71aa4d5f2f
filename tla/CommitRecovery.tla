--------------------------- MODULE CommitRecovery ---------------------------
(***************************************************************************)
(* The commit and recovery protocol of redbx: the database header with its *)
(* god byte and two commit slots (header.rs), TransactionalMemory's        *)
(* durable and non-durable commits (page_manager.rs), and opening,         *)
(* repairing, checking and closing a Database (db.rs).                     *)
(*                                                                         *)
(* A step of this module is the code between two points at which a crash   *)
(* leaves different bytes on the disk.  A write that changes the god byte  *)
(* alone and is followed at once by an fsync is one step: the byte is      *)
(* written whole or not at all, so crashing in between is crashing before  *)
(* or after it.                                                            *)
(*                                                                         *)
(* A b-tree is known here by the number of the root that was made for it.  *)
(* A slot names a data root and a system root; verifying a slot's          *)
(* checksums succeeds exactly when every page of both trees is on disk.    *)
(***************************************************************************)
EXTENDS Integers

CONSTANTS
  MaxRoots,             \* bound: trees made by write transactions
  MaxId,                \* bound: transaction ids (u64 in the code)
  CommitKinds,          \* the kinds of durable commit that the application uses
  HeaderWrites,         \* what a crash does to a header that is being written
  CrashDuring,          \* what else than plain operation a crash can cut short
  CheckAfterNonDurable  \* is check_integrity() called on non-durable commits?

ASSUME BoundsAssumption == MaxRoots \in Nat /\ MaxId \in Nat

ASSUME SwitchAssumption ==
  /\ CommitKinds \subseteq {"one_phase", "two_phase", "quick_repair"}
  /\ HeaderWrites \in {"ordered", "parts", "torn"}
  /\ CrashDuring \subseteq {"repair", "first_commit"}
  /\ CheckAfterNonDurable \in BOOLEAN

VARIABLES
  \* The file.
  content,        \* "empty", "unformatted", or "formatted": magic number set
  disk,           \* the header as of the last fsync
  buf,            \* the header as last written; it equals disk once synced
  intact,         \* roots all of whose pages are durable
  written,        \* roots whose pages were written since the last fsync
  stale,          \* roots with pages that were reused since the last fsync
  astate,         \* root -> id in the allocator state table of that tree
  \* TransactionalMemory and Database.
  pc,             \* where the owner of the file is
  header,         \* InMemoryState.header
  next_header,    \* commit_inner()'s local copy of the header
  job,            \* what the commit in progress is for, and what it installs
  read_from_secondary,
  needs_recovery,
  txn,            \* root and id of the live WriteTransaction
  next_id,        \* TransactionTracker's next_transaction_id
  next_root,      \* next unused root number
  \* History.
  durable,        \* roots of the last commit known to be durable
  trying          \* roots of durable commits whose outcome is unknown

file == <<content, disk, buf, intact, written, stale, astate>>
memory == <<header, next_header, job, read_from_secondary, needs_recovery,
            txn, next_id>>
history == <<durable, trying>>
vars == <<file, pc, memory, next_root, history>>

-----------------------------------------------------------------------------
(* The header.                                                             *)

None == -1
Garbage == -2     \* a root whose bytes are part old and part new
Roots == 0..MaxRoots

Slot == [id : Nat, data : Roots \cup {Garbage}, sys : Roots \cup {Garbage},
         ok : BOOLEAN]
Header == [primary : {0, 1}, recovery : BOOLEAN, two_phase : BOOLEAN,
           slot : [{0, 1} -> Slot]]
Pair == [data : Roots, sys : Roots]
Jobs == [for : {"none", "open", "check", "user", "close"},
         two_phase : BOOLEAN]
NoTxn == [id |-> None, root |-> None]
Txns == {NoTxn} \cup [id : Nat, root : Roots]

primary_slot(h) == h.slot[h.primary]
secondary_slot(h) == h.slot[1 - h.primary]
swap_primary_slot(h) == [h EXCEPT !.primary = 1 - @]
secondary_slot_mut(h, slot) == [h EXCEPT !.slot[1 - h.primary] = slot]
PairOf(slot) == [data |-> slot.data, sys |-> slot.sys]

\* DatabaseHeader::new(): both slots hold transaction 0 and no trees.  Root 0
\* is the empty tree, which has no pages.
NewSlot == [id |-> 0, data |-> 0, sys |-> 0, ok |-> TRUE]
NewHeader == [primary |-> 0, recovery |-> FALSE, two_phase |-> TRUE,
              slot |-> [i \in {0, 1} |-> NewSlot]]
\* A file that set_len() made long enough is full of zeros: from_bytes() rejects
\* its version number.
ZeroHeader == [primary |-> 0, recovery |-> FALSE, two_phase |-> FALSE,
               slot |-> [i \in {0, 1} |-> [id |-> 0, data |-> Garbage,
                                           sys |-> Garbage, ok |-> FALSE]]]

\* to_bytes() computes the checksum of both slots anew, also of a slot that
\* from_bytes() has just found to be corrupted.
to_bytes(h) ==
  [h EXCEPT !.slot = [i \in {0, 1} |-> [h.slot[i] EXCEPT !.ok = TRUE]]]

\* pick_primary_for_repair(): it fails ...
PickFails(h) ==
  /\ ~primary_slot(h).ok
  /\ h.two_phase \/ ~secondary_slot(h).ok

PickSwaps_NoNewerCheck(h) ==   \* faulty: misses a lone god byte update
  ~h.two_phase /\ secondary_slot(h).ok /\ ~primary_slot(h).ok

PickSwaps_Trusting(h) ==       \* faulty: looks past the 2-phase flag
  /\ secondary_slot(h).ok
  /\ ~primary_slot(h).ok \/ secondary_slot(h).id > primary_slot(h).id

\* ... or it swaps the slots, unless the primary used 2-phase commit.
PickSwaps(h) ==
  /\ ~h.two_phase
  /\ secondary_slot(h).ok
  /\ ~primary_slot(h).ok \/ secondary_slot(h).id > primary_slot(h).id

pick_primary_for_repair(h) == IF PickSwaps(h) THEN swap_primary_slot(h) ELSE h

\* verify_primary_checksums(), for a slot and the trees that are on disk.
Verifies(slot, trees) == slot.data \in trees /\ slot.sys \in trees

\* get_allocator_state_table(): the primary used 2-phase commit and its system
\* tree has an allocator state table that was saved by this very commit.
AllocatorStateValid(h, trees) ==
  /\ h.two_phase
  /\ primary_slot(h).sys \in trees
  /\ astate[primary_slot(h).sys] = primary_slot(h).id

-----------------------------------------------------------------------------
(* Steps shared by several operations.                                     *)

NoJob == [for |-> "none", two_phase |-> FALSE]
Job(for) == [for |-> for, two_phase |-> FALSE]

\* get_data_root(), get_system_root(), get_last_committed_transaction_id().
Current(h) ==
  IF read_from_secondary THEN secondary_slot(h) ELSE primary_slot(h)

\* PagedCachedFile::flush(), when h is the header in the write buffer.
Sync(h) ==
  /\ disk' = h
  /\ buf' = h
  /\ intact' = intact \cup written
  /\ written' = {}
  /\ stale' = {}

\* The process is gone and with it everything that was only in memory.
Forget ==
  /\ pc' = "closed"
  /\ header' = ZeroHeader
  /\ next_header' = ZeroHeader
  /\ job' = NoJob
  /\ read_from_secondary' = FALSE
  /\ needs_recovery' = FALSE
  /\ txn' = NoTxn
  /\ next_id' = 0

\* commit_inner() up to the first write_header(): the secondary slot of a copy
\* of the header gets the new roots.
CommitStart(for, id, data, sys, two_phase) ==
  LET slot == [id |-> id, data |-> data, sys |-> sys, ok |-> TRUE]
  IN  /\ job' = [for |-> for, two_phase |-> two_phase]
      /\ next_header' = secondary_slot_mut(header, slot)
      /\ buf' = next_header'
      /\ pc' = IF two_phase THEN "flush" ELSE "swap"

-----------------------------------------------------------------------------
(* Creating and opening a database.                                        *)

\* TransactionalMemory::new() on an empty file: it is made long enough, and
\* the header is written without the magic number.
CreateFile ==
  /\ pc = "closed" /\ content = "empty"
  /\ content' = "unformatted"
  /\ buf' = NewHeader
  /\ pc' = "creating"
  /\ job' = Job("open")
  /\ UNCHANGED <<disk, intact, written, stale, astate, header, next_header,
                 read_from_secondary, needs_recovery, txn, next_id,
                 next_root, history>>

CreateFlush ==
  /\ pc = "creating"
  /\ Sync(buf)
  /\ pc' = "created"
  /\ UNCHANGED <<content, astate, memory, next_root, history>>

\* The magic number is written and flushed, and the header is read back.
CreateMagic ==
  /\ pc = "created"
  /\ content' = "formatted"
  /\ header' = disk
  /\ pc' = "loaded"
  /\ UNCHANGED <<disk, buf, intact, written, stale, astate, next_header, job,
                 read_from_secondary, needs_recovery, txn, next_id,
                 next_root, history>>

\* Bound: a database whose ids are used up is not opened again.
IdsLeft == disk.slot[0].id < MaxId /\ disk.slot[1].id < MaxId

\* TransactionalMemory::new() on a database that was closed.
OpenClean ==
  /\ pc = "closed" /\ content = "formatted" /\ ~disk.recovery /\ IdsLeft
  /\ header' = to_bytes(disk)
  /\ job' = Job("open")
  /\ pc' = "loaded"
  /\ UNCHANGED <<file, next_header, read_from_secondary, needs_recovery,
                 txn, next_id, next_root, history>>

\* TransactionalMemory::new() after a crash.  When no slot can be picked it
\* returns an error and nothing changes.
OpenPick ==
  /\ pc = "closed" /\ content = "formatted" /\ disk.recovery /\ IdsLeft
  /\ ~PickFails(disk)
  /\ header' = to_bytes(pick_primary_for_repair(disk))
  /\ buf' = header'
  /\ needs_recovery' = TRUE
  /\ job' = Job("open")
  /\ pc' = "picking"
  /\ UNCHANGED <<content, disk, intact, written, stale, astate, next_header,
                 read_from_secondary, txn, next_id, next_root,
                 history>>

OpenPickFlush ==
  /\ pc = "picking"
  /\ Sync(buf)
  /\ pc' = "loaded"
  /\ UNCHANGED <<content, astate, memory, next_root, history>>

\* Quick repair: load_allocator_state().
LoadAllocatorState ==
  /\ pc = "loaded" /\ AllocatorStateValid(header, intact)
  /\ header' = [header EXCEPT !.recovery = FALSE]
  /\ needs_recovery' = FALSE
  /\ pc' = "ready"
  /\ UNCHANGED <<file, next_header, job, read_from_secondary, txn,
                 next_id, next_root, history>>

\* The slot do_repair() settles on: the current one when its checksums verify,
\* else the other one, unless the primary used 2-phase commit.
RepairHeaders(h) ==
  {g \in {h, swap_primary_slot(h)} :
     /\ Verifies(Current(g), intact)
     /\ g # h => ~h.two_phase /\ ~Verifies(Current(h), intact)}

DoRepair_OnePhaseOnly ==   \* faulty: takes quick repair for granted
  /\ \/ pc = "loaded" /\ ~header.two_phase
     \/ pc = "checking"
  /\ \E g \in RepairHeaders(header) :
       /\ header' = [g EXCEPT !.recovery = FALSE]
       /\ pc' \in IF pc = "loaded" \/ PairOf(Current(g)) # PairOf(Current(header))
                  THEN {"repaired"}
                  ELSE {"ready"} \cup {x \in {"repaired"} : read_from_secondary}
  /\ Sync(header')
  /\ needs_recovery' = FALSE
  /\ UNCHANGED <<content, astate, next_header, job, read_from_secondary, txn,
                 next_id, next_root, history>>

\* do_repair() up to end_repair()'s flush.  Database::new() always commits the
\* repaired roots; check_integrity() does so if they are not the ones it found
\* or if the rebuilt allocators differ from the ones in use, which also hold the
\* pages of non-durable commits.
DoRepair ==
  /\ \/ pc = "loaded" /\ ~AllocatorStateValid(header, intact)
     \/ pc = "checking"
  /\ \E g \in RepairHeaders(header) :
       /\ header' = [g EXCEPT !.recovery = FALSE]
       /\ pc' \in IF pc = "loaded" \/ PairOf(Current(g)) # PairOf(Current(header))
                  THEN {"repaired"}
                  ELSE {"ready"} \cup {x \in {"repaired"} : read_from_secondary}
  /\ Sync(header')
  /\ needs_recovery' = FALSE
  /\ UNCHANGED <<content, astate, next_header, job, read_from_secondary, txn,
                 next_id, next_root, history>>

\* do_repair() finds no slot whose trees verify.  Opening fails; after
\* check_integrity() the database can no longer commit.
DoRepairFails ==
  /\ \/ pc = "loaded" /\ ~AllocatorStateValid(header, intact)
     \/ pc = "checking"
  /\ RepairHeaders(header) = {}
  /\ IF pc = "loaded"
     THEN Forget
     ELSE pc' = "failed" /\ UNCHANGED memory
  /\ UNCHANGED <<file, next_root, history>>

\* The repair callback calls RepairSession::abort().
AbortRepair ==
  /\ "repair" \in CrashDuring
  /\ pc = "loaded" /\ ~AllocatorStateValid(header, intact)
  /\ Forget
  /\ UNCHANGED <<file, next_root, history>>

\* mem.commit() of the repaired roots under the next transaction id.
CommitRepaired ==
  LET slot == Current(header)
  IN  /\ pc = "repaired"
      /\ CommitStart(job.for, slot.id + 1, slot.data, slot.sys, TRUE)
      /\ UNCHANGED <<content, disk, intact, written, stale, astate, header,
                     read_from_secondary, needs_recovery, txn,
                     next_id, next_root, history>>

\* begin_writable().  Database::new() goes on to begin and abort a write
\* transaction, to restore the savepoints; that uses up one id.  The outcome of
\* an interrupted commit is now known to the application.
BeginWritable ==
  /\ pc = "ready"
  /\ header' = [header EXCEPT !.recovery = TRUE]
  /\ Sync(header')
  /\ IF job.for = "open"
     THEN /\ next_id' = primary_slot(header).id + 2
          /\ durable' = PairOf(primary_slot(header))
          /\ trying' = {}
     ELSE UNCHANGED <<next_id, history>>
  /\ job' = NoJob
  /\ pc' = "open"
  /\ UNCHANGED <<content, astate, next_header, read_from_secondary,
                 needs_recovery, txn, next_root>>

-----------------------------------------------------------------------------
(* Write transactions.                                                     *)

\* Database::begin_write(): start_write_transaction() hands out the next id.
BeginWrite ==
  /\ pc = "open" /\ txn = NoTxn
  /\ next_root <= MaxRoots /\ next_id < MaxId
  /\ txn' = [id |-> next_id + 1, root |-> next_root]
  /\ next_id' = next_id + 1
  /\ next_root' = next_root + 1
  /\ written' = written \cup {next_root}
  /\ UNCHANGED <<content, disk, buf, intact, stale, astate, pc, header,
                 next_header, job, read_from_secondary, needs_recovery,
                 history>>

\* The transaction allocates a free page and writes to it, and so destroys an
\* old tree.  Pages of the last durable commit and of the commit that readers
\* now see are never free: that is what module PageReclaim shows.
Pinned(h) ==
  {0, primary_slot(h).data, primary_slot(h).sys, Current(h).data, Current(h).sys}

ReusePages(root) ==
  /\ pc = "open" /\ txn # NoTxn
  /\ root \in (intact \cup written) \ (Pinned(header) \cup {txn.root})
  /\ intact' = intact \ {root}
  /\ written' = written \ {root}
  /\ stale' = stale \cup {root}
  /\ UNCHANGED <<content, disk, buf, astate, pc, memory, next_root, history>>

\* WriteTransaction::durable_commit() up to the first header write.  The
\* allocator state table is deleted and, for quick-repair, saved anew;
\* quick-repair implies 2-phase commit.
CommitDurable(kind) ==
  /\ pc = "open" /\ txn # NoTxn
  /\ CommitStart("user", txn.id, txn.root, txn.root, kind # "one_phase")
  /\ astate' = [astate EXCEPT ![txn.root] =
                  IF kind = "quick_repair" THEN txn.id ELSE None]
  /\ trying' = trying \cup {[data |-> txn.root, sys |-> txn.root]}
  /\ UNCHANGED <<content, disk, intact, written, stale, header,
                 read_from_secondary, needs_recovery, txn, next_id,
                 next_root, durable>>

\* 2-phase commit: the new slot and its trees are durable before the god byte
\* is written.
CommitFlush ==
  /\ pc = "flush"
  /\ Sync(buf)
  /\ pc' = "swap"
  /\ UNCHANGED <<content, astate, memory, next_root, history>>

\* The new slot becomes the primary and the 2-phase flag is set, in one byte.
CommitSwap ==
  /\ pc = "swap"
  /\ next_header' = [swap_primary_slot(next_header) EXCEPT
                       !.two_phase = job.two_phase]
  /\ buf' = next_header'
  /\ pc' = "sync"
  /\ UNCHANGED <<content, disk, intact, written, stale, astate, header, job,
                 read_from_secondary, needs_recovery, txn, next_id,
                 next_root, history>>

CommitSync ==
  /\ pc = "sync"
  /\ Sync(buf)
  /\ pc' = "publish"
  /\ UNCHANGED <<content, astate, memory, next_root, history>>

CommitPublish_StaleFlag ==   \* faulty: readers keep looking at the secondary
  /\ pc = "publish"
  /\ header' = next_header
  /\ IF job.for \in {"user", "close"}
     THEN durable' = PairOf(primary_slot(next_header)) /\ trying' = {}
     ELSE UNCHANGED history
  /\ pc' = CASE job.for = "user"  -> "open"
             [] job.for = "close" -> "closing"
             [] OTHER -> "ready"
  /\ job' = IF job.for = "user" THEN NoJob ELSE job
  /\ txn' = NoTxn
  /\ UNCHANGED <<file, next_header, read_from_secondary, needs_recovery,
                 next_id, next_root>>

\* The header in memory is replaced, and commit() returns.
CommitPublish ==
  /\ pc = "publish"
  /\ header' = next_header
  /\ read_from_secondary' = FALSE
  /\ IF job.for \in {"user", "close"}
     THEN durable' = PairOf(primary_slot(next_header)) /\ trying' = {}
     ELSE UNCHANGED history
  /\ pc' = CASE job.for = "user"  -> "open"
             [] job.for = "close" -> "closing"
             [] OTHER -> "ready"
  /\ job' = IF job.for = "user" THEN NoJob ELSE job
  /\ txn' = NoTxn
  /\ UNCHANGED <<file, next_header, needs_recovery, next_id, next_root>>

\* WriteTransaction::non_durable_commit(): the secondary slot is replaced in
\* memory only.  The system tree keeps the allocator state table it had.
CommitNonDurable ==
  LET slot == [id |-> txn.id, data |-> txn.root, sys |-> txn.root, ok |-> TRUE]
  IN  /\ pc = "open" /\ txn # NoTxn
      /\ astate' = [astate EXCEPT ![txn.root] = astate[Current(header).sys]]
      /\ header' = secondary_slot_mut(header, slot)
      /\ read_from_secondary' = TRUE
      /\ txn' = NoTxn
      /\ UNCHANGED <<content, disk, buf, intact, written, stale, pc,
                     next_header, job, needs_recovery, next_id,
                     next_root, history>>

\* WriteTransaction::abort(), or dropping the transaction.
Abort ==
  /\ pc = "open" /\ txn # NoTxn
  /\ written' = written \ {txn.root}
  /\ txn' = NoTxn
  /\ UNCHANGED <<content, disk, buf, intact, stale, astate, pc, header,
                 next_header, job, read_from_secondary, needs_recovery,
                 next_id, next_root, history>>

-----------------------------------------------------------------------------
(* Closing, checking, and failing.                                         *)

Close_SaveBeforeBegin ==   \* faulty: the table is saved under the previous id
  /\ pc = "open" /\ txn = NoTxn
  /\ next_root <= MaxRoots /\ next_id < MaxId
  /\ next_id' = next_id + 1
  /\ next_root' = next_root + 1
  /\ CommitStart("close", next_id + 1, Current(header).data, next_root, TRUE)
  /\ astate' = [astate EXCEPT ![next_root] = next_id]
  /\ written' = written \cup {next_root}
  /\ trying' = trying \cup {[data |-> Current(header).data, sys |-> next_root]}
  /\ UNCHANGED <<content, disk, intact, stale, header, read_from_secondary,
                 needs_recovery, txn, durable>>

\* Drop for Database: ensure_allocator_state_table_and_trim() commits the
\* current data root with quick-repair.  begin_write() waits for a live
\* transaction.
Close ==
  /\ pc = "open" /\ txn = NoTxn
  /\ next_root <= MaxRoots /\ next_id < MaxId
  /\ next_id' = next_id + 1
  /\ next_root' = next_root + 1
  /\ CommitStart("close", next_id + 1, Current(header).data, next_root, TRUE)
  /\ astate' = [astate EXCEPT ![next_root] = next_id + 1]
  /\ written' = written \cup {next_root}
  /\ trying' = trying \cup {[data |-> Current(header).data, sys |-> next_root]}
  /\ UNCHANGED <<content, disk, intact, stale, header, read_from_secondary,
                 needs_recovery, txn, durable>>

\* TransactionalMemory::close(): the recovery flag is cleared.
CloseFinish ==
  /\ pc = "closing"
  /\ Sync([header EXCEPT !.recovery = FALSE])
  /\ Forget
  /\ UNCHANGED <<content, astate, next_root, history>>

\* check_integrity() up to do_repair(): everything is flushed and the header is
\* read again from the file.  read_from_secondary stays as it is.
CheckIntegrity ==
  /\ pc = "open" /\ txn = NoTxn
  /\ read_from_secondary => CheckAfterNonDurable
  /\ ~PickFails(disk)
  /\ header' = to_bytes(pick_primary_for_repair(disk))
  /\ Sync(header')
  /\ needs_recovery' = TRUE
  /\ job' = Job("check")
  /\ pc' = "checking"
  /\ UNCHANGED <<content, astate, next_header, read_from_secondary,
                 txn, next_id, next_root, history>>

\* A crash can always cut short the creation and the use of a database;
\* CrashDuring adds opening it, up to the end of a repair, and the first 1-phase
\* commit after a quick repair, while its god byte is written over a slot that is
\* not older than the primary: that of a commit which the quick repair rolled back.
Interruptible ==
  /\ pc \in {"picking", "loaded"} => "repair" \in CrashDuring
  /\ /\ pc \in {"sync", "failed"}
     /\ ~job.two_phase /\ buf.primary # disk.primary
     /\ secondary_slot(disk).id >= primary_slot(disk).id
     => "first_commit" \in CrashDuring

\* A write, an fsync or a resize fails: CheckedBackend refuses every later
\* operation, and a failed commit also sets needs_recovery.
IoError ==
  /\ Interruptible
  /\ \/ pc = "open" /\ txn # NoTxn
     \/ /\ pc \in {"checking", "repaired", "ready", "flush", "swap", "sync", "publish"}
        /\ job.for # "open"
  /\ needs_recovery' = (needs_recovery \/ pc \in {"flush", "swap", "sync", "publish"})
  /\ pc' = "failed"
  /\ UNCHANGED <<file, header, next_header, job, read_from_secondary,
                 txn, next_id, next_root, history>>

\* What a slot may hold after a crash, given its durable and its last written
\* bytes.
SlotImages(old, new) ==
  {old, new} \cup
  IF HeaderWrites = "torn" /\ old # new
  THEN [id : {old.id, new.id}, data : {old.data, new.data, Garbage},
        sys : {old.sys, new.sys, Garbage}, ok : {FALSE}]
  ELSE {}

\* The god byte is written whole or not at all.  "ordered": it never reaches the
\* disk before the slots that were written before it.
GodByteOf(h) == [primary |-> h.primary, recovery |-> h.recovery,
                 two_phase |-> h.two_phase]

HeaderImages ==
  {h \in {[god EXCEPT !.slot = [i \in {0, 1} |-> IF i = 0 THEN s0 ELSE s1]] :
            god \in {disk, buf},
            s0 \in SlotImages(disk.slot[0], buf.slot[0]),
            s1 \in SlotImages(disk.slot[1], buf.slot[1])} :
     HeaderWrites = "ordered" => GodByteOf(h) = GodByteOf(disk) \/ h = buf}

\* The trees that may turn out to be complete after a crash.
TreeImages == {intact \cup trees : trees \in SUBSET (written \cup stale)}

\* The process dies, or the machine does, or an open or a failed database is
\* given up: any part of what was not synced may have reached the disk.  A file
\* that was just made longer may be empty again.
Crash ==
  /\ pc # "closed"
  /\ Interruptible
  /\ content' \in {content} \cup {c \in {"empty"} : pc = "creating"}
  /\ disk' \in HeaderImages
  /\ buf' = disk'
  /\ intact' \in TreeImages
  /\ written' = {}
  /\ stale' = {}
  /\ Forget
  /\ UNCHANGED <<astate, next_root, history>>

Init ==
  /\ content = "empty"
  /\ disk = ZeroHeader /\ buf = ZeroHeader
  /\ intact = {0} /\ written = {} /\ stale = {}
  /\ astate = [r \in Roots |-> None]
  /\ pc = "closed"
  /\ header = ZeroHeader /\ next_header = ZeroHeader
  /\ job = NoJob
  /\ read_from_secondary = FALSE /\ needs_recovery = FALSE
  /\ txn = NoTxn
  /\ next_id = 0 /\ next_root = 1
  /\ durable = [data |-> 0, sys |-> 0] /\ trying = {}

Next ==
  \/ CreateFile \/ CreateFlush \/ CreateMagic
  \/ OpenClean \/ OpenPick \/ OpenPickFlush
  \/ LoadAllocatorState \/ DoRepair \/ DoRepairFails \/ AbortRepair
  \/ CommitRepaired \/ BeginWritable
  \/ BeginWrite
  \/ \E root \in Roots : ReusePages(root)
  \/ \E kind \in CommitKinds : CommitDurable(kind)
  \/ CommitFlush \/ CommitSwap \/ CommitSync \/ CommitPublish
  \/ CommitNonDurable \/ Abort
  \/ Close \/ CloseFinish \/ CheckIntegrity
  \/ IoError \/ Crash

Spec == Init /\ [][Next]_vars

\* Opening a database, committing and closing are sequential code: a thread that
\* is in the middle of it goes on, unless an error or a crash stops it.
OpenStep ==
  \/ CreateFlush \/ CreateMagic \/ OpenPickFlush
  \/ LoadAllocatorState \/ DoRepair \/ DoRepairFails
  \/ CommitRepaired \/ BeginWritable

CommitStep == CommitFlush \/ CommitSwap \/ CommitSync \/ CommitPublish \/ CloseFinish

FairSpec == Spec /\ WF_vars(OpenStep) /\ WF_vars(CommitStep)

-----------------------------------------------------------------------------
(* Properties.                                                             *)

\* Every field of the header, of the memory and of the file's state has its type;
\* in particular the god byte's slot bit is 0 or 1.
TypeOK ==
  /\ content \in {"empty", "unformatted", "formatted"}
  /\ disk \in Header /\ buf \in Header
  /\ intact \subseteq Roots /\ written \subseteq Roots /\ stale \subseteq Roots
  /\ astate \in [Roots -> Nat \cup {None}]
  /\ pc \in {"closed", "creating", "created", "picking", "loaded", "checking",
             "repaired", "ready", "open", "flush", "swap", "sync", "publish",
             "closing", "failed"}
  /\ header \in Header /\ next_header \in Header
  /\ job \in Jobs
  /\ read_from_secondary \in BOOLEAN /\ needs_recovery \in BOOLEAN
  /\ txn \in Txns
  /\ next_id \in Nat /\ next_root \in 1..(MaxRoots + 1)
  /\ durable \in Pair /\ trying \subseteq Pair

\* What opening a file with this header and these trees ends up with: the roots
\* of one slot, or an error.
NoPair == [data |-> Garbage, sys |-> Garbage]

Recovered(h, trees) ==
  LET p == IF h.recovery THEN pick_primary_for_repair(h) ELSE h
  IN  IF h.recovery /\ PickFails(h) THEN NoPair
      ELSE IF Verifies(primary_slot(p), trees) THEN PairOf(primary_slot(p))
      ELSE IF ~p.two_phase /\ Verifies(secondary_slot(p), trees)
           THEN PairOf(secondary_slot(p))
      ELSE NoPair

\* Whatever part of the unsynced writes a crash leaves on the disk, the database
\* can be opened again, and holds the last durable commit or the durable commit
\* that was in progress: never anything older, never parts of two commits.
CrashSafe ==
  content = "formatted" /\ Interruptible =>
    \A h \in HeaderImages, trees \in TreeImages :
      Recovered(h, trees) \in {durable} \cup trying

\* The same of the user's data alone.  In particular a commit that was rolled
\* back when the database was opened after a crash does not come back.
DataSafe ==
  content = "formatted" /\ Interruptible =>
    \A h \in HeaderImages, trees \in TreeImages :
      Recovered(h, trees).data \in {pair.data : pair \in {durable} \cup trying}

\* The assertions of commit_inner() and begin_writable(): no commit starts on
\* memory that needs recovery, and the recovery flag is off until it is set.
AssertsHold ==
  /\ pc \in {"open", "repaired"} => ~needs_recovery
  /\ pc = "ready" => ~header.recovery

\* After a clean shutdown the next open neither repairs nor writes, and so can
\* be read-only: the header is clean and the allocator state is the current one.
CloseSavesAllocatorState ==
  [][pc = "closing" /\ pc' = "closed" /\ ~disk'.recovery =>
       AllocatorStateValid(disk, intact)']_vars

\* Opening, repairing, checking, committing and closing come to an end: the
\* database is open, or closed, or has reported an I/O error.
OperationsEnd ==
  pc \notin {"closed", "open", "failed"} ~> pc \in {"closed", "open", "failed"}

\* Opening, committing, checking, failing and crashing, seen from outside, is
\* the behaviour that the documentation of Durability promises.
Up == pc \in {"open", "failed"} \/ job.for \in {"check", "user", "close"}

Visible == IF Up THEN Current(header).data ELSE 0
Inflight == {pair.data : pair \in trying}

Abstract == INSTANCE DurableStore WITH
  Contents <- Roots, Empty <- 0,
  up <- Up, visible <- Visible, persisted <- durable.data, inflight <- Inflight

ImplementsDurableStore == Abstract!DSSpec

-----------------------------------------------------------------------------
(* An inductive invariant, for an application that commits in two phases.  *)

\* The regime: every durable commit is flushed before the god byte is written,
\* and check_integrity() only ever runs on durable commits.
TwoPhaseOnly == "one_phase" \notin CommitKinds /\ ~CheckAfterNonDurable

\* A crash that leaves the god byte of g leaves a usable database: the slot that
\* g calls primary is not being written, and its trees are durable.
SafeGod(g) ==
  /\ g.two_phase
  /\ buf.slot[g.primary] = disk.slot[g.primary]
  /\ disk.slot[g.primary].ok
  /\ Verifies(disk.slot[g.primary], intact)
  /\ PairOf(disk.slot[g.primary]) \in {durable} \cup trying

FileSafe == content = "formatted" => SafeGod(disk) /\ SafeGod(buf)

\* While a file is being created nothing has been committed to it.
CreationSafe ==
  /\ 0 \in intact
  /\ content # "formatted" =>
       /\ durable = [data |-> 0, sys |-> 0] /\ trying = {}
       /\ pc \in {"closed", "creating", "created"}
  /\ content = "formatted" => pc \notin {"creating", "created"}
  /\ pc = "creating" => buf = NewHeader
  /\ pc = "created" => disk = NewHeader /\ buf = NewHeader

\* The header in memory has the primary of the header on disk.
SamePrimary(h, g) ==
  /\ h.two_phase
  /\ h.primary = g.primary
  /\ h.slot[h.primary] = g.slot[h.primary]

MemorySafe ==
  /\ pc \in {"picking", "loaded", "checking", "repaired", "ready", "open",
             "closing", "flush", "swap"} => SamePrimary(header, disk)
  /\ pc \in {"closed", "loaded", "checking", "repaired", "ready", "open",
             "closing", "swap", "publish"} => buf = disk
  /\ pc = "picking" => buf = header

\* The slot that a commit installs names trees that are written, and durable
\* before the god byte is.
CommitSafe ==
  /\ pc \in {"flush", "swap", "sync", "publish"} =>
       buf = next_header /\ job.two_phase
  /\ pc \in {"flush", "swap"} =>
       /\ SamePrimary(next_header, header)
       /\ secondary_slot(next_header).ok
       /\ Verifies(secondary_slot(next_header), intact \cup written)
       /\ PairOf(secondary_slot(next_header)) \in {durable} \cup trying
  /\ pc = "swap" => Verifies(secondary_slot(next_header), intact)

\* The trees of the live transaction, and of the last non-durable commit.
TreesSafe ==
  /\ \A root \in intact \cup written \cup stale : root < next_root
  /\ read_from_secondary =>
       \/ pc \in {"open", "failed"}
       \/ pc \in {"flush", "swap", "sync", "publish"} /\ job.for \in {"user", "close"}
  /\ txn # NoTxn => pc \in {"open", "failed", "flush", "swap", "sync", "publish"}
  /\ pc = "open" =>
       /\ Verifies(Current(header), intact \cup written)
       /\ txn # NoTxn =>
            /\ txn.root \in intact \cup written
            /\ txn.root \notin {Current(header).data, Current(header).sys}

\* The inductive invariant: with 2-phase commits only, the god byte on disk and
\* the one being written both lead to durable trees, at every step of a commit,
\* a repair or a close.
TwoPhaseInv ==
  TypeOK /\ FileSafe /\ CreationSafe /\ MemorySafe /\ CommitSafe /\ TreesSafe

\* What the owner of the file is doing, at each place of the code.
JobSafe ==
  /\ pc \in {"closed", "open"} => job.for = "none"
  /\ pc \in {"creating", "created", "picking", "loaded"} => job.for = "open"
  /\ pc = "checking" => job.for = "check"
  /\ pc \in {"repaired", "ready"} => job.for \in {"open", "check"}
  /\ pc \in {"flush", "swap", "sync", "publish"} => job.for # "none"
  /\ pc = "closing" => job.for = "close"

\* The only commit whose outcome is open is the one in progress, and
\* check_integrity() commits what is the primary already.
TryingSafe ==
  /\ pc \in {"open", "closing"} \/ (job.for = "check" /\ pc # "failed") => trying = {}
  /\ pc \in {"flush", "swap"} =>
       LET new == PairOf(secondary_slot(next_header))
       IN  /\ job.for \in {"user", "close"} => trying = {new}
           /\ job.for = "check" => new = PairOf(primary_slot(header))
  /\ pc \in {"sync", "publish"} =>
       LET new == PairOf(primary_slot(next_header))
       IN  /\ job.for \in {"user", "close"} => trying = {new}
           /\ job.for = "check" => new = PairOf(primary_slot(header))

\* What the refinement of DurableStore needs besides: which commits are open when
\* commit() starts and ends.
RefinementInv == TwoPhaseInv /\ JobSafe /\ TryingSafe

=============================================================================
