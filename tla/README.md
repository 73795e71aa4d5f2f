# A TLA+ verification of redbx

redbx is an embedded, transactional key-value store in one encrypted file: a
single writer, any number of snapshot readers, copy-on-write b-trees, and a
commit that is the change of one byte. This directory holds TLA+ models of the
parts on which its promises rest, the TLC configurations that check them on
small instances, and proofs that TLAPS checks for instances of any size.

    tlc -workers 2 -config CommitOrdered.cfg MCCommitRecovery   # any run below
    tlapm CommitRecoveryProofs.tla                              # the proofs of the commit protocol
    tlapm DurableStoreProofs.tla                                # that it implements DurableStore
    tlapm AnyCommitProofs.tla                                   # its crash safety with one-phase commits
    tlapm FileLengthProofs.tla                                  # the proofs of the file's length

`PROJECT.json` lists the components, the runs, the code lines behind every
definition (`map`), the faulty variants that each property rejects (`mutants`),
the hazards, the findings and the theorems.

## The system

| Part | Code | State | Operations | What is hard about it |
|---|---|---|---|---|
| Header | `header.rs` | god byte (primary bit, recovery flag, 2-phase flag), two slots of (id, data root, system root, checksum) | swap, pick a primary for repair, (de)serialise | partial and torn writes |
| TransactionalMemory | `page_manager.rs` | header, `read_from_secondary`, `needs_recovery`, allocators, `allocated_since_commit`, `unpersisted` | create, open, commit (1 or 2 phases), non-durable commit, rollback, allocate, free, grow, shrink, close | a crash between any two writes; errors in the middle |
| Database | `db.rs` | memory and tracker | open, repair, `check_integrity`, `compact`, begin transactions, drop | an interrupted repair; stale memory after a reload |
| TransactionTracker | `transaction_tracker.rs` | live readers by id, savepoints, pending non-durable commits, the live writer | register and release, oldest of each | callers combine several calls without a common lock |
| WriteTransaction | `transactions.rs` | table trees, freed and allocated lists, savepoints created and deleted, durability | table changes, savepoints, commit, abort | which freed page can be reused when; long sequences of legal calls |
| ReadTransaction | `transactions.rs`, `db.rs` | id and root | begin, end | `begin_read` is two steps |
| Savepoints | `savepoint.rs`, `transactions.rs` | id, transaction id, root | create, restore, delete, drop | dropped by any thread; survive a crash or not |
| Table tree | `table_tree.rs` | tree of table roots, staged updates | open, rename, delete, flush | staged roots against the tree |
| B-tree, tables, multimaps | `btree*.rs`, `table.rs`, `multimap_table.rs` | pages | insert, remove, split, merge, range, retain | balance and in-place updates |
| Allocators | `buddy_allocator.rs`, `bitmap.rs`, `region.rs`, `layout.rs` | free bitmaps per order, region tracker | allocate, free, resize | boundaries of orders and regions |
| Page cache | `cached_file.rs`, `lru_cache.rs` | read cache, write buffer | read, write, flush, evict | threads, stale pages |
| Encrypted backend | `file_backend/encrypted.rs`, `encryption/` | file, cipher | read, write, open with password | buffers that are not one page |
| Types, errors, hashing, derive, Python, benches | the rest | none | encodings and glue | — |

A write transaction takes its id from the tracker, changes copies of pages that
TransactionalMemory allocates, and records what it no longer uses in the freed
tables, which live in the system tree. Its commit asks the tracker which of the
queued pages nobody can see, frees them, copies the system tree, and hands both
roots to TransactionalMemory, which writes the slot that is not in use and then
the god byte. After a crash `Database::new` picks a slot, checks its trees, and
either loads the saved allocator state (quick repair) or rebuilds it from the
trees and the freed tables.

What the system promises, and this project states:

* after a crash at any point the database opens with the last durable commit, or
  with the one that was in progress, complete (`CrashSafe`);
* durable and non-durable commits behave as `Durability` documents
  (`ImplementsDurableStore`);
* operations end (`OperationsEnd`, `CompactionEnds`), and a clean shutdown needs
  no repair (`CloseSavesAllocatorState`);
* no page is reused while a reader, a savepoint, the current commit or the last
  durable one can reach it (`ReadersSafe`, `SavepointsSafe`, `CommitsSafe`), no
  page leaks (`NoLeak`), and none is freed twice (`AssertsHold`, `EachPageOnce`);
* quick repair and full repair agree (`QuickRepairAgrees`), the table of allocated
  pages has no dead pages (`AllocatedTableLive`), and savepoints neither leak
  references nor become unusable (`ReferencesOwned`, `PersistentSavepointsValid`);
* tables and multimap tables hold what was put into them whatever calls, iterators
  and relocations came in between, every call and iterator returns it, and the
  statistics add up (`HoldsTheTable`, `HoldsTheRelation`, `TablesHold`,
  `ReturnsRight`, `CallsReturnRight`, `LenCountsDown`, `StatsAddUp`,
  `MultimapStatsAddUp`);
* the trees keep their shape (`Balanced`, `InlineWhileShort`), give up each page
  exactly once (`PagesAccounted`, `SubtreePagesAccounted`,
  `TablePagesAccounted`), and what is committed verifies and is never written
  again (`CommittedVerifies`, `SubtreesVerify`, `CommittedTablesVerify`);
* the allocators never hand out a page twice, merge what is free, find what there
  is, and the file is as long as the header says or longer (`BlocksDisjoint`,
  `FreeAtLargestOrder`, `LowestAndTrailing`, `SmallestFound`, `OpenAssertsHold`,
  `ImplementsFileLength`);
* what is read is what was written, through write buffer, read cache and
  encryption; a commit is in the file; the caches keep their counts and limits
  (`FittingReadsReturn`, `CommittedInFile`, `CacheCurrent`, `BytesCounted`,
  `ReadCacheBounded`, `AllEvictable`);
* no assertion or `unwrap()` on these paths fails (`AssertsHold`,
  `InplaceAssertsHold`, `NoPanic`, `RegionAssertsHold`, `CacheAssertsHold`).

## Modules

| Module | Models | Source |
|---|---|---|
| `DurableStore` | what `Durability` promises: the abstract specification | docs of `Durability`, `commit` |
| `CommitRecovery` | header, commit protocol, open, repair, check, close, I/O errors, crashes | `header.rs`, `page_manager.rs`, `db.rs` |
| `CommitRecoveryProofs` | proofs about `CommitRecovery` | |
| `AnyCommitProofs` | the proof that one-phase commits survive crashes too | |
| `DurableStoreProofs` | the proof that `CommitRecovery` implements `DurableStore` | |
| `TransactionTracker` | the tracker's methods as functions of its state | `transaction_tracker.rs` |
| `PageReclaim` | read and write transactions, savepoints, freed-page processing, reopening, on top of `TransactionTracker` | `transactions.rs`, `savepoint.rs`, parts of `table_tree.rs`, `page_manager.rs`, `db.rs` |
| `BtreeMutator` | pages, builders, insertion and deletion as functions of the pages | `btree_base.rs`, `btree_mutator.rs` |
| `BtreeIters` | range iterators, from both ends | `btree_iters.rs` |
| `BtreeOps` | lookup, `get_mut`, checksums, relocation, statistics, removal under an iterator | `btree.rs`, `btree_iters.rs` |
| `Btree` | one table through write transactions | `btree.rs`, `table.rs` |
| `Multimap` | one multimap table through write transactions | `multimap_table.rs` |
| `TableTree` | all tables by name, staged roots, in-place flush, compaction | `table_tree.rs`, `table_tree_base.rs`, `transactions.rs`, `db.rs` |
| `BtreeBitmap`, `BuddyAllocator`, `Layout` | free-page bitmaps, the allocator of a region, the arithmetic of regions | `bitmap.rs`, `buddy_allocator.rs`, `layout.rs` |
| `FileLength` | the length of the file and the layouts that describe it: the abstract specification of `Regions` | `page_manager.rs`, `layout.rs` |
| `FileLengthProofs` | proofs about `FileLength` and `Layout` | |
| `Regions` | region tracker, allocation, growth, shrinking, reopening, on top of the allocator modules | `region.rs`, `page_manager.rs` |
| `LruCache`, `EncryptedBackend` | the LRU map; what encryption leaves in the file and gives back | `lru_cache.rs`, `encrypted.rs` |
| `PageCache` | read cache, write buffer, flush and eviction over `EncryptedBackend` | `cached_file.rs`, `page_manager.rs` |
| `MC...` | TLC instances of the module of that name | |

The modules below `PageReclaim` take the pages of a tree as a set, those of the
b-tree take them as nodes; `CommitRecovery` takes a whole tree as a number. What
one level assumes of the next is stated there: that a commit leaves a tree whose
checksums verify (`CommittedVerifies`), that each page is given up once
(`PagesAccounted`), that a flush makes everything durable (`CommittedInFile`).

### CommitRecovery

A step is the code between two points at which a crash leaves different bytes on
the disk. The file is `disk`, the header as of the last fsync, and `buf`, as last
written. A crash picks for every slot its old bytes, its new ones or, with
`HeaderWrites = "torn"`, a slot of mixed fields with a wrong checksum; the god
byte is old or new, never mixed (`docs/design.md:487` assumes that single bytes
are atomic). `"ordered"` lets the god byte reach the disk only after the slots,
`"parts"` lets every part go alone. A b-tree is the number of its root:
`intact` are the trees whose pages are all durable, `written` those since the
last fsync, `stale` those that lost pages to reuse since then; a crash keeps any
part of the latter two. A slot's trees verify exactly if they are intact: the
checksums are taken to detect every partial tree.

`pc` is the position in the code: `CreateFile`, `CreateFlush`, `CreateMagic`;
`OpenClean` or `OpenPick`, `OpenPickFlush`; then `LoadAllocatorState` or
`DoRepair` and `CommitRepaired`; `BeginWritable`. `CommitStart`, `CommitFlush`,
`CommitSwap`, `CommitSync`, `CommitPublish` are `commit_inner`, for user commits,
repairs, checks and closing alike. `durable` and `trying` are history: the last
commit that returned, and those whose outcome nobody knows yet.

The constants select what the application and the disk do, and with it the
regimes that the runs compare. `CrashDuring` tells whether a crash may also hit a
repair, and the god byte of the first one-phase commit after a quick repair that
rolled a commit back: the only time when the slot under that commit is not older
than the primary.

### PageReclaim

A b-tree is the set of its pages, the user's tables are one table, and the system
tree is one page that every commit copies. The system tables (freed data pages,
freed system pages, allocated pages, savepoints) are functions. A commit is five
steps: `CommitStore`, `CommitFreeDurable` or `CommitFreeNonDurable`,
`CopySystemTree`, `CommitPublish`, `CommitEnd`; readers and dropped savepoints
interleave with all of them. `begin_read` is `ReaderRegister` and `ReaderStart`.
`Reopen` is a crash, or a close, followed by `Database::new`.

`failed` collects the assertions of the code that a step would trip. A page that
is pushed to the freed list a second time is noted when it is pushed, since sets
do not count; the code trips over it when the list is processed. `Uses`
selects what the application does beyond plain transactions; the last four uses
are ones that the findings are about, and are off in the passing runs. Two races
that the findings are about are in every run, and history marks what they touch:
a reader is `late` if a non-durable commit fell between its registration and its
look at the root, and a commit has `raced` if a savepoint was dropped in it.

### Btree, BtreeOps, BtreeIters, BtreeMutator

A page is a leaf with pairs or a branch with keys, children and their checksums;
its size is computed from the lengths of keys and values as `RawLeafBuilder` and
`RawBranchBuilder` do, so that pages split and merge by size and not by count. The
functions of `BtreeMutator` take the memory (`pages`, the `committed` ones, the
list `freed`) and return it changed: `insert_helper`, `delete_helper`,
`delete_branch_helper` with its merging and lifting, copy-on-write or in place. A
checksum is `DEFERRED` or the page's contents at the time it was computed.

`Btree` runs one table: every operation of `Table` is an action that compares
what the call returns with the abstract table `contents`. `range()` and
`extract_if()` are several steps, from both ends, and may be dropped half used.
`Commit` computes the checksums and makes the tree the committed one, `Abort`
goes back, `Relocate` moves pages as compaction does.

### Multimap

The value of a key is a collection: a leaf stored inline, or the header of a
subtree. `insert`, `remove`, `remove_all` with its freeing iterator, `get`,
`range`, the checksums of subtrees inside leaves, and the relocation of both
levels are there; `contents` is a set of pairs.

### TableTree

The definitions of the tables are the values of a b-tree; a table that is closed
leaves its root in `pending`. Opening, inserting, removing, closing, renaming,
deleting, a savepoint and its restoration, `open_table_and_flush_table_root` and
`create_table_and_flush_table_root` are calls of a transaction. A table may be
renamed while a root is staged for it, and a savepoint restored over staged roots:
`sealed` and `odd` remember it. A page of a higher order is a block of several of
the smallest pages, and is numbered by the first.

A round of `compact` is `CompactPass` and `CompactFree`. In the first the highest
pages, and the parents of those that move, get the lowest free places, the trees
of the tables and the table tree are rewritten, and the old pages are queued in a
table of the system tree. The second is the commits that free them. The system
tree is one page (`system`), which compaction moves like any other and which every
commit that changes a system table copies.

### Regions and FileLength

`al` holds the region tracker and one buddy allocator per region, each a family
of `BtreeBitmap`s. `Allocate` tries the tracker, falls back region by region,
grows the file and tries again; `FreeUncommitted`, `Drop`, `Rollback`, `Commit`
with `try_shrink`, `NonDurableCommit`, `Cut` (the file after the commit), `Close`,
`Crash` and `Open`, with the saved allocators or by a full repair, follow
`page_manager.rs`. `FileLength` keeps the layouts and the length only; `Regions`
is shown to implement it, and the proofs are about it.

### PageCache

One write transaction and several readers over `PagedCachedFile`. `read` is
several steps for a reader (look in the write buffer and the read cache, fetch,
insert), `flush` one step per page, and every file operation may fail: `ios` says
after how many calls, and then `io_failed` is latched. `EncryptedBackend` says
what a buffer of one or several pages becomes in the file: a leaf is sealed and
loses the bytes that the nonce and the tag need, anything else is stored as it is.
`Contents` are the buffers that a builder can make: leaves that leave room for the
seal and leaves that fill their page or several, branches whose later pages begin
with any byte. `Fits` are those that the file can give back.

## Runs

| Run | Instance | Shows |
|---|---|---|
| `CommitOrdered` | all commit kinds, ordered header writes, all crashes, fairness | `CrashSafe`, `OperationsEnd`, `ImplementsDurableStore` |
| `CommitTorn` | all commit kinds, torn writes, crashes except in a repair and in the first one-phase commit over a rolled-back one | `CrashSafe` |
| `CommitAnyUse` | all commit kinds, god byte and slots in any order, all crashes, also `check_integrity` after non-durable commits | `CloseSavesAllocatorState` |
| `ReclaimReaders` | 2 readers, durable and non-durable commits | `ReadersSafe`, `CommitsSafe`, `NoLeak` |
| `ReclaimSavepoints` | 2 savepoints of either kind, durable and non-durable commits | `SavepointsSafe`, `AllocatedTableLive`, `AssertsHold`, `ReferencesOwned` |
| `ReclaimReopen` | 1 persistent savepoint, quick-repair, crashes | `EachPageOnce`, `QuickRepairAgrees`, `PersistentSavepointsValid` |
| `BtreeTables` | 4 keys with 2 operations in a transaction, 5 keys with 1; any number of transactions | `Balanced`, `PagesAccounted`, `CommittedVerifies`, `ReturnsRight`, `HoldsTheTable` |
| `MultimapTables` | 2 keys and 4 values, 1 or 2 operations in a transaction | `SubtreePagesAccounted`, `SubtreesVerify`, `CallsReturnRight`, `HoldsTheRelation` |
| `TableTrees` | 2 tables of 2 keys, transactions of 4 and 2 calls, then compaction | `NoPanic`, `TablesHold`, `CommittedTablesVerify`, `TablePagesAccounted`, `CompactionEnds`, `CompactionPacks` |
| `Regions` | up to 3 regions of 4 pages, orders 0 to 2 | `RegionAssertsHold`, `BlocksDisjoint`, `FreeAtLargestOrder`, `SmallestFound`, `ImplementsFileLength` |
| `PageCache` | 2 readers, leaves and branches of 1 and 2 pages that overlap, caches of 2 pages | `FittingReadsReturn`, `CacheAssertsHold`, `CommittedInFile`, `BytesCounted`, `ReadCacheBounded` |
| `LongLeafCut` | the same instance with leaves of 2 pages and branches of 1 | violates `ReadsReturnWritten`, see below |

Further properties are defined in the modules and hold on the same instances;
adding them to the configuration checks them: `TypeOK` (`CommitOrdered`,
`ReclaimReaders`), the assertions of the commit, `AssertsHold`, of
`CommitRecovery` (`CommitAnyUse`), `AllocatedTableLive` (`ReclaimReopen`),
`StatsAddUp` and `InplaceAssertsHold` (`BtreeTables`), `MultimapStatsAddUp`,
`LenCountsDown` and `InlineWhileShort` (`MultimapTables`), `OpenAssertsHold` and
`LowestAndTrailing` (`Regions`), `AllEvictable` and `CacheCurrent` (`PageCache`).
The inductive invariants of the proofs, `TwoPhaseInv` and `RefinementInv`, hold
with `CommitKinds = {"two_phase", "quick_repair"}`, torn writes and all crashes
(493,973 states).

**Bounds.** Three roots and seven or eight ids in `CommitRecovery` are enough for
a commit, a second one that reuses the pages of an older tree, a close, and
repairs in between: both slots change hands at least twice, and every finding
below needs at most three roots. Three or four pages and four to six write
transactions in `PageReclaim` are enough for a page to be written, committed,
queued, freed and reused, with the system tree taking one or two pages of them;
each finding below is reached within these bounds, and `ReclaimSavepoints` also
holds with four pages (10,520,310 states). Ids start at 4 because a new file is
opened by a repair (id 1) and by the transaction that restores the savepoints.

In the b-tree runs a page takes two or three pairs and a branch splits at its
third key, so five keys make trees in which children merge, are
lifted and split next to each other; one value is longer than a page. `Btree`
and `Multimap` bound the operations of a transaction but not the number of
transactions: TLC reaches every tree that these keys can form, and deadlock is
checked. In `MultimapTables` half a page takes two short values or a long one,
which is the border between inline leaf and subtree, and three values fill a
leaf of the subtree. In `TableTrees` two tables give the table tree a branch of
its own, and the bounded calls still stage, rename, delete, restore and flush in
one transaction what another one committed.

`Regions` has regions of one block of the highest order, the last of them
partial, and a bitmap with a second level; it was also run with regions of 8
pages and 5 at the start. `PageCache` has room for two pages in either cache, so
that the third evicts one, with one lock stripe, so that all pages compete for
it; with two stripes and one reader it holds as well (149,479 states).

Where the configuration says `CHECK_DEADLOCK FALSE`, ids, calls or writes are
bounded and behaviours stop there, or the database is closed for good.

**Fairness.** `FairSpec` of `CommitRecovery` gives weak fairness to the steps of
opening and to those of committing and closing: they are sequential code of one
thread, with no waiting once they have started. `Spec` of `TableTree` gives weak
fairness to the two steps of a round, since `compact()` is a loop that does nothing
else; it is written out as `[]<>(compacting = "no") \/ []<><<CompactPass \/
CompactFree>>_vars`, which is what `WF_vars(CompactPass \/ CompactFree)` says, since
one of them is enabled exactly while `compacting` is not `"no"`. Nothing else is fair: applications need not begin, commit or close
anything.

## Findings

`LongLeafCut` is expected to fail. A leaf whose page has a higher order, as a
value longer than a page needs, is cut by `EncryptedFileBackend::write`
(`encrypted.rs:331`) to what fits into one encrypted page. As long as the page is
in a cache it reads well; once it has been evicted its end is zeros or what the
file had there. `tests/encryption_tests.rs:163` reads such a value back, and
succeeds because of the cache. The same happens, in the instance of `PageCache`, to
a leaf of one page that leaves no room for the nonce and the tag, which loses its
last 28 bytes, and to a branch of several pages one of whose later pages begins
with a leaf's first byte: its pages are read one by one, and this one is decrypted
although it was stored as it is (`encrypted.rs:438`). `FittingReadsReturn` and
`CommittedInFile` make their claim for the other buffers (`Fits`).

The other disagreements between the code and what the repository says of it are
outside what the passing runs claim: the circumstance is a use that they leave out,
or happens in them and is a condition of the property. Each is reproduced by
checking the property in a configuration like the named one, with the constants
given.

| Configuration | Property | What happens |
|---|---|---|
| `CommitTorn` with `CommitKinds = {"one_phase", "quick_repair"}`, `HeaderWrites = "parts"`, `CrashDuring = {"first_commit"}` | `DataSafe` | Quick repair (`db.rs:887`) leaves a rolled-back one-phase commit in the secondary slot. The next one-phase commit crashes with only its god byte on disk, and the old commit is back, where `docs/design.md:342` says "we will detect that the transaction id is older, and roll it back". |
| `CommitTorn` with `CommitKinds = {"one_phase"}`, `CrashDuring = {"repair"}` | `CrashSafe` | Opening rewrites the header (`page_manager.rs:256`) and thereby gives a torn slot a valid checksum. If this repair is interrupted the next one trusts the slot, where `docs/design.md:343` says "the checksum verification will fail, and it will be rolled back". |
| `CommitOrdered` with `CommitKinds = {"one_phase"}`, `CrashDuring = {}`, `CheckAfterNonDurable = TRUE` | `DataSafe` | `check_integrity` after a non-durable commit repairs from the wrong slot (`page_manager.rs:329`) and drops the last durable commit, where `transactions.rs:366` says that these "are guaranteed to be persistent as soon as" `commit` returns. |
| `ReclaimReaders` | `AllReadersSafe` | A non-durable commit between the registration of a reader and its reading of the root (`transactions.rs:2036`) leaves it registered under an older id than the root it reads; later non-durable commits free its pages. `db.rs:306` promises a snapshot of what was "committed before calling this method". `ReadersSafe` is about the readers that are not `late`. |
| `TableTrees` | `AllCommittedTablesVerify` | Renaming a table whose new root is staged (`table_tree.rs:532`) moves the staged root to the new name and stores it in the definition as well. At the commit the two agree, so the table is taken to be unchanged (`table_tree.rs:320`) and its checksums are never computed. `CommittedTablesVerify` is about the tables that were not renamed so. |
| `TableTrees` | `NeverPanics` | `set_root` (`table_tree.rs:244`) leaves the staged roots when a savepoint is restored; at the commit the table they belong to may be gone from the tree. `NoPanic` is about the transactions in which this did not happen. |
| `ReclaimSavepoints` | `AllocatedTableLive` without `~dur.raced` | A savepoint dropped on another thread during a commit leaves freed pages in the table of allocated pages, against the assertion of the repair at `db.rs:674`. |
| `Regions` | `TrackerOptimistic` | The tracker hears of the order that was freed (`page_manager.rs:902`), not of the block it merged to, so it may exclude a region that has room, where `region.rs:9` says that it "tracks the page orders that MAY BE free" and is optimistic. It costs file size. |

The passing runs of `PageReclaim` leave out four uses, each of which makes a
property fail; adding the use to `Uses` in a configuration shows it.

| Use | Property | What happens |
|---|---|---|
| `restore_dirty`, with `ephemeral` | `AssertsHold` | `restore_savepoint` after a change of the same transaction queues pages that are queued already, and they are freed twice (`page_manager.rs:889`). The changed table also stays changed: `set_root` (`table_tree.rs:244`) leaves the staged roots. |
| `delete_dirty` | `AssertsHold` | Deleting a table in the transaction that changed it queues uncommitted pages, against the debug assertion at `transactions.rs:1458`. |
| `abort_created`, with `persistent` | `ReferencesOwned` | Aborting after `persistent_savepoint` leaves its references in the tracker: freed pages are kept until the database is closed. |
| `restore_abort`, with `persistent` and two savepoints | `PersistentSavepointsValid` | Aborting after `restore_savepoint` leaves newer persistent savepoints listed but not restorable. |

Smaller observations: the comment at `btree_base.rs:689` gives 4068 bytes as the
room of a leaf where `EFFECTIVE_LEAF_PAGE_SIZE` is 4055; `MultimapValue::next_back`
does not count down `remaining`, so `len()` is right from the front only; the
statistics of a multimap table count the values, not the keys of the table, as
stored bytes.

## Proofs

**The commit protocol.** `CommitRecoveryProofs` and `DurableStoreProofs` prove,
for every `MaxRoots`, `MaxId`, `HeaderWrites` and `CrashDuring`, and for every set
of commit kinds without one-phase commits (`TwoPhaseOnly`, which also keeps
`check_integrity` to durable commits):

* `TypeCorrect`: `Spec => []TypeOK`;
* `TwoPhaseCrashSafe`: `Spec => []CrashSafe`;
* `TwoPhaseImplements`: `Spec => ImplementsDurableStore`.

The only assumptions are `BoundsAssumption` and `SwitchAssumption`, the types of
the constants. `CrashSafe` quantifies over the images of a crash and is not
inductive: it says nothing of the header in memory or of the commit that is being
prepared. The inductive invariant is `TwoPhaseInv`:

* `FileSafe`: the god byte on disk and the one being written both name a slot that
  is not being written, whose checksum is right, and whose trees are durable and
  belong to `durable` or `trying`;
* `CreationSafe`: before the magic number is there, nothing was committed;
* `MemorySafe`: the header in memory has the primary of the one on disk, and the
  buffer is clean wherever the code relies on it;
* `CommitSafe`: the slot that a commit installs names written trees, which are
  durable before the god byte is;
* `TreesSafe`: root numbers are fresh, and the trees of the live transaction and
  of the last non-durable commit have not been reused.

Each action is shown to preserve the invariant (`Crash` by showing that every
image is covered by one of the two god bytes), and `TwoPhaseInv` implies
`CrashSafe` because recovery with the 2-phase flag set looks at the primary only.

For the refinement, `DurableStore` sees `Visible`, the contents that a reader
gets, `durable` and the commits in flight. The invariant is strengthened to
`RefinementInv`: `JobSafe` says for whom each place of the code runs, and
`TryingSafe` that the only commit with an open outcome is the one in progress, so
that publishing it is the abstract commit. Then each action is a step of
`DurableStore` or leaves what it sees unchanged: opening ends with what was
persisted or was in flight because `FileSafe` puts nothing else behind the god
byte, and a check that ran on durable commits shows what was visible before.

**One-phase commits.** `AnyCommitProofs` proves `AnyCommitCrashSafe`, that is
`Spec => []CrashSafe`, for every set of commit kinds, one-phase ones included, and
every `MaxRoots` and `MaxId`. A one-phase commit has one fsync, so nothing orders
its god byte after its slot, and the theorem does not ask for it: the parts of the
header reach the disk in any order (`"parts"`) or torn (`"torn"`). Its hypothesis
`Survivable` leaves out the three circumstances in which `CrashSafe` is known to
fail, which are the first three rows of the findings: `check_integrity` after a
non-durable commit; a crash in the first one-phase commit over a rolled-back one,
unless the writes are ordered; a crash in a repair, if slots can be torn.

`TwoPhaseInv` does not hold there: after a crash the slot that opening looks at
first may be torn or have incomplete trees. `SurvivalInv` says instead:

* `ImagesSafe`: each header that a crash can leave `Opens`: the slot that
  `pick_primary_for_repair` settles on is complete and belongs to `durable` or
  `trying`, or it is not marked 2-phase, does no harm if its trees happen to be
  there, and the other slot is complete and belongs to one of them;
* `AtRest`, `OpeningSafe`, `UseSafe`: where the code relies on it, the header in
  memory is the one on disk, its primary is complete, and is the younger slot or
  marked 2-phase (`Settled`), so that a later repair keeps it;
* `InstallSafe`: the slot that a commit installs is younger than the primary, which
  stays as it is until the new god byte is durable;
* `CreationSafe` and `TreesSafe`, as above.

The age of the slots is what makes the fallback right, and is why the invariant
must carry it through opening, repair and every commit: a god byte that arrives
alone leads to the slot that was there before, and only because this one is older
than the primary, or torn, does the repair go back (`InstallOpens`). TLC checked
`SurvivalInv` before it was proved: with `"torn"` and no crash in repairs (643,636
states), `"parts"` and crashes in repairs (2,045,905 states with four roots and
nine ids), and `"ordered"` and all crashes (94,213 states).

**The length of the file.** `FileLengthProofs` proves `FileOpens`: for every
region size, header size and any number of regions, however the file grows,
shrinks, is cut, crashes and is opened again, the two assertions of
`TransactionalMemory::new()` hold. Its invariant `Inv` adds that the file has the
length of some layout: while the database is open that of the layout in memory,
and before a cut the layout in memory is the one on disk. It rests on lemmas about the
arithmetic of `layout.rs`: a layout recalculated from a length has that length
(`RecalculateFits`), a layout calculated for a size covers it (`CalculateCovers`),
growth makes room for what was asked (`NextDesiredCovers`), and giving up the end
of the last region shortens the file (`ReduceShortens`). The only assumption is
`LayoutAssumption`. That allocation in `Regions` implements `FileLength` is
model-checked.

Only model-checked: the refinement of `DurableStore` with one-phase commits,
everything in `PageReclaim`, the b-tree modules, `Regions` and `PageCache`. Liveness needs
fairness and `ENABLED` and is out of the prover's reach, and so is what the
recursive operators of the b-tree, bitmap and allocator modules compute for every
input.

## What is not modelled

* Checksum collisions, and I/O that corrupts synced data. A checksum is right
  exactly when the data is.
* Writes of the header page in `PageCache`; they are the subject of
  `CommitRecovery`. The sharing of page memory by `Arc`: a reader pins what it
  holds.
* The order of setting a file's length and writing the header: `Regions` takes the
  new length to be on disk before a header that needs it.
* The debug assertion of `compact()` at `db.rs:599`, a savepoint id used twice
  (`db.rs:552`) and what dropping a database does while a transaction lives
  (`db.rs:1029`).
* The system tree in `PageReclaim` is one page, and the user's tables are one
  table; `TableTree` has several of them but no readers.
* Passwords, keys and their derivation, file locks, other backends, encodings of
  types, the hash function, bindings and macros: I/O or pure conversions without
  a protocol. `PROJECT.json` lists every part with the reason.

## Plan

1. Model more: the tracker's condition variable with several writers; the
   allocator state table's encoding; the read-only database.
2. Check more: `PageReclaim` with all uses combined on fewer pages; compaction
   over `PageReclaim` with readers; the assertion of `compact`.
3. Prove more: reader and commit safety of `PageReclaim` from the invariant that
   every page of a protected root with id r is in the current tree or queued
   under an id above r; lemmas about the tracker's minima; that `Regions`
   implements `FileLength`.
