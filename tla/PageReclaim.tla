----------------------------- MODULE PageReclaim -----------------------------
(***************************************************************************)
(* How redbx frees pages: WriteTransaction's commits, aborts and           *)
(* savepoints (transactions.rs), on TransactionTracker and on the page     *)
(* sets of TransactionalMemory (page_manager.rs), with readers, savepoints *)
(* that are dropped by other threads, and crashes.                         *)
(*                                                                         *)
(* A page that a transaction no longer uses is queued in the freed table   *)
(* under that transaction's id, and is freed by a later commit, once no    *)
(* reader, savepoint or pending non-durable commit is as old as that.  The *)
(* freed tables are themselves in the system tree, whose own pages take a  *)
(* shorter way.                                                            *)
(*                                                                         *)
(* A b-tree is the set of its pages.  The user's tables are one table; the *)
(* system tree is one page, which every commit copies.                     *)
(***************************************************************************)
EXTENDS TransactionTracker

CONSTANTS
  Pages,     \* the pages of the file
  Readers,   \* threads that begin read transactions
  MaxNewPages,  \* bound: pages that a table gains when it is changed
  Uses       \* what the application does apart from the usual

ASSUME UsesAssumption ==
  Uses \subseteq {"quick_repair",    \* durable commits that save the allocator state
                  "non_durable",     \* Durability::None
                  "reopen",          \* a crash, or closing and opening again
                  "ephemeral", "persistent",  \* creates savepoints of that kind
                  "abort_created",   \* aborts after creating a persistent savepoint
                  "restore_abort",   \* aborts after restoring a savepoint
                  "restore_dirty",   \* restores a savepoint after other changes
                  "delete_dirty"}    \* deletes a table that it has just changed

VARIABLES
  alloc,                    \* pages that the region allocators hold as allocated
  allocated_since_commit,
  unpersisted,              \* allocated by commits since the last durable one
  cur,                      \* the commit that a new transaction sees
  dur,                      \* the commit that the primary slot on disk names
  tracker,                  \* TransactionTracker
  txn,                      \* the live WriteTransaction
  readers,                  \* the read transaction of every reader
  handles,                  \* the ephemeral Savepoints that the application holds
  dropping,                 \* ephemeral savepoints in the middle of drop()
  failed                    \* assertions on the freed pages that have failed

memory == <<alloc, allocated_since_commit, unpersisted>>
commits == <<cur, dur>>
others == <<readers, handles, dropping>>
vars == <<memory, commits, tracker, txn, others, failed>>

-----------------------------------------------------------------------------
(* Commits and transactions.                                               *)

NoSavepoint == [id |-> None, root |-> {}]
Savepoint == [id : Ids, root : SUBSET Pages] \cup {NoSavepoint}

\* The system tables: transaction id -> pages, and savepoint id -> savepoint.
Tables == [data_freed : [Ids -> SUBSET Pages],
           system_freed : [Ids -> SUBSET Pages],
           data_allocated : [Ids -> SUBSET Pages],
           savepoints : [SavepointIds -> Savepoint],
           next_savepoint : 0..(MaxSavepoint + 1)]

\* saved: the allocator state table of a quick-repair commit, if there is one.
\* raced: a savepoint was dropped between two steps of the commit.
Commit == [id : Ids, data : SUBSET Pages, sys : SUBSET Pages, tables : Tables,
           saved : SUBSET SUBSET Pages, raced : BOOLEAN]

NoPages == [id \in Ids |-> {}]
NewTables == [data_freed |-> NoPages, system_freed |-> NoPages,
              data_allocated |-> NoPages,
              savepoints |-> [s \in SavepointIds |-> NoSavepoint],
              next_savepoint |-> 0]
NewCommit(id) == [id |-> id, data |-> {}, sys |-> {}, tables |-> NewTables,
                  saved |-> {}, raced |-> FALSE]

\* pending: the root of a table that was changed and closed; it replaces the
\* root in the table tree when the transaction commits.
Txn == [at : {"active", "stored", "freed", "copied", "published"},
        id : Ids, durability : {"immediate", "none"}, quick_repair : BOOLEAN,
        dirty : BOOLEAN,
        root : SUBSET Pages, pending : SUBSET SUBSET Pages,
        sys : SUBSET Pages, tables : Tables, saved : SUBSET SUBSET Pages,
        tracking : BOOLEAN, allocated : SUBSET Pages,
        freed : SUBSET Pages, system_freed : SUBSET Pages,
        restored : BOOLEAN, raced : BOOLEAN,
        created : SUBSET SavepointIds, deleted : [SavepointIds -> IdOrNone]]
NoDeleted == [s \in SavepointIds |-> None]
NoTxn == [at |-> "none"]
NewTxn(id) ==
  [at |-> "active", id |-> id, durability |-> "immediate", quick_repair |-> FALSE,
   dirty |-> FALSE, root |-> cur.data, pending |-> {}, sys |-> cur.sys,
   tables |-> cur.tables, saved |-> {}, tracking |-> TRUE, allocated |-> {},
   freed |-> {}, system_freed |-> {}, restored |-> FALSE, raced |-> FALSE,
   created |-> {}, deleted |-> NoDeleted]

\* late: the root is that of a non-durable commit after the one that is registered.
Idle == [at |-> "idle", id |-> 0, root |-> {}, late |-> FALSE]

PagesOf(table, keys) == UNION {table[id] : id \in keys}
Without(table, keys) == [id \in Ids |-> IF id \in keys THEN {} ELSE table[id]]
Before(id) == {k \in Ids : k < id}
After(id) == {k \in Ids : k > id}

\* The pages that do_repair() marks as allocated, from the trees and the freed
\* tables of a commit.
Rebuilt(c) == c.data \cup c.sys \cup PagesOf(c.tables.data_freed, Ids)
                     \cup PagesOf(c.tables.system_freed, Ids)

\* The user's tables as the transaction would commit them.
Tree(t) == IF t.pending = {} THEN t.root ELSE UNION t.pending

Active == txn.at = "active"

-----------------------------------------------------------------------------
(* Read transactions.                                                      *)

\* begin_read(): register_read_transaction() under the tracker's mutex ...
ReaderRegister(r) ==
  /\ readers[r].at = "idle"
  /\ tracker' = register_read_transaction(tracker, cur.id)
  /\ readers' = [readers EXCEPT ![r] = [Idle EXCEPT !.at = "registered", !.id = cur.id]]
  /\ UNCHANGED <<memory, commits, txn, handles, dropping, failed>>

\* ... and then ReadTransaction::new() reads the root, which may be a later one.
ReaderStart(r) ==
  /\ readers[r].at = "registered"
  /\ readers' = [readers EXCEPT ![r].at = "reading", ![r].root = cur.data,
                                ![r].late = cur.id \notin {readers[r].id, dur.id}]
  /\ UNCHANGED <<memory, commits, tracker, txn, handles, dropping, failed>>

ReaderEnd(r) ==
  /\ readers[r].at = "reading"
  /\ tracker' = deallocate_read_transaction(tracker, readers[r].id)
  /\ readers' = [readers EXCEPT ![r] = Idle]
  /\ UNCHANGED <<memory, commits, txn, handles, dropping, failed>>

-----------------------------------------------------------------------------
(* Write transactions.                                                     *)

BeginWrite ==
  /\ txn = NoTxn /\ tracker.next_transaction_id < MaxId
  /\ tracker' = start_write_transaction(tracker)
  /\ txn' = NewTxn(tracker'.next_transaction_id)
  /\ UNCHANGED <<memory, commits, others, failed>>

\* set_durability(); it refuses to go below Immediate once a persistent savepoint
\* was created or deleted.
SetDurability(durability) ==
  /\ "non_durable" \in Uses
  /\ Active /\ txn.durability # durability
  /\ durability = "none" => txn.created = {} /\ txn.deleted = NoDeleted
  /\ txn' = [txn EXCEPT !.durability = durability]
  /\ UNCHANGED <<memory, commits, tracker, others, failed>>

\* PageTrackerPolicy: the pages that the transaction allocated and still has.
Track(tracking, freed, new) ==
  IF tracking THEN (txn.allocated \ freed) \cup new ELSE {}

\* A table is opened, changed and closed: pages are copied, added or given up.
\* set_dirty() stops tracking allocations if there is no savepoint.  A page of
\* this very transaction is freed at once (free_if_uncommitted()).
UpdateTable(old, new) ==
  /\ Active
  /\ old \subseteq Tree(txn) /\ new \subseteq Pages \ alloc /\ old \cup new # {}
  /\ LET tracking == txn.tracking /\ any_savepoint_exists(tracker)
         mine == old \cap allocated_since_commit
     IN  /\ alloc' = (alloc \ mine) \cup new
         /\ allocated_since_commit' = (allocated_since_commit \ mine) \cup new
         /\ txn' = [txn EXCEPT
              !.dirty = TRUE,
              !.pending = {(Tree(txn) \ old) \cup new},
              !.tracking = tracking,
              !.allocated = Track(tracking, mine, new),
              !.freed = @ \cup (old \ mine)]
         /\ failed' = failed \cup {a \in {"queued twice"} : (old \ mine) \cap txn.freed # {}}
  /\ UNCHANGED <<unpersisted, commits, tracker, others>>

\* delete_table() queues every page of the table, also those of this transaction.
DeleteTable ==
  /\ Active /\ Tree(txn) # {}
  /\ Tree(txn) \cap allocated_since_commit # {} => "delete_dirty" \in Uses
  /\ txn' = [txn EXCEPT
       !.dirty = TRUE, !.root = {}, !.pending = {},
       !.tracking = @ /\ any_savepoint_exists(tracker),
       !.allocated = Track(any_savepoint_exists(tracker), {}, {}),
       !.freed = @ \cup Tree(txn)]
  /\ failed' = failed \cup {a \in {"queued twice"} : Tree(txn) \cap txn.freed # {}}
  /\ UNCHANGED <<memory, commits, tracker, others>>

-----------------------------------------------------------------------------
(* Savepoints.                                                             *)

\* WriteTransaction::allocate_savepoint(): a read transaction and a savepoint id.
NewSavepoint ==
  allocate_savepoint(register_read_transaction(tracker, cur.id), cur.id)

\* ephemeral_savepoint(), which a dirty transaction refuses.
EphemeralSavepoint ==
  LET s == tracker.next_savepoint_id + 1
  IN  /\ "ephemeral" \in Uses
      /\ Active /\ ~txn.dirty
      /\ s <= MaxSavepoint
      /\ tracker' = NewSavepoint
      /\ handles' = [handles EXCEPT ![s] = [id |-> cur.id, root |-> cur.data]]
      /\ UNCHANGED <<memory, commits, txn, readers, dropping, failed>>

\* persistent_savepoint().  Opening a system table makes the transaction dirty.
PersistentSavepoint ==
  LET s == tracker.next_savepoint_id + 1
  IN  /\ "persistent" \in Uses
      /\ Active /\ ~txn.dirty /\ txn.durability = "immediate"
      /\ s <= MaxSavepoint
      /\ tracker' = NewSavepoint
      /\ txn' = [txn EXCEPT
           !.dirty = TRUE,
           !.tables.next_savepoint = s + 1,
           !.tables.savepoints[s] = [id |-> cur.id, root |-> cur.data],
           !.created = @ \cup {s}]
      /\ UNCHANGED <<memory, commits, others, failed>>

\* delete_persistent_savepoint(): the tracker hears of it after the commit.
DeletePersistentSavepoint(s) ==
  /\ Active /\ txn.durability = "immediate"
  /\ txn.tables.savepoints[s] # NoSavepoint
  /\ txn' = [txn EXCEPT !.dirty = TRUE,
                        !.tables.savepoints[s] = NoSavepoint,
                        !.deleted[s] = txn.tables.savepoints[s].id]
  /\ UNCHANGED <<memory, commits, tracker, others, failed>>

\* The savepoints that the application can name: the ones it holds, and the ones
\* in the savepoint table.
Known(s) ==
  {x \in {handles[s], cur.tables.savepoints[s], txn.tables.savepoints[s]} :
     x # NoSavepoint /\ s \notin dropping}

PurgeFreed_Not(table, id) == table  \* faulty

\* What later transactions freed is what the savepoint may need again.
PurgeFreed(table, id) == Without(table, After(id))

\* restore_savepoint().  With Durability::None it fails at the first newer
\* persistent savepoint, with all but their deletion done.
RestoreSavepoint(s) ==
  /\ Active
  /\ txn.pending # {} \/ txn.freed # {} \/ txn.restored => "restore_dirty" \in Uses
  /\ is_valid_savepoint(tracker, s)
  /\ \E savepoint \in Known(s) :
       LET unreachable == PagesOf(txn.tables.data_allocated, After(savepoint.id))
           newer == {x \in SavepointIds : x > s /\ txn.tables.savepoints[x] # NoSavepoint}
           deleted == IF txn.durability = "immediate" THEN newer ELSE {}
       IN  /\ tracker' = invalidate_savepoints_after(tracker, s)
           /\ txn' = [txn EXCEPT
                !.dirty = TRUE, !.restored = TRUE,
                !.root = savepoint.root,
                !.tables.data_freed = PurgeFreed(@, savepoint.id),
                !.freed = @ \cup unreachable,
                !.tables.savepoints =
                  [x \in SavepointIds |-> IF x \in deleted THEN NoSavepoint ELSE @[x]],
                !.deleted = [x \in SavepointIds |->
                  IF x \in deleted THEN txn.tables.savepoints[x].id ELSE @[x]]]
           /\ failed' = failed \cup {a \in {"queued twice"} : unreachable \cap txn.freed # {}}
  /\ UNCHANGED <<memory, commits, others>>

\* Savepoint::drop(), on any thread: deallocate_savepoint()'s two steps.
DropSavepoint(s) ==
  /\ handles[s] # NoSavepoint /\ s \notin dropping
  /\ tracker' = remove_savepoint(tracker, s)
  /\ dropping' = dropping \cup {s}
  /\ txn' = IF txn.at = "stored" THEN [txn EXCEPT !.raced = TRUE] ELSE txn
  /\ UNCHANGED <<memory, commits, readers, handles, failed>>

DropSavepointEnd(s) ==
  /\ s \in dropping
  /\ tracker' = deallocate_read_transaction(tracker, handles[s].id)
  /\ handles' = [handles EXCEPT ![s] = NoSavepoint]
  /\ dropping' = dropping \ {s}
  /\ UNCHANGED <<memory, commits, txn, readers, failed>>

-----------------------------------------------------------------------------
(* Commit and abort.                                                       *)

Unneeded_None == {}  \* faulty: keeps every allocation

\* The transactions whose allocations no savepoint can need.
Unneeded ==
  LET oldest == oldest_savepoint(tracker)
  IN  IF oldest = None THEN Ids ELSE Before(oldest)

\* commit_inner(): store_data_freed_pages() and store_allocated_pages(), which
\* also forgets the allocations that no savepoint needs any more.
CommitStore(quick_repair) ==
  /\ Active
  /\ quick_repair => "quick_repair" \in Uses /\ txn.durability = "immediate"
  /\ txn' = [txn EXCEPT
       !.at = "stored",
       !.quick_repair = quick_repair,
       !.root = Tree(txn), !.pending = {},
       !.tables.data_freed[txn.id] = txn.freed,
       !.tables.data_allocated =
         Without([@ EXCEPT ![txn.id] = txn.allocated], Unneeded),
       !.freed = {}, !.allocated = {}]
  /\ failed' = failed
       \cup {a \in {"not allocated"} : ~(txn.freed \subseteq alloc)}
       \cup {a \in {"uncommitted"} : txn.freed \cap allocated_since_commit # {}}
       \cup {a \in {"committed"} : ~(txn.allocated \subseteq allocated_since_commit)}
  /\ UNCHANGED <<memory, commits, tracker, others>>

FreeUntil_OffByOne ==  \* faulty: frees what the oldest reader sees
  LET oldest == oldest_live_read_transaction(tracker)
  IN  IF oldest = None THEN txn.id ELSE oldest + 2

\* The first transaction whose freed pages a durable commit has to keep ...
FreeUntil ==
  LET oldest == oldest_live_read_transaction(tracker)
  IN  IF oldest = None THEN txn.id ELSE oldest + 1

NonDurableFreeUntil_PastSavepoint ==  \* faulty: ignores savepoints
  LET oldest == oldest_live_read_nondurable_transaction(tracker)
  IN  IF oldest = None THEN txn.id ELSE oldest + 1

\* ... and the one for a non-durable commit.
NonDurableFreeUntil ==
  LET oldest == oldest_live_read_nondurable_transaction(tracker)
      unread == IF oldest = None THEN txn.id ELSE oldest + 1
      savepoint == oldest_savepoint(tracker)
  IN  IF savepoint # None /\ savepoint < unread THEN savepoint ELSE unread

\* durable_commit(): process_freed_pages() frees what nobody can see.
CommitFreeDurable ==
  LET pages == PagesOf(txn.tables.data_freed, Before(FreeUntil))
               \cup PagesOf(txn.tables.system_freed, Before(FreeUntil))
  IN  /\ txn.at = "stored" /\ txn.durability = "immediate"
      /\ alloc' = alloc \ pages
      /\ allocated_since_commit' = allocated_since_commit \ pages
      /\ txn' = [txn EXCEPT
           !.at = "freed",
           !.tables.data_freed = Without(@, Before(FreeUntil)),
           !.tables.system_freed = Without(@, Before(FreeUntil))]
      /\ failed' = failed \cup {a \in {"freed twice"} : ~(pages \subseteq alloc)}
      /\ UNCHANGED <<unpersisted, commits, tracker, others>>

FreedLater_Forgets(table, ids) == Without(table, ids)  \* faulty: leaks the rest

\* What stays queued of the entries that a non-durable commit processes.
FreedLater(table, ids) ==
  [id \in Ids |-> IF id \in ids THEN table[id] \ unpersisted ELSE table[id]]

\* non_durable_commit(): process_freed_pages_nondurable() frees the pages that no
\* durable commit has ever held, from commits that were not processed before.
CommitFreeNonDurable ==
  LET Candidates(table) ==
        {id \in Before(NonDurableFreeUntil)
                \cap tracker.unprocessed_freed_non_durable_commits : table[id] # {}}
      data == Candidates(txn.tables.data_freed)
      system == Candidates(txn.tables.system_freed)
      pages == unpersisted \cap (PagesOf(txn.tables.data_freed, data)
                                 \cup PagesOf(txn.tables.system_freed, system))
  IN  /\ txn.at = "stored" /\ txn.durability = "none"
      /\ alloc' = alloc \ pages
      /\ unpersisted' = unpersisted \ pages
      /\ txn' = [txn EXCEPT !.at = "freed",
                            !.tables.data_freed = FreedLater(@, data),
                            !.tables.system_freed = FreedLater(@, system)]
      /\ tracker' = mark_unprocessed_non_durable_commit(tracker, data \cup system)
      /\ failed' = failed \cup {a \in {"freed twice"} : ~(pages \subseteq alloc)}
      /\ UNCHANGED <<allocated_since_commit, commits, others>>

QueuedSystemPages_NotQuick ==  \* faulty: quick-repair frees after the commit
  IF txn.durability = "none" THEN txn.sys \ unpersisted ELSE {}

\* The old pages of the system tree that store_system_freed_pages() queues: all
\* of them for quick-repair, which must not change what it has saved, and for a
\* non-durable commit those that a durable commit holds.
QueuedSystemPages ==
  CASE txn.quick_repair -> txn.sys
    [] txn.durability = "none" -> txn.sys \ unpersisted
    [] OTHER -> {}

\* The system tree is copied, and a quick-repair commit saves the allocators.
CopySystemTree(new) ==
  /\ txn.at = "freed"
  /\ new \notin alloc
  /\ alloc' = alloc \cup {new}
  /\ allocated_since_commit' = allocated_since_commit \cup {new}
  /\ txn' = [txn EXCEPT
       !.at = "copied",
       !.sys = {new},
       !.tables.system_freed[txn.id] = QueuedSystemPages,
       !.system_freed = txn.sys \ QueuedSystemPages,
       !.saved = IF txn.quick_repair THEN {alloc'} ELSE {}]
  /\ UNCHANGED <<unpersisted, commits, tracker, others, failed>>

\* TransactionalMemory::commit() and non_durable_commit().
CommitPublish ==
  /\ txn.at = "copied"
  /\ cur' = [id |-> txn.id, data |-> txn.root, sys |-> txn.sys,
             tables |-> txn.tables, saved |-> txn.saved, raced |-> txn.raced]
  /\ dur' = IF txn.durability = "immediate" THEN cur' ELSE dur
  /\ unpersisted' = IF txn.durability = "immediate" THEN {}
                    ELSE unpersisted \cup allocated_since_commit
  /\ allocated_since_commit' = {}
  /\ txn' = [txn EXCEPT !.at = "published"]
  /\ UNCHANGED <<alloc, tracker, others, failed>>

\* What follows the commit: the tracker learns of it, the system tree's old pages
\* are freed, and the persistent savepoints that were deleted are released.
CommitEnd ==
  /\ txn.at = "published"
  /\ tracker' = deallocate_savepoints(
                  IF txn.durability = "immediate"
                  THEN clear_pending_non_durable_commits(tracker)
                  ELSE register_non_durable_commit(tracker, txn.id, dur.id),
                  txn.deleted)
  /\ alloc' = alloc \ txn.system_freed
  /\ failed' = failed \cup {a \in {"freed twice"} : ~(txn.system_freed \subseteq alloc)}
  /\ txn' = NoTxn
  /\ UNCHANGED <<allocated_since_commit, unpersisted, commits, others>>

\* abort(), or drop() of a transaction: rollback_uncommitted_writes().  Nothing
\* tells the tracker about the savepoints that the transaction had created.
Abort ==
  /\ Active
  /\ txn.created # {} => "abort_created" \in Uses
  /\ txn.restored => "restore_abort" \in Uses
  /\ alloc' = alloc \ allocated_since_commit
  /\ allocated_since_commit' = {}
  /\ txn' = NoTxn
  /\ UNCHANGED <<unpersisted, commits, tracker, others, failed>>

Opened_NoSavepoints(c) ==  \* faulty: registers no savepoint
  restore_savepoint_counter_state(
    start_write_transaction(NewTracker(c.id + 1)), c.tables.next_savepoint)

\* Database::new() from the commit c: a begin_write() and an abort() register the
\* persistent savepoints, and use up an id.
Opened(c) ==
  register_persistent_savepoints(
    restore_savepoint_counter_state(
      start_write_transaction(NewTracker(c.id + 1)), c.tables.next_savepoint),
    [s \in SavepointIds |-> c.tables.savepoints[s].id])

\* The process ends, by a crash or by closing the database (which commits with
\* quick-repair first), and opens the database again: the allocators are loaded,
\* or rebuilt by a repair, which ends with a commit of its own.
Reopen ==
  /\ "reopen" \in Uses
  /\ dur.id + 3 < MaxId
  /\ dur' = IF dur.saved # {} THEN dur ELSE [dur EXCEPT !.id = @ + 1]
  /\ cur' = dur'
  /\ alloc' = IF dur.saved # {} THEN UNION dur.saved ELSE Rebuilt(dur)
  /\ allocated_since_commit' = {}
  /\ unpersisted' = {}
  /\ tracker' = Opened(dur')
  /\ txn' = NoTxn
  /\ readers' = [r \in Readers |-> Idle]
  /\ handles' = [s \in SavepointIds |-> NoSavepoint]
  /\ dropping' = {}
  /\ UNCHANGED failed

-----------------------------------------------------------------------------

\* A new file, opened: its header has transaction 0, and opening it is a repair.
Init ==
  /\ alloc = {} /\ allocated_since_commit = {} /\ unpersisted = {}
  /\ cur = NewCommit(1) /\ dur = NewCommit(1)
  /\ tracker = Opened(NewCommit(1))
  /\ txn = NoTxn
  /\ readers = [r \in Readers |-> Idle]
  /\ handles = [s \in SavepointIds |-> NoSavepoint]
  /\ dropping = {}
  /\ failed = {}

Next ==
  \/ \E r \in Readers : ReaderRegister(r) \/ ReaderStart(r) \/ ReaderEnd(r)
  \/ BeginWrite
  \/ \E durability \in {"immediate", "none"} : SetDurability(durability)
  \/ Active /\ \E old \in SUBSET Tree(txn), new \in SUBSET (Pages \ alloc) :
                 Cardinality(new) <= MaxNewPages /\ UpdateTable(old, new)
  \/ DeleteTable
  \/ EphemeralSavepoint \/ PersistentSavepoint
  \/ \E s \in SavepointIds :
       \/ DeletePersistentSavepoint(s) \/ RestoreSavepoint(s)
       \/ DropSavepoint(s) \/ DropSavepointEnd(s)
  \/ \E quick_repair \in BOOLEAN : CommitStore(quick_repair)
  \/ CommitFreeDurable \/ CommitFreeNonDurable
  \/ \E new \in Pages : CopySystemTree(new)
  \/ CommitPublish \/ CommitEnd
  \/ Abort
  \/ Reopen

Spec == Init /\ [][Next]_vars

-----------------------------------------------------------------------------
(* Properties.                                                             *)

\* The page sets, the tables, the tracker and the transactions have their types;
\* in particular no reference count falls below zero.
TypeOK ==
  /\ alloc \subseteq Pages /\ allocated_since_commit \subseteq Pages
  /\ unpersisted \subseteq Pages
  /\ cur \in Commit /\ dur \in Commit
  /\ tracker \in Tracker
  /\ txn \in Txn \cup {NoTxn}
  /\ readers \in [Readers -> [at : {"idle", "registered", "reading"}, id : Ids,
                              root : SUBSET Pages, late : BOOLEAN]]
  /\ handles \in [SavepointIds -> Savepoint]
  /\ dropping \subseteq SavepointIds

\* Pages that a tree still needs are neither free nor being written.
Safe(pages) == pages \subseteq alloc \ allocated_since_commit

\* No page that a read transaction can reach is freed or reused, whatever commits
\* before and after it reads the root, if that is the commit that it registered or a
\* durable one.
ReadersSafe == \A r \in Readers : ~readers[r].late => Safe(readers[r].root)

\* No read transaction at all loses a page.  It fails: a non-durable commit between
\* the two steps of begin_read() is read and not registered, and the next
\* non-durable commit frees and reuses pages of it.
AllReadersSafe == \A r \in Readers : Safe(readers[r].root)

\* No page of the commit that a crash would go back to is freed or reused before
\* a later commit is durable; nor is one that new transactions see.
CommitsSafe == Safe(dur.data \cup dur.sys) /\ Safe(cur.data \cup cur.sys)

\* No page of a savepoint that can still be restored is freed or reused.
SavepointsSafe ==
  \A s \in SavepointIds :
    is_valid_savepoint(tracker, s) =>
      Safe(handles[s].root) /\ Safe(cur.tables.savepoints[s].root)

\* The allocators hold exactly the pages of the trees and of the freed tables: no
\* page leaks, and check_integrity() finds the allocators as it rebuilds them.
NoLeak == txn = NoTxn => alloc = Rebuilt(cur)

\* A repair marks every page once: mark_page_allocated() asserts that the page is
\* not in a second tree or freed list.
EachPageOnce ==
  LET Disjoint(a, b) == a \cap b = {}
      EntriesDisjoint(table) ==
        \A j, k \in Ids : j # k => Disjoint(table[j], table[k])
      data_freed == PagesOf(dur.tables.data_freed, Ids)
      system_freed == PagesOf(dur.tables.system_freed, Ids)
  IN  /\ Disjoint(dur.data, dur.sys)
      /\ Disjoint(dur.data \cup dur.sys, data_freed \cup system_freed)
      /\ Disjoint(data_freed, system_freed)
      /\ EntriesDisjoint(dur.tables.data_freed)
      /\ EntriesDisjoint(dur.tables.system_freed)

\* The saved allocator state of a quick-repair commit is what a full repair of
\* the same commit would rebuild.
QuickRepairAgrees == dur.saved # {} => UNION dur.saved = Rebuilt(dur)

\* The assertions of store_data_freed_pages(), free_helper() and of the buddy
\* allocator: a page is queued and freed only once, while it is allocated.
AssertsHold == failed = {}

\* check_repaired_allocated_pages_table(): every page of the allocated table is
\* allocated, as a repair rebuilds it, whenever savepoints are dropped; but not if
\* that is after store_allocated_pages() and before process_freed_pages() of the very
\* commit, which then frees pages of the table that it has written.
AllocatedTableLive ==
  ~dur.raced => PagesOf(dur.tables.data_allocated, Ids) \subseteq Rebuilt(dur)

\* Every reference count of the tracker has an owner: a reader, a savepoint or a
\* pending commit.  Otherwise freed pages would be kept for ever.
ReferencesOwned ==
  txn = NoTxn =>
    \A id \in Ids : tracker.live_read_transactions[id] =
        Cardinality({r \in Readers : readers[r].at # "idle" /\ readers[r].id = id})
      + Cardinality({s \in SavepointIds : handles[s].id = id})
      + Cardinality({s \in SavepointIds : cur.tables.savepoints[s].id = id})
      + Cardinality({k \in Ids : tracker.pending_non_durable_commits[k] = id})

\* A persistent savepoint that is in the table can be restored.
PersistentSavepointsValid ==
  txn = NoTxn =>
    \A s \in SavepointIds :
      cur.tables.savepoints[s] # NoSavepoint => is_valid_savepoint(tracker, s)
=============================================================================
