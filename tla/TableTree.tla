----------------------------- MODULE TableTree ------------------------------
(***************************************************************************)
(* The table tree (table_tree.rs) and the namespace of open tables         *)
(* (TableNamespace, transactions.rs): the definitions of all tables are    *)
(* the values of a b-tree, and the roots of tables that were closed wait   *)
(* in pending_table_updates until the commit writes them.  Compaction      *)
(* (db.rs) moves the pages of all these trees to the front of the file.    *)
(*                                                                         *)
(*   mem, root      the pages, and the table tree of the open transaction  *)
(*   saved          the committed table tree                               *)
(*   open           name -> [root, length] of the tables that are open     *)
(*   pending        pending_table_updates, name -> [root, length]          *)
(*   contents, base what the transaction and the last commit say: name ->  *)
(*                  [keys, sealed], not sealed if the table was renamed    *)
(*                  while a root without checksum was staged               *)
(*   savepoint      the sequence of the savepoint, [root, contents]        *)
(*   odd            what the transaction did: "restored" the savepoint,    *)
(*                  "deleted" a table that it had changed; and "mixed", it *)
(*                  or an earlier one restored while roots were staged     *)
(*   compacting     what compact() is at, "pass" or "free", or "no"        *)
(*   system         where compact() has the page of the system tables      *)
(*   panicked       "unwrap", "space": the unwrap() or assertion that      *)
(*                  failed, or "no"                                        *)
(*   ops, txns      how many calls, and commits, so far                    *)
(***************************************************************************)
EXTENDS BtreeOps, FiniteSetsExt

CONSTANTS
  Names,          \* names of tables
  TableKeys,      \* keys of tables
  Value,          \* key -> its value
  DefinitionLen,  \* length of a stored InternalTableDefinition
  MaxPagesPerCompaction,
  MaxCalls        \* bound: how many calls the first, the second, ... transaction may make

VARIABLES mem, root, saved, open, pending, contents, base, savepoint, odd,
          compacting, system, panicked, ops, txns

vars == <<mem, root, saved, open, pending, contents, base, savepoint, odd,
          compacting, system, panicked, ops, txns>>

ASSUME TableTreeAssumption ==
  /\ Names \cup TableKeys \subseteq Keys
  /\ MaxPagesPerCompaction \in Nat \ {0}
  /\ MaxCalls \in Seq(Nat)

-----------------------------------------------------------------------------
(* Table definitions.                                                      *)

Definition(header, length) == [len |-> DefinitionLen, table |-> header, length |-> length]
Staged(header, length) == [root |-> header, length |-> length]

\* f with f[x] = y, and f without x.
With(f, x, y) == (x :> y) @@ f
Minus(f, x) == [z \in DOMAIN f \ {x} |-> f[z]]

\* list_tables().
list_tables(m, header) == {n \in Names : get(m, header, n) # <<>>}

\* TableTreeMut::get_table_untyped(): the staged root stands for the stored one.
get_table(m, header, staged, n) ==
  LET found_ == get(m, header, n)
  IN  IF found_ = <<>> \/ n \notin DOMAIN staged THEN found_
      ELSE <<Definition(staged[n].root, staged[n].length)>>

\* flush_table_root_updates(), the tables in the given order.
\* [m, root] with the new root of the table n, f, in its definition.
Redefine(f, header, n, length) == insert(f.m, header, n, Definition(f.root, length))

\* The table tree t after the updates of the tables that order lists.
RECURSIVE flush_updates_Unfinalized(_, _, _)
flush_updates_Unfinalized(t, staged, order) ==  \* faulty: only the table tree's checksums
  IF order = <<>> THEN t
  ELSE LET n == Head(order)
       IN  flush_updates_Unfinalized(
             Redefine(Changed(t.m, staged[n].root, <<>>), t.root, n, staged[n].length),
             staged, Tail(order))

RECURSIVE flush_updates(_, _, _)
flush_updates(t, staged, order) ==
  IF order = <<>> THEN t
  ELSE LET n == Head(order)
       IN  flush_updates(
             IF get(t.m, t.root, n)[1].table = staged[n].root THEN t
             ELSE Redefine(finalize_dirty_checksums(t.m, staged[n].root), t.root, n,
                           staged[n].length),
             staged, Tail(order))

\* flush_inner().
FinalizeTree(t) == finalize_dirty_checksums(t.m, t.root)
flush_inner(m, header, staged, order) ==
  FinalizeTree(flush_updates(Changed(m, header, <<>>), staged, order))

\* "Reserve space in the table tree": an uncommitted path to the definition of n.
PutBack(i, n) == IF i.old = <<>> THEN i ELSE insert(i.m, i.root, n, i.old[1])
reserve(m, header, n) == PutBack(insert(m, header, n, Definition(<<>>, 0)), n)

\* The table's root, finalized in f, goes to the space that was reserved.
Inplace(f, header, n) ==
  insert_inplace(f.m, header, n,
                 Definition(f.root, IF f.root = <<>> THEN 0 ELSE f.root[1].length))
Asserted(i, asserts) == [m |-> i.m, root |-> i.root, asserts |-> asserts]

\* t is the table n, changed by the closure, and asserts whether the closure's own
\* assertions held: [m, root, asserts].
flush_inplace(t, header, n, asserts) ==
  Asserted(Inplace(finalize_dirty_checksums(t.m, t.root), header, n),
           asserts /\ DirtyPath(t.m, header[1].root, n))

\* open_table_and_flush_table_root(), the closure inserting key k; r is the tree in
\* which space is reserved.
InsertAndFlush(r, n, k) ==
  flush_inplace(insert(r.m, get(r.m, r.root, n)[1].table, k, Value[k]), r.root, n, TRUE)

open_table_and_flush_NoReserve(m, header, n, k) ==  \* faulty: relies on the stored definition
  InsertAndFlush(IF get(m, header, n) = <<>> THEN reserve(m, header, n)
                 ELSE Changed(m, header, <<>>), n, k)

open_table_and_flush(m, header, n, k) == InsertAndFlush(reserve(m, header, n), n, k)

\* create_table_and_flush_table_root(), the closure inserting key k and then opening and
\* flushing another table, as durable_commit() does with the allocator state and with the
\* pages that this frees.
FlushCreated(o, table, n) ==
  flush_inplace(Changed(o.m, table, <<>>), o.root, n, o.asserts)
FillCreated(t, header, n, k, other) ==
  FlushCreated(open_table_and_flush(t.m, header, other, k), t.root, n)
Created(r, n, k, other) == FillCreated(insert(r.m, <<>>, k, Value[k]), r.root, n, k, other)
create_table_and_flush(m, header, n, k, other) ==
  Created(insert(m, header, n, Definition(<<>>, 0)), n, k, other)

\* TableTree::verify_checksums().
verify_checksums(m, header) ==
  /\ verify_checksum(m, header)
  /\ \A n \in list_tables(m, header) : verify_checksum(m, get(m, header, n)[1].table)

\* TableTreeMut::visit_all_pages().
AllPages(m, header, staged) ==
  PagesOf(m, header) \cup
    UNION {PagesOf(m, get_table(m, header, staged, n)[1].table) : n \in list_tables(m, header)}

-----------------------------------------------------------------------------
(* Compaction.                                                             *)

\* The pages above p in a tree, the root first.
RECURSIVE parents(_, _, _)
parents(m, q, p) ==
  IF q = p \/ IsLeaf(m, q) THEN <<>>
  ELSE LET below == {m.pages[q].children[i].page : i \in DOMAIN m.pages[q].children}
           on == {c \in below : p \in Reach(m, c)}
       IN  IF on = {} THEN <<>> ELSE <<q>> \o parents(m, CHOOSE c \in on : TRUE, p)

Trees(m, header, staged) ==
  {header} \cup {get_table(m, header, staged, n)[1].table : n \in list_tables(m, header)}

path_parents(m, header, staged, p) ==
  LET on == {t \in Trees(m, header, staged) : p \in PagesOf(m, t)}
  IN  IF on = {} THEN <<>> ELSE parents(m, (CHOOSE t \in on : TRUE)[1].root, p)

\* highest_index_pages(): the last pages of the file, highest first.
highest_index_pages_Lowest(all) ==  \* faulty: pop_last() for pop_first()
  LET low == {p \in all : Cardinality({q \in all : q <= p}) <= MaxPagesPerCompaction}
  IN  [i \in 1..Cardinality(low) |-> CHOOSE p \in low : Cardinality({q \in low : q >= p}) = i]

highest_index_pages(all) ==
  LET high == {p \in all : Cardinality({q \in all : q >= p}) <= MaxPagesPerCompaction}
  IN  [i \in 1..Cardinality(high) |-> CHOOSE p \in high : Cardinality({q \in high : q >= p}) = i]

\* Pages for the parents that have none yet.
Assigned(a, map, p) == [m |-> a.m, map |-> With(map, p, a.page)]

RECURSIVE add_parents(_, _)
add_parents(r, list) ==
  IF list = <<>> THEN r
  ELSE LET p == Head(list)
       IN  add_parents(IF p \in DOMAIN r.map THEN r
                       ELSE Assigned(Allocate(r.m, r.m.pages[p]), r.map, p), Tail(list))

\* The relocation map of compact_pages(), r: memory and map; above[p] are the parents of
\* p before any allocation.  The first block for which there is none of its length
\* before it ends it.
RECURSIVE relocation_map_Anywhere(_, _, _)
relocation_map_Anywhere(r, list, above) ==  \* faulty: the new page need not be lower
  IF list = <<>> THEN r
  ELSE LET p == Head(list)
       IN  relocation_map_Anywhere(
             IF p \in DOMAIN r.map THEN r
             ELSE add_parents(Assigned(Allocate(r.m, r.m.pages[p]), r.map, p), above[p]),
             Tail(list), above)

RECURSIVE relocation_map(_, _, _)
relocation_map(r, list, above) ==
  IF list = <<>> THEN r
  ELSE LET p == Head(list)
       IN  IF p \in DOMAIN r.map THEN relocation_map(r, Tail(list), above)
           ELSE IF FreeBlock(r.m, r.m.pages[p].order) >= p THEN r
           ELSE relocation_map(
                  add_parents(Assigned(Allocate(r.m, r.m.pages[p]), r.map, p), above[p]),
                  Tail(list), above)

\* relocate_tables(): t is [m, pending], d the definition of n, and r the table moved.
StageMoved(t, n, d, r) ==
  IF r.root = d.table THEN t
  ELSE [m |-> r.m, pending |-> With(t.pending, n, Staged(r.root, d.length))]

RECURSIVE relocate_each(_, _, _, _)
relocate_each(t, header, map, todo) ==
  IF todo = {} THEN t
  ELSE LET n == CHOOSE n \in todo : \A k \in todo : n <= k
           d == get_table(t.m, header, t.pending, n)[1]
       IN  relocate_each(IF d.table = <<>> THEN t
                         ELSE StageMoved(t, n, d, relocate(t.m, d.table, map)),
                         header, map, todo \ {n})

MoveTree(t, header, map) ==
  LET r == IF header = <<>> THEN Changed(t.m, header, <<>>) ELSE relocate(t.m, header, map)
  IN  [map |-> map, m |-> r.m, root |-> r.root, pending |-> t.pending]

relocate_tables(r, header, staged) ==
  MoveTree(relocate_each([m |-> r.m, pending |-> staged], header, r.map,
                         list_tables(r.m, header)),
           header, r.map)

\* compact_pages() for the tables and a tree of the system tables that is one page:
\* [map, m, root, pending].
compact_pages(m, header, staged, own) ==
  LET all == AllPages(m, header, staged) \cup {own}
      above == [p \in all |-> path_parents(m, header, staged, p)]
  IN  relocate_tables(relocation_map([m |-> m, map |-> <<>>], highest_index_pages(all), above),
                      header, staged)

-----------------------------------------------------------------------------
(* A write transaction.                                                    *)

Init ==
  /\ mem = [pages |-> <<>>, committed |-> {}, freed |-> <<>>, modify |-> TRUE]
  /\ root = <<>> /\ saved = <<>>
  /\ open = <<>> /\ pending = <<>>
  /\ contents = <<>> /\ base = <<>>
  /\ savepoint = <<>> /\ odd = {}
  /\ compacting = "no" /\ system = 0 /\ panicked = "no"
  /\ ops = 0 /\ txns = 0

Idle == compacting = "no" /\ panicked = "no"
Begun == Idle /\ txns < Len(MaxCalls)
Call == Begun /\ ops < MaxCalls[txns + 1] /\ ops' = ops + 1
LastCall == Begun /\ ops < MaxCalls[txns + 1] /\ ops' = MaxCalls[txns + 1]
Others == <<saved, base, savepoint, odd, compacting, system, panicked, txns>>
NewTable == [keys |-> {}, sealed |-> TRUE]
WithKey(c, n, k) == With(c, n, IF n \in DOMAIN c THEN [c[n] EXCEPT !.keys = @ \cup {k}]
                               ELSE [NewTable EXCEPT !.keys = {k}])

OpenTable_Stored(n) ==  \* faulty: overlooks the staged root
  /\ Call
  /\ n \notin DOMAIN open
  /\ LET d == get(mem, root, n)
     IN  IF d # <<>>
         THEN /\ open' = With(open, n, Staged(d[1].table, d[1].length))
              /\ UNCHANGED <<mem, root, contents>>
         ELSE /\ \E i \in {insert(mem, root, n, Definition(<<>>, 0))} :
                   mem' = i.m /\ root' = i.root
              /\ open' = With(open, n, Staged(<<>>, 0))
              /\ contents' = With(contents, n, NewTable)
  /\ UNCHANGED <<pending, Others>>

\* inner_open(): get_or_create_table().
OpenTable(n) ==
  /\ Call
  /\ n \notin DOMAIN open
  /\ LET d == get_table(mem, root, pending, n)
     IN  IF d # <<>>
         THEN /\ open' = With(open, n, Staged(d[1].table, d[1].length))
              /\ UNCHANGED <<mem, root, contents>>
         ELSE /\ \E i \in {insert(mem, root, n, Definition(<<>>, 0))} :
                   mem' = i.m /\ root' = i.root
              /\ open' = With(open, n, Staged(<<>>, 0))
              /\ contents' = With(contents, n, NewTable)
  /\ UNCHANGED <<pending, Others>>

\* Table::insert() and remove() of a table that is open.
TableInsert(n, k) ==
  /\ Call
  /\ n \in DOMAIN open
  /\ \E i \in {insert(mem, open[n].root, k, Value[k])} :
       mem' = i.m /\ open' = [open EXCEPT ![n] = Staged(i.root, i.root[1].length)]
  /\ contents' = WithKey(contents, n, k)
  /\ UNCHANGED <<root, pending, Others>>

TableRemove(n, k) ==
  /\ Call
  /\ n \in DOMAIN open
  /\ \E d \in {delete(mem, open[n].root, k)} :
         /\ mem' = d.m
         /\ open' = [open EXCEPT ![n] = Staged(d.root, IF d.root = <<>> THEN 0 ELSE d.root[1].length)]
  /\ contents' = [contents EXCEPT ![n].keys = @ \ {k}]
  /\ UNCHANGED <<root, pending, Others>>

\* Table::drop(): close_table(), which stages the root.
CloseTable(n) ==
  /\ n \in DOMAIN open
  /\ open' = Minus(open, n)
  /\ pending' = With(pending, n, open[n])
  /\ UNCHANGED <<mem, root, contents, ops, Others>>

\* rename_table(): the definition is stored under the new name with the staged root,
\* and the staged root moves to the new name.  Both are then the same, and
\* flush_table_root_updates() has nothing to do: no checksums are computed.
Unfinalized(staged) == staged.root # <<>> /\ staged.root[1].checksum = DEFERRED
RenameTable(n, new) ==
  /\ Call
  /\ n \notin DOMAIN open
  /\ get_table(mem, root, pending, n) # <<>> /\ get_table(mem, root, pending, new) = <<>>
  /\ \E d \in {delete(mem, root, n)} :
     \E i \in {insert(d.m, d.root, new, get_table(mem, root, pending, n)[1])} :
       mem' = i.m /\ root' = i.root
  /\ pending' = IF n \in DOMAIN pending THEN With(Minus(pending, n), new, pending[n]) ELSE pending
  /\ contents' = With(Minus(contents, n), new,
                      [contents[n] EXCEPT !.sealed = @ /\ ~(n \in DOMAIN pending
                                                            /\ Unfinalized(pending[n]))])
  /\ UNCHANGED <<open, Others>>

DeleteTable_Stored(n) ==  \* faulty: frees the pages of the root that is stored, not staged
  /\ Call
  /\ n \notin DOMAIN open
  /\ get_table(mem, root, pending, n) # <<>>
  /\ LET header == get(mem, root, n)[1].table
         pages == IF header = <<>> THEN <<>> ELSE all_pages(mem, <<Frame(header[1].root, 1)>>)
     IN  \E d \in {delete([mem EXCEPT !.freed = @ \o pages], root, n)} :
           mem' = d.m /\ root' = d.root
  /\ pending' = Minus(pending, n)
  /\ contents' = Minus(contents, n)
  /\ UNCHANGED <<open, Others>>

\* delete_table(): visit_all_pages() gives up all of the table's pages, the uncommitted
\* ones too.
DeleteTable(n) ==
  /\ Call
  /\ n \notin DOMAIN open
  /\ get_table(mem, root, pending, n) # <<>>
  /\ LET header == get_table(mem, root, pending, n)[1].table
         pages == IF header = <<>> THEN <<>> ELSE all_pages(mem, <<Frame(header[1].root, 1)>>)
     IN  /\ \E d \in {delete([mem EXCEPT !.freed = @ \o pages], root, n)} :
              mem' = d.m /\ root' = d.root
         /\ odd' = odd \cup {o \in {"deleted"} : \E i \in DOMAIN pages : uncommitted(mem, pages[i])}
  /\ pending' = Minus(pending, n)
  /\ contents' = Minus(contents, n)
  /\ UNCHANGED <<open, saved, base, savepoint, compacting, system, panicked, txns>>

\* What durable_commit() does with the table tree of the system tables before it stores
\* the tree's root: nothing else follows.
CreateAndFlush(n, k, other) ==
  /\ LastCall
  /\ open = <<>> /\ pending = <<>>
  /\ n # other /\ get(mem, root, n) = <<>>
  /\ \E c \in {create_table_and_flush(mem, root, n, k, other)} :
       mem' = c.m /\ root' = c.root /\ panicked' = IF c.asserts THEN "no" ELSE "space"
  /\ contents' = WithKey(WithKey(contents, n, k), other, k)
  /\ UNCHANGED <<open, pending, saved, base, savepoint, odd, compacting, system, txns>>

\* What non_durable_commit() does with it.
OpenAndFlush(n, k) ==
  /\ LastCall
  /\ open = <<>> /\ pending = <<>>
  /\ \E o \in {open_table_and_flush(mem, root, n, k)} :
       mem' = o.m /\ root' = o.root /\ panicked' = IF o.asserts THEN "no" ELSE "space"
  /\ contents' = WithKey(contents, n, k)
  /\ UNCHANGED <<open, pending, saved, base, savepoint, odd, compacting, system, txns>>

\* A savepoint is made before the transaction changes anything.
CreateSavepoint ==
  /\ Begun /\ ops = 0
  /\ savepoint = <<>>
  /\ savepoint' = <<[root |-> saved, contents |-> base]>>
  /\ UNCHANGED <<mem, root, open, pending, contents, ops, saved, base, odd, compacting,
                 system, panicked, txns>>

DropSavepoint ==
  /\ Idle /\ ops = 0 /\ savepoint # <<>>
  /\ savepoint' = <<>>
  /\ mem' = [mem EXCEPT !.pages = [p \in AllPages(mem, saved, <<>>) |-> @[p]],
                        !.committed = AllPages(mem, saved, <<>>)]
  /\ UNCHANGED <<root, open, pending, contents, ops, saved, base, odd, compacting,
                 system, panicked, txns>>

\* restore_savepoint(): set_root() leaves the staged roots, and the commit writes them
\* into the restored tree.
RestoreSavepoint ==
  /\ Call
  /\ savepoint # <<>> /\ open = <<>>
  /\ root' = savepoint[1].root
  /\ contents' = savepoint[1].contents
  /\ odd' = odd \cup {"restored"} \cup {o \in {"mixed"} : pending # <<>>}
  /\ UNCHANGED <<mem, open, pending, saved, base, savepoint, compacting, system, panicked, txns>>

-----------------------------------------------------------------------------
(* The end of a transaction.  Pages that neither the committed tables nor  *)
(* the savepoint use are free afterwards; PageReclaim models how.          *)

Orders(S) == {s \in [1..Cardinality(S) -> S] : \A i, j \in DOMAIN s : i # j => s[i] # s[j]}

Committed(f) ==
  LET live == AllPages(f.m, f.root, <<>>) \cup
                (IF savepoint = <<>> THEN {} ELSE AllPages(f.m, savepoint[1].root, <<>>))
  IN  [f.m EXCEPT !.pages = [p \in live |-> @[p]], !.committed = live, !.freed = <<>>]

Commit(order) ==
  /\ Idle
  /\ open = <<>> /\ ops > 0
  /\ IF \E n \in DOMAIN pending : get(mem, root, n) = <<>>
     THEN /\ panicked' = "unwrap"
          /\ UNCHANGED <<mem, root, saved, base, pending, odd, ops, txns>>
     ELSE \E f \in {flush_inner(mem, root, pending, order)} :
              /\ mem' = Committed(f) /\ root' = f.root /\ saved' = f.root
              /\ base' = contents /\ pending' = <<>> /\ odd' = odd \cap {"mixed"}
              /\ ops' = 0 /\ txns' = txns + 1
              /\ UNCHANGED panicked
  /\ UNCHANGED <<open, contents, savepoint, compacting, system>>

Abort ==
  /\ Idle
  /\ open = <<>> /\ ops > 0
  /\ mem' = [mem EXCEPT !.pages = [p \in mem.committed |-> mem.pages[p]], !.freed = <<>>]
  /\ root' = saved /\ contents' = base /\ pending' = <<>> /\ odd' = odd \cap {"mixed"} /\ ops' = 0
  /\ UNCHANGED <<saved, open, base, savepoint, compacting, system, panicked, txns>>

-----------------------------------------------------------------------------
(* Database::compact().  The tree of the system tables, among them those   *)
(* of freed pages, is one page here, wherever it was when compact() began. *)
(* A commit that changes one of them copies it, and frees the old page     *)
(* when it is done.                                                        *)

SystemPage == Leaf(<<>>)
FreePages(m) ==
  LET used == InUse(m) IN {p \in 1..(Max(used \cup {0}) + 1) : p \notin used}
Queued(m) == {m.freed[i] : i \in DOMAIN m.freed}

\* The memory with just these pages and the system page at own, all committed.
OnlyPages(m, pages, own) ==
  [m EXCEPT !.pages = [p \in pages \cup {own} |-> IF p = own THEN SystemPage ELSE @[p]],
            !.committed = pages \cup {own}]

StartCompaction ==
  /\ Idle /\ ops = 0 /\ savepoint = <<>>
  /\ compacting' = "pass"
  /\ \E own \in FreePages(mem) : system' = own /\ mem' = OnlyPages(mem, DOMAIN mem.pages, own)
  /\ UNCHANGED <<root, saved, open, pending, contents, base, savepoint, odd, panicked, ops, txns>>

\* A pass commits what it moved and puts the old pages of the tables into the table of
\* freed pages; a pass without progress is aborted and is the last.
CompactPass ==
  /\ compacting = "pass"
  /\ \E c \in {compact_pages(mem, root, <<>>, system)} :
       IF c.map = <<>>
       THEN /\ compacting' = "no" /\ system' = 0
            /\ mem' = [mem EXCEPT !.pages = Minus(@, system), !.committed = @ \ {system}]
            /\ UNCHANGED <<root, saved>>
       ELSE \E f \in {flush_inner(c.m, c.root, c.pending,
                                  CHOOSE o \in Orders(DOMAIN c.pending) : TRUE)} :
            \E own \in IF system \in DOMAIN c.map THEN {c.map[system]}
                      ELSE IF f.m.freed = <<>> THEN {system} ELSE {FreeBlock(f.m, 0)} :
              /\ mem' = OnlyPages(f.m, AllPages(f.m, f.root, <<>>) \cup Queued(f.m), own)
              /\ root' = f.root /\ saved' = f.root /\ system' = own
              /\ compacting' = "free"
  /\ UNCHANGED <<open, pending, contents, base, savepoint, odd, panicked, ops, txns>>

\* The first commit after the pass takes them out of it again and frees them.  The
\* pages that this table itself needed in between leave any free page for the copy of
\* the system page.  The second commit has nothing to do.
CompactFree ==
  /\ compacting = "free" /\ compacting' = "pass"
  /\ LET left == [mem EXCEPT !.pages = [p \in DOMAIN @ \ Queued(mem) |-> @[p]], !.freed = <<>>]
     IN  \E own \in IF mem.freed = <<>> THEN {system} ELSE FreePages(left) :
           /\ mem' = OnlyPages(left, DOMAIN left.pages \ {system}, own)
           /\ system' = own
  /\ UNCHANGED <<root, saved, open, pending, contents, base, savepoint, odd, panicked, ops, txns>>

Next ==
  \/ \E n \in Names : OpenTable(n) \/ CloseTable(n) \/ DeleteTable(n)
  \/ \E n \in Names, k \in TableKeys : TableInsert(n, k) \/ TableRemove(n, k) \/ OpenAndFlush(n, k)
  \/ \E n, new \in Names : RenameTable(n, new)
  \/ \E n, other \in Names, k \in TableKeys : CreateAndFlush(n, k, other)
  \/ CreateSavepoint \/ DropSavepoint \/ RestoreSavepoint
  \/ \E order \in Orders(DOMAIN pending) : Commit(order)
  \/ Abort \/ StartCompaction \/ CompactPass \/ CompactFree

\* compact() holds the database alone and loops until a pass makes no progress: weak
\* fairness of its steps, one of which is enabled as long as it is at work.
Spec ==
  Init /\ [][Next]_vars
    /\ ([]<>(compacting = "no") \/ []<><<CompactPass \/ CompactFree>>_vars)

-----------------------------------------------------------------------------
(* Properties.                                                             *)

KeysOf(m, header) ==
  {k \in TableKeys : get(m, header, k) # <<>>}

\* Every table holds what was put into it, under its present name, whether its root is
\* in an open table, staged, or stored, and whether it was moved by compaction; and the
\* committed tables hold what the last commit said.  That is, unless a savepoint was
\* restored while roots were staged: the commit puts these into the restored tree.
TablesHold ==
  "mixed" \notin odd =>
    /\ list_tables(mem, root) = DOMAIN contents
    /\ \A n \in DOMAIN contents :
         LET t == IF n \in DOMAIN open THEN open[n]
                  ELSE IF n \in DOMAIN pending THEN pending[n]
                  ELSE LET d == get(mem, root, n)[1] IN Staged(d.table, d.length)
         IN  /\ KeysOf(mem, t.root) = contents[n].keys
             /\ t.length = Cardinality(contents[n].keys)
    /\ list_tables(mem, saved) = DOMAIN base
    /\ \A n \in DOMAIN base : KeysOf(mem, get(mem, saved, n)[1].table) = base[n].keys

\* The committed table tree verifies, and so does every table in it, with all that later
\* transactions and compaction made of it, but for those that were renamed while a root
\* without a checksum was staged.
CommittedTablesVerify ==
  /\ verify_checksum(mem, saved)
  /\ "mixed" \notin odd =>
       \A n \in DOMAIN base : base[n].sealed => verify_checksum(mem, get(mem, saved, n)[1].table)

\* All committed tables verify.  It fails: see RenameTable().
AllCommittedTablesVerify == verify_checksums(mem, saved)

\* The pages are those of the tables as they are open, staged or stored, those of the
\* savepoint, that of compact(), and those given up, each of these once: what
\* delete_table(), renaming and closing leave behind is neither lost nor still in use.
\* Restoring a savepoint gives up pages by other means, which PageReclaim models.
TablePagesAccounted ==
  LET given == mem.freed
      now == [n \in DOMAIN open \cup DOMAIN pending |-> IF n \in DOMAIN open THEN open[n] ELSE pending[n]]
      used == AllPages(mem, root, now) \cup ({system} \ {0})
      kept == IF savepoint = <<>> THEN {} ELSE AllPages(mem, savepoint[1].root, <<>>)
  IN  odd \cap {"restored", "mixed"} = {} =>
        /\ Cardinality(Queued(mem)) = Len(given) /\ Queued(mem) \cap used = {}
        /\ DOMAIN mem.pages \ kept = (Queued(mem) \cup used) \ kept

\* compact() ends: its passes, and the commits between them, which move a page of the
\* system tables to wherever there is room, cannot move pages around for ever.
CompactionEnds == compacting # "no" ~> compacting = "no"

\* When compact() ends, there is no free block before the last one that could take it:
\* no free page at all, if the last block is one page.
CompactionPacks ==
  [][compacting # "no" /\ compacting' = "no" =>
       LET last == Max(DOMAIN mem.pages) IN FreeBlock(mem, mem.pages[last].order) > last]_vars

\* The space for a definition written in place is still on uncommitted pages after the
\* closure has changed the table tree ("guaranteed that no pages will be allocated or
\* freed").  A staged root is that of a table in the tree, which the commit unwrap()s,
\* unless a savepoint was restored while it was staged.  The pages given up are
\* committed ones, which store_data_freed_pages() asserts, unless a table was deleted
\* that the transaction had changed.
NoPanic ==
  /\ panicked # "space"
  /\ panicked = "unwrap" => "mixed" \in odd
  /\ "deleted" \notin odd => Queued(mem) \subseteq mem.committed

\* No assertion and no unwrap() fails.  It fails after restoring over staged roots.
NeverPanics == panicked = "no"

=============================================================================
