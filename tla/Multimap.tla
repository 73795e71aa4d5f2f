------------------------------ MODULE Multimap ------------------------------
(***************************************************************************)
(* A multimap table (multimap_table.rs): a b-tree whose value of a key is  *)
(* a collection, either a leaf stored inline or the header of a subtree    *)
(* whose keys are the values.                                              *)
(*                                                                         *)
(*   mem, root, num_values   the open write transaction's table            *)
(*   saved                   the committed table, [root, num_values]       *)
(*   contents, base          what the table and the committed table should *)
(*                           hold: sets of <<key, value>>                  *)
(*   iter                    the MultimapRange and MultimapValue in use    *)
(*   right                   the last call returned what contents say      *)
(*   ops, scope              operations so far, the bounds of the behaviour*)
(***************************************************************************)
EXTENDS BtreeOps
LOCAL INSTANCE FiniteSetsExt

CONSTANTS
  TableKeys,     \* the keys of the table
  Vals,          \* the keys of the subtrees, that is the values
  HeaderBytes,   \* BtreeHeader::serialized_size()
  Scopes         \* the bounds: the pairs in use, and how many operations a transaction has

VARIABLES mem, root, num_values, saved, contents, base, iter, right, ops, scope

vars == <<mem, root, num_values, saved, contents, base, iter, right, ops, scope>>

ASSUME MultimapAssumption ==
  /\ TableKeys \cup Vals \subseteq Keys /\ TableKeys \cap Vals = {}
  /\ HeaderBytes \in Nat /\ Scopes \subseteq [pairs : SUBSET (TableKeys \X Vals), ops : Nat]

-----------------------------------------------------------------------------
(* DynamicCollection.                                                      *)

Unit == [len |-> 0]
make_inline_data(pairs) == [type |-> "Inline", len |-> 1 + LeafBytes(pairs), pairs |-> pairs]
make_subtree_data(header) == [type |-> "SubtreeV2", len |-> 1 + HeaderBytes, root |-> header]
IsSubtree(c) == c.type = "SubtreeV2"
get_num_values(c) == IF IsSubtree(c) THEN c.root.length ELSE Len(c.pairs)

FitsInline(pairs) == LeafBytes(pairs) < PageSize \div 2

\* MultimapTable::insert(): memory, root and whether the value was there.
Result(r, existed) == [m |-> r.m, root |-> r.root, existed |-> existed]
Put(m, header, k, c, existed) == Result(insert(m, header, k, c), existed)

\* The subtree s, changed by an insertion, becomes the collection of k.
PutSubtree(s, header, k) ==
  Put(s.m, header, k, make_subtree_data(s.root[1]), s.old # <<>>)

\* The leaf on the new page becomes a subtree, and v goes into it.
Convert(page, length, v) == insert(page.m, <<Header(page.page, DEFERRED, length)>>, v, Unit)

insert_Inline(m, header, k, pairs, v) ==
  IF found(pairs, v) THEN [m |-> m, root |-> header, existed |-> TRUE]
  ELSE IF FitsInline(Inserted(pairs, v, Unit))
  THEN Put(m, header, k, make_inline_data(Inserted(pairs, v, Unit)), FALSE)
  ELSE PutSubtree(IF pairs = <<>> THEN insert(m, <<>>, v, Unit)
                  ELSE Convert(Allocate(m, Leaf(pairs)), Len(pairs), v), header, k)

multimap_insert(m, header, k, v) ==
  LET c == get(m, header, k)
  IN  IF c # <<>> /\ IsSubtree(c[1])
      THEN PutSubtree(insert(m, <<c[1].root>>, v, Unit), header, k)
      ELSE insert_Inline(m, header, k, IF c = <<>> THEN <<>> ELSE c[1].pairs, v)

\* MultimapTable::remove().
Drop(m, header, k, existed) == Result(delete(m, header, k), existed)

remove_Inline(m, header, k, pairs, i) ==
  IF i = 0 THEN [m |-> m, root |-> header, existed |-> FALSE]
  ELSE IF Len(pairs) = 1 THEN Drop(m, header, k, TRUE)
  ELSE Put(m, header, k, make_inline_data(Removed(pairs, i)), TRUE)

\* The subtree s after the removal becomes the collection of k again.
remove_Subtree_Forget(s, header, k) ==  \* faulty: the page of the inlined leaf is not freed
  LET node == s.m.pages[s.root[1].root]
  IN  IF s.root = <<>> THEN Drop(s.m, header, k, s.old # <<>>)
      ELSE IF node.type = "LEAF" /\ FitsInline(node.pairs)
      THEN Put(s.m, header, k, make_inline_data(node.pairs), s.old # <<>>)
      ELSE PutSubtree(s, header, k)

remove_Subtree(s, header, k) ==
  LET new == s.root[1]
      node == s.m.pages[new.root]
  IN  IF s.root = <<>> THEN Drop(s.m, header, k, s.old # <<>>)
      ELSE IF node.type = "LEAF" /\ FitsInline(node.pairs)
      THEN [Put(s.m, header, k, make_inline_data(node.pairs), s.old # <<>>) EXCEPT
              !.m = free_if_uncommitted(@, new.root)]
      ELSE PutSubtree(IF node.type = "LEAF" THEN [s EXCEPT !.root[1].length = Len(node.pairs)]
                      ELSE s, header, k)

multimap_remove(m, header, k, v) ==
  LET c == get(m, header, k)
  IN  IF c = <<>> THEN [m |-> m, root |-> header, existed |-> FALSE]
      ELSE IF IsSubtree(c[1]) THEN remove_Subtree(delete(m, <<c[1].root>>, v), header, k)
      ELSE remove_Inline(m, header, k, c[1].pairs,
                         IF found(c[1].pairs, v) THEN position(c[1].pairs, v) ELSE 0)

-----------------------------------------------------------------------------
(* MultimapValue, the iterator over a key's values.                        *)

\* LeafKeyIter: the entries start..end of the inline leaf.  An iterator over no
\* collection is a subtree iterator without a root.
value_iter(m, c, pages) ==
  LET subtree == c = <<>> \/ IsSubtree(c[1])
      header == IF c = <<>> THEN <<>> ELSE <<c[1].root>>
      pairs == IF subtree THEN <<>> ELSE c[1].pairs
  IN  [type |-> IF subtree THEN "Subtree" ELSE "InlineLeaf",
       it |-> IF subtree THEN range_iter(m, header, <<"Unbounded">>, <<"Unbounded">>) ELSE ClosedIter,
       pairs |-> pairs, start |-> 1, end |-> Len(pairs),
       remaining |-> IF c = <<>> THEN 0 ELSE get_num_values(c[1]),
       free_on_drop |-> pages]

\* LeafKeyIter::next_key() and next_key_back().
leaf_key_next_Stay(vi, side) ==  \* faulty: next_key_back() returns the last entry again
  IF vi.end < vi.start THEN [vi |-> vi, item |-> <<>>]
  ELSE IF side = "left" THEN [vi |-> [vi EXCEPT !.start = @ + 1], item |-> <<vi.pairs[vi.start]>>]
  ELSE [vi |-> vi, item |-> <<vi.pairs[vi.end]>>]

leaf_key_next(vi, side) ==
  IF vi.end < vi.start THEN [vi |-> vi, item |-> <<>>]
  ELSE IF side = "left" THEN [vi |-> [vi EXCEPT !.start = @ + 1], item |-> <<vi.pairs[vi.start]>>]
  ELSE [vi |-> [vi EXCEPT !.end = @ - 1], item |-> <<vi.pairs[vi.end]>>]

\* next() counts down what remains; next_back() does not.
value_next(m, vi, side) ==
  LET n == iter_next(m, vi.it, side)
      r == IF vi.type = "Subtree" THEN [vi |-> [vi EXCEPT !.it = n.it], item |-> n.item]
           ELSE leaf_key_next(vi, side)
  IN  IF side = "left" /\ r.item # <<>> THEN [r EXCEPT !.vi.remaining = @ - 1] ELSE r

-----------------------------------------------------------------------------
(* Checksums and relocation.                                               *)

\* parse_subtree_roots(): the entries of a page that are subtrees.
parse_subtree_roots(m, p) ==
  IF IsLeaf(m, p) THEN {i \in DOMAIN m.pages[p].pairs : IsSubtree(m.pages[p].pairs[i][2])} ELSE {}
SubHeader(m, p, i) == m.pages[p].pairs[i][2].root

\* LeafMutator::insert() of a subtree's new header over the old one.
SetSubHeader(m, p, i, header) == [m EXCEPT !.pages[p].pairs[i][2] = make_subtree_data(header)]

\* UntypedMultiBtree::visit_all_pages().
AllPages(m, header) ==
  LET main == PagesOf(m, header)
  IN  main \cup UNION {UNION {PagesOf(m, <<SubHeader(m, p, i)>>) : i \in parse_subtree_roots(m, p)} :
                         p \in main}

\* dirty_leaf_visitor(): the leaves that are reached over uncommitted pages.
RECURSIVE DirtyLeaves(_, _)
DirtyLeaves(m, p) ==
  IF ~uncommitted(m, p) THEN {}
  ELSE IF IsLeaf(m, p) THEN {p}
  ELSE UNION {DirtyLeaves(m, m.pages[p].children[i].page) : i \in DOMAIN m.pages[p].children}

\* The visitor: the dirty subtrees of the dirty leaves, one after the other.
RECURSIVE finalize_subtrees(_, _)
finalize_subtrees(m, todo) ==
  LET e == CHOOSE e \in todo : TRUE
      store(f) == SetSubHeader(f.m, e[1], e[2], f.root[1])
  IN  IF todo = {} THEN m
      ELSE finalize_subtrees(store(finalize_dirty_checksums(m, <<SubHeader(m, e[1], e[2])>>)),
                             todo \ {e})

DirtySubtrees(m, header) ==
  IF header = <<>> THEN {}
  ELSE UNION {{<<p, i>> : i \in {i \in parse_subtree_roots(m, p) :
                                   uncommitted(m, SubHeader(m, p, i).root)}} :
                p \in DirtyLeaves(m, header[1].root)}

finalize_Swapped(m, header) ==  \* faulty: the table's own pages first
  LET f == finalize_dirty_checksums(m, header)
  IN  Changed(finalize_subtrees(f.m, DirtySubtrees(f.m, header)), f.root, <<>>)

finalize_tree_and_subtree_checksums(m, header) ==
  finalize_dirty_checksums(finalize_subtrees(m, DirtySubtrees(m, header)), header)

verify_tree_and_subtree_checksums(m, header) ==
  /\ verify_checksum(m, header)
  /\ \A p \in PagesOf(m, header) : \A i \in parse_subtree_roots(m, p) :
       verify_checksum(m, <<SubHeader(m, p, i)>>)

\* relocate_subtrees(): copies the pages that the map names, and relocates the
\* subtrees of the leaves among them.
RECURSIVE relocate_subtrees(_, _, _, _)
relocate_subtrees(m, p, checksum, map) ==
  LET leaf == IsLeaf(m, p)
      after[i \in 0..Width(m, p)] ==
        IF i = 0 THEN Write(m, map[p], m.pages[p])
        ELSE IF leaf /\ i \notin parse_subtree_roots(m, p) THEN after[i - 1]
        ELSE IF leaf
        THEN LET r == relocate(after[i - 1], <<SubHeader(m, p, i)>>, map)
             IN  SetSubHeader(r.m, map[p], i, r.root[1])
        ELSE LET c == m.pages[p].children[i]
                 r == relocate_subtrees(after[i - 1], c.page, c.checksum, map)
             IN  write_child_page(r.m, map[p], i, r.page, r.checksum)
  IN  IF p \notin DOMAIN map THEN [m |-> m, page |-> p, checksum |-> checksum]
      ELSE [m |-> free_if_uncommitted(after[Width(m, p)], p), page |-> map[p], checksum |-> DEFERRED]

\* InternalTableDefinition::relocate_tree() of a multimap table.
relocate_tree(m, header, map) ==
  LET s == relocate_subtrees(m, header[1].root, header[1].checksum, map)
  IN  relocate(s.m, <<Header(s.page, s.checksum, header[1].length)>>, map)

\* multimap_stats_helper(): a leaf with a subtree counts as a branch, and only the
\* values are stored bytes.
RECURSIVE multimap_stats_helper(_, _)
multimap_stats_helper(m, p) ==
  LET node == m.pages[p]
      subs == parse_subtree_roots(m, p)
      inline(i) == length_of_pairs(node.pairs[i][2].pairs)
      stored == MapThenSumSet(inline, DOMAIN node.pairs \ subs)
      nth(n) == CHOOSE i \in subs : Cardinality({j \in subs : j <= i}) = n
  IN  IF IsLeaf(m, p)
      THEN Above(Stats(IF subs = {} THEN 1 ELSE 0, IF subs = {} THEN 0 ELSE 1, stored,
                       LeafBytes(node.pairs), PageLen(m, p)),
                 [n \in 1..Cardinality(subs) |-> btree_stats(m, <<SubHeader(m, p, nth(n))>>)])
      ELSE Above(Stats(0, 1, 0, BranchBytes(node.keys), PageLen(m, p)),
                 [i \in DOMAIN node.children |-> multimap_stats_helper(m, node.children[i].page)])

multimap_btree_stats(m, header) ==
  IF header = <<>> THEN Stats(0, 0, 0, 0, 0) ELSE multimap_stats_helper(m, header[1].root)

-----------------------------------------------------------------------------
(* A write transaction.                                                    *)

ValuesOf(k) == {pair[2] : pair \in {pair \in contents : pair[1] = k}}
Sorted(S) ==
  [i \in 1..Cardinality(S) |-> CHOOSE k \in S : Cardinality({j \in S : j < k}) = i - 1]

NoTable == [root |-> <<>>, num_values |-> 0]

Init ==
  /\ mem = [pages |-> <<>>, committed |-> {}, freed |-> <<>>, modify |-> TRUE]
  /\ root = <<>> /\ num_values = 0 /\ saved = NoTable
  /\ contents = {} /\ base = {}
  /\ iter = <<>> /\ right = TRUE /\ ops = 0
  /\ scope \in Scopes

Operation == iter = <<>> /\ ops < scope.ops /\ ops' = ops + 1 /\ UNCHANGED scope

Insert(k, v) ==
  /\ Operation
  /\ \E r \in {multimap_insert(mem, root, k, v)} :
         /\ mem' = r.m /\ root' = r.root
         /\ num_values' = IF r.existed THEN num_values ELSE num_values + 1
         /\ right' = (r.existed = (<<k, v>> \in contents))
  /\ contents' = contents \cup {<<k, v>>}
  /\ UNCHANGED <<saved, base, iter>>

Remove_Always(k, v) ==  \* faulty: counts a value that was not there
  /\ Operation
  /\ \E r \in {multimap_remove(mem, root, k, v)} :
         /\ mem' = r.m /\ root' = r.root
         /\ num_values' = IF num_values > 0 THEN num_values - 1 ELSE 0
         /\ right' = (r.existed = (<<k, v>> \in contents))
  /\ contents' = contents \ {<<k, v>>}
  /\ UNCHANGED <<saved, base, iter>>

Remove(k, v) ==
  /\ Operation
  /\ \E r \in {multimap_remove(mem, root, k, v)} :
         /\ mem' = r.m /\ root' = r.root
         /\ num_values' = IF r.existed THEN num_values - 1 ELSE num_values
         /\ right' = (r.existed = (<<k, v>> \in contents))
  /\ contents' = contents \ {<<k, v>>}
  /\ UNCHANGED <<saved, base, iter>>

\* An iterator: outer is the sequence of the MultimapRange with the keys that it has
\* left, vi the MultimapValue, todo the values that it has left, back whether
\* next_back() has been called on it.
Iter(outer, keys, vi, values) ==
  <<[outer |-> outer, keys |-> keys, vi |-> vi, todo |-> Sorted(values), back |-> FALSE]>>

\* remove_all(): the pages of the subtree are freed when the iterator is dropped.
RemoveAll(k) ==
  /\ Operation
  /\ \E d \in {delete(mem, root, k)} :
       LET subtree == d.old # <<>> /\ IsSubtree(d.old[1])
           pages == IF subtree THEN all_pages(d.m, <<Frame(d.old[1].root.root, 1)>>) ELSE <<>>
       IN  /\ mem' = d.m /\ root' = d.root
           /\ num_values' = IF d.old = <<>> THEN num_values
                            ELSE num_values - get_num_values(d.old[1])
           /\ iter' = Iter(<<>>, <<>>, value_iter(d.m, d.old, pages), ValuesOf(k))
  /\ contents' = {pair \in contents : pair[1] # k}
  /\ UNCHANGED <<saved, base, right>>

Get(k) ==
  /\ Operation
  /\ iter' = Iter(<<>>, <<>>, value_iter(mem, get(mem, root, k), <<>>), ValuesOf(k))
  /\ UNCHANGED <<mem, root, num_values, saved, contents, base, right>>

\* iter(): the whole range of keys, and no values before the first next().
OpenRange ==
  /\ Operation
  /\ iter' = Iter(<<range_iter(mem, root, <<"Unbounded">>, <<"Unbounded">>)>>,
                  Sorted({pair[1] : pair \in contents}), value_iter(mem, <<>>, <<>>), {})
  /\ UNCHANGED <<mem, root, num_values, saved, contents, base, right>>

Last(seq, side) == IF seq = <<>> THEN <<>> ELSE <<seq[IF side = "left" THEN 1 ELSE Len(seq)]>>
Left(seq, side) ==
  IF seq = <<>> THEN <<>>
  ELSE IF side = "left" THEN Tail(seq) ELSE SubSeq(seq, 1, Len(seq) - 1)

\* MultimapRange::next() and next_back().
RangeNext(side) ==
  /\ iter # <<>> /\ iter[1].outer # <<>>
  /\ LET n == iter_next(mem, iter[1].outer[1], side)
         want == Last(iter[1].keys, side)
         c == IF n.item = <<>> THEN <<>> ELSE <<n.item[1][2]>>
     IN  /\ iter' = Iter(<<n.it>>, Left(iter[1].keys, side), value_iter(mem, c, <<>>),
                         IF want = <<>> THEN {} ELSE ValuesOf(want[1]))
         /\ right' = ([i \in DOMAIN n.item |-> n.item[i][1]] = want)
  /\ UNCHANGED <<mem, root, num_values, saved, contents, base, ops, scope>>

ValueNext(side) ==
  /\ iter # <<>>
  /\ \E n \in {value_next(mem, iter[1].vi, side)} :
         /\ iter' = <<[iter[1] EXCEPT !.vi = n.vi, !.todo = Left(@, side),
                                      !.back = @ \/ side = "right"]>>
         /\ right' = ([i \in DOMAIN n.item |-> n.item[i][1]] = Last(iter[1].todo, side))
  /\ UNCHANGED <<mem, root, num_values, saved, contents, base, ops, scope>>

\* MultimapValue::drop().
DropIter ==
  /\ iter # <<>>
  /\ mem' = release(mem, iter[1].vi.free_on_drop)
  /\ iter' = <<>>
  /\ UNCHANGED <<root, num_values, saved, contents, base, right, ops, scope>>

\* Compaction: pages move together with the pages above them.
Relocate(S) ==
  /\ Operation
  /\ root # <<>> /\ S \subseteq AllPages(mem, root)
  /\ \A p \in AllPages(mem, root) :
       IF IsLeaf(mem, p)
       THEN p \in PagesOf(mem, root) =>
              \A i \in parse_subtree_roots(mem, p) : SubHeader(mem, p, i).root \in S => p \in S
       ELSE \A i \in DOMAIN mem.pages[p].children : mem.pages[p].children[i].page \in S => p \in S
  /\ LET n == Cardinality(DOMAIN mem.pages)
         map == [p \in S |-> n + Cardinality({q \in S : q <= p})]
         new == [q \in {map[p] : p \in S} |-> Leaf(<<>>)]
     IN  \E r \in {relocate_tree([mem EXCEPT !.pages = @ @@ new], root, map)} :
           mem' = r.m /\ root' = r.root
  /\ UNCHANGED <<num_values, saved, contents, base, iter, right>>

\* The freed pages are free right away, as without readers and savepoints.
Commit ==
  /\ iter = <<>> /\ ops > 0
  /\ \E f \in {finalize_tree_and_subtree_checksums(mem, root)} : \E r \in {Rename(f.m, f.root)} :
         /\ mem' = r.m /\ root' = r.root
         /\ saved' = [root |-> r.root, num_values |-> num_values]
  /\ base' = contents /\ ops' = 0
  /\ UNCHANGED <<num_values, contents, iter, right, scope>>

Abort ==
  /\ iter = <<>> /\ ops > 0
  /\ mem' = [mem EXCEPT !.pages = [p \in mem.committed |-> mem.pages[p]], !.freed = <<>>]
  /\ root' = saved.root /\ num_values' = saved.num_values
  /\ contents' = base /\ ops' = 0
  /\ UNCHANGED <<saved, base, iter, right, scope>>

Next ==
  \/ \E pair \in scope.pairs : Insert(pair[1], pair[2]) \/ Remove(pair[1], pair[2])
  \/ \E k \in TableKeys : RemoveAll(k) \/ Get(k)
  \/ OpenRange
  \/ \E side \in {"left", "right"} : RangeNext(side) \/ ValueNext(side)
  \/ ops = 0 /\ \E S \in SUBSET DOMAIN mem.pages : Relocate(S)
  \/ DropIter \/ Commit \/ Abort

Spec == Init /\ [][Next]_vars

-----------------------------------------------------------------------------
(* Properties.                                                             *)

RECURSIVE ValuesIn(_, _)
ValuesIn(m, p) ==
  LET below[i \in 0..Width(m, p)] ==
        IF i = 0 THEN <<>> ELSE below[i - 1] \o ValuesIn(m, m.pages[p].children[i].page)
  IN  IF IsLeaf(m, p) THEN m.pages[p].pairs ELSE below[Width(m, p)]

CollectionValues(m, c) ==
  LET pairs == IF IsSubtree(c) THEN ValuesIn(m, c.root.root) ELSE c.pairs
  IN  [i \in DOMAIN pairs |-> pairs[i][1]]

\* The table is the relation that the calls made: each key's collection holds its values
\* in order, no key has an empty collection, each collection's own count and the table's
\* num_values agree with it, whichever calls moved it between inline leaf and subtree.
HoldsTheRelation ==
  /\ \A k \in TableKeys :
       LET c == get(mem, root, k)
       IN  IF ValuesOf(k) = {} THEN c = <<>>
           ELSE /\ c # <<>>
                /\ CollectionValues(mem, c[1]) = Sorted(ValuesOf(k))
                /\ get_num_values(c[1]) = Cardinality(ValuesOf(k))
  /\ num_values = Cardinality(contents)
  /\ \A k \in TableKeys :
       LET c == get(mem, saved.root, k)
       IN  (IF c = <<>> THEN {} ELSE {CollectionValues(mem, c[1])[i] : i \in 1..get_num_values(c[1])})
             = {pair[2] : pair \in {pair \in base : pair[1] = k}}

\* insert(), remove() and the iterators of get(), remove_all() and range() return what
\* the relation says, from both ends: each value once, and the end when the ends meet.
CallsReturnRight == right

\* A collection is an inline leaf exactly while the leaf takes less than half a page:
\* insert() and remove() move it in either direction at the same size.
InlineWhileShort ==
  \A p \in PagesOf(mem, root) : IsLeaf(mem, p) =>
    \A i \in DOMAIN mem.pages[p].pairs :
      LET c == mem.pages[p].pairs[i][2]
      IN  IF IsSubtree(c)
          THEN IsLeaf(mem, c.root.root) => ~FitsInline(mem.pages[c.root.root].pairs)
          ELSE FitsInline(c.pairs)

\* Pages of the table and of its subtrees, pages given up, and the pages that wait for
\* the iterator of remove_all() to be dropped: each page is in one place, and once.
SubtreePagesAccounted ==
  LET given == mem.freed \o (IF iter = <<>> THEN <<>> ELSE iter[1].vi.free_on_drop)
      listed == {given[i] : i \in DOMAIN given}
      main == PagesOf(mem, root)
      subs == {<<p, i>> : p \in main, i \in 1..Cardinality(TableKeys)}
      of(e) == IF e[2] \in parse_subtree_roots(mem, e[1])
               THEN PagesOf(mem, <<SubHeader(mem, e[1], e[2])>>) ELSE {}
  IN  /\ Cardinality(listed) = Len(given)
      /\ listed \cap AllPages(mem, root) = {}
      /\ DOMAIN mem.pages = listed \cup AllPages(mem, root)
      /\ {mem.freed[i] : i \in DOMAIN mem.freed} \subseteq mem.committed
      /\ \A e \in subs : of(e) \cap main = {} /\ \A d \in subs \ {e} : of(d) \cap of(e) = {}

\* stats() of a multimap: every page of the table and its subtrees is counted once, the
\* stored bytes are those of the values, inline or not, and the rest fills the pages.
MultimapStatsAddUp ==
  LET s == multimap_btree_stats(mem, root)
      pages == AllPages(mem, root)
      value(pair) == KeyLen[pair[2]]
      len(p) == PageLen(mem, p)
  IN  iter = <<>> =>
      /\ s.leaf_pages + s.branch_pages = Cardinality(pages)
      /\ s.stored_leaf_bytes = MapThenSumSet(value, contents)
      /\ s.stored_leaf_bytes + s.metadata_bytes + s.fragmented_bytes = MapThenSumSet(len, pages)

\* The committed table verifies, subtrees included, all through the next transaction:
\* the headers in the leaves were final before the leaves' own checksums were computed.
SubtreesVerify == verify_tree_and_subtree_checksums(mem, saved.root)

\* len() of an iterator over values is what it still returns until next_back() is used,
\* and never less; the countdown of next() cannot go below zero.
LenCountsDown ==
  iter # <<>> =>
    /\ iter[1].vi.remaining >= Len(iter[1].todo)
    /\ ~iter[1].back => iter[1].vi.remaining = Len(iter[1].todo)

=============================================================================
