------------------------------- MODULE Btree --------------------------------
(***************************************************************************)
(* One table's b-tree through write transactions: BtreeMut of btree.rs     *)
(* with the operations of Table (table.rs), the range iterators, and       *)
(* extract_if, whose caller may stop half way.                             *)
(*                                                                         *)
(*   mem, root   the pages and the tree of the open write transaction      *)
(*   saved       the committed tree                                        *)
(*   contents    what the table should hold, and base what the committed   *)
(*               tree should hold                                          *)
(*   fresh       the keys inserted in this transaction                     *)
(*   iter        the iterator in use                                       *)
(*   right       the last call returned what the contents say              *)
(*   ops, scope  operations so far, and the bounds of the behaviour        *)
(***************************************************************************)
EXTENDS BtreeOps
LOCAL INSTANCE FiniteSetsExt

CONSTANTS
  Pairs,        \* the pairs that may be inserted
  KeepSets,     \* the predicates of retain() and extract_if(): sets of keys
  Ranges,       \* the pairs of bounds that iterators use
  Scopes        \* the bounds: the keys in use, and how many operations a transaction has

VARIABLES mem, root, saved, contents, base, fresh, iter, right, ops, scope

vars == <<mem, root, saved, contents, base, fresh, iter, right, ops, scope>>

ASSUME PairsAssumption ==
  Pairs \subseteq Keys \X [len : Nat] /\ Scopes \subseteq [keys : SUBSET Keys, ops : Nat]

-----------------------------------------------------------------------------
(* The abstract table.                                                     *)

SortedKeys(S) ==
  [i \in 1..Cardinality(S) |-> CHOOSE k \in S : Cardinality({j \in S : j < k}) = i - 1]

InRange(k, range) ==
  /\ range[1][1] = "Included" => range[1][2] <= k
  /\ range[1][1] = "Excluded" => range[1][2] < k
  /\ range[2][1] = "Included" => k <= range[2][2]
  /\ range[2][1] = "Excluded" => k < range[2][2]

ValueOf(k) == IF k \in DOMAIN contents THEN <<contents[k]>> ELSE <<>>
With(k, v) == [j \in DOMAIN contents \cup {k} |-> IF j = k THEN v ELSE contents[j]]
Minus(S) == [j \in DOMAIN contents \ S |-> contents[j]]

-----------------------------------------------------------------------------
(* Operations of a write transaction.                                      *)

Init ==
  /\ mem = [pages |-> <<>>, committed |-> {}, freed |-> <<>>, modify |-> TRUE]
  /\ root = <<>> /\ saved = <<>>
  /\ contents = <<>> /\ base = <<>>
  /\ fresh = {} /\ iter = <<>> /\ right = TRUE /\ ops = 0
  /\ scope \in Scopes

\* The result of a call on the tree, and what the contents say it should return.
Apply(r, want) == mem' = r.m /\ root' = r.root /\ right' = (r.old = want)

Operation == iter = <<>> /\ ops < scope.ops /\ ops' = ops + 1 /\ UNCHANGED scope

Insert(k, v) ==
  /\ Operation
  /\ Apply(insert(mem, root, k, v), ValueOf(k))
  /\ contents' = With(k, v) /\ fresh' = fresh \cup {k}
  /\ UNCHANGED <<saved, base, iter>>

Remove(k) ==
  /\ Operation
  /\ Apply(delete(mem, root, k), ValueOf(k))
  /\ contents' = Minus({k}) /\ fresh' = fresh \ {k}
  /\ UNCHANGED <<saved, base, iter>>

\* pop_first() and pop_last(): the first item of a new iterator, removed by its key.
AllOf == range_iter(mem, root, <<"Unbounded">>, <<"Unbounded">>)

Popped(item, k) ==
  IF item = <<>> THEN Apply(Changed(mem, root, <<>>), <<>>) /\ UNCHANGED <<contents, fresh>>
  ELSE /\ Apply([delete(mem, root, item[1][1]) EXCEPT !.old = <<item[1][1]>> \o @],
                <<k, contents[k]>>)
       /\ contents' = Minus({item[1][1]}) /\ fresh' = fresh \ {item[1][1]}

Pop(side) ==
  /\ Operation
  /\ LET keys == SortedKeys(DOMAIN contents)
     IN  Popped(iter_next(mem, AllOf, side).item, keys[IF side = "left" THEN 1 ELSE Len(keys)])
  /\ UNCHANGED <<saved, base, iter>>

GetMut(k, v) ==
  /\ Operation
  /\ Apply(get_mut(mem, root, k, v), <<>>)
  /\ contents' = IF k \in DOMAIN contents THEN With(k, v) ELSE contents
  /\ UNCHANGED <<saved, base, fresh, iter>>

\* insert_inplace(): of a key inserted earlier in this transaction, and no longer value.
InsertInplace(k, v) ==
  /\ Operation
  /\ k \in fresh /\ v.len <= contents[k].len
  /\ Apply(insert_inplace(mem, root, k, v), <<>>)
  /\ contents' = With(k, v)
  /\ UNCHANGED <<saved, base, fresh, iter>>

Released(r) ==
  [r EXCEPT !.m = release([r.m EXCEPT !.modify = TRUE, !.freed = mem.freed], r.m.freed)]

Retain(keep) ==
  /\ Operation
  /\ Apply(Released(retain_in([mem EXCEPT !.modify = FALSE, !.freed = <<>>], root, AllOf, keep)),
           <<>>)
  /\ contents' = Minus(Keys \ keep) /\ fresh' = fresh \cap keep
  /\ UNCHANGED <<saved, base, iter>>

\* Compaction moves pages of a tree that this transaction has not changed.
Relocate(S) ==
  /\ Operation
  /\ root # <<>> /\ S \subseteq PagesOf(mem, root)
  /\ \A p \in PagesOf(mem, root) : ~IsLeaf(mem, p) =>
       \A i \in DOMAIN mem.pages[p].children : mem.pages[p].children[i].page \in S => p \in S
  /\ LET n == Cardinality(DOMAIN mem.pages)
         map == [p \in S |-> n + Cardinality({q \in S : q <= p})]
         new == [q \in {map[p] : p \in S} |-> Leaf(<<>>)]
     IN  Apply(relocate([mem EXCEPT !.pages = @ @@ new], root, map), <<>>)
  /\ UNCHANGED <<saved, contents, base, fresh, iter>>

\* range() and extract_from_if(): todo is what the iterator has left to return.
OpenIter(kind, range, matches) ==
  /\ Operation
  /\ LET keys == {k \in DOMAIN contents : InRange(k, range) /\ k \in matches}
     IN  iter' = <<[kind |-> kind, it |-> range_iter(mem, root, range[1], range[2]),
                    matches |-> matches, free_on_drop |-> <<>>,
                    todo |-> [i \in 1..Cardinality(keys) |->
                                <<SortedKeys(keys)[i], contents[SortedKeys(keys)[i]]>>]]>>
  /\ UNCHANGED <<mem, root, saved, contents, base, fresh, right>>

Wanted(todo, side) ==
  IF todo = <<>> THEN <<>> ELSE <<todo[IF side = "left" THEN 1 ELSE Len(todo)]>>
Left(todo, side) ==
  IF todo = <<>> THEN <<>>
  ELSE IF side = "left" THEN Tail(todo) ELSE SubSeq(todo, 1, Len(todo) - 1)

RangeNext(side) ==
  /\ iter # <<>> /\ iter[1].kind = "range"
  /\ \E n \in {iter_next(mem, iter[1].it, side)} :
         /\ iter' = <<[iter[1] EXCEPT !.it = n.it, !.todo = Left(@, side)]>>
         /\ right' = (n.item = Wanted(iter[1].todo, side))
  /\ UNCHANGED <<mem, root, saved, contents, base, fresh, ops, scope>>

Gone(item) == {item[i][1] : i \in DOMAIN item}

ExtractNext(side) ==
  /\ iter # <<>> /\ iter[1].kind = "extract"
  /\ \E n \in {extract_next([mem EXCEPT !.modify = FALSE, !.freed = iter[1].free_on_drop],
                            root, iter[1].it, side, iter[1].matches)} :
         /\ iter' = <<[iter[1] EXCEPT !.it = n.it, !.todo = Left(@, side),
                                      !.free_on_drop = n.m.freed]>>
         /\ mem' = [n.m EXCEPT !.modify = TRUE, !.freed = mem.freed]
         /\ root' = n.root
         /\ contents' = Minus(Gone(n.item)) /\ fresh' = fresh \ Gone(n.item)
         /\ right' = (n.item = Wanted(iter[1].todo, side))
  /\ UNCHANGED <<saved, base, ops, scope>>

DropIter ==
  /\ iter # <<>>
  /\ iter' = <<>>
  /\ mem' = release(mem, iter[1].free_on_drop)
  /\ UNCHANGED <<root, saved, contents, base, fresh, right, ops, scope>>

-----------------------------------------------------------------------------
(* The end of the transaction.  The freed pages are free right away, as    *)
(* without readers and savepoints; PageReclaim models when they are.       *)

Commit ==
  /\ iter = <<>> /\ ops > 0
  /\ \E f \in {finalize_dirty_checksums(mem, root)} : \E r \in {Rename(f.m, f.root)} :
       mem' = r.m /\ root' = r.root /\ saved' = r.root
  /\ base' = contents /\ fresh' = {} /\ ops' = 0
  /\ UNCHANGED <<contents, iter, right, scope>>

Abort ==
  /\ iter = <<>> /\ ops > 0
  /\ mem' = [mem EXCEPT !.pages = [p \in mem.committed |-> mem.pages[p]], !.freed = <<>>]
  /\ root' = saved /\ contents' = base /\ fresh' = {} /\ ops' = 0
  /\ UNCHANGED <<saved, base, iter, right, scope>>

Next ==
  \/ \E pair \in Pairs :
       /\ pair[1] \in scope.keys
       /\ \/ Insert(pair[1], pair[2])
          \/ GetMut(pair[1], pair[2])
          \/ InsertInplace(pair[1], pair[2])
  \/ \E k \in scope.keys : Remove(k)
  \/ \E side \in {"left", "right"} : Pop(side)
  \/ \E keep \in KeepSets : Retain(keep)
  \/ ops = 0 /\ \E S \in SUBSET DOMAIN mem.pages : Relocate(S)
  \/ \E range \in Ranges : OpenIter("range", range, Keys)
  \/ \E range \in Ranges, matches \in KeepSets : OpenIter("extract", range, matches)
  \/ \E side \in {"left", "right"} : RangeNext(side) \/ ExtractNext(side)
  \/ DropIter \/ Commit \/ Abort

Spec == Init /\ [][Next]_vars

-----------------------------------------------------------------------------
(* Properties.                                                             *)

RECURSIVE PairsOf(_, _)
PairsOf(m, p) ==
  LET below[i \in 0..Width(m, p)] ==
        IF i = 0 THEN <<>> ELSE below[i - 1] \o PairsOf(m, m.pages[p].children[i].page)
  IN  IF IsLeaf(m, p) THEN m.pages[p].pairs ELSE below[Width(m, p)]

RECURSIVE Depth(_, _)
Depth(m, p) == IF IsLeaf(m, p) THEN 0 ELSE 1 + Depth(m, m.pages[p].children[1].page)

\* All of the subtree's keys are in (lo, hi], its leaves are equally deep, its branches
\* have two children or more and its leaves a pair or more.
RECURSIVE WellFormed(_, _, _, _)
WellFormed(m, p, lo, hi) ==
  LET node == m.pages[p]
      n == Width(m, p)
  IN  IF IsLeaf(m, p) THEN n > 0 /\ \A i \in 1..n : lo < node.pairs[i][1] /\ node.pairs[i][1] <= hi
      ELSE /\ n > 1 /\ Len(node.keys) = n - 1
           /\ \A i \in 1..n :
                /\ Depth(m, node.children[i].page) = Depth(m, node.children[1].page)
                /\ WellFormed(m, node.children[i].page,
                              IF i = 1 THEN lo ELSE node.keys[i - 1],
                              IF i = n THEN hi ELSE node.keys[i])

\* After any sequence of inserts, removals, get_mut, retain, extract_if and relocations,
\* the tree holds exactly the table's pairs in key order, the header's length counts
\* them, and get() finds each key and no other; the committed tree stays what it was.
HoldsTheTable ==
  /\ LET keys == SortedKeys(DOMAIN contents)
     IN  (IF root = <<>> THEN <<>> ELSE PairsOf(mem, root[1].root))
           = [i \in 1..Cardinality(DOMAIN contents) |-> <<keys[i], contents[keys[i]]>>]
  /\ root # <<>> => root[1].length = Cardinality(DOMAIN contents)
  /\ \A k \in Keys : get(mem, root, k) = ValueOf(k)
  /\ \A k \in Keys : get(mem, saved, k) = IF k \in DOMAIN base THEN <<base[k]>> ELSE <<>>

\* Splits, merges and rebalancing keep the tree balanced, with separators that bound the
\* keys on both sides, no empty leaf and no branch with a single child.
Balanced == root # <<>> => WellFormed(mem, root[1].root, -1, 2^30)

\* Every call returns what the table held: insert() and remove() the old value, the
\* range iterators and extract_if() each pair of the range once, from whichever end.
ReturnsRight == right

\* A page is in the tree, or given up and listed exactly once, or free: what insert(),
\* delete() and the guards free is neither still used, nor freed twice, nor forgotten;
\* and the iterator over all pages, by which remove_all() frees a subtree, meets each
\* page once.
PagesAccounted ==
  LET given == mem.freed \o (IF iter = <<>> THEN <<>> ELSE iter[1].free_on_drop)
      listed == {given[i] : i \in DOMAIN given}
  IN  /\ Cardinality(listed) = Len(given)
      /\ listed \cap PagesOf(mem, root) = {}
      /\ DOMAIN mem.pages = listed \cup PagesOf(mem, root)
      /\ {mem.freed[i] : i \in DOMAIN mem.freed} \subseteq mem.committed
      /\ root # <<>> =>
           LET all == all_pages(mem, <<Frame(root[1].root, 1)>>)
           IN  /\ {all[i] : i \in DOMAIN all} = PagesOf(mem, root)
               /\ Len(all) = Cardinality(PagesOf(mem, root))

\* stats(): the pages counted are the tree's pages, the stored bytes are those of the
\* table's keys and values, and with metadata and fragmentation they fill the pages.
StatsAddUp ==
  LET s == btree_stats(mem, root)
      pages == PagesOf(mem, root)
      pair(k) == KeyLen[k] + contents[k].len
      len(p) == PageLen(mem, p)
  IN  iter = <<>> =>
      /\ s.leaf_pages + s.branch_pages = Cardinality(pages)
      /\ s.stored_leaf_bytes = MapThenSumSet(pair, DOMAIN contents)
      /\ s.stored_leaf_bytes + s.metadata_bytes + s.fragmented_bytes = MapThenSumSet(len, pages)
      /\ s.tree_height = IF root = <<>> THEN 0 ELSE 1 + Depth(mem, root[1].root)

\* At every point of the next transaction the committed tree has the checksums of what
\* its pages hold: finalize_dirty_checksums() reached every new page before the commit,
\* and no operation since has written or freed a committed page.
CommittedVerifies == verify_checksum(mem, saved)

\* A key inserted in this transaction is on a path of uncommitted pages, the condition
\* that insert_inplace_helper() asserts.
InplaceAssertsHold == \A k \in fresh : DirtyPath(mem, root[1].root, k)

=============================================================================
