---------------------------- MODULE BtreeMutator ----------------------------
(***************************************************************************)
(* The b-tree of redbx as functions of the pages: the accessors and        *)
(* builders of btree_base.rs and MutateHelper of btree_mutator.rs.         *)
(*                                                                         *)
(* A memory m is the record of what the functions read and change:         *)
(*   m.pages      page number -> node, for the pages that are allocated    *)
(*   m.committed  the pages of committed trees: copied, never written      *)
(*   m.freed      the committed pages that the operation gave up           *)
(*   m.modify     MutateHelper::modify_uncommitted                         *)
(* Keys are numbers; a value has a length, len.  Positions start at 1.     *)
(* Lengths leave out the four and eight bytes that start a page.           *)
(***************************************************************************)
EXTENDS Naturals, FiniteSets, Sequences, TLC

CONSTANTS
  Keys,         \* a set of numbers
  KeyLen,       \* key -> length
  PageSize,     \* the smallest page
  EffectiveLeafPageSize,  \* the bytes of a page that an encrypted leaf can use
  PairBytes,    \* what a leaf adds to a pair: the ends of key and value
  ChildBytes    \* a branch's bytes per child: page number, checksum, end of the key

ASSUME SizesAssumption ==
  /\ Keys \subseteq Nat /\ KeyLen \in [Keys -> Nat \ {0}]
  /\ PageSize \in Nat /\ EffectiveLeafPageSize \in 1..PageSize
  /\ PairBytes \in Nat /\ ChildBytes \in Nat

\* The checksum that a parent or a header holds of a page: the sequence of the node
\* it was computed from (a hash without collisions), or empty while it is deferred.
DEFERRED == <<>>
Checksum(m, p) == <<m.pages[p]>>

\* BtreeHeader; a tree without a root is the sequence of no header.
Header(page, checksum, length) == [root |-> page, checksum |-> checksum, length |-> length]

-----------------------------------------------------------------------------
(* Pages: TransactionalMemory as the b-tree uses it.                       *)

uncommitted(m, p) == p \notin m.committed

\* A node of order o takes 2^o of the smallest pages, and its number is the first of
\* them, a multiple of 2^o counted from 1.
Block(p, order) == p..(p + 2^order - 1)
InUse(m) == UNION {Block(p, m.pages[p].order) : p \in DOMAIN m.pages}

\* allocate_lowest(), which takes the first free block of the order, and the contents
\* that the builder writes into it.  allocate() may take any other free block: the
\* number matters to compaction alone.
FreeBlock(m, order) ==
  LET used == InUse(m)
      free(i) == Block(i * 2^order + 1, order) \cap used = {}
  IN  1 + 2^order * CHOOSE i \in 0..Cardinality(used) : free(i) /\ \A j \in 0..(i - 1) : ~free(j)
Placed(m, p, node) == [m |-> [m EXCEPT !.pages = @ @@ (p :> node)], page |-> p]
Allocate(m, node) == Placed(m, FreeBlock(m, node.order), node)

\* What a builder made: its pages, and the key between them if there are two.
OnePage(one) == [m |-> one.m, keys |-> <<>>, pages |-> <<one.page>>]
TwoPages(page, key, two) == [m |-> two.m, keys |-> <<key>>, pages |-> <<page, two.page>>]
AllocateNext(one, key, node) == TwoPages(one.page, key, Allocate(one.m, node))

Write(m, p, node) == [m EXCEPT !.pages[p] = node]

\* free(); a second free of a page stays visible in freed.
Free(m, p) ==
  IF p \in DOMAIN m.pages THEN [m EXCEPT !.pages = [q \in DOMAIN @ \ {p} |-> @[q]]]
  ELSE [m EXCEPT !.freed = Append(@, p)]

free_if_uncommitted(m, p) ==
  IF uncommitted(m, p) THEN Free(m, p) ELSE [m EXCEPT !.freed = Append(@, p)]

conditional_free(m, p) ==
  IF m.modify THEN free_if_uncommitted(m, p) ELSE [m EXCEPT !.freed = Append(@, p)]

-----------------------------------------------------------------------------
(* Leaves.  A pair is <<key, value>>.                                      *)

PairLen(pair) == KeyLen[pair[1]] + pair[2].len

\* LeafAccessor::length_of_pairs() and RawLeafBuilder::required_bytes().
RECURSIVE length_of_pairs(_)
length_of_pairs(pairs) ==
  IF pairs = <<>> THEN 0 ELSE PairLen(Head(pairs)) + length_of_pairs(Tail(pairs))
LeafBytes(pairs) == length_of_pairs(pairs) + PairBytes * Len(pairs)

\* The order of the pages that allocate() takes for so many bytes.
Order(bytes) ==
  CHOOSE o \in 0..bytes :
    PageSize * 2^o >= bytes /\ (o > 0 => PageSize * 2^(o - 1) < bytes)

Leaf(pairs) == [type |-> "LEAF", pairs |-> pairs, order |-> Order(LeafBytes(pairs))]
IsLeaf(m, p) == m.pages[p].type = "LEAF"

\* LeafAccessor::position(): where the key is or would be.
position(pairs, key) == 1 + Cardinality({i \in DOMAIN pairs : pairs[i][1] < key})
found(pairs, key) == \E i \in DOMAIN pairs : pairs[i][1] = key

Without(seq, i) == SubSeq(seq, 1, i - 1) \o SubSeq(seq, i + 1, Len(seq))
Removed(pairs, i) == Without(pairs, i)
Replaced(seq, i, new) == SubSeq(seq, 1, i - 1) \o new \o SubSeq(seq, i + 1, Len(seq))

\* The pairs after an insertion, which replaces the pair of the same key.
Inserted(pairs, key, value) ==
  LET i == position(pairs, key)
  IN  SubSeq(pairs, 1, i - 1) \o <<<<key, value>>>>
        \o SubSeq(pairs, IF found(pairs, key) THEN i + 1 ELSE i, Len(pairs))

single_large_value(leaf) ==
  Len(leaf.pairs) = 1 /\ LeafBytes(leaf.pairs) >= EffectiveLeafPageSize

\* LeafMutator::sufficient_insert_inplace_space(): the page is large enough; a page
\* of a higher order only takes pairs at its end.
sufficient_insert_inplace_space(leaf, key, value) ==
  /\ \/ found(leaf.pairs, key)
     \/ leaf.order = 0
     \/ position(leaf.pairs, key) > Len(leaf.pairs)
  /\ LeafBytes(Inserted(leaf.pairs, key, value)) <= PageSize * 2^leaf.order

\* LeafBuilder.
leaf_should_split(pairs) == LeafBytes(pairs) > EffectiveLeafPageSize /\ Len(pairs) > 1

leaf_build(m, pairs) == Allocate(m, Leaf(pairs))

\* build_split(): the first part is the shortest that has half of the bytes, but
\* leaves at least one pair.
leaf_division(pairs) ==
  CHOOSE d \in 1..(Len(pairs) - 1) :
    LET half(i) == length_of_pairs(SubSeq(pairs, 1, i)) >= length_of_pairs(pairs) \div 2
    IN  (d = Len(pairs) - 1 \/ half(d)) /\ \A i \in 1..(d - 1) : ~half(i)

leaf_build_split(m, pairs, d) ==
  AllocateNext(leaf_build(m, SubSeq(pairs, 1, d)), pairs[d][1],
               Leaf(SubSeq(pairs, d + 1, Len(pairs))))

BuildLeaves(m, pairs) ==
  IF leaf_should_split(pairs) THEN leaf_build_split(m, pairs, leaf_division(pairs))
  ELSE OnePage(leaf_build(m, pairs))

-----------------------------------------------------------------------------
(* Branches.  Child i holds the keys up to key i, the last child the rest. *)

Child(page, checksum) == [page |-> page, checksum |-> checksum]

RECURSIVE KeyBytes(_)
KeyBytes(keys) == IF keys = <<>> THEN 0 ELSE KeyLen[Head(keys)] + KeyBytes(Tail(keys))
BranchBytes(keys) == ChildBytes * (Len(keys) + 1) + KeyBytes(keys)

Branch(keys, children) ==
  [type |-> "BRANCH", keys |-> keys, children |-> children, order |-> Order(BranchBytes(keys))]

child_for_key(keys, key) == 1 + Cardinality({i \in DOMAIN keys : keys[i] < key})

\* BranchMutator::write_child_page(), in place.
write_child_page(m, p, i, page, checksum) ==
  [m EXCEPT !.pages[p].children[i] = Child(page, checksum)]

\* BranchBuilder.
branch_should_split(keys) == BranchBytes(keys) > PageSize /\ Len(keys) >= 3

branch_build(m, keys, children) == Allocate(m, Branch(keys, children))

\* build_split(): the key in the middle moves up.
branch_build_split(m, keys, children, d) ==
  AllocateNext(branch_build(m, SubSeq(keys, 1, d), SubSeq(children, 1, d + 1)), keys[d + 1],
               Branch(SubSeq(keys, d + 2, Len(keys)),
                      SubSeq(children, d + 2, Len(children))))

BuildBranches(m, keys, children) ==
  IF branch_should_split(keys) THEN branch_build_split(m, keys, children, Len(keys) \div 2)
  ELSE OnePage(branch_build(m, keys, children))

-----------------------------------------------------------------------------
(* Insertion.  old is the sequence of the value that was replaced, sibling *)
(* the sequence of the page that a split adds to the right.                *)

Grown(m, page, checksum, sibling, old) ==
  [m |-> m, page |-> page, checksum |-> checksum, sibling |-> sibling, old |-> old]
Sibling(key, page, checksum) == [key |-> key, page |-> page, checksum |-> checksum]

\* The pages built take the place of p.
Rebuilt(p, built, old) ==
  Grown(conditional_free(built.m, p), built.pages[1], DEFERRED,
        [s \in DOMAIN built.keys |-> Sibling(built.keys[s], built.pages[2], DEFERRED)], old)

\* A leaf of the new pair alone, left or right of the large value at p.
BesideLarge(single, p, checksum, key, large) ==
  IF key < large THEN Grown(single.m, single.page, DEFERRED, <<Sibling(key, p, checksum)>>, <<>>)
  ELSE Grown(single.m, p, checksum, <<Sibling(large, single.page, DEFERRED)>>, <<>>)

insert_leaf(m, p, checksum, key, value) ==
  LET leaf == m.pages[p]
      old == IF found(leaf.pairs, key) THEN <<leaf.pairs[position(leaf.pairs, key)][2]>> ELSE <<>>
      pairs == Inserted(leaf.pairs, key, value)
  IN  IF old = <<>> /\ single_large_value(leaf)
      THEN BesideLarge(leaf_build(m, <<<<key, value>>>>), p, checksum, key, leaf.pairs[1][1])
      ELSE IF uncommitted(m, p) /\ m.modify /\ sufficient_insert_inplace_space(leaf, key, value)
      THEN Grown(Write(m, p, [leaf EXCEPT !.pairs = pairs]), p, DEFERRED, <<>>, old)
      ELSE Rebuilt(p, BuildLeaves(m, pairs), old)

\* A branch whose child i was replaced by the result of the insertion below it.
insert_branch(p, i, sub) ==
  LET branch == sub.m.pages[p]
      keys == SubSeq(branch.keys, 1, i - 1) \o [s \in DOMAIN sub.sibling |-> sub.sibling[s].key]
                \o SubSeq(branch.keys, i, Len(branch.keys))
      new == <<Child(sub.page, sub.checksum)>>
               \o [s \in DOMAIN sub.sibling |-> Child(sub.sibling[s].page, sub.sibling[s].checksum)]
  IN  IF sub.sibling = <<>> /\ sub.m.modify /\ uncommitted(sub.m, p)
      THEN Grown(write_child_page(sub.m, p, i, sub.page, sub.checksum), p, DEFERRED,
                 <<>>, sub.old)
      ELSE Rebuilt(p, BuildBranches(sub.m, keys, Replaced(branch.children, i, new)), sub.old)

RECURSIVE insert_helper(_, _, _, _, _)
insert_helper(m, p, checksum, key, value) ==
  IF IsLeaf(m, p) THEN insert_leaf(m, p, checksum, key, value)
  ELSE LET branch == m.pages[p]
           i == child_for_key(branch.keys, key)
       IN  insert_branch(p, i, insert_helper(m, branch.children[i].page,
                                             branch.children[i].checksum, key, value))

\* The result of an operation on a whole tree: memory, header, value that was there.
Changed(m, root, old) == [m |-> m, root |-> root, old |-> old]

NewRoot(new, length, old) == Changed(new.m, <<Header(new.page, DEFERRED, length)>>, old)

\* The root after an insertion below it, with a branch on top if it was split.
insert_root(length, r) ==
  IF r.sibling = <<>> THEN Changed(r.m, <<Header(r.page, r.checksum, length)>>, r.old)
  ELSE NewRoot(branch_build(r.m, <<r.sibling[1].key>>,
                            <<Child(r.page, r.checksum),
                              Child(r.sibling[1].page, r.sibling[1].checksum)>>),
               length, r.old)
Counted(length, r) == insert_root(IF r.old = <<>> THEN length + 1 ELSE length, r)

insert(m, root, key, value) ==
  IF root = <<>> THEN NewRoot(leaf_build(m, <<<<key, value>>>>), 1, <<>>)
  ELSE Counted(root[1].length,
               insert_helper(m, root[1].root, root[1].checksum, key, value))

\* insert_inplace(): the key is there, every page of the path is uncommitted.
RECURSIVE insert_inplace_helper(_, _, _, _)
insert_inplace_helper(m, p, key, value) ==
  IF IsLeaf(m, p)
  THEN Write(m, p, [m.pages[p] EXCEPT !.pairs = Inserted(@, key, value)])
  ELSE LET i == child_for_key(m.pages[p].keys, key)
           c == m.pages[p].children[i].page
       IN  write_child_page(insert_inplace_helper(m, c, key, value), p, i, c, DEFERRED)

insert_inplace(m, root, key, value) ==
  Changed(insert_inplace_helper(m, root[1].root, key, value),
          <<[root[1] EXCEPT !.checksum = DEFERRED]>>, <<>>)

-----------------------------------------------------------------------------
(* Deletion.  A DeletionResult has the memory, its kind and                *)
(*   Subtree, PartialBranch, DeletedBranch   page and checksum             *)
(*   PartialLeaf                             the pairs that are left       *)
(* old is the sequence of the value that was removed.                      *)

Deleted(m, kind, page, checksum, pairs, old) ==
  [m |-> m, kind |-> kind, page |-> page, checksum |-> checksum, pairs |-> pairs, old |-> old]

Subtree(m, page, checksum, old) == Deleted(m, "Subtree", page, checksum, <<>>, old)
NewSubtree(new, p, old) == Subtree(conditional_free(new.m, p), new.page, DEFERRED, old)

delete_leaf_helper(m, p, checksum, key) ==
  LET leaf == m.pages[p]
      i == position(leaf.pairs, key)
      pairs == Removed(leaf.pairs, i)
      old == <<leaf.pairs[i][2]>>
  IN  IF ~found(leaf.pairs, key) THEN Subtree(m, p, checksum, <<>>)
      ELSE IF /\ uncommitted(m, p) /\ m.modify /\ Len(leaf.pairs) > 1
              /\ LeafBytes(pairs) >= EffectiveLeafPageSize \div 2
      THEN \* AccessGuard::remove_on_drop: the pair leaves the page with the guard.
           Subtree(Write(m, p, [leaf EXCEPT !.pairs = pairs]), p, DEFERRED, old)
      ELSE IF pairs = <<>>
      THEN Deleted(conditional_free(m, p), "DeletedLeaf", 0, DEFERRED, <<>>, old)
      ELSE IF LeafBytes(pairs) < EffectiveLeafPageSize \div 3
      THEN Deleted(conditional_free(m, p), "PartialLeaf", 0, DEFERRED, pairs, old)
      ELSE NewSubtree(leaf_build(m, pairs), p, old)

FinalBranch(kind, new, old) == Deleted(new.m, kind, new.page, DEFERRED, <<>>, old)

finalize_branch_builder_Single(m, keys, children, old) ==  \* faulty: keeps an only child's branch
  FinalBranch("Subtree", branch_build(m, keys, children), old)

finalize_branch_builder(m, keys, children, old) ==
  IF Len(children) = 1
  THEN Deleted(m, "DeletedBranch", children[1].page, children[1].checksum, <<>>, old)
  ELSE FinalBranch(IF BranchBytes(keys) < PageSize \div 3 THEN "PartialBranch" ELSE "Subtree",
                   branch_build(m, keys, children), old)

merge_with(i) == IF i = 1 THEN 2 ELSE i - 1

\* What merging child i with its neighbour gives: one page, or two and a new separator.
\* Leaves merge their pairs; branches merge their children around the old separator.
lower(i) == IF i < merge_with(i) THEN i ELSE merge_with(i)
InOrder(i, mine, between, other) ==
  IF i < merge_with(i) THEN mine \o between \o other ELSE other \o between \o mine

MergeLeaves(m, branch, i, pairs) ==
  BuildLeaves(m, InOrder(i, pairs, <<>>, m.pages[branch.children[merge_with(i)].page].pairs))

MergeBranches(m, branch, i, keys, children) ==
  LET other == m.pages[branch.children[merge_with(i)].page]
  IN  BuildBranches(m, InOrder(i, keys, <<branch.keys[lower(i)]>>, other.keys),
                    InOrder(i, children, <<>>, other.children))

\* The branch around the merged children.
Around(branch, lo, merged, old) ==
  finalize_branch_builder(merged.m,
    SubSeq(branch.keys, 1, lo - 1) \o merged.keys
      \o SubSeq(branch.keys, lo + 1, Len(branch.keys)),
    SubSeq(branch.children, 1, lo - 1)
      \o [n \in DOMAIN merged.pages |-> Child(merged.pages[n], DEFERRED)]
      \o SubSeq(branch.children, lo + 2, Len(branch.children)), old)

Rejoin_Forget(branch, i, merged, old) ==  \* faulty: the neighbour's old page is not freed
  Around(branch, lower(i), merged, old)

Rejoin(branch, i, merged, old) ==
  [Around(branch, lower(i), merged, old) EXCEPT
     !.m = conditional_free(@, branch.children[merge_with(i)].page)]

\* The branch around a small leaf that cannot be merged.
Alone(branch, i, leaf, old) ==
  finalize_branch_builder(leaf.m, branch.keys,
    Replaced(branch.children, i, <<Child(leaf.page, DEFERRED)>>), old)

\* The branch without its child i, or with a neighbour merged into it, as r says.
Shrunk(branch, i, r) ==
  CASE r.kind = "DeletedLeaf" ->
         finalize_branch_builder(r.m,
           Without(branch.keys, IF i = Len(branch.children) THEN i - 1 ELSE i),
           Without(branch.children, i), r.old)
    [] r.kind = "PartialLeaf" ->
         IF single_large_value(r.m.pages[branch.children[merge_with(i)].page])
         THEN Alone(branch, i, leaf_build(r.m, r.pairs), r.old)
         ELSE Rejoin(branch, i, MergeLeaves(r.m, branch, i, r.pairs), r.old)
    [] r.kind = "DeletedBranch" ->
         Rejoin(branch, i, MergeBranches(r.m, branch, i, <<>>, <<Child(r.page, r.checksum)>>), r.old)
    [] r.kind = "PartialBranch" ->
         [Rejoin(branch, i, MergeBranches(r.m, branch, i, r.m.pages[r.page].keys,
                                          r.m.pages[r.page].children), r.old)
            EXCEPT !.m = conditional_free(@, r.page)]

\* The branch at p after its child i reported r.
delete_branch(p, checksum, i, r) ==
  LET branch == r.m.pages[p]
  IN  IF r.old = <<>> THEN Subtree(r.m, p, checksum, <<>>)
      ELSE IF r.kind = "Subtree" /\ uncommitted(r.m, p) /\ r.m.modify
      THEN Subtree(write_child_page(r.m, p, i, r.page, r.checksum), p, DEFERRED, r.old)
      ELSE IF r.kind = "Subtree"
      THEN NewSubtree(branch_build(r.m, branch.keys,
                        Replaced(branch.children, i, <<Child(r.page, r.checksum)>>)), p, r.old)
      ELSE [Shrunk(branch, i, r) EXCEPT !.m = conditional_free(@, p)]

RECURSIVE delete_helper(_, _, _, _)
delete_helper(m, p, checksum, key) ==
  IF IsLeaf(m, p) THEN delete_leaf_helper(m, p, checksum, key)
  ELSE LET branch == m.pages[p]
           i == child_for_key(branch.keys, key)
       IN  delete_branch(p, checksum, i, delete_helper(m, branch.children[i].page,
                                                       branch.children[i].checksum, key))

\* The root after a deletion below it; a small leaf is built again.
delete_root(length, r) ==
  CASE r.kind = "DeletedLeaf" -> Changed(r.m, <<>>, r.old)
    [] r.kind = "PartialLeaf" -> NewRoot(leaf_build(r.m, r.pairs), length, r.old)
    [] OTHER -> Changed(r.m, <<Header(r.page, r.checksum, length)>>, r.old)

Discounted_Always(length, r) == delete_root(length - 1, r)  \* faulty: though nothing was found
Discounted(length, r) == delete_root(IF r.old = <<>> THEN length ELSE length - 1, r)

delete(m, root, key) ==
  IF root = <<>> THEN Changed(m, root, <<>>)
  ELSE Discounted(root[1].length, delete_helper(m, root[1].root, root[1].checksum, key))

=============================================================================
