------------------------------ MODULE BtreeOps ------------------------------
(***************************************************************************)
(* What btree.rs does with a whole tree: lookups, get_mut(), the checksums *)
(* of dirty pages, relocation, and removal while an iterator reads the     *)
(* tree.  Functions of the pages, as in BtreeMutator.                      *)
(***************************************************************************)
EXTENDS BtreeIters

RECURSIVE Reach(_, _)
Reach(m, p) ==
  {p} \cup IF IsLeaf(m, p) THEN {}
           ELSE UNION {Reach(m, m.pages[p].children[i].page) : i \in DOMAIN m.pages[p].children}

\* visit_all_pages().
PagesOf(m, header) == IF header = <<>> THEN {} ELSE Reach(m, header[1].root)

\* Btree::get().
RECURSIVE get_helper(_, _, _)
get_helper(m, p, key) ==
  LET node == m.pages[p]
  IN  IF IsLeaf(m, p)
      THEN IF found(node.pairs, key) THEN <<node.pairs[position(node.pairs, key)][2]>> ELSE <<>>
      ELSE get_helper(m, node.children[child_for_key(node.keys, key)].page, key)

get(m, header, key) == IF header = <<>> THEN <<>> ELSE get_helper(m, header[1].root, key)

\* UntypedBtreeMut::finalize_dirty_checksums(): [m, checksum].
RECURSIVE finalize_helper(_, _)
finalize_helper(m, p) ==
  LET after[i \in 0..Width(m, p)] ==
        IF i = 0 THEN m
        ELSE LET c == m.pages[p].children[i].page
                 f == finalize_helper(after[i - 1], c)
             IN  IF uncommitted(m, c) THEN write_child_page(f.m, p, i, c, f.checksum)
                 ELSE after[i - 1]
      done == IF IsLeaf(m, p) THEN m ELSE after[Width(m, p)]
  IN  [m |-> done, checksum |-> Checksum(done, p)]

finalize_dirty_checksums_RootOnly(m, header) ==  \* faulty: the branches keep old checksums
  IF header = <<>> \/ ~uncommitted(m, header[1].root) THEN Changed(m, header, <<>>)
  ELSE Changed(m, <<[header[1] EXCEPT !.checksum = Checksum(m, header[1].root)]>>, <<>>)

Finalized(f, header) == Changed(f.m, <<[header EXCEPT !.checksum = f.checksum]>>, <<>>)

finalize_dirty_checksums(m, header) ==
  IF header = <<>> \/ ~uncommitted(m, header[1].root) THEN Changed(m, header, <<>>)
  ELSE Finalized(finalize_helper(m, header[1].root), header[1])

\* RawBtree::verify_checksum().
RECURSIVE verify_checksum_helper(_, _, _)
verify_checksum_helper(m, p, expected) ==
  /\ expected = Checksum(m, p)
  /\ ~IsLeaf(m, p) =>
       \A i \in DOMAIN m.pages[p].children :
         LET c == m.pages[p].children[i] IN verify_checksum_helper(m, c.page, c.checksum)

verify_checksum(m, header) ==
  header = <<>> \/ verify_checksum_helper(m, header[1].root, header[1].checksum)

\* What insert_inplace_helper() asserts of the path to a key.
RECURSIVE DirtyPath(_, _, _)
DirtyPath(m, p, key) ==
  /\ uncommitted(m, p)
  /\ ~IsLeaf(m, p) =>
       DirtyPath(m, m.pages[p].children[child_for_key(m.pages[p].keys, key)].page, key)

\* BtreeMut::get_mut(): copies the pages of the path that are committed.
Copied(a, p, header) ==
  NewRoot([a EXCEPT !.m.freed = Append(@, p)], header.length, <<>>)

OwnRoot(m, header) ==
  IF uncommitted(m, header[1].root) THEN Changed(m, header, <<>>)
  ELSE Copied(Allocate(m, m.pages[header[1].root]), header[1].root, header[1])

\* The pairs of the leaf p move to the new page; parent is the sequence of the branch
\* above and the position in it.
Moved(new, p, header, parent) ==
  IF parent = <<>> THEN NewRoot([new EXCEPT !.m = Free(@, p)], header[1].length, <<>>)
  ELSE Changed(Free(write_child_page(new.m, parent[1], parent[2], new.page, DEFERRED), p),
               header, <<>>)

OwnChild(a, p, i, c) ==
  [a EXCEPT !.m = write_child_page([a.m EXCEPT !.freed = Append(@, c)], p, i, a.page, DEFERRED)]

\* get_mut_helper() and, where the key is found, AccessGuardMut::insert(), on the page
\* at.page of memory at.m.
RECURSIVE get_mut_helper(_, _, _, _, _)
get_mut_helper(at, header, parent, key, value) ==
  LET m == at.m
      node == m.pages[at.page]
      i == child_for_key(node.keys, key)
      c == node.children[i].page
      pairs == Inserted(node.pairs, key, value)
  IN  IF ~IsLeaf(m, at.page)
      THEN get_mut_helper(IF uncommitted(m, c) THEN [at EXCEPT !.page = c]
                          ELSE OwnChild(Allocate(m, m.pages[c]), at.page, i, c),
                          header, <<at.page, i>>, key, value)
      ELSE IF ~found(node.pairs, key) THEN Changed(m, header, <<>>)
      ELSE IF sufficient_insert_inplace_space(node, key, value)
      THEN Changed(Write(m, at.page, [node EXCEPT !.pairs = pairs]), header, <<>>)
      ELSE Moved(leaf_build(m, pairs), at.page, header, parent)

Descend(o, key, value) ==
  get_mut_helper([m |-> o.m, page |-> o.root[1].root], o.root, <<>>, key, value)

get_mut(m, header, key, value) ==
  IF header = <<>> THEN Changed(m, header, <<>>) ELSE Descend(OwnRoot(m, header), key, value)

\* UntypedBtreeMut::relocate(): the pages that the map names move; each one's parent
\* is in the map too.  The result of a subtree is the sequence of its new root.
RECURSIVE relocate_helper(_, _, _)
relocate_helper(m, p, map) ==
  LET after[i \in 0..Width(m, p)] ==
        IF i = 0 THEN Write(m, map[p], m.pages[p])
        ELSE LET r == relocate_helper(after[i - 1], m.pages[p].children[i].page, map)
             IN  IF r.page = <<>> THEN r.m
                 ELSE write_child_page(r.m, map[p], i, r.page[1], DEFERRED)
  IN  IF p \notin DOMAIN map THEN [m |-> m, page |-> <<>>]
      ELSE [m |-> free_if_uncommitted(after[IF IsLeaf(m, p) THEN 0 ELSE Width(m, p)], p),
            page |-> <<map[p]>>]

Relocated(m, header, r) ==
  IF r.page = <<>> THEN Changed(m, header, <<>>)
  ELSE Changed(r.m, <<Header(r.page[1], DEFERRED, header[1].length)>>, <<>>)

relocate(m, header, map) == Relocated(m, header, relocate_helper(m, header[1].root, map))

\* The removals of retain() and of extract_if(): the tree that the iterator reads stays,
\* the pages given up are listed in m.freed.  n is what the iterator returned.
RECURSIVE retain_loop(_, _, _)
retain_loop(tree, n, keep) ==
  IF n.item = <<>> THEN [tree EXCEPT !.old = <<>>]
  ELSE retain_loop(IF n.item[1][1] \in keep THEN tree
                   ELSE delete(tree.m, tree.root, n.item[1][1]),
                   iter_next(tree.m, n.it, "left"), keep)

retain_in(m, header, it, keep) ==
  retain_loop(Changed(m, header, <<>>), iter_next(m, it, "left"), keep)

Extracted(d, n) == [m |-> d.m, root |-> d.root, it |-> n.it, item |-> n.item]

RECURSIVE extract_loop(_, _, _, _, _)
extract_loop(m, header, n, side, matches) ==
  IF n.item = <<>> THEN Extracted([m |-> m, root |-> header], n)
  ELSE IF n.item[1][1] \in matches THEN Extracted(delete(m, header, n.item[1][1]), n)
  ELSE extract_loop(m, header, iter_next(m, n.it, side), side, matches)

extract_next(m, header, it, side, matches) ==
  extract_loop(m, header, iter_next(m, it, side), side, matches)

\* What is done with the pages listed, when the iterator is gone.
RECURSIVE release(_, _)
release(m, list) ==
  IF list = <<>> THEN m ELSE release(free_if_uncommitted(m, Head(list)), Tail(list))

-----------------------------------------------------------------------------
(* btree_stats().                                                          *)

PageLen(m, p) == PageSize * 2^m.pages[p].order

Stats(leaf_pages, branch_pages, stored, used, len) ==
  [tree_height |-> 0, leaf_pages |-> leaf_pages, branch_pages |-> branch_pages,
   stored_leaf_bytes |-> stored, metadata_bytes |-> used - stored, fragmented_bytes |-> len - used]

\* A page's own statistics and those of what is below it.
Above(own, below) ==
  LET add[i \in 0..Len(below)] ==
        IF i = 0 THEN own
        ELSE [f \in DOMAIN own |->
                IF f # "tree_height" THEN add[i - 1][f] + below[i][f]
                ELSE IF add[i - 1][f] > below[i][f] THEN add[i - 1][f] ELSE below[i][f]]
  IN  [add[Len(below)] EXCEPT !.tree_height = @ + 1]

RECURSIVE stats_helper(_, _)
stats_helper(m, p) ==
  LET node == m.pages[p]
  IN  IF IsLeaf(m, p)
      THEN Above(Stats(1, 0, length_of_pairs(node.pairs), LeafBytes(node.pairs), PageLen(m, p)), <<>>)
      ELSE Above(Stats(0, 1, 0, BranchBytes(node.keys), PageLen(m, p)),
                 [i \in DOMAIN node.children |-> stats_helper(m, node.children[i].page)])

btree_stats(m, header) ==
  IF header = <<>> THEN Stats(0, 0, 0, 0, 0) ELSE stats_helper(m, header[1].root)

-----------------------------------------------------------------------------
(* Which page numbers a tree has does not matter between transactions.     *)
(* Rename() gives them the names 1, 2, ..., in the checksums and in the    *)
(* headers of a multimap's subtrees as well, and drops all other pages.    *)

HasRoot(pair) == "root" \in DOMAIN pair[2]

RECURSIVE PreOrder(_, _)
PreOrder(m, p) ==
  LET below[i \in 0..Width(m, p)] ==
        IF i = 0 THEN <<p>>
        ELSE IF ~IsLeaf(m, p) THEN below[i - 1] \o PreOrder(m, m.pages[p].children[i].page)
        ELSE IF HasRoot(m.pages[p].pairs[i])
        THEN below[i - 1] \o PreOrder(m, m.pages[p].pairs[i][2].root.root)
        ELSE below[i - 1]
  IN  below[Width(m, p)]

RECURSIVE Renamed(_, _)
Renamed(name, node) ==
  LET checksum(c) == [j \in DOMAIN c |-> Renamed(name, c[j])]
      pair(e) == IF HasRoot(e)
                 THEN [e EXCEPT ![2].root = Header(name[@.root], checksum(@.checksum), @.length)]
                 ELSE e
  IN  IF node.type = "LEAF" THEN [node EXCEPT !.pairs = [i \in DOMAIN @ |-> pair(@[i])]]
      ELSE [node EXCEPT !.children = [i \in DOMAIN @ |->
              Child(name[@[i].page], checksum(@[i].checksum))]]

Named(m, header, order, name) ==
  [m |-> [m EXCEPT !.pages = [i \in DOMAIN order |-> Renamed(name, m.pages[order[i]])],
                   !.committed = DOMAIN order, !.freed = <<>>],
   root |-> [i \in DOMAIN header |->
               Header(name[header[i].root],
                      [j \in DOMAIN header[i].checksum |-> Renamed(name, header[i].checksum[j])],
                      header[i].length)]]

InOrderOf(m, header, order) ==
  Named(m, header, order,
        [p \in DOMAIN m.pages |->
           IF \E i \in DOMAIN order : order[i] = p
           THEN CHOOSE i \in DOMAIN order : order[i] = p ELSE 0])

Rename(m, header) ==
  InOrderOf(m, header, IF header = <<>> THEN <<>> ELSE PreOrder(m, header[1].root))

=============================================================================
