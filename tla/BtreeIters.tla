----------------------------- MODULE BtreeIters -----------------------------
(***************************************************************************)
(* The range iterator of btree_iters.rs as functions of the pages.         *)
(*                                                                         *)
(* A RangeIterState is the stack of its frames, the innermost first; a     *)
(* frame is a page with the position of an entry (leaf) or of the child to *)
(* visit next (branch).  The empty stack is None.  An iterator has such a  *)
(* state on each side, and on each side whether the entry there is still   *)
(* to be returned.                                                         *)
(***************************************************************************)
EXTENDS BtreeMutator, Integers

Frame(page, pos) == [page |-> page, pos |-> pos]
Width(m, p) == IF IsLeaf(m, p) THEN Len(m.pages[p].pairs) ELSE Len(m.pages[p].children)
Step(side) == IF side = "left" THEN 1 ELSE -1
Other(side) == IF side = "left" THEN "right" ELSE "left"
FirstPos(m, p, side) == IF side = "left" THEN 1 ELSE Width(m, p)

\* A frame to come back to, if there is one at pos.
Pushed(m, p, pos, stack) == IF pos \in 1..Width(m, p) THEN <<Frame(p, pos)>> \o stack ELSE stack

\* RangeIterState::next().
state_next(m, stack, side) ==
  LET top == stack[1]
      rest == Pushed(m, top.page, top.pos + Step(side), Tail(stack))
      child == m.pages[top.page].children[top.pos].page
  IN  IF IsLeaf(m, top.page) THEN rest
      ELSE <<Frame(child, FirstPos(m, child, side))>> \o rest

\* AllPageNumbersBtreeIter: from the root's first position, each page when it is entered.
RECURSIVE all_pages(_, _)
all_pages(m, stack) ==
  IF stack = <<>> THEN <<>>
  ELSE (IF stack[1].pos = 1 THEN <<stack[1].page>> ELSE <<>>)
         \o all_pages(m, state_next(m, stack, "left"))

RECURSIVE find_iter_unbounded(_, _, _, _)
find_iter_unbounded(m, p, stack, side) ==
  LET i == FirstPos(m, p, side)
  IN  IF IsLeaf(m, p) THEN <<Frame(p, i)>> \o stack
      ELSE find_iter_unbounded(m, m.pages[p].children[i].page,
                               <<Frame(p, i + Step(side))>> \o stack, side)

\* find_iter_left() and find_iter_right(): [include, state].
RECURSIVE find_iter(_, _, _, _, _, _)
find_iter(m, p, stack, side, query, include_query) ==
  LET node == m.pages[p]
      at == position(node.pairs, query)
      end == at > Len(node.pairs)
      hit == found(node.pairs, query)
      i == child_for_key(node.keys, query)
  IN  IF IsLeaf(m, p)
      THEN [include |-> IF side = "left" THEN ~end /\ (include_query \/ ~hit)
                                         ELSE end \/ (include_query /\ hit),
            state |-> <<Frame(p, IF end THEN at - 1 ELSE at)>> \o stack]
      ELSE find_iter(m, node.children[i].page, Pushed(m, p, i + Step(side), stack),
                     side, query, include_query)

-----------------------------------------------------------------------------
(* BtreeRangeIter.  A bound is <<"Unbounded">>, <<"Included", k>> or       *)
(* <<"Excluded", k>>.                                                      *)

range_is_empty(start, end) ==
  /\ start[1] # "Unbounded" /\ end[1] # "Unbounded"
  /\ \/ start[2] > end[2]
     \/ start[2] = end[2] /\ (start[1] = "Excluded" \/ end[1] = "Excluded")

ClosedIter == [at |-> [left |-> <<>>, right |-> <<>>], include |-> [left |-> FALSE, right |-> FALSE]]

find_bound(m, p, bound, side) ==
  IF bound[1] = "Unbounded"
  THEN [include |-> TRUE, state |-> find_iter_unbounded(m, p, <<>>, side)]
  ELSE find_iter(m, p, <<>>, side, bound[2], bound[1] = "Included")

BothEnds(left, right) ==
  [at |-> [left |-> left.state, right |-> right.state],
   include |-> [left |-> left.include, right |-> right.include]]

range_iter(m, root, start, end) ==
  IF range_is_empty(start, end) \/ root = <<>> THEN ClosedIter
  ELSE BothEnds(find_bound(m, root[1].root, start, "left"),
                find_bound(m, root[1].root, end, "right"))

\* Both sides are in one leaf, and crossed or on an entry that only some side excludes.
Met(m, it, sides) ==
  LET l == it.at.left  r == it.at.right
  IN  /\ l # <<>> /\ r # <<>>
      /\ IsLeaf(m, l[1].page) /\ l[1].page = r[1].page
      /\ \/ l[1].pos > r[1].pos
         \/ l[1].pos = r[1].pos /\ \E s \in sides : ~it.include[s]

\* next() takes from the left side, next_back() from the right one.  The result is the
\* iterator and the sequence of the pair that is returned.
Advanced(m, it, side) ==
  IF it.include[side] \/ it.at[side] = <<>> THEN it
  ELSE [it EXCEPT !.at[side] = state_next(m, @, side)]

RECURSIVE iter_loop(_, _, _)
iter_loop(m, it, side) ==   \* it has been advanced
  LET now == [it EXCEPT !.include[side] = FALSE]
      top == it.at[side][1]
  IN  IF it.at[side] = <<>> \/ Met(m, it, {Other(side)}) THEN [it |-> it, item |-> <<>>]
      ELSE IF IsLeaf(m, top.page) THEN [it |-> now, item |-> <<m.pages[top.page].pairs[top.pos]>>]
      ELSE iter_loop(m, Advanced(m, now, side), side)

iter_next_Unmet(m, it, side) == iter_loop(m, Advanced(m, it, side), side)  \* faulty: an end that met the other goes on

iter_next(m, it, side) ==
  IF Met(m, it, {"left", "right"}) THEN [it |-> it, item |-> <<>>]
  ELSE iter_loop(m, Advanced(m, it, side), side)

=============================================================================
