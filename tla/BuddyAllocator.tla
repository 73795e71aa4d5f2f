--------------------------- MODULE BuddyAllocator ---------------------------
(***************************************************************************)
(* The buddy allocator of a region (buddy_allocator.rs): a bitmap for each *)
(* order, in which a block of 2^order pages that is free is unset.  The    *)
(* capacity of a region is RegionPages, of Layout.                         *)
(***************************************************************************)
EXTENDS BtreeBitmap, Layout

\* calculate_usable_order(): the largest order whose blocks fit.
MaxOrder == CHOOSE o \in 0..RegionPages : 2^o <= RegionPages /\ RegionPages < 2^(o + 1)

next_higher_order(page) == page \div 2
buddy_page(page) == IF page % 2 = 0 THEN page + 1 ELSE page - 1

Orders == 0..MaxOrder

\* new(): blocks of the highest order first.
RECURSIVE mark_available(_, _, _, _)
mark_available(a, order, accounted, num) ==
  IF order < 0 THEN a
  ELSE IF accounted + 2^order <= num
  THEN mark_available([a EXCEPT !.free[order] = bitmap_clear(@, accounted \div 2^order)],
                      order, accounted + 2^order, num)
  ELSE mark_available(a, order - 1, accounted, num)

buddy_new(num) ==
  mark_available([len |-> num,
                  free |-> [o \in Orders |-> bitmap_new(num \div 2^o, RegionPages \div 2^o)]],
                 MaxOrder, 0, num)

highest_free_order(a) ==
  CHOOSE o \in Orders : has_unset(a.free[o]) /\ \A p \in Orders : has_unset(a.free[p]) => p <= o

\* find_free_order(): the order at which a page is free.
find_free_order(a, page) ==
  Least({o \in Orders : page \div 2^o < bitmap_len(a.free[o]) /\ ~bitmap_get(a.free[o], page \div 2^o)})

RECURSIVE trailing_free(_, _)
trailing_free(a, next) ==
  LET o == find_free_order(a, next)
  IN  IF o = <<>> THEN 0
      ELSE 2^o[1] + (IF 2^o[1] > next THEN 0 ELSE trailing_free(a, next - 2^o[1]))

trailing_free_pages(a) == trailing_free(a, a.len - 1)

count_free_pages(a) ==
  LET sum[o \in 0..(MaxOrder + 1)] ==
        IF o = 0 THEN 0 ELSE sum[o - 1] + count_unset(a.free[o - 1]) * 2^(o - 1)
  IN  sum[MaxOrder + 1]

\* free_inner(): merges with the buddy as long as that is free.
free_inner_NoMerge(a, page, order) == [a EXCEPT !.free[order] = bitmap_clear(@, page)]  \* faulty

RECURSIVE free_inner(_, _, _)
free_inner(a, page, order) ==
  LET f == a.free[order]
      buddy == buddy_page(page)
  IN  IF order = MaxOrder \/ buddy >= bitmap_len(f) \/ bitmap_get(f, buddy)
      THEN [a EXCEPT !.free[order] = bitmap_clear(f, page)]
      ELSE free_inner([a EXCEPT !.free[order] = bitmap_set(f, buddy)], next_higher_order(page), order + 1)

\* alloc_inner(): [a, page], the page <<>> if there is none; splits a larger block.
RECURSIVE alloc_inner(_, _)
alloc_inner(a, order) ==
  IF order > MaxOrder THEN [a |-> a, page |-> <<>>]
  ELSE LET first == find_first_unset(a.free[order])
           upper == alloc_inner(a, order + 1)
       IN  IF first # <<>>
           THEN [a |-> [a EXCEPT !.free[order] = bitmap_set(@, first[1])], page |-> first]
           ELSE IF upper.page = <<>> THEN upper
           ELSE [a |-> [upper.a EXCEPT !.free[order] = bitmap_clear(@, 2 * upper.page[1] + 1)],
                 page |-> <<2 * upper.page[1]>>]

\* record_alloc_inner(): splits the block that holds the page as necessary.
RECURSIVE record_alloc_inner(_, _, _)
record_alloc_inner(a, page, order) ==
  IF bitmap_get(a.free[order], page)
  THEN [record_alloc_inner(a, next_higher_order(page), order + 1)
          EXCEPT !.free[order] = bitmap_clear(@, buddy_page(page))]
  ELSE [a EXCEPT !.free[order] = bitmap_set(@, page)]

\* alloc_lowest(): takes a block of every order, keeps the lowest, splits it.
\* What is kept of the block r of order i and the lowest so far, best; the other is freed.
KeepLower(r, best, order, i) ==
  IF r.page = <<>> THEN [a |-> r.a, best |-> best]
  ELSE IF r.page[1] * 2^(i - order) < best.page * 2^(best.order - order)
  THEN [a |-> free_inner(r.a, best.page, best.order), best |-> [page |-> r.page[1], order |-> i]]
  ELSE [a |-> free_inner(r.a, r.page[1], i), best |-> best]

RECURSIVE lowest_of(_, _, _)
lowest_of(l, order, i) ==
  IF i > MaxOrder THEN l
  ELSE lowest_of(KeepLower(alloc_inner(l.a, i), l.best, order, i), order, i + 1)

RECURSIVE split(_, _, _, _)
split(a, page, at, order) ==
  IF at = order THEN [a |-> a, page |-> <<page>>]
  ELSE split([a EXCEPT !.free[at - 1] = bitmap_clear(@, 2 * page + 1)], 2 * page, at - 1, order)

SplitLowest(l, order) == split(l.a, l.best.page, l.best.order, order)
LowestFrom(first, order) ==
  IF first.page = <<>> THEN first
  ELSE SplitLowest(lowest_of([a |-> first.a, best |-> [page |-> first.page[1], order |-> order]],
                             order, order + 1), order)
alloc_lowest(a, order) == LowestFrom(alloc_inner(a, order), order)

\* resize(): the blocks between the two sizes are freed, or are taken, at the highest
\* order that is aligned and fits, then from the highest order down.
trailing_zeros(n) == CHOOSE z \in 0..n : n % 2^z = 0 /\ n % 2^(z + 1) # 0

RECURSIVE cover(_, _, _, _)
cover(a, done, end, take) ==
  LET o == trailing_zeros(done)
      fits == {p \in Orders : done + 2^p <= end}
      q == CHOOSE p \in fits : \A r \in fits : r <= p
      block(x, at) == IF take THEN record_alloc_inner(a, x, at) ELSE free_inner(a, x, at)
  IN  IF done = end THEN a
      ELSE IF o < MaxOrder /\ done + 2^o <= end
      THEN cover(block(done \div 2^o, o), done + 2^o, end, take)
      ELSE cover(block(done \div 2^q, q), done + 2^q, end, take)

buddy_resize(a, num) ==
  LET fit(b) == [len |-> num, free |-> [o \in Orders |-> bitmap_resize(b.free[o], num \div 2^o)]]
  IN  IF num > a.len THEN cover(fit(a), a.len, num, FALSE)
      ELSE fit(cover(a, num, a.len, TRUE))

buddy_reload(a) == [a EXCEPT !.free = [o \in Orders |-> bitmap_reload(@[o])]]

=============================================================================
